---------------------------- MODULE KeepAliveProofs ----------------------------
(***************************************************************************)
(* The session is kept for any timeouts that servers grant, and whatever   *)
(* length of an exchange and lateness of usleep the timeout is long        *)
(* against, until something is slower than these or lost.                  *)
(***************************************************************************)
EXTENDS KeepAlive, TLAPS

USE KeepAliveAssumption

LEMMA Seconds ==
  ASSUME NEW t \in Nat
  PROVE  /\ t \div 5 \in Nat
         /\ 5 * (t \div 5) <= t /\ t < 5 * (t \div 5) + 5
         /\ t \div 5 <= (t + 1) \div 5
OBVIOUS

LEMMA Sixth ==
  ASSUME NEW t \in Nat
  PROVE  (t \div 1000) \div 6 \in Nat /\ 6000 * ((t \div 1000) \div 6) <= t
OBVIOUS

LEMMA GrantedIsNat == ASSUME TypeOK, NEW s \in Servers PROVE Granted(s) \in Nat
BY DEF TypeOK, Granted

-----------------------------------------------------------------------------
(* Types.                                                                  *)

LEMMA TypesInit == Init => TypeOK
<1> SUFFICES ASSUME Init PROVE TypeOK
  OBVIOUS
<1>1. Second \in Nat
  BY Seconds DEF Init, Second
<1>2. session \in BOOLEAN /\ hitch \in BOOLEAN
  BY DEF Init
<1> QED BY <1>1, <1>2 DEF Init, TypeOK

\* What a cancelled thread does leaves the cancelled threads as they should be.
LEMMA LateStep ==
  ASSUME TypeOK, Second' = Second, NEW l \in late,
         \/ Unlocks(l)
         \/ late' = late \ {l}
  PROVE  late' \subseteq [of : 0..MaxSessions, at : {"decode", "unlock", "store"}, now : 0..Second']
<1>1. l \in [of : 0..MaxSessions, at : {"decode", "unlock", "store"}, now : 0..Second]
  BY DEF TypeOK
<1>2. [l EXCEPT !.at = "store"]
        \in [of : 0..MaxSessions, at : {"decode", "unlock", "store"}, now : 0..Second]
  BY <1>1
<1> QED BY <1>2 DEF TypeOK, Unlocks

LEMMA TypesStep == TypeOK /\ [Next]_vars => TypeOK'
<1> SUFFICES ASSUME TypeOK, [Next]_vars PROVE TypeOK'
  OBVIOUS
<1>0. clock \in Nat /\ Second \in Nat /\ (clock' = clock => Second' = Second)
  BY Seconds DEF TypeOK, Second
<1>1. CASE Test
  BY <1>0, <1>1 DEF Test, TypeOK, serverVars
<1>2. CASE Lock
  BY <1>0, <1>2 DEF Lock, TypeOK, serverVars
<1>3. CASE Send
  <2>1. /\ pc = "send" /\ pc' \in {"reply", "unlock"} /\ (silent' = 0 \/ silent' = silent)
        /\ UNCHANGED <<clock, timeout, main, last_ping, now, slept, late, lock, held>>
        /\ UNCHANGED <<sessions, session, granted>>
    BY <1>3 DEF Send, Arrives, Vanishes
  <2>2. hitch' \in BOOLEAN
    BY <1>3 DEF Send, Arrives, Vanishes, TypeOK
  <2> QED BY <1>0, <2>1, <2>2 DEF TypeOK
<1>4. CASE Reply
  BY <1>0, <1>4 DEF Reply, TypeOK, serverVars
<1>5. CASE Unlock
  BY <1>0, <1>5 DEF Unlock, TypeOK, serverVars
<1>6. CASE Store
  BY <1>0, <1>6 DEF Store, TypeOK, serverVars
<1>7. CASE Wake
  BY <1>0, <1>7 DEF Wake, TypeOK, serverVars
<1>8. CASE UnlockLate
  <2>1. late' \subseteq [of : 0..MaxSessions, at : {"decode", "unlock", "store"}, now : 0..Second']
    BY <1>0, <1>8, LateStep DEF UnlockLate
  <2>2. lock' = "free"
    BY <1>8 DEF UnlockLate, Unlocks
  <2>3. UNCHANGED <<clock, timeout, main, last_ping, pc, now, slept, held, serverVars>>
    BY <1>8 DEF UnlockLate
  <2> QED BY <1>0, <2>1, <2>2, <2>3 DEF TypeOK, serverVars
<1>9. CASE StoreLate
  <2>1. PICK l \in late : l.at = "store" /\ last_ping' = l.now /\ late' = late \ {l}
    BY <1>9 DEF StoreLate
  <2>2. UNCHANGED <<clock, timeout, main, pc, now, slept, lock, held, serverVars>>
    BY <1>9 DEF StoreLate
  <2>3. l.now \in 0..Second
    BY <2>1 DEF TypeOK
  <2> QED BY <1>0, <2>1, <2>2, <2>3 DEF TypeOK, serverVars
<1>10. CASE Authenticate
  <2>1. granted' \in Nat
    BY <1>10, GrantedIsNat DEF Authenticate
  <2>2. sessions' \in 0..MaxSessions
    BY <1>10 DEF Authenticate, TypeOK
  <2>3. held' \in [{"main", "ping"} -> 0..Hold]
    BY <1>10 DEF Authenticate, TypeOK
  <2> QED BY <1>0, <1>10, <2>1, <2>2, <2>3 DEF Authenticate, TypeOK, pingVars
<1>11. CASE Authenticated
  BY <1>0, <1>11 DEF Authenticated, TypeOK, serverVars
<1>12. CASE Misled
  <2>1. late' \subseteq [of : 0..MaxSessions, at : {"decode", "unlock", "store"}, now : 0..Second']
    BY <1>0, <1>12, LateStep DEF Misled
  <2>2. lock' = "free"
    BY <1>12 DEF Misled, Unlocks
  <2>3. UNCHANGED <<clock, timeout, last_ping, now, slept, held, sessions, session, granted>>
        /\ main' = "idle" /\ pc' = "test" /\ hitch' = TRUE /\ silent' = 0
    BY <1>12 DEF Misled, Vanishes
  <2> QED BY <1>0, <2>1, <2>2, <2>3 DEF TypeOK
<1>13. CASE Refused
  BY <1>0, <1>13 DEF Refused, TypeOK, pingVars
<1>14. CASE Request
  BY <1>0, <1>14 DEF Request, TypeOK, pingVars, serverVars
<1>15. CASE SendRequest
  <2>1. /\ main = "send" /\ (silent' = 0 \/ silent' = silent)
        /\ \/ main' = "busy" /\ lock' = lock
           \/ main' = "idle" /\ lock' = "free"
        /\ UNCHANGED <<clock, timeout, last_ping, pc, now, slept, late, held>>
        /\ UNCHANGED <<sessions, session, granted>>
    BY <1>15 DEF SendRequest, Arrives, Vanishes, pingVars
  <2>2. hitch' \in BOOLEAN
    BY <1>15 DEF SendRequest, Arrives, Vanishes, TypeOK
  <2> QED BY <1>0, <2>1, <2>2 DEF TypeOK
<1>16. CASE Answered
  BY <1>0, <1>16 DEF Answered, TypeOK, pingVars, serverVars
<1>17. CASE Check
  BY <1>0, <1>17 DEF Check, TypeOK, pingVars, serverVars
<1>18. CASE Reconnect
  BY <1>0, <1>18 DEF Reconnect, TypeOK, pingVars, serverVars
<1>19. CASE Open
  BY <1>0, <1>19 DEF Open, TypeOK, pingVars, serverVars
<1>20. CASE Cancel
  <2>1. /\ main = "cancel" /\ main' = "down" /\ pc' = "none" /\ last_ping' = 0
        /\ UNCHANGED <<clock, timeout, now, slept, held, sessions, granted, hitch>>
        /\ session' = FALSE /\ silent' = 0
    BY <1>20 DEF Cancel
  <2>2. lock' \in {"free", "gone"}
    BY <1>20 DEF Cancel, TypeOK
  <2>3. \/ late' = late
        \/ /\ pc \in {"decode", "unlock", "store"}
           /\ late' = late \cup {[of |-> sessions, at |-> pc, now |-> now]}
    BY <1>20 DEF Cancel
  <2>4. late' \subseteq [of : 0..MaxSessions, at : {"decode", "unlock", "store"}, now : 0..Second']
    <3>1. sessions \in 0..MaxSessions
      BY DEF TypeOK
    <3> QED BY <1>0, <2>1, <2>3, <3>1 DEF TypeOK
  <2>5. session' \in BOOLEAN
    BY <2>1
  <2>6. 0 \in 0..Second
    BY <1>0
  <2> QED BY <1>0, <2>1, <2>2, <2>4, <2>5, <2>6 DEF TypeOK
<1>21. CASE Tick
  <2>1. /\ clock' = clock + 1 /\ clock < MaxTime
        /\ UNCHANGED <<timeout, main, last_ping, pc, now, late, lock, sessions, session, granted>>
    BY <1>21 DEF Tick
  <2>2. Second <= Second' /\ Second' \in Nat /\ clock' \in 0..MaxTime
    BY <1>0, <2>1, Seconds DEF Second, TypeOK
  <2>3. slept' \in 0..(1 + Jitter)
    BY <1>21 DEF Tick, TypeOK
  <2>4. held' \in [{"main", "ping"} -> 0..Hold]
    BY <1>21 DEF Tick, TypeOK
  <2>5. silent' \in Nat
    BY <1>21 DEF Tick, TypeOK
  <2>6. hitch' \in BOOLEAN
    BY <1>21 DEF Tick, TypeOK
  <2>7. 0..Second \subseteq 0..Second'
    BY <1>0, <2>2
  <2>8. last_ping' \in 0..Second' /\ now' \in 0..Second'
    BY <2>1, <2>7 DEF TypeOK
  <2>9. late' \subseteq [of : 0..MaxSessions, at : {"decode", "unlock", "store"}, now : 0..Second']
    BY <2>1, <2>7 DEF TypeOK
  <2> QED BY <2>1, <2>2, <2>3, <2>4, <2>5, <2>6, <2>8, <2>9 DEF TypeOK
<1>22. CASE UNCHANGED vars
  BY <1>0, <1>22 DEF vars, pingVars, serverVars, TypeOK
<1> QED
  BY <1>1, <1>2, <1>3, <1>4, <1>5, <1>6, <1>7, <1>8, <1>9, <1>10, <1>11, <1>12, <1>13,
     <1>14, <1>15, <1>16, <1>17, <1>18, <1>19, <1>20, <1>21, <1>22 DEF Next

\* The types of the state; no thread that is out of its exchange holds the
\* lock, whatever the unlocks of zk_del, of ERROR and of cancelled threads do.
THEOREM KeepAliveTypes == Spec => []TypeOK
BY TypesInit, TypesStep, PTL DEF Spec

-----------------------------------------------------------------------------
(* Timing.                                                                 *)

LEMMA TimingInit == Init => TimingInv
<1> SUFFICES ASSUME Init PROVE TimingInv
  OBVIOUS
<1>1. ~session /\ main = "down" /\ pc = "none"
  BY DEF Init
<1> QED BY <1>1 DEF TimingInv, Heard, Phases, Begun, Timely

LEMMA PhasesStep == TypeOK /\ Phases /\ [Next]_vars => Phases'
<1> SUFFICES ASSUME TypeOK, Phases, [Next]_vars PROVE Phases'
  OBVIOUS
<1>1. CASE Test \/ Lock \/ Reply \/ Unlock \/ Store \/ Wake \/ UnlockLate \/ StoreLate
  <2>1. UNCHANGED <<main, session, timeout, granted, hitch>>
    BY <1>1 DEF Test, Lock, Reply, Unlock, Store, Wake, UnlockLate, StoreLate, serverVars
  <2> QED BY <2>1 DEF Phases
<1>2. CASE Send \/ Tick
  <2>1. UNCHANGED <<main, session, timeout, granted>>
    BY <1>2 DEF Send, Tick, Arrives, Vanishes
  <2>2. CASE Send
    <3>1. hitch' = hitch \/ hitch' = TRUE
      BY <2>2 DEF Send, Arrives, Vanishes
    <3> QED BY <2>1, <3>1 DEF Phases
  <2>3. CASE Tick
    <3>1. hitch => hitch'
      BY <2>3 DEF Tick
    <3> QED BY <2>1, <3>1 DEF Phases
  <2> QED BY <1>2, <2>2, <2>3
<1>3. CASE Authenticate
  BY <1>3 DEF Authenticate, Phases
<1>4. CASE Authenticated
  BY <1>4 DEF Authenticated, Phases, serverVars
<1>5. CASE Misled
  BY <1>5 DEF Misled, Vanishes, Phases
<1>6. CASE Refused \/ Cancel
  BY <1>6 DEF Refused, Cancel, Phases
<1>7. CASE Request \/ Answered \/ Check \/ Reconnect \/ Open
  <2>1. UNCHANGED <<session, timeout, granted, hitch>> /\ main \notin {"down", "auth"}
        /\ main' \notin {"down", "auth"}
    BY <1>7 DEF Request, Answered, Check, Reconnect, Open, serverVars
  <2> QED BY <2>1 DEF Phases
<1>8. CASE SendRequest
  <2>1. UNCHANGED <<session, timeout, granted>> /\ (hitch => hitch')
        /\ main \notin {"down", "auth"} /\ main' \notin {"down", "auth"}
    BY <1>8 DEF SendRequest, Arrives, Vanishes
  <2> QED BY <2>1 DEF Phases
<1>9. CASE UNCHANGED vars
  BY <1>9 DEF vars, serverVars, Phases
<1> QED BY <1>1, <1>2, <1>3, <1>4, <1>5, <1>6, <1>7, <1>8, <1>9 DEF Next

\* What a tick does to the counts while nothing is slow.
LEMMA TickCounts ==
  ASSUME TypeOK, Tick, ~hitch'
  PROVE  /\ ~hitch /\ lock # "gone"
         /\ session => silent' = silent + 1
         /\ main \in {"send", "busy", "auth"} => held.main < Hold /\ held'.main = held.main + 1
         /\ pc \in {"send", "reply"} => held.ping < Hold /\ held'.ping = held.ping + 1
         /\ pc = "sleep" => slept' = slept + 1
<1>1. ~hitch /\ lock # "gone" /\ (session => silent' = silent + 1)
  BY DEF Tick
<1>2. /\ Waits("main") <=> main \in {"send", "busy", "auth"}
      /\ Waits("ping") <=> pc \in {"send", "reply"}
  BY DEF Waits
<1>3. held["main"] \in 0..Hold /\ held["ping"] \in 0..Hold /\ slept \in 0..(1 + Jitter)
  BY DEF TypeOK
<1>4. ASSUME NEW t \in {"main", "ping"}, Waits(t)
      PROVE  held[t] < Hold /\ held'[t] = held[t] + 1
  <2>1. held[t] # Hold
    BY <1>4 DEF Tick
  <2>2. held[t] < Hold
    BY <1>3, <2>1
  <2> QED BY <1>4, <2>2 DEF Tick
<1>5. pc = "sleep" => slept' = slept + 1
  BY <1>3 DEF Tick
<1> QED BY <1>1, <1>2, <1>4, <1>5

LEMMA BegunStep == TypeOK /\ Phases /\ Begun /\ [Next]_vars => Begun'
<1> SUFFICES ASSUME TypeOK, Phases, Begun, [Next]_vars, ~hitch' PROVE Begun'
  BY DEF Begun
<1>0. silent \in Nat /\ held.main \in Nat /\ held.ping \in Nat
  BY DEF TypeOK
<1>1. CASE Test \/ Lock \/ Reply \/ Unlock \/ Store \/ Wake \/ UnlockLate \/ StoreLate
  <2>1. UNCHANGED <<main, silent, hitch>> /\ held'.main = held.main
        /\ (pc' = "reply" => pc = "reply" /\ held' = held)
    BY <1>1 DEF Test, Lock, Reply, Unlock, Store, Wake, UnlockLate, StoreLate, serverVars, TypeOK
  <2> QED BY <2>1 DEF Begun
<1>2. CASE Send \/ SendRequest
  <2>1. silent' = 0 /\ held' = held
    BY <1>2 DEF Send, SendRequest, Arrives, Vanishes
  <2> QED BY <1>0, <2>1 DEF Begun
<1>3. CASE Authenticate
  <2>1. silent' = 0 /\ held'.main = 0 /\ held'.ping = held.ping
    BY <1>3 DEF Authenticate, TypeOK
  <2> QED BY <1>0, <2>1 DEF Begun
<1>4. CASE Authenticated \/ Answered \/ Check \/ Reconnect \/ Open
  <2>1. /\ UNCHANGED <<held, silent, hitch>> /\ main' \notin {"busy", "auth"}
        /\ (pc' = "reply" => pc = "reply")
    BY <1>4 DEF Authenticated, Answered, Check, Reconnect, Open, pingVars, serverVars
  <2> QED BY <2>1 DEF Begun
<1>5. CASE Misled
  BY <1>5 DEF Misled, Vanishes
<1>6. CASE Refused \/ Cancel
  <2>1. silent' = 0 /\ held' = held
    BY <1>6 DEF Refused, Cancel
  <2> QED BY <1>0, <2>1 DEF Begun
<1>7. CASE Request
  <2>1. UNCHANGED <<pc, silent, hitch>> /\ main' = "send" /\ held'.ping = held.ping
    BY <1>7 DEF Request, pingVars, serverVars, TypeOK
  <2> QED BY <2>1 DEF Begun
<1>8. CASE Tick
  <2>1. /\ UNCHANGED <<main, pc, session>> /\ ~hitch
        /\ (session => silent' = silent + 1) /\ (~session => silent' = 0)
    BY <1>8 DEF Tick
  <2>2. /\ main \in {"busy", "auth"} => held'.main = held.main + 1
        /\ pc = "reply" => held'.ping = held.ping + 1
    BY <1>8, TickCounts
  <2> QED BY <1>0, <2>1, <2>2 DEF Begun
<1>9. CASE UNCHANGED vars
  BY <1>9 DEF vars, pingVars, serverVars, Begun
<1> QED BY <1>1, <1>2, <1>3, <1>4, <1>5, <1>6, <1>7, <1>8, <1>9 DEF Next

\* What the server was told when it was last heard of.
LEMMA HeardStep == TypeOK /\ Phases /\ Heard /\ [Next]_vars => Heard'
<1> SUFFICES ASSUME TypeOK, Phases, Heard, [Next]_vars, session', ~hitch' PROVE Heard'
  BY DEF Heard
<1>0. /\ clock \in Nat /\ silent \in Nat /\ last_ping \in Nat /\ now \in Nat
      /\ last_ping <= Second /\ now <= Second
      /\ \A l \in late : l.now \in Nat /\ l.now <= Second
      /\ Second \in Nat /\ 5 * Second <= clock
  BY Seconds DEF TypeOK, Second
<1>1. 5 * last_ping <= clock /\ 5 * now <= clock /\ \A l \in late : 5 * l.now <= clock
  BY <1>0
<1>2. CASE Test \/ Lock
  <2>1. UNCHANGED <<clock, last_ping, late, session, hitch, silent>> /\ pc' \in {"lock", "sleep", "send"}
    BY <1>2 DEF Test, Lock, serverVars
  <2> QED BY <2>1 DEF Heard
<1>3. CASE Send
  <2>1. UNCHANGED <<clock, last_ping, now, late, session>> /\ silent' = 0
    BY <1>3 DEF Send, Arrives, Vanishes
  <2> QED BY <1>0, <1>1, <2>1 DEF Heard
<1>4. CASE Reply \/ Unlock
  <2>1. UNCHANGED <<clock, last_ping, now, late, session, hitch, silent>>
        /\ pc \in {"reply", "decode", "unlock"}
    BY <1>4 DEF Reply, Unlock, serverVars
  <2> QED BY <2>1 DEF Heard
<1>5. CASE Store
  BY <1>5 DEF Store, Heard, serverVars
<1>6. CASE Wake
  BY <1>6 DEF Wake, Heard, serverVars
<1>7. CASE UnlockLate
  <2>1. PICK l \in late : Unlocks(l)
    BY <1>7 DEF UnlockLate
  <2>2. UNCHANGED <<clock, last_ping, pc, now, session, hitch, silent>>
    BY <1>7 DEF UnlockLate, serverVars
  <2>3. [l EXCEPT !.at = "store"].now = l.now
    BY DEF TypeOK
  <2>4. \A k \in late' : \E j \in late : k.now = j.now
    BY <2>1, <2>3 DEF Unlocks
  <2> QED BY <2>2, <2>4 DEF Heard
<1>8. CASE StoreLate
  <2>1. PICK l \in late : last_ping' = l.now /\ late' = late \ {l}
    BY <1>8 DEF StoreLate
  <2>2. UNCHANGED <<clock, pc, now, session, hitch, silent>>
    BY <1>8 DEF StoreLate, serverVars
  <2> QED BY <2>1, <2>2 DEF Heard
<1>9. CASE Authenticate
  <2>1. UNCHANGED <<clock, last_ping, pc, now, late>> /\ silent' = 0
    BY <1>9 DEF Authenticate, pingVars
  <2> QED BY <1>0, <1>1, <2>1 DEF Heard
<1>10. CASE Authenticated
  BY <1>10 DEF Authenticated, Heard, serverVars
<1>11. CASE Misled
  BY <1>11 DEF Misled, Vanishes
<1>12. CASE Refused \/ Cancel
  BY <1>12 DEF Refused, Cancel
<1>13. CASE SendRequest
  <2>1. UNCHANGED <<clock, last_ping, pc, now, late>> /\ silent' = 0
    BY <1>13 DEF SendRequest, Arrives, Vanishes, pingVars
  <2> QED BY <1>0, <1>1, <2>1 DEF Heard
<1>14. CASE Request \/ Answered \/ Check \/ Reconnect \/ Open \/ UNCHANGED vars
  <2>1. UNCHANGED <<clock, last_ping, pc, now, late, session, hitch, silent>>
    BY <1>14 DEF Request, Answered, Check, Reconnect, Open, vars, pingVars, serverVars
  <2> QED BY <2>1 DEF Heard
<1>15. CASE Tick
  <2>1. UNCHANGED <<last_ping, pc, now, late, session>> /\ clock' = clock + 1
    BY <1>15 DEF Tick
  <2>2. ~hitch /\ silent' = silent + 1
    BY <1>15, <2>1, TickCounts
  <2>3. clock' - silent' = clock - silent
    BY <1>0, <2>1, <2>2
  <2> QED BY <2>1, <2>2, <2>3 DEF Heard
<1> QED
  BY <1>2, <1>3, <1>4, <1>5, <1>6, <1>7, <1>8, <1>9, <1>10, <1>11, <1>12, <1>13, <1>14,
     <1>15 DEF Next

\* The time the ping thread is silent is bounded wherever it is.
LEMMA TimelyStep ==
  TypeOK /\ Phases /\ Begun /\ Heard /\ Timely /\ [Next]_vars => Timely'
<1> SUFFICES ASSUME TypeOK, Phases, Begun, Heard, Timely, [Next]_vars, session', ~hitch'
             PROVE  Timely'
  BY DEF Timely
<1>0. /\ silent \in Nat /\ Interval \in Nat /\ slept \in Nat /\ slept <= 1 + Jitter
      /\ Hold \in Nat /\ Jitter \in Nat
      /\ held.main \in Nat /\ held.main <= Hold /\ held.ping \in Nat /\ held.ping <= Hold
  BY Sixth DEF TypeOK, Interval
<1>a. timeout' = timeout => Interval' = Interval
  BY DEF Interval
<1>b. ASSUME silent' = 0, held' = held, slept' = slept,
             pc' \in {"decode", "unlock", "store"} => pc' = pc
      PROVE  Timely'
  <2>1. \A x \in Nat : Within(x)'
    BY <1>0, <1>b DEF Within
  <2>2. /\ slept \in Nat /\ 1 + Jitter \in Nat /\ 1 + Jitter + held.main \in Nat
        /\ 1 + Jitter + held.ping \in Nat
    BY <1>0
  <2>3. Within(slept)' /\ Within(1 + Jitter)'
        /\ Within(1 + Jitter + held.main)' /\ Within(1 + Jitter + held.ping)'
    BY <1>b, <2>1, <2>2
  <2> QED BY <1>0, <1>b, <2>3 DEF Timely
<1>1. CASE Test
  <2>1. /\ UNCHANGED <<timeout, main, last_ping, lock, held, session, hitch, silent, clock>>
        /\ slept' = 0 /\ pc = "test" /\ pc' = IF Due THEN "lock" ELSE "sleep"
    BY <1>1 DEF Test, serverVars
  <2>2. Within(1 + Jitter) /\ session /\ ~hitch
    BY <2>1 DEF Timely
  <2>3. CASE Due
    <3>1. Within(1 + Jitter + held.main)
      BY <1>0, <2>2 DEF Within
    <3> QED BY <1>a, <2>1, <2>2, <2>3, <3>1 DEF Timely, Within
  <2>4. CASE ~Due
    <3>1. Second \in Nat /\ clock < 5 * Second + 5 /\ last_ping \in Nat /\ clock \in Nat
      BY Seconds DEF TypeOK, Second
    <3>2. Second - last_ping < Interval
      BY <1>0, <2>4, <3>1 DEF Due
    <3>3. 5 * last_ping <= clock - silent
      BY <2>2 DEF Heard
    <3>4. silent <= 5 * Interval
      BY <1>0, <3>1, <3>2, <3>3
    <3>5. pc' = "sleep" /\ slept' = 0 /\ silent' <= 0 + 5 * Interval'
      BY <1>0, <1>a, <2>1, <2>4, <3>4
    <3> QED BY <3>5 DEF Timely, Within
  <2> QED BY <2>3, <2>4
<1>2. CASE Lock
  <2>1. /\ pc = "lock" /\ pc' = "send" /\ held'.ping = 0 /\ held'.main = held.main
        /\ UNCHANGED <<timeout, main, session, hitch, silent>>
    BY <1>2 DEF Lock, serverVars, TypeOK
  <2>2. IF main = "send" THEN Within(1 + Jitter + held.main) ELSE Within(1 + Jitter)
    BY <2>1 DEF Timely
  <2>3. Within(1 + Jitter) => Within(1 + Jitter + 0)
    BY <1>0 DEF Within
  <2> QED BY <1>a, <2>1, <2>2, <2>3 DEF Timely, Within
<1>3. CASE Send
  <2>1. silent' = 0 /\ pc' \in {"reply", "unlock"} /\ held' = held /\ slept' = slept
    BY <1>3 DEF Send, Arrives, Vanishes
  <2>2. pc' = "reply"
    BY <1>3 DEF Send, Vanishes
  <2> QED BY <1>b, <2>1, <2>2
<1>4. CASE Reply \/ Unlock
  <2>1. /\ UNCHANGED <<silent, session, hitch>> /\ pc \in {"reply", "decode", "unlock"}
        /\ pc' \in {"decode", "unlock", "store"}
    BY <1>4 DEF Reply, Unlock, serverVars
  <2>2. silent <= Hold
    BY <1>0, <2>1 DEF Begun, Timely
  <2> QED BY <2>1, <2>2 DEF Timely
<1>5. CASE Store
  <2>1. pc = "store" /\ pc' = "sleep" /\ slept' = 0 /\ UNCHANGED <<session, hitch, silent>>
    BY <1>5 DEF Store, serverVars
  <2>2. silent <= 0 + Hold
    BY <1>0, <2>1 DEF Timely
  <2> QED BY <2>1, <2>2 DEF Timely, Within
<1>6. CASE Wake
  <2>1. pc = "sleep" /\ pc' = "test" /\ UNCHANGED <<timeout, session, hitch, silent>>
    BY <1>6 DEF Wake, serverVars
  <2>2. Within(slept) => Within(1 + Jitter)
    BY <1>0 DEF Within
  <2> QED BY <1>a, <2>1, <2>2 DEF Timely, Within
<1>7. CASE UnlockLate \/ StoreLate \/ Check \/ Reconnect \/ Open \/ UNCHANGED vars
  <2>1. /\ UNCHANGED <<timeout, pc, slept, held, session, hitch, silent>>
        /\ main' = main \/ (main # "send" /\ main' # "send")
    BY <1>7 DEF UnlockLate, StoreLate, Check, Reconnect, Open, vars, pingVars, serverVars
  <2> QED BY <1>a, <2>1 DEF Timely, Within
<1>8. CASE Authenticate
  <2>1. pc' = "none"
    BY <1>8 DEF Authenticate, pingVars, TypeOK
  <2> QED BY <2>1 DEF Timely
<1>9. CASE Authenticated
  <2>1. main = "auth" /\ pc' = "test" /\ UNCHANGED <<silent, hitch>>
    BY <1>9 DEF Authenticated, serverVars
  <2>2. silent <= Hold
    BY <1>0, <2>1 DEF Begun
  <2>3. silent' <= 1 + Jitter + Hold
    BY <1>0, <2>1, <2>2
  <2> QED BY <2>1, <2>3 DEF Timely, Within
<1>10. CASE Misled
  BY <1>10 DEF Misled, Vanishes
<1>11. CASE Refused \/ Cancel
  BY <1>11 DEF Refused, Cancel
<1>12. CASE Request
  <2>1. /\ UNCHANGED <<timeout, pc, slept, session, hitch, silent>>
        /\ main = "idle" /\ main' = "send" /\ held'.main = 0 /\ held'.ping = held.ping
    BY <1>12 DEF Request, pingVars, serverVars, TypeOK
  <2>2. Within(1 + Jitter) => Within(1 + Jitter + 0)
    BY <1>0 DEF Within
  <2> QED BY <1>a, <2>1, <2>2 DEF Timely, Within
<1>13. CASE SendRequest
  <2>1. silent' = 0 /\ held' = held /\ slept' = slept /\ pc' = pc
    BY <1>13 DEF SendRequest, Arrives, Vanishes, pingVars
  <2> QED BY <1>b, <2>1
<1>14. CASE Answered
  <2>1. /\ main = "busy" /\ main' # "send"
        /\ UNCHANGED <<timeout, pc, slept, held, session, hitch, silent>>
    BY <1>14 DEF Answered, pingVars, serverVars
  <2> QED BY <1>a, <2>1 DEF Timely, Within
<1>15. CASE Tick
  <2>1. /\ UNCHANGED <<timeout, main, pc, lock, session>>
        /\ pc \notin {"test", "decode", "unlock", "store"} /\ ~(pc = "lock" /\ lock = "free")
    BY <1>15 DEF Tick
  <2>2. /\ silent' = silent + 1 /\ ~hitch /\ lock # "gone"
        /\ main \in {"send", "busy", "auth"} => held.main < Hold /\ held'.main = held.main + 1
        /\ pc \in {"send", "reply"} => held.ping < Hold /\ held'.ping = held.ping + 1
        /\ pc = "sleep" => slept' = slept + 1
    BY <1>15, <2>1, TickCounts
  <2>3. ASSUME NEW x \in Int, Within(x)
        PROVE  silent' <= (x + 1) + 5 * Interval' \/ silent' <= (x + 1) + Hold
    BY <1>0, <1>a, <2>1, <2>2, <2>3 DEF Within
  <2>4. CASE pc = "sleep"
    BY <1>0, <2>1, <2>2, <2>3, <2>4 DEF Timely, Within
  <2>5. CASE pc = "lock"
    <3>1. lock = "main" /\ main \in {"send", "busy"}
      BY <2>1, <2>2, <2>5 DEF TypeOK
    <3>2. CASE main = "send"
      <4>1. Within(1 + Jitter + held.main)
        BY <2>1, <2>2, <2>5, <3>2 DEF Timely
      <4>2. 1 + Jitter + held.main \in Int /\ 1 + Jitter + held'.main = (1 + Jitter + held.main) + 1
        BY <1>0, <2>2, <3>2
      <4>3. Within(1 + Jitter + held.main)'
        BY <2>3, <4>1, <4>2 DEF Within
      <4> QED BY <2>1, <2>5, <3>2, <4>3 DEF Timely
    <3>3. CASE main = "busy"
      <4>1. silent <= held.main
        BY <2>2, <3>3 DEF Begun
      <4>2. silent' <= 1 + Jitter + Hold
        BY <1>0, <2>2, <3>3, <4>1
      <4> QED BY <2>1, <2>5, <3>3, <4>2 DEF Timely, Within
    <3> QED BY <3>1, <3>2, <3>3
  <2>6. CASE pc = "send"
    <3>1. \/ Within(1 + Jitter + held.ping)
          \/ main = "send" /\ Within(1 + Jitter + held.main)
      BY <2>1, <2>2, <2>6 DEF Timely
    <3>2. ASSUME Within(1 + Jitter + held.ping) PROVE Within(1 + Jitter + held.ping)'
      <4>1. 1 + Jitter + held.ping \in Int /\ 1 + Jitter + held'.ping = (1 + Jitter + held.ping) + 1
        BY <1>0, <2>2, <2>6
      <4> QED BY <2>3, <3>2, <4>1 DEF Within
    <3>3. ASSUME main = "send", Within(1 + Jitter + held.main)
          PROVE  Within(1 + Jitter + held.main)'
      <4>1. 1 + Jitter + held.main \in Int /\ 1 + Jitter + held'.main = (1 + Jitter + held.main) + 1
        BY <1>0, <2>2, <3>3
      <4> QED BY <2>3, <3>3, <4>1 DEF Within
    <3> QED BY <2>1, <2>6, <3>1, <3>2, <3>3 DEF Timely
  <2>7. CASE pc \in {"none", "reply"}
    BY <2>1, <2>7 DEF Timely
  <2> QED BY <2>1, <2>4, <2>5, <2>6, <2>7 DEF TypeOK
<1> QED
  BY <1>1, <1>2, <1>3, <1>4, <1>5, <1>6, <1>7, <1>8, <1>9, <1>10, <1>11, <1>12, <1>13,
     <1>14, <1>15 DEF Next

\* Wherever the threads are, the silence is an interval or an exchange, and a
\* sleep and an exchange more.
LEMMA SilenceBounded ==
  ASSUME TypeOK, TimingInv, session, ~hitch
  PROVE  silent <= Hold \/ (Within(1 + Jitter + Hold) /\ timeout = granted)
<1>0. /\ silent \in Nat /\ Interval \in Nat /\ slept \in Nat /\ slept <= 1 + Jitter
      /\ Hold \in Nat /\ Jitter \in Nat
      /\ held.main \in Nat /\ held.main <= Hold /\ held.ping \in Nat /\ held.ping <= Hold
  BY Sixth DEF TypeOK, Interval
<1>1. CASE main \in {"auth", "busy"} \/ pc \in {"reply", "decode", "unlock", "store"}
  BY <1>0, <1>1 DEF TimingInv, Begun, Timely
<1>2. CASE main \notin {"auth", "busy"} /\ pc \in {"test", "lock", "send", "sleep"}
  <2>1. timeout = granted
    BY <1>2 DEF TimingInv, Phases
  <2>2. \/ Within(slept) \/ Within(1 + Jitter)
        \/ Within(1 + Jitter + held.main) \/ Within(1 + Jitter + held.ping)
    BY <1>2 DEF TimingInv, Timely
  <2>3. Within(1 + Jitter + Hold)
    BY <1>0, <2>2 DEF Within
  <2> QED BY <2>1, <2>3
<1>3. main # "down"
  BY DEF TimingInv, Phases
<1> QED BY <1>1, <1>2, <1>3 DEF TypeOK

\* The numbers: an interval is a sixth of the session timeout at most.
LEMMA TimingKeeps == TypeOK /\ TimingInv => SessionKept
<1> SUFFICES ASSUME TypeOK, TimingInv, session, Ample, ~hitch PROVE 200 * silent < granted
  BY DEF SessionKept
<1>0. silent \in Nat /\ Hold \in Nat /\ Jitter \in Nat /\ granted \in Nat /\ timeout \in Nat
  BY DEF TypeOK
<1>1. 240 * (Hold + 1 + Jitter) < granted /\ 200 * (2 * Hold + 1 + Jitter) < granted
  BY DEF Ample
<1>2. silent <= Hold \/ (Within(1 + Jitter + Hold) /\ timeout = granted)
  BY SilenceBounded
<1>3. CASE silent <= Hold
  BY <1>0, <1>1, <1>3
<1>4. CASE Within(1 + Jitter + Hold) /\ timeout = granted
  <2>1. Interval \in Nat /\ 6000 * Interval <= granted
    BY <1>0, <1>4, Sixth DEF Interval
  <2>2. silent <= (1 + Jitter + Hold) + 5 * Interval \/ silent <= (1 + Jitter + Hold) + Hold
    BY <1>4 DEF Within
  <2> QED BY <1>0, <1>1, <2>1, <2>2
<1> QED BY <1>2, <1>3, <1>4

LEMMA TimingStep == TypeOK /\ TimingInv /\ [Next]_vars => TimingInv'
BY PhasesStep, BegunStep, HeardStep, TimelyStep DEF TimingInv

\* The pings, with the commands, keep a session in which nothing was lost or
\* slow, whatever the servers make of the timeout, if the timeout they grant
\* is long against what counts as slow.
THEOREM SessionsKept == Spec => []SessionKept
<1>1. Init => TypeOK /\ TimingInv
  BY TypesInit, TimingInit
<1>2. TypeOK /\ TimingInv /\ [Next]_vars => (TypeOK /\ TimingInv)'
  BY TypesStep, TimingStep
<1> QED BY <1>1, <1>2, TimingKeeps, PTL DEF Spec
=============================================================================
