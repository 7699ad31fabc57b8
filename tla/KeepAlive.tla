------------------------------- MODULE KeepAlive -------------------------------
(***************************************************************************)
(* The timing of the pings of zkclient.c: do_ping_loop looks at the clock  *)
(* five times a second and pings when a sixth of the session timeout has   *)
(* gone by since it last did.  The server drops a session it has not heard *)
(* of for the whole timeout.  Main's requests count as well, but hold the  *)
(* lock for as long as the socket makes them wait; a reconnect negotiates  *)
(* the timeout again.                                                      *)
(***************************************************************************)
EXTENDS Integers

CONSTANTS
  Asked,     \* the session timeout new_client asks for, in ms
  Servers,   \* what servers grant: records of least and most, in ms
  Hold,      \* ticks of an exchange that is not slow
  Jitter,    \* ticks by which usleep is late where it is not slow
  MaxTime,   \* Bound: the clock, in ticks
  MaxSessions  \* Bound: authentications

ASSUME KeepAliveAssumption ==
  /\ Asked \in Nat /\ Hold \in Nat /\ Jitter \in Nat
  /\ MaxTime \in Nat /\ MaxSessions \in Nat
  /\ \A s \in Servers : s.least \in Nat /\ s.most \in Nat /\ s.least <= s.most

VARIABLES
  clock,      \* ticks of 200 ms, what usleep sleeps
  timeout,    \* c->session_timeout, in ms
  last_ping,  \* in seconds
  main,       \* "down", "auth", "idle", "send", "busy", "check", "reset", "cancel"
  pc,         \* of the ping thread: "none", "test", "lock", "send", "reply",
              \* "decode", "unlock", "store", "sleep"
  now,        \* the ping thread's local variable
  slept,      \* ticks in usleep
  late,       \* cancelled threads after their exchange: the session they were
              \* started in, where they are, and now
  lock,       \* "free", "main", "ping", "gone": held by a cancelled thread
  held,       \* ticks of main's exchange and of the ping thread's
  sessions,   \* authentications so far
  session,    \* whether the server has a session of this client
  granted,    \* the timeout it gave the session, in ms
  hitch,      \* history: in this session something did not reach the other end, an
              \* exchange or a sleep took longer than Hold and Jitter, or a cancelled
              \* thread had the lock for a tick
  silent      \* history: ticks since the server heard from the client; not counted
              \* in a session with a hitch

pingVars == <<last_ping, pc, now, slept, late>>
serverVars == <<sessions, session, granted, hitch, silent>>
vars == <<clock, timeout, main, pingVars, lock, held, serverVars>>

Second == clock \div 5

Init ==
  /\ clock = 0 /\ timeout = Asked /\ last_ping = 0
  /\ main = "down" /\ pc = "none" /\ now = 0 /\ slept = 0 /\ late = {}
  /\ lock = "free" /\ held = [main |-> 0, ping |-> 0]
  /\ sessions = 0 /\ session = FALSE /\ granted = Asked /\ hitch = FALSE /\ silent = 0

\* A request reaches the server, or it does not: its write failed, or the
\* connection is broken.
Arrives == silent' = 0 /\ UNCHANGED <<sessions, session, granted, hitch>>
Vanishes == hitch' = TRUE /\ silent' = 0 /\ UNCHANGED <<sessions, session, granted>>

-----------------------------------------------------------------------------
(* The ping thread.                                                        *)

\* Fault: the timeout is not divided by 6.
WholeInterval == timeout \div 1000

\* c->session_timeout/1000/6
Interval == (timeout \div 1000) \div 6

Due == Second - last_ping >= Interval

Test ==
  /\ pc = "test"
  /\ now' = Second
  /\ IF Due THEN pc' = "lock" ELSE pc' = "sleep"
  /\ slept' = 0
  /\ UNCHANGED <<clock, timeout, main, last_ping, late, lock, held, serverVars>>

\* zk_ping takes the lock.
Lock ==
  /\ pc = "lock" /\ lock = "free"
  /\ lock' = "ping" /\ pc' = "send"
  /\ held' = [held EXCEPT !.ping = 0]
  /\ UNCHANGED <<clock, timeout, main, last_ping, now, slept, late, serverVars>>

\* send_request, with the lock or without it: main may have opened it.
Send ==
  /\ pc = "send"
  /\ \/ pc' = "reply" /\ (Arrives \/ Vanishes)
     \/ pc' = "unlock" /\ Vanishes
  /\ UNCHANGED <<clock, timeout, main, last_ping, now, slept, late, lock, held>>

\* recv_response: the reply or none.
Reply ==
  /\ pc = "reply"
  /\ pc' \in {"decode", "unlock"}
  /\ UNCHANGED <<clock, timeout, main, last_ping, now, slept, late, lock, held, serverVars>>

\* decode_reply_header where there is one, and the mutex is unlocked, whoever
\* owns it.  The loop does not look at the status.
Unlock ==
  /\ pc \in {"decode", "unlock"}
  /\ pc' = "store" /\ lock' = "free"
  /\ UNCHANGED <<clock, timeout, main, last_ping, now, slept, late, held, serverVars>>

\* Fault: the second the exchange ended, and no ping is due in the next ones.
StoreAhead ==
  /\ pc = "store"
  /\ last_ping' = now + Interval /\ pc' = "sleep" /\ slept' = 0
  /\ UNCHANGED <<clock, timeout, main, now, late, lock, held, serverVars>>

\* c->last_ping = now, the second before the exchange, failed or not.
Store ==
  /\ pc = "store"
  /\ last_ping' = now /\ pc' = "sleep" /\ slept' = 0
  /\ UNCHANGED <<clock, timeout, main, now, late, lock, held, serverVars>>

Wake ==
  /\ pc = "sleep" /\ slept >= 1
  /\ pc' = "test"
  /\ UNCHANGED <<clock, timeout, main, last_ping, now, slept, late, lock, held, serverVars>>

\* The cancelled thread l unlocks, at any time after the reset.
Unlocks(l) ==
  /\ l.at \in {"decode", "unlock"}
  /\ late' = (late \ {l}) \cup {[l EXCEPT !.at = "store"]}
  /\ lock' = "free"

UnlockLate ==
  /\ \E l \in late : Unlocks(l)
  /\ UNCHANGED <<clock, timeout, main, last_ping, pc, now, slept, held, serverVars>>

\* It stores, at any time after that.
StoreLate ==
  /\ \E l \in late : l.at = "store" /\ last_ping' = l.now /\ late' = late \ {l}
  /\ UNCHANGED <<clock, timeout, main, pc, now, slept, lock, held, serverVars>>

-----------------------------------------------------------------------------
(* The main thread.                                                        *)

\* What a server (not in this repository) makes of the proposed timeout.
Granted(s) ==
  IF timeout < s.least THEN s.least ELSE IF timeout > s.most THEN s.most ELSE timeout

\* authenticate proposes the timeout of the session before.
Authenticate ==
  /\ main = "down" /\ sessions < MaxSessions
  /\ main' = "auth" /\ session' = TRUE /\ sessions' = sessions + 1
  /\ held' = [held EXCEPT !.main = 0] /\ hitch' = FALSE /\ silent' = 0
  /\ \E s \in Servers : granted' = Granted(s)
  /\ UNCHANGED <<clock, timeout, pingVars, lock>>

\* The session's timeout is taken over, and start_ping_thread.
Authenticated ==
  /\ main = "auth"
  /\ main' = "idle" /\ pc' = "test"
  /\ timeout' = granted
  /\ UNCHANGED <<clock, last_ping, now, slept, late, lock, held, serverVars>>

\* No response came, but a cancelled thread decodes a header without an error
\* before last_err is read: the timeout stays.
Misled ==
  /\ main = "auth"
  /\ \E l \in late : l.at = "decode" /\ Unlocks(l)
  /\ main' = "idle" /\ pc' = "test" /\ Vanishes
  /\ UNCHANGED <<clock, timeout, last_ping, now, slept, held>>

\* No response: the next server is asked for the same timeout.
Refused ==
  /\ main = "auth"
  /\ main' = "down" /\ session' = FALSE /\ silent' = 0
  /\ UNCHANGED <<clock, timeout, pingVars, lock, held, sessions, granted, hitch>>

\* A call of a command or of the completion takes the lock; zk_del unlocks it.
Request ==
  /\ main = "idle"
  /\ \/ lock = "free" /\ lock' = "main"
     \/ lock' = "free"
  /\ main' = "send" /\ held' = [held EXCEPT !.main = 0]
  /\ UNCHANGED <<clock, timeout, pingVars, serverVars>>

\* send_request; where it fails the call ends with the unlock at ERROR.
SendRequest ==
  /\ main = "send"
  /\ \/ main' = "busy" /\ (Arrives \/ Vanishes) /\ UNCHANGED lock
     \/ main' = "idle" /\ Vanishes /\ lock' = "free"
  /\ UNCHANGED <<clock, timeout, pingVars, held>>

\* recv_response ends, with a reply that is decoded next, or with none.  The
\* mutex is unlocked, whoever owns it.
Answered ==
  /\ main = "busy"
  /\ lock' = "free" /\ main' \in {"check", "idle"}
  /\ UNCHANGED <<clock, timeout, pingVars, held, serverVars>>

\* An error in the reply leads to a second unlock at ERROR.
Check ==
  /\ main = "check" /\ main' = "idle"
  /\ lock' \in {lock, "free"}
  /\ UNCHANGED <<clock, timeout, pingVars, held, serverVars>>

\* The end of processCommand, where the status or last_err calls for it.  The
\* completion does not look at them, and a command may send nothing.
Reconnect ==
  /\ main = "idle" /\ main' = "reset"
  /\ UNCHANGED <<clock, timeout, pingVars, lock, held, serverVars>>

\* reset_zkclient opens the lock, whoever holds it.
Open ==
  /\ main = "reset" /\ main' = "cancel"
  /\ lock' = "free"
  /\ UNCHANGED <<clock, timeout, pingVars, held, serverVars>>

\* Then it cancels the ping thread.  That dies in the wait of an exchange,
\* having taken the lock if it was about to; after the exchange it goes on to
\* usleep.
Cancel ==
  /\ main = "cancel" /\ main' = "down"
  /\ lock' = IF lock = "ping" \/ pc = "lock" \/ (pc = "test" /\ Due) THEN "gone" ELSE lock
  /\ late' = IF pc \in {"decode", "unlock", "store"}
             THEN late \cup {[of |-> sessions, at |-> pc, now |-> now]} ELSE late
  /\ last_ping' = 0 /\ pc' = "none"
  /\ session' = FALSE /\ silent' = 0
  /\ UNCHANGED <<clock, timeout, now, slept, held, sessions, granted, hitch>>

-----------------------------------------------------------------------------

\* The thread is in an exchange, in poll or in read.
Waits(t) ==
  IF t = "main" THEN main \in {"send", "busy", "auth"} ELSE pc \in {"send", "reply"}

\* Time goes on when no thread can run: each waits or sleeps.  Neither has an
\* end that is certain: read_socket waits without a time-out.
Tick ==
  /\ clock < MaxTime
  /\ main \notin {"check", "reset", "cancel"}
  /\ pc \notin {"test", "decode", "unlock", "store"}
  /\ ~(pc = "lock" /\ lock = "free")
  /\ clock' = clock + 1
  /\ slept' = IF pc = "sleep" /\ slept < 1 + Jitter THEN slept + 1 ELSE slept
  /\ held' = [t \in {"main", "ping"} |->
                IF Waits(t) /\ held[t] < Hold THEN held[t] + 1 ELSE held[t]]
  /\ hitch' = \/ hitch
              \/ \E t \in {"main", "ping"} : Waits(t) /\ held[t] = Hold
              \/ pc = "sleep" /\ slept = 1 + Jitter
              \/ lock = "gone"
  /\ silent' = IF session /\ ~hitch' THEN silent + 1 ELSE 0
  /\ UNCHANGED <<timeout, main, last_ping, pc, now, late, lock, sessions, session, granted>>

Next ==
  \/ Test \/ Lock \/ Send \/ Reply \/ Unlock \/ Store \/ Wake \/ UnlockLate \/ StoreLate
  \/ Authenticate \/ Authenticated \/ Misled \/ Refused
  \/ Request \/ SendRequest \/ Answered \/ Check \/ Reconnect \/ Open \/ Cancel
  \/ Tick

Spec == Init /\ [][Next]_vars

-----------------------------------------------------------------------------
(* Properties.                                                             *)

\* Types; there is a ping thread between the authentication and the reset; the
\* lock is not held by a thread that is not in an exchange, though an exchange
\* may go on without it.
TypeOK ==
  /\ clock \in 0..MaxTime /\ timeout \in Nat /\ granted \in Nat
  /\ last_ping \in 0..Second /\ now \in 0..Second
  /\ sessions \in 0..MaxSessions
  /\ late \subseteq [of : 0..MaxSessions, at : {"decode", "unlock", "store"}, now : 0..Second]
  /\ main \in {"down", "auth", "idle", "send", "busy", "check", "reset", "cancel"}
  /\ pc \in {"none", "test", "lock", "send", "reply", "decode", "unlock", "store", "sleep"}
  /\ slept \in 0..(1 + Jitter) /\ held \in [{"main", "ping"} -> 0..Hold]
  /\ lock \in {"free", "main", "ping", "gone"}
  /\ session \in BOOLEAN /\ hitch \in BOOLEAN /\ silent \in Nat
  /\ pc = "none" <=> main \in {"down", "auth"}
  /\ lock = "main" => main \in {"send", "busy"}
  /\ lock = "ping" => pc \in {"send", "reply", "decode", "unlock"}

\* The session is long against exchanges and sleeps that are not slow: a ping
\* can come late by a sleep and an exchange of main, and an interval is a sixth
\* of the timeout; or it has to wait for two exchanges.
Ample ==
  /\ 240 * (Hold + 1 + Jitter) < granted
  /\ 200 * (2 * Hold + 1 + Jitter) < granted

\* The server hears from the client before its session times out, if nothing was
\* lost or slow in it (hitch): through commands that keep the ping thread from
\* the lock, calls that free the lock of another thread, reconnects that change
\* the timeout, and unlocks and stores of last_ping by cancelled threads.
SessionKept == session /\ Ample /\ ~hitch => 200 * silent < granted

\* The client was silent for no longer than x ticks more than an interval, or
\* than an exchange.
Within(x) == silent <= x + 5 * Interval \/ silent <= x + Hold

\* All that is or will be stored as last_ping is a second before the server
\* last heard of the client.
Heard ==
  session /\ ~hitch =>
    /\ 5 * last_ping <= clock - silent
    /\ \A l \in late : 5 * l.now <= clock - silent
    /\ pc \in {"reply", "decode", "unlock", "store"} => 5 * now <= clock - silent

\* The session is that of the timeout the ping thread reads.
Phases ==
  /\ main \notin {"down", "auth"} => session /\ (timeout = granted \/ hitch)
  /\ main = "auth" => session
  /\ main = "down" => ~session

\* The wait for a reply begins with a request.
Begun ==
  ~hitch =>
    /\ main \in {"busy", "auth"} => silent <= held.main
    /\ pc = "reply" => silent <= held.ping

\* The ping thread finds a ping due in time wherever in its loop it is, and
\* waits for one exchange at most before it sends.
Timely ==
  session /\ ~hitch =>
    /\ pc = "sleep" => Within(slept)
    /\ pc = "test" => Within(1 + Jitter)
    /\ pc = "lock" => IF main = "send" THEN Within(1 + Jitter + held.main) ELSE Within(1 + Jitter)
    /\ pc = "send" => \/ Within(1 + Jitter + held.ping)
                      \/ main = "send" /\ Within(1 + Jitter + held.main)
    /\ pc \in {"decode", "unlock", "store"} => silent <= Hold

\* Why the session is kept.
TimingInv == Heard /\ Phases /\ Begun /\ Timely
=============================================================================
