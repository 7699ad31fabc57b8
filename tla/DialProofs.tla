----------------------------- MODULE DialProofs -----------------------------
(***************************************************************************)
(* do_connect comes to every server of its list once, whatever its length, *)
(* gives up only when none would have taken the client, and leaves only    *)
(* the descriptors of failed attempts open.                                *)
(***************************************************************************)
EXTENDS Dial, FiniteSetTheorems, TLAPS

USE DialAssumption

\* A set of numbers that is not empty has a smallest one.
LEMMA Smallest ==
  ASSUME NEW S \in SUBSET Nat, S # {}
  PROVE  \E x \in S : \A y \in S : x <= y
<1>1. IsWellFoundedOn(OpToRel(<, Nat), Nat)
  BY NatLessThanWellFounded
<1> DEFINE R == OpToRel(<, Nat)
<1>2. PICK x \in S : \A y \in S : <<y, x>> \notin R
  <2> HIDE DEF R
  <2>1. IsWellFoundedOn(R, Nat)
    BY <1>1 DEF R
  <2> QED BY <2>1, WFMin
<1>3. \A y \in S : ~(y < x)
  BY <1>2 DEF OpToRel
<1> QED BY <1>3

LEMMA NewFdFree == Free /\ open \subseteq Fds => NewFd \in Fds \ open
<1> SUFFICES ASSUME Free, open \subseteq Fds PROVE NewFd \in Fds \ open
  OBVIOUS
<1> DEFINE S == Fds \ open
<1>1. S \in SUBSET Nat /\ S # {}
  BY DEF Fds, Free
<1>2. NewFd = CHOOSE x \in S : \A y \in S : x =< y
  BY DEF NewFd, Min
<1> HIDE DEF S
<1>3. \E x \in S : \A y \in S : x <= y
  BY <1>1, Smallest
<1>4. NewFd \in S
  BY <1>2, <1>3
<1> QED BY <1>4 DEF S

\* i = start++ % c->nservers, as the model keeps it.
LEMMA Round ==
  ASSUME start \in 0..(Servers - 1)
  PROVE  (start + 1) % Servers = IF start = Servers - 1 THEN 0 ELSE start + 1
OBVIOUS

-----------------------------------------------------------------------------
(* Types.                                                                  *)

DialTypes ==
  /\ kind \in [0..(Servers - 1) -> Entries \cup Hosts]
  /\ pc \in {"start", "loop", "up", "reset", "exit"}
  /\ start \in 0..(Servers - 1) /\ retries \in 0..Servers
  /\ sock \in Fds \cup {-1} /\ open \subseteq Fds
  /\ breaks \in 0..MaxBreaks /\ tried \subseteq 0..(Servers - 1)
  /\ leaks \in Nat
  /\ pc = "up" => sock \in open

Mark == starved \in BOOLEAN

LEMMA MarkStep == Mark /\ [Next]_vars => Mark'
<1>1. [Next]_vars => starved' = starved \/ starved' = TRUE \/ starved' = FALSE
  BY DEF Next, Start, NoPort, ZeroPort, NoDescriptor, Unknown, Down, Deaf, Closing, Good,
         GiveUp, Break, Reset, vars
<1> QED BY <1>1, Zenon DEF Mark

\* What the turn of a server leaves, whatever comes of it.
LEMMA Turn ==
  ASSUME DialTypes, NEW k, Attempt(k)
  PROVE  /\ pc = "loop" /\ retries \in 1..Servers /\ retries' = retries - 1
         /\ start' = IF start = Servers - 1 THEN 0 ELSE start + 1
         /\ start' \in 0..(Servers - 1) /\ retries' \in 0..Servers
         /\ tried' = tried \cup {start} /\ tried' \subseteq 0..(Servers - 1)
         /\ kind[start] = k /\ UNCHANGED <<kind, breaks>>
<1>1. /\ pc = "loop" /\ retries > 0 /\ kind[start] = k
      /\ tried' = tried \cup {start}
      /\ start' = (start + 1) % Servers
      /\ retries' = retries - 1
      /\ UNCHANGED <<kind, breaks>>
  BY DEF Attempt
<1>2. start \in 0..(Servers - 1) /\ retries \in 0..Servers /\ tried \subseteq 0..(Servers - 1)
  BY DEF DialTypes
<1>3. start' = IF start = Servers - 1 THEN 0 ELSE start + 1
  BY <1>1, <1>2, Round
<1> QED BY <1>1, <1>2, <1>3

\* How a turn ends: without a descriptor, with one that is left open, or with
\* the connection.
Shut    == pc' = "loop" /\ UNCHANGED <<open, leaks>>
Leaves  == pc' = "loop" /\ open' = open \cup {NewFd} /\ leaks' = leaks + 1
Takes   == pc' = "up" /\ open' = open \cup {NewFd} /\ sock' = NewFd /\ leaks' = leaks

TurnOf(k) ==
  /\ Attempt(k)
  /\ sock' \in Fds \cup {-1}
  /\ Shut \/ (NewFd \in Fds \ open /\ (Leaves \/ Takes))
  /\ starved' = starved \/ starved' = TRUE
  /\ k = "good" => starved' = TRUE \/ Takes

ATurn == NoPort \/ ZeroPort \/ NoDescriptor \/ Unknown \/ Down \/ Deaf \/ Closing \/ Good

LEMMA Turns ==
  ASSUME DialTypes, ATurn
  PROVE  \E k \in Entries \cup Hosts : TurnOf(k)
<1>0. /\ sock \in Fds \cup {-1} /\ open \subseteq Fds
      /\ Free => NewFd \in Fds \ open
  BY NewFdFree DEF DialTypes
<1>p. ASSUME NEW k, Attempt(k) PROVE pc = "loop"
  BY <1>p DEF Attempt
<1>1. CASE NoPort
  <2>1. TurnOf("noport")
    BY <1>0, <1>1, <1>p DEF NoPort, TurnOf, Shut
  <2> QED BY <2>1 DEF Entries
<1>2. CASE ZeroPort
  <2>1. TurnOf("zero")
    BY <1>0, <1>2, <1>p DEF ZeroPort, TurnOf, Shut
  <2> QED BY <2>1 DEF Entries
<1>3. CASE NoDescriptor
  <2>1. PICK k \in Hosts \cup {"unknown"} : Attempt(k)
    BY <1>3 DEF NoDescriptor
  <2>2. TurnOf(k)
    BY <1>0, <1>3, <1>p, <2>1 DEF NoDescriptor, TurnOf, Shut
  <2> QED BY <2>1, <2>2 DEF Entries
<1>4. CASE Unknown
  <2>1. TurnOf("unknown")
    BY <1>0, <1>4, <1>p DEF Unknown, TurnOf, Leaves
  <2> QED BY <2>1 DEF Entries
<1>5. CASE Down
  <2>1. TurnOf("down")
    BY <1>0, <1>5, <1>p DEF Down, TurnOf, Shut
  <2> QED BY <2>1 DEF Hosts
<1>6. CASE Deaf
  <2>1. TurnOf("deaf")
    BY <1>0, <1>6, <1>p DEF Deaf, TurnOf, Leaves
  <2> QED BY <2>1 DEF Hosts
<1>7. CASE Closing
  <2>1. TurnOf("closing")
    BY <1>0, <1>7, <1>p DEF Closing, TurnOf, Shut
  <2> QED BY <2>1 DEF Hosts
<1>8. CASE Good
  <2>1. TurnOf("good")
    BY <1>0, <1>8, <1>p DEF Good, TurnOf, Takes
  <2> QED BY <2>1 DEF Hosts
<1> QED BY <1>1, <1>2, <1>3, <1>4, <1>5, <1>6, <1>7, <1>8 DEF ATurn

\* The steps, with all turns as one.
LEMMA Steps ==
  ASSUME DialTypes, [Next]_vars
  PROVE  \/ Start \/ GiveUp \/ Break \/ Reset \/ UNCHANGED vars
         \/ \E k \in Entries \cup Hosts : TurnOf(k)
BY Turns DEF Next, ATurn

LEMMA TypesInit == Init => DialTypes
BY DEF Init, DialTypes

LEMMA TypesStep == DialTypes /\ [Next]_vars => DialTypes'
<1> SUFFICES ASSUME DialTypes, [Next]_vars PROVE DialTypes'
  OBVIOUS
<1>1. CASE Start
  BY <1>1 DEF Start, DialTypes
<1>2. CASE GiveUp
  BY <1>2 DEF GiveUp, DialTypes
<1>3. CASE Break
  BY <1>3 DEF Break, DialTypes
<1>4. CASE Reset
  BY <1>4 DEF Reset, DialTypes
<1>5. CASE UNCHANGED vars
  BY <1>5 DEF vars, DialTypes
<1>6. ASSUME NEW k \in Entries \cup Hosts, TurnOf(k) PROVE DialTypes'
  <2>1. Attempt(k)
    BY <1>6 DEF TurnOf
  <2>2. /\ start' \in 0..(Servers - 1) /\ retries' \in 0..Servers
        /\ tried' \subseteq 0..(Servers - 1) /\ UNCHANGED <<kind, breaks>>
    BY <2>1, Turn
  <2>3. /\ sock' \in Fds \cup {-1} /\ open' \subseteq Fds /\ leaks' \in Nat
        /\ pc' \in {"loop", "up"}
        /\ pc' = "up" => sock' \in open'
    BY <1>6 DEF TurnOf, Shut, Leaves, Takes, DialTypes
  <2> QED BY <2>2, <2>3 DEF DialTypes
<1> QED BY <1>1, <1>2, <1>3, <1>4, <1>5, <1>6, Steps

LEMMA TypesMean == DialTypes /\ Mark => TypeOK
BY DEF DialTypes, Mark, TypeOK

\* Whatever the list holds and the servers do, do_connect stays within its
\* list, and a connection that is in use has an open descriptor.
THEOREM DialTyped == Spec => []TypeOK
<1>1. Init => Mark
  BY Zenon DEF Init, Mark
<1> QED BY <1>1, TypesInit, TypesStep, MarkStep, TypesMean, PTL DEF Spec

-----------------------------------------------------------------------------
(* The turns.                                                              *)

LEMMA TurnInvInit == Init => TurnInv /\ CountInv /\ MissInv
BY DEF Init, TurnInv, CountInv, MissInv

\* Where the turn goes round the list, the servers that had theirs are the same
\* set, counted from the other end.
LEMMA TurnInvTurn ==
  ASSUME DialTypes, TurnInv, NEW k, Attempt(k)
  PROVE  TurnInv' /\ start \notin tried
<1>1. /\ pc = "loop" /\ retries \in 1..Servers /\ retries' = retries - 1
      /\ start' = IF start = Servers - 1 THEN 0 ELSE start + 1
      /\ tried' = tried \cup {start}
      /\ start \in 0..(Servers - 1)
  BY Turn DEF DialTypes
<1>2. tried = {s \in 0..(Servers - 1) :
                 \/ s < start /\ start - s <= Servers - retries
                 \/ s >= start + retries}
  BY <1>1 DEF TurnInv
<1>3. start \notin tried
  BY <1>1, <1>2
<1>4. tried' = {s \in 0..(Servers - 1) :
                  \/ s < start' /\ start' - s <= Servers - retries'
                  \/ s >= start' + retries'}
  <2>1. ASSUME NEW s \in 0..(Servers - 1)
        PROVE  s \in tried' <=> \/ s < start' /\ start' - s <= Servers - retries'
                                \/ s >= start' + retries'
    <3>1. s \in tried <=> \/ s < start /\ start - s <= Servers - retries
                          \/ s >= start + retries
      BY <1>2
    <3>2. s \in tried' <=> s \in tried \/ s = start
      BY <1>1
    <3>3. CASE start = Servers - 1
      BY <1>1, <3>1, <3>2, <3>3
    <3>4. CASE start # Servers - 1
      BY <1>1, <3>1, <3>2, <3>4
    <3> QED BY <3>3, <3>4
  <2>2. tried' \subseteq 0..(Servers - 1)
    BY <1>1, <1>2
  <2> QED BY <2>1, <2>2
<1> QED BY <1>3, <1>4 DEF TurnInv

LEMMA TurnInvStep ==
  ASSUME DialTypes, TurnInv, CountInv, [Next]_vars
  PROVE  TurnInv' /\ CountInv'
<1>1. CASE Start
  <2>1. /\ pc' = "loop" /\ tried' = {} /\ retries' = Servers /\ start' \in 0..(Servers - 1)
    BY <1>1 DEF Start
  <2>2. Cardinality({}) = 0
    BY FS_EmptySet
  <2> QED BY <2>1, <2>2 DEF TurnInv, CountInv
<1>2. CASE GiveUp \/ Break \/ Reset \/ UNCHANGED vars
  <2>1. pc' = "start" \/ (pc # "start" /\ UNCHANGED <<start, retries, tried>>)
        \/ UNCHANGED <<pc, start, retries, tried>>
    BY <1>2 DEF GiveUp, Break, Reset, vars
  <2> QED BY <2>1 DEF TurnInv, CountInv
<1>3. ASSUME NEW k \in Entries \cup Hosts, TurnOf(k) PROVE TurnInv' /\ CountInv'
  <2>1. Attempt(k)
    BY <1>3 DEF TurnOf
  <2>2. TurnInv' /\ start \notin tried
    BY <2>1, TurnInvTurn
  <2>3. /\ pc = "loop" /\ retries' = retries - 1 /\ tried' = tried \cup {start}
        /\ retries \in Nat
    BY <2>1, Turn DEF DialTypes
  <2>4. IsFiniteSet(tried) /\ Cardinality(tried) \in Nat
    <3>1. IsFiniteSet(0..(Servers - 1))
      BY FS_Interval
    <3>2. tried \in SUBSET (0..(Servers - 1))
      BY DEF DialTypes
    <3> QED BY <3>1, <3>2, FS_Subset, FS_CardinalityType
  <2>5. Cardinality(tried') = Cardinality(tried) + 1
    BY <2>2, <2>3, <2>4, FS_AddElement
  <2>6. Cardinality(tried) + retries = Servers
    BY <2>3 DEF CountInv
  <2> QED BY <2>2, <2>3, <2>4, <2>5, <2>6 DEF CountInv
<1> QED BY <1>1, <1>2, <1>3, Steps

\* A good server that had its turn took the client.
LEMMA MissInvStep ==
  ASSUME DialTypes, MissInv, [Next]_vars
  PROVE  MissInv'
<1>1. CASE Start
  BY <1>1 DEF Start, MissInv
<1>2. CASE GiveUp
  BY <1>2 DEF GiveUp, MissInv
<1>3. CASE Break
  BY <1>3 DEF Break, MissInv
<1>4. CASE Reset
  BY <1>4 DEF Reset, MissInv
<1>5. CASE UNCHANGED vars
  BY <1>5 DEF vars, MissInv
<1>6. ASSUME NEW k \in Entries \cup Hosts, TurnOf(k) PROVE MissInv'
  <2>1. Attempt(k)
    BY <1>6 DEF TurnOf
  <2>2. pc = "loop" /\ tried' = tried \cup {start} /\ kind[start] = k /\ kind' = kind
    BY <2>1, Turn
  <2>3. pc' \in {"loop", "up"}
    BY <1>6 DEF TurnOf, Shut, Leaves, Takes
  <2>4. ASSUME pc' = "loop", starved' # TRUE PROVE \A s \in tried' : kind'[s] # "good"
    <3>1. k # "good"
      BY <1>6, <2>4 DEF TurnOf, Takes
    <3>2. starved' = starved /\ starved # TRUE
      BY <1>6, <2>4 DEF TurnOf
    <3>3. \A s \in tried : kind[s] # "good"
      BY <2>2, <3>2 DEF MissInv
    <3> QED BY <2>2, <3>1, <3>3
  <2> QED BY <2>3, <2>4 DEF MissInv
<1> QED BY <1>1, <1>2, <1>3, <1>4, <1>5, <1>6, Steps

LEMMA TurnsMean ==
  ASSUME DialTypes, TurnInv, CountInv, MissInv
  PROVE  GoodFound /\ EachOnce
<1>1. EachOnce
  BY DEF EachOnce, CountInv
<1>2. ASSUME pc = "exit" PROVE tried = 0..(Servers - 1)
  <2>1. retries = 0 /\ start \in 0..(Servers - 1)
    BY <1>2 DEF MissInv, DialTypes
  <2>2. tried = {s \in 0..(Servers - 1) :
                   \/ s < start /\ start - s <= Servers - retries
                   \/ s >= start + retries}
    BY <1>2 DEF TurnInv
  <2>3. \A s \in 0..(Servers - 1) : s \in tried
    BY <2>1, <2>2
  <2> QED BY <2>2, <2>3
<1> QED BY <1>1, <1>2 DEF GoodFound, MissInv

\* The loop of do_connect, which counts its turns and takes start modulo the
\* length of the list, never comes to a server twice in one connect, wherever
\* it starts.
THEOREM ServersOnce == Spec => []EachOnce
<1> QED BY TypesInit, TypesStep, TurnInvInit, TurnInvStep, MissInvStep, TurnsMean, PTL DEF Spec

\* The client exits for want of a server only when every one of the list had
\* its turn and none would have taken it, or no descriptor was left.
THEOREM NoGoodServerMissed == Spec => []GoodFound
<1> QED BY TypesInit, TypesStep, TurnInvInit, TurnInvStep, MissInvStep, TurnsMean, PTL DEF Spec

-----------------------------------------------------------------------------
(* The descriptors.                                                        *)

LEMMA OpenFinite ==
  ASSUME NEW S \in SUBSET Fds
  PROVE  IsFiniteSet(S) /\ Cardinality(S) \in Nat
<1>1. IsFiniteSet(Fds)
  BY FS_Interval DEF Fds
<1> QED BY <1>1, FS_Subset, FS_CardinalityType

LEMMA LeakInvInit == Init => LeakInv
BY FS_EmptySet DEF Init, LeakInv

LEMMA LeakInvStep ==
  ASSUME DialTypes, LeakInv, [Next]_vars
  PROVE  LeakInv'
<1>1. CASE Start
  BY <1>1 DEF Start, LeakInv
<1>2. CASE GiveUp
  BY <1>2 DEF GiveUp, LeakInv
<1>3. CASE Break
  <2>1. /\ pc = "up" /\ pc' = "reset" /\ sock' = sock /\ leaks' = leaks
        /\ open' \in {open, open \ {sock}}
    BY <1>3 DEF Break
  <2>2. open' \ {sock'} = open \ {sock}
    BY <2>1
  <2> QED BY <2>1, <2>2 DEF LeakInv
<1>4. CASE Reset
  <2>1. pc = "reset" /\ pc' = "start" /\ open' = open \ {sock} /\ leaks' = leaks
    BY <1>4 DEF Reset
  <2> QED BY <2>1 DEF LeakInv
<1>5. CASE UNCHANGED vars
  BY <1>5 DEF vars, LeakInv
<1>6. ASSUME NEW k \in Entries \cup Hosts, TurnOf(k) PROVE LeakInv'
  <2>1. pc = "loop"
    BY <1>6 DEF TurnOf, Attempt
  <2>2. Cardinality(open) = leaks
    BY <2>1 DEF LeakInv
  <2>3. CASE Shut
    BY <2>2, <2>3 DEF Shut, LeakInv
  <2>4. CASE NewFd \in Fds \ open /\ Leaves
    <3>1. Cardinality(open \cup {NewFd}) = Cardinality(open) + 1
      BY <2>4, OpenFinite, FS_AddElement DEF DialTypes
    <3> QED BY <2>2, <2>4, <3>1 DEF Leaves, LeakInv
  <2>5. CASE NewFd \in Fds \ open /\ Takes
    <3>1. open' \ {sock'} = open
      BY <2>5 DEF Takes
    <3> QED BY <2>2, <2>5, <3>1 DEF Takes, LeakInv
  <2> QED BY <1>6, <2>3, <2>4, <2>5 DEF TurnOf
<1> QED BY <1>1, <1>2, <1>3, <1>4, <1>5, <1>6, Steps

LEMMA LeaksMean == LeakInv => OnlyFailuresLeak
BY DEF LeakInv, OnlyFailuresLeak

\* Whatever number c->sock still holds from before, a reset closes the
\* connection's own descriptor: apart from it, exactly those of the attempts
\* that failed on a name or in authenticate are open.
THEOREM LeaksCounted == Spec => []OnlyFailuresLeak
<1> QED BY TypesInit, TypesStep, LeakInvInit, LeakInvStep, LeaksMean, PTL DEF Spec
=============================================================================
