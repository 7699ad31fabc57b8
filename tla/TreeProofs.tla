----------------------------- MODULE TreeProofs -----------------------------
(***************************************************************************)
(* What mkdir and get promise, and what no command does after a lost       *)
(* reply, for a branch of any depth and any number of changes by the other *)
(* client.  MkdirInv, GetInv and LossInv are the three inductive parts,    *)
(* over Kinds and Rest, which type the state.                              *)
(***************************************************************************)
EXTENDS Tree, TLAPS

USE TreeAssumption DEF Depths

\* The part of the types that mkdir needs: no data is taken for no node, and
\* a command is on the branch.
Branch ==
  /\ tree \in [Depths -> Data \cup {None}]
  /\ \A d \in Depths : tree[d] # None => Exists(d - 1)

Busy == {"create", "again", "return", "exists", "get", "set", "del", "done", "crash"}

Place ==
  /\ pc \in Busy \cup {"idle"}
  /\ pc \in Busy => cmd # "none" /\ target \in Depths /\ at \in 1..target
  /\ pc = "idle" => cmd = "none"
  /\ cmd = "mkdir" => pc \in {"create", "again", "return", "done"}

Kinds == Branch /\ Place /\ arg \in Data /\ requests \in Nat /\ changes \in Nat

LEMMA DataIsNode == None \notin Data /\ "empty" \in Data
BY DEF None, Data

\* A step of the server keeps the branch in one piece.
LEMMA PutNode ==
  ASSUME Kinds, NEW d \in Depths, NEW data \in Data, Exists(d - 1),
         tree' = [tree EXCEPT ![d] = data]
  PROVE  /\ tree' \in [Depths -> Data \cup {None}]
         /\ \A e \in Depths : tree'[e] # None => Exists(e - 1)'
         /\ tree'[d] # None
         /\ \A e \in Depths : e # d => tree'[e] = tree[e]
<1>1. /\ tree' \in [Depths -> Data \cup {None}]
      /\ \A e \in Depths : e # d => tree'[e] = tree[e]
      /\ tree'[d] # None
  BY DataIsNode DEF Kinds, Branch
<1>2. ASSUME NEW e \in Depths, tree'[e] # None PROVE Exists(e - 1)'
  <2>1. e = 1 \/ e - 1 \in Depths
    OBVIOUS
  <2>2. CASE e = d
    BY <1>1, <2>1, <2>2 DEF Exists
  <2>3. CASE e # d
    BY <1>1, <1>2, <2>1, <2>3 DEF Exists, Kinds, Branch
  <2> QED BY <2>2, <2>3
<1> QED BY <1>1, <1>2

LEMMA RemoveNode ==
  ASSUME Kinds, NEW d \in Depths, ~Children(d),
         tree' = [tree EXCEPT ![d] = None]
  PROVE  /\ tree' \in [Depths -> Data \cup {None}]
         /\ \A e \in Depths : tree'[e] # None => Exists(e - 1)'
<1>1. /\ tree' \in [Depths -> Data \cup {None}]
      /\ \A e \in Depths : e # d => tree'[e] = tree[e]
      /\ tree'[d] = None
  BY DEF Kinds, Branch
<1>2. ASSUME NEW e \in Depths, tree'[e] # None PROVE Exists(e - 1)'
  <2>1. (e = 1 \/ e - 1 \in Depths) /\ e # d /\ tree[e] # None
    BY <1>1, <1>2
  <2>2. e - 1 # d
    BY <2>1 DEF Children
  <2> QED BY <1>1, <2>1, <2>2 DEF Exists, Kinds, Branch
<1> QED BY <1>1, <1>2

LEMMA KindsInit == Init => Kinds
<1> SUFFICES ASSUME Init PROVE Kinds
  OBVIOUS
<1>1. tree \in [Depths -> {None, "empty"}]
  BY DEF Init
<1>2. ASSUME NEW d \in Depths, tree[d] # None PROVE Exists(d - 1)
  <2>1. \A e \in 1..d : tree[e] # None
    BY <1>2 DEF Init
  <2> QED BY <2>1 DEF Exists
<1>3. "empty" \in Data /\ tree \in [Depths -> Data \cup {None}]
  BY <1>1, DataIsNode
<1> QED BY <1>2, <1>3 DEF Init, Kinds, Branch, Place, Busy

\* The server: whatever it does to a node, the branch stays one.
LEMMA BranchStep ==
  ASSUME Kinds, NEW d \in Depths, NEW data \in Data,
         \/ ServerCreate(d, data) \/ ServerSet(d, data)
         \/ ServerDelete(d) \/ UNCHANGED tree
  PROVE  Branch'
<1>1. CASE UNCHANGED tree
  BY <1>1 DEF Kinds, Branch, Exists
<1>2. CASE CreateResult(d) = "OK" /\ ServerCreate(d, data)
  <2>1. Exists(d - 1) /\ tree' = [tree EXCEPT ![d] = data]
    BY <1>2 DEF CreateResult, ServerCreate, Put
  <2> QED BY <2>1, PutNode DEF Branch
<1>3. CASE SetResult(d) = "OK" /\ ServerSet(d, data)
  <2>1. Exists(d) /\ tree' = [tree EXCEPT ![d] = data]
    BY <1>3 DEF SetResult, ServerSet, Put
  <2>2. Exists(d - 1)
    BY <2>1 DEF Exists, Kinds, Branch
  <2> QED BY <2>1, <2>2, PutNode DEF Branch
<1>4. CASE DeleteResult(d) = "OK" /\ ServerDelete(d)
  <2>1. ~Children(d) /\ tree' = [tree EXCEPT ![d] = None]
    BY <1>4 DEF DeleteResult, ServerDelete, Put
  <2> QED BY <2>1, RemoveNode DEF Branch
<1> QED
  BY <1>1, <1>2, <1>3, <1>4 DEF ServerCreate, ServerSet, ServerDelete, Keep

\* The parent of a node that does not exist is not the root if it is missing.
LEMMA NoNode ==
  ASSUME NEW d \in Depths, CreateResult(d) = "NONODE"
  PROVE  d - 1 \in Depths
BY DEF CreateResult, Exists

\* A call of zk_mkdir, or of another command, goes on or returns.
LEMMA PlaceStep ==
  ASSUME Place, pc \in Busy, UNCHANGED <<cmd, target>>, NEW s,
         \/ Finish(s)
         \/ cmd = "mkdir" /\ MkdirReturns(s)
         \/ cmd = "mkdir" /\ at - 1 \in Depths /\ at' = at - 1 /\ pc' = "create"
  PROVE  Place'
BY DEF Place, Busy, Finish, MkdirReturns

LEMMA KindsStep == Kinds /\ [Next]_vars => Kinds'
<1> SUFFICES ASSUME Kinds, [Next]_vars PROVE Kinds'
  OBVIOUS
<1>0. Place /\ arg \in Data /\ requests \in Nat /\ changes \in Nat /\ Branch
  BY DEF Kinds
<1>1. ASSUME NEW c \in Commands, NEW d \in Depths, NEW data \in Values \cup {"empty"},
             Enter(c, d, data)
      PROVE  Kinds'
  <2>1. UNCHANGED tree /\ cmd' = c /\ target' = d /\ arg' = data /\ at' = d
        /\ pc' = FirstRequest[c] /\ requests' = 0 /\ changes' = 0
    BY <1>1 DEF Enter
  <2>2. c \in {"create", "mkdir", "get", "set", "del"} /\ d \in 1..d
    OBVIOUS
  <2>3. Place'
    BY <2>1, <2>2 DEF Place, Busy, FirstRequest
  <2>4. arg' \in Data
    BY <2>1 DEF Data
  <2> QED BY <2>1, <2>3, <2>4, <1>0 DEF Kinds, Branch, Exists
<1>2. CASE Create
  <2>1. /\ pc \in {"create", "again"} /\ Created(CreateResult(at))
        /\ ServerCreate(at, Written) /\ requests' = requests + 1
        /\ UNCHANGED <<cmd, target, arg, changes>>
    BY <1>2 DEF Create, cmdVars
  <2>2. at \in Depths /\ Written \in Data
    BY <2>1, <1>0, DataIsNode DEF Place, Busy, Written
  <2>3. Branch'
    BY <2>1, <2>2, BranchStep
  <2>4. Place'
    BY <2>1, <2>2, <1>0, NoNode, PlaceStep DEF Created, Busy
  <2> QED BY <2>1, <2>3, <2>4, <1>0 DEF Kinds
<1>3. CASE Unwind
  <2>1. pc = "return" /\ MkdirReturns(status) /\ UNCHANGED <<tree, cmd, target, arg, changes, requests>>
    BY <1>3 DEF Unwind, cmdVars, histVars
  <2>2. Place'
    BY <2>1, <1>0 DEF Place, Busy, MkdirReturns, Finish
  <2> QED BY <2>1, <2>2, <1>0 DEF Kinds, Branch, Exists
<1>4. CASE Stat
  <2>1. pc = "exists" /\ UNCHANGED <<tree, cmd, target, arg, changes, at>> /\ requests' = requests + 1
        /\ pc' \in {"done", "get"}
    BY <1>4 DEF Stat, cmdVars, histVars, Finish
  <2>2. Place'
    BY <2>1, <1>0 DEF Place, Busy
  <2> QED BY <2>1, <2>2, <1>0 DEF Kinds, Branch, Exists
<1>5. CASE Get
  <2>1. pc = "get" /\ UNCHANGED <<tree, cmd, target, arg, changes, at>> /\ requests' = requests + 1
        /\ pc' \in {"done", "crash"}
    BY <1>5 DEF Get, cmdVars, histVars, Finish
  <2>2. Place'
    BY <2>1, <1>0 DEF Place, Busy
  <2> QED BY <2>1, <2>2, <1>0 DEF Kinds, Branch, Exists
<1>6. CASE Set \/ Del
  <2>1. /\ pc \in {"set", "del"} /\ pc' = "done"
        /\ UNCHANGED <<cmd, target, arg, changes, at>> /\ requests' = requests + 1
        /\ ServerSet(at, arg) \/ ServerDelete(at)
    BY <1>6 DEF Set, Del, cmdVars, Finish
  <2>2. at \in Depths
    BY <2>1, <1>0 DEF Place, Busy
  <2>3. Branch'
    BY <2>1, <2>2, <1>0, BranchStep
  <2>4. Place'
    BY <2>1, <1>0 DEF Place, Busy
  <2> QED BY <2>1, <2>3, <2>4, <1>0 DEF Kinds
<1>7. CASE Lost
  <2>0. IF cmd = "mkdir" THEN MkdirReturns("SOCK") ELSE Finish("SOCK")
    BY <1>7 DEF Lost
  <2>5. \/ UNCHANGED tree \/ ServerCreate(at, Written) \/ ServerSet(at, arg) \/ ServerDelete(at)
    BY <1>7 DEF Lost, Keep
  <2>6. /\ pc \in Busy /\ UNCHANGED <<cmd, target, arg, changes>> /\ requests' = requests + 1
    BY <1>7 DEF Lost, cmdVars, Busy
  <2>2. at \in Depths /\ Written \in Data
    BY <2>6, <1>0, DataIsNode DEF Place, Busy, Written
  <2>3. Branch'
    <3>1. CASE UNCHANGED tree
      BY <3>1, <1>0 DEF Branch, Exists
    <3>2. CASE ServerCreate(at, Written)
      BY <3>2, <2>2, BranchStep
    <3>3. CASE ServerSet(at, arg)
      BY <3>3, <2>2, <1>0, BranchStep
    <3>4. CASE ServerDelete(at)
      BY <3>4, <2>2, <1>0, BranchStep
    <3> QED BY <2>5, <3>1, <3>2, <3>3, <3>4
  <2>4. Place'
    <3>1. CASE cmd = "mkdir"
      <4>1. MkdirReturns("SOCK")
        BY <2>0, <3>1
      <4> QED BY <4>1, <3>1, <2>6, <1>0, PlaceStep
    <3>2. CASE cmd # "mkdir"
      <4>1. Finish("SOCK")
        BY <2>0, <3>2
      <4> QED BY <4>1, <2>6, <1>0, PlaceStep
    <3> QED BY <3>1, <3>2
  <2> QED BY <2>6, <2>3, <2>4, <1>0 DEF Kinds
<1>8. CASE Leave
  BY <1>8, DataIsNode DEF Leave, Kinds, Branch, Place, Busy, Exists
<1>9. CASE Other
  <2>1. /\ UNCHANGED <<cmd, target, arg, pc, at, requests>> /\ changes' = changes + 1
    BY <1>9 DEF Other, cmdVars
  <2>2. PICK d \in Depths :
          \/ CreateResult(d) = "OK" /\ ServerCreate(d, "empty")
          \/ SetResult(d) = "OK" /\ \E data \in Data \ {tree[d]} : ServerSet(d, data)
          \/ DeleteResult(d) = "OK" /\ ServerDelete(d)
    BY <1>9 DEF Other
  <2>3. Branch'
    <3>1. CASE ServerCreate(d, "empty")
      BY <3>1, DataIsNode, BranchStep
    <3>2. ASSUME NEW data \in Data, ServerSet(d, data) PROVE Branch'
      BY <3>2, BranchStep
    <3>3. CASE ServerDelete(d)
      BY <3>3, DataIsNode, BranchStep
    <3> QED BY <2>2, <3>1, <3>2, <3>3
  <2>4. Place'
    BY <2>1, <1>0 DEF Place, Busy
  <2> QED BY <2>1, <2>3, <2>4, <1>0 DEF Kinds
<1>10. CASE UNCHANGED vars
  BY <1>10 DEF vars, cmdVars, histVars, Kinds, Branch, Place, Busy, Exists
<1> QED
  BY <1>1, <1>2, <1>3, <1>4, <1>5, <1>6, <1>7, <1>8, <1>9, <1>10 DEF Next

-----------------------------------------------------------------------------
(* mkdir.                                                                  *)

LEMMA MkdirInit == Init => MkdirInv
BY DEF Init, MkdirInv

\* A call of zk_mkdir returns s to the one it was made by.
LEMMA Returning ==
  ASSUME Kinds, cmd = "mkdir", UNCHANGED <<cmd, target, before, changes>>, NEW s,
         MkdirReturns(s),
         requests' \in Nat, requests' <= target + at - 1,
         s # "OK" /\ changes = 0 => s = "SOCK" \/ at = target,
         s = "OK" /\ changes = 0 =>
           ~before /\ tree'[at] # None /\ \A d \in (at + 1)..target : ~Exists(d)',
         at = target =>
           /\ s = "OK" => target \in made' /\ (before => changes > 0)
           /\ s = "NODEEXISTS" => before \/ changes > 0
           /\ s = "NONODE" => changes > 0
  PROVE  MkdirInv'
<1>0. target \in Depths /\ at \in 1..target /\ target \in Nat /\ at \in Nat
      /\ changes \in Nat
  BY DEF Kinds, Place, Busy, MkdirReturns, Finish
<1>1. cmd' = "mkdir" /\ target' = target /\ before' = before /\ changes' = changes
  OBVIOUS
<1>2. CASE at = target
  <2>1. status' = s /\ pc' = "done" /\ at' = at
    BY <1>2 DEF MkdirReturns, Finish
  <2>2. requests' <= 2 * target - 1
    BY <1>0, <1>2
  <2>3. MkdirOutcome'
    <3>1. CASE s = "OK"
      BY <1>1, <2>1, <1>2, <3>1 DEF MkdirOutcome
    <3>2. CASE s = "NODEEXISTS"
      BY <1>1, <2>1, <1>2, <3>2 DEF MkdirOutcome
    <3>3. CASE s = "NONODE"
      BY <1>1, <2>1, <1>2, <3>3 DEF MkdirOutcome
    <3>4. CASE s \notin {"OK", "NODEEXISTS", "NONODE"}
      BY <2>1, <3>4 DEF MkdirOutcome
    <3> QED BY <3>1, <3>2, <3>3, <3>4
  <2>4. target' \in Depths /\ at' \in 1..target' /\ requests' <= 2 * target' - 1
    BY <1>0, <1>1, <2>1, <2>2
  <2> QED BY <2>1, <2>3, <2>4 DEF MkdirInv
<1>3. CASE at # target
  <2>1. status' = s /\ at' = at + 1 /\ pc' = IF s = "OK" THEN "again" ELSE "return"
    BY <1>3 DEF MkdirReturns
  <2>2. /\ target' \in Depths /\ at' \in 1..target' /\ at' > 1 /\ at' - 1 = at
        /\ requests' <= target' + at' - 2
    BY <1>0, <1>1, <1>3, <2>1
  <2>3. CASE s = "OK"
    <3>1. pc' = "again"
      BY <2>1, <2>3
    <3>2. ASSUME changes' = 0
          PROVE  ~before' /\ Exists(at - 1)' /\ \A d \in at'..target' : ~Exists(d)'
      <4>1. tree'[at] # None /\ (\A d \in (at + 1)..target : ~Exists(d)') /\ ~before
        BY <2>3, <3>2, <1>1
      <4>2. Exists(at - 1)'
        BY <4>1, <2>2 DEF Exists
      <4>3. \A d \in at'..target' : ~Exists(d)'
        BY <4>1, <2>1, <1>1
      <4> QED BY <4>1, <4>2, <4>3, <1>1
    <3>3. changes' = 0 => ~before' /\ Exists(at - 1)' /\ \A d \in at'..target' : ~Exists(d)'
      BY <3>2
    <3> QED BY <3>1, <3>3, <2>2 DEF MkdirInv
  <2>4. CASE s # "OK"
    <3>1. pc' = "return" /\ status' # "OK"
      BY <2>1, <2>4
    <3>2. changes' = 0 => status' = "SOCK"
      BY <1>1, <2>1, <2>4, <1>3
    <3> QED BY <3>1, <3>2, <2>2 DEF MkdirInv
  <2> QED BY <2>3, <2>4
<1> QED BY <1>2, <1>3

\* zk_create answers a call of zk_mkdir that is on its way up.
LEMMA CreateUp ==
  ASSUME Kinds, MkdirInv, cmd = "mkdir", pc = "create", Create
  PROVE  MkdirInv'
<1>0. target \in Depths /\ at \in 1..target /\ target \in Nat /\ at \in Nat
      /\ changes \in Nat /\ at \in Depths
  BY DEF Kinds, Place, Busy
<1>1. /\ UNCHANGED <<cmd, target, before, changes>> /\ requests' = requests + 1
      /\ requests = target - at
      /\ ServerCreate(at, "empty") /\ Created(CreateResult(at))
      /\ made' = IF CreateResult(at) = "OK" THEN made \cup {at} ELSE made
  BY DEF Create, cmdVars, Written, MkdirInv
<1>2. changes = 0 /\ at < target => ~before /\ \A d \in at..target : ~Exists(d)
  BY DEF MkdirInv
<1>3. changes = 0 /\ at = target => (before <=> Exists(target))
  BY DEF MkdirInv
<1>4. requests' = target - at + 1 /\ requests' \in Nat
  BY <1>0, <1>1
<1>5. CASE CreateResult(at) = "NONODE"
  <2>1. UNCHANGED tree /\ at' = at - 1 /\ pc' = "create" /\ ~Exists(at - 1)
        /\ at - 1 \in Depths
    BY <1>0, <1>1, <1>5, NoNode DEF ServerCreate, Keep, Created, CreateResult
  <2>2. ~Exists(at)
    BY <1>0, <2>1 DEF Kinds, Branch, Exists
  <2>3. ASSUME changes' = 0 PROVE ~before' /\ \A d \in at'..target' : ~Exists(d)'
    <3>1. ~before /\ \A d \in at..target : ~Exists(d)
      <4>1. CASE at < target
        BY <4>1, <1>1, <1>2, <2>3
      <4>2. CASE at = target
        BY <4>2, <1>0, <1>1, <1>3, <2>2, <2>3
      <4> QED BY <1>0, <4>1, <4>2
    <3>2. \A d \in at'..target' : ~Exists(d)
      BY <3>1, <2>1, <1>0, <1>1
    <3> QED BY <3>1, <3>2, <2>1, <1>1 DEF Exists
  <2>4. target' \in Depths /\ at' \in 1..target' /\ at' < target' /\ requests' = target' - at'
    BY <1>0, <1>1, <1>4, <2>1
  <2>5. changes' = 0 => ~before' /\ \A d \in at'..target' : ~Exists(d)'
    BY <2>3
  <2> QED BY <2>1, <2>4, <2>5 DEF MkdirInv
<1>6. CASE CreateResult(at) # "NONODE"
  <2> DEFINE s == CreateResult(at)
  <2>1. MkdirReturns(s) /\ s \in {"OK", "NODEEXISTS"}
    BY <1>1, <1>6 DEF Created, CreateResult
  <2>2. requests' <= target + at - 1
    BY <1>0, <1>4
  <2>3. s = "OK" => ~Exists(at)
    BY <1>6 DEF CreateResult
  <2>4. s = "NODEEXISTS" => Exists(at)
    BY <1>6 DEF CreateResult
  <2>5. s # "OK" /\ changes = 0 => at = target
    BY <1>0, <1>2, <2>1, <2>4
  <2>6. ASSUME s = "OK", changes = 0
        PROVE  ~before /\ tree'[at] # None /\ \A d \in (at + 1)..target : ~Exists(d)'
    <3>1. ~before /\ \A d \in (at + 1)..target : ~Exists(d)
      <4>1. CASE at < target
        BY <4>1, <1>0, <1>2, <2>6
      <4>2. CASE at = target
        BY <4>2, <1>0, <1>3, <2>3, <2>6
      <4> QED BY <1>0, <4>1, <4>2
    <3>2. tree' = [tree EXCEPT ![at] = "empty"] /\ Exists(at - 1)
      BY <1>1, <2>6 DEF ServerCreate, Put, CreateResult
    <3>3. tree'[at] # None /\ \A e \in Depths : e # at => tree'[e] = tree[e]
      BY <1>0, <3>2, PutNode, DataIsNode
    <3>4. \A d \in (at + 1)..target : d \in Depths /\ d # at /\ d # 0
      BY <1>0
    <3> QED BY <3>1, <3>3, <3>4, <1>0 DEF Exists
  <2>7. ASSUME at = target
        PROVE  /\ s = "OK" => target \in made' /\ (before => changes > 0)
               /\ s = "NODEEXISTS" => before \/ changes > 0
    <3>1. changes = 0 \/ changes > 0
      BY <1>0
    <3>2. s = "OK" => target \in made'
      BY <1>1, <2>7
    <3> QED BY <3>1, <3>2, <1>3, <2>3, <2>4, <2>7
  <2>8. s # "NONODE"
    BY <1>6
  <2> HIDE DEF s
  <2> QED BY <1>1, <1>4, <2>1, <2>2, <2>5, <2>6, <2>7, <2>8, Returning
<1> QED BY <1>5, <1>6

\* zk_create answers a call of zk_mkdir that is on its way down.
LEMMA CreateDown ==
  ASSUME Kinds, MkdirInv, cmd = "mkdir", pc = "again", Create
  PROVE  MkdirInv'
<1>0. target \in Depths /\ at \in 1..target /\ target \in Nat /\ at \in Nat
      /\ changes \in Nat /\ at \in Depths /\ requests \in Nat
  BY DEF Kinds, Place, Busy
<1>1. /\ UNCHANGED <<cmd, target, before, changes>> /\ requests' = requests + 1
      /\ requests <= target + at - 2
      /\ ServerCreate(at, "empty") /\ Created(CreateResult(at))
      /\ made' = IF CreateResult(at) = "OK" THEN made \cup {at} ELSE made
  BY DEF Create, cmdVars, Written, MkdirInv
<1>2. changes = 0 => ~before /\ Exists(at - 1) /\ \A d \in at..target : ~Exists(d)
  BY DEF MkdirInv
<1>3. requests' \in Nat /\ requests' <= target + at - 1
  BY <1>0, <1>1
<1> DEFINE s == CreateResult(at)
<1>4. MkdirReturns(s)
  BY <1>1 DEF Created
<1>5. changes = 0 => s = "OK"
  BY <1>0, <1>2 DEF CreateResult
<1>6. ASSUME s = "OK", changes = 0
      PROVE  ~before /\ tree'[at] # None /\ \A d \in (at + 1)..target : ~Exists(d)'
  <2>1. tree' = [tree EXCEPT ![at] = "empty"] /\ Exists(at - 1)
    BY <1>1, <1>6 DEF ServerCreate, Put, CreateResult
  <2>2. tree'[at] # None /\ \A e \in Depths : e # at => tree'[e] = tree[e]
    BY <1>0, <2>1, PutNode, DataIsNode
  <2>3. \A d \in (at + 1)..target : d \in Depths /\ d # at /\ d # 0 /\ ~Exists(d)
    BY <1>0, <1>2, <1>6
  <2>4. ~before
    BY <1>2, <1>6
  <2> QED BY <2>2, <2>3, <2>4, <1>0 DEF Exists
<1>7. changes = 0 \/ changes > 0
  BY <1>0
<1>8. ASSUME at = target
      PROVE  /\ s = "OK" => target \in made' /\ (before => changes > 0)
             /\ s = "NODEEXISTS" => before \/ changes > 0
             /\ s = "NONODE" => changes > 0
  BY <1>1, <1>2, <1>5, <1>7, <1>8
<1> HIDE DEF s
<1> QED BY <1>1, <1>3, <1>4, <1>5, <1>6, <1>8, Returning

LEMMA MkdirStep == Kinds /\ MkdirInv /\ [Next]_vars => MkdirInv'
<1> SUFFICES ASSUME Kinds, MkdirInv, [Next]_vars PROVE MkdirInv'
  OBVIOUS
<1>1. ASSUME NEW c \in Commands, NEW d \in Depths, NEW data \in Values \cup {"empty"},
             Enter(c, d, data)
      PROVE  MkdirInv'
  <2>1. UNCHANGED tree /\ cmd' = c /\ target' = d /\ at' = d /\ pc' = FirstRequest[c]
        /\ requests' = 0 /\ before' = Exists(d)
    BY <1>1 DEF Enter
  <2>2. CASE c = "mkdir"
    <3>1. pc' = "create"
      BY <2>1, <2>2 DEF FirstRequest
    <3>2. target' \in Depths /\ at' \in 1..target' /\ requests' = target' - at' /\ at' = target'
      BY <2>1
    <3>3. before' <=> Exists(target)'
      BY <2>1 DEF Exists
    <3>4. ~(at' < target')
      BY <3>2
    <3> QED BY <3>1, <3>2, <3>3, <3>4 DEF MkdirInv
  <2>3. CASE c # "mkdir"
    BY <2>1, <2>3 DEF MkdirInv
  <2> QED BY <2>2, <2>3
<1>2. CASE Create
  <2>1. CASE cmd # "mkdir"
    BY <1>2, <2>1 DEF Create, cmdVars, MkdirInv
  <2>2. pc \in {"create", "again"}
    BY <1>2 DEF Create
  <2> QED BY <1>2, <2>1, <2>2, CreateUp, CreateDown
<1>3. CASE Unwind
  <2>1. /\ pc = "return" /\ MkdirReturns(status)
        /\ UNCHANGED <<cmd, target, before, changes, requests, tree>>
    BY <1>3 DEF Unwind, cmdVars, histVars
  <2>2. CASE cmd # "mkdir"
    BY <2>1, <2>2 DEF MkdirInv
  <2>3. CASE cmd = "mkdir"
    <3>1. status # "OK" /\ (changes = 0 => status = "SOCK") /\ requests <= target + at - 2
      BY <2>1, <2>3 DEF MkdirInv
    <3>2. requests \in Nat /\ target \in Nat /\ at \in Nat /\ changes \in Nat
      BY <2>1 DEF Kinds, Place, Busy
    <3>3. requests' \in Nat /\ requests' <= target + at - 1
      BY <2>1, <3>1, <3>2
    <3>4. changes = 0 \/ changes > 0
      BY <3>2
    <3>5. status = "NODEEXISTS" \/ status = "NONODE" => changes > 0
      BY <3>1, <3>4
    <3> QED BY <2>1, <2>3, <3>1, <3>3, <3>5, Returning
  <2> QED BY <2>2, <2>3
<1>4. CASE Stat \/ Get \/ Set \/ Del
  <2>1. pc \in {"exists", "get", "set", "del"} /\ UNCHANGED cmd
    BY <1>4 DEF Stat, Get, Set, Del, cmdVars
  <2>2. cmd # "mkdir"
    BY <2>1 DEF Kinds, Place
  <2> QED BY <2>1, <2>2 DEF MkdirInv
<1>5. CASE Lost
  <2>1. CASE cmd # "mkdir"
    BY <1>5, <2>1 DEF Lost, cmdVars, MkdirInv
  <2>2. CASE cmd = "mkdir"
    <3>1. /\ MkdirReturns("SOCK") /\ requests' = requests + 1 /\ pc \in {"create", "again"}
          /\ UNCHANGED <<cmd, target, before, changes>>
      BY <1>5, <2>2 DEF Lost, cmdVars, Kinds, Place
    <3>2. requests \in Nat /\ target \in Nat /\ at \in Nat /\ at >= 1
      BY <3>1 DEF Kinds, Place, Busy
    <3>3. requests = target - at \/ requests <= target + at - 2
      BY <2>2, <3>1 DEF MkdirInv
    <3>4. requests' \in Nat /\ requests' <= target + at - 1
      BY <3>1, <3>2, <3>3
    <3> QED BY <2>2, <3>1, <3>4, Returning
  <2> QED BY <2>1, <2>2
<1>6. CASE Leave
  BY <1>6 DEF Leave, MkdirInv
<1>7. CASE Other
  <2>1. UNCHANGED <<cmd, target, pc, at, status, requests, made>> /\ changes' = changes + 1
    BY <1>7 DEF Other, cmdVars
  <2>2. changes' > 0 /\ changes' # 0
    BY <2>1 DEF Kinds
  <2>3. CASE cmd # "mkdir"
    BY <2>1, <2>3 DEF MkdirInv
  <2>4. CASE cmd = "mkdir"
    <3>1. /\ target' \in Depths /\ at' \in 1..target'
          /\ pc' \in {"create", "again", "return", "done"}
          /\ pc' = "create" => requests' = target' - at'
          /\ pc' \in {"again", "return"} => at' > 1 /\ requests' <= target' + at' - 2
          /\ pc' = "done" => requests' <= 2 * target' - 1
      BY <2>1, <2>4 DEF MkdirInv
    <3>2. pc' = "return" => status' # "OK"
      BY <2>1, <2>4 DEF MkdirInv
    <3>3. pc' = "done" => MkdirOutcome'
      BY <2>1, <2>2, <2>4 DEF MkdirInv, MkdirOutcome
    <3> QED BY <2>2, <3>1, <3>2, <3>3 DEF MkdirInv
  <2> QED BY <2>3, <2>4
<1>8. CASE UNCHANGED vars
  BY <1>8 DEF vars, cmdVars, histVars, MkdirInv, MkdirOutcome, Exists
<1> QED
  BY <1>1, <1>2, <1>3, <1>4, <1>5, <1>6, <1>7, <1>8 DEF Next

\* The argument of MkdirInv in a state: the outcome, and the number of requests.
LEMMA MkdirKeeps == Kinds /\ MkdirInv => MkdirOutcome /\ BoundedRequests
<1> SUFFICES ASSUME Kinds, MkdirInv PROVE MkdirOutcome /\ BoundedRequests
  OBVIOUS
<1>1. MkdirOutcome
  BY DEF MkdirInv, MkdirOutcome
<1>2. ASSUME cmd = "mkdir" PROVE requests <= 2 * target - 1
  <2>1. /\ pc \in {"create", "again", "return", "done"} /\ requests \in Nat
        /\ target \in Nat /\ at \in 1..target
    BY <1>2 DEF MkdirInv, Kinds
  <2>2. \/ requests = target - at \/ requests <= target + at - 2
        \/ requests <= 2 * target - 1
    BY <1>2, <2>1 DEF MkdirInv
  <2> QED BY <2>1, <2>2
<1> QED BY <1>1, <1>2 DEF BoundedRequests

LEMMA TreeInvariant == Spec => [](Kinds /\ MkdirInv)
<1>1. Init => Kinds /\ MkdirInv
  BY KindsInit, MkdirInit
<1>2. Kinds /\ MkdirInv /\ [Next]_vars => (Kinds /\ MkdirInv)'
  BY KindsStep, MkdirStep
<1> QED BY <1>1, <1>2, PTL DEF Spec

\* Whatever another client does between the requests of zk_mkdir, mkdir says
\* that it made its path only if it did, and fails without a lost reply only
\* because the path was there or because of the other client.
THEOREM MkdirOutcomes == Spec => []MkdirOutcome
BY TreeInvariant, MkdirKeeps, PTL

\* The recursion of zk_mkdir ends: two requests for a node at most, and one
\* for the node at the turn.
THEOREM MkdirRequests == Spec => []BoundedRequests
BY TreeInvariant, MkdirKeeps, PTL

-----------------------------------------------------------------------------
(* The rest of the types.                                                  *)

Rest ==
  /\ cmd \in Commands \cup {"none"} /\ status \in Results
  /\ made \subseteq Depths
  /\ changes <= MaxChanges
  /\ pc = "idle" => at = 0 /\ target = 0

LEMMA ReturnStatus ==
  ASSUME NEW s \in Results, MkdirReturns(s) \/ Finish(s)
  PROVE  status' = s /\ pc' \in {"done", "again", "return"}
BY DEF MkdirReturns, Finish

LEMMA RestStep == Kinds /\ Rest /\ [Next]_vars => Rest'
<1> SUFFICES ASSUME Kinds, Rest, [Next]_vars PROVE Rest'
  OBVIOUS
<1> USE DEF Rest
<1>1. ASSUME NEW c \in Commands, NEW d \in Depths, NEW data \in Values \cup {"empty"},
             Enter(c, d, data)
      PROVE  Rest'
  <2>1. /\ cmd' = c /\ status' = "OK" /\ made' = {} /\ changes' = 0
        /\ pc' = FirstRequest[c]
    BY <1>1 DEF Enter
  <2>2. pc' # "idle"
    BY <2>1 DEF FirstRequest
  <2> QED BY <2>1, <2>2 DEF Results
<1>2. CASE Create
  <2>1. /\ pc \in {"create", "again"} /\ Created(CreateResult(at))
        /\ made' \in {made, made \cup {at}} /\ UNCHANGED <<cmd, changes>>
    BY <1>2 DEF Create, cmdVars
  <2>2. CreateResult(at) \in Results /\ made' \subseteq Depths
    <3>1. at \in Depths
      BY <2>1 DEF Kinds, Place, Busy
    <3> QED BY <2>1, <3>1 DEF CreateResult, Results
  <2>3. status' = CreateResult(at) /\ pc' # "idle"
    BY <2>1, <2>2, ReturnStatus DEF Created
  <2> QED BY <2>1, <2>2, <2>3
<1>3. CASE Unwind
  <2>1. /\ MkdirReturns(status) /\ UNCHANGED <<cmd, made, changes>>
    BY <1>3 DEF Unwind, cmdVars, histVars
  <2> QED BY <2>1, ReturnStatus
<1>4. CASE Stat
  <2>1. /\ status' \in {"OK", "NONODE"} /\ pc' \in {"done", "get"}
        /\ UNCHANGED <<cmd, made, changes>>
    BY <1>4 DEF Stat, Finish, cmdVars, histVars
  <2> QED BY <2>1 DEF Results
<1>5. CASE Get
  <2>1. /\ status' \in {status, "OK", "NONODE"} /\ pc' \in {"done", "crash"}
        /\ UNCHANGED <<cmd, made, changes>>
    BY <1>5 DEF Get, Finish, cmdVars, histVars
  <2> QED BY <2>1 DEF Results
<1>6. CASE Set \/ Del
  <2>1. /\ status' \in {SetResult(at), DeleteResult(at)} /\ pc' = "done"
        /\ UNCHANGED <<cmd, made, changes>>
    BY <1>6 DEF Set, Del, Finish, cmdVars
  <2> QED BY <2>1 DEF Results, SetResult, DeleteResult
<1>7. CASE Lost
  <2>1. /\ made' \in {made, made \cup {at}} /\ UNCHANGED <<cmd, changes>>
        /\ MkdirReturns("SOCK") \/ Finish("SOCK")
        /\ pc \in Busy
    BY <1>7 DEF Lost, cmdVars, Busy
  <2>2. made' \subseteq Depths
    <3>1. at \in Depths
      BY <2>1 DEF Kinds, Place
    <3> QED BY <2>1, <3>1
  <2> QED BY <2>1, <2>2, ReturnStatus DEF Results
<1>8. CASE Leave
  BY <1>8 DEF Leave, Results
<1>9. CASE Other
  BY <1>9 DEF Other, cmdVars, Kinds
<1>10. CASE UNCHANGED vars
  BY <1>10 DEF vars, cmdVars, histVars
<1> QED
  BY <1>1, <1>2, <1>3, <1>4, <1>5, <1>6, <1>7, <1>8, <1>9, <1>10 DEF Next

Flag == before \in BOOLEAN

LEMMA FlagStep == Flag /\ [Next]_vars => Flag'
<1> SUFFICES ASSUME Flag, [Next]_vars PROVE before' \in BOOLEAN
  BY DEF Flag
<1>1. \/ UNCHANGED before \/ before' = FALSE
      \/ \E d \in Depths : before' = Exists(d)
  BY Zenon DEF Next, Enter, Create, Unwind, Stat, Get, Set, Del, Lost, Leave, Other, vars, histVars
<1>2. ASSUME NEW d \in Depths, before' = Exists(d) PROVE before' \in BOOLEAN
  BY <1>2 DEF Exists
<1> QED BY <1>1, <1>2 DEF Flag

\* What get prints: nothing, {} or the data of a node.
Printed == printed \in Data \cup {None, "{}"}

LEMMA PrintedStep == Kinds /\ Printed /\ [Next]_vars => Printed'
<1> SUFFICES ASSUME Kinds, Printed, [Next]_vars PROVE Printed'
  OBVIOUS
<1>1. \/ printed' = printed \/ printed' = None \/ printed' = "{}"
      \/ Get /\ printed' = tree[at]
  BY Zenon DEF Next, Enter, Create, Unwind, Stat, Get, Set, Del, Lost, Leave, Other, vars
<1>2. CASE Get
  <2>1. at \in Depths
    BY <1>2 DEF Get, Kinds, Place, Busy
  <2>2. tree[at] \in Data \cup {None}
    BY <2>1 DEF Kinds, Branch
  <2> QED BY <1>1, <2>2 DEF Printed
<1> QED BY <1>1, <1>2 DEF Printed

\* Whatever the order of the requests of the two clients, the nodes stay one
\* branch below the root and every variable keeps a value of its kind.
THEOREM TreeTypes == Spec => []TypeOK
<1>1. Init => Rest
  BY DEF Init, Rest, Results
<1>2. Kinds /\ Rest /\ Flag /\ Printed => TypeOK
  <2> SUFFICES ASSUME Kinds, Rest, Flag, Printed PROVE TypeOK
    OBVIOUS
  <2>1. cmd = "none" <=> pc = "idle"
    BY DEF Kinds, Place
  <2>2. /\ target \in 0..Depth /\ IF cmd = "none" THEN at = 0 ELSE at \in 1..target
    <3>1. CASE pc = "idle"
      BY <2>1, <3>1 DEF Rest
    <3>2. CASE pc # "idle"
      BY <2>1, <3>2 DEF Kinds, Place
    <3> QED BY <3>1, <3>2
  <2>3. pc \in Pcs /\ requests \in Nat /\ changes \in 0..MaxChanges /\ arg \in Data
    BY DEF Kinds, Place, Busy, Rest, Pcs
  <2> QED BY <2>2, <2>3 DEF TypeOK, Kinds, Branch, Rest, Flag, Printed
<1>3. Init => Flag
  BY DEF Init, Flag
<1>4. Init => Printed
  BY DEF Init, Printed
<1> QED
  BY <1>1, <1>2, <1>3, <1>4, KindsInit, KindsStep, RestStep, FlagStep, PrintedStep, PTL DEF Spec

-----------------------------------------------------------------------------
(* A lost reply.                                                           *)

LEMMA LossStep == Kinds /\ Rest /\ LossInv /\ [Next]_vars => LossInv'
<1> SUFFICES ASSUME Kinds, Rest, LossInv, [Next]_vars PROVE LossInv'
  OBVIOUS
<1> USE DEF LossInv
<1>1. CASE Create
  <2>1. CreateResult(at) \in Results \ {"SOCK"} /\ Created(CreateResult(at))
    BY <1>1 DEF Create, CreateResult, Results
  <2>2. status' = CreateResult(at)
    BY <2>1, ReturnStatus DEF Created
  <2> QED BY <2>1, <2>2
<1>2. CASE Unwind
  BY <1>2 DEF Unwind, MkdirReturns, Finish
<1>3. CASE Stat \/ Get \/ Set \/ Del
  <2>1. status' \in {"OK", "NONODE", "NOTEMPTY"} \/ (pc = "get" /\ UNCHANGED status)
    BY <1>3 DEF Stat, Get, Set, Del, Finish, SetResult, DeleteResult
  <2> QED BY <2>1
<1>4. CASE Lost
  BY <1>4 DEF Lost, MkdirReturns, Finish
<1>5. CASE Leave \/ Other \/ UNCHANGED vars
  BY <1>5 DEF Leave, Other, vars
<1>6. ASSUME NEW c \in Commands, NEW d \in Depths, NEW data \in Values \cup {"empty"},
             Enter(c, d, data)
      PROVE  LossInv'
  BY <1>6 DEF Enter
<1> QED
  BY <1>1, <1>2, <1>3, <1>4, <1>5, <1>6 DEF Next

\* Once a reply was lost, zk_mkdir hands the failure down and no command sends
\* another request on the connection (StopsAfterLoss).
THEOREM LossStops == Spec => StopsAfterLoss
<1>1. Init => LossInv
  BY DEF Init, LossInv
<1>2. Init => Rest
  BY DEF Init, Rest, Results
<1>3. Kinds /\ Rest /\ LossInv /\ [Next]_vars
        => [status = "SOCK" /\ cmd' = cmd => requests' = requests]_vars
  <2> SUFFICES ASSUME Kinds, Rest, LossInv, Next, status = "SOCK", cmd' = cmd
               PROVE  requests' = requests
    OBVIOUS
  <2>1. pc \in {"return", "done"} /\ cmd # "none"
    BY DEF LossInv, Kinds, Place, Busy
  <2>2. ~Create /\ ~Stat /\ ~Get /\ ~Set /\ ~Del /\ ~Lost
    BY <2>1 DEF Create, Stat, Get, Set, Del, Lost
  <2>3. ~Leave
    BY <2>1 DEF Leave
  <2>4. ~(\E c \in Commands, d \in Depths, data \in Values \cup {"empty"} : Enter(c, d, data))
    BY <2>1 DEF Enter
  <2>5. Unwind \/ Other
    BY <2>2, <2>3, <2>4 DEF Next
  <2> QED BY <2>5 DEF Unwind, Other
<1> QED
  BY <1>1, <1>2, <1>3, KindsInit, KindsStep, RestStep, LossStep, PTL DEF Spec, StopsAfterLoss

-----------------------------------------------------------------------------
(* get.                                                                    *)

\* What the server does to the target is on record.
LEMMA Recorded ==
  ASSUME Kinds, cmd # "none", tree[target] \in held, NEW d \in Depths,
         (\E data \in Data \cup {None} : Put(d, data)) \/ Keep
  PROVE  held \subseteq held' /\ tree'[target] \in held'
BY DEF Kinds, Branch, Place, Put, Keep

LEMMA ServerPuts ==
  ASSUME NEW d, NEW data \in Data,
         ServerCreate(d, data) \/ ServerSet(d, data) \/ ServerDelete(d)
  PROVE  (\E x \in Data \cup {None} : Put(d, x)) \/ Keep
BY DEF ServerCreate, ServerSet, ServerDelete

\* A step that leaves get where it is, or is none of get's.
LEMMA GetStays ==
  ASSUME GetInv, UNCHANGED <<cmd, target>>,
         cmd # "none" => held \subseteq held' /\ tree'[target] \in held',
         cmd = "get" => /\ UNCHANGED <<at, pc, status, printed>> /\ changes' \in Nat
                        /\ changes \in Nat /\ changes' >= changes
                        /\ changes' = 0 => tree'[target] = tree[target],
         cmd # "get" => pc' \notin {"exists", "get", "crash"}
  PROVE  GetInv'
<1>1. CASE cmd # "get"
  BY <1>1 DEF GetInv
<1>2. CASE cmd = "get"
  <2>1. held \subseteq held' /\ changes' = 0 => changes = 0 /\ tree'[target] = tree[target]
    BY <1>2
  <2>2. GetShows'
    BY <1>2 DEF GetInv, GetShows
  <2>3. pc' \in {"get", "crash"} => \E data \in held' : Length(data) > 0 /\ data # None
    BY <1>2 DEF GetInv
  <2> QED BY <1>2, <2>1, <2>2, <2>3 DEF GetInv
<1> QED BY <1>1, <1>2

LEMMA GetStep == Kinds /\ Rest /\ GetInv /\ [Next]_vars => GetInv'
<1> SUFFICES ASSUME Kinds, Rest, GetInv, [Next]_vars PROVE GetInv'
  OBVIOUS
<1>1. ASSUME NEW c \in Commands, NEW d \in Depths, NEW data \in Values \cup {"empty"},
             Enter(c, d, data)
      PROVE  GetInv'
  <2>1. /\ UNCHANGED tree /\ cmd' = c /\ target' = d /\ at' = d /\ held' = {tree[d]}
        /\ pc' = FirstRequest[c]
    BY <1>1 DEF Enter
  <2>2. pc' = "exists" <=> c = "get"
    BY <2>1 DEF FirstRequest
  <2>3. pc' \in {"create", "exists", "set", "del"}
    BY <2>1 DEF FirstRequest
  <2> QED BY <2>1, <2>2, <2>3 DEF GetInv, GetShows
<1>2. CASE Create \/ Set \/ Del
  <2>1. /\ pc \in {"create", "again", "set", "del"} /\ UNCHANGED <<cmd, target>>
        /\ \/ ServerCreate(at, Written) \/ ServerSet(at, arg) \/ ServerDelete(at)
        /\ pc' \in {"create", "again", "return", "done"}
    BY <1>2 DEF Create, Set, Del, cmdVars, Created, MkdirReturns, Finish
  <2>2. at \in Depths /\ Written \in Data /\ arg \in Data /\ cmd # "none"
    BY <2>1, DataIsNode DEF Kinds, Place, Busy, Written
  <2>3. (\E x \in Data \cup {None} : Put(at, x)) \/ Keep
    BY <2>1, <2>2, ServerPuts
  <2>4. held \subseteq held' /\ tree'[target] \in held'
    BY <2>2, <2>3, Recorded DEF GetInv
  <2>5. cmd # "get"
    BY <2>1 DEF GetInv
  <2> QED BY <2>1, <2>4, <2>5, GetStays
<1>3. CASE Unwind
  <2>1. /\ pc = "return" /\ UNCHANGED <<cmd, target, tree, held>>
        /\ pc' \in {"again", "return", "done"}
    BY <1>3 DEF Unwind, cmdVars, histVars, MkdirReturns, Finish
  <2> QED BY <2>1, GetStays DEF GetInv
<1>4. CASE Stat
  <2>1. /\ cmd = "get" /\ at = target /\ tree[target] \in held /\ target \in Depths
        /\ UNCHANGED <<tree, cmd, target, held, at, changes>>
    BY <1>4 DEF Stat, GetInv, cmdVars, histVars, Finish, Kinds, Place, Busy
  <2>2. CASE Finish("NONODE")
    BY <2>1, <2>2 DEF Finish, GetInv, GetShows
  <2>3. CASE Length(tree[at]) = 0 /\ Finish("OK") /\ printed' = "{}"
    <3>1. tree[at] \in {"null", "empty"}
      <4>1. Length(tree[at]) = 0
        BY <2>3
      <4> QED BY <4>1 DEF Length
    <3> QED BY <2>1, <2>3, <3>1 DEF Finish, GetInv, GetShows
  <2>4. CASE Exists(at) /\ Length(tree[at]) # 0 /\ status' = "OK" /\ pc' = "get"
    <3>1. tree[target] # None /\ Length(tree[target]) > 0 /\ tree[target] # "null"
      BY <2>1, <2>4 DEF Exists, Length
    <3>2. \E data \in held' : Length(data) > 0 /\ data # None
      BY <2>1, <3>1
    <3> QED BY <2>1, <2>4, <3>1, <3>2 DEF GetInv, GetShows
  <2> QED BY <1>4, <2>2, <2>3, <2>4 DEF Stat
<1>5. CASE Get
  <2>1. /\ cmd = "get" /\ at = target /\ tree[target] \in held /\ target \in Depths
        /\ UNCHANGED <<tree, cmd, target, held, at, changes>> /\ pc = "get"
    BY <1>5 DEF Get, GetInv, cmdVars, histVars, Finish, Kinds, Place, Busy
  <2>2. CASE Finish("NONODE")
    BY <2>1, <2>2 DEF Finish, GetInv, GetShows
  <2>3. CASE Exists(at) /\ Finish("OK") /\ printed' = tree[at]
    <3>1. tree[target] # None
      BY <2>1, <2>3 DEF Exists
    <3> QED BY <2>1, <2>3, <3>1 DEF Finish, GetInv, GetShows
  <2>4. CASE tree[at] = "null" /\ pc' = "crash"
    <3>1. changes > 0
      BY <2>1, <2>4 DEF GetInv, Kinds
    <3> QED BY <2>1, <2>4, <3>1 DEF GetInv, GetShows
  <2> QED BY <1>5, <2>2, <2>3, <2>4 DEF Get
<1>6. CASE Lost
  <2>1. /\ UNCHANGED <<cmd, target>> /\ pc \in Busy
        /\ IF cmd = "mkdir" THEN MkdirReturns("SOCK") ELSE Finish("SOCK")
        /\ Keep \/ ServerCreate(at, Written) \/ ServerSet(at, arg) \/ ServerDelete(at)
    BY <1>6 DEF Lost, cmdVars, Busy
  <2>2. at \in Depths /\ Written \in Data /\ arg \in Data /\ cmd # "none"
    BY <2>1, DataIsNode DEF Kinds, Place, Written
  <2>3. (\E x \in Data \cup {None} : Put(at, x)) \/ Keep
    BY <2>1, <2>2, ServerPuts
  <2>4. held \subseteq held' /\ tree'[target] \in held'
    BY <2>2, <2>3, Recorded DEF GetInv
  <2>5. CASE cmd = "get"
    <3>1. status' = "SOCK" /\ pc' = "done" /\ UNCHANGED at
      BY <2>1, <2>5 DEF Finish
    <3> QED BY <2>1, <2>4, <2>5, <3>1 DEF GetInv, GetShows
  <2>6. CASE cmd # "get"
    <3>1. pc' \in {"done", "again", "return"}
      BY <2>1 DEF MkdirReturns, Finish
    <3> QED BY <2>1, <2>4, <2>6, <3>1, GetStays
  <2> QED BY <2>5, <2>6
<1>7. CASE Leave
  BY <1>7 DEF Leave, GetInv, GetShows
<1>8. CASE Other
  <2>1. /\ UNCHANGED <<cmd, target, pc, at, status, printed>> /\ cmd # "none"
        /\ changes' = changes + 1 /\ changes \in Nat
    BY <1>8 DEF Other, cmdVars, Kinds
  <2>2. PICK d \in Depths : (\E x \in Data \cup {None} : Put(d, x)) \/ Keep
    <3>1. PICK d \in Depths :
            \/ ServerCreate(d, "empty")
            \/ \E data \in Data : ServerSet(d, data)
            \/ ServerDelete(d)
      BY <1>8 DEF Other
    <3> QED BY <3>1, ServerPuts, DataIsNode
  <2>3. held \subseteq held' /\ tree'[target] \in held'
    BY <2>1, <2>2, Recorded DEF GetInv
  <2>4. cmd # "get" => pc' \notin {"exists", "get", "crash"}
    BY <2>1 DEF GetInv
  <2> QED BY <2>1, <2>3, <2>4, GetStays
<1>9. CASE UNCHANGED vars
  BY <1>9 DEF vars, cmdVars, histVars, GetInv, GetShows
<1> QED
  BY <1>1, <1>2, <1>3, <1>4, <1>5, <1>6, <1>7, <1>8, <1>9 DEF Next

LEMMA GetHolds == Spec => []GetInv
<1>1. Init => Rest /\ GetInv
  BY DEF Init, Rest, Results, GetInv, GetShows
<1> QED
  BY <1>1, KindsInit, KindsStep, RestStep, GetStep, PTL DEF Spec

\* get asks for a node twice, but prints what the node held at one moment of the
\* command, whatever the other client did in between.
THEOREM GetPrints == Spec => []GetShows
<1>1. GetInv => GetShows
  BY DEF GetInv, GetShows
<1> QED BY <1>1, GetHolds, PTL

\* getCommand reads through a null buffer only if the data it has seen was taken
\* from the node between its two requests.
THEOREM GetCrashes == Spec => []GetCrash
<1>1. GetInv => GetCrash
  BY DEF GetInv, GetCrash
<1> QED BY <1>1, GetHolds, PTL
=============================================================================
