-------------------------------- MODULE Tree --------------------------------
(***************************************************************************)
(* What the commands of main.c do to the nodes of the server, one request  *)
(* at a time, while another client changes the same nodes between any two  *)
(* requests.  A path is its depth: the nodes lie on one branch, which      *)
(* starts below the root.  zk_mkdir calls itself for the parent and comes  *)
(* back; getCommand asks for a node twice.  A reply may be lost, with the  *)
(* request carried out or not.                                             *)
(***************************************************************************)
EXTENDS Integers, FiniteSets

CONSTANTS
  Depth,       \* nodes on the branch
  Values,      \* the data of a node, apart from none and from empty data
  Commands,    \* those the user types
  MaxChanges   \* Bound: changes of the other client during a command

ASSUME TreeAssumption ==
  /\ Depth \in Nat /\ MaxChanges \in Nat
  /\ Commands \subseteq {"create", "mkdir", "get", "set", "del"}
  /\ {"absent", "null", "empty"} \cap Values = {}

VARIABLES
  tree,      \* the data of the node at each depth
  cmd,       \* the command, or "none"
  target,    \* its path
  arg,       \* the data it writes
  pc,        \* the next request: "create", "again", "exists", "get", "set", "del"
  at,        \* the path of the call of zk_mkdir that is running
  status,    \* what its last request returned
  printed,   \* what get prints
  requests,  \* history: how many were sent
  made,      \* history: depths this command has made
  changes,   \* history: what the other client did during the command
  held,      \* history: what the target held during the command
  before     \* history: whether the target existed when it started

cmdVars  == <<cmd, target, arg>>
histVars == <<changes, held, before>>
vars == <<tree, cmdVars, pc, at, status, printed, requests, made, histVars>>

Depths == 1..Depth
Data   == {"null", "empty"} \cup Values
None   == "absent"

Exists(d)    == d = 0 \/ tree[d] # None
Children(d)  == d < Depth /\ tree[d + 1] # None
Length(data) == IF data \in {"null", "empty"} THEN 0 ELSE 1

Init ==
  /\ tree \in {t \in [Depths -> {None, "empty"}] :
                 \A d \in Depths : t[d] # None => \A e \in 1..d : t[e] # None}
  /\ cmd = "none" /\ target = 0 /\ arg = "empty"
  /\ pc = "idle" /\ at = 0 /\ status = "OK" /\ printed = None
  /\ requests = 0 /\ made = {}
  /\ changes = 0 /\ held = {} /\ before = FALSE

-----------------------------------------------------------------------------
(* The server (not in this repository).                                    *)

CreateResult(d) ==
  IF ~Exists(d - 1) THEN "NONODE" ELSE IF Exists(d) THEN "NODEEXISTS" ELSE "OK"

Put(d, data) ==
  /\ tree' = [tree EXCEPT ![d] = data]
  /\ held' = IF d = target THEN held \cup {data} ELSE held

Keep == UNCHANGED <<tree, held>>

ServerCreate(d, data) == IF CreateResult(d) = "OK" THEN Put(d, data) ELSE Keep

SetResult(d) == IF Exists(d) THEN "OK" ELSE "NONODE"

ServerSet(d, data) == IF SetResult(d) = "OK" THEN Put(d, data) ELSE Keep

DeleteResult(d) ==
  IF ~Exists(d) THEN "NONODE" ELSE IF Children(d) THEN "NOTEMPTY" ELSE "OK"

ServerDelete(d) == IF DeleteResult(d) = "OK" THEN Put(d, None) ELSE Keep

\* The other client makes, changes or removes a node.
Other ==
  /\ cmd # "none" /\ changes < MaxChanges
  /\ changes' = changes + 1
  /\ \E d \in Depths :
       \/ CreateResult(d) = "OK" /\ ServerCreate(d, "empty")
       \/ SetResult(d) = "OK" /\ \E data \in Data \ {tree[d]} : ServerSet(d, data)
       \/ DeleteResult(d) = "OK" /\ ServerDelete(d)
  /\ UNCHANGED <<cmdVars, pc, at, status, printed, requests, made, before>>

-----------------------------------------------------------------------------
(* The commands.                                                           *)

FirstRequest ==
  [create |-> "create", mkdir |-> "create", get |-> "exists", set |-> "set", del |-> "del"]

\* processCommand calls a command function.  set asks for data, create does not.
Enter(c, d, data) ==
  /\ cmd = "none"
  /\ c = "set" => data # "empty"
  /\ c \notin {"create", "set"} => data = "empty"
  /\ cmd' = c /\ target' = d /\ arg' = data
  /\ pc' = FirstRequest[c] /\ at' = d
  /\ status' = "OK" /\ printed' = None
  /\ requests' = 0 /\ made' = {} /\ changes' = 0
  /\ held' = {tree[d]} /\ before' = Exists(d)
  /\ UNCHANGED tree

Finish(s) == status' = s /\ pc' = "done" /\ UNCHANGED at

\* Fault: after a failed parent zk_mkdir tries its own path all the same.
MkdirReturnsBlindly(s) ==
  IF at = target THEN Finish(s)
  ELSE status' = s /\ at' = at + 1 /\ pc' = "again"

\* A call of zk_mkdir returns, to another one or to mkdirCommand.
MkdirReturns(s) ==
  IF at = target THEN Finish(s)
  ELSE /\ status' = s
       /\ at' = at + 1
       /\ pc' = IF s = "OK" THEN "again" ELSE "return"

\* Fault: zk_mkdir starts over at the parent whenever a create fails.
CreatedRetrying(s) ==
  IF cmd = "mkdir" /\ s = "NONODE"
    THEN status' = s /\ at' = at - 1 /\ pc' = "create"
  ELSE IF cmd = "mkdir" THEN MkdirReturns(s) ELSE Finish(s)

\* Fault: zk_mkdir goes up on every error, not on ZNONODE alone.
CreatedClimbing(s) ==
  IF cmd = "mkdir" /\ s # "OK" /\ pc = "create"
    THEN status' = s /\ at' = at - 1 /\ pc' = "create"
  ELSE IF cmd = "mkdir" THEN MkdirReturns(s) ELSE Finish(s)

\* The result of zk_create: zk_mkdir goes up to the parent once.
Created(s) ==
  IF cmd = "mkdir" /\ s = "NONODE" /\ pc = "create"
    THEN status' = s /\ at' = at - 1 /\ pc' = "create"
  ELSE IF cmd = "mkdir" THEN MkdirReturns(s) ELSE Finish(s)

\* zk_mkdir writes no data, createCommand what was typed.
Written == IF cmd = "mkdir" THEN "empty" ELSE arg

Create ==
  /\ pc \in {"create", "again"}
  /\ Created(CreateResult(at))
  /\ ServerCreate(at, Written)
  /\ made' = IF CreateResult(at) = "OK" THEN made \cup {at} ELSE made
  /\ requests' = requests + 1
  /\ UNCHANGED <<cmdVars, printed, changes, before>>

\* A failed call of zk_mkdir is handed down without a request.
Unwind ==
  /\ pc = "return"
  /\ MkdirReturns(status)
  /\ UNCHANGED <<tree, cmdVars, printed, requests, made, histVars>>

\* Fault: the length is not looked at.
StatAnyLength ==
  /\ pc = "exists"
  /\ \/ ~Exists(at) /\ Finish("NONODE")
     \/ Exists(at) /\ status' = "OK" /\ pc' = "get" /\ UNCHANGED at
  /\ requests' = requests + 1
  /\ UNCHANGED <<tree, cmdVars, printed, made, histVars>>

\* zk_exists: ZNONODE is an answer, and a node of length 0 is printed as {}.
Stat ==
  /\ pc = "exists"
  /\ \/ ~Exists(at) /\ Finish("NONODE") /\ UNCHANGED printed
     \/ Exists(at) /\ Length(tree[at]) = 0 /\ Finish("OK") /\ printed' = "{}"
     \/ /\ Exists(at) /\ Length(tree[at]) # 0
        /\ status' = "OK" /\ pc' = "get" /\ UNCHANGED <<at, printed>>
  /\ requests' = requests + 1
  /\ UNCHANGED <<tree, cmdVars, made, histVars>>

\* Fault: a node that is gone is printed like an empty one.
GetGone ==
  /\ pc = "get"
  /\ \/ ~Exists(at) /\ Finish("OK") /\ printed' = "{}"
     \/ Exists(at) /\ Finish("OK") /\ printed' = tree[at]
  /\ requests' = requests + 1
  /\ UNCHANGED <<tree, cmdVars, made, histVars>>

\* zk_get, and data.buff[data.len] = 0: no data is a NULL with length -1.
Get ==
  /\ pc = "get"
  /\ \/ ~Exists(at) /\ Finish("NONODE") /\ UNCHANGED printed
     \/ /\ Exists(at) /\ tree[at] # "null"
        /\ Finish("OK") /\ printed' = tree[at]
     \/ /\ Exists(at) /\ tree[at] = "null"
        /\ pc' = "crash" /\ UNCHANGED <<status, at, printed>>
  /\ requests' = requests + 1
  /\ UNCHANGED <<tree, cmdVars, made, histVars>>

\* zk_set and zk_del ask for version -1, whatever version was typed.
Set ==
  /\ pc = "set"
  /\ Finish(SetResult(at))
  /\ ServerSet(at, arg)
  /\ requests' = requests + 1
  /\ UNCHANGED <<cmdVars, printed, made, changes, before>>

Del ==
  /\ pc = "del"
  /\ Finish(DeleteResult(at))
  /\ ServerDelete(at)
  /\ requests' = requests + 1
  /\ UNCHANGED <<cmdVars, printed, made, changes, before>>

\* No reply: the request was carried out, or not.
Lost ==
  /\ pc \in {"create", "again", "exists", "get", "set", "del"}
  /\ \/ Keep /\ UNCHANGED made
     \/ /\ pc \in {"create", "again"} /\ CreateResult(at) = "OK"
        /\ ServerCreate(at, Written) /\ made' = made \cup {at}
     \/ pc = "set" /\ ServerSet(at, arg) /\ UNCHANGED made
     \/ pc = "del" /\ ServerDelete(at) /\ UNCHANGED made
  /\ IF cmd = "mkdir" THEN MkdirReturns("SOCK") ELSE Finish("SOCK")
  /\ requests' = requests + 1
  /\ UNCHANGED <<cmdVars, printed, changes, before>>

\* The command function returns; what it held is forgotten.
Leave ==
  /\ pc = "done"
  /\ cmd' = "none" /\ target' = 0 /\ arg' = "empty"
  /\ pc' = "idle" /\ at' = 0 /\ status' = "OK" /\ printed' = None
  /\ requests' = 0 /\ made' = {} /\ changes' = 0 /\ held' = {} /\ before' = FALSE
  /\ UNCHANGED tree

Next ==
  \/ \E c \in Commands, d \in Depths, data \in Values \cup {"empty"} : Enter(c, d, data)
  \/ Create \/ Unwind \/ Stat \/ Get \/ Set \/ Del \/ Lost \/ Leave
  \/ Other

Spec == Init /\ [][Next]_vars

-----------------------------------------------------------------------------
(* Properties.                                                             *)

Pcs == {"idle", "create", "again", "return", "exists", "get", "set", "del", "done", "crash"}

Results == {"OK", "NONODE", "NODEEXISTS", "NOTEMPTY", "SOCK"}

\* Types, and that the nodes of the branch reach from the root down.
TypeOK ==
  /\ tree \in [Depths -> Data \cup {None}]
  /\ \A d \in Depths : tree[d] # None => Exists(d - 1)
  /\ cmd \in Commands \cup {"none"} /\ target \in 0..Depth /\ arg \in Data
  /\ pc \in Pcs /\ status \in Results
  /\ IF cmd = "none" THEN at = 0 ELSE at \in 1..target
  /\ printed \in Data \cup {None, "{}"}
  /\ requests \in Nat /\ made \subseteq Depths
  /\ changes \in 0..MaxChanges /\ before \in BOOLEAN

\* mkdir fails on its path because the path was there before, because a reply
\* was lost, or because the other client made or removed a node between two
\* requests of zk_mkdir; and it succeeds only with a node it has made.
MkdirOutcome ==
  cmd = "mkdir" /\ pc = "done" =>
    /\ status = "OK" => target \in made /\ (before => changes > 0)
    /\ status = "NODEEXISTS" => before \/ changes > 0
    /\ status = "NONODE" => changes > 0

\* zk_mkdir sends at most one request for each node on the way up and one on
\* the way down, whatever the other client does: it does not start over.
BoundedRequests == cmd = "mkdir" => requests <= 2 * target - 1

\* No command sends another request once a reply was lost, when the
\* connection is of no use (zk_mkdir hands the failure down).
StopsAfterLoss == [][status = "SOCK" /\ cmd' = cmd => requests' = requests]_vars

\* What get prints, the node held at some moment of the command, although
\* getCommand looks at it twice.
GetShows ==
  cmd = "get" /\ pc = "done" /\ status = "OK" =>
    \/ printed = "{}" /\ {"null", "empty"} \cap held # {}
    \/ printed \in held \ {None}

\* get dereferences the buffer of a node without data only if the data went
\* between its two requests (the check of dataLength in getCommand).
GetCrash == pc = "crash" => changes > 0 /\ \E data \in held : Length(data) > 0 /\ data # None

\* Why mkdir keeps its promises: on the way up nothing from here to the
\* target exists, on the way down the parent does, as far as the other client
\* let it; and each call accounts for its requests.
MkdirInv ==
  cmd = "mkdir" =>
    /\ target \in Depths /\ at \in 1..target
    /\ pc \in {"create", "again", "return", "done"}
    /\ pc = "create" =>
         /\ requests = target - at
         /\ changes = 0 =>
              /\ at < target => ~before /\ \A d \in at..target : ~Exists(d)
              /\ at = target => (before <=> Exists(target))
    /\ pc \in {"again", "return"} => at > 1 /\ requests <= target + at - 2
    /\ pc = "again" /\ changes = 0 =>
         ~before /\ Exists(at - 1) /\ \A d \in at..target : ~Exists(d)
    /\ pc = "return" => status # "OK" /\ (changes = 0 => status = "SOCK")
    /\ pc = "done" => requests <= 2 * target - 1 /\ MkdirOutcome

\* Why get shows a state of its node: what the node holds is in held, and what
\* zk_exists saw of it is no longer so only if the other client changed it.
GetInv ==
  /\ cmd # "none" => tree[target] \in held
  /\ pc \in {"exists", "get", "crash"} => cmd = "get"
  /\ cmd = "get" =>
       /\ pc \in {"exists", "get", "done", "crash"} /\ at = target
       /\ pc \in {"get", "crash"} => \E data \in held : Length(data) > 0 /\ data # None
       /\ pc = "get" /\ changes = 0 => tree[target] # "null"
       /\ pc = "crash" => changes > 0
       /\ GetShows

\* After a lost reply a command only returns, through each call of zk_mkdir.
LossInv == status = "SOCK" => pc \in {"return", "done"}
=============================================================================
