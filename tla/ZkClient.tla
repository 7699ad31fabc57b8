------------------------------ MODULE ZkClient ------------------------------
(***************************************************************************)
(* The zk_client of the command line tool: the main thread (main.c's       *)
(* command loop, request.c's zk_* calls, zkclient.c's reset_zkclient,      *)
(* do_connect and destroy_client) and the ping thread do_connect starts on *)
(* each connection, around the exchanges of module Exchange.               *)
(***************************************************************************)
EXTENDS Exchange

CONSTANTS
  Cmds,       \* what the user may type; "complete" is the tab key
  NServers,   \* c->nservers
  MaxCmds,    \* bound: lines the user enters
  MaxPings,   \* bound: pings sent, over all ping threads
  MkdirDepth  \* bound: missing ancestors mkdir walks up

ASSUME ClientAssumption ==
  /\ Cmds \subseteq {"get", "create", "mkdir", "ls", "stat", "set", "del",
                     "unknown", "quit", "complete"}
  /\ NServers \in Nat \ {0}
  /\ MaxCmds \in Nat /\ MaxPings \in Nat /\ MkdirDepth \in Nat

VARIABLES
  state,      \* c->state
  ping_tid,   \* c->ping_tid, 0 before the first pthread_create
  conns,      \* sockets opened so far
  retries,    \* do_connect's retries
  cmd,        \* command being processed
  op,         \* zk_* function it is in
  depth,      \* depth of the recursion of zk_mkdir
  status,     \* processCommand's status
  cmds,       \* lines entered so far
  pings       \* pings sent so far

callVars  == <<cmd, op, depth, status, cmds>>
sessVars  == <<state, ping_tid, conns, retries>>
ctlVars   == <<callVars, sessVars, pings>>
vars      == <<xVars, ctlVars>>

At(l)   == pc[Main] = l
Jump(l) == Goto(Main, l)
Running == pc[Main] \notin {"exit", "crash", "done"}

\* The zk_* function a command calls first.
OpOf(c) ==
  CASE c \in {"get", "stat"}     -> "exists"
    [] c \in {"create", "mkdir"} -> "create"
    [] c \in {"ls", "complete"}  -> "ls"
    [] c \in {"set", "del"}      -> c

\* new_client: the fields it sets, then do_connect.  c->last_err is left as
\* malloc returned it:
\* a code that check_reconnect lists, or another.
Init ==
  /\ lock = None /\ unguarded = FALSE
  /\ last_err \in {"OK", "FATAL"}
  /\ pc = [t \in Threads |-> IF t = Main THEN "connect" ELSE "none"]
  /\ cancelled = [t \in Threads |-> FALSE]
  /\ phase = "auth"
  /\ my = [t \in Threads |-> 0] /\ got = [t \in Threads |-> 0]
  /\ err = [t \in Threads |-> "OK"]
  /\ sock = None /\ open = FALSE /\ up = FALSE
  /\ sent = 0 /\ writer = Main /\ reqs = <<>> /\ inbox = <<>> /\ abandoned = 0
  /\ shifts = 0
  /\ state = "INIT" /\ ping_tid = 0 /\ conns = 0 /\ retries = 0
  /\ cmd = "none" /\ op = "none" /\ depth = 0 /\ status = "OK"
  /\ cmds = 0 /\ pings = 0

-----------------------------------------------------------------------------
(* main.c: the loop of main, processCommand and the tab completion.        *)

\* linenoise returns a line, or calls the completion callback.
Enter(c) ==
  /\ At("idle")
  /\ cmds < MaxCmds
  /\ cmds' = cmds + 1
  /\ cmd' = c
  /\ depth' = 0
  /\ status' = "OK"
  /\ IF c \in {"unknown", "quit"}
     THEN Jump("check") /\ UNCHANGED op
     ELSE Jump("lock") /\ op' = OpOf(c)
  /\ UNCHANGED <<lockVars, connVars, cancelled, phase, my, got, err, last_err,
                 sessVars, pings>>

\* linenoise returns NULL: the loop ends without processCommand.
EndOfInput ==
  /\ At("idle")
  /\ Jump("stop")
  /\ UNCHANGED <<lockVars, connVars, cancelled, phase, my, got, err, last_err,
                 ctlVars>>

\* Fault: the zk_* functions do not take the mutex.
AcquireNothing ==
  /\ At("lock")
  /\ Jump("send")
  /\ UNCHANGED <<lockVars, connVars, cancelled, phase, my, got, err, last_err,
                 ctlVars>>

\* pthread_mutex_lock before the exchange; zk_del calls unlock instead.
Acquire ==
  /\ At("lock")
  /\ \/ op = "del" /\ lock' = None /\ unguarded' = TRUE
     \/ op # "del" /\ lock = None /\ lock' = Main /\ UNCHANGED unguarded
  /\ Jump("send")
  /\ UNCHANGED <<connVars, cancelled, phase, my, got, err, last_err, ctlVars>>

\* recv_response returned NULL: zk_* and authenticate take c->last_err.
Failed ==
  /\ At("failed")
  /\ err' = [err EXCEPT ![Main] = last_err]
  /\ Jump(IF phase = "cmd" THEN "release"
          ELSE IF last_err = "OK" THEN "spawn" ELSE "attempt")
  /\ UNCHANGED <<lockVars, connVars, cancelled, phase, my, got, last_err,
                 ctlVars>>

\* Fault: the mutex is not released once a reply was received.
ReceivedKeepsLock ==
  /\ At("got") /\ phase = "cmd"
  /\ Jump("decode")
  /\ UNCHANGED <<lockVars, connVars, cancelled, phase, my, got, err, last_err,
                 ctlVars>>

\* A reply was received: zk_* unlocks before it decodes.
Received ==
  /\ At("got") /\ phase = "cmd"
  /\ Unlock(Main)
  /\ Jump("decode")
  /\ UNCHANGED <<connVars, cancelled, phase, my, got, err, last_err, ctlVars>>

\* zk_exists takes ZNONODE for an answer; to the others it is an error.
ErrorReply == err[Main] # "OK" /\ ~(op = "exists" /\ err[Main] = "NONODE")

\* decode_reply_header, then the body.  An error goes to ERROR, where the
\* mutex is unlocked a second time.
Decode ==
  /\ At("decode")
  /\ last_err' = err[Main]
  /\ Jump(IF ErrorReply THEN "release" ELSE "ret")
  /\ UNCHANGED <<lockVars, connVars, cancelled, phase, my, got, err, ctlVars>>

\* The reply is another request's, or its bytes are nobody's in particular.
Foreign == got[Main] # my[Main] \/ shifts # 0

\* Such a body does not deserialize: an error without a code, or a crash on a
\* string, data or children that nobody set.
Undecodable ==
  /\ At("decode")
  /\ Foreign /\ ~ErrorReply
  /\ last_err' = err[Main]
  /\ \/ /\ op \in {"create", "unwind", "set"}
        /\ err' = [err EXCEPT ![Main] = "ERR"]
        /\ Jump("ret")
     \/ op \in {"create", "unwind", "get", "ls"} /\ Jump("crash") /\ UNCHANGED err
  /\ UNCHANGED <<lockVars, connVars, cancelled, phase, my, got, ctlVars>>

\* The unlock under the label ERROR of the zk_* functions.
Release ==
  /\ At("release")
  /\ Unlock(Main)
  /\ Jump("ret")
  /\ UNCHANGED <<connVars, cancelled, phase, my, got, err, last_err, ctlVars>>

\* Back in main's loop, which quit ends.
Leave ==
  /\ Jump(IF cmd = "quit" THEN "stop" ELSE "idle")
  /\ cmd' = "none" /\ op' = "none" /\ depth' = 0 /\ status' = "OK"

returnFrame == <<lockVars, connVars, cancelled, phase, last_err, sessVars,
                 cmds, pings>>

\* zk_mkdir on ZNONODE calls itself for the parent, and once that is made
\* creates the path it was called for; this second status it returns.
Climb  == cmd = "mkdir" /\ op = "create" /\ err[Main] = "NONODE"
            /\ depth < MkdirDepth
Unwind == cmd = "mkdir" /\ err[Main] = "OK" /\ depth > 0

MkdirStep ==
  /\ At("ret")
  /\ \/ Climb  /\ depth' = depth + 1 /\ UNCHANGED op
     \/ Unwind /\ depth' = depth - 1 /\ op' = "unwind"
  /\ Jump("lock") /\ Forget(Main)
  /\ UNCHANGED <<returnFrame, cmd, status>>

\* getCommand reads the data of a node that zk_exists found not to be empty.
GetStep ==
  /\ At("ret")
  /\ cmd = "get" /\ op = "exists" /\ err[Main] = "OK"
  /\ op' = "get"
  /\ Jump("lock") /\ Forget(Main)
  /\ UNCHANGED <<returnFrame, cmd, depth, status>>

\* The completion callback returns: it looks at no error.
Completed ==
  /\ At("ret")
  /\ cmd = "complete"
  /\ Leave /\ Forget(Main)
  /\ UNCHANGED returnFrame

\* A command's status: on any failure, c->last_err as it is by now.
Return ==
  /\ At("ret")
  /\ cmd # "complete" /\ ~Climb /\ ~Unwind
  /\ status' = IF err[Main] = "OK" THEN "OK" ELSE last_err
  /\ Jump("check") /\ Forget(Main)
  /\ UNCHANGED <<returnFrame, cmd, op, depth>>

\* Fault: only the codes of check_reconnect lead to a reconnect.
CheckCodesOnly ==
  /\ At("check")
  /\ IF last_err = "FATAL"
     THEN Jump("trylock") /\ UNCHANGED <<cmd, op, depth, status>>
     ELSE Leave
  /\ UNCHANGED <<lockVars, connVars, cancelled, phase, my, got, err, last_err,
                 sessVars, cmds, pings>>

\* The end of processCommand: status, and check_reconnect on c->last_err.
Check ==
  /\ At("check")
  /\ IF status = "SOCK" \/ last_err = "FATAL"
     THEN Jump("trylock") /\ UNCHANGED <<cmd, op, depth, status>>
     ELSE Leave
  /\ UNCHANGED <<lockVars, connVars, cancelled, phase, my, got, err, last_err,
                 sessVars, cmds, pings>>

Command ==
  \/ \E c \in Cmds : Enter(c)
  \/ EndOfInput \/ Acquire \/ Failed \/ Received \/ Decode \/ Undecodable
  \/ Release \/ MkdirStep \/ GetStep \/ Completed \/ Return \/ Check

-----------------------------------------------------------------------------
(* zkclient.c: reset_zkclient, do_connect and destroy_client.              *)

mainFrame == <<connVars, phase, my, got, err, last_err, ctlVars>>

TryLock ==
  /\ At("trylock")
  /\ lock' = IF lock = None THEN Main ELSE lock
  /\ Jump("forceunlock")
  /\ UNCHANGED <<mainFrame, unguarded, cancelled>>

ForceUnlock ==
  /\ At("forceunlock")
  /\ Unlock(Main)
  /\ Jump("cancel")
  /\ UNCHANGED <<mainFrame, cancelled>>

\* Fault: the old ping thread is not cancelled.
CancelNobody ==
  /\ At("cancel")
  /\ Jump("close")
  /\ UNCHANGED <<mainFrame, lockVars, cancelled>>

\* pthread_cancel asks; nobody waits for the thread to be gone.
Cancel ==
  /\ At("cancel")
  /\ cancelled' = [t \in Threads |-> cancelled[t] \/ t \in {ping_tid} \ {Main}]
  /\ Jump("close")
  /\ UNCHANGED <<mainFrame, lockVars>>

\* c->sock is s, and if that is not -1 a connection nobody has used.
NewSocket(s) ==
  /\ sock' = s /\ open' = (s # None) /\ up' = (s # None)
  /\ sent' = 0 /\ writer' = Main /\ reqs' = <<>> /\ inbox' = <<>> /\ abandoned' = 0
  /\ shifts' = 0

\* The rest of reset_zkclient: c->last_err stays as it is.
Close ==
  /\ At("close")
  /\ NewSocket(None)
  /\ state' = "INIT"
  /\ unguarded' = FALSE
  /\ Jump("connect")
  /\ UNCHANGED <<lock, cancelled, phase, my, got, err, last_err, callVars,
                 ping_tid, conns, retries, pings>>

Connect ==
  /\ At("connect")
  /\ retries' = NServers
  /\ phase' = "auth"
  /\ Jump("attempt")
  /\ UNCHANGED <<lockVars, connVars, cancelled, my, got, err, last_err,
                 callVars, state, ping_tid, conns, pings>>

attemptFrame == <<lockVars, cancelled, phase, last_err, callVars, ping_tid,
                  pings>>

\* Fault: the loop of do_connect makes one round too many.
RefusedOnceMore ==
  /\ At("attempt")
  /\ retries >= 0
  /\ retries' = retries - 1
  /\ UNCHANGED <<attemptFrame, connVars, pc, my, got, err, state, conns>>

\* A server without a port, or one that refuses: the next one.
Refused ==
  /\ At("attempt")
  /\ retries > 0
  /\ retries' = retries - 1
  /\ UNCHANGED <<attemptFrame, connVars, pc, my, got, err, state, conns>>

\* connect_server returns -1 for a host it cannot resolve; do_connect looks
\* for ZK_ERROR, so it takes that for a socket.
Unresolved ==
  /\ At("attempt")
  /\ retries > 0
  /\ retries' = retries - 1
  /\ NewSocket(None)
  /\ state' = "CONNECTED"
  /\ Jump("send") /\ Forget(Main)
  /\ UNCHANGED <<attemptFrame, conns>>

\* connect_server returns a socket, connected or not: a time-out of its
\* wait_socket counts as success.
Dial ==
  /\ At("attempt")
  /\ retries > 0
  /\ retries' = retries - 1
  /\ conns < MaxConns
  /\ conns' = conns + 1
  /\ NewSocket(conns + 1)
  /\ state' = "CONNECTED"
  /\ Jump("send") /\ Forget(Main)
  /\ UNCHANGED attemptFrame

Exhausted ==
  /\ At("attempt")
  /\ retries = 0
  /\ Jump("exit")
  /\ UNCHANGED <<mainFrame, lockVars, cancelled>>

\* authenticate has a reply.  What is not a ConnectResponse does not
\* deserialize, and its password is copied before that is looked at.
Authenticated ==
  /\ At("got") /\ phase = "auth"
  /\ \/ Jump("spawn")
     \/ Foreign /\ (Jump("attempt") \/ Jump("crash"))
  /\ UNCHANGED <<mainFrame, lockVars, cancelled>>

\* start_ping_thread, which exits when pthread_create fails.
Spawn ==
  /\ At("spawn")
  /\ \/ /\ ping_tid' = conns
        /\ pc' = [pc EXCEPT ![conns] = "test", ![Main] = "authed"]
        /\ phase' = "cmd"
     \/ Jump("exit") /\ UNCHANGED <<ping_tid, phase>>
  /\ Forget(Main)
  /\ UNCHANGED <<lockVars, connVars, cancelled, last_err, callVars, state,
                 conns, retries, pings>>

Authed ==
  /\ At("authed")
  /\ state' = "AUTHED"
  /\ Leave
  /\ UNCHANGED <<lockVars, connVars, cancelled, phase, my, got, err, last_err,
                 ping_tid, conns, retries, cmds, pings>>

Stop ==
  /\ At("stop")
  /\ state' = "STOP"
  /\ Jump("join")
  /\ UNCHANGED <<lockVars, connVars, cancelled, phase, my, got, err, last_err,
                 callVars, ping_tid, conns, retries, pings>>

\* Fault: destroy_client does not join the ping thread.
JoinNobody ==
  /\ At("join")
  /\ phase' = "close"
  /\ Jump("send")
  /\ UNCHANGED <<lockVars, connVars, cancelled, my, got, err, last_err, ctlVars>>

\* pthread_join, then zk_close's exchange, for which nobody takes the mutex.
Join ==
  /\ At("join")
  /\ pc[ping_tid] = "dead"
  /\ phase' = "close"
  /\ Jump("send")
  /\ UNCHANGED <<lockVars, connVars, cancelled, my, got, err, last_err, ctlVars>>

ClosingReply ==
  /\ At("got") /\ phase = "close"
  /\ last_err' = err[Main]
  /\ Jump("shut")
  /\ UNCHANGED <<lockVars, connVars, cancelled, phase, my, got, err, ctlVars>>

Shut ==
  /\ At("shut")
  /\ open' = FALSE
  /\ Jump("done")
  /\ UNCHANGED <<lockVars, sock, up, sent, writer, reqs, inbox, abandoned,
                 shifts, cancelled, phase, my, got, err, last_err, ctlVars>>

Session ==
  \/ TryLock \/ ForceUnlock \/ Cancel \/ Close
  \/ Connect \/ Refused \/ Unresolved \/ Dial \/ Exhausted
  \/ Authenticated \/ Spawn \/ Authed
  \/ Stop \/ Join \/ ClosingReply \/ Shut

-----------------------------------------------------------------------------
(* zkclient.c's do_ping_loop and request.c's zk_ping, in ping thread g.    *)

pingFrame == <<connVars, phase, ctlVars>>
locals    == <<my, got, err>>

\* c->state ends the loop.  Whether a ping is due depends on the clock.
PTest(g) ==
  /\ pc[g] = "test"
  /\ \/ state = "STOP" /\ Goto(g, "dead") /\ UNCHANGED pings
     \/ /\ state # "STOP" /\ pings < MaxPings
        /\ pings' = pings + 1
        /\ Goto(g, "plock")
     \/ state # "STOP" /\ Goto(g, "sleep") /\ UNCHANGED pings
  /\ UNCHANGED <<lockVars, connVars, cancelled, phase, my, got, err, last_err,
                 callVars, sessVars>>

\* Fault: zk_ping does not take the mutex.
PLockNothing(g) ==
  /\ pc[g] = "plock"
  /\ Goto(g, "send")
  /\ UNCHANGED <<pingFrame, locals, lockVars, cancelled, last_err>>

\* pthread_mutex_lock, which is not a cancellation point.
PLock(g) ==
  /\ pc[g] = "plock"
  /\ lock = None
  /\ lock' = g
  /\ Goto(g, "send")
  /\ UNCHANGED <<pingFrame, locals, unguarded, cancelled, last_err>>

\* do_header_request decodes the header under the mutex.
PGot(g) ==
  /\ pc[g] = "got"
  /\ last_err' = err[g]
  /\ Goto(g, "punlock")
  /\ UNCHANGED <<pingFrame, locals, lockVars, cancelled>>

PUnlock(g) ==
  /\ pc[g] = "punlock"
  /\ Unlock(g)
  /\ Goto(g, "sleep") /\ Forget(g)
  /\ UNCHANGED <<pingFrame, cancelled, last_err>>

PSleep(g) ==
  /\ pc[g] = "sleep"
  /\ ~cancelled[g]
  /\ Goto(g, "test")
  /\ UNCHANGED <<pingFrame, locals, lockVars, cancelled, last_err>>

\* write, poll, read and usleep are the cancellation points of the loop.
CancelPoints == {"send", "poll", "rlen", "rbody", "spin", "sleep"}

Die(g) ==
  /\ cancelled[g]
  /\ pc[g] \in CancelPoints
  /\ Goto(g, "dead") /\ Forget(g)
  /\ UNCHANGED <<pingFrame, lockVars, cancelled, last_err>>

PingStep(g) ==
  \/ PTest(g) \/ PLock(g) \/ PGot(g) \/ PUnlock(g) \/ PSleep(g) \/ Die(g)
  \/ Transfer(g) /\ UNCHANGED ctlVars

-----------------------------------------------------------------------------
MainStep == Command \/ Session \/ (Transfer(Main) /\ UNCHANGED ctlVars)

\* The end of the process ends its ping threads.
Next ==
  /\ Running
  /\ \/ MainStep
     \/ \E g \in Pings : PingStep(g)
     \/ Server /\ UNCHANGED ctlVars

Spec == Init /\ [][Next]_vars

\* A thread that can run goes on running.  Nothing is asked of the user, nor
\* of the server: poll's time-outs stand in for the replies it never sends.
FairSpec ==
  /\ Spec
  /\ WF_vars(Running /\ ~At("idle") /\ MainStep)
  /\ \A g \in Pings : WF_vars(Running /\ PingStep(g))

-----------------------------------------------------------------------------
(* Properties.                                                             *)

\* Every variable holds a value of its kind (types of zkclient.h:50-66).
CtlType ==
  /\ state \in {"INIT", "CONNECTED", "AUTHED", "STOP"}
  /\ ping_tid \in Threads /\ conns \in Threads /\ retries \in 0..NServers
  /\ cmd \in Cmds \cup {"none"}
  /\ op \in {"none", "exists", "get", "create", "unwind", "ls", "set", "del"}
  /\ depth \in 0..MkdirDepth /\ status \in Err
  /\ cmds \in 0..MaxCmds /\ pings \in 0..MaxPings

TypeOK == LockType /\ ConnType /\ ExecType /\ CtlType

\* A thread that may still write and read on c->sock.
Live(t) == ~cancelled[t] /\ pc[t] \notin {"none", "dead"}

\* reset_zkclient never leaves a thread behind that goes on pinging: the only
\* one not cancelled is the one that was started for the latest connection
\* (zkclient.c:34, 47-49).
SoleLivePing == \A g \in Pings : Live(g) => g = ping_tid /\ g = conns

InExchange(t) ==
  ~cancelled[t] /\ pc[t] \in {"send", "poll", "rlen", "rbody", "spin"}

\* Two threads are never both between the send and the end of the receive of
\* an exchange on c->sock, unless main has called zk_del or an unlock freed a
\* mutex that another thread owned, since the connection was opened: without
\* the mutex, authenticate and zk_close are safe because no ping thread runs
\* (request.c:224-230, 489-491, 499).
ExchangeExclusive ==
  \A t, u \in Threads :
    InExchange(t) /\ InExchange(u) /\ t # u => unguarded

\* read_socket never loops on a frame that another thread reads as well: only
\* a reply cut in pieces, or a lost mutex, makes it (request.c:52-69).
WholeFrames ==
  \A t \in Threads : pc[t] = "spin" /\ ~cancelled[t] => unguarded \/ Segments

\* Replies are read one after the other, and whole.
InStep == ~unguarded /\ shifts = 0

\* With the mutex kept, and until read_socket takes miscounted bytes for a
\* reply, replies are off by exactly the exchanges given up on the connection:
\* no xid is compared (request.c:116-128), so a thread gets the reply to its
\* own request if and only if nobody before it timed out.
OwnReply ==
  \A t \in Threads :
    pc[t] = "got" /\ ~cancelled[t] /\ InStep => got[t] = my[t] - abandoned

\* As long as no ping was sent and no completion asked for, a command starts
\* on a connection that is open and on which every reply has been read: each
\* failure of an exchange before it led to a reconnect (main.c:325-333).  A
\* miscounted reply that passes for one is no failure: nothing notices it.
SoundConnection ==
  pings = 0 /\ "complete" \notin Cmds /\ At("lock") /\ shifts = 0
    => open /\ abandoned = 0

\* reset_zkclient's trylock and unlock are there so that nobody waits for a
\* thread that was cancelled with the mutex (comment at zkclient.c:42-43).
LockSurvivesCancel ==
  ~(At("lock") /\ op # "del" /\ lock \in Pings /\ pc[lock] = "dead")

\* reset_zkclient is to wait for the ping thread (comment at zkclient.c:46), so
\* none is left when authenticate reads and writes without the mutex.
PingThreadGone ==
  phase = "auth" => \A g \in Pings : pc[g] \in {"none", "dead"}

\* What keeps main from getting on: the mutex of a thread that died owning
\* it, or a read_socket that waits for bytes it has miscounted.
Wedged ==
  \/ lock \in Pings /\ pc[lock] = "dead"
  \/ \E t \in Threads : pc[t] = "spin"

\* Whatever the server does, and whichever thread has the mutex, a command,
\* a reconnect and the end of the session come to an end.
CommandReturns == Running /\ ~At("idle") ~> ~Running \/ At("idle") \/ Wedged

\* authenticate has a reply, or has none and reads ZK_OK from c->last_err.
HasReply   == pc[Main] \in {"got", "spawn"} /\ got[Main] # 0
ForeignOK  == At("spawn") \/ (At("failed") /\ last_err = "OK")
AuthStage ==
  CASE sent = 0                          -> "fresh"
    [] sent # 0 /\ HasReply              -> "answered"
    [] sent # 0 /\ ~HasReply /\ ForeignOK  -> "misled"
    [] sent # 0 /\ ~HasReply /\ ~ForeignOK -> "greeted"

Stage ==
  CASE phase = "close" -> IF At("send") THEN "closing" ELSE "closed"
    [] phase # "close" /\ sock = None -> "down"
    [] phase = "cmd"  /\ sock # None -> "open"
    [] phase = "auth" /\ sock # None -> AuthStage

Keeper == IF ping_tid # 0 /\ Live(ping_tid) THEN ping_tid ELSE 0
Strays == {g \in Pings : cancelled[g] /\ pc[g] = "got"}

W == INSTANCE Wire WITH MaxEpoch <- MaxConns, epoch <- conns, stage <- Stage,
                        written <- sent, keeper <- Keeper, strays <- Strays

\* Each connection carries what Wire says: reset_zkclient cancels the ping
\* thread before it closes c->sock, do_connect starts one only when the server
\* answered the ConnectRequest or a cancelled thread's header put ZK_OK where
\* authenticate reads its error (request.c:126, 186), and destroy_client
\* joins the ping thread before zk_close.
ImplementsWire == W!WireSpec

-----------------------------------------------------------------------------
(* What makes the properties above inductive.                              *)

\* What main can be doing in each phase.
PhaseInv ==
  /\ phase = "auth" => pc[Main] \in ExchangeLabels \cup
       {"connect", "attempt", "failed", "spawn", "exit", "crash"}
  /\ phase = "cmd" => pc[Main] \in ExchangeLabels \cup
       {"authed", "idle", "lock", "failed", "decode", "release", "ret",
        "check", "trylock", "forceunlock", "cancel", "close", "connect",
        "stop", "join", "crash"}
  /\ phase = "close" => pc[Main] \in ExchangeLabels \cup
       {"shut", "done", "crash"}

\* Main relies on nobody else being there.
Alone    == phase # "cmd" \/ pc[Main] \in {"close", "connect"}
AloneInv == Alone => \A g \in Pings : ~Live(g)

\* Where the code takes a thread to own the mutex.
MainOwns ==
  phase = "cmd" /\ op # "del" /\ pc[Main] \in ExchangeLabels \cup {"failed"}
PingOwns(g) ==
  ~cancelled[g] /\ pc[g] \in ExchangeLabels \cup {"punlock"}
MutexInv ==
  ~unguarded => /\ MainOwns => lock = Main
                /\ \A g \in Pings : PingOwns(g) => lock = g
DelInv == phase = "cmd" /\ op = "del" /\ pc[Main] \in ExchangeLabels => unguarded

LockInv == PhaseInv /\ AloneInv /\ SoleLivePing /\ MutexInv /\ DelInv

\* What has been written when, on which connection.
Heard == (ExchangeLabels \ {"send"}) \cup {"failed", "spawn"}
WireInv ==
  /\ sock \in {None, conns}
  /\ sock = None => ~open /\ sent = 0 /\ writer = Main
  /\ At("connect") => sock = None
  /\ phase = "cmd" /\ ~At("connect") => sock # None
  /\ phase = "auth" /\ At("send") => sent = 0
  /\ phase = "auth" /\ pc[Main] \in Heard => sock # None /\ sent # 0
  /\ ping_tid <= conns
  /\ phase = "auth" /\ sock # None => ping_tid < conns
  /\ \A g \in Pings : cancelled[g] => g <= ping_tid

\* authenticate has a reply when it has read one, and not before.
ReplyInv ==
  phase = "auth" =>
    /\ pc[Main] \in (ExchangeLabels \ {"got"}) \cup {"failed"} => got[Main] = 0
    /\ At("got") => got[Main] # 0

\* A half's place in all that the server sends on a connection.
Place(h) == IF h.half = "len" THEN 2 * h.id - 1 ELSE 2 * h.id

\* What is unread goes on, without a gap up to the last request, where the
\* replies given up and those read end: k halves before the end of the last
\* one that is neither.
InSequence(k) ==
  LET taken == 2 * (sent - abandoned) - k
  IN  /\ \A i \in 1..Len(inbox) : Place(inbox[i]) = taken + i
      /\ up => \A i \in 1..Len(reqs) :
           /\ reqs[i].id = sent - Len(reqs) + i
           /\ reqs[i].due = "body" => i = 1 /\ Segments
      /\ up => taken + Len(inbox) + 1 =
           IF reqs # <<>> /\ reqs[1].due = "body"
           THEN 2 * (sent - Len(reqs) + 1) ELSE 2 * (sent - Len(reqs)) + 1

\* How far a thread is with a reply, which nobody else reads: the first half
\* has come at the least, and the second with it if replies are not cut.
Progress(t) ==
  /\ pc[t] \in {"poll", "rlen"} => InSequence(2)
  /\ pc[t] = "rbody" => InSequence(1)
  /\ pc[t] = "rlen" \/ (pc[t] = "rbody" /\ ~Segments) => inbox # <<>> \/ ~up
  /\ pc[t] = "spin" => Segments
  /\ pc[t] = "got" => got[t] = my[t] - abandoned

AfterSend == ExchangeLabels \ {"send"}
NoReader  == \A t \in Threads : cancelled[t] \/ pc[t] \notin AfterSend \ {"got"}

StreamInv ==
  InStep =>
    /\ \A t \in Threads :
         ~cancelled[t] /\ pc[t] \in AfterSend => open /\ my[t] = sent /\ Progress(t)
    /\ open /\ NoReader /\ pc[Main] \notin {"close", "crash"} => InSequence(0)

\* Only a loop on a torn frame ends with a miscounted reply, and only that
\* leaves part of a half behind.
ShiftInv == shifts # 0 => unguarded \/ Segments
RestInv  == shifts = 0 => \A i \in 1..Len(inbox) : inbox[i].half # "rest"

\* Before the first ping no ping thread gets further than its test.
QuietInv ==
  pings = 0 => \A g \in Pings : pc[g] \in {"none", "test", "sleep", "dead"}

\* What a failure of an exchange leaves for the end of the command to see, as
\* long as there is no ping to write c->last_err.
Sound == open /\ abandoned = 0
SoundInv ==
  pings = 0 /\ "complete" \notin Cmds /\ shifts = 0 =>
    /\ phase # "close" /\ pc[Main] \in AfterSend => Sound
    /\ phase = "cmd" /\ At("send") => Sound
    /\ phase = "auth" /\ At("send") => abandoned = 0
    /\ pc[Main] \in {"spawn", "authed", "idle", "lock", "decode"} => Sound
    /\ At("failed") => last_err = "SOCK"
    /\ pc[Main] \in {"release", "ret"} => Sound \/ (err[Main] = "SOCK" /\ last_err = "SOCK")
    /\ At("check") => Sound \/ status = "SOCK"
=============================================================================
