------------------------------ MODULE Exchange ------------------------------
(***************************************************************************)
(* One request/reply exchange with a ZooKeeper server, as request.c runs   *)
(* it (send_request, recv_response, read_socket over conn.c's wait_socket) *)
(* on the socket and under the mutex that every thread of a zk_client      *)
(* shares.  The main thread and the ping threads all go through these      *)
(* steps; what surrounds an exchange is in ZkClient.                       *)
(*                                                                         *)
(* A reply travels as two halves, the 4-byte length and the body, because  *)
(* recv_response reads them with two calls: two readers on one socket can  *)
(* come between them.  A request is the index it has among the requests    *)
(* written on its connection: the client never compares xids, so the order *)
(* of the stream is all that relates a reply to its request.               *)
(***************************************************************************)
EXTENDS Integers, Sequences

CONSTANTS
  MaxConns,  \* bound: the sockets the process opens during its life
  MaxShifts, \* bound: miscounted replies taken on a connection
  Answers,   \* codes the server may answer with, beside OK
  Segments   \* whether a reply may arrive in pieces

ASSUME ExchangeAssumption ==
  /\ MaxConns \in Nat \ {0}
  /\ MaxShifts \in Nat
  /\ Answers \subseteq {"NONODE", "FATAL"}
  /\ Segments \in BOOLEAN

Main    == 0                \* the thread that runs main()
Pings   == 1..MaxConns      \* ping thread n was started on connection n
Threads == 0..MaxConns
None    == -1               \* no thread owns the mutex; c->sock == -1

\* ZK_OK, ZK_SOCKET_ERR, ZNONODE, the codes check_reconnect lists, ZK_ERROR
Err == {"OK", "SOCK", "NONODE", "FATAL", "ERR"}

VARIABLES
  lock,       \* owner of c->lock, or None
  last_err,   \* c->last_err, written by every thread
  pc,         \* control point of each thread
  cancelled,  \* threads with a pthread_cancel pending
  phase,      \* which exchange main is in: auth, cmd or close
  my,         \* request a thread last wrote
  got,        \* request whose reply a thread last read
  err,        \* result of a thread's exchange
  sock,       \* c->sock: the connection number, or None
  open,       \* the descriptor in c->sock is still open in this process
  up,         \* the server's end of that connection is alive
  sent,       \* number of requests written on it
  writer,     \* history: the thread that wrote the last of them
  reqs,       \* requests the server has still to answer
  inbox,      \* reply halves that have arrived and are unread
  unguarded,  \* history: this connection's exchanges lost mutual exclusion
  abandoned,  \* history: exchanges that gave up on this connection's replies
  shifts      \* history: miscounted replies taken for one on it

\* Control points: of an exchange, of main around it, and of a ping thread.
ExchangeLabels == {"send", "poll", "rlen", "rbody", "spin", "got"}
Labels == ExchangeLabels \cup
  {"connect", "attempt", "failed", "spawn", "authed", "idle", "lock", "decode",
   "release", "ret", "check", "trylock", "forceunlock", "cancel", "close",
   "stop", "join", "shut", "exit", "crash", "done",
   "none", "test", "plock", "punlock", "sleep", "dead"}

lockVars == <<lock, unguarded>>
connVars == <<sock, open, up, sent, writer, reqs, inbox, abandoned, shifts>>
execVars == <<pc, cancelled, phase, my, got, err, last_err>>
xVars    == <<lockVars, connVars, execVars>>

Request == [id : Nat \ {0}, by : Threads, due : {"frame", "body"}]
Half    == [half : {"len", "body", "rest"}, id : Nat \ {0}, err : Err]

\* Types of the shared lock, of the connection and of the threads' locals.
LockType == lock \in Threads \cup {None} /\ unguarded \in BOOLEAN
ConnType ==
  /\ sock \in Pings \cup {None} /\ open \in BOOLEAN /\ up \in BOOLEAN
  /\ sent \in Nat /\ writer \in Threads /\ abandoned \in Nat
  /\ reqs \in Seq(Request) /\ inbox \in Seq(Half) /\ shifts \in Nat
ExecType ==
  /\ pc \in [Threads -> Labels] /\ cancelled \in [Threads -> BOOLEAN]
  /\ phase \in {"auth", "cmd", "close"}
  /\ my \in [Threads -> Nat] /\ got \in [Threads -> Nat]
  /\ err \in [Threads -> Err] /\ last_err \in Err

Goto(t, l) == pc' = [pc EXCEPT ![t] = l]

\* The default mutex is not checked: an unlock by any thread frees it.
Unlock(t) ==
  /\ lock' = None
  /\ unguarded' = (unguarded \/ lock \notin {None, t})

\* Fault: authenticate goes on although its request could not be sent.
AuthSendIgnored(t) ==
  CASE t # Main                     -> "punlock"
    [] t = Main /\ phase = "auth"   -> "spawn"
    [] t = Main /\ phase = "cmd"    -> "release"
    [] t = Main /\ phase = "close"  -> "shut"

\* Where control goes when an exchange fails to send or to receive.  Only
\* the main thread's receive failures go on to read c->last_err.
SendFailed(t) ==
  CASE t # Main                     -> "punlock"
    [] t = Main /\ phase = "auth"   -> "attempt"
    [] t = Main /\ phase = "cmd"    -> "release"
    [] t = Main /\ phase = "close"  -> "shut"

RecvFailed(t) ==
  IF t = Main /\ phase # "close" THEN "failed" ELSE SendFailed(t)

\* The locals of a thread's exchange are gone once it has returned.
Forget(t) ==
  /\ my'  = [my  EXCEPT ![t] = 0]
  /\ got' = [got EXCEPT ![t] = 0]
  /\ err' = [err EXCEPT ![t] = "OK"]

-----------------------------------------------------------------------------
\* send_request: poll for POLLOUT, then write the whole frame, or give up
\* (time-out, closed descriptor, error of write).  A write on a connection the
\* server has reset raises SIGPIPE, which the process does not handle.  poll
\* and write are cancellation points: a thread to be cancelled stops here.
Send(t) ==
  /\ pc[t] = "send"
  /\ ~cancelled[t]
  /\ \/ /\ open
        /\ sent' = sent + 1 /\ writer' = t
        /\ my' = [my EXCEPT ![t] = sent + 1]
        /\ reqs' = IF up
                   THEN Append(reqs, [id |-> sent + 1, by |-> t, due |-> "frame"])
                   ELSE reqs
        /\ Goto(t, "poll")
        /\ UNCHANGED <<last_err, err>>
     \/ /\ last_err' = "SOCK"
        /\ err' = [err EXCEPT ![t] = "SOCK"]
        /\ Goto(t, SendFailed(t))
        /\ UNCHANGED <<sent, writer, my, reqs>>
     \/ /\ open /\ ~up
        /\ Goto(Main, "crash")
        /\ UNCHANGED <<last_err, err, sent, writer, my, reqs>>
  /\ UNCHANGED <<lockVars, cancelled, phase, got, sock, open, up, inbox,
                 abandoned, shifts>>

Readable == open /\ (inbox # <<>> \/ ~up)

\* recv_response's wait_socket: a readable socket, or a time-out (POLLNVAL
\* on a descriptor already closed) after which the reply is nobody's.
Poll(t) ==
  /\ pc[t] = "poll"
  /\ ~cancelled[t]
  /\ \/ /\ Readable
        /\ Goto(t, "rlen")
        /\ UNCHANGED <<last_err, abandoned>>
     \/ /\ ~Readable
        /\ last_err' = "SOCK"
        /\ abandoned' = IF open THEN abandoned + 1 ELSE abandoned
        /\ Goto(t, RecvFailed(t))
  /\ UNCHANGED <<lockVars, cancelled, phase, my, got, err, sock, open, up,
                 sent, writer, reqs, inbox, shifts>>

Framed(h) == open /\ inbox # <<>> /\ Head(inbox).half = h
Eof       == open /\ ~up /\ inbox = <<>>

\* read returned 0: read_socket closes the descriptor, recv_response fails.
ReadEof(t) ==
  /\ Eof
  /\ open' = FALSE
  /\ last_err' = "SOCK"
  /\ Goto(t, RecvFailed(t))
  /\ UNCHANGED <<inbox, got, err, shifts>>

\* What poll announced is not there in full: the rest is still on its way,
\* or another reader took it or left half a frame.  read returns -1, which
\* read_socket counts as -1 bytes, or four bytes of a body are taken for a
\* length.  The thread then reads on, or the process dies on it.
Torn(t, h) ==
  /\ ~Framed(h) /\ ~Eof
  /\ \/ Goto(t, "spin")
     \/ Goto(Main, "crash")
  /\ UNCHANGED <<open, inbox, got, err, last_err, shifts>>

readFrame == <<lockVars, cancelled, phase, my, sock, up, sent, writer, reqs,
               abandoned>>

\* recv_response's first read_socket: the length.
ReadLen(t) ==
  /\ pc[t] = "rlen"
  /\ ~cancelled[t]
  /\ \/ /\ Framed("len")
        /\ inbox' = Tail(inbox)
        /\ Goto(t, "rbody")
        /\ UNCHANGED <<open, got, err, last_err, shifts>>
     \/ ReadEof(t)
     \/ Torn(t, "len")
  /\ UNCHANGED readFrame

\* recv_response's second read_socket: the body, which holds the header.
ReadBody(t) ==
  /\ pc[t] = "rbody"
  /\ ~cancelled[t]
  /\ \/ /\ Framed("body")
        /\ inbox' = Tail(inbox)
        /\ got' = [got EXCEPT ![t] = Head(inbox).id]
        /\ err' = [err EXCEPT ![t] = Head(inbox).err]
        /\ Goto(t, "got")
        /\ UNCHANGED <<open, last_err, shifts>>
     \/ ReadEof(t)
     \/ Torn(t, "body")
  /\ UNCHANGED readFrame

\* What is left of the stream when a reader stops in the next half or behind it.
Leftover == {Tail(inbox), <<[Head(inbox) EXCEPT !.half = "rest"]>> \o Tail(inbox)}

\* read_socket's loop on a torn frame, for the length or for the body: it
\* swallows whatever arrives, and ends at the end of the stream or once the
\* bytes it asked for and one more for every -1 it counted are there.  The
\* reply it then has is made of bytes from anywhere, and so is its header.
Spin(t) ==
  /\ pc[t] = "spin"
  /\ ~cancelled[t]
  /\ \/ /\ open /\ inbox # <<>>
        /\ inbox' = Tail(inbox)
        /\ UNCHANGED <<pc, open, got, err, last_err, shifts>>
     \/ /\ open /\ inbox # <<>>
        /\ inbox' \in Leftover
        /\ got' = [got EXCEPT ![t] = Head(inbox).id]
        /\ \E e \in Err : err' = [err EXCEPT ![t] = e]
        /\ shifts < MaxShifts
        /\ shifts' = shifts + 1
        /\ Goto(t, "got")
        /\ UNCHANGED <<open, last_err>>
     \/ ReadEof(t)
  /\ UNCHANGED readFrame

Transfer(t) == Send(t) \/ Poll(t) \/ ReadLen(t) \/ ReadBody(t) \/ Spin(t)

-----------------------------------------------------------------------------
\* The server (not in this repository): it answers the requests of a
\* connection in order, or goes away, and bytes on the way may be lost.
ReplyErrs(r) ==
  {"OK"} \cup
    CASE r.id = 1      -> {}       \* a ConnectResponse has no header
      [] r.by \in Pings -> Answers \ {"NONODE"}
      [] OTHER         -> Answers

Part(h, r, e) == <<[half |-> h, id |-> r.id, err |-> e]>>

\* Where a reply is cut in two matters little: between its two reads here.
Segment ==
  /\ Segments
  /\ up /\ reqs # <<>> /\ Head(reqs).due = "frame"
  /\ inbox' = inbox \o Part("len", Head(reqs), "OK")
  /\ reqs' = <<[Head(reqs) EXCEPT !.due = "body"]>> \o Tail(reqs)
  /\ UNCHANGED <<lockVars, execVars, sock, open, up, sent, writer, abandoned,
                 shifts>>

Reply ==
  /\ up /\ reqs # <<>>
  /\ LET r == Head(reqs)
     IN  \E e \in ReplyErrs(r) :
           inbox' = inbox
             \o (IF r.due = "frame" THEN Part("len", r, "OK") ELSE <<>>)
             \o Part("body", r, e)
  /\ reqs' = Tail(reqs)
  /\ UNCHANGED <<lockVars, execVars, sock, open, up, sent, writer, abandoned,
                 shifts>>

PeerClose ==
  /\ up
  /\ up' = FALSE
  /\ reqs' = <<>>
  /\ inbox' \in {inbox, <<>>}
  /\ UNCHANGED <<lockVars, execVars, sock, open, sent, writer, abandoned, shifts>>

Server == Segment \/ Reply \/ PeerClose
=============================================================================
