----------------------------- MODULE WireProofs -----------------------------
(***************************************************************************)
(* ZkClient implements Wire, for all bounds.  WireInv says which request   *)
(* of main's may be on which connection, ReplyInv when authenticate has an *)
(* answer; with LockInv they are inductive, and under the three every step *)
(* is a step of Wire or leaves it alone.                                   *)
(***************************************************************************)
EXTENDS ZkClientProofs

USE DEF At, Main, None, Pings, Threads

LEMMA InitWire == Init => WireInv
<1> SUFFICES ASSUME Init PROVE WireInv
  OBVIOUS
<1>1. At("connect") /\ phase = "auth"
  BY ThreadFacts DEF Init
<1> QED
  BY <1>1, ThreadFacts DEF Init, WireInv, Heard, ExchangeLabels

-----------------------------------------------------------------------------
(* When authenticate has an answer.                                        *)

\* A read that ends with a reply found something to read.
LEMMA ReplyNumber ==
  ASSUME TypeOK, inbox # <<>>
  PROVE  Head(inbox).id \in Nat \ {0}
<1>1. Head(inbox) \in Half
  BY DEF TypeOK, ConnType
<1> QED BY <1>1 DEF Half

\* Elsewhere than in authenticate, and where main does not move, there is
\* nothing to see.
LEMMA ReplyElsewhere ==
  ASSUME ReplyInv,
         \/ phase' # "auth"
         \/ pc'[Main] \notin ExchangeLabels \cup {"failed"}
         \/ UNCHANGED <<phase, pc[Main], got[Main]>>
         \/ /\ UNCHANGED <<phase, got[Main]>> /\ pc'[Main] # "got"
            /\ pc[Main] \in ExchangeLabels \ {"got"}
  PROVE  ReplyInv'
BY DEF ReplyInv, ExchangeLabels

LEMMA TransferReply ==
  ASSUME TypeOK, ReplyInv, NEW t \in Threads, Transfer(t), UNCHANGED phase
  PROVE  ReplyInv'
<1>1. pc[t] \in ExchangeLabels \ {"got"}
  BY DEF Transfer, Send, Poll, ReadLen, ReadBody, Spin, ExchangeLabels
<1>2. CASE t # Main
  <2>1. UNCHANGED got[Main]
    BY <1>2, ThreadFacts
       DEF Transfer, Send, Poll, ReadLen, ReadBody, Spin, ReadEof, Torn, TypeOK,
           ExecType
  <2>2. pc'[Main] \in {pc[Main], "crash"}
    BY <1>2, ThreadFacts
       DEF Transfer, Send, Poll, ReadLen, ReadBody, Spin, ReadEof, Torn, Goto,
           TypeOK, ExecType
  <2> QED
    BY <2>1, <2>2, ReplyElsewhere DEF ExchangeLabels
<1>3. CASE t = Main /\ inbox # <<>> /\ got' = [got EXCEPT ![t] = Head(inbox).id]
           /\ Goto(t, "got")
  <2>1. pc'[Main] = "got" /\ got'[Main] # 0
    BY <1>3, ReplyNumber, ThreadFacts DEF Goto, TypeOK, ExecType
  <2> QED
    BY <2>1 DEF ReplyInv
<1>4. CASE t = Main /\ UNCHANGED got /\ pc'[Main] # "got"
  BY <1>1, <1>4, ReplyElsewhere
<1>5. CASE t = Main
  <2>1. \/ /\ inbox # <<>> /\ got' = [got EXCEPT ![t] = Head(inbox).id]
           /\ Goto(t, "got")
        \/ /\ UNCHANGED got
           /\ \/ \E l \in {"poll", "rlen", "rbody", "spin", SendFailed(t),
                             RecvFailed(t)} : Goto(t, l)
              \/ Goto(Main, "crash")
              \/ UNCHANGED pc
    BY DEF Transfer, Send, Poll, ReadLen, ReadBody, Spin, ReadEof, Torn, Framed
  <2>2. ASSUME NEW l \in {"poll", "rlen", "rbody", "spin", SendFailed(t), RecvFailed(t)}
        PROVE  l # "got"
    BY DEF SendFailed, RecvFailed, TypeOK, ExecType
  <2>3. UNCHANGED got => pc'[Main] # "got" \/ Goto(t, "got")
    BY <1>1, <1>5, <2>1, <2>2, ThreadFacts DEF Goto, TypeOK, ExecType
  <2> QED
    BY <1>1, <1>3, <1>4, <1>5, <2>1, <2>2, <2>3, ThreadFacts DEF Goto, TypeOK, ExecType
<1> QED
  BY <1>2, <1>5

LEMMA InitReply == Init => ReplyInv
BY ThreadFacts DEF Init, ReplyInv, ExchangeLabels

LEMMA StepReply ==
  TypeOK /\ LockInv /\ ReplyInv /\ [Next]_vars => ReplyInv'
<1> SUFFICES ASSUME TypeOK, LockInv, ReplyInv, [Next]_vars
             PROVE  ReplyInv'
  OBVIOUS
<1>1. CASE UNCHANGED vars \/ (Server /\ UNCHANGED ctlVars)
  <2>1. UNCHANGED <<phase, pc, got>>
    BY <1>1 DEF Server, Segment, Reply, PeerClose, vars, xVars, execVars
  <2> QED
    BY <2>1, ReplyElsewhere
<1>2. CASE Transfer(Main) /\ UNCHANGED ctlVars
  BY <1>2, TransferReply, TransferMove, ThreadFacts
<1>3. CASE Command
  <2>1. CASE Failed
    <3>1. pc'[Main] \in {"release", "spawn", "attempt"}
      BY <2>1, ThreadFacts DEF Failed, Jump, Goto, TypeOK, ExecType
    <3> QED
      BY <3>1, ReplyElsewhere DEF ExchangeLabels
  <2>2. CASE ~Failed
    <3>1. phase = "cmd" /\ phase' = phase
      BY <1>3, <2>2
         DEF Command, Enter, EndOfInput, Acquire, Received, Decode, Undecodable,
             Release, MkdirStep, GetStep, Completed, Return, Check, returnFrame,
             LockInv, PhaseInv, ExchangeLabels, TypeOK, ExecType
    <3> QED
      BY <3>1, ReplyElsewhere
  <2> QED
    BY <2>1, <2>2
<1>4. CASE Session
  <2>1. CASE Unresolved \/ Dial
    <3>1. pc'[Main] = "send" /\ got'[Main] = 0
      BY <2>1, ThreadFacts DEF Unresolved, Dial, Jump, Goto, Forget, TypeOK, ExecType
    <3> QED
      BY <3>1 DEF ReplyInv
  <2>2. CASE Connect \/ Exhausted \/ Authenticated \/ Spawn
    <3>1. phase' # "auth" \/ pc'[Main] \in {"attempt", "exit", "spawn", "crash"}
      BY <2>2, ThreadFacts
         DEF Connect, Exhausted, Authenticated, Spawn, Jump, Goto, TypeOK, ExecType
    <3> QED
      BY <3>1, ReplyElsewhere DEF ExchangeLabels
  <2>3. CASE Refused
    BY <2>3, ReplyElsewhere DEF Refused, attemptFrame
  <2>4. CASE \/ TryLock \/ ForceUnlock \/ Cancel \/ Close \/ Authed \/ Stop \/ Join
             \/ ClosingReply \/ Shut
    <3>1. phase' # "auth"
      BY <2>4
         DEF TryLock, ForceUnlock, Cancel, Close, Authed, Stop, Join, ClosingReply,
             Shut, mainFrame, LockInv, PhaseInv, ExchangeLabels, TypeOK, ExecType
    <3> QED
      BY <3>1, ReplyElsewhere
  <2> QED
    BY <1>4, <2>1, <2>2, <2>3, <2>4 DEF Session
<1>5. ASSUME NEW g \in Pings, PingStep(g) PROVE ReplyInv'
  <2>1. CASE Transfer(g)
    BY <2>1, TransferReply, TransferMove, ThreadFacts
  <2>2. CASE PTest(g) \/ PLock(g) \/ PGot(g) \/ PUnlock(g) \/ PSleep(g) \/ Die(g)
    <3>1. UNCHANGED <<phase, pc[Main], got[Main]>>
      BY <2>2, ThreadFacts
         DEF PTest, PLock, PGot, PUnlock, PSleep, Die, pingFrame, locals, Goto,
             Forget, TypeOK, ExecType
    <3> QED
      BY <3>1, ReplyElsewhere
  <2> QED
    BY <1>5, <2>1, <2>2 DEF PingStep
<1> QED
  BY <1>1, <1>2, <1>3, <1>4, <1>5 DEF Next, MainStep

-----------------------------------------------------------------------------
\* Where the stage of Wire does not move, a step stutters, or retires the
\* keeper.
LEMMA Idle ==
  ASSUME UNCHANGED <<conns, sent, writer>>, Stage' = Stage, Strays' = Strays,
         Keeper' = Keeper \/ Keeper' = 0
  PROVE  [W!WireNext]_(W!wireVars)
BY DEF W!WireNext, W!Retire, W!wireVars, W!Nobody

\* A step that leaves the connection alone, but for closing it, and keeps
\* main on its side of the send.
LEMMA Quiet ==
  ASSUME WireInv, phase \in {"auth", "cmd", "close"},
         UNCHANGED <<sock, sent, writer, conns, ping_tid, cancelled, phase>>,
         open' => open,
         pc'[Main] = "connect" => pc[Main] = "connect",
         phase = "cmd" /\ pc[Main] = "connect" => pc'[Main] = "connect",
         phase = "auth" /\ pc'[Main] = "send" => pc[Main] = "send",
         phase = "auth" /\ pc'[Main] \in Heard => pc[Main] \in Heard,
         phase = "close" => (pc[Main] = "send" <=> pc'[Main] = "send")
  PROVE  WireInv' /\ (phase # "auth" \/ AuthStage' = AuthStage => Stage' = Stage)
<1>1. WireInv'
  <2>1. /\ sock' \in {None, conns'}
        /\ sock' = None => ~open' /\ sent' = 0 /\ writer' = Main
        /\ ping_tid' <= conns'
        /\ \A g \in Pings : cancelled'[g] => g <= ping_tid'
    BY DEF WireInv
  <2>2. /\ At("connect")' => sock' = None
        /\ phase' = "cmd" /\ ~At("connect")' => sock' # None
        /\ phase' = "auth" /\ At("send")' => sent' = 0
        /\ phase' = "auth" /\ pc'[Main] \in Heard => sock' # None /\ sent' # 0
        /\ phase' = "auth" /\ sock' # None => ping_tid' < conns'
    BY DEF WireInv
  <2> QED
    BY <2>1, <2>2 DEF WireInv, Heard
<1>2. phase # "auth" \/ AuthStage' = AuthStage => Stage' = Stage
  BY DEF Stage
<1> QED
  BY <1>1, <1>2

\* What authenticate has is told by main's control point, its reply and, when
\* it has none, c->last_err.
LEMMA AuthStays ==
  ASSUME UNCHANGED <<sent, got[Main]>>,
         pc'[Main] = pc[Main] \/ {pc'[Main], pc[Main]} \cap {"got", "spawn", "failed"} = {},
         pc[Main] # "failed" \/ UNCHANGED last_err
  PROVE  AuthStage' = AuthStage
<1>1. HasReply' <=> HasReply
  BY DEF HasReply
<1>2. ForeignOK' <=> ForeignOK
  BY DEF ForeignOK
<1> QED
  BY <1>1, <1>2 DEF AuthStage

LEMMA StraysStay ==
  ASSUME UNCHANGED cancelled,
         \A g \in Pings : cancelled[g] => (pc'[g] = "got" <=> pc[g] = "got")
  PROVE  Strays' = Strays
BY DEF Strays

LEMMA KeeperStays ==
  ASSUME UNCHANGED <<ping_tid, cancelled>>,
         ping_tid # 0 => (Live(ping_tid)' <=> Live(ping_tid))
  PROVE  Keeper' = Keeper
BY DEF Keeper

\* Main's steps leave the ping threads alone.
LEMMA MainKeeper ==
  ASSUME TypeOK, NEW l, Goto(Main, l), UNCHANGED <<ping_tid, cancelled>>
  PROVE  Keeper' = Keeper /\ Strays' = Strays
<1>1. \A g \in Pings : pc'[g] = pc[g]
  BY ThreadFacts DEF Goto, TypeOK, ExecType
<1>2. ping_tid # 0 => ping_tid \in Pings
  BY ExchangeAssumption DEF TypeOK, CtlType
<1>3. ping_tid # 0 => (Live(ping_tid)' <=> Live(ping_tid))
  BY <1>1, <1>2 DEF Live
<1> QED
  BY <1>1, <1>3, KeeperStays, StraysStay

LEMMA CommandWire ==
  ASSUME TypeOK, LockInv, WireInv, ReplyInv, Command
  PROVE  WireInv' /\ [W!WireNext]_(W!wireVars)
<1> DEFINE L == {"stop", "lock", "check", "idle", "ret", "decode", "release",
                 "crash", "trylock", "send", "spawn", "attempt"}
<1>1. /\ UNCHANGED <<sock, open, sent, writer, conns, ping_tid, cancelled, phase>>
      /\ \E l \in L : Goto(Main, l)
  BY DEF Command, Enter, EndOfInput, Acquire, Failed, Received, Decode,
         Undecodable, Release, MkdirStep, GetStep, Completed, Return, Check,
         Leave, returnFrame, Jump, connVars, ctlVars, sessVars
<1>2. PICK l \in L : Goto(Main, l)
  BY <1>1
<1>3. pc'[Main] = l
  BY <1>2, ThreadFacts DEF Goto, TypeOK, ExecType
<1>4. Failed \/ phase = "cmd"
  BY DEF Command, Enter, EndOfInput, Acquire, Received, Decode, Undecodable,
         Release, MkdirStep, GetStep, Completed, Return, Check, LockInv,
         PhaseInv, ExchangeLabels, TypeOK, ExecType
<1>5. Failed => /\ phase # "close" /\ pc[Main] \in Heard
                /\ l \in {"release", "spawn", "attempt"}
  BY <1>3, ThreadFacts
     DEF Failed, Jump, Goto, LockInv, PhaseInv, ExchangeLabels, Heard, TypeOK,
         ExecType
<1>6. pc[Main] # "connect"
  BY DEF Command, Enter, EndOfInput, Acquire, Failed, Received, Decode,
         Undecodable, Release, MkdirStep, GetStep, Completed, Return, Check
<1>7. phase = "auth" => AuthStage' = AuthStage
  <2> SUFFICES ASSUME phase = "auth" PROVE AuthStage' = AuthStage
    OBVIOUS
  <2>1. Failed /\ pc[Main] = "failed" /\ UNCHANGED <<sent, got, last_err>>
    BY <1>4 DEF Failed, connVars
  <2>2. got[Main] = 0 /\ sent # 0
    BY <2>1 DEF ReplyInv, WireInv, Heard
  <2>3. l = (IF last_err = "OK" THEN "spawn" ELSE "attempt")
    BY <1>3, <2>1, ThreadFacts DEF Failed, Jump, Goto, TypeOK, ExecType
  <2>4. ~HasReply /\ ~HasReply'
    BY <2>1, <2>2 DEF HasReply
  <2>5. ForeignOK' <=> ForeignOK
    BY <1>3, <2>1, <2>3 DEF ForeignOK
  <2> QED
    BY <2>1, <2>2, <2>4, <2>5 DEF AuthStage
<1>8. WireInv' /\ Stage' = Stage
  <2>1. phase \in {"auth", "cmd", "close"}
    BY DEF TypeOK, ExecType
  <2> QED
    BY <1>1, <1>3, <1>4, <1>5, <1>6, <1>7, <2>1, Quiet
<1>9. Keeper' = Keeper /\ Strays' = Strays
  BY <1>1, <1>2, MainKeeper
<1> QED
  BY <1>1, <1>8, <1>9, Idle

-----------------------------------------------------------------------------
(* The steps of an exchange.                                               *)

\* Every step but the writing of a request only moves control: a thread that
\* gives up has said so in c->last_err.
LEMMA ReadMove ==
  ASSUME NEW t \in Threads, Transfer(t), ~Send(t)
  PROVE  /\ UNCHANGED <<sock, sent, writer>> /\ (open' => open)
         /\ pc[t] \in ExchangeLabels \ {"send", "got"}
         /\ \/ \E l \in {"rlen", "rbody", "spin"} : Goto(t, l)
            \/ /\ Goto(t, "got") /\ inbox # <<>>
               /\ got' = [got EXCEPT ![t] = Head(inbox).id]
            \/ Goto(t, RecvFailed(t)) /\ last_err' = "SOCK"
            \/ Goto(Main, "crash")
            \/ UNCHANGED pc
<1>1. CASE Poll(t)
  BY <1>1 DEF Poll, ExchangeLabels
<1>2. CASE ReadLen(t)
  BY <1>2 DEF ReadLen, ReadEof, Torn, ExchangeLabels, readFrame
<1>3. CASE ReadBody(t)
  BY <1>3 DEF ReadBody, ReadEof, Torn, ExchangeLabels, readFrame, Framed
<1>4. CASE Spin(t)
  BY <1>4 DEF Spin, ReadEof, ExchangeLabels, readFrame
<1> QED
  BY <1>1, <1>2, <1>3, <1>4 DEF Transfer

LEMMA ReadWire ==
  ASSUME TypeOK, LockInv, WireInv, ReplyInv, NEW t \in Threads, Transfer(t),
         ~Send(t), UNCHANGED ctlVars
  PROVE  WireInv' /\ [W!WireNext]_(W!wireVars)
<1>1. /\ UNCHANGED <<sock, sent, writer, conns, ping_tid, cancelled, phase>>
      /\ open' => open
      /\ pc[t] \in ExchangeLabels \ {"send", "got"} /\ ~cancelled[t]
      /\ phase \in {"auth", "cmd", "close"}
  BY ReadMove, TransferMove DEF ctlVars, sessVars, TypeOK, ExecType
<1> DEFINE gets  == /\ Goto(t, "got") /\ inbox # <<>>
                    /\ got' = [got EXCEPT ![t] = Head(inbox).id]
           fails == Goto(t, RecvFailed(t)) /\ last_err' = "SOCK"
<1>2. \/ \E l \in {"rlen", "rbody", "spin"} : Goto(t, l)
      \/ gets \/ fails
      \/ Goto(Main, "crash")
      \/ UNCHANGED pc
  BY ReadMove
<1>3. CASE t = Main
  <2>1. \/ pc'[Main] \in {"rlen", "rbody", "spin", "crash", pc[Main]}
        \/ gets /\ pc'[Main] = "got"
        \/ fails /\ phase = "close" /\ pc'[Main] = "shut"
        \/ fails /\ phase # "close" /\ pc'[Main] = "failed"
    BY <1>1, <1>2, <1>3, ThreadFacts
       DEF Goto, RecvFailed, SendFailed, TypeOK, ExecType
  <2>2. pc[Main] \in Heard /\ pc[Main] \notin {"send", "connect"}
    BY <1>1, <1>3 DEF Heard, ExchangeLabels
  <2>3. pc'[Main] \notin {"send", "connect"}
    BY <2>1, <2>2
  <2>4. /\ WireInv'
        /\ phase # "auth" \/ AuthStage' = AuthStage => Stage' = Stage
    BY <1>1, <2>2, <2>3, Quiet
  <2>5. \A g \in Pings : pc'[g] = pc[g]
    BY <1>2, <1>3, ThreadFacts DEF Goto, TypeOK, ExecType
  <2>6. ping_tid # 0 => ping_tid \in Pings
    BY ExchangeAssumption DEF TypeOK, CtlType
  <2>7. ping_tid # 0 => (Live(ping_tid)' <=> Live(ping_tid))
    BY <1>1, <2>5, <2>6 DEF Live
  <2>8. Keeper' = Keeper /\ Strays' = Strays
    BY <1>1, <2>5, <2>7, KeeperStays, StraysStay
  <2>9. CASE phase # "auth"
    BY <1>1, <2>4, <2>8, <2>9, Idle
  <2>10. CASE phase = "auth"
    <3>1. /\ sock # None /\ sent # 0 /\ sock' # None /\ sent' # 0 /\ phase' = "auth"
          /\ pc[Main] \notin {"got", "spawn", "failed"}
      BY <1>1, <1>3, <2>2, <2>10 DEF WireInv, ExchangeLabels
    <3>2. AuthStage = "greeted"
      BY <3>1 DEF AuthStage, HasReply, ForeignOK
    <3>3. CASE gets /\ pc'[Main] = "got"
      <4>1. got'[Main] # 0
        BY <1>3, <3>3, ReplyNumber, ThreadFacts DEF TypeOK, ExecType
      <4>2. HasReply'
        BY <3>3, <4>1 DEF HasReply
      <4>3. AuthStage' = "answered"
        BY <3>1, <4>2 DEF AuthStage
      <4>4. W!Answer
        BY <1>1, <2>8, <2>10, <3>1, <3>2, <4>3 DEF W!Answer, Stage
      <4> QED
        BY <2>4, <4>4 DEF W!WireNext
    <3>4. CASE ~(gets /\ pc'[Main] = "got")
      <4>1. ~HasReply'
        BY <2>1, <2>10, <3>1, <3>4 DEF HasReply
      <4>2. ~ForeignOK'
        BY <2>1, <3>1, <3>4 DEF ForeignOK
      <4>3. AuthStage' = "greeted"
        BY <3>1, <4>1, <4>2 DEF AuthStage
      <4> QED
        BY <1>1, <2>4, <2>8, <3>2, <4>3, Idle
    <3> QED
      BY <3>3, <3>4
  <2> QED
    BY <2>9, <2>10
<1>4. CASE t # Main
  <2>1. phase = "cmd" /\ pc[Main] # "connect"
    <3>1. t \in Pings /\ Live(t)
      BY <1>1, <1>4, ExchangeAssumption DEF Live, ExchangeLabels
    <3> QED
      BY <1>1, <3>1 DEF LockInv, AloneInv, Alone
  <2>2. pc'[Main] \in {pc[Main], "crash"}
        /\ pc'[t] \in {pc[t], "rlen", "rbody", "spin", "got", "punlock"}
        /\ \A u \in Threads \ {t, Main} : pc'[u] = pc[u]
    BY <1>2, <1>4, ThreadFacts DEF Goto, RecvFailed, SendFailed, TypeOK, ExecType
  <2>3. WireInv' /\ Stage' = Stage
    BY <1>1, <2>1, <2>2, Quiet
  <2>4. ping_tid # 0 => ping_tid \in Threads \ {Main}
    BY DEF TypeOK, CtlType
  <2>5. ping_tid # 0 => (Live(ping_tid)' <=> Live(ping_tid))
    BY <1>1, <2>2, <2>4 DEF Live, ExchangeLabels
  <2>6. Strays' = Strays
    BY <1>1, <2>2, StraysStay, ThreadFacts
  <2> QED
    BY <1>1, <2>3, <2>5, <2>6, KeeperStays, Idle
<1> QED
  BY <1>3, <1>4

\* The process dies on a write.
LEMMA BrokenWire ==
  ASSUME TypeOK, LockInv, WireInv, NEW t \in Threads,
         UNCHANGED <<sock, open, sent, writer, conns, ping_tid, cancelled, phase>>,
         pc[t] = "send", ~cancelled[t], Goto(Main, "crash")
  PROVE  WireInv' /\ [W!WireNext]_(W!wireVars)
<1>1. phase \in {"auth", "cmd", "close"}
  BY DEF TypeOK, ExecType
<1>2. pc'[Main] = "crash"
  BY ThreadFacts DEF Goto, TypeOK, ExecType
<1>3. phase = "cmd" => pc[Main] # "connect"
  <2>1. CASE t = Main
    BY <2>1
  <2>2. CASE t # Main
    <3>1. t \in Pings /\ Live(t)
      BY <2>2, ExchangeAssumption DEF Live
    <3> QED
      BY <3>1 DEF LockInv, AloneInv, Alone
  <2> QED
    BY <2>1, <2>2
<1>4. Keeper' = Keeper /\ Strays' = Strays
  BY MainKeeper
<1>5. CASE phase = "close" /\ pc[Main] = "send"
  <2>1. WireInv'
    BY <1>2, <1>5 DEF WireInv
  <2>2. Stage = "closing" /\ Stage' = "closed"
    BY <1>2, <1>5 DEF Stage
  <2> QED
    BY <1>4, <2>1, <2>2 DEF W!WireNext, W!Bye
<1>6. CASE ~(phase = "close" /\ pc[Main] = "send")
  <2>1. phase = "auth" => AuthStage' = AuthStage
    <3> SUFFICES ASSUME phase = "auth" PROVE AuthStage' = AuthStage
      OBVIOUS
    <3>1. t = Main
      <4>1. t # Main => t \in Pings /\ Live(t)
        BY ExchangeAssumption DEF Live
      <4> QED
        BY <4>1 DEF LockInv, AloneInv, Alone
    <3>2. sent = 0 /\ sent' = 0
      BY <3>1 DEF WireInv
    <3> QED
      BY <3>2 DEF AuthStage
  <2>2. WireInv' /\ Stage' = Stage
    BY <1>1, <1>2, <1>3, <1>6, <2>1, Quiet DEF Heard, ExchangeLabels
  <2> QED
    BY <1>4, <2>2, Idle
<1> QED
  BY <1>5, <1>6

\* A request goes out: main's ConnectRequest, its commands or its closing
\* request, or a ping of the one thread that is live.
LEMMA SendWire ==
  ASSUME TypeOK, LockInv, WireInv, NEW t \in Threads, Send(t), UNCHANGED ctlVars
  PROVE  WireInv' /\ [W!WireNext]_(W!wireVars)
<1>1. /\ UNCHANGED <<sock, open, conns, ping_tid, cancelled, phase>>
      /\ pc[t] = "send" /\ ~cancelled[t]
      /\ phase \in {"auth", "cmd", "close"} /\ sent \in Nat
  BY DEF Send, ctlVars, sessVars, TypeOK, ExecType, ConnType
<1> DEFINE sentIt == /\ Goto(t, "poll") /\ open
                     /\ sent' = sent + 1 /\ writer' = t
           failed == Goto(t, SendFailed(t)) /\ UNCHANGED <<sent, writer>>
           broken == Goto(Main, "crash") /\ UNCHANGED <<sent, writer>>
<1>a. sentIt \/ failed \/ broken
  BY DEF Send
<1> SUFFICES ASSUME sentIt \/ failed
             PROVE  WireInv' /\ [W!WireNext]_(W!wireVars)
  BY <1>1, <1>a, BrokenWire
<1>b. SendFailed(t) # "poll"
  BY <1>1 DEF SendFailed
<1>2. PICK l \in {"poll", SendFailed(t)} :
        /\ Goto(t, l)
        /\ l = "poll" => open /\ sent' = sent + 1 /\ writer' = t
        /\ l # "poll" => UNCHANGED <<sent, writer>>
  <2>1. CASE sentIt
    BY <2>1
  <2>2. CASE failed
    BY <2>2, <1>b
  <2> QED
    BY <2>1, <2>2
<1>3. pc'[t] = l /\ \A u \in Threads \ {t} : pc'[u] = pc[u]
  BY <1>2 DEF Goto, TypeOK, ExecType
<1>4. ping_tid # 0 => ping_tid \in Pings
  BY ExchangeAssumption DEF TypeOK, CtlType
<1>5. CASE t = Main
  <2>1. l \in {"poll", "attempt", "release", "shut"}
        /\ (phase = "auth" => l \in {"poll", "attempt"})
        /\ (phase = "close" => l \in {"poll", "shut"})
    BY <1>1, <1>2, <1>5 DEF SendFailed
  <2>2. ping_tid # 0 => (Live(ping_tid)' <=> Live(ping_tid))
    BY <1>1, <1>3, <1>4, <1>5, ThreadFacts DEF Live
  <2>3. Keeper' = Keeper /\ Strays' = Strays
    BY <1>1, <1>3, <1>5, <2>2, KeeperStays, StraysStay, ThreadFacts
  <2>4. WireInv'
    BY <1>1, <1>2, <1>3, <1>5, <2>1
       DEF WireInv, Heard, ExchangeLabels
  <2>5. CASE phase = "close"
    <3>1. Stage = "closing" /\ Stage' = "closed"
      BY <1>1, <1>3, <1>5, <2>1, <2>5 DEF Stage
    <3> QED
      BY <1>1, <1>2, <1>5, <2>3, <2>4, <3>1
         DEF W!WireNext, W!Bye, W!Write, W!Main
  <2>6. CASE phase # "close" /\ l # "poll"
    <3>1. phase = "auth" => sent = 0 /\ sent' = 0
      BY <1>1, <1>2, <1>5, <2>6 DEF WireInv
    <3>2. Stage' = Stage
      BY <1>1, <1>2, <2>6, <3>1 DEF Stage, AuthStage
    <3> QED
      BY <1>1, <1>2, <2>3, <2>4, <2>6, <3>2, Idle
  <2>7. CASE phase = "auth" /\ l = "poll"
    <3>1. sock # None /\ sent = 0 /\ sent' = 1
      BY <1>1, <1>2, <1>5, <2>7 DEF WireInv
    <3>2. Stage = "fresh" /\ Stage' = "greeted"
      BY <1>1, <1>3, <1>5, <2>7, <3>1 DEF Stage, AuthStage, HasReply, ForeignOK
    <3> QED
      BY <1>1, <1>2, <1>5, <2>3, <2>4, <2>7, <3>2
         DEF W!WireNext, W!Greet, W!Write, W!Main
  <2>8. CASE phase = "cmd" /\ l = "poll"
    <3>1. Stage = "open" /\ Stage' = "open"
      BY <1>1, <1>2, <1>5, <2>8 DEF Stage, WireInv
    <3>2. W!Ask(t)
      BY <1>1, <1>2, <1>5, <2>3, <2>8, <3>1 DEF W!Ask, W!Write, W!Main
    <3> QED
      BY <2>4, <3>2 DEF W!WireNext
  <2> QED
    BY <1>1, <2>5, <2>6, <2>7, <2>8
<1>6. CASE t # Main
  <2>1. t \in Pings /\ Live(t)
    BY <1>1, <1>6, ExchangeAssumption DEF Live
  <2>2. phase = "cmd" /\ pc[Main] # "connect" /\ t = ping_tid
    BY <1>1, <2>1 DEF LockInv, AloneInv, Alone, SoleLivePing
  <2>3. Keeper = t /\ Keeper' = t
    <3>1. l \in {"poll", "punlock"} /\ Live(t)'
      BY <1>1, <1>2, <1>3, <1>6 DEF SendFailed, Live
    <3> QED
      BY <1>1, <1>6, <2>1, <2>2, <3>1 DEF Keeper
  <2>4. sock # None /\ Stage = "open" /\ Stage' = "open"
    BY <1>1, <2>2 DEF WireInv, Stage
  <2>5. WireInv'
    <3>1. pc'[Main] = pc[Main]
      BY <1>3, <1>6, ThreadFacts
    <3> QED
      BY <1>1, <1>2, <2>2, <2>4, <3>1 DEF WireInv
  <2>6. Strays' = Strays
    BY <1>1, <1>3, StraysStay, ThreadFacts
  <2>7. CASE l = "poll"
    <3>1. W!Ask(t)
      BY <1>1, <1>2, <2>3, <2>4, <2>6, <2>7 DEF W!Ask, W!Write
    <3> QED
      BY <2>5, <3>1 DEF W!WireNext
  <2>8. CASE l # "poll"
    BY <1>1, <1>2, <2>3, <2>4, <2>5, <2>6, <2>8, Idle
  <2> QED
    BY <2>7, <2>8
<1> QED
  BY <1>5, <1>6

\* A ping thread outside an exchange at most gives up being the keeper; one
\* that was cancelled with a reply in hand writes its code to c->last_err.
LEMMA PingWire ==
  ASSUME TypeOK, LockInv, WireInv, ReplyInv, NEW g \in Pings, PingStep(g)
  PROVE  WireInv' /\ [W!WireNext]_(W!wireVars)
<1>1. CASE Transfer(g) /\ UNCHANGED ctlVars
  BY <1>1, ReadWire, SendWire, ThreadFacts
<1>2. CASE PTest(g) \/ PLock(g) \/ PGot(g) \/ PUnlock(g) \/ PSleep(g) \/ Die(g)
  <2>1. /\ UNCHANGED <<sock, open, sent, writer, conns, ping_tid, cancelled, phase>>
        /\ pc[g] \notin {"none", "dead"}
        /\ \E l \in {"dead", "plock", "sleep", "send", "punlock", "test"} : Goto(g, l)
        /\ phase \in {"auth", "cmd", "close"}
    BY <1>2 DEF PTest, PLock, PGot, PUnlock, PSleep, Die, CancelPoints,
                pingFrame, connVars, ctlVars, sessVars, TypeOK, ExecType
  <2>2. /\ \A u \in Threads \ {g} : pc'[u] = pc[u]
        /\ pc'[g] # "got"
    BY <2>1, ThreadFacts DEF Goto, TypeOK, ExecType
  <2>3. pc'[Main] = pc[Main] /\ UNCHANGED got[Main]
    BY <1>2, <2>2, ThreadFacts
       DEF PTest, PLock, PGot, PUnlock, PSleep, Die, locals, Forget, TypeOK, ExecType
  <2>4. /\ WireInv'
        /\ phase # "auth" \/ AuthStage' = AuthStage => Stage' = Stage
    BY <2>1, <2>3, Quiet
  <2>5. ping_tid # 0 => ping_tid \in Threads
    BY DEF TypeOK, CtlType
  <2>6. ping_tid # 0 /\ Live(ping_tid)' => Live(ping_tid)
    BY <2>1, <2>2, <2>5 DEF Live
  <2>7. Keeper' = Keeper \/ Keeper' = 0
    BY <2>1, <2>6 DEF Keeper
  <2>8. CASE ~PGot(g)
    <3>1. UNCHANGED last_err /\ pc[g] # "got"
      BY <1>2, <2>8 DEF PTest, PLock, PUnlock, PSleep, Die, CancelPoints
    <3>2. Strays' = Strays
      BY <2>1, <2>2, <3>1, StraysStay, ThreadFacts
    <3>3. AuthStage' = AuthStage
      BY <2>1, <2>3, <3>1, AuthStays
    <3> QED
      BY <2>1, <2>4, <2>7, <3>2, <3>3, Idle
  <2>9. CASE PGot(g) /\ ~cancelled[g]
    <3>1. Live(g)
      BY <2>1, <2>9 DEF Live
    <3>2. phase = "cmd"
      BY <2>1, <3>1 DEF LockInv, AloneInv, Alone
    <3>3. Strays' = Strays
      BY <2>1, <2>2, <2>9, StraysStay, ThreadFacts
    <3> QED
      BY <2>1, <2>4, <2>7, <3>2, <3>3, Idle
  <2>10. CASE PGot(g) /\ cancelled[g]
    <3>1. g \in Strays /\ Strays' = Strays \ {g}
      <4>1. pc[g] = "got"
        BY <2>10 DEF PGot
      <4>2. \A h \in Pings \ {g} : pc'[h] = pc[h]
        BY <2>2, ThreadFacts
      <4> QED
        BY <2>1, <2>2, <2>10, <4>1, <4>2 DEF Strays
    <3>2. Keeper' = Keeper
      <4>1. ping_tid # 0 => (Live(ping_tid)' <=> Live(ping_tid))
        BY <2>1, <2>2, <2>5, <2>10 DEF Live
      <4> QED
        BY <2>1, <4>1, KeeperStays
    <3>3. \/ Stage' = Stage
          \/ Stage \in {"greeted", "misled"} /\ Stage' \in {"greeted", "misled"}
      <4>1. CASE phase # "auth" \/ pc[Main] # "failed"
        BY <2>1, <2>3, <2>4, <4>1, AuthStays
      <4>2. CASE phase = "auth" /\ pc[Main] = "failed"
        <5>1. sock # None /\ sent # 0
          BY <4>2 DEF WireInv, Heard
        <5>2. ~HasReply /\ ~HasReply'
          BY <2>3, <4>2 DEF HasReply
        <5>3. AuthStage \in {"greeted", "misled"} /\ AuthStage' \in {"greeted", "misled"}
          BY <2>1, <5>1, <5>2 DEF AuthStage
        <5> QED
          BY <2>1, <4>2, <5>1, <5>3 DEF Stage
      <4> QED
        BY <4>1, <4>2
    <3>4. W!Report
      BY <2>1, <3>1, <3>2, <3>3 DEF W!Report
    <3> QED
      BY <2>4, <3>4 DEF W!WireNext
  <2> QED
    BY <2>8, <2>9, <2>10
<1> QED
  BY <1>1, <1>2 DEF PingStep

-----------------------------------------------------------------------------
(* Reconnecting and closing.                                               *)

\* While main is alone no thread keeps a connection.
LEMMA NoKeeper ==
  ASSUME TypeOK, LockInv, Alone
  PROVE  Keeper = 0
<1>1. ping_tid # 0 => ping_tid \in Pings
  BY ExchangeAssumption DEF TypeOK, CtlType
<1> QED
  BY <1>1 DEF Keeper, LockInv, AloneInv

\* The steps after which the connection is the one it was.
LEMMA SessionQuiet ==
  ASSUME TypeOK, LockInv, WireInv,
         \/ TryLock \/ ForceUnlock \/ Refused \/ Exhausted
         \/ Authed \/ Stop \/ ClosingReply \/ Shut
  PROVE  WireInv' /\ [W!WireNext]_(W!wireVars)
<1>1. CASE TryLock \/ ForceUnlock \/ Authed \/ Stop
  <2>1. /\ UNCHANGED <<sock, open, sent, writer, conns, ping_tid, cancelled, phase>>
        /\ \E l \in {"forceunlock", "cancel", "stop", "idle", "join"} : Goto(Main, l)
        /\ pc[Main] \in {"trylock", "forceunlock", "authed", "stop"}
    BY <1>1 DEF TryLock, ForceUnlock, Authed, Stop, Leave, Jump, mainFrame,
                connVars, ctlVars, sessVars
  <2>2. phase = "cmd"
    BY <2>1 DEF LockInv, PhaseInv, ExchangeLabels, TypeOK, ExecType
  <2>3. pc'[Main] \notin {"connect", "send"}
    BY <2>1, ThreadFacts DEF Goto, TypeOK, ExecType
  <2>4. WireInv' /\ Stage' = Stage
    BY <2>1, <2>2, <2>3, Quiet
  <2>5. Keeper' = Keeper /\ Strays' = Strays
    BY <2>1, MainKeeper
  <2> QED
    BY <2>1, <2>4, <2>5, Idle
<1>2. CASE Refused \/ Exhausted
  <2>1. /\ UNCHANGED <<sock, open, sent, writer, conns, ping_tid, cancelled, phase,
                       got, last_err>>
        /\ UNCHANGED pc \/ Goto(Main, "exit")
        /\ pc[Main] = "attempt"
    BY <1>2 DEF Refused, Exhausted, Jump, mainFrame, attemptFrame, connVars,
                ctlVars, sessVars
  <2>2. phase = "auth"
    BY <2>1 DEF LockInv, PhaseInv, ExchangeLabels, TypeOK, ExecType
  <2>3. pc'[Main] \in {"exit", "attempt"}
    BY <2>1, ThreadFacts DEF Goto, TypeOK, ExecType
  <2>4. AuthStage' = AuthStage
    BY <2>1, <2>3, AuthStays
  <2>5. WireInv' /\ Stage' = Stage
    BY <2>1, <2>2, <2>3, <2>4, Quiet DEF Heard, ExchangeLabels
  <2>6. Keeper' = Keeper /\ Strays' = Strays
    BY <2>1, MainKeeper DEF Keeper, Live, Strays
  <2> QED
    BY <2>1, <2>5, <2>6, Idle
<1>3. CASE ClosingReply \/ Shut
  <2>1. /\ UNCHANGED <<sock, sent, writer, conns, ping_tid, cancelled, phase>>
        /\ open' => open
        /\ \E l \in {"shut", "done"} : Goto(Main, l)
        /\ pc[Main] \in {"got", "shut"} /\ (pc[Main] = "got" => phase = "close")
    BY <1>3 DEF ClosingReply, Shut, Jump, mainFrame, connVars, ctlVars, sessVars
  <2>2. phase = "close"
    BY <2>1 DEF LockInv, PhaseInv, ExchangeLabels, TypeOK, ExecType
  <2>3. pc'[Main] \in {"shut", "done"}
    BY <2>1, ThreadFacts DEF Goto, TypeOK, ExecType
  <2>4. WireInv' /\ Stage' = Stage
    BY <2>1, <2>2, <2>3, Quiet
  <2>5. Keeper' = Keeper /\ Strays' = Strays
    BY <2>1, MainKeeper
  <2> QED
    BY <2>1, <2>4, <2>5, Idle
<1> QED
  BY <1>1, <1>2, <1>3

\* authenticate goes on with the reply it has, or gives it up.
LEMMA AnswerWire ==
  ASSUME TypeOK, LockInv, WireInv, ReplyInv, Authenticated
  PROVE  WireInv' /\ [W!WireNext]_(W!wireVars)
<1>1. /\ UNCHANGED <<sock, open, sent, writer, conns, ping_tid, cancelled, phase,
                     got, last_err>>
      /\ \E l \in {"spawn", "attempt", "crash"} : Goto(Main, l)
      /\ pc[Main] = "got" /\ phase = "auth"
  BY DEF Authenticated, Jump, mainFrame, connVars, ctlVars, sessVars
<1>2. pc'[Main] \in {"spawn", "attempt", "crash"}
  BY <1>1, ThreadFacts DEF Goto, TypeOK, ExecType
<1>3. /\ WireInv'
      /\ phase # "auth" \/ AuthStage' = AuthStage => Stage' = Stage
  BY <1>1, <1>2, Quiet DEF Heard, ExchangeLabels
<1>4. Keeper' = Keeper /\ Strays' = Strays
  BY <1>1, MainKeeper
<1>5. sock # None /\ sent # 0 /\ got[Main] # 0
  BY <1>1 DEF WireInv, ReplyInv, Heard, ExchangeLabels
<1>6. AuthStage = "answered"
  BY <1>1, <1>5 DEF AuthStage, HasReply
<1>7. CASE pc'[Main] = "spawn"
  <2>1. AuthStage' = "answered"
    BY <1>1, <1>5, <1>7 DEF AuthStage, HasReply
  <2> QED
    BY <1>1, <1>3, <1>4, <1>6, <2>1, Idle
<1>8. CASE pc'[Main] # "spawn"
  <2>1. AuthStage' = "greeted"
    BY <1>1, <1>2, <1>5, <1>8 DEF AuthStage, HasReply, ForeignOK
  <2>2. W!Refuse
    BY <1>1, <1>4, <1>5, <1>6, <2>1 DEF W!Refuse, Stage
  <2> QED
    BY <1>3, <2>2 DEF W!WireNext
<1> QED
  BY <1>7, <1>8

LEMMA CancelWire ==
  ASSUME TypeOK, LockInv, WireInv, Cancel
  PROVE  WireInv' /\ [W!WireNext]_(W!wireVars)
<1>1. /\ UNCHANGED <<sock, open, sent, writer, conns, ping_tid, phase>>
      /\ pc[Main] = "cancel" /\ phase = "cmd"
      /\ cancelled' = [t \in Threads |-> cancelled[t] \/ t \in {ping_tid} \ {Main}]
  BY DEF Cancel, mainFrame, connVars, ctlVars, sessVars, LockInv, PhaseInv,
         ExchangeLabels, TypeOK, ExecType
<1>2. pc'[Main] = "close"
  BY ThreadFacts DEF Cancel, Jump, Goto, TypeOK, ExecType
<1>3. ping_tid \in Nat /\ (ping_tid # 0 => ping_tid \in Pings)
  BY ExchangeAssumption DEF TypeOK, CtlType
<1>4. \A g \in Pings : cancelled'[g] => cancelled[g] \/ g = ping_tid
  BY <1>1, ThreadFacts
<1>5. \A g \in Pings : cancelled'[g] => g <= ping_tid'
  BY <1>1, <1>3, <1>4 DEF WireInv
<1>6. WireInv'
  BY <1>1, <1>2, <1>5 DEF WireInv, Heard, ExchangeLabels
<1>7. Stage' = Stage
  BY <1>1 DEF Stage
<1>8. Keeper' = 0
  <2>1. ping_tid # 0 => cancelled'[ping_tid]
    BY <1>1, <1>3, ThreadFacts
  <2> QED
    BY <1>1, <2>1 DEF Keeper, Live
<1>9. /\ \A g \in Pings : pc'[g] = pc[g]
      /\ \A g \in Pings : cancelled'[g] = (cancelled[g] \/ g = ping_tid)
  <2>1. \A g \in Pings : pc'[g] = pc[g]
    BY ThreadFacts DEF Cancel, Jump, Goto, TypeOK, ExecType
  <2>2. \A g \in Pings : g \in Threads /\ g # Main
    BY ThreadFacts
  <2>3. ASSUME NEW g \in Pings
        PROVE  cancelled'[g] = (cancelled[g] \/ g = ping_tid)
    <3> HIDE DEF Main
    <3>1. cancelled'[g] = (cancelled[g] \/ g \in {ping_tid} \ {Main})
      BY <1>1, <2>2
    <3> QED
      BY <2>2, <3>1
  <2> QED
    BY <2>1, <2>3
<1>10. CASE Keeper = 0
  <2>1. \A g \in Pings : g = ping_tid => cancelled[g] \/ pc[g] \in {"none", "dead"}
    BY <1>10 DEF Keeper, Live
  <2>2. Strays' = Strays
    BY <1>9, <2>1 DEF Strays
  <2> QED
    BY <1>1, <1>6, <1>7, <1>8, <1>10, <2>2, Idle
<1>11. CASE Keeper # 0
  <2>1. Keeper = ping_tid
    BY <1>11 DEF Keeper
  <2>2. Strays' \in {Strays, Strays \cup {ping_tid}}
    <3>1. ping_tid \in Pings
      BY <1>3, <1>11, <2>1
    <3>2. CASE pc[ping_tid] = "got"
      <4>1. Strays' = Strays \cup {ping_tid}
        BY <1>9, <3>1, <3>2 DEF Strays
      <4> QED BY <4>1
    <3>3. CASE pc[ping_tid] # "got"
      <4>1. Strays' = Strays
        BY <1>9, <3>1, <3>3 DEF Strays
      <4> QED BY <4>1
    <3> QED
      BY <3>2, <3>3
  <2>3. W!Retire
    BY <1>1, <1>7, <1>8, <1>11, <2>1, <2>2 DEF W!Retire, W!Nobody
  <2> QED
    BY <1>6, <2>3 DEF W!WireNext
<1> QED
  BY <1>10, <1>11

LEMMA ConnectWire ==
  ASSUME TypeOK, LockInv, WireInv, Connect
  PROVE  WireInv' /\ [W!WireNext]_(W!wireVars)
<1>1. /\ UNCHANGED <<sock, open, sent, writer, conns, ping_tid, cancelled>>
      /\ pc[Main] = "connect" /\ phase' = "auth" /\ Goto(Main, "attempt")
  BY DEF Connect, Jump, connVars
<1>2. sock = None /\ phase \in {"auth", "cmd"}
  BY <1>1 DEF WireInv, LockInv, PhaseInv, ExchangeLabels, TypeOK, ExecType
<1>3. pc'[Main] = "attempt"
  BY <1>1, ThreadFacts DEF Goto, TypeOK, ExecType
<1>4. WireInv'
  BY <1>1, <1>2, <1>3 DEF WireInv, Heard, ExchangeLabels
<1>5. Stage' = Stage
  BY <1>1, <1>2 DEF Stage
<1>6. Keeper' = Keeper /\ Strays' = Strays
  BY <1>1, MainKeeper
<1> QED
  BY <1>1, <1>4, <1>5, <1>6, Idle

\* The connection is given up: reset_zkclient, or a host that cannot be
\* resolved on a later round of do_connect.
LEMMA DropWire ==
  ASSUME TypeOK, LockInv, WireInv, Close \/ Unresolved
  PROVE  WireInv' /\ [W!WireNext]_(W!wireVars)
<1>1. /\ UNCHANGED <<conns, ping_tid, cancelled, phase>>
      /\ sock' = None /\ sent' = 0 /\ writer' = Main
      /\ Alone /\ phase \in {"auth", "cmd"}
      /\ \E l \in {"connect", "send"} : Goto(Main, l)
  BY DEF Close, Unresolved, NewSocket, Jump, attemptFrame, Alone, LockInv,
         PhaseInv, ExchangeLabels, TypeOK, ExecType
<1>2. ~open'
  BY DEF Close, Unresolved, NewSocket
<1>3. /\ pc'[Main] \in {"connect", "send"}
      /\ phase = "cmd" => pc'[Main] = "connect" /\ pc[Main] = "close"
  BY <1>1, ThreadFacts
     DEF Close, Unresolved, Jump, Goto, LockInv, PhaseInv, ExchangeLabels,
         TypeOK, ExecType
<1>4. WireInv'
  BY <1>1, <1>2, <1>3 DEF WireInv, Heard, ExchangeLabels
<1>5. Keeper = 0 /\ Keeper' = Keeper /\ Strays' = Strays
  BY <1>1, NoKeeper, MainKeeper
<1>6. Stage' = "down"
  BY <1>1 DEF Stage
<1>7. CASE sock = None
  <2>1. Stage = "down" /\ sent = 0 /\ writer = Main
    BY <1>1, <1>7 DEF Stage, WireInv
  <2> QED
    BY <1>1, <1>4, <1>5, <1>6, <2>1, Idle
<1>8. CASE sock # None
  <2>1. Stage \in {"fresh", "greeted", "answered", "misled", "open"}
    BY <1>1, <1>8 DEF Stage, AuthStage
  <2>2. W!Drop
    BY <1>1, <1>5, <1>6, <2>1 DEF W!Drop, W!Opening, W!Nobody, W!Main
  <2> QED
    BY <1>4, <2>2 DEF W!WireNext
<1> QED
  BY <1>7, <1>8

\* A new socket.
LEMMA NewWire ==
  ASSUME TypeOK, LockInv, WireInv, Dial
  PROVE  WireInv' /\ [W!WireNext]_(W!wireVars)
<1>1. /\ UNCHANGED <<ping_tid, cancelled, phase>>
      /\ conns \in Nat /\ ping_tid \in Nat
      /\ conns < MaxConns /\ conns' = conns + 1 /\ sock' = conns + 1
      /\ sent' = 0 /\ writer' = Main
      /\ phase = "auth" /\ Alone /\ Goto(Main, "send")
  BY DEF Dial, NewSocket, Jump, attemptFrame, Alone, LockInv, PhaseInv,
         ExchangeLabels, TypeOK, ExecType, CtlType
<1>2. pc'[Main] = "send"
  BY <1>1, ThreadFacts DEF Goto, TypeOK, ExecType
<1>3. WireInv'
  BY <1>1, <1>2 DEF WireInv, Heard
<1>4. Keeper = 0 /\ Keeper' = Keeper /\ Strays' = Strays
  BY <1>1, NoKeeper, MainKeeper
<1>5. /\ Stage \in {"down", "fresh", "greeted", "answered", "misled"}
      /\ Stage' = "fresh"
  BY <1>1 DEF Stage, AuthStage
<1>6. W!DialWire
  BY <1>1, <1>4, <1>5 DEF W!DialWire, W!Opening, W!Nobody, W!Main
<1> QED
  BY <1>3, <1>6 DEF W!WireNext

\* The connection was answered, or seems to be: it gets the thread that keeps
\* it, or the process exits.
LEMMA SpawnWire ==
  ASSUME TypeOK, LockInv, WireInv, Spawn
  PROVE  WireInv' /\ [W!WireNext]_(W!wireVars)
<1>1. /\ UNCHANGED <<sock, open, sent, writer, conns, cancelled>>
      /\ pc[Main] = "spawn" /\ phase = "auth"
  BY DEF Spawn, connVars, LockInv, PhaseInv, ExchangeLabels, TypeOK, ExecType
<1>2. sock = conns /\ sock \in Pings /\ sent # 0 /\ ping_tid < conns
  BY <1>1 DEF WireInv, Heard, TypeOK, ConnType
<1>5. Stage \in {"answered", "misled"}
  BY <1>1, <1>2, ExchangeAssumption DEF Stage, AuthStage, HasReply, ForeignOK
<1>3. CASE ping_tid' = ping_tid /\ phase' = phase /\ Goto(Main, "exit")
  <2>1. pc'[Main] = "exit"
    BY <1>3, ThreadFacts DEF Goto, TypeOK, ExecType
  <2>2. WireInv'
    BY <1>1, <1>3, <2>1, Quiet DEF Heard, ExchangeLabels
  <2>3. Keeper' = Keeper /\ Strays' = Strays
    BY <1>1, <1>3, MainKeeper
  <2>4. Stage' = "greeted"
    BY <1>1, <1>2, <1>3, <2>1, ExchangeAssumption
       DEF Stage, AuthStage, HasReply, ForeignOK
  <2>5. W!Refuse
    BY <1>1, <1>5, <2>3, <2>4 DEF W!Refuse
  <2> QED
    BY <2>2, <2>5 DEF W!WireNext
<1>4. CASE /\ ping_tid' = conns /\ phase' = "cmd"
           /\ pc' = [pc EXCEPT ![conns] = "test", ![Main] = "authed"]
  <2>1. pc'[Main] = "authed" /\ pc'[conns] = "test"
    BY <1>2, <1>4, ThreadFacts DEF TypeOK, ExecType
  <2>2. ~cancelled[conns]
    BY <1>2, ExchangeAssumption DEF WireInv, TypeOK, CtlType
  <2>3. \A g \in Pings : cancelled[g] => g <= conns
    BY <1>2, ExchangeAssumption DEF WireInv, TypeOK, CtlType
  <2>4. WireInv'
    BY <1>1, <1>2, <1>4, <2>1, <2>3 DEF WireInv
  <2>5. Keeper' = conns
    BY <1>1, <1>2, <1>4, <2>1, <2>2, ExchangeAssumption DEF Keeper, Live
  <2>6. Stage' = "open"
    BY <1>1, <1>2, <1>4, ExchangeAssumption DEF Stage
  <2>7. Strays' = Strays
    <3>1. \A g \in Pings : g # conns => pc'[g] = pc[g]
      BY <1>2, <1>4, ThreadFacts DEF TypeOK, ExecType
    <3>2. \A g \in Pings : cancelled[g] => g # conns
      BY <2>2
    <3> QED
      BY <1>1, <3>1, <3>2, StraysStay
  <2>8. W!OpenWire
    BY <1>1, <1>5, <2>5, <2>6, <2>7 DEF W!OpenWire
  <2> QED
    BY <2>4, <2>8 DEF W!WireNext
<1> QED
  BY <1>3, <1>4 DEF Spawn, Jump

\* destroy_client has joined the ping thread.
LEMMA JoinWire ==
  ASSUME TypeOK, LockInv, WireInv, Join
  PROVE  WireInv' /\ [W!WireNext]_(W!wireVars)
<1>1. /\ UNCHANGED <<sock, open, sent, writer, conns, ping_tid, cancelled>>
      /\ pc[Main] = "join" /\ phase = "cmd" /\ phase' = "close"
      /\ pc[ping_tid] = "dead" /\ Goto(Main, "send")
  BY DEF Join, Jump, connVars, ctlVars, sessVars, LockInv, PhaseInv,
         ExchangeLabels, TypeOK, ExecType
<1>2. pc'[Main] = "send"
  BY <1>1, ThreadFacts DEF Goto, TypeOK, ExecType
<1>3. sock # None
  BY <1>1 DEF WireInv
<1>4. WireInv'
  BY <1>1, <1>2, <1>3 DEF WireInv
<1>5. Keeper = 0 /\ Keeper' = Keeper /\ Strays' = Strays
  BY <1>1, MainKeeper DEF Keeper, Live
<1>6. Stage = "open" /\ Stage' = "closing"
  BY <1>1, <1>2, <1>3 DEF Stage
<1>7. W!Closing
  BY <1>1, <1>5, <1>6 DEF W!Closing, W!Nobody
<1> QED
  BY <1>4, <1>7 DEF W!WireNext

-----------------------------------------------------------------------------
LEMMA StepWire ==
  TypeOK /\ LockInv /\ WireInv /\ ReplyInv /\ [Next]_vars
    => WireInv' /\ [W!WireNext]_(W!wireVars)
<1> SUFFICES ASSUME TypeOK, LockInv, WireInv, ReplyInv, [Next]_vars
             PROVE  WireInv' /\ [W!WireNext]_(W!wireVars)
  OBVIOUS
<1>1. CASE UNCHANGED vars \/ (Server /\ UNCHANGED ctlVars)
  <2>1. UNCHANGED <<sock, open, sent, writer, conns, ping_tid, cancelled, phase,
                    pc, got, last_err>>
    BY <1>1 DEF Server, Segment, Reply, PeerClose, vars, xVars, connVars,
                execVars, ctlVars, sessVars
  <2>2. AuthStage' = AuthStage
    BY <2>1, AuthStays
  <2>3. WireInv' /\ Stage' = Stage
    BY <2>1, <2>2, Quiet DEF TypeOK, ExecType
  <2>4. Keeper' = Keeper /\ Strays' = Strays
    BY <2>1, KeeperStays, StraysStay DEF Live
  <2> QED
    BY <2>1, <2>3, <2>4, Idle
<1>2. CASE Session
  BY <1>2, SessionQuiet, AnswerWire, CancelWire, ConnectWire, DropWire, NewWire,
     SpawnWire, JoinWire
     DEF Session
<1>3. CASE Transfer(Main) /\ UNCHANGED ctlVars
  BY <1>3, ReadWire, SendWire, ThreadFacts
<1> QED
  BY <1>1, <1>2, <1>3, CommandWire, PingWire DEF Next, MainStep

\* Each connection carries what Wire says, whatever the bounds: pings and
\* commands only after an answer to the ConnectRequest or what a cancelled
\* thread's header made pass for one, and before zk_close's exchange, by main
\* or by the one ping thread of this connection (ImplementsWire).
THEOREM Implementation == Spec => ImplementsWire
<1>1. Init => W!WireInit
  <2> SUFFICES ASSUME Init PROVE W!WireInit
    OBVIOUS
  <2>1. Stage = "down" /\ Keeper = 0 /\ Strays = {}
    BY ThreadFacts DEF Init, Stage, Keeper, Strays
  <2> QED
    BY <2>1 DEF Init, W!WireInit, W!Main, W!Nobody
<1> QED
  BY <1>1, InitType, InitLock, InitWire, InitReply, StepType, StepLock, StepWire,
     StepReply, PTL
     DEF Spec, ImplementsWire, W!WireSpec
=============================================================================
