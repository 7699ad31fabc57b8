--------------------------- MODULE ZkClientProofs ---------------------------
(***************************************************************************)
(* Type correctness of ZkClient and the mutual exclusion of its exchanges. *)
(* LockInv is inductive: where the code takes a thread to own the mutex,   *)
(* it does, unless that has been lost on this connection; and where main   *)
(* works without the mutex, no live ping thread is there.  On it rests     *)
(* StreamInv, which says where in the stream of replies each thread reads, *)
(* and SoundInv, which follows a failed exchange of main's to the end of   *)
(* its command.                                                            *)
(***************************************************************************)
EXTENDS ZkClient, TLAPS

USE DEF Main, None, Pings, Threads

LEMMA ThreadFacts ==
  /\ Main \in Threads /\ Main \notin Pings /\ None \notin Threads
  /\ Pings \subseteq Threads
BY ExchangeAssumption

LEMMA InitType == Init => TypeOK
<1> SUFFICES ASSUME Init PROVE TypeOK
  OBVIOUS
<1> USE ExchangeAssumption, ClientAssumption DEF Init
<1>1. LockType
  BY DEF LockType
<1>2. ConnType
  BY DEF ConnType
<1>3. ExecType
  BY DEF ExecType, Err, Labels
<1>4. CtlType
  BY DEF CtlType, Err
<1> QED
  BY <1>1, <1>2, <1>3, <1>4 DEF TypeOK

LEMMA LockStays == ASSUME LockType, UNCHANGED lockVars PROVE LockType'
BY DEF LockType, lockVars

LEMMA ConnStays == ASSUME ConnType, UNCHANGED connVars PROVE ConnType'
BY DEF ConnType, connVars

LEMMA FailLabels ==
  ASSUME ExecType, NEW t \in Threads
  PROVE  SendFailed(t) \in Labels /\ RecvFailed(t) \in Labels
BY DEF SendFailed, RecvFailed, ExecType, Labels

LEMMA GotoLabel ==
  ASSUME ExecType, NEW t \in Threads, NEW l \in Labels, Goto(t, l)
  PROVE  pc' \in [Threads -> Labels]
BY DEF Goto, ExecType

LEMMA SendType ==
  ASSUME ConnType, ExecType, NEW t \in Threads, Send(t)
  PROVE  ConnType' /\ ExecType'
<1> DEFINE new == [id |-> sent + 1, by |-> t, due |-> "frame"]
<1>1. reqs' \in {reqs, Append(reqs, new)}
  BY DEF Send
<1>2. /\ sent' \in {sent, sent + 1} /\ writer' \in {writer, t}
      /\ my' \in {my, [my EXCEPT ![t] = sent + 1]}
      /\ err' \in {err, [err EXCEPT ![t] = "SOCK"]}
      /\ last_err' \in {last_err, "SOCK"}
      /\ (\E l \in {"poll", SendFailed(t)} : Goto(t, l)) \/ Goto(Main, "crash")
  BY DEF Send
<1>3. UNCHANGED <<lockVars, cancelled, phase, got, sock, open, up, inbox,
                  abandoned, shifts>>
  BY DEF Send
<1>4. Append(reqs, new) \in Seq(Request)
  <2>1. new \in Request
    BY DEF ConnType, Request
  <2> HIDE DEF new
  <2> QED
    BY <2>1 DEF ConnType
<1>5. ConnType'
  <2> HIDE DEF new
  <2>1. reqs' \in Seq(Request)
    BY <1>1, <1>4 DEF ConnType
  <2>2. sent' \in Nat /\ writer' \in Threads
    BY <1>2 DEF ConnType
  <2> QED
    BY <1>3, <2>1, <2>2 DEF ConnType
<1>6. pc' \in [Threads -> Labels]
  BY <1>2, FailLabels, GotoLabel, ThreadFacts DEF Labels, ExchangeLabels
<1>7. my' \in [Threads -> Nat]
  BY <1>2 DEF ExecType, ConnType
<1>8. err' \in [Threads -> Err] /\ last_err' \in Err
  BY <1>2 DEF ExecType, Err
<1> QED
  BY <1>3, <1>5, <1>6, <1>7, <1>8 DEF ExecType

LEMMA PollType ==
  ASSUME ConnType, ExecType, NEW t \in Threads, Poll(t)
  PROVE  ConnType' /\ ExecType'
<1>1. /\ last_err' \in {last_err, "SOCK"}
      /\ abandoned' \in {abandoned, abandoned + 1}
      /\ \E l \in {"rlen", RecvFailed(t)} : Goto(t, l)
  BY DEF Poll
<1>2. UNCHANGED <<lockVars, cancelled, phase, my, got, err, sock, open, up,
                  sent, writer, reqs, inbox, shifts>>
  BY DEF Poll
<1>3. ConnType'
  BY <1>1, <1>2 DEF ConnType
<1>4. pc' \in [Threads -> Labels]
  BY <1>1, FailLabels, GotoLabel DEF Labels, ExchangeLabels
<1> QED
  BY <1>1, <1>2, <1>3, <1>4 DEF ExecType, Err

LEMMA ReadEofType ==
  ASSUME ConnType, ExecType, NEW t \in Threads, ReadEof(t)
  PROVE  /\ open' \in BOOLEAN /\ inbox' \in Seq(Half)
         /\ pc' \in [Threads -> Labels]
         /\ got' \in [Threads -> Nat] /\ err' \in [Threads -> Err]
         /\ last_err' \in Err /\ UNCHANGED shifts
<1>1. pc' \in [Threads -> Labels]
  BY FailLabels, GotoLabel DEF ReadEof
<1> QED
  BY <1>1 DEF ReadEof, ConnType, ExecType, Err

LEMMA TornType ==
  ASSUME ConnType, ExecType, NEW t \in Threads, NEW h, Torn(t, h)
  PROVE  /\ open' \in BOOLEAN /\ inbox' \in Seq(Half)
         /\ pc' \in [Threads -> Labels]
         /\ got' \in [Threads -> Nat] /\ err' \in [Threads -> Err]
         /\ last_err' \in Err /\ UNCHANGED shifts
<1>1. pc' \in [Threads -> Labels]
  BY ThreadFacts, GotoLabel DEF Torn, Labels, ExchangeLabels
<1> QED
  BY <1>1 DEF Torn, ConnType, ExecType

LEMMA LeftoverType ==
  ASSUME ConnType, inbox # <<>>
  PROVE  Leftover \subseteq Seq(Half)
<1> DEFINE rest == [Head(inbox) EXCEPT !.half = "rest"]
<1>1. Tail(inbox) \in Seq(Half) /\ Head(inbox) \in Half
  BY DEF ConnType
<1>2. rest \in Half
  BY <1>1 DEF Half
<1>3. <<rest>> \o Tail(inbox) \in Seq(Half)
  <2> HIDE DEF rest
  <2> QED
    BY <1>1, <1>2
<1> QED
  BY <1>1, <1>3 DEF Leftover

LEMMA ReadType ==
  ASSUME ConnType, ExecType, NEW t \in Threads,
         ReadLen(t) \/ ReadBody(t) \/ Spin(t)
  PROVE  ConnType' /\ ExecType'
<1>1. inbox # <<>> => /\ Tail(inbox) \in Seq(Half)
                      /\ Head(inbox).id \in Nat /\ Head(inbox).err \in Err
  <2> SUFFICES ASSUME inbox # <<>>
               PROVE  Tail(inbox) \in Seq(Half) /\ Head(inbox) \in Half
    BY DEF Half
  <2> QED
    BY DEF ConnType
<1>2. /\ open' \in BOOLEAN /\ inbox' \in Seq(Half)
      /\ pc' \in [Threads -> Labels]
      /\ got' \in [Threads -> Nat] /\ err' \in [Threads -> Err]
      /\ last_err' \in Err /\ shifts' \in Nat
  <2>1. CASE ReadEof(t)
    BY <2>1, ReadEofType DEF ConnType
  <2>2. CASE Torn(t, "len") \/ Torn(t, "body")
    BY <2>2, TornType DEF ConnType
  <2>3. CASE ReadLen(t) /\ ~ReadEof(t) /\ ~Torn(t, "len")
    <3>1. pc' \in [Threads -> Labels]
      BY <2>3, GotoLabel DEF ReadLen, Labels, ExchangeLabels
    <3> QED
      BY <1>1, <2>3, <3>1 DEF ReadLen, Framed, ConnType, ExecType
  <2>4. CASE ReadBody(t) /\ ~ReadEof(t) /\ ~Torn(t, "body")
    <3>1. pc' \in [Threads -> Labels]
      BY <2>4, GotoLabel DEF ReadBody, Labels, ExchangeLabels
    <3> QED
      BY <1>1, <2>4, <3>1 DEF ReadBody, Framed, ConnType, ExecType
  <2>5. CASE Spin(t) /\ ~ReadEof(t)
    <3>1. open /\ inbox # <<>>
      BY <2>5 DEF Spin
    <3>2. inbox' \in Seq(Half)
      BY <1>1, <2>5, <3>1, LeftoverType DEF Spin
    <3>3. /\ open' \in BOOLEAN /\ last_err' \in Err
          /\ shifts' \in {shifts, shifts + 1}
          /\ got' \in {got, [got EXCEPT ![t] = Head(inbox).id]}
      BY <2>5 DEF Spin, ConnType, ExecType
    <3>4. pc' \in [Threads -> Labels]
      BY <2>5, GotoLabel DEF Spin, ExecType, Labels, ExchangeLabels
    <3>5. err' \in [Threads -> Err]
      BY <2>5 DEF Spin, ExecType
    <3> QED
      BY <1>1, <3>1, <3>2, <3>3, <3>4, <3>5 DEF ConnType, ExecType
  <2> QED
    BY <2>1, <2>2, <2>3, <2>4, <2>5
<1>3. UNCHANGED readFrame
  BY DEF ReadLen, ReadBody, Spin
<1> QED
  BY <1>2, <1>3 DEF readFrame, ConnType, ExecType

LEMMA TransferType ==
  ASSUME LockType, ConnType, ExecType, NEW t \in Threads, Transfer(t)
  PROVE  LockType' /\ ConnType' /\ ExecType'
<1>1. UNCHANGED lockVars
  BY DEF Transfer, Send, Poll, ReadLen, ReadBody, Spin, readFrame
<1> QED
  BY <1>1, LockStays, SendType, PollType, ReadType DEF Transfer

LEMMA ServerType ==
  ASSUME LockType, ConnType, ExecType, Server
  PROVE  LockType' /\ ConnType' /\ ExecType'
<1>1. UNCHANGED <<lockVars, execVars>> /\ LockType' /\ ExecType'
  <2>1. UNCHANGED <<lockVars, execVars>>
    BY DEF Server, Segment, Reply, PeerClose
  <2> QED
    BY <2>1, LockStays DEF execVars, ExecType
<1>2. reqs # <<>> => Head(reqs) \in Request /\ Tail(reqs) \in Seq(Request)
  BY DEF ConnType
<1>3. ASSUME NEW h \in {"len", "body"}, NEW r \in Request, NEW e \in Err
      PROVE  Part(h, r, e) \in Seq(Half)
  <2>1. [half |-> h, id |-> r.id, err |-> e] \in Half
    BY DEF Half, Request
  <2> QED
    BY <2>1 DEF Part
<1>4. CASE Segment
  <2>1. reqs' \in Seq(Request)
    <3>1. [Head(reqs) EXCEPT !.due = "body"] \in Request
      BY <1>2, <1>4 DEF Segment, Request
    <3>2. <<[Head(reqs) EXCEPT !.due = "body"]>> \in Seq(Request)
      BY <3>1
    <3> QED
      BY <1>2, <1>4, <3>2 DEF Segment
  <2>2. Part("len", Head(reqs), "OK") \in Seq(Half)
    BY <1>2, <1>3, <1>4 DEF Segment, Err
  <2> QED
    BY <1>1, <1>4, <2>1, <2>2 DEF Segment, ConnType
<1>5. CASE Reply
  <2>1. PICK e \in ReplyErrs(Head(reqs)) :
          inbox' = inbox
            \o (IF Head(reqs).due = "frame"
                THEN Part("len", Head(reqs), "OK") ELSE <<>>)
            \o Part("body", Head(reqs), e)
    BY <1>5 DEF Reply
  <2>2. e \in Err /\ "OK" \in Err
    BY ExchangeAssumption DEF ReplyErrs, Err
  <2>3. /\ Part("len", Head(reqs), "OK") \in Seq(Half)
        /\ Part("body", Head(reqs), e) \in Seq(Half)
    BY <1>2, <1>3, <1>5, <2>2 DEF Reply
  <2>4. inbox' \in Seq(Half)
    <3>1. (IF Head(reqs).due = "frame"
           THEN Part("len", Head(reqs), "OK") ELSE <<>>) \in Seq(Half)
      BY <2>3
    <3> QED
      BY <2>1, <2>3, <3>1 DEF ConnType
  <2> QED
    BY <1>1, <1>2, <1>5, <2>4 DEF Reply, ConnType
<1>6. CASE PeerClose
  <2>1. inbox' \in Seq(Half) /\ reqs' \in Seq(Request)
    <3>1. <<>> \in Seq(Half) /\ <<>> \in Seq(Request)
      OBVIOUS
    <3>2. inbox' \in {inbox, <<>>} /\ reqs' = <<>>
      BY <1>6 DEF PeerClose
    <3> QED
      BY <3>1, <3>2 DEF ConnType
  <2>2. up' \in BOOLEAN
    BY <1>6 DEF PeerClose
  <2>3. open' \in BOOLEAN
    BY <1>6 DEF PeerClose, ConnType
  <2>4. UNCHANGED <<sock, sent, writer, abandoned, shifts>>
    BY <1>6 DEF PeerClose
  <2>5. ConnType'
    BY <2>1, <2>2, <2>3, <2>4 DEF ConnType
  <2> QED
    BY <1>1, <2>5
<1> QED
  BY <1>1, <1>4, <1>5, <1>6 DEF Server

LEMMA CtlStays == ASSUME CtlType, UNCHANGED ctlVars PROVE CtlType'
BY DEF CtlType, ctlVars, callVars, sessVars

LEMMA UnlockType ==
  ASSUME LockType, NEW t \in Threads, Unlock(t) PROVE LockType'
BY DEF LockType, Unlock

LEMMA LocalsType ==
  ASSUME ExecType, NEW t \in Threads, Forget(t) \/ UNCHANGED <<my, got, err>>
  PROVE  /\ my' \in [Threads -> Nat] /\ got' \in [Threads -> Nat]
         /\ err' \in [Threads -> Err]
BY DEF ExecType, Forget, Err

\* A step that moves one thread and may drop its locals or copy an error.
LEMMA MoveType ==
  ASSUME ExecType, NEW t \in Threads, NEW l \in Labels, Goto(t, l),
         Forget(t) \/ UNCHANGED <<my, got, err>>,
         phase' \in {"auth", "cmd", "close"}, last_err' \in Err,
         UNCHANGED cancelled
  PROVE  ExecType'
<1>1. pc' \in [Threads -> Labels]
  BY GotoLabel
<1> QED
  BY <1>1, LocalsType DEF ExecType

LEMMA CommandType ==
  ASSUME TypeOK, Command
  PROVE  TypeOK'
<1> USE ThreadFacts DEF TypeOK
<1>1. Main \in Threads /\ err[Main] \in Err /\ last_err \in Err
      /\ phase \in {"auth", "cmd", "close"}
  BY DEF ExecType
<1>2. ASSUME NEW c \in Cmds, Enter(c) PROVE TypeOK'
  <2>1. \E l \in Labels : Goto(Main, l)
    BY <1>2 DEF Enter, Jump, Labels
  <2>2. ExecType'
    BY <1>1, <1>2, <2>1, MoveType DEF Enter
  <2>3. op' \in {"none", "exists", "get", "create", "unwind", "ls", "set", "del"}
    BY <1>2, ClientAssumption DEF Enter, OpOf, CtlType
  <2>4. CtlType'
    BY <1>2, <2>3, ClientAssumption DEF Enter, CtlType, sessVars, Err
  <2> QED
    BY <1>2, <2>2, <2>4, LockStays, ConnStays DEF Enter
<1>3. CASE EndOfInput
  <2>1. ExecType'
    BY <1>1, <1>3, MoveType DEF EndOfInput, Jump, Labels
  <2> QED
    BY <1>3, <2>1, LockStays, ConnStays, CtlStays DEF EndOfInput
<1>4. CASE Acquire
  <2>1. LockType'
    BY <1>4 DEF Acquire, LockType
  <2>2. ExecType'
    BY <1>1, <1>4, MoveType DEF Acquire, Jump, Labels, ExchangeLabels
  <2> QED
    BY <1>4, <2>1, <2>2, ConnStays, CtlStays DEF Acquire
<1>5. CASE Failed
  <2>1. \E l \in Labels : Goto(Main, l)
    BY <1>5 DEF Failed, Jump, Labels
  <2>2. pc' \in [Threads -> Labels]
    BY <2>1, GotoLabel
  <2>3. err' \in [Threads -> Err]
    BY <1>1, <1>5 DEF Failed, ExecType
  <2>4. ExecType'
    BY <1>5, <2>2, <2>3 DEF Failed, ExecType
  <2> QED
    BY <1>5, <2>4, LockStays, ConnStays, CtlStays DEF Failed
<1>6. CASE Received
  <2>1. ExecType'
    BY <1>1, <1>6, MoveType DEF Received, Jump, Labels
  <2> QED
    BY <1>6, <2>1, UnlockType, ConnStays, CtlStays DEF Received
<1>7. CASE Decode
  <2>1. \E l \in Labels : Goto(Main, l)
    BY <1>7 DEF Decode, Jump, Labels
  <2>2. ExecType'
    BY <1>1, <1>7, <2>1, MoveType DEF Decode
  <2> QED
    BY <1>7, <2>2, LockStays, ConnStays, CtlStays DEF Decode
<1>8. CASE Undecodable
  <2>1. \E l \in Labels : Goto(Main, l)
    BY <1>8 DEF Undecodable, Jump, Labels
  <2>2. pc' \in [Threads -> Labels]
    BY <2>1, GotoLabel
  <2>3. err' \in [Threads -> Err]
    BY <1>8 DEF Undecodable, ExecType, Err
  <2>4. ExecType'
    BY <1>1, <1>8, <2>2, <2>3 DEF Undecodable, ExecType
  <2> QED
    BY <1>8, <2>4, LockStays, ConnStays, CtlStays DEF Undecodable
<1>9. CASE Release
  <2>1. ExecType'
    BY <1>1, <1>9, MoveType DEF Release, Jump, Labels
  <2> QED
    BY <1>9, <2>1, UnlockType, ConnStays, CtlStays DEF Release
<1>10. CASE MkdirStep
  <2>1. ExecType'
    BY <1>1, <1>10, MoveType DEF MkdirStep, returnFrame, Jump, Labels
  <2>2. depth' \in 0..MkdirDepth
    BY <1>10, ClientAssumption DEF MkdirStep, Climb, Unwind, CtlType
  <2>3. op' \in {op, "unwind"}
    BY <1>10 DEF MkdirStep
  <2>4. CtlType'
    BY <1>10, <2>2, <2>3 DEF MkdirStep, returnFrame, sessVars, CtlType
  <2> QED
    BY <1>10, <2>1, <2>4, LockStays, ConnStays DEF MkdirStep, returnFrame
<1>11. CASE GetStep
  <2>1. ExecType'
    BY <1>1, <1>11, MoveType DEF GetStep, returnFrame, Jump, Labels
  <2>2. CtlType'
    BY <1>11 DEF GetStep, returnFrame, sessVars, CtlType
  <2> QED
    BY <1>11, <2>1, <2>2, LockStays, ConnStays DEF GetStep, returnFrame
<1>12. ASSUME Leave
       PROVE  /\ \E l \in Labels : Goto(Main, l)
              /\ cmd' \in Cmds \cup {"none"} /\ op' = "none"
              /\ depth' \in 0..MkdirDepth /\ status' \in Err
  BY <1>12, ClientAssumption DEF Leave, Jump, Labels, Err
<1>13. CASE Completed
  <2>1. ExecType'
    BY <1>1, <1>12, <1>13, MoveType DEF Completed, returnFrame
  <2>2. CtlType'
    BY <1>12, <1>13 DEF Completed, returnFrame, sessVars, CtlType
  <2> QED
    BY <1>13, <2>1, <2>2, LockStays, ConnStays DEF Completed, returnFrame
<1>14. CASE Return
  <2>1. ExecType'
    BY <1>1, <1>14, MoveType DEF Return, returnFrame, Jump, Labels
  <2>2. status' \in Err
    BY <1>1, <1>14 DEF Return, Err
  <2>3. CtlType'
    BY <1>14, <2>2 DEF Return, returnFrame, sessVars, CtlType
  <2> QED
    BY <1>14, <2>1, <2>3, LockStays, ConnStays DEF Return, returnFrame
<1>15. CASE Check
  <2>1. \E l \in Labels : Goto(Main, l)
    BY <1>12, <1>15 DEF Check, Jump, Labels
  <2>2. ExecType'
    BY <1>1, <1>15, <2>1, MoveType DEF Check
  <2>3. CtlType'
    BY <1>12, <1>15 DEF Check, sessVars, CtlType
  <2> QED
    BY <1>15, <2>2, <2>3, LockStays, ConnStays DEF Check
<1> QED
  BY <1>2, <1>3, <1>4, <1>5, <1>6, <1>7, <1>8, <1>9, <1>10, <1>11, <1>13,
     <1>14, <1>15 DEF Command

LEMMA NewSocketType ==
  ASSUME NEW s \in Pings \cup {None}, NewSocket(s) PROVE ConnType'
<1>1. <<>> \in Seq(Half) /\ <<>> \in Seq(Request)
  OBVIOUS
<1>2. open' \in BOOLEAN /\ up' \in BOOLEAN
  BY DEF NewSocket
<1> QED
  BY <1>1, <1>2, ThreadFacts DEF NewSocket, ConnType

LEMMA SessionType ==
  ASSUME TypeOK, Session
  PROVE  TypeOK'
<1> USE ThreadFacts DEF TypeOK
<1>1. Main \in Threads /\ err[Main] \in Err /\ last_err \in Err
      /\ phase \in {"auth", "cmd", "close"}
  BY DEF ExecType
<1>2. CASE TryLock
  <2>1. ExecType'
    BY <1>1, <1>2, MoveType DEF TryLock, mainFrame, Jump, Labels
  <2> QED
    BY <1>2, <2>1, ConnStays, CtlStays DEF TryLock, mainFrame, LockType
<1>3. CASE ForceUnlock
  <2>1. ExecType'
    BY <1>1, <1>3, MoveType DEF ForceUnlock, mainFrame, Jump, Labels
  <2> QED
    BY <1>3, <2>1, UnlockType, ConnStays, CtlStays DEF ForceUnlock, mainFrame
<1>4. CASE Cancel
  <2>1. pc' \in [Threads -> Labels]
    BY <1>4, GotoLabel DEF Cancel, Jump, Labels
  <2>2. cancelled' \in [Threads -> BOOLEAN]
    BY <1>4 DEF Cancel
  <2>3. ExecType'
    BY <1>4, <2>1, <2>2 DEF Cancel, mainFrame, ExecType
  <2> QED
    BY <1>4, <2>3, LockStays, ConnStays, CtlStays DEF Cancel, mainFrame
<1>5. CASE Close
  <2>1. ExecType'
    BY <1>1, <1>5, MoveType DEF Close, Jump, Labels
  <2>2. LockType' /\ CtlType'
    BY <1>5 DEF Close, LockType, CtlType, callVars
  <2> QED
    BY <1>5, <2>1, <2>2, NewSocketType DEF Close
<1>6. CASE Connect
  <2>1. ExecType'
    BY <1>1, <1>6, MoveType DEF Connect, Jump, Labels
  <2>2. CtlType'
    BY <1>6, ClientAssumption DEF Connect, CtlType, callVars
  <2> QED
    BY <1>6, <2>1, <2>2, LockStays, ConnStays DEF Connect
<1>7. CASE Refused
  <2>1. ExecType'
    BY <1>7 DEF Refused, attemptFrame, ExecType
  <2>2. CtlType'
    BY <1>7, ClientAssumption DEF Refused, attemptFrame, CtlType, callVars
  <2> QED
    BY <1>7, <2>1, <2>2, LockStays, ConnStays DEF Refused, attemptFrame
<1>8. CASE Unresolved
  <2>1. ExecType'
    BY <1>1, <1>8, MoveType
       DEF Unresolved, attemptFrame, Jump, Labels, ExchangeLabels
  <2>2. CtlType'
    BY <1>8, ClientAssumption DEF Unresolved, attemptFrame, CtlType, callVars
  <2> QED
    BY <1>8, <2>1, <2>2, LockStays, NewSocketType DEF Unresolved, attemptFrame
<1>9. CASE Dial
  <2>1. ExecType'
    BY <1>1, <1>9, MoveType
       DEF Dial, attemptFrame, Jump, Labels, ExchangeLabels
  <2>2. conns + 1 \in Pings
    BY <1>9, ExchangeAssumption DEF Dial, CtlType
  <2>3. CtlType'
    BY <1>9, <2>2, ClientAssumption DEF Dial, attemptFrame, CtlType, callVars
  <2> QED
    BY <1>9, <2>1, <2>2, <2>3, LockStays, NewSocketType DEF Dial, attemptFrame
<1>10. CASE Exhausted
  <2>1. ExecType'
    BY <1>1, <1>10, MoveType DEF Exhausted, mainFrame, Jump, Labels
  <2> QED
    BY <1>10, <2>1, LockStays, ConnStays, CtlStays DEF Exhausted, mainFrame
<1>11. CASE Authenticated
  <2>1. \E l \in Labels : Goto(Main, l)
    BY <1>11 DEF Authenticated, Jump, Labels
  <2>2. ExecType'
    BY <1>1, <1>11, <2>1, MoveType DEF Authenticated, mainFrame
  <2> QED
    BY <1>11, <2>2, LockStays, ConnStays, CtlStays DEF Authenticated, mainFrame
<1>12. CASE Spawn
  <2>1. pc' \in [Threads -> Labels]
    BY <1>12, GotoLabel DEF Spawn, Jump, Labels, ExecType, CtlType
  <2>2. phase' \in {"auth", "cmd", "close"} /\ ping_tid' \in Threads
    BY <1>1, <1>12 DEF Spawn, CtlType
  <2>3. ExecType'
    BY <1>12, <2>1, <2>2, LocalsType DEF Spawn, ExecType
  <2>4. CtlType'
    BY <1>12, <2>2 DEF Spawn, CtlType, callVars
  <2> QED
    BY <1>12, <2>3, <2>4, LockStays, ConnStays DEF Spawn
<1>13. CASE Authed
  <2>1. \E l \in Labels : Goto(Main, l)
    BY <1>13 DEF Authed, Leave, Jump, Labels
  <2>2. ExecType'
    BY <1>1, <1>13, <2>1, MoveType DEF Authed
  <2>3. CtlType'
    BY <1>13, ClientAssumption DEF Authed, Leave, CtlType, Err
  <2> QED
    BY <1>13, <2>2, <2>3, LockStays, ConnStays DEF Authed
<1>14. CASE Stop
  <2>1. ExecType'
    BY <1>1, <1>14, MoveType DEF Stop, Jump, Labels
  <2>2. CtlType'
    BY <1>14 DEF Stop, CtlType, callVars
  <2> QED
    BY <1>14, <2>1, <2>2, LockStays, ConnStays DEF Stop
<1>15. CASE Join
  <2>1. ExecType'
    BY <1>1, <1>15, MoveType DEF Join, Jump, Labels, ExchangeLabels
  <2> QED
    BY <1>15, <2>1, LockStays, ConnStays, CtlStays DEF Join
<1>16. CASE ClosingReply
  <2>1. ExecType'
    BY <1>1, <1>16, MoveType DEF ClosingReply, Jump, Labels
  <2> QED
    BY <1>16, <2>1, LockStays, ConnStays, CtlStays DEF ClosingReply
<1>17. CASE Shut
  <2>1. ExecType'
    BY <1>1, <1>17, MoveType DEF Shut, Jump, Labels
  <2>2. open' \in BOOLEAN /\ up' \in BOOLEAN
    BY <1>17 DEF Shut, ConnType
  <2>3. ConnType'
    BY <1>17, <2>2 DEF Shut, ConnType
  <2> QED
    BY <1>17, <2>1, <2>3, LockStays, CtlStays DEF Shut
<1> QED
  BY <1>2, <1>3, <1>4, <1>5, <1>6, <1>7, <1>8, <1>9, <1>10, <1>11, <1>12,
     <1>13, <1>14, <1>15, <1>16, <1>17 DEF Session

LEMMA PingType ==
  ASSUME TypeOK, NEW g \in Pings, PingStep(g)
  PROVE  TypeOK'
<1> USE ThreadFacts DEF TypeOK
<1>1. g \in Threads /\ err[g] \in Err /\ last_err \in Err
      /\ phase \in {"auth", "cmd", "close"}
  BY DEF ExecType
<1>2. CASE PTest(g)
  <2>1. \E l \in Labels : Goto(g, l)
    BY <1>2 DEF PTest, Labels
  <2>2. ExecType'
    BY <1>1, <1>2, <2>1, MoveType DEF PTest
  <2>3. CtlType'
    BY <1>2, ClientAssumption DEF PTest, CtlType, callVars, sessVars
  <2> QED
    BY <1>2, <2>2, <2>3, LockStays, ConnStays DEF PTest
<1>3. CASE PLock(g)
  <2>1. ExecType'
    BY <1>1, <1>3, MoveType
       DEF PLock, pingFrame, locals, Labels, ExchangeLabels
  <2>2. LockType'
    BY <1>1, <1>3 DEF PLock, LockType
  <2> QED
    BY <1>3, <2>1, <2>2, ConnStays, CtlStays DEF PLock, pingFrame
<1>4. CASE PGot(g)
  <2>1. ExecType'
    BY <1>1, <1>4, MoveType DEF PGot, pingFrame, locals, Labels
  <2> QED
    BY <1>4, <2>1, LockStays, ConnStays, CtlStays DEF PGot, pingFrame
<1>5. CASE PUnlock(g)
  <2>1. ExecType'
    BY <1>1, <1>5, MoveType DEF PUnlock, pingFrame, Labels
  <2> QED
    BY <1>1, <1>5, <2>1, UnlockType, ConnStays, CtlStays DEF PUnlock, pingFrame
<1>6. CASE PSleep(g) \/ Die(g)
  <2>1. \E l \in Labels : Goto(g, l)
    BY <1>6 DEF PSleep, Die, Labels
  <2>2. ExecType'
    BY <1>1, <1>6, <2>1, MoveType DEF PSleep, Die, pingFrame, locals
  <2> QED
    BY <1>6, <2>2, LockStays, ConnStays, CtlStays DEF PSleep, Die, pingFrame
<1>7. CASE Transfer(g) /\ UNCHANGED ctlVars
  BY <1>1, <1>7, TransferType, CtlStays
<1> QED
  BY <1>2, <1>3, <1>4, <1>5, <1>6, <1>7 DEF PingStep

LEMMA StutterType == ASSUME TypeOK, UNCHANGED vars PROVE TypeOK'
<1>1. ExecType'
  BY DEF TypeOK, ExecType, vars, xVars, execVars
<1> QED
  BY <1>1, LockStays, ConnStays, CtlStays DEF TypeOK, vars, xVars

LEMMA StepType == TypeOK /\ [Next]_vars => TypeOK'
<1> SUFFICES ASSUME TypeOK, [Next]_vars PROVE TypeOK'
  OBVIOUS
<1>1. CASE Transfer(Main) /\ UNCHANGED ctlVars
  BY <1>1, ThreadFacts, TransferType, CtlStays DEF TypeOK
<1>2. CASE Server /\ UNCHANGED ctlVars
  BY <1>2, ServerType, CtlStays DEF TypeOK
<1> QED
  BY <1>1, <1>2, CommandType, SessionType, PingType, StutterType
     DEF Next, MainStep

\* Every variable keeps a value of its kind, whatever the bounds.
THEOREM TypeCorrect == Spec => []TypeOK
BY InitType, StepType, PTL DEF Spec

-----------------------------------------------------------------------------
(* The mutex: LockInv is inductive.                                        *)

LEMMA TransferMove ==
  ASSUME NEW t \in Threads, Transfer(t)
  PROVE  /\ UNCHANGED <<lock, unguarded, cancelled, phase>>
         /\ pc[t] \in ExchangeLabels /\ ~cancelled[t]
         /\ \/ \E l \in ExchangeLabels \cup {SendFailed(t), RecvFailed(t)} :
                 Goto(t, l)
            \/ Goto(Main, "crash")
            \/ UNCHANGED pc
<1> USE DEF ExchangeLabels, lockVars, readFrame
<1>1. CASE Send(t)
  BY <1>1 DEF Send
<1>2. CASE Poll(t)
  BY <1>2 DEF Poll
<1>3. CASE ReadLen(t)
  BY <1>3 DEF ReadLen, ReadEof, Torn
<1>4. CASE ReadBody(t)
  BY <1>4 DEF ReadBody, ReadEof, Torn
<1>5. CASE Spin(t)
  BY <1>5 DEF Spin, ReadEof
<1> QED
  BY <1>1, <1>2, <1>3, <1>4, <1>5 DEF Transfer

\* A step of a ping thread that is running, of which main at most dies.
LEMMA PingMove ==
  ASSUME TypeOK, LockInv, NEW g \in Pings,
         UNCHANGED <<phase, cancelled, ping_tid, conns>>,
         pc[g] \notin {"none", "dead"},
         \A t \in Threads \ {g, Main} : pc'[t] = pc[t],
         pc'[Main] \in {pc[Main], "crash"}
  PROVE  PhaseInv' /\ AloneInv' /\ SoleLivePing'
<1>1. \A h \in Pings : Live(h)' => Live(h)
  BY ThreadFacts DEF Live
<1>2. Alone' => Alone
  BY DEF Alone
<1>3. PhaseInv'
  BY DEF LockInv, PhaseInv
<1> QED
  BY <1>1, <1>2, <1>3 DEF LockInv, AloneInv, SoleLivePing

\* A step of main alone that ends neither in close nor in connect.
LEMMA MainMove ==
  ASSUME TypeOK, LockInv, NEW l \in Labels \ {"close", "connect"},
         UNCHANGED <<phase, cancelled, ping_tid, conns>>,
         Goto(Main, l) \/ UNCHANGED pc
  PROVE  /\ SoleLivePing' /\ AloneInv' /\ pc'[Main] \in {l, pc[Main]}
         /\ \A g \in Pings : pc'[g] = pc[g] /\ PingOwns(g)' = PingOwns(g)
<1>1. pc'[Main] \in {l, pc[Main]}
      /\ \A g \in Pings : pc'[g] = pc[g]
  BY ThreadFacts DEF Goto, TypeOK, ExecType
<1>2. \A g \in Pings : Live(g)' = Live(g) /\ PingOwns(g)' = PingOwns(g)
  BY <1>1 DEF Live, PingOwns
<1>3. Alone' => Alone
  BY <1>1 DEF Alone
<1> QED
  BY <1>1, <1>2, <1>3 DEF LockInv, AloneInv, SoleLivePing

LEMMA MainTransfer ==
  ASSUME TypeOK, LockInv, Transfer(Main), UNCHANGED ctlVars
  PROVE  LockInv'
<1> DEFINE L == ExchangeLabels \cup {SendFailed(Main), RecvFailed(Main), "crash"}
<1>1. PICK l \in L : Goto(Main, l) \/ UNCHANGED pc
  BY ThreadFacts, TransferMove
<1>2. l \in Labels \ {"close", "connect"}
      /\ (phase = "auth" => l \in ExchangeLabels \cup {"attempt", "failed", "crash"})
      /\ (phase = "cmd"  => l \in ExchangeLabels \cup {"release", "failed", "crash"})
      /\ (phase = "close" => l \in ExchangeLabels \cup {"shut", "crash"})
  BY DEF SendFailed, RecvFailed, Labels, ExchangeLabels, TypeOK, ExecType
<1>3. UNCHANGED <<lock, unguarded, cancelled, phase, op, ping_tid, conns>>
      /\ pc[Main] \in ExchangeLabels
  BY ThreadFacts, TransferMove DEF ctlVars, callVars, sessVars
<1>4. /\ SoleLivePing' /\ AloneInv' /\ pc'[Main] \in {l, pc[Main]}
      /\ \A g \in Pings : PingOwns(g)' = PingOwns(g)
  <2> HIDE DEF L
  <2> QED
    BY <1>1, <1>2, <1>3, MainMove
<1>5. PhaseInv'
  BY <1>2, <1>3, <1>4 DEF PhaseInv, LockInv, TypeOK, ExecType
<1>6. MutexInv'
  BY <1>3, <1>4 DEF MutexInv, LockInv, MainOwns
<1>7. DelInv'
  BY <1>3, <1>4 DEF DelInv, LockInv
<1> QED
  BY <1>4, <1>5, <1>6, <1>7 DEF LockInv

LEMMA PingTransfer ==
  ASSUME TypeOK, LockInv, NEW g \in Pings, Transfer(g), UNCHANGED ctlVars
  PROVE  LockInv'
<1> DEFINE L == ExchangeLabels \cup {"punlock"}
<1>1. /\ UNCHANGED <<lock, unguarded, cancelled, phase, op, ping_tid, conns>>
      /\ pc[g] \in ExchangeLabels
      /\ (\E l \in L : Goto(g, l)) \/ Goto(Main, "crash") \/ UNCHANGED pc
  BY ThreadFacts, TransferMove
     DEF ctlVars, callVars, sessVars, SendFailed, RecvFailed
<1>2. /\ \A t \in Threads \ {g, Main} : pc'[t] = pc[t]
      /\ pc'[Main] \in {pc[Main], "crash"}
      /\ pc'[g] \in L
  BY <1>1, ThreadFacts DEF Goto, TypeOK, ExecType
<1>3. pc[g] \notin {"none", "dead"}
  BY <1>1 DEF ExchangeLabels
<1>4. PhaseInv' /\ AloneInv' /\ SoleLivePing'
  <2> HIDE DEF L
  <2> QED
    BY <1>1, <1>2, <1>3, PingMove
<1>5. MainOwns' => MainOwns
  BY <1>1, <1>2 DEF MainOwns, ExchangeLabels
<1>6. \A h \in Pings : PingOwns(h)' => PingOwns(h)
  BY <1>1, <1>2, ThreadFacts DEF PingOwns
<1>7. MutexInv'
  BY <1>1, <1>5, <1>6 DEF MutexInv, LockInv
<1>8. DelInv'
  BY <1>1, <1>2 DEF DelInv, LockInv, ExchangeLabels
<1> QED
  BY <1>4, <1>7, <1>8 DEF LockInv

LEMMA PingLock ==
  ASSUME TypeOK, LockInv, NEW g \in Pings, PingStep(g)
  PROVE  LockInv'
<1>1. CASE Transfer(g) /\ UNCHANGED ctlVars
  BY <1>1, PingTransfer
<1>2. CASE ~(Transfer(g) /\ UNCHANGED ctlVars)
  <2>1. /\ UNCHANGED <<phase, cancelled, ping_tid, conns, op>>
        /\ pc[g] \notin {"none", "dead"}
        /\ \E l \in {"dead", "plock", "sleep", "send", "punlock", "test"} :
             Goto(g, l)
    BY <1>2 DEF PingStep, PTest, PLock, PGot, PUnlock, PSleep, Die, pingFrame,
                CancelPoints, ctlVars, callVars, sessVars
  <2>2. /\ pc'[Main] = pc[Main]
        /\ \A t \in Threads \ {g, Main} : pc'[t] = pc[t]
    BY <2>1, ThreadFacts DEF Goto, TypeOK, ExecType
  <2>3. PhaseInv' /\ AloneInv' /\ SoleLivePing'
    BY <2>1, <2>2, PingMove
  <2>4. MainOwns' = MainOwns
        /\ \A h \in Pings \ {g} : PingOwns(h)' = PingOwns(h)
    BY <2>1, <2>2, ThreadFacts DEF MainOwns, PingOwns
  <2>5. MutexInv' /\ (unguarded => unguarded')
    <3>1. CASE PTest(g) \/ PSleep(g) \/ Die(g)
      <4>1. pc'[g] \in {"dead", "plock", "sleep", "test"}
        BY <3>1, ThreadFacts
           DEF PTest, PSleep, Die, Goto, TypeOK, ExecType
      <4>2. UNCHANGED lockVars /\ ~PingOwns(g)'
        BY <3>1, <4>1 DEF PTest, PSleep, Die, PingOwns, ExchangeLabels
      <4> QED
        BY <2>4, <4>2 DEF MutexInv, LockInv, lockVars
    <3>2. CASE PLock(g)
      <4>1. lock = None /\ lock' = g /\ UNCHANGED unguarded
        BY <3>2 DEF PLock
      <4> QED
        BY <2>4, <4>1, ThreadFacts DEF MutexInv, LockInv
    <3>3. CASE PGot(g)
      <4>1. UNCHANGED lockVars /\ (PingOwns(g)' => PingOwns(g))
        BY <2>1, <3>3 DEF PGot, PingOwns, ExchangeLabels
      <4> QED
        BY <2>4, <4>1 DEF MutexInv, LockInv, lockVars
    <3>4. CASE PUnlock(g)
      <4>1. pc'[g] = "sleep" /\ Unlock(g)
        BY <3>4, ThreadFacts DEF PUnlock, Goto, TypeOK, ExecType
      <4>2. ~PingOwns(g)'
        BY <4>1 DEF PingOwns, ExchangeLabels
      <4> QED
        BY <2>4, <4>1, <4>2, ThreadFacts DEF MutexInv, LockInv, Unlock
    <3> QED
      BY <1>2, <3>1, <3>2, <3>3, <3>4 DEF PingStep
  <2>6. DelInv'
    BY <2>1, <2>2, <2>5 DEF DelInv, LockInv
  <2> QED
    BY <2>3, <2>5, <2>6 DEF LockInv
<1> QED
  BY <1>1, <1>2

\* What a step of main does to the mutex, in five kinds.
LEMMA CommandLock ==
  ASSUME TypeOK, LockInv, Command
  PROVE  LockInv'
<1> DEFINE Calm == {"stop", "lock", "check", "idle", "ret", "decode", "release",
                    "crash", "trylock"}
<1>1. UNCHANGED <<phase, cancelled, ping_tid, conns>>
  BY DEF Command, Enter, EndOfInput, Acquire, Failed, Received, Decode,
         Undecodable, Release, MkdirStep, GetStep, Completed, Return, Check,
         returnFrame, ctlVars, sessVars
<1>2. CASE Acquire
  <2>1. Goto(Main, "send") /\ "send" \in Labels \ {"close", "connect"}
        /\ At("lock") /\ UNCHANGED op
    BY <1>2 DEF Acquire, Jump, Labels, ExchangeLabels, ctlVars, callVars
  <2>2. /\ SoleLivePing' /\ AloneInv' /\ pc'[Main] = "send"
        /\ \A g \in Pings : PingOwns(g)' = PingOwns(g)
    BY <1>1, <2>1, MainMove, ThreadFacts DEF Goto, TypeOK, ExecType
  <2>3. PhaseInv'
    BY <1>1, <2>1, <2>2 DEF PhaseInv, LockInv, At, ExchangeLabels, TypeOK, ExecType
  <2>4. MutexInv' /\ DelInv'
    <3>1. CASE op = "del"
      BY <1>2, <2>1, <3>1 DEF Acquire, MutexInv, DelInv
    <3>2. CASE op # "del"
      BY <1>2, <2>1, <2>2, <3>2, ThreadFacts
         DEF Acquire, MutexInv, DelInv, LockInv, MainOwns
    <3> QED
      BY <3>1, <3>2
  <2> QED
    BY <2>2, <2>3, <2>4 DEF LockInv
<1>3. CASE Failed
  <2>1. PICK l \in {"release", "spawn", "attempt"} :
          Goto(Main, l) /\ (phase = "cmd" <=> l = "release")
    BY <1>3 DEF Failed, Jump
  <2>2. At("failed") /\ UNCHANGED <<lock, unguarded, op>>
    BY <1>3 DEF Failed, lockVars, ctlVars, callVars
  <2>3. /\ SoleLivePing' /\ AloneInv' /\ pc'[Main] = l
        /\ \A g \in Pings : PingOwns(g)' = PingOwns(g)
    BY <1>1, <2>1, MainMove, ThreadFacts
       DEF Goto, TypeOK, ExecType, Labels
  <2>4. PhaseInv'
    BY <1>1, <2>1, <2>2, <2>3
       DEF PhaseInv, LockInv, At, ExchangeLabels, TypeOK, ExecType
  <2>5. MutexInv' /\ DelInv'
    BY <1>1, <2>1, <2>2, <2>3
       DEF MutexInv, DelInv, LockInv, MainOwns, ExchangeLabels
  <2> QED
    BY <2>3, <2>4, <2>5 DEF LockInv
<1>4. CASE ~Acquire /\ ~Failed
  <2>1. /\ phase = "cmd" \/ At("idle") \/ At("ret") \/ At("check") \/ At("decode")
             \/ At("release")
        /\ \E l \in Calm : Goto(Main, l)
        /\ UNCHANGED lockVars \/ (Unlock(Main) /\ (At("got") \/ At("release")))
    BY <1>4 DEF Command, Enter, EndOfInput, Received, Decode, Undecodable,
                Release, MkdirStep, GetStep, Completed, Return, Check, Leave,
                returnFrame, Jump
  <2>2. PICK l \in Calm : Goto(Main, l)
    BY <2>1
  <2>3. /\ SoleLivePing' /\ AloneInv' /\ pc'[Main] = l
        /\ \A g \in Pings : PingOwns(g)' = PingOwns(g)
    BY <1>1, <2>2, MainMove, ThreadFacts DEF Goto, TypeOK, ExecType, Labels
  <2>4. phase = "cmd"
    BY <2>1 DEF PhaseInv, LockInv, At, ExchangeLabels, TypeOK, ExecType
  <2>5. PhaseInv' /\ DelInv'
    BY <1>1, <2>3, <2>4 DEF PhaseInv, DelInv, ExchangeLabels
  <2>6. ~MainOwns'
    BY <2>3 DEF MainOwns, ExchangeLabels
  <2>7. MutexInv'
    <3>1. CASE UNCHANGED lockVars
      BY <2>3, <2>6, <3>1 DEF MutexInv, LockInv, lockVars
    <3>2. CASE Unlock(Main)
      BY <2>3, <2>6, <3>2, ThreadFacts DEF MutexInv, LockInv, Unlock
    <3> QED
      BY <2>1, <3>1, <3>2
  <2> QED
    BY <2>3, <2>5, <2>7 DEF LockInv
<1> QED
  BY <1>2, <1>3, <1>4

\* Only Spawn starts a thread, and only when main is alone.
LEMMA SessionLock ==
  ASSUME TypeOK, LockInv, Session
  PROVE  LockInv'
<1> USE DEF At
<1>1. CASE Stop \/ Authed \/ Exhausted \/ Authenticated \/ ClosingReply \/ Shut
  <2> DEFINE L == {"join", "idle", "exit", "spawn", "attempt", "crash", "shut",
                   "done", "stop"}
  <2>1. /\ UNCHANGED <<lock, unguarded, phase, cancelled, ping_tid, conns>>
        /\ \E l \in L : Goto(Main, l)
    BY <1>1 DEF Stop, Authed, Leave, Exhausted, Authenticated, ClosingReply,
                Shut, Jump, lockVars, mainFrame, ctlVars, sessVars
  <2>2. PICK l \in L : Goto(Main, l)
    BY <2>1
  <2>3. /\ SoleLivePing' /\ AloneInv' /\ pc'[Main] = l
        /\ \A g \in Pings : PingOwns(g)' = PingOwns(g)
    BY <2>1, <2>2, MainMove, ThreadFacts DEF Goto, TypeOK, ExecType, Labels
  <2>4. PhaseInv'
    <3>1. CASE Stop \/ Authed
      <4>1. l \in {"join", "idle", "stop"} /\ phase = "cmd"
        BY <2>2, <3>1, ThreadFacts
           DEF Stop, Authed, Leave, Jump, Goto, LockInv, PhaseInv, TypeOK,
               ExecType, ExchangeLabels
      <4> QED
        BY <2>1, <2>3, <4>1 DEF PhaseInv
    <3>2. CASE Exhausted \/ Authenticated
      <4>1. l \in {"exit", "spawn", "attempt", "crash"} /\ phase = "auth"
        BY <2>2, <3>2, ThreadFacts
           DEF Exhausted, Authenticated, Jump, Goto, LockInv, PhaseInv, TypeOK,
               ExecType, ExchangeLabels
      <4> QED
        BY <2>1, <2>3, <4>1 DEF PhaseInv
    <3>3. CASE ClosingReply \/ Shut
      <4>1. l \in {"shut", "done"} /\ phase = "close"
        BY <2>2, <3>3, ThreadFacts
           DEF ClosingReply, Shut, Jump, Goto, LockInv, PhaseInv, TypeOK,
               ExecType, ExchangeLabels
      <4> QED
        BY <2>1, <2>3, <4>1 DEF PhaseInv
    <3> QED
      BY <1>1, <3>1, <3>2, <3>3
  <2>5. ~MainOwns' /\ DelInv'
    BY <2>3 DEF MainOwns, DelInv, ExchangeLabels
  <2> QED
    BY <2>1, <2>3, <2>4, <2>5 DEF LockInv, MutexInv
<1>2. CASE Refused
  <2>1. UNCHANGED <<lock, unguarded, phase, cancelled, ping_tid, conns, pc, op>>
    BY <1>2 DEF Refused, attemptFrame, lockVars, callVars
  <2> QED
    BY <2>1 DEF LockInv, PhaseInv, AloneInv, Alone, SoleLivePing, Live, MutexInv,
                MainOwns, PingOwns, DelInv
<1>3. CASE TryLock \/ ForceUnlock
  <2>1. PICK l \in {"forceunlock", "cancel"} : Goto(Main, l)
    BY <1>3 DEF TryLock, ForceUnlock, Jump
  <2>2. UNCHANGED <<phase, cancelled, ping_tid, conns>> /\ phase = "cmd"
    BY <1>3 DEF TryLock, ForceUnlock, mainFrame, ctlVars, sessVars, LockInv,
                PhaseInv, TypeOK, ExecType, ExchangeLabels
  <2>3. /\ SoleLivePing' /\ AloneInv' /\ pc'[Main] = l
        /\ \A g \in Pings : PingOwns(g)' = PingOwns(g)
    BY <2>1, <2>2, MainMove, ThreadFacts DEF Goto, TypeOK, ExecType, Labels
  <2>4. PhaseInv' /\ ~MainOwns' /\ DelInv'
    BY <2>2, <2>3 DEF PhaseInv, MainOwns, DelInv, ExchangeLabels
  <2>5. MutexInv'
    <3>1. CASE TryLock
      <4>1. lock' \in {lock, Main} /\ (lock # None => lock' = lock)
            /\ UNCHANGED unguarded
        BY <3>1 DEF TryLock
      <4> QED
        BY <2>3, <2>4, <4>1, ThreadFacts DEF MutexInv, LockInv
    <3>2. CASE ForceUnlock
      BY <2>3, <2>4, <3>2, ThreadFacts DEF ForceUnlock, MutexInv, LockInv, Unlock
    <3> QED
      BY <1>3, <3>1, <3>2
  <2> QED
    BY <2>3, <2>4, <2>5 DEF LockInv
<1>4. CASE Cancel
  <2>1. /\ UNCHANGED <<lock, unguarded, phase, ping_tid, conns>> /\ phase = "cmd"
        /\ pc'[Main] = "close" /\ \A g \in Pings : pc'[g] = pc[g]
    BY <1>4, ThreadFacts
       DEF Cancel, Jump, Goto, mainFrame, ctlVars, sessVars, lockVars, LockInv,
           PhaseInv, TypeOK, ExecType, ExchangeLabels
  <2>2. /\ \A g \in Pings : cancelled[g] => cancelled'[g]
        /\ ping_tid \in Pings => cancelled'[ping_tid]
    BY <1>4, ThreadFacts DEF Cancel
  <2>3. \A g \in Pings : ~Live(g)' /\ (PingOwns(g)' => PingOwns(g))
    BY <2>1, <2>2 DEF Live, PingOwns, LockInv, SoleLivePing
  <2> QED
    BY <2>1, <2>3 DEF LockInv, PhaseInv, AloneInv, SoleLivePing, MutexInv,
                      MainOwns, DelInv, ExchangeLabels
<1>5. CASE Close \/ Connect \/ Unresolved \/ Dial
  <2>1. /\ UNCHANGED <<cancelled, ping_tid, lock>>
        /\ \A g \in Pings : pc'[g] = pc[g]
    BY <1>5, ThreadFacts
       DEF Close, Connect, Unresolved, Dial, attemptFrame, Jump, Goto, lockVars,
           TypeOK, ExecType
  <2>2. Alone
    BY <1>5 DEF Close, Connect, Unresolved, Dial, Alone, LockInv, PhaseInv,
                ExchangeLabels
  <2>3. \A g \in Pings : ~Live(g)'
    BY <2>1, <2>2 DEF LockInv, AloneInv, Live
  <2>4. \A g \in Pings : ~PingOwns(g)'
    BY <2>3 DEF PingOwns, Live, ExchangeLabels
  <2>5. PhaseInv'
    <3>1. CASE Close
      <4>1. pc'[Main] = "connect" /\ phase' = "cmd"
        BY <3>1, ThreadFacts DEF Close, Jump, Goto, TypeOK, ExecType, LockInv,
                                 PhaseInv, ExchangeLabels
      <4> QED
        BY <4>1 DEF PhaseInv
    <3>2. CASE Connect
      <4>1. pc'[Main] = "attempt" /\ phase' = "auth"
        BY <3>2, ThreadFacts DEF Connect, Jump, Goto, TypeOK, ExecType
      <4> QED
        BY <4>1 DEF PhaseInv
    <3>3. CASE Unresolved \/ Dial
      <4>1. pc'[Main] = "send" /\ phase' = "auth"
        BY <3>3, ThreadFacts DEF Unresolved, Dial, attemptFrame, Jump, Goto,
                  TypeOK, ExecType, LockInv, PhaseInv, ExchangeLabels
      <4> QED
        BY <4>1 DEF PhaseInv, ExchangeLabels
    <3> QED
      BY <1>5, <3>1, <3>2, <3>3
  <2>6. ~MainOwns' /\ DelInv'
    <3>1. phase' = "auth" \/ pc'[Main] = "connect"
      BY <1>5, ThreadFacts
         DEF Close, Connect, Unresolved, Dial, attemptFrame, Jump, Goto, TypeOK,
             ExecType, LockInv, PhaseInv, ExchangeLabels
    <3> QED
      BY <3>1 DEF MainOwns, DelInv, ExchangeLabels
  <2> QED
    BY <2>3, <2>4, <2>5, <2>6 DEF LockInv, AloneInv, SoleLivePing, MutexInv
<1>6. CASE Spawn
  <2>1. /\ UNCHANGED <<cancelled, lock, unguarded, conns>> /\ phase = "auth"
    BY <1>6 DEF Spawn, lockVars, LockInv, PhaseInv, TypeOK, ExecType,
                ExchangeLabels
  <2>2. \A g \in Pings : ~Live(g)
    BY <2>1 DEF LockInv, AloneInv, Alone
  <2>3. \A g \in Pings : PingOwns(g) => Live(g)
    BY DEF PingOwns, Live, ExchangeLabels
  <2>4. CASE pc' = [pc EXCEPT ![conns] = "test", ![Main] = "authed"]
             /\ ping_tid' = conns /\ phase' = "cmd"
    <3>1. /\ pc'[Main] = "authed"
          /\ \A g \in Pings \ {conns} : pc'[g] = pc[g]
          /\ conns \in Pings => pc'[conns] = "test"
      BY <2>4, ThreadFacts DEF TypeOK, ExecType, CtlType
    <3>2. \A g \in Pings : Live(g)' => g = conns
      BY <2>1, <2>2, <3>1 DEF Live
    <3>3. \A g \in Pings : ~PingOwns(g)'
      BY <2>1, <2>2, <2>3, <3>1 DEF PingOwns, ExchangeLabels
    <3> QED
      BY <2>1, <2>4, <3>1, <3>2, <3>3
         DEF LockInv, PhaseInv, AloneInv, Alone, SoleLivePing, MutexInv,
             MainOwns, DelInv, ExchangeLabels
  <2>5. CASE Goto(Main, "exit") /\ UNCHANGED <<ping_tid, phase>>
    <3>1. pc'[Main] = "exit" /\ \A g \in Pings : pc'[g] = pc[g]
      BY <2>5, ThreadFacts DEF Goto, TypeOK, ExecType
    <3>2. \A g \in Pings : ~Live(g)' /\ ~PingOwns(g)'
      BY <2>1, <2>2, <2>3, <3>1 DEF Live, PingOwns
    <3> QED
      BY <2>1, <2>5, <3>1, <3>2
         DEF LockInv, PhaseInv, AloneInv, SoleLivePing, MutexInv, MainOwns,
             DelInv, ExchangeLabels
  <2> QED
    BY <1>6, <2>4, <2>5 DEF Spawn, Jump
<1>7. CASE Join
  <2>1. /\ UNCHANGED <<lock, unguarded, cancelled, ping_tid, conns>>
        /\ pc[ping_tid] = "dead" /\ phase' = "close" /\ pc'[Main] = "send"
        /\ \A g \in Pings : pc'[g] = pc[g]
    BY <1>7, ThreadFacts DEF Join, Jump, Goto, lockVars, ctlVars, sessVars,
                             TypeOK, ExecType
  <2>2. \A g \in Pings : ~Live(g)'
    BY <2>1 DEF Live, LockInv, SoleLivePing
  <2>3. \A g \in Pings : ~PingOwns(g)'
    BY <2>2 DEF PingOwns, Live, ExchangeLabels
  <2> QED
    BY <2>1, <2>2, <2>3
       DEF LockInv, PhaseInv, AloneInv, SoleLivePing, MutexInv, MainOwns, DelInv,
           ExchangeLabels
<1> QED
  BY <1>1, <1>2, <1>3, <1>4, <1>5, <1>6, <1>7 DEF Session

LEMMA InitLock == Init => LockInv
<1> SUFFICES ASSUME Init PROVE LockInv
  OBVIOUS
<1>1. pc[Main] = "connect" /\ \A g \in Pings : pc[g] = "none"
  BY ThreadFacts DEF Init
<1> QED
  BY <1>1 DEF Init, LockInv, PhaseInv, AloneInv, SoleLivePing, Live, MutexInv,
              MainOwns, PingOwns, DelInv, ExchangeLabels

LEMMA StepLock == TypeOK /\ LockInv /\ [Next]_vars => LockInv'
<1> SUFFICES ASSUME TypeOK, LockInv, [Next]_vars PROVE LockInv'
  OBVIOUS
<1>1. ASSUME UNCHANGED <<lock, unguarded, pc, cancelled, phase, op, ping_tid, conns>>
      PROVE  LockInv'
  BY <1>1 DEF LockInv, PhaseInv, AloneInv, Alone, SoleLivePing, Live, MutexInv,
              MainOwns, PingOwns, DelInv
<1>2. CASE Server /\ UNCHANGED ctlVars
  BY <1>1, <1>2 DEF Server, Segment, Reply, PeerClose, lockVars, execVars,
                    ctlVars, callVars, sessVars
<1>3. CASE UNCHANGED vars
  BY <1>1, <1>3 DEF vars, xVars, lockVars, execVars, ctlVars, callVars, sessVars
<1> QED
  BY <1>2, <1>3, MainTransfer, CommandLock, SessionLock, PingLock
     DEF Next, MainStep

\* Without a loss of the mutex two threads are never in exchanges at once.
LEMMA Exclusive ==
  ASSUME TypeOK, LockInv, ~unguarded, NEW t \in Threads, NEW u \in Threads, t # u,
         ~cancelled[t], pc[t] \in ExchangeLabels,
         ~cancelled[u], pc[u] \in ExchangeLabels
  PROVE  FALSE
<1>1. ASSUME NEW g \in Pings, NEW v \in Threads, v # g,
             ~cancelled[g], pc[g] \in ExchangeLabels,
             ~cancelled[v], pc[v] \in ExchangeLabels
      PROVE  FALSE
  <2>1. PingOwns(g) /\ Live(g) /\ Live(v)
    BY <1>1 DEF PingOwns, Live, ExchangeLabels
  <2>2. CASE v \in Pings
    BY <1>1, <2>1, <2>2 DEF LockInv, SoleLivePing
  <2>3. CASE v = Main
    <3>1. phase = "cmd"
      BY <2>1 DEF LockInv, AloneInv, Alone
    <3>2. CASE op = "del"
      BY <1>1, <2>3, <3>1, <3>2 DEF LockInv, DelInv
    <3>3. CASE op # "del"
      BY <1>1, <2>1, <2>3, <3>1, <3>3, ThreadFacts DEF LockInv, MutexInv, MainOwns
    <3> QED BY <3>2, <3>3
  <2> QED BY <2>2, <2>3, ThreadFacts
<1> QED BY <1>1, ThreadFacts

\* At most the ping thread of the latest connection goes on (SoleLivePing),
\* and exchanges on a connection overlap only after the mutex was freed for
\* another thread or left out (ExchangeExclusive).
THEOREM Exclusion == Spec => [](SoleLivePing /\ ExchangeExclusive)
<1>1. TypeOK /\ LockInv => SoleLivePing /\ ExchangeExclusive
  BY Exclusive DEF LockInv, ExchangeExclusive, InExchange, ExchangeLabels
<1> QED
  BY <1>1, InitType, InitLock, StepType, StepLock, PTL DEF Spec

\* Of the ping threads that were started and not cancelled only the latest can
\* be running: reset_zkclient cancels its predecessor and destroy_client joins it.
THEOREM SolePing == Spec => []SoleLivePing
BY Exclusion, PTL
-----------------------------------------------------------------------------
(* The replies: without a loss of the mutex one thread at a time reads the *)
(* connection, and what is unread goes on where it left off (StreamInv).   *)

(* Facts about sequences.                                                  *)

LEMMA Taken ==
  ASSUME NEW S, NEW s \in Seq(S), s # <<>>
  PROVE  /\ Head(s) \in S /\ Head(s) = s[1] /\ Tail(s) \in Seq(S)
         /\ Len(s) \in Nat \ {0} /\ 1 \in 1..Len(s)
         /\ Len(Tail(s)) = Len(s) - 1
         /\ \A i \in 1..Len(Tail(s)) : i + 1 \in 1..Len(s) /\ Tail(s)[i] = s[i + 1]
OBVIOUS

LEMMA Joined ==
  ASSUME NEW S, NEW a \in Seq(S), NEW b \in Seq(S)
  PROVE  /\ a \o b \in Seq(S) /\ Len(a \o b) = Len(a) + Len(b)
         /\ Len(a) \in Nat /\ Len(b) \in Nat
         /\ \A i \in 1..Len(a) : (a \o b)[i] = a[i]
         /\ \A i \in 1..Len(b) : (a \o b)[Len(a) + i] = b[i]
OBVIOUS

LEMMA Nested ==
  ASSUME NEW S, NEW a \in Seq(S), NEW b \in Seq(S), NEW c \in Seq(S)
  PROVE  (a \o b) \o c = a \o (b \o c)
<1>1. /\ (a \o b) \o c \in Seq(S) /\ a \o (b \o c) \in Seq(S)
      /\ Len((a \o b) \o c) = Len(a) + Len(b) + Len(c)
      /\ Len(a \o (b \o c)) = Len(a) + Len(b) + Len(c)
  OBVIOUS
<1>2. ASSUME NEW i \in 1..(Len(a) + Len(b) + Len(c))
      PROVE ((a \o b) \o c)[i] = (a \o (b \o c))[i]
  OBVIOUS
<1> QED BY <1>1, <1>2

LEMMA Two ==
  ASSUME NEW S, NEW a \in Seq(S), NEW b \in Seq(S), Len(a) = 1, Len(b) = 1
  PROVE  /\ a \o b \in Seq(S) /\ Len(a \o b) = 2
         /\ (a \o b)[1] = a[1] /\ (a \o b)[2] = b[1]
<1>1. /\ a \o b \in Seq(S) /\ Len(a \o b) = Len(a) + Len(b)
      /\ \A i \in 1..Len(a) : (a \o b)[i] = a[i]
      /\ \A i \in 1..Len(b) : (a \o b)[Len(a) + i] = b[i]
  BY Joined
<1>2. 1 \in 1..Len(a) /\ 1 \in 1..Len(b)
  OBVIOUS
<1>3. (a \o b)[1] = a[1] /\ (a \o b)[Len(a) + 1] = b[1]
  BY <1>1, <1>2
<1> QED BY <1>1, <1>3

LEMMA Singleton ==
  ASSUME NEW S, NEW x \in S
  PROVE  <<x>> \in Seq(S) /\ Len(<<x>>) = 1 /\ <<x>>[1] = x /\ <<x>> # <<>>
OBVIOUS

LEMMA NonEmpty ==
  ASSUME NEW S, NEW s \in Seq(S), Len(s) # 0
  PROVE s # <<>>
OBVIOUS

LEMMA Parity ==
  ASSUME NEW x \in Int, NEW y \in Int
  PROVE  2 * x # 2 * y + 1
OBVIOUS

\* Nobody is there when main makes a connection, ends one or starts a thread.
LEMMA NobodyThere ==
  ASSUME TypeOK, LockInv,
         phase # "cmd" \/ pc[Main] \in {"close", "connect", "attempt", "spawn", "shut"}
  PROVE  \A g \in Pings : ~Live(g)
BY DEF LockInv, PhaseInv, AloneInv, Alone, TypeOK, ExecType, ExchangeLabels

LEMMA SequenceStays ==
  ASSUME UNCHANGED <<up, sent, reqs, inbox, abandoned>>, NEW k \in 0..2
  PROVE  InSequence(k)' <=> InSequence(k)
BY DEF InSequence, Place

\* A step that neither touches the connection nor enters or leaves the part of
\* an exchange that reads it.
LEMMA Unmoved ==
  ASSUME StreamInv, UNCHANGED <<open, up, sent, reqs, inbox, abandoned, shifts>>,
         unguarded => unguarded',
         \A t \in Threads : ~cancelled'[t] /\ pc'[t] \in AfterSend =>
           ~cancelled[t] /\ pc'[t] = pc[t] /\ my'[t] = my[t] /\ got'[t] = got[t],
         NoReader' /\ pc'[Main] \notin {"close", "crash"} =>
           NoReader /\ pc[Main] \notin {"close", "crash"}
  PROVE  StreamInv'
<1>1. \A k \in 0..2 : InSequence(k)' <=> InSequence(k)
  BY SequenceStays
<1>2. ASSUME NEW t \in Threads, InStep, ~cancelled'[t],
             pc'[t] \in AfterSend
      PROVE  open' /\ my'[t] = sent' /\ Progress(t)'
  BY <1>1, <1>2 DEF StreamInv, Progress, InStep
<1> QED BY <1>1, <1>2 DEF StreamInv, InStep

LEMMA StreamCommand ==
  ASSUME TypeOK, LockInv, StreamInv, Command
  PROVE  StreamInv'
<1> DEFINE From == {"idle", "lock", "failed", "got", "decode", "release", "ret", "check"}
           To   == {"check", "lock", "stop", "send", "release", "spawn", "attempt", "decode",
                    "ret", "crash", "idle", "trylock"}
<1>1. /\ pc[Main] \in From /\ \E l \in To : Goto(Main, l)
      /\ UNCHANGED <<connVars, cancelled>>
      /\ Forget(Main) \/ UNCHANGED <<my, got>>
      /\ unguarded' = TRUE \/ UNCHANGED unguarded \/ Unlock(Main)
  BY DEF Command, Enter, EndOfInput, Acquire, Failed, Received, Decode, Undecodable,
         Release, MkdirStep, GetStep, Completed, Return, Check, Leave, returnFrame,
         Jump, At, lockVars
<1>2. /\ pc'[Main] \in To /\ \A g \in Pings : pc'[g] = pc[g]
      /\ \A g \in Pings : my'[g] = my[g] /\ got'[g] = got[g]
  BY <1>1, ThreadFacts DEF Goto, Forget, TypeOK, ExecType
<1>3. unguarded => unguarded'
  BY <1>1 DEF Unlock
<1> QED
  BY <1>1, <1>2, <1>3, ThreadFacts, Unmoved
     DEF connVars, NoReader, AfterSend, ExchangeLabels

LEMMA StreamSession ==
  ASSUME TypeOK, LockInv, StreamInv, Session
  PROVE  StreamInv'
<1> USE DEF At, Jump
<1>1. CASE Close \/ Unresolved \/ Dial \/ Shut
  <2>1. /\ UNCHANGED cancelled /\ \A g \in Pings : pc'[g] = pc[g]
        /\ pc'[Main] \notin AfterSend
    BY <1>1, ThreadFacts DEF Close, Unresolved, Dial, Shut, attemptFrame, Goto,
                             AfterSend, ExchangeLabels, TypeOK, ExecType
  <2>2. \A t \in Threads : ~(~cancelled'[t] /\ pc'[t] \in AfterSend)
    BY <1>1, <2>1, ThreadFacts, NobodyThere
       DEF Close, Unresolved, Dial, Shut, Live, AfterSend, ExchangeLabels
  <2>3. ~open' \/ (inbox' = <<>> /\ reqs' = <<>> /\ sent' = 0 /\ abandoned' = 0)
    BY <1>1 DEF Close, Unresolved, Dial, Shut, NewSocket
  <2>4. inbox' = <<>> /\ reqs' = <<>> /\ sent' = 0 /\ abandoned' = 0 => InSequence(0)'
    BY DEF InSequence
  <2> QED BY <2>2, <2>3, <2>4 DEF StreamInv
<1>2. CASE Spawn
  <2>1. /\ UNCHANGED <<connVars, lockVars, cancelled>> /\ pc[Main] = "spawn"
        /\ pc'[Main] \in {"authed", "exit"}
        /\ \A g \in Pings : pc'[g] \in {pc[g], "test"}
    BY <1>2, ThreadFacts DEF Spawn, Goto, TypeOK, ExecType, CtlType
  <2>2. \A g \in Pings : cancelled[g] \/ pc[g] \notin AfterSend
    BY <2>1, NobodyThere DEF Live, AfterSend, ExchangeLabels
  <2>3. NoReader
    BY <2>1, <2>2, ThreadFacts DEF NoReader, AfterSend, ExchangeLabels
  <2>4. \A t \in Threads : ~(~cancelled'[t] /\ pc'[t] \in AfterSend)
    BY <2>1, <2>2, ThreadFacts DEF AfterSend, ExchangeLabels
  <2> QED BY <2>1, <2>3, <2>4, Unmoved DEF connVars, lockVars
<1>3. CASE ~(Close \/ Unresolved \/ Dial \/ Shut \/ Spawn)
  <2> DEFINE From == {"trylock", "forceunlock", "cancel", "connect", "attempt", "got",
                      "authed", "stop", "join"}
             To   == {"forceunlock", "cancel", "close", "attempt", "exit", "spawn", "crash",
                      "idle", "stop", "join", "send", "shut"}
  <2>1. /\ pc[Main] \in From
        /\ (\E l \in To : Goto(Main, l)) \/ (UNCHANGED pc /\ pc[Main] = "attempt")
        /\ UNCHANGED <<connVars, my, got>>
        /\ UNCHANGED unguarded \/ Unlock(Main)
        /\ UNCHANGED cancelled \/ Cancel
    BY <1>3 DEF Session, TryLock, ForceUnlock, Cancel, Connect, Refused, Exhausted,
                Authenticated, Authed, Stop, Join, ClosingReply, Leave, mainFrame,
                attemptFrame, lockVars
  <2>2. pc'[Main] \in To /\ \A g \in Pings : pc'[g] = pc[g]
    BY <2>1, ThreadFacts DEF Goto, TypeOK, ExecType
  <2>3. unguarded => unguarded'
    BY <2>1 DEF Unlock
  <2>4. /\ \A t \in Threads : cancelled[t] => cancelled'[t]
        /\ UNCHANGED cancelled \/ pc'[Main] = "close"
    BY <2>1, ThreadFacts DEF Cancel, Goto, TypeOK, ExecType
  <2> QED
    BY <2>1, <2>2, <2>3, <2>4, ThreadFacts, Unmoved
       DEF connVars, NoReader, AfterSend, ExchangeLabels
<1> QED BY <1>1, <1>2, <1>3

LEMMA StreamPing ==
  ASSUME TypeOK, LockInv, StreamInv, NEW g \in Pings,
         PTest(g) \/ PLock(g) \/ PGot(g) \/ PUnlock(g) \/ PSleep(g) \/ Die(g)
  PROVE  StreamInv'
<1>1. /\ UNCHANGED <<connVars, cancelled>>
      /\ \E l \in {"dead", "plock", "sleep", "send", "punlock", "test"} : Goto(g, l)
      /\ cancelled[g] \/ pc[g] \in {"test", "plock", "got", "punlock", "sleep"}
      /\ Forget(g) \/ UNCHANGED <<my, got>>
      /\ UNCHANGED unguarded \/ Unlock(g)
  BY DEF PTest, PLock, PGot, PUnlock, PSleep, Die, pingFrame, locals, lockVars
<1>2. /\ pc'[g] \notin AfterSend
      /\ \A t \in Threads \ {g} : pc'[t] = pc[t] /\ my'[t] = my[t] /\ got'[t] = got[t]
  BY <1>1, ThreadFacts DEF Goto, Forget, AfterSend, ExchangeLabels, TypeOK, ExecType
<1>3. unguarded => unguarded'
  BY <1>1 DEF Unlock
<1> QED
  BY <1>1, <1>2, <1>3, ThreadFacts, Unmoved
     DEF connVars, NoReader, AfterSend, ExchangeLabels

\* A thread that is in an exchange on the connection is alone there.
LEMMA Sole ==
  ASSUME TypeOK, LockInv, Running, NEW t \in Threads, Transfer(t), ~unguarded
  PROVE  /\ \A u \in Threads \ {t} :
              ~(~cancelled'[u] /\ pc'[u] \in AfterSend) /\ ~(~cancelled[u] /\ pc[u] \in AfterSend)
         /\ pc[Main] \notin {"close", "crash"}
         /\ UNCHANGED <<unguarded, cancelled>> /\ ~cancelled[t] /\ pc[t] \in ExchangeLabels
         /\ pc'[Main] # "close"
<1>1. /\ UNCHANGED <<unguarded, cancelled>> /\ ~cancelled[t] /\ pc[t] \in ExchangeLabels
      /\ \/ \E l \in ExchangeLabels \cup {SendFailed(t), RecvFailed(t)} : Goto(t, l)
         \/ Goto(Main, "crash")
         \/ UNCHANGED pc
  BY TransferMove
<1>2. \A u \in Threads \ {t} : ~(~cancelled[u] /\ pc[u] \in ExchangeLabels)
  BY <1>1, Exclusive
<1>3. /\ \A u \in Threads \ {t} : pc'[u] \in {pc[u], "crash"}
      /\ pc'[t] \in ExchangeLabels \cup {SendFailed(t), RecvFailed(t), "crash", pc[t]}
  BY <1>1, ThreadFacts DEF Goto, TypeOK, ExecType
<1>4. pc[Main] \notin {"close", "crash"}
  <2>1. CASE t = Main
    BY <1>1, <2>1 DEF ExchangeLabels
  <2>2. CASE t # Main
    BY <1>1, <2>2, ThreadFacts
       DEF LockInv, AloneInv, Alone, Live, ExchangeLabels, Running
  <2> QED BY <2>1, <2>2
<1>5. pc'[Main] # "close"
  BY <1>1, <1>3, <1>4, ThreadFacts
     DEF ExchangeLabels, SendFailed, RecvFailed, TypeOK, ExecType
<1> QED
  BY <1>1, <1>2, <1>3, <1>4, <1>5 DEF AfterSend, ExchangeLabels

LEMMA TransferShifts ==
  ASSUME TypeOK, NEW t \in Threads, Transfer(t), shifts' = 0
  PROVE  shifts = 0
<1>1. shifts \in Nat /\ shifts' \in {shifts, shifts + 1}
  BY DEF Transfer, Send, Poll, ReadLen, ReadBody, Spin, ReadEof, Torn, TypeOK,
         ConnType
<1> QED BY <1>1

\* So the invariant is about that thread only.
LEMMA OfSole ==
  ASSUME TypeOK, LockInv, Running, NEW t \in Threads, Transfer(t),
         InStep /\ shifts' = 0 =>
           /\ pc'[t] \in AfterSend => open' /\ my'[t] = sent' /\ Progress(t)'
           /\ open' /\ pc'[t] \notin AfterSend \ {"got"} /\ pc'[Main] # "crash"
                => InSequence(0)'
  PROVE  StreamInv'
<1> SUFFICES ASSUME InStep' PROVE StreamInv'
  BY DEF StreamInv
<1>1. InStep /\ shifts' = 0
  BY TransferMove, TransferShifts DEF InStep
<1>2. /\ \A u \in Threads \ {t} :
           ~(~cancelled'[u] /\ pc'[u] \in AfterSend)
      /\ UNCHANGED cancelled /\ ~cancelled[t]
  BY <1>1, Sole DEF InStep
<1>3. NoReader' => pc'[t] \notin AfterSend \ {"got"}
  BY <1>2 DEF NoReader
<1> QED BY <1>1, <1>2, <1>3 DEF StreamInv

LEMMA FailedLabels ==
  ASSUME TypeOK, NEW t \in Threads
  PROVE  SendFailed(t) \notin AfterSend /\ RecvFailed(t) \notin AfterSend
BY DEF SendFailed, RecvFailed, AfterSend, ExchangeLabels, TypeOK, ExecType

\* Where the thread is, and what that means.
LEMMA AtSend ==
  ASSUME TypeOK, LockInv, StreamInv, Running, NEW t \in Threads, Transfer(t), InStep
  PROVE  /\ pc[t] = "send" /\ open => InSequence(0)
         /\ pc[t] # "send" => open /\ my[t] = sent /\ Progress(t)
<1>1. /\ \A u \in Threads \ {t} : ~(~cancelled[u] /\ pc[u] \in AfterSend)
      /\ pc[Main] \notin {"close", "crash"}
      /\ ~cancelled[t] /\ pc[t] \in ExchangeLabels
  BY Sole DEF InStep
<1>2. pc[t] = "send" => NoReader
  BY <1>1 DEF NoReader, AfterSend, ExchangeLabels
<1> QED BY <1>1, <1>2 DEF StreamInv, AfterSend

LEMMA StreamSend ==
  ASSUME TypeOK, LockInv, StreamInv, Running, NEW t \in Threads, Send(t)
  PROVE  StreamInv'
<1> DEFINE new == [id |-> sent + 1, by |-> t, due |-> "frame"]
<1>1. Transfer(t) /\ pc[t] = "send" /\ UNCHANGED <<open, up, inbox, abandoned>>
  BY DEF Transfer, Send
<1> SUFFICES ASSUME InStep
             PROVE  /\ pc'[t] \in AfterSend => open' /\ my'[t] = sent' /\ Progress(t)'
                    /\ open' /\ pc'[t] \notin AfterSend \ {"got"} /\ pc'[Main] # "crash"
                         => InSequence(0)'
  BY <1>1, OfSole
<1>2. CASE /\ open /\ sent' = sent + 1 /\ my' = [my EXCEPT ![t] = sent + 1]
           /\ reqs' = IF up THEN Append(reqs, new) ELSE reqs
           /\ Goto(t, "poll")
  <2>1. pc'[t] = "poll" /\ open' /\ my'[t] = sent'
    BY <1>1, <1>2 DEF Goto, TypeOK, ExecType
  <2>2. InSequence(0)
    BY <1>1, <1>2, AtSend
  <2>3. /\ reqs \in Seq(Request) /\ Len(reqs) \in Nat /\ sent \in Nat /\ abandoned \in Nat
        /\ Len(inbox) \in Nat
    BY DEF TypeOK, ConnType
  <2>4. up => /\ Len(reqs') = Len(reqs) + 1
              /\ \A i \in 1..Len(reqs) : reqs'[i] = reqs[i]
              /\ reqs'[Len(reqs) + 1].id = sent + 1
              /\ reqs'[Len(reqs) + 1].due = "frame"
              /\ reqs' # <<>>
    <3>1. new.id = sent + 1 /\ new.due = "frame"
      OBVIOUS
    <3> HIDE DEF new
    <3> QED BY <1>2, <2>3, <3>1
  <2>5. InSequence(2)'
    <3>1. \A i \in 1..Len(inbox') : Place(inbox'[i]) = 2 * (sent' - abandoned') - 2 + i
      <4>1. \A i \in 1..Len(inbox) : Place(inbox[i]) = 2 * (sent - abandoned) - 0 + i
        BY <2>2 DEF InSequence
      <4>2. 2 * (sent' - abandoned') - 2 = 2 * (sent - abandoned) /\ inbox' = inbox
        BY <1>1, <1>2, <2>3
      <4> QED BY <2>3, <4>1, <4>2
    <3>2. ASSUME up', NEW i \in 1..Len(reqs')
          PROVE  /\ reqs'[i].id = sent' - Len(reqs') + i
                 /\ reqs'[i].due = "body" => i = 1 /\ Segments
      BY <1>1, <1>2, <2>2, <2>3, <2>4, <3>2 DEF InSequence
    <3>3. up' => 2 * (sent' - abandoned') - 2 + Len(inbox') + 1 =
            IF reqs' # <<>> /\ reqs'[1].due = "body"
            THEN 2 * (sent' - Len(reqs') + 1) ELSE 2 * (sent' - Len(reqs')) + 1
      <4> SUFFICES ASSUME up
                   PROVE  2 * (sent' - abandoned') - 2 + Len(inbox') + 1 =
                            IF reqs'[1].due = "body"
                            THEN 2 * (sent' - Len(reqs') + 1) ELSE 2 * (sent' - Len(reqs')) + 1
        BY <1>1, <2>4
      <4>1. 2 * (sent - abandoned) - 0 + Len(inbox) + 1 =
              IF reqs # <<>> /\ reqs[1].due = "body"
              THEN 2 * (sent - Len(reqs) + 1) ELSE 2 * (sent - Len(reqs)) + 1
        BY <2>2 DEF InSequence
      <4>2. reqs'[1].due = "body" <=> reqs # <<>> /\ reqs[1].due = "body"
        <5>1. CASE reqs = <<>>
          BY <2>4, <5>1
        <5>2. CASE reqs # <<>>
          <6>1. 1 \in 1..Len(reqs)
            BY <2>3, <5>2
          <6> QED BY <2>4, <5>2, <6>1
        <5> QED BY <5>1, <5>2
      <4>3. sent' = sent + 1 /\ Len(reqs') = Len(reqs) + 1
            /\ Len(inbox') = Len(inbox) /\ abandoned' = abandoned
        BY <1>1, <1>2, <2>4
      <4> QED BY <2>3, <4>1, <4>2, <4>3
    <3>4. \A h : Place(h)' = Place(h)
      BY DEF Place
    <3> QED BY <3>1, <3>2, <3>3, <3>4 DEF InSequence, Place
  <2> QED BY <2>1, <2>5 DEF Progress, AfterSend, ExchangeLabels
<1>3. CASE UNCHANGED <<sent, my, reqs>> /\ Goto(t, SendFailed(t))
  <2>1. pc'[t] = SendFailed(t)
    BY <1>3 DEF Goto, TypeOK, ExecType
  <2>2. open => InSequence(0)
    BY <1>1, AtSend
  <2> QED BY <1>1, <1>3, <2>1, <2>2, FailedLabels, SequenceStays
<1>4. CASE Goto(Main, "crash")
  BY <1>1, <1>4, ThreadFacts DEF Goto, TypeOK, ExecType, AfterSend, ExchangeLabels
<1> QED
  BY <1>2, <1>3, <1>4 DEF Send

LEMMA StreamPoll ==
  ASSUME TypeOK, LockInv, StreamInv, Running, NEW t \in Threads, Poll(t)
  PROVE  StreamInv'
<1>1. Transfer(t) /\ pc[t] = "poll" /\ UNCHANGED <<my, open, up, sent, reqs, inbox>>
  BY DEF Transfer, Poll
<1> SUFFICES ASSUME InStep
             PROVE  /\ pc'[t] \in AfterSend => open' /\ my'[t] = sent' /\ Progress(t)'
                    /\ open' /\ pc'[t] \notin AfterSend \ {"got"} /\ pc'[Main] # "crash"
                         => InSequence(0)'
  BY <1>1, OfSole
<1>2. open /\ my[t] = sent /\ InSequence(2)
  BY <1>1, AtSend DEF Progress
<1>3. CASE Readable /\ Goto(t, "rlen") /\ UNCHANGED abandoned
  <2>1. pc'[t] = "rlen"
    BY <1>3 DEF Goto, TypeOK, ExecType
  <2> QED
    BY <1>1, <1>2, <1>3, <2>1, SequenceStays
       DEF Progress, Readable, AfterSend, ExchangeLabels
<1>4. CASE ~Readable /\ Goto(t, RecvFailed(t)) /\ abandoned' = abandoned + 1
  <2>1. pc'[t] \notin AfterSend
    BY <1>4, FailedLabels DEF Goto, TypeOK, ExecType
  <2>2. 2 * (sent' - abandoned') - 0 = 2 * (sent - abandoned) - 2
    BY <1>1, <1>4 DEF TypeOK, ConnType
  <2>3. InSequence(0)'
    BY <1>1, <1>2, <2>2 DEF InSequence, Place
  <2> QED BY <2>1, <2>3
<1> QED BY <1>2, <1>3, <1>4 DEF Poll

\* A read that gets the half in front.
LEMMA TakeHalf ==
  ASSUME TypeOK, NEW k \in 1..2, InSequence(k), inbox # <<>>,
         inbox' = Tail(inbox), UNCHANGED <<up, sent, reqs, abandoned>>
  PROVE  InSequence(k - 1)'
<1>1. /\ inbox \in Seq(Half) /\ Len(inbox) \in Nat \ {0}
      /\ Len(inbox') = Len(inbox) - 1
      /\ \A i \in 1..Len(inbox') : inbox'[i] = inbox[i + 1]
      /\ sent \in Nat /\ abandoned \in Nat /\ Len(reqs) \in Nat
  BY DEF TypeOK, ConnType
<1>2. \A i \in 1..Len(inbox') : Place(inbox'[i]) = 2 * (sent' - abandoned') - (k - 1) + i
  <2> TAKE i \in 1..Len(inbox')
  <2>1. i + 1 \in 1..Len(inbox)
    BY <1>1
  <2>2. Place(inbox[i + 1]) = 2 * (sent - abandoned) - k + (i + 1)
    BY <2>1 DEF InSequence
  <2>3. inbox'[i] = inbox[i + 1]
    BY <1>1
  <2> QED BY <1>1, <2>2, <2>3
<1>3. up => 2 * (sent - abandoned) - (k - 1) + Len(inbox') + 1 =
              2 * (sent - abandoned) - k + Len(inbox) + 1
  BY <1>1
<1>4. \A h : Place(h)' = Place(h)
  BY DEF Place
<1> QED BY <1>2, <1>3, <1>4 DEF InSequence

\* What is in front tells its half and its request.
LEMMA Front ==
  ASSUME TypeOK, NEW k \in 1..2, InSequence(k), inbox # <<>>
  PROVE  /\ k = 2 => Head(inbox).half = "len"
         /\ k = 1 => Head(inbox).half # "len" /\ Head(inbox).id = sent - abandoned
<1>1. /\ Head(inbox) \in Half /\ Head(inbox) = inbox[1] /\ 1 \in 1..Len(inbox)
      /\ sent \in Nat /\ abandoned \in Nat
  BY DEF TypeOK, ConnType
<1>2. Place(Head(inbox)) = 2 * (sent - abandoned) - k + 1
  BY <1>1 DEF InSequence
<1>3. /\ Head(inbox).half = "len" => Place(Head(inbox)) = 2 * Head(inbox).id - 1
      /\ Head(inbox).half # "len" => Place(Head(inbox)) = 2 * Head(inbox).id
  BY DEF Place
<1>4. CASE k = 2
  BY <1>1, <1>2, <1>3, <1>4 DEF Half
<1>5. CASE k = 1
  BY <1>1, <1>2, <1>3, <1>5 DEF Half
<1> QED BY <1>4, <1>5

\* If replies are not cut, a half that is read leaves the other one behind.
LEMMA Both ==
  ASSUME TypeOK, InSequence(2), inbox # <<>>, ~Segments, up
  PROVE  Tail(inbox) # <<>>
<1>1. /\ Len(inbox) \in Nat \ {0} /\ Len(reqs) \in Nat /\ reqs \in Seq(Request)
      /\ inbox \in Seq(Half) /\ sent \in Nat /\ abandoned \in Nat
  BY DEF TypeOK, ConnType
<1>2. ~(reqs # <<>> /\ reqs[1].due = "body")
  BY <1>1 DEF InSequence
<1>3. 2 * (sent - abandoned) - 2 + Len(inbox) + 1 = 2 * (sent - Len(reqs)) + 1
  BY <1>2 DEF InSequence
<1>4. ASSUME Len(inbox) = 1 PROVE FALSE
  <2>1. 2 * (sent - abandoned) = 2 * (sent - Len(reqs)) + 1
    BY <1>1, <1>3, <1>4
  <2> QED BY <1>1, <2>1, Parity
<1>5. Len(Tail(inbox)) = Len(inbox) - 1 /\ Tail(inbox) \in Seq(Half)
  BY <1>1, Taken
<1>6. Len(Tail(inbox)) # 0
  BY <1>1, <1>4, <1>5
<1> QED BY <1>5, <1>6, NonEmpty

LEMMA StreamReadLen ==
  ASSUME TypeOK, LockInv, StreamInv, Running, NEW t \in Threads, ReadLen(t)
  PROVE  StreamInv'
<1>1. Transfer(t) /\ pc[t] = "rlen" /\ UNCHANGED <<my, up, sent, reqs, abandoned>>
  BY DEF Transfer, ReadLen, readFrame
<1> SUFFICES ASSUME InStep
             PROVE  /\ pc'[t] \in AfterSend => open' /\ my'[t] = sent' /\ Progress(t)'
                    /\ open' /\ pc'[t] \notin AfterSend \ {"got"} /\ pc'[Main] # "crash"
                         => InSequence(0)'
  BY <1>1, OfSole
<1>2. open /\ my[t] = sent /\ InSequence(2) /\ (inbox # <<>> \/ ~up)
  BY <1>1, AtSend DEF Progress
<1>3. CASE Framed("len") /\ inbox' = Tail(inbox) /\ Goto(t, "rbody") /\ UNCHANGED open
  <2>1. pc'[t] = "rbody"
    BY <1>3 DEF Goto, TypeOK, ExecType
  <2>2. InSequence(1)'
    BY <1>1, <1>2, <1>3, TakeHalf DEF Framed
  <2>3. ~Segments => inbox' # <<>> \/ ~up'
    BY <1>1, <1>2, <1>3, Both DEF Framed
  <2> QED
    BY <1>1, <1>2, <1>3, <2>1, <2>2, <2>3 DEF Progress, AfterSend, ExchangeLabels
<1>4. CASE ReadEof(t)
  <2>1. pc'[t] \notin AfterSend /\ ~open'
    BY <1>4, FailedLabels DEF ReadEof, Goto, TypeOK, ExecType
  <2> QED BY <2>1
<1>5. ~Torn(t, "len")
  <2>1. inbox # <<>> => Head(inbox).half = "len"
    BY <1>2, Front
  <2> QED BY <1>2, <2>1 DEF Torn, Framed, Eof
<1> QED BY <1>3, <1>4, <1>5 DEF ReadLen

LEMMA StreamReadBody ==
  ASSUME TypeOK, LockInv, StreamInv, RestInv, Running, NEW t \in Threads, ReadBody(t)
  PROVE  StreamInv'
<1>1. Transfer(t) /\ pc[t] = "rbody" /\ UNCHANGED <<my, up, sent, reqs, abandoned>>
  BY DEF Transfer, ReadBody, readFrame
<1> SUFFICES ASSUME InStep
             PROVE  /\ pc'[t] \in AfterSend => open' /\ my'[t] = sent' /\ Progress(t)'
                    /\ open' /\ pc'[t] \notin AfterSend \ {"got"} /\ pc'[Main] # "crash"
                         => InSequence(0)'
  BY <1>1, OfSole
<1>2. open /\ my[t] = sent /\ InSequence(1) /\ (~Segments => inbox # <<>> \/ ~up)
  BY <1>1, AtSend DEF Progress
<1>3. CASE /\ Framed("body") /\ inbox' = Tail(inbox) /\ Goto(t, "got") /\ UNCHANGED open
           /\ got' = [got EXCEPT ![t] = Head(inbox).id]
  <2>1. pc'[t] = "got" /\ got'[t] = Head(inbox).id
    BY <1>3 DEF Goto, TypeOK, ExecType
  <2>2. InSequence(0)'
    <3>1. InSequence(1 - 1)'
      BY <1>1, <1>2, <1>3, TakeHalf DEF Framed
    <3> QED BY <3>1
  <2>3. Head(inbox).id = sent - abandoned
    BY <1>2, <1>3, Front DEF Framed
  <2> QED
    BY <1>1, <1>2, <1>3, <2>1, <2>2, <2>3 DEF Progress, AfterSend, ExchangeLabels
<1>4. CASE ReadEof(t)
  <2>1. pc'[t] \notin AfterSend /\ ~open'
    BY <1>4, FailedLabels DEF ReadEof, Goto, TypeOK, ExecType
  <2> QED BY <2>1
<1>5. CASE Torn(t, "body")
  <2>1. Segments
    <3>1. inbox # <<>> => Head(inbox) \in Half /\ Head(inbox).half # "rest"
      BY Taken DEF RestInv, InStep, TypeOK, ConnType
    <3> QED
      BY <1>2, <1>5, <3>1, Front DEF Torn, Framed, Eof, Half
  <2>2. /\ UNCHANGED <<open, inbox, got>>
        /\ pc'[t] = "spin" \/ (pc'[Main] = "crash" /\ pc'[t] \in {"crash", "rbody"})
    BY <1>1, <1>5, ThreadFacts DEF Torn, Goto, TypeOK, ExecType
  <2> QED
    BY <1>1, <1>2, <2>1, <2>2, SequenceStays DEF Progress, AfterSend, ExchangeLabels
<1> QED BY <1>3, <1>4, <1>5 DEF ReadBody

LEMMA StreamSpin ==
  ASSUME TypeOK, LockInv, StreamInv, Running, NEW t \in Threads, Spin(t)
  PROVE  StreamInv'
<1>1. Transfer(t) /\ pc[t] = "spin" /\ UNCHANGED <<my, up, sent, reqs, abandoned>>
  BY DEF Transfer, Spin, readFrame
<1> SUFFICES ASSUME InStep, shifts' = 0
             PROVE  /\ pc'[t] \in AfterSend => open' /\ my'[t] = sent' /\ Progress(t)'
                    /\ open' /\ pc'[t] \notin AfterSend \ {"got"} /\ pc'[Main] # "crash"
                         => InSequence(0)'
  BY <1>1, OfSole
<1>2. open /\ my[t] = sent /\ Segments
  BY <1>1, AtSend DEF Progress
<1>3. CASE UNCHANGED <<pc, open>>
  BY <1>1, <1>2, <1>3 DEF Progress, AfterSend, ExchangeLabels
<1>4. CASE ReadEof(t)
  <2>1. pc'[t] \notin AfterSend /\ ~open'
    BY <1>4, FailedLabels DEF ReadEof, Goto, TypeOK, ExecType
  <2> QED BY <2>1
<1>5. CASE shifts' = shifts + 1
  BY <1>5 DEF InStep
<1> QED BY <1>3, <1>4, <1>5 DEF Spin

LEMMA PartIs ==
  ASSUME NEW h \in {"len", "body"}, NEW r \in Request, NEW e \in Err
  PROVE  /\ Part(h, r, e) \in Seq(Half) /\ Len(Part(h, r, e)) = 1
         /\ Part(h, r, e) # <<>>
         /\ Place(Part(h, r, e)[1]) = IF h = "len" THEN 2 * r.id - 1 ELSE 2 * r.id
         /\ Part(h, r, e)[1].half # "rest"
<1> DEFINE p == [half |-> h, id |-> r.id, err |-> e]
<1>1. p \in Half /\ p.half = h /\ p.id = r.id
  BY DEF Half, Request
<1> HIDE DEF p
<1>2. /\ <<p>> \in Seq(Half) /\ Len(<<p>>) = 1 /\ <<p>>[1] = p /\ <<p>> # <<>>
  BY <1>1, Singleton
<1> QED BY <1>1, <1>2 DEF Part, Place, p

\* What the server sends of the request in front, and what it then has left.
LEMMA Answered ==
  ASSUME TypeOK, Segment \/ Reply
  PROVE  \E s \in Seq(Half) :
           LET r == Head(reqs)
           IN  /\ inbox' = inbox \o s
               /\ \A i \in 1..Len(s) : s[i].half # "rest"
               /\ \/ /\ Segment /\ Len(s) = 1 /\ Place(s[1]) = 2 * r.id - 1
                  \/ /\ Reply /\ r.due = "body" /\ Len(s) = 1 /\ Place(s[1]) = 2 * r.id
                  \/ /\ Reply /\ r.due = "frame" /\ Len(s) = 2
                     /\ Place(s[1]) = 2 * r.id - 1 /\ Place(s[2]) = 2 * r.id
<1> DEFINE r == Head(reqs)
<1>1. r \in Request /\ inbox \in Seq(Half) /\ r.due \in {"frame", "body"}
  <2>1. reqs # <<>> /\ reqs \in Seq(Request) /\ inbox \in Seq(Half)
    BY DEF Segment, Reply, TypeOK, ConnType
  <2>2. r \in Request
    BY <2>1, Taken
  <2> QED BY <2>1, <2>2 DEF Request
<1>2. "OK" \in Err /\ \A e \in ReplyErrs(r) : e \in Err
  BY ExchangeAssumption DEF ReplyErrs, Err
<1> DEFINE l == Part("len", r, "OK")
<1>3. l \in Seq(Half) /\ Len(l) = 1 /\ Place(l[1]) = 2 * r.id - 1 /\ l[1].half # "rest"
  BY <1>1, <1>2, PartIs
<1>4. CASE Segment
  <2>1. inbox' = inbox \o l
    BY <1>4 DEF Segment
  <2> HIDE DEF l
  <2>2. \A i \in 1..Len(l) : l[i].half # "rest"
    BY <1>3
  <2> QED BY <1>3, <1>4, <2>1, <2>2
<1>5. CASE Reply
  <2>1. PICK e \in ReplyErrs(r) :
          inbox' = inbox \o (IF r.due = "frame" THEN l ELSE <<>>) \o Part("body", r, e)
    BY <1>5 DEF Reply
  <2> DEFINE b == Part("body", r, e)
  <2>2. b \in Seq(Half) /\ Len(b) = 1 /\ Place(b[1]) = 2 * r.id /\ b[1].half # "rest"
    BY <1>1, <1>2, PartIs
  <2>3. CASE r.due = "frame"
    <3> HIDE DEF l, b, r
    <3>1. inbox' = inbox \o (l \o b)
      <4>1. inbox' = (inbox \o l) \o b
        BY <2>1, <2>3 DEF b
      <4> QED BY <1>1, <1>3, <2>2, <4>1, Nested, SMTT(30)
    <3>2. l \o b \in Seq(Half) /\ Len(l \o b) = 2 /\ (l \o b)[1] = l[1] /\ (l \o b)[2] = b[1]
      BY <1>3, <2>2, Two
    <3>3. \A i \in 1..Len(l \o b) : i = 1 \/ i = 2
      BY <3>2
    <3>4. \A i \in 1..Len(l \o b) : (l \o b)[i].half # "rest"
      BY <1>3, <2>2, <3>2, <3>3
    <3> QED BY <1>3, <1>5, <2>2, <2>3, <3>1, <3>2, <3>4 DEF r
  <2>4. CASE r.due = "body"
    <3> HIDE DEF l, b, r
    <3>1. inbox' = inbox \o b
      <4>1. inbox' = (inbox \o <<>>) \o b
        BY <2>1, <2>4 DEF b
      <4>2. inbox \o <<>> = inbox
        BY <1>1
      <4> QED BY <4>1, <4>2
    <3> QED BY <1>5, <2>2, <2>4, <3>1 DEF r
  <2> QED BY <1>1, <2>3, <2>4
<1> QED BY <1>4, <1>5

\* Whatever the server does, what is unread goes on where it did.
LEMMA ServerSequence ==
  ASSUME TypeOK, Server, NEW k \in 0..2, InSequence(k)
  PROVE  InSequence(k)'
<1> DEFINE taken == 2 * (sent - abandoned) - k
<1>0. /\ inbox \in Seq(Half) /\ Len(inbox) \in Nat /\ reqs \in Seq(Request)
      /\ Len(reqs) \in Nat /\ sent \in Nat /\ abandoned \in Nat /\ taken \in Int
  BY DEF TypeOK, ConnType
<1>1. UNCHANGED <<sent, abandoned>>
  BY DEF Server, Segment, Reply, PeerClose
<1>2. \A h : Place(h)' = Place(h)
  BY DEF Place
<1>3. \A i \in 1..Len(inbox) : Place(inbox[i]) = taken + i
  BY DEF InSequence
<1>4. CASE PeerClose
  <2>1. \A i \in 1..Len(inbox') : Place(inbox'[i]) = taken + i
    BY <1>3, <1>4 DEF PeerClose
  <2>2. ~up'
    BY <1>4 DEF PeerClose
  <2> QED BY <1>1, <1>2, <2>1, <2>2 DEF InSequence
<1>5. CASE Segment \/ Reply
  <2> DEFINE r  == Head(reqs)
             id == sent - Len(reqs) + 1
             end == IF r.due = "body" THEN 2 * id ELSE 2 * id - 1
  <2>1. up /\ up' /\ reqs # <<>>
    <3>1. CASE Segment
      BY <3>1 DEF Segment
    <3>2. CASE Reply
      BY <3>2 DEF Reply
    <3> QED BY <1>5, <3>1, <3>2
  <2>2. /\ Len(reqs) \in Nat \ {0} /\ r = reqs[1] /\ 1 \in 1..Len(reqs) /\ r \in Request
        /\ Tail(reqs) \in Seq(Request) /\ Len(Tail(reqs)) = Len(reqs) - 1
        /\ \A i \in 1..Len(Tail(reqs)) : i + 1 \in 1..Len(reqs) /\ Tail(reqs)[i] = reqs[i + 1]
    BY <1>0, <2>1, Taken
  <2>3. \A i \in 1..Len(reqs) : /\ reqs[i].id = sent - Len(reqs) + i
                                /\ reqs[i].due = "body" => i = 1 /\ Segments
    BY <2>1 DEF InSequence
  <2>4. r.id = id /\ id \in Int /\ r.due \in {"frame", "body"} /\ end \in Int
    <3>1. r.id = id /\ id \in Int
      BY <1>0, <2>2, <2>3
    <3>2. r.due \in {"frame", "body"}
      BY <2>2 DEF Request
    <3> QED BY <3>1, <3>2
  <2>5. taken + Len(inbox) + 1 = end
    <3>1. taken + Len(inbox) + 1 =
            IF r.due = "body" THEN 2 * id ELSE 2 * (sent - Len(reqs)) + 1
      BY <2>1, <2>2 DEF InSequence
    <3> QED BY <1>0, <3>1
  <2>6. PICK s \in Seq(Half) :
          /\ inbox' = inbox \o s
          /\ \/ Segment /\ Len(s) = 1 /\ Place(s[1]) = 2 * r.id - 1
             \/ Reply /\ r.due = "body" /\ Len(s) = 1 /\ Place(s[1]) = 2 * r.id
             \/ /\ Reply /\ r.due = "frame" /\ Len(s) = 2
                /\ Place(s[1]) = 2 * r.id - 1 /\ Place(s[2]) = 2 * r.id
    BY <1>5, Answered
  <2>7. Segment => Segments /\ r.due = "frame"
    BY DEF Segment
  <2>8. \A i \in 1..Len(s) : Place(s[i]) = taken + Len(inbox) + i
    <3> HIDE DEF r, id, taken
    <3>1. CASE Len(s) = 1
      <4>1. Place(s[1]) = end
        BY <2>4, <2>6, <2>7, <3>1
      <4> HIDE DEF end
      <4>2. Place(s[1]) = taken + Len(inbox) + 1
        BY <2>5, <4>1
      <4> QED BY <3>1, <4>2
    <3>2. CASE Len(s) = 2
      <4>1. /\ Place(s[1]) = end /\ Place(s[2]) = end + 1
        BY <2>4, <2>6, <3>2
      <4> HIDE DEF end
      <4>2. Place(s[1]) = taken + Len(inbox) + 1 /\ Place(s[2]) = taken + Len(inbox) + 2
        BY <1>0, <2>5, <4>1
      <4> QED BY <3>2, <4>2
    <3> QED BY <2>6, <3>1, <3>2
  <2>9. /\ Len(inbox') = Len(inbox) + Len(s)
        /\ \A i \in 1..Len(inbox') : Place(inbox'[i]) = taken + i
    <3> HIDE DEF taken
    <3>1. /\ Len(inbox') = Len(inbox) + Len(s) /\ Len(s) \in Nat
          /\ \A i \in 1..Len(inbox) : inbox'[i] = inbox[i]
          /\ \A i \in 1..Len(s) : inbox'[Len(inbox) + i] = s[i]
      BY <1>0, <2>6, Joined
    <3>2. ASSUME NEW i \in 1..Len(inbox'), i > Len(inbox)
          PROVE  Place(inbox'[i]) = taken + i
      <4> DEFINE j == i - Len(inbox)
      <4>1. j \in 1..Len(s) /\ i = Len(inbox) + j
        BY <1>0, <3>1, <3>2
      <4>2. Place(inbox'[i]) = taken + Len(inbox) + j
        BY <2>8, <3>1, <4>1
      <4> QED BY <1>0, <4>1, <4>2
    <3>3. ASSUME NEW i \in 1..Len(inbox'), ~(i > Len(inbox))
          PROVE  Place(inbox'[i]) = taken + i
      BY <1>0, <1>3, <3>1, <3>3, SMTT(30)
    <3> QED BY <3>1, <3>2, <3>3
  <2>10. CASE Segment /\ Len(s) = 1
    <3> DEFINE cut == [r EXCEPT !.due = "body"]
    <3>1. reqs' = <<cut>> \o Tail(reqs)
      BY <2>10 DEF Segment
    <3>2. cut.id = id /\ cut.due = "body" /\ cut \in Request
      BY <2>2, <2>4 DEF Request
    <3> HIDE DEF cut
    <3>3. /\ Len(reqs') = Len(reqs) /\ reqs' # <<>> /\ reqs'[1] = cut
          /\ \A i \in 1..Len(Tail(reqs)) : reqs'[1 + i] = Tail(reqs)[i]
      <4>1. /\ <<cut>> \in Seq(Request) /\ Len(<<cut>>) = 1 /\ <<cut>>[1] = cut
        BY <3>2, Singleton
      <4>2. /\ Len(reqs') = 1 + Len(Tail(reqs)) /\ reqs' \in Seq(Request)
            /\ \A i \in 1..1 : reqs'[i] = <<cut>>[i]
            /\ \A i \in 1..Len(Tail(reqs)) : reqs'[1 + i] = Tail(reqs)[i]
        BY <2>2, <3>1, <4>1, Joined
      <4> QED BY <2>2, <4>1, <4>2
    <3>4. ASSUME NEW i \in 1..Len(reqs')
          PROVE  /\ reqs'[i].id = sent - Len(reqs') + i
                 /\ reqs'[i].due = "body" => i = 1 /\ Segments
      <4>1. CASE i = 1
        BY <1>0, <2>7, <2>10, <3>2, <3>3, <4>1
      <4>2. CASE i # 1
        <5> DEFINE j == i - 1
        <5>1. j \in 1..Len(Tail(reqs)) /\ i = 1 + j /\ i = j + 1
          BY <2>2, <3>3, <4>2
        <5>2. reqs'[i] = reqs[i] /\ i \in 1..Len(reqs)
          BY <2>2, <3>3, <5>1
        <5> QED BY <2>3, <3>3, <5>2
      <4> QED BY <4>1, <4>2
    <3>5. taken + Len(inbox') + 1 = 2 * (sent - Len(reqs') + 1)
      <4>1. end = 2 * id - 1
        BY <2>7, <2>10
      <4> HIDE DEF taken
      <4> QED BY <1>0, <2>2, <2>5, <2>9, <2>10, <3>3, <4>1
    <3> QED BY <1>1, <1>2, <2>9, <3>2, <3>3, <3>4, <3>5 DEF InSequence
  <2>11. CASE Reply /\ Len(s) = IF r.due = "body" THEN 1 ELSE 2
    <3>1. reqs' = Tail(reqs)
      BY <2>11 DEF Reply
    <3>2. ASSUME NEW i \in 1..Len(reqs')
          PROVE  reqs'[i].id = sent - Len(reqs') + i /\ reqs'[i].due # "body"
      <4>1. /\ Len(reqs') = Len(reqs) - 1 /\ reqs'[i] = reqs[i + 1]
            /\ i + 1 \in 1..Len(reqs) /\ i + 1 # 1
        BY <2>2, <3>1
      <4>2. reqs[i + 1].id = sent - Len(reqs) + (i + 1) /\ reqs[i + 1].due # "body"
        BY <2>3, <4>1
      <4> QED BY <1>0, <4>1, <4>2
    <3>3. ~(reqs' # <<>> /\ reqs'[1].due = "body")
      <4>1. reqs' # <<>> => 1 \in 1..Len(reqs')
        BY <2>2, <3>1, Taken
      <4> QED BY <3>2, <4>1
    <3>4. taken + Len(inbox') + 1 = 2 * (sent - Len(reqs')) + 1
      <4>1. \/ Len(s) = 1 /\ end = 2 * id
            \/ Len(s) = 2 /\ end = 2 * id - 1
        BY <2>11
      <4>2. Len(reqs') = Len(reqs) - 1
        BY <2>2, <3>1
      <4>3. id \in Int /\ 2 * id + 1 = 2 * (sent - Len(reqs')) + 1
        BY <1>0, <4>2
      <4>4. taken + Len(inbox') + 1 = 2 * id + 1
        <5> HIDE DEF taken, end, id
        <5>1. taken \in Int /\ Len(inbox) \in Nat /\ Len(inbox') = Len(inbox) + Len(s)
          BY <1>0, <2>9
        <5>2. CASE Len(s) = 1 /\ end = 2 * id
          <6>1. taken + Len(inbox) + 1 = 2 * id
            BY <2>5, <5>2
          <6>2. Len(inbox') = Len(inbox) + 1
            BY <5>1, <5>2
          <6> QED BY <4>3, <5>1, <6>1, <6>2
        <5>3. CASE Len(s) = 2 /\ end = 2 * id - 1
          <6>1. taken + Len(inbox) + 1 = 2 * id - 1
            BY <2>5, <5>3
          <6>2. Len(inbox') = Len(inbox) + 2
            BY <5>1, <5>3
          <6> QED BY <4>3, <5>1, <6>1, <6>2
        <5> QED BY <4>1, <5>2, <5>3
      <4> QED BY <4>3, <4>4
    <3> QED BY <1>1, <1>2, <2>9, <3>2, <3>3, <3>4 DEF InSequence
  <2> QED
    <3> HIDE DEF r
    <3> QED BY <2>6, <2>10, <2>11
<1> QED BY <1>4, <1>5 DEF Server

LEMMA StreamServer ==
  ASSUME TypeOK, StreamInv, Server
  PROVE  StreamInv'
<1>1. UNCHANGED <<unguarded, pc, cancelled, my, got, open, sent, abandoned, shifts>>
  BY DEF Server, Segment, Reply, PeerClose, lockVars, execVars
<1>2. \A k \in 0..2 : InSequence(k) => InSequence(k)'
  BY ServerSequence
<1>3. inbox # <<>> \/ ~up => inbox' # <<>> \/ ~up'
  <2>1. CASE Segment \/ Reply
    <3>1. PICK s \in Seq(Half) : inbox' = inbox \o s
      BY <2>1, Answered
    <3>2. /\ up' = up
          /\ Len(inbox') = Len(inbox) + Len(s) /\ Len(inbox) \in Nat /\ Len(s) \in Nat
      BY <2>1, <3>1, Joined DEF Segment, Reply, TypeOK, ConnType
    <3>3. inbox # <<>> => Len(inbox) # 0
      BY Taken DEF TypeOK, ConnType
    <3> QED BY <3>2, <3>3
  <2>2. CASE PeerClose
    BY <2>2 DEF PeerClose
  <2> QED BY <2>1, <2>2 DEF Server
<1>4. \A t \in Threads : Progress(t) => Progress(t)'
  BY <1>1, <1>2, <1>3 DEF Progress
<1> QED BY <1>1, <1>2, <1>4 DEF StreamInv, NoReader, InStep

LEMMA InitStream == Init => StreamInv
<1> SUFFICES ASSUME Init PROVE StreamInv
  OBVIOUS
<1>1. ~open /\ \A t \in Threads : pc[t] \notin AfterSend
  BY DEF Init, AfterSend, ExchangeLabels
<1> QED BY <1>1 DEF StreamInv

LEMMA InitRest == Init => RestInv
BY DEF Init, RestInv

\* A half is whole when it arrives, and stays so until a loop ends inside it.
LEMMA StepRest == TypeOK /\ RestInv /\ [Next]_vars => RestInv'
<1> SUFFICES ASSUME TypeOK, RestInv, [Next]_vars, shifts' = 0 PROVE RestInv'
  BY DEF RestInv
<1>1. ASSUME UNCHANGED <<inbox, shifts>> PROVE RestInv'
  BY <1>1 DEF RestInv
<1>2. ASSUME inbox' = <<>> PROVE RestInv'
  BY <1>2 DEF RestInv
<1>3. ASSUME NEW t \in Threads, Transfer(t) PROVE RestInv'
  <2>1. shifts = 0
    BY <1>3, TransferShifts
  <2>2. UNCHANGED inbox \/ (inbox # <<>> /\ inbox' = Tail(inbox))
    BY <1>3, <2>1 DEF Transfer, Send, Poll, ReadLen, ReadBody, Spin, ReadEof, Torn,
                      Framed, readFrame
  <2>3. CASE inbox # <<>> /\ inbox' = Tail(inbox)
    <3>1. \A i \in 1..Len(Tail(inbox)) :
            i + 1 \in 1..Len(inbox) /\ Tail(inbox)[i] = inbox[i + 1]
      BY <2>3, Taken DEF TypeOK, ConnType
    <3> QED
      BY <2>1, <2>3, <3>1 DEF RestInv
  <2> QED
    BY <1>1, <2>1, <2>2, <2>3
<1>4. CASE Server
  <2>1. CASE PeerClose
    BY <1>1, <1>2, <2>1 DEF PeerClose
  <2>2. CASE Segment \/ Reply
    <3>1. PICK s \in Seq(Half) : /\ inbox' = inbox \o s
                                 /\ \A i \in 1..Len(s) : s[i].half # "rest"
      BY <2>2, Answered
    <3>2. inbox \in Seq(Half) /\ UNCHANGED shifts
      BY <2>2 DEF Segment, Reply, TypeOK, ConnType
    <3>3. \A i \in 1..Len(inbox) : inbox[i].half # "rest"
      BY <3>2 DEF RestInv
    <3>4. ASSUME NEW i \in 1..Len(inbox \o s) PROVE (inbox \o s)[i].half # "rest"
      <4>1. CASE i <= Len(inbox)
        BY <3>2, <3>3, <4>1, Joined
      <4>2. CASE i > Len(inbox)
        <5>1. i - Len(inbox) \in 1..Len(s) /\ Len(inbox) + (i - Len(inbox)) = i
          BY <3>2, <4>2, Joined
        <5> QED
          BY <3>1, <3>2, <5>1, Joined
      <4> QED
        BY <3>2, <4>1, <4>2
    <3> QED
      BY <3>1, <3>4 DEF RestInv
  <2> QED
    BY <1>4, <2>1, <2>2 DEF Server
<1>5. CASE Command
  BY <1>1, <1>5 DEF Command, Enter, EndOfInput, Acquire, Failed, Received, Decode,
     Undecodable, Release, MkdirStep, GetStep, Completed, Return, Check,
     returnFrame, connVars
<1>6. CASE Session
  BY <1>1, <1>2, <1>6 DEF Session, TryLock, ForceUnlock, Cancel, Close, Connect,
     Refused, Unresolved, Dial, NewSocket, Exhausted, Authenticated, Spawn, Authed,
     Stop, Join, ClosingReply, Shut, mainFrame, attemptFrame, connVars
<1>7. ASSUME NEW g \in Pings, PingStep(g) PROVE RestInv'
  <2>1. Transfer(g) \/ UNCHANGED connVars
    BY <1>7 DEF PingStep, PTest, PLock, PGot, PUnlock, PSleep, Die, pingFrame
  <2> QED
    BY <1>1, <1>3, <2>1, ThreadFacts DEF connVars
<1> QED
  BY <1>1, <1>3, <1>4, <1>5, <1>6, <1>7, ThreadFacts
     DEF Next, MainStep, vars, xVars, connVars

LEMMA StepStream ==
  TypeOK /\ LockInv /\ RestInv /\ StreamInv /\ [Next]_vars => StreamInv'
<1> SUFFICES ASSUME TypeOK, LockInv, RestInv, StreamInv, [Next]_vars PROVE StreamInv'
  OBVIOUS
<1>1. ASSUME Running, NEW t \in Threads, Transfer(t) PROVE StreamInv'
  BY <1>1, StreamSend, StreamPoll, StreamReadLen, StreamReadBody, StreamSpin DEF Transfer
<1>2. ASSUME NEW g \in Pings, PingStep(g), Running PROVE StreamInv'
  BY <1>1, <1>2, StreamPing, ThreadFacts DEF PingStep
<1>3. CASE UNCHANGED vars
  BY <1>3, Unmoved DEF vars, xVars, lockVars, connVars, execVars, NoReader
<1> QED
  BY <1>1, <1>2, <1>3, StreamCommand, StreamSession, StreamServer, ThreadFacts
     DEF Next, MainStep

LEMMA StreamHolds == Spec => []StreamInv
BY InitType, InitLock, InitRest, InitStream, StepType, StepLock, StepRest, StepStream,
   PTL DEF Spec

\* recv_response compares no xid, so the order of the stream alone decides whose
\* reply a thread reads: its own, if and only if nobody before it on that
\* connection gave up waiting; otherwise one that many requests older (OwnReply).
THEOREM OwnReplies == Spec => []OwnReply
<1>1. StreamInv => OwnReply
  BY DEF StreamInv, OwnReply, InStep, Progress, AfterSend, ExchangeLabels
<1> QED BY <1>1, StreamHolds, PTL

\* A reply is miscounted only in the loop of a torn frame, and a new socket
\* starts with none.
LEMMA StepShift ==
  TypeOK /\ LockInv /\ StreamInv /\ ShiftInv /\ [Next]_vars => ShiftInv'
<1> SUFFICES ASSUME TypeOK, LockInv, StreamInv, ShiftInv, [Next]_vars
             PROVE  ShiftInv'
  OBVIOUS
<1>1. ASSUME Running, NEW t \in Threads, Transfer(t) PROVE ShiftInv'
  <2>1. UNCHANGED unguarded
    BY <1>1, TransferMove
  <2>2. CASE Spin(t)
    <3>1. InStep => Segments
      BY <1>1, <2>2, AtSend DEF Spin, Progress
    <3> QED
      BY <2>1, <3>1 DEF ShiftInv, InStep
  <2>3. CASE ~Spin(t)
    <3>1. UNCHANGED shifts
      BY <1>1, <2>3 DEF Transfer, Send, Poll, ReadLen, ReadBody, ReadEof, Torn
    <3> QED
      BY <2>1, <3>1 DEF ShiftInv
  <2> QED
    BY <2>2, <2>3
<1>2. ASSUME NEW g \in Pings, PingStep(g), Running PROVE ShiftInv'
  <2>1. CASE Transfer(g)
    BY <1>1, <1>2, <2>1, ThreadFacts
  <2>2. CASE PUnlock(g)
    BY <2>2 DEF PUnlock, pingFrame, connVars, Unlock, ShiftInv
  <2>3. CASE PTest(g) \/ PLock(g) \/ PGot(g) \/ PSleep(g) \/ Die(g)
    <3>1. UNCHANGED <<shifts, unguarded>>
      BY <2>3 DEF PTest, PLock, PGot, PSleep, Die, pingFrame, connVars, lockVars
    <3> QED
      BY <3>1 DEF ShiftInv
  <2> QED
    BY <1>2, <2>1, <2>2, <2>3 DEF PingStep
<1>3. CASE Command
  BY <1>3 DEF Command, Enter, EndOfInput, Acquire, Failed, Received, Decode,
     Undecodable, Release, MkdirStep, GetStep, Completed, Return, Check,
     returnFrame, connVars, lockVars, Unlock, ShiftInv
<1>4. CASE Session
  <2>1. CASE Close \/ Unresolved \/ Dial
    BY <2>1 DEF Close, Unresolved, Dial, NewSocket, ShiftInv
  <2>2. CASE ~(Close \/ Unresolved \/ Dial)
    BY <1>4, <2>2
       DEF Session, TryLock, ForceUnlock, Cancel, Connect, Refused, Exhausted,
           Authenticated, Spawn, Authed, Stop, Join, ClosingReply, Shut,
           mainFrame, attemptFrame, connVars, lockVars, Unlock, ShiftInv
  <2> QED
    BY <2>1, <2>2
<1>5. CASE Server \/ UNCHANGED vars
  BY <1>5 DEF Server, Segment, Reply, PeerClose, lockVars, vars, xVars,
              connVars, ShiftInv
<1> QED
  BY <1>1, <1>2, <1>3, <1>4, <1>5, ThreadFacts DEF Next, MainStep

LEMMA ShiftHolds == Spec => []ShiftInv
<1>1. Init => ShiftInv
  BY DEF Init, ShiftInv
<1> QED
  BY <1>1, InitType, InitLock, StepType, StepLock, StreamHolds, StepShift, PTL DEF Spec

\* read_socket's two calls find a length and its body in front of them, so that
\* it loops on a torn frame only if replies come in pieces or the mutex was lost
\* on the connection (WholeFrames).
THEOREM FramesWhole == Spec => []WholeFrames
<1>1. StreamInv /\ ShiftInv => WholeFrames
  BY DEF StreamInv, ShiftInv, InStep, WholeFrames, Progress, AfterSend,
         ExchangeLabels
<1> QED BY <1>1, StreamHolds, ShiftHolds, PTL


-----------------------------------------------------------------------------
(* The failures: what an exchange that gave up or lost the connection      *)
(* leaves behind until the command it belongs to is over (SoundInv).       *)

\* Main alone can do anything that matters: no ping thread is in an exchange.
LEMMA InitQuiet == Init => QuietInv
BY ThreadFacts DEF Init, QuietInv

LEMMA StepQuiet == TypeOK /\ QuietInv /\ [Next]_vars => QuietInv'
<1> SUFFICES ASSUME TypeOK, QuietInv, [Next]_vars, pings' = 0 PROVE QuietInv'
  BY DEF QuietInv
<1> DEFINE Calm == {"none", "test", "sleep", "dead"}
<1>1. ASSUME NEW g \in Pings, PingStep(g) PROVE QuietInv'
  <2>1. pings = 0 /\ pc[g] \in Calm
    <3>1. pings' \in {pings, pings + 1} /\ pings \in Nat
      BY <1>1, ClientAssumption
         DEF PingStep, PTest, PLock, PGot, PUnlock, PSleep, Die, pingFrame,
             ctlVars, TypeOK, CtlType
    <3> QED
      BY <3>1 DEF QuietInv
  <2>2. ~Transfer(g)
    BY <2>1, ThreadFacts, TransferMove DEF ExchangeLabels
  <2>3. \E l \in Calm : Goto(g, l)
    BY <1>1, <2>1, <2>2 DEF PingStep, PTest, PLock, PGot, PUnlock, PSleep, Die
  <2>4. \A h \in Pings : pc'[h] \in {pc[h]} \cup Calm
    BY <2>3, ThreadFacts DEF Goto, TypeOK, ExecType
  <2> QED
    BY <2>1, <2>4 DEF QuietInv
<1>2. CASE MainStep
  <2>1. \A h \in Pings : pc'[h] \in {pc[h], "test"}
    <3>1. CASE Spawn
      BY <3>1, ThreadFacts DEF Spawn, Jump, Goto, TypeOK, ExecType
    <3>2. CASE MainStep /\ ~Spawn
      <4>1. UNCHANGED pc \/ \E l : Goto(Main, l)
        BY <3>2, ThreadFacts, TransferMove
           DEF MainStep, Command, Enter, EndOfInput, Acquire, Failed, Received,
               Decode, Undecodable, Release, MkdirStep, GetStep, Completed,
               Return, Check, Leave, Session, TryLock, ForceUnlock, Cancel,
               Close, Connect, Refused, Unresolved, Dial, Exhausted,
               Authenticated, Authed, Stop, Join, ClosingReply, Shut, Jump,
               attemptFrame
      <4> QED
        BY <4>1, ThreadFacts DEF Goto, TypeOK, ExecType
    <3> QED
      BY <1>2, <3>1, <3>2
  <2>2. UNCHANGED pings
    BY <1>2 DEF MainStep, Command, Enter, EndOfInput, Acquire, Failed, Received,
       Decode, Undecodable, Release, MkdirStep, GetStep, Completed, Return,
       Check, returnFrame, Session, TryLock, ForceUnlock, Cancel, Close,
       Connect, Refused, Unresolved, Dial, Exhausted, Authenticated, Spawn,
       Authed, Stop, Join, ClosingReply, Shut, mainFrame, attemptFrame, ctlVars
  <2> QED
    BY <2>1, <2>2 DEF QuietInv
<1>3. CASE (Server /\ UNCHANGED ctlVars) \/ UNCHANGED vars
  BY <1>3 DEF Server, Segment, Reply, PeerClose, execVars, vars, xVars, ctlVars,
              QuietInv
<1> QED
  BY <1>1, <1>2, <1>3 DEF Next

LEMMA SoundPing ==
  ASSUME TypeOK, QuietInv, SoundInv, NEW g \in Pings, PingStep(g)
  PROVE  SoundInv'
<1> SUFFICES ASSUME pings' = 0, "complete" \notin Cmds, shifts' = 0
             PROVE  SoundInv'
  BY DEF SoundInv
<1>1. pings = 0 /\ pc[g] \in {"none", "test", "sleep", "dead"}
  <2>1. pings' \in {pings, pings + 1} /\ pings \in Nat
    BY ClientAssumption DEF PingStep, PTest, PLock, PGot, PUnlock, PSleep, Die, pingFrame, ctlVars,
                            TypeOK, CtlType
  <2> QED BY <2>1 DEF QuietInv
<1>2. ~Transfer(g)
  BY <1>1, ThreadFacts, TransferMove DEF ExchangeLabels
<1>3. /\ \E l \in {"dead", "sleep", "test"} : Goto(g, l)
      /\ UNCHANGED <<open, abandoned, shifts, last_err, phase, status>>
      /\ Forget(g) \/ UNCHANGED err
  BY <1>1, <1>2 DEF PingStep, PTest, PLock, PGot, PUnlock, PSleep, Die, pingFrame, locals,
                    connVars, ctlVars, callVars
<1>4. pc'[Main] = pc[Main] /\ err'[Main] = err[Main]
  BY <1>3, ThreadFacts DEF Goto, Forget, TypeOK, ExecType
<1> QED BY <1>1, <1>3, <1>4 DEF SoundInv, Sound, At

LEMMA SoundServer ==
  ASSUME SoundInv, Server \/ UNCHANGED xVars, UNCHANGED ctlVars
  PROVE  SoundInv'
<1>1. UNCHANGED <<open, abandoned, shifts, last_err, phase, status, pc, err, pings>>
  BY DEF Server, Segment, Reply, PeerClose, execVars, xVars, connVars, ctlVars, callVars
<1> QED BY <1>1 DEF SoundInv, Sound, At

\* An exchange of main's that fails says so in c->last_err.
LEMMA SoundTransfer ==
  ASSUME TypeOK, LockInv, SoundInv, Transfer(Main), UNCHANGED ctlVars
  PROVE  SoundInv'
<1> SUFFICES ASSUME pings' = 0, "complete" \notin Cmds, shifts' = 0
             PROVE  SoundInv'
  BY DEF SoundInv
<1>1. /\ pings = 0 /\ shifts = 0 /\ UNCHANGED <<status, phase>>
      /\ pc[Main] \in ExchangeLabels
  BY ThreadFacts, TransferMove, TransferShifts DEF ctlVars, callVars
<1>3. ASSUME NEW l \in Labels, Goto(Main, l) PROVE pc'[Main] = l
  BY <1>3, ThreadFacts DEF Goto, TypeOK, ExecType
<1>4. SendFailed(Main) \in Labels /\ RecvFailed(Main) \in Labels
  BY ThreadFacts, FailLabels DEF TypeOK
<1>5. CASE /\ open /\ Goto(Main, "poll") /\ pc[Main] = "send" /\ UNCHANGED <<open, abandoned>>
  <2>1. phase # "close" => Sound
    BY <1>1, <1>5 DEF SoundInv, Sound, At, TypeOK, ExecType
  <2>2. pc'[Main] = "poll"
    BY <1>3, <1>5 DEF Labels, ExchangeLabels
  <2> QED BY <1>1, <1>5, <2>1, <2>2 DEF SoundInv, Sound, At
<1>6. CASE /\ Goto(Main, SendFailed(Main)) /\ last_err' = "SOCK"
           /\ err' = [err EXCEPT ![Main] = "SOCK"]
  <2>1. pc'[Main] = SendFailed(Main) /\ err'[Main] = "SOCK"
    BY <1>3, <1>4, <1>6, ThreadFacts DEF TypeOK, ExecType
  <2>2. pc'[Main] \in {"attempt", "release", "shut"}
    BY <2>1 DEF SendFailed, TypeOK, ExecType
  <2> QED BY <1>1, <1>6, <2>1, <2>2 DEF SoundInv, At, AfterSend, ExchangeLabels
<1>7. CASE Goto(Main, RecvFailed(Main)) /\ last_err' = "SOCK"
  <2>1. pc'[Main] = RecvFailed(Main)
    BY <1>3, <1>4, <1>7
  <2>2. pc'[Main] \in {"failed", "shut"}
    BY <2>1 DEF RecvFailed, SendFailed, TypeOK, ExecType
  <2> QED BY <1>1, <1>7, <2>1, <2>2 DEF SoundInv, At, AfterSend, ExchangeLabels
<1>8. CASE Goto(Main, "crash")
  <2>1. pc'[Main] = "crash"
    BY <1>3, <1>8 DEF Labels
  <2> QED BY <1>1, <2>1 DEF SoundInv, At, AfterSend, ExchangeLabels
<1>9. CASE /\ pc[Main] # "send" /\ UNCHANGED <<open, abandoned>>
           /\ (\E l \in AfterSend : Goto(Main, l)) \/ UNCHANGED pc
  <2>1. pc[Main] \in AfterSend /\ pc'[Main] \in AfterSend
    BY <1>1, <1>3, <1>9 DEF AfterSend, Labels, ExchangeLabels
  <2>2. phase # "close" => Sound
    BY <1>1, <2>1 DEF SoundInv
  <2> QED BY <1>1, <1>9, <2>1, <2>2 DEF SoundInv, Sound, At, AfterSend, ExchangeLabels
<1>10. CASE Send(Main)
  BY <1>5, <1>6, <1>8, <1>10 DEF Send
<1>11. CASE Poll(Main)
  BY <1>7, <1>9, <1>11 DEF Poll, AfterSend, ExchangeLabels
<1>12. CASE ReadLen(Main)
  BY <1>7, <1>8, <1>9, <1>12 DEF ReadLen, ReadEof, Torn, readFrame, AfterSend, ExchangeLabels
<1>13. CASE ReadBody(Main)
  BY <1>7, <1>8, <1>9, <1>13 DEF ReadBody, ReadEof, Torn, readFrame, AfterSend, ExchangeLabels
<1>14. CASE Spin(Main) /\ UNCHANGED shifts
  BY <1>7, <1>9, <1>14 DEF Spin, ReadEof, readFrame, AfterSend, ExchangeLabels
<1>15. ~(Spin(Main) /\ shifts' = shifts + 1)
  BY <1>1
<1> QED
  BY <1>10, <1>11, <1>12, <1>13, <1>14, <1>15 DEF Transfer, Spin, ReadEof

\* A command on a connection that is no longer sound ends in a reconnect.
LEMMA SoundCommand ==
  ASSUME TypeOK, LockInv, SoundInv, Command
  PROVE  SoundInv'
<1> USE DEF At, Jump
<1> SUFFICES ASSUME pings' = 0, "complete" \notin Cmds, shifts' = 0
             PROVE  SoundInv'
  BY DEF SoundInv
<1>1. /\ UNCHANGED <<open, abandoned, shifts, phase, pings>>
      /\ \E l \in Labels : Goto(Main, l)
  BY DEF Command, Enter, EndOfInput, Acquire, Failed, Received, Decode, Undecodable,
         Release, MkdirStep, GetStep, Completed, Return, Check, Leave, returnFrame,
         connVars, ctlVars, sessVars, Labels, ExchangeLabels
<1>3. ASSUME NEW l \in Labels, Goto(Main, l) PROVE pc'[Main] = l
  BY <1>3, ThreadFacts DEF Goto, TypeOK, ExecType
<1>4. ASSUME NEW l \in {"lock", "check", "decode", "release", "ret", "idle"},
             Goto(Main, l), Sound
      PROVE  SoundInv'
  <2>1. pc'[Main] = l
    BY <1>3, <1>4 DEF Labels
  <2> QED BY <1>1, <1>4, <2>1 DEF SoundInv, Sound, AfterSend, ExchangeLabels
<1>5. ASSUME NEW l \in {"stop", "trylock", "crash", "attempt"}, Goto(Main, l) PROVE SoundInv'
  <2>1. pc'[Main] = l
    BY <1>3, <1>5 DEF Labels
  <2> QED BY <1>1, <1>5, <2>1 DEF SoundInv, AfterSend, ExchangeLabels
<1>6. ASSUME NEW c \in Cmds, Enter(c) PROVE SoundInv'
  <2>1. Sound
    BY <1>1, <1>6 DEF Enter, SoundInv
  <2> QED BY <1>4, <1>6, <2>1 DEF Enter
<1>7. CASE Acquire
  <2>1. Sound /\ Goto(Main, "send")
    BY <1>1, <1>7 DEF Acquire, SoundInv
  <2>2. pc'[Main] = "send"
    BY <1>3, <2>1 DEF Labels, ExchangeLabels
  <2> QED BY <1>1, <2>1, <2>2 DEF SoundInv, Sound, AfterSend, ExchangeLabels
<1>8. CASE Failed
  <2>1. last_err = "SOCK" /\ UNCHANGED last_err /\ err'[Main] = last_err
    BY <1>1, <1>8, ThreadFacts DEF Failed, SoundInv, TypeOK, ExecType
  <2>2. Goto(Main, "release") \/ Goto(Main, "attempt")
    BY <1>8, <2>1 DEF Failed
  <2>3. pc'[Main] \in {"release", "attempt"}
    BY <1>3, <2>2 DEF Labels
  <2> QED BY <1>1, <2>1, <2>3 DEF SoundInv, AfterSend, ExchangeLabels
<1>9. CASE Received
  <2>1. Sound
    BY <1>1, <1>9 DEF Received, SoundInv, AfterSend, ExchangeLabels
  <2> QED BY <1>4, <1>9, <2>1 DEF Received
<1>10. CASE Decode \/ Undecodable
  <2>1. Sound
    BY <1>1, <1>10 DEF Decode, Undecodable, SoundInv
  <2> QED BY <1>4, <1>5, <1>10, <2>1 DEF Decode, Undecodable
<1>11. CASE Release
  <2>1. Sound \/ (err[Main] = "SOCK" /\ last_err = "SOCK")
    BY <1>1, <1>11 DEF Release, SoundInv
  <2>2. pc'[Main] = "ret" /\ UNCHANGED <<err, last_err>>
    BY <1>3, <1>11 DEF Release, Labels
  <2> QED BY <1>1, <2>1, <2>2 DEF SoundInv, Sound, AfterSend, ExchangeLabels
<1>12. CASE MkdirStep \/ GetStep
  <2>1. Sound
    BY <1>1, <1>12 DEF MkdirStep, GetStep, Climb, Unwind, SoundInv
  <2> QED BY <1>4, <1>12, <2>1 DEF MkdirStep, GetStep
<1>13. ~Completed
  BY DEF Completed, TypeOK, CtlType
<1>14. CASE Return
  <2>1. pc'[Main] = "check" /\ UNCHANGED last_err
    BY <1>3, <1>14 DEF Return, Labels, returnFrame
  <2>2. Sound \/ status' = "SOCK"
    BY <1>1, <1>14 DEF Return, SoundInv
  <2> QED BY <1>1, <2>1, <2>2 DEF SoundInv, Sound, AfterSend, ExchangeLabels
<1>15. CASE Check
  <2>1. CASE status = "SOCK" \/ last_err = "FATAL"
    BY <1>5, <1>15, <2>1 DEF Check
  <2>2. CASE status # "SOCK"
    <3>1. Sound
      BY <1>1, <1>15, <2>2 DEF Check, SoundInv
    <3> QED BY <1>4, <1>5, <1>15, <3>1 DEF Check, Leave
  <2> QED BY <2>1, <2>2
<1>16. CASE EndOfInput
  BY <1>5, <1>16 DEF EndOfInput
<1> QED
  BY <1>6, <1>7, <1>8, <1>9, <1>10, <1>11, <1>12, <1>13, <1>14, <1>15, <1>16 DEF Command

\* A connection starts without a reply given up, and is handed on sound.
LEMMA SoundSession ==
  ASSUME TypeOK, LockInv, SoundInv, Session
  PROVE  SoundInv'
<1> USE DEF At, Jump
<1> SUFFICES ASSUME pings' = 0, "complete" \notin Cmds, shifts' = 0
             PROVE  SoundInv'
  BY DEF SoundInv
<1>1. UNCHANGED pings /\ (UNCHANGED shifts \/ Close \/ Unresolved \/ Dial)
  BY DEF Session, TryLock, ForceUnlock, Cancel, Close, Connect, Refused, Unresolved, Dial,
         Exhausted, Authenticated, Spawn, Authed, Stop, Join, ClosingReply, Shut, mainFrame,
         attemptFrame, connVars, ctlVars
<1>2. ASSUME NEW l \in Labels, Goto(Main, l)
      PROVE  pc'[Main] = l
  BY <1>2, ThreadFacts DEF Goto, TypeOK, ExecType
<1>3. ASSUME NEW l \in {"forceunlock", "cancel", "close", "connect", "attempt", "exit", "stop",
                        "crash", "join", "shut", "done"},
             Goto(Main, l)
      PROVE  SoundInv'
  <2>1. pc'[Main] = l
    BY <1>2, <1>3 DEF Labels
  <2> QED BY <1>1, <1>3, <2>1 DEF SoundInv, AfterSend, ExchangeLabels
<1>4. CASE TryLock \/ ForceUnlock \/ Cancel \/ Close \/ Connect \/ Exhausted \/ Stop
             \/ ClosingReply \/ Shut
  BY <1>3, <1>4 DEF TryLock, ForceUnlock, Cancel, Close, Connect, Exhausted, Stop,
                    ClosingReply, Shut
<1>5. CASE Refused
  BY <1>1, <1>5 DEF Refused, attemptFrame, connVars, callVars, SoundInv, Sound
<1>6. CASE Unresolved \/ Dial
  <2>1. abandoned' = 0 /\ UNCHANGED phase /\ Goto(Main, "send") /\ pc[Main] = "attempt"
    BY <1>6 DEF Unresolved, Dial, NewSocket, attemptFrame
  <2>2. phase = "auth"
    BY <2>1 DEF LockInv, PhaseInv, TypeOK, ExecType, ExchangeLabels
  <2>3. pc'[Main] = "send"
    BY <1>2, <2>1 DEF Labels, ExchangeLabels
  <2> QED BY <1>1, <2>1, <2>2, <2>3 DEF SoundInv, AfterSend, ExchangeLabels
<1>7. CASE Authenticated
  <2>1. CASE Goto(Main, "spawn")
    <3>1. Sound /\ UNCHANGED <<open, abandoned>>
      BY <1>1, <1>7 DEF Authenticated, SoundInv, AfterSend, ExchangeLabels, mainFrame, connVars
    <3>2. pc'[Main] = "spawn"
      BY <1>2, <2>1 DEF Labels
    <3> QED BY <1>1, <3>1, <3>2 DEF SoundInv, Sound, AfterSend, ExchangeLabels
  <2> QED BY <1>3, <1>7, <2>1 DEF Authenticated
<1>8. CASE Spawn
  <2>1. CASE Goto(Main, "exit")
    BY <1>3, <2>1
  <2>2. CASE pc' = [pc EXCEPT ![conns] = "test", ![Main] = "authed"]
    <3>1. Sound /\ UNCHANGED <<open, abandoned>>
      BY <1>1, <1>8 DEF Spawn, SoundInv, connVars
    <3>2. pc'[Main] = "authed"
      BY <2>2, ThreadFacts DEF TypeOK, ExecType, CtlType
    <3> QED BY <1>1, <3>1, <3>2 DEF SoundInv, Sound, AfterSend, ExchangeLabels
  <2> QED BY <1>8, <2>1, <2>2 DEF Spawn
<1>9. CASE Authed
  <2>1. CASE Goto(Main, "stop")
    BY <1>3, <2>1
  <2>2. CASE Goto(Main, "idle")
    <3>1. Sound /\ UNCHANGED <<open, abandoned>>
      BY <1>1, <1>9 DEF Authed, SoundInv, connVars
    <3>2. pc'[Main] = "idle"
      BY <1>2, <2>2 DEF Labels
    <3> QED BY <1>1, <3>1, <3>2 DEF SoundInv, Sound, AfterSend, ExchangeLabels
  <2> QED BY <1>9, <2>1, <2>2 DEF Authed, Leave
<1>10. CASE Join
  <2>1. phase' = "close" /\ pc'[Main] = "send"
    BY <1>2, <1>10 DEF Join, Labels, ExchangeLabels
  <2> QED BY <1>1, <2>1 DEF SoundInv, AfterSend, ExchangeLabels
<1> QED
  BY <1>4, <1>5, <1>6, <1>7, <1>8, <1>9, <1>10 DEF Session

LEMMA InitSound == Init => SoundInv
BY ThreadFacts DEF Init, SoundInv, AfterSend, ExchangeLabels, At

LEMMA StepSound ==
  TypeOK /\ LockInv /\ QuietInv /\ SoundInv /\ [Next]_vars => SoundInv'
<1> SUFFICES ASSUME TypeOK, LockInv, QuietInv, SoundInv, [Next]_vars PROVE SoundInv'
  OBVIOUS
<1>1. CASE UNCHANGED vars
  <2>1. UNCHANGED xVars /\ UNCHANGED ctlVars
    BY <1>1 DEF vars
  <2> QED BY <2>1, SoundServer
<1> QED
  BY <1>1, SoundCommand, SoundSession, SoundTransfer, SoundPing, SoundServer DEF Next, MainStep

\* Every failure of an exchange of main's leads to a reconnect before the next
\* command, as long as no ping has overwritten c->last_err and no completion has
\* ignored it: processCommand sees ZK_SOCKET_ERR in the status (SoundConnection).
THEOREM CommandsStartSound == Spec => []SoundConnection
<1>1. SoundInv => SoundConnection
  BY DEF SoundInv, SoundConnection, Sound, At
<1> QED
  BY <1>1, InitType, InitLock, InitQuiet, InitSound, StepType, StepLock, StepQuiet,
     StepSound, PTL DEF Spec
=============================================================================
