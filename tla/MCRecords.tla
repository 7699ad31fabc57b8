----------------------------- MODULE MCRecords -----------------------------
(***************************************************************************)
(* Small instances of Records for TLC.  A byte has eight values, so that   *)
(* an int of four bytes goes from -2048 to 2047.                           *)
(***************************************************************************)
EXTENDS Records

Back(schema) == [op |-> "record", written |-> schema, wanted |-> schema]

\* Every record of zookeeper.jute.c, written and read back.
AllRecords ==
  {Id, ACL, Stat, StatPersisted, StatPersistedV1, Txn, String_vector,
   ACL_vector, Id_vector, Txn_vector, ConnectRequest, ConnectResponse,
   RequestHeader, ReplyHeader, MultiHeader, AuthPacket, GetDataRequest,
   SetDataRequest, GetSASLRequest, SetSASLRequest, CreateRequest,
   DeleteRequest, GetChildrenRequest, GetChildren2Request,
   CheckVersionRequest, GetMaxChildrenRequest, SetMaxChildrenRequest,
   SyncRequest, GetACLRequest, SetACLRequest, ExistsRequest, SetWatches,
   SetDataResponse, SetSASLResponse, GetMaxChildrenResponse, SyncResponse,
   SetACLResponse, ErrorResponse, CreateResponse, ExistsResponse,
   GetDataResponse, GetChildrenResponse, GetChildren2Response,
   GetACLResponse, WatcherEvent, LearnerInfo, QuorumPacket, FileHeader,
   TxnHeader, CreateTxnV0, CreateTxn, DeleteTxn, SetDataTxn,
   CheckVersionTxn, SetACLTxn, SetMaxChildrenTxn, CreateSessionTxn,
   ErrorTxn, MultiTxn}

RoundTrips == {Back(schema) : schema \in AllRecords}

\* The calls of request.c and the bodies they decode.
Body == [create |-> CreateResponse, exists |-> ExistsResponse,
         get |-> GetDataResponse, set |-> SetDataResponse,
         get_children |-> GetChildrenResponse, del |-> <<>>]

\* Every call, answered with the reply to every call; a ping is answered
\* like del, with a header alone.
Crossed ==
  {[op |-> call, written |-> Reply(Body[other]), wanted |-> Reply(Body[call])] :
     call, other \in DOMAIN Body}

\* What the calls of request.c write.
Requests ==
  {Back(RequestHeader \o request) : request \in {GetDataRequest, SetDataRequest, DeleteRequest}}

Everything == RoundTrips \cup Crossed \cup Requests

\* 0 is what the header of a reply without an error has.
HeaderInts   == {0, -3}
OneLong      == {-12293}
SmallStrings == {<<>>, <<1, 7>>}
Lengths      == 0 .. 2
Shortfalls   == {0, 6, 200}
Sevens       == {7}
=============================================================================
