------------------------------- MODULE Jute -------------------------------
(***************************************************************************)
(* The records of the ZooKeeper protocol (zookeeper.jute.c): each is the   *)
(* sequence of fields that its serialize function writes and that its      *)
(* deserialize function reads, in order.  A record inside a record adds    *)
(* nothing of its own to an archive (start_record and end_record are       *)
(* empty), so its fields stand in the sequence; a vector adds its count.   *)
(***************************************************************************)
EXTENDS Sequences

Field(kind) == [kind |-> kind, of |-> <<>>]

int    == Field("int")
long   == Field("long")
bool   == Field("bool")
buffer == Field("buffer")
string == Field("string")

Vector(schema) == <<[kind |-> "vector", of |-> schema]>>

\* Records that other records hold.
Id              == <<string, string>>
ACL             == <<int>> \o Id
Stat            == <<long, long, long, long, int, int, int, long, int, int, long>>
StatPersisted   == <<long, long, long, long, int, int, int, long, long>>
StatPersistedV1 == <<long, long, long, long, int, int, int, long>>
Txn             == <<int, buffer>>
String_vector   == Vector(<<string>>)
ACL_vector      == Vector(ACL)
Id_vector       == Vector(Id)
Txn_vector      == Vector(Txn)

\* The session and the headers.
ConnectRequest  == <<int, long, int, long, buffer>>
ConnectResponse == <<int, int, long, buffer>>
RequestHeader   == <<int, int>>
ReplyHeader     == <<int, long, int>>
MultiHeader     == <<int, bool, int>>
AuthPacket      == <<int, string, buffer>>

\* Requests.
GetDataRequest        == <<string, bool>>
SetDataRequest        == <<string, buffer, int>>
GetSASLRequest        == <<buffer>>
SetSASLRequest        == <<buffer>>
CreateRequest         == <<string, buffer>> \o ACL_vector \o <<int>>
DeleteRequest         == <<string, int>>
GetChildrenRequest    == <<string, bool>>
GetChildren2Request   == <<string, bool>>
CheckVersionRequest   == <<string, int>>
GetMaxChildrenRequest == <<string>>
SetMaxChildrenRequest == <<string, int>>
SyncRequest           == <<string>>
GetACLRequest         == <<string>>
SetACLRequest         == <<string>> \o ACL_vector \o <<int>>
ExistsRequest         == <<string, bool>>
SetWatches            == <<long>> \o String_vector \o String_vector \o String_vector

\* Replies.
SetDataResponse        == Stat
SetSASLResponse        == <<buffer>>
GetMaxChildrenResponse == <<int>>
SyncResponse           == <<string>>
SetACLResponse         == Stat
ErrorResponse          == <<int>>
CreateResponse         == <<string>>
ExistsResponse         == Stat
GetDataResponse        == <<buffer>> \o Stat
GetChildrenResponse    == String_vector
GetChildren2Response   == String_vector \o Stat
GetACLResponse         == ACL_vector \o Stat
WatcherEvent           == <<int, int, string>>

\* What servers exchange and log.
LearnerInfo       == <<long, int>>
QuorumPacket      == <<int, long, buffer>> \o Id_vector
FileHeader        == <<int, int, long>>
TxnHeader         == <<long, int, long, long, int>>
CreateTxnV0       == <<string, buffer>> \o ACL_vector \o <<bool>>
CreateTxn         == <<string, buffer>> \o ACL_vector \o <<bool, int>>
DeleteTxn         == <<string>>
SetDataTxn        == <<string, buffer, int>>
CheckVersionTxn   == <<string, int>>
SetACLTxn         == <<string>> \o ACL_vector \o <<int>>
SetMaxChildrenTxn == <<string, int>>
CreateSessionTxn  == <<int>>
ErrorTxn          == <<int>>
MultiTxn          == Txn_vector
=============================================================================
