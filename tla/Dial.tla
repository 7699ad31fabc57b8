---------------------------------- MODULE Dial ----------------------------------
(***************************************************************************)
(* do_connect of zkclient.c and connect_server of conn.c, with what each   *)
(* entry of the server list leads to and the descriptors of the process:   *)
(* one connect after another, as connections break.  The codes they return *)
(* do not match: only some failures send do_connect to the next server at  *)
(* once, the others look like a socket and fail in authenticate.           *)
(***************************************************************************)
EXTENDS Integers, FiniteSets, FiniteSetsExt

CONSTANTS
  Servers,    \* c->nservers
  Limit,      \* descriptors the process may have, next to the terminal
  MaxBreaks   \* Bound: connections that break

ASSUME DialAssumption ==
  Servers \in Nat \ {0} /\ Limit \in Nat \ {0} /\ MaxBreaks \in Nat

\* Entries of the list that never lead to a server: without a colon, without a
\* port above 0, with a name nobody knows.
Entries == {"noport", "zero", "unknown"}

\* What a server does: it cannot be reached, it does not answer in time, it
\* closes the connection, it authenticates the client.
Hosts == {"down", "deaf", "closing", "good"}

\* Numbers of descriptors: 0, 1 and 2 are the terminal.
Fds == 3..(Limit + 2)

VARIABLES
  kind,      \* of each server of the list
  pc,        \* "start", "loop", "up", "reset", "exit"
  start,     \* of do_connect, modulo nservers
  retries,   \* of do_connect
  sock,      \* c->sock
  open,      \* the descriptors that are open
  breaks,    \* how many connections broke
  tried,     \* history: the servers this do_connect came to
  starved,   \* history: whether it got no descriptor
  leaks      \* history: attempts that left their descriptor open

vars == <<kind, pc, start, retries, sock, open, breaks, tried, starved, leaks>>

Init ==
  /\ kind \in [0..(Servers - 1) -> Entries \cup Hosts]
  /\ pc = "start" /\ start = 0 /\ retries = 0
  /\ sock = -1 /\ open = {}
  /\ breaks = 0 /\ tried = {} /\ starved = FALSE /\ leaks = 0

\* rand() % c->nservers
Start ==
  /\ pc = "start"
  /\ start' \in 0..(Servers - 1)
  /\ retries' = Servers /\ pc' = "loop"
  /\ tried' = {} /\ starved' = FALSE
  /\ UNCHANGED <<kind, sock, open, breaks, leaks>>

\* Fault: the first server is taken again when the loop is at the last one.
AttemptShort(k) ==
  /\ pc = "loop" /\ retries > 0 /\ kind[start] = k
  /\ tried' = tried \cup {start}
  /\ start' = IF start + 2 >= Servers THEN 0 ELSE start + 1
  /\ retries' = retries - 1
  /\ UNCHANGED <<kind, breaks>>

\* i = start++ % c->nservers: the turn of a server of kind k.
Attempt(k) ==
  /\ pc = "loop" /\ retries > 0 /\ kind[start] = k
  /\ tried' = tried \cup {start}
  /\ start' = (start + 1) % Servers
  /\ retries' = retries - 1
  /\ UNCHANGED <<kind, breaks>>

\* socket(): the lowest number that is free.
Free  == Fds \ open # {}
NewFd == Min(Fds \ open)

\* if (!pos) continue
NoPort == Attempt("noport") /\ UNCHANGED <<pc, sock, open, starved, leaks>>

\* connect_server returns -1, which is taken for a socket; authenticate waits
\* for it and fails.
ZeroPort == Attempt("zero") /\ sock' = -1 /\ UNCHANGED <<pc, open, starved, leaks>>

NoDescriptor ==
  /\ ~Free /\ \E k \in Hosts \cup {"unknown"} : Attempt(k)
  /\ sock' = -1 /\ starved' = TRUE
  /\ UNCHANGED <<pc, open, leaks>>

\* As well, but the socket is open by then, and stays open.
Unknown ==
  /\ Free /\ Attempt("unknown")
  /\ sock' = -1 /\ open' = open \cup {NewFd} /\ leaks' = leaks + 1
  /\ UNCHANGED <<pc, starved>>

\* Fault: the socket is not closed.
DownOpen ==
  /\ Free /\ Attempt("down")
  /\ open' = open \cup {NewFd}
  /\ UNCHANGED <<pc, sock, starved, leaks>>

\* cleanup: closes the socket, and ZK_ERROR sends do_connect to the next server.
Down == Free /\ Attempt("down") /\ UNCHANGED <<pc, sock, open, starved, leaks>>

\* Connected, or not in time; authenticate fails and the socket stays open.
Deaf ==
  /\ Free /\ Attempt("deaf")
  /\ sock' = NewFd /\ open' = open \cup {NewFd} /\ leaks' = leaks + 1
  /\ UNCHANGED <<pc, starved>>

\* Fault: the failure of authenticate is ignored.
ClosingIgnored ==
  /\ Free /\ Attempt("closing")
  /\ sock' = NewFd /\ pc' = "up"
  /\ UNCHANGED <<open, starved, leaks>>

\* read_socket closes it; c->sock keeps the number.
Closing ==
  /\ Free /\ Attempt("closing")
  /\ sock' = NewFd
  /\ UNCHANGED <<pc, open, starved, leaks>>

\* Fault: a failure of the servers before is still returned.
GoodTooLate ==
  /\ Free /\ Attempt("good")
  /\ sock' = NewFd /\ open' = open \cup {NewFd}
  /\ pc' = IF sock = -1 THEN "up" ELSE "loop"
  /\ UNCHANGED <<starved, leaks>>

Good ==
  /\ Free /\ Attempt("good")
  /\ sock' = NewFd /\ open' = open \cup {NewFd} /\ pc' = "up"
  /\ UNCHANGED <<starved, leaks>>

\* do_connect returns ZK_ERROR, and both of its callers exit.
GiveUp ==
  /\ pc = "loop" /\ retries = 0
  /\ pc' = "exit"
  /\ UNCHANGED <<kind, start, retries, sock, open, breaks, tried, starved, leaks>>

\* A command or a ping fails, at the end of the stream with c->sock closed.
Break ==
  /\ pc = "up" /\ breaks < MaxBreaks
  /\ breaks' = breaks + 1 /\ pc' = "reset"
  /\ open' \in {open, open \ {sock}}
  /\ UNCHANGED <<kind, start, retries, sock, tried, starved, leaks>>

\* reset_zkclient, and servers come and go until the next connect.
Reset ==
  /\ pc = "reset"
  /\ open' = open \ {sock} /\ sock' = -1 /\ pc' = "start"
  /\ kind' \in [0..(Servers - 1) -> Entries \cup Hosts]
  /\ \A s \in 0..(Servers - 1) :
       kind[s] \in Entries \/ kind'[s] \in Entries => kind'[s] = kind[s]
  /\ UNCHANGED <<start, retries, breaks, tried, starved, leaks>>

Next ==
  \/ Start
  \/ NoPort \/ ZeroPort \/ NoDescriptor \/ Unknown \/ Down \/ Deaf \/ Closing \/ Good
  \/ GiveUp \/ Break \/ Reset

Spec == Init /\ [][Next]_vars

-----------------------------------------------------------------------------
(* Properties.                                                             *)

\* Types, and that a connection in use is open.
TypeOK ==
  /\ kind \in [0..(Servers - 1) -> Entries \cup Hosts]
  /\ pc \in {"start", "loop", "up", "reset", "exit"}
  /\ start \in 0..(Servers - 1) /\ retries \in 0..Servers
  /\ sock \in Fds \cup {-1} /\ open \subseteq Fds
  /\ breaks \in 0..MaxBreaks /\ tried \subseteq 0..(Servers - 1)
  /\ starved \in BOOLEAN /\ leaks \in Nat
  /\ pc = "up" => sock \in open

\* The client gives up, and the process ends, only when it came to every
\* server of the list and none would have taken it, however the failures on
\* the way were returned; or when earlier attempts used up the descriptors.
GoodFound ==
  pc = "exit" =>
    /\ tried = 0..(Servers - 1)
    /\ starved \/ \A s \in tried : kind[s] # "good"

\* No server is tried twice in one connect.
EachOnce == pc = "loop" => Cardinality(tried) + retries = Servers

\* What is open, apart from the connection, are the descriptors of attempts
\* that failed on a name or in authenticate: a reset closes its own connection
\* and never one of a number that was given out again since read_socket closed
\* it.
OnlyFailuresLeak == pc \in {"up", "reset"} => Cardinality(open \ {sock}) = leaks

\* Why each server gets one turn: those that had theirs are the ones before
\* start, around the list, one for each turn that is used up.
TurnInv ==
  pc # "start" =>
    tried = {s \in 0..(Servers - 1) :
               \/ s < start /\ start - s <= Servers - retries
               \/ s >= start + retries}

\* Why the turns and the servers that had one add up, in numbers.
CountInv == pc # "start" => Cardinality(tried) + retries = Servers

\* Why it gives up only when it must: a good server that had its turn took the
\* client, or there was no descriptor for it.
MissInv ==
  /\ pc \in {"loop", "exit"} => starved \/ \A s \in tried : kind[s] # "good"
  /\ pc = "exit" => retries = 0

\* Why descriptors are counted right: between two connections all that is open
\* is leaked, and the socket of a connection is not one of these.
LeakInv ==
  /\ pc \in {"start", "loop"} => Cardinality(open) = leaks
  /\ pc \in {"up", "reset"} => Cardinality(open \ {sock}) = leaks
=================================================================================
