-------------------------------- MODULE Wire --------------------------------
(***************************************************************************)
(* What a client promises every server it connects to: the first request   *)
(* on a connection is the main thread's ConnectRequest; requests of other  *)
(* kinds follow only once that was answered, or once a retired keeper of an *)
(* earlier connection, which had a reply in hand, reported it and that was *)
(* taken for the answer; they are written by the main thread or by the one *)
(* thread that keeps this very connection alive; a connection is given up, *)
(* and another one opened, only when no thread keeps it; and nothing       *)
(* follows the closing request.                                            *)
(***************************************************************************)
EXTENDS Naturals

CONSTANT MaxEpoch  \* bound on the connections opened

Main   == 0
Nobody == 0  \* no keeper, or no connection yet

VARIABLES
  epoch,    \* number of connections opened so far
  stage,    \* of the latest connection
  written,  \* number of requests written on it
  writer,   \* who wrote the last of them
  keeper,   \* the connection a keep-alive thread may write on, or Nobody
  strays    \* keepers retired with a reply in hand that they will report

wireVars == <<epoch, stage, written, writer, keeper, strays>>

Stages == {"down", "fresh", "greeted", "answered", "misled", "open", "closing",
           "closed"}

\* The connection is there, and nothing but the ConnectRequest was written.
Opening == {"fresh", "greeted", "answered", "misled"}

WireInit ==
  /\ epoch = 0 /\ stage = "down" /\ written = 0 /\ writer = Main
  /\ keeper = Nobody /\ strays = {}

Write(t) == written' = written + 1 /\ writer' = t

DialWire ==
  /\ stage \in {"down"} \cup Opening /\ keeper = Nobody
  /\ epoch < MaxEpoch
  /\ epoch' = epoch + 1 /\ stage' = "fresh" /\ written' = 0 /\ writer' = Main
  /\ UNCHANGED <<keeper, strays>>

Greet ==
  /\ stage = "fresh"
  /\ Write(Main) /\ stage' = "greeted"
  /\ UNCHANGED <<epoch, keeper, strays>>

Answer ==
  /\ stage = "greeted"
  /\ stage' = "answered"
  /\ UNCHANGED <<epoch, written, writer, keeper, strays>>

\* An answer, or what was taken for one, of which nothing is made.
Refuse ==
  /\ stage \in {"answered", "misled"}
  /\ stage' = "greeted"
  /\ UNCHANGED <<epoch, written, writer, keeper, strays>>

\* A stray reports, and it may be taken for the server's word on this one.
Report ==
  /\ \E t \in strays : strays' = strays \ {t}
  /\ \/ UNCHANGED stage
     \/ stage = "greeted" /\ stage' = "misled"
     \/ stage = "misled" /\ stage' = "greeted"
  /\ UNCHANGED <<epoch, written, writer, keeper>>

\* From here on the connection has a keeper of its own.
OpenWire ==
  /\ stage \in {"answered", "misled"}
  /\ stage' = "open" /\ keeper' = epoch
  /\ UNCHANGED <<epoch, written, writer, strays>>

Ask(t) ==
  /\ stage = "open" /\ t \in {Main, keeper}
  /\ Write(t)
  /\ UNCHANGED <<epoch, stage, keeper, strays>>

Retire ==
  /\ keeper # Nobody
  /\ keeper' = Nobody
  /\ strays' \in {strays, strays \cup {keeper}}
  /\ UNCHANGED <<epoch, stage, written, writer>>

Drop ==
  /\ stage \in Opening \cup {"open"} /\ keeper = Nobody
  /\ stage' = "down" /\ written' = 0 /\ writer' = Main
  /\ UNCHANGED <<epoch, keeper, strays>>

Closing ==
  /\ stage = "open" /\ keeper = Nobody
  /\ stage' = "closing"
  /\ UNCHANGED <<epoch, written, writer, keeper, strays>>

\* The closing request, or the failure to write it.
Bye ==
  /\ stage = "closing"
  /\ stage' = "closed"
  /\ Write(Main) \/ UNCHANGED <<written, writer>>
  /\ UNCHANGED <<epoch, keeper, strays>>

WireNext ==
  \/ DialWire \/ Greet \/ Answer \/ Refuse \/ Report \/ OpenWire \/ Retire
  \/ Drop \/ Closing \/ Bye
  \/ \E t \in 0..MaxEpoch : Ask(t)

WireSpec == WireInit /\ [][WireNext]_wireVars
=============================================================================
