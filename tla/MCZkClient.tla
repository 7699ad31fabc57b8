----------------------------- MODULE MCZkClient -----------------------------
(***************************************************************************)
(* Small instances of ZkClient for TLC.  The configurations choose among   *)
(* these sets of commands: every command the user can type, the ones that  *)
(* differ in how they take the mutex and in how they look at errors, and   *)
(* the ones that a session ends with.                                      *)
(***************************************************************************)
EXTENDS ZkClient

Typed    == {"get", "create", "mkdir", "ls", "stat", "set", "del", "unknown",
             "quit"}
Contrary == {"ls", "del", "complete"}
Listing  == {"ls"}
Finite   == {"mkdir", "ls", "quit"}

\* Codes a server answers with.
NodeCodes  == {"NONODE", "FATAL"}
FatalCodes == {"FATAL"}
=============================================================================
