------------------------------ MODULE MCKeepAlive ------------------------------
(***************************************************************************)
(* Two kinds of servers: one grants what is asked for up to 6 s, the other *)
(* a session so short that the ping thread pings each time it wakes up.    *)
(***************************************************************************)
EXTENDS KeepAlive

ServersMC == {[least |-> 1000, most |-> 1000], [least |-> 1000, most |-> 6000]}
=============================================================================
