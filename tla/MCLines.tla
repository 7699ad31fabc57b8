-------------------------------- MODULE MCLines --------------------------------
(***************************************************************************)
(* One letter is enough for names to be prefixes of one another.           *)
(***************************************************************************)
EXTENDS Lines

NamesMC == {<<"a">>, <<"a", "a">>}
=============================================================================
