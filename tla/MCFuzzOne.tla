----------------------------- MODULE MCFuzzOne -----------------------------
(* Instances of FuzzOne for TLC. *)
EXTENDS FuzzOne

MCSeedDir == {<<"plain", "mutated">>, <<"hole">>}
=============================================================================
