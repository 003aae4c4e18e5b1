----------------------------- MODULE MCReports -----------------------------
(* The clock moves by less than a second, by one, by two, or back. *)
EXTENDS Reports

MCSteps == {1, 4, 8, -1}
=============================================================================
