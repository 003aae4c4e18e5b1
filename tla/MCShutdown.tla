---------------------------- MODULE MCShutdown ----------------------------
(* Two fuzzers one after the other; the first runs two executions, so that a
   packet a timeout left behind can meet an end in the middle of the second. *)
EXTENDS Shutdown

MCExecs == <<2, 1>>

=============================================================================
