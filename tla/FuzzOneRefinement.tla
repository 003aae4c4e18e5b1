------------------------- MODULE FuzzOneRefinement -------------------------
(***************************************************************************)
(* FuzzOne implements ExecContract: the fuzzer's program counter gives the *)
(* phase, the status of every child whether it is alive.                   *)
(***************************************************************************)
EXTENDS FuzzOne

phaseBar == CASE Quiet \/ fpc = "fork" -> "quiet"
              [] fpc = "clone" -> "launch"
              [] fpc = "wait" -> "running"
              [] OTHER -> "judged"

aliveBar == (IF bsim THEN {"bsim"} ELSE {})
            \cup (IF tstat = "alive" THEN {"target"} ELSE {})
            \cup (IF astat = "alive" THEN {"attacker"} ELSE {})
            \cup (IF ipc # "dead" THEN {"interceptor"} ELSE {})

Contract == INSTANCE ExecContract
              WITH phase <- phaseBar, alive <- aliveBar,
                   verdict <- fault, saved <- files

\* fuzz_one keeps its contract: the verdict decides what is saved, a seed is
\* kept only of an execution without a crash and after its last process, and
\* no process outlives the execution.
ContractKept == Contract!ASpec
=============================================================================
