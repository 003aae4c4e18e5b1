--------------------------- MODULE ExecContract ---------------------------
(***************************************************************************)
(* What the campaign loop of btfuzz.c may rely on about one execution,     *)
(* without its message queue and without the order in which the fuzzer     *)
(* cleans up: four processes are started, a verdict is given once the      *)
(* target is gone, what is saved fits the verdict, a seed is kept only of  *)
(* an execution that did not crash, and nothing is left running when the   *)
(* execution ends.                                                         *)
(***************************************************************************)
VARIABLES phase,    \* "quiet", "launch", "running", "judged"
          alive,    \* processes of the execution still running
          verdict,  \* what became of the target
          saved     \* kinds of file saved in this execution

Processes == {"bsim", "target", "attacker", "interceptor"}
avars == <<phase, alive, verdict, saved>>

AInit == phase = "quiet" /\ alive = {} /\ verdict = "none" /\ saved = {}

Begin ==
  /\ phase = "quiet" /\ alive = {}
  /\ phase' = "launch" /\ alive' = Processes \ {"interceptor"}
  /\ verdict' = "none" /\ saved' = {}

Launch ==
  /\ phase = "launch"
  /\ phase' = "running" /\ alive' = alive \cup {"interceptor"}
  /\ UNCHANGED <<verdict, saved>>

\* The phy is taken down only once the target is gone.  The interceptor kills
\* a target that takes too long, and leaves in the same step.
End(P) ==
  /\ phase # "quiet" /\ P \subseteq alive
  /\ "bsim" \in P => "target" \notin alive
  /\ alive' = alive \ P
  /\ UNCHANGED <<phase, verdict, saved>>

EndSome == End({"bsim"}) \/ End({"target"}) \/ End({"attacker"})
           \/ End({"interceptor"}) \/ End({"target", "interceptor"})

Judge ==
  /\ phase = "running" /\ "target" \notin alive
  /\ phase' = "judged" /\ verdict' \in {"none", "crash", "error", "timeout"}
  /\ UNCHANGED <<alive, saved>>

Fits(r) == \/ r = "crash" /\ verdict = "crash"
           \/ r = "targetErr" /\ verdict = "error"
           \/ r = "timeout" /\ verdict = "timeout"
           \/ r = "attackerErr" /\ "attacker" \notin alive

Save ==
  /\ phase = "judged"
  /\ \E r \in {"crash", "targetErr", "timeout", "attackerErr"} :
       r \notin saved /\ Fits(r) /\ saved' = saved \cup {r}
  /\ UNCHANGED <<phase, alive, verdict>>

Finish ==
  /\ phase = "judged" /\ alive = {}
  /\ verdict = "crash" => "crash" \in saved
  /\ phase' = "quiet"
  /\ saved' = saved \/ (verdict # "crash" /\ saved' = saved \cup {"seed"})
  /\ UNCHANGED <<alive, verdict>>

ANext == Begin \/ Launch \/ EndSome \/ Judge \/ Save \/ Finish
ASpec == AInit /\ [][ANext]_avars
=============================================================================
