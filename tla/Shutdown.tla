------------------------------ MODULE Shutdown ------------------------------
(***************************************************************************)
(* How a campaign ends, and what the next one on the machine finds.  The   *)
(* fuzzer (blueman-main/btfuzz.c) starts four processes per execution and  *)
(* owns a shared memory segment and the message queue; it ends through     *)
(* cleanup_fuzzer_env, called by the TIMER branch or by sig_handler, or    *)
(* without it: by the default action of a signal or because a fork fails.  *)
(* The interceptor is a clone with CLONE_SIGHAND: the signal table it      *)
(* writes is the fuzzer's.  The queue has a fixed key, and each target     *)
(* looks it up, or creates it, when its first packet comes.                *)
(*                                                                         *)
(* What a packet carries and how an execution is judged is in FuzzOne;     *)
(* here a message is the campaign of the target it is about.  SIGKILL      *)
(* takes effect at once, and pids of processes that were waited for are    *)
(* not given to others.                                                    *)
(***************************************************************************)
EXTENDS Integers, Sequences, FiniteSets

CONSTANTS MaxCampaigns,   \* bound: fuzzers started one after the other
          MaxExecs,       \* bounds: executions of each fuzzer
          MaxFaults       \* bound: signals that do something, and failing forks

ASSUME ShutdownAssumption ==
  MaxCampaigns \in Nat \ {0} /\ MaxExecs \in [1..MaxCampaigns -> Nat] /\ MaxFaults \in Nat

Camp == 1..MaxCampaigns
Role == {"bsim", "target", "attacker", "interceptor"}
Sig == {"INT", "TERM", "SEGV", "KILL"}   \* SIGQUIT is treated as SIGTERM is

VARIABLES
  camp, at,      \* the last fuzzer started, and where it stands
  child,         \* the process it deals with in a sequence over all of them
  how,           \* why it runs cleanup_fuzzer_env
  execs, pid,    \* bsim_pid ..: zero as in fresh memory, unset (-1), or known
  disp,          \* its signal table
  ended,         \* per fuzzer: how it ended
  loose,         \* history: the child it had forked but had no pid of when a
                 \* signal made it clean up
  create_init_corpus, proc,   \* per fuzzer: mode and processes of an execution
  ipc, held,                  \* its interceptor and the packet in its hands
  tpc, tqid,                  \* its target, and the queue the target found
  shm,                        \* fuzzers whose segment exists
  qid, mq, ids,               \* per fuzzer: its queue; the queue under the key
                              \* (id 0: there is none); ids the kernel has used
  faults                      \* signals and failed forks so far

fuzzer == <<camp, at, child, how, execs, pid, disp, ended, loose, create_init_corpus>>
interceptors == <<ipc, held>>
targets == <<tpc, tqid>>
kernel == <<qid, mq, ids>>
vars == <<fuzzer, proc, interceptors, targets, shm, kernel, faults>>

NoQueue == [id |-> 0, pkts |-> << >>, acks |-> << >>]
Running(c, r) == proc[<<c, r>>] = "running"
Alive == at # "dead"

Init ==
  /\ camp = 1 /\ at = "shm" /\ child = "bsim" /\ how = "none"
  /\ execs = 0 /\ pid = [r \in Role |-> "zero"] /\ disp = [s \in Sig |-> "default"]
  /\ ended = [c \in Camp |-> "no"] /\ loose = [c \in Camp |-> "none"]
  /\ create_init_corpus = [c \in Camp |-> FALSE]
  /\ proc = [p \in Camp \X Role |-> "none"]
  /\ ipc = [c \in Camp |-> "start"] /\ held = [c \in Camp |-> 0]
  /\ tpc = [c \in Camp |-> "run"] /\ tqid = [c \in Camp |-> 0]
  /\ shm = {} /\ qid = [c \in Camp |-> 0] /\ mq = NoQueue /\ ids = 0
  /\ faults = 0

-----------------------------------------------------------------------------
(* init_fuzzer *)

SetupShm ==
  /\ at = "shm" /\ at' = "queue"
  /\ shm' = shm \cup {camp}
  /\ UNCHANGED <<camp, child, how, execs, pid, disp, ended, loose,
                 create_init_corpus, proc, interceptors, targets, kernel, faults>>

\* msgget(MSG_QUEUE_KEY, IPC_CREAT): the queue that is there, or a new one
MsgGet ==
  IF mq.id = 0 THEN mq' = [NoQueue EXCEPT !.id = ids + 1] /\ ids' = ids + 1
               ELSE UNCHANGED <<mq, ids>>

CreateQueue(from, to) ==
  /\ at = from /\ at' = to
  /\ MsgGet /\ qid' = [qid EXCEPT ![camp] = mq'.id]
  /\ UNCHANGED <<camp, child, how, execs, pid, disp, ended, loose,
                 create_init_corpus, proc, interceptors, targets, shm, faults>>

\* setup_sighandler; a handler for SIGKILL is refused
SetupHandlers ==
  /\ at = "handlers" /\ at' = "idle"
  /\ disp' = [s \in Sig |-> IF s = "KILL" THEN "default" ELSE "handler"]
  /\ UNCHANGED <<camp, child, how, execs, pid, ended, loose, create_init_corpus,
                 proc, interceptors, targets, shm, kernel, faults>>

-----------------------------------------------------------------------------
(* fuzz_one, with a fork and the assignment of its result as two steps *)

\* only the first execution can be the init run
BeginExec ==
  /\ at = "idle" /\ execs < MaxExecs[camp]
  /\ at' = "fork" /\ child' = "bsim" /\ execs' = execs + 1
  /\ pid' = [r \in Role |-> "unset"]
  /\ \E init \in (IF execs = 0 THEN BOOLEAN ELSE {FALSE}) :
       create_init_corpus' = [create_init_corpus EXCEPT ![camp] = init]
  /\ UNCHANGED <<camp, how, disp, ended, loose, proc, interceptors, targets, shm,
                 kernel, faults>>

Fork ==
  /\ at = "fork" /\ at' = "store"
  /\ proc' = [proc EXCEPT ![<<camp, child>>] = "running"]
  /\ tpc' = [tpc EXCEPT ![camp] = IF child = "target" THEN "run" ELSE @]
  /\ tqid' = [tqid EXCEPT ![camp] = IF child = "target" THEN 0 ELSE @]
  /\ ipc' = [ipc EXCEPT ![camp] = IF child = "interceptor" THEN "start" ELSE @]
  /\ held' = [held EXCEPT ![camp] = IF child = "interceptor" THEN 0 ELSE @]
  /\ UNCHANGED <<camp, child, how, execs, pid, disp, ended, loose,
                 create_init_corpus, shm, kernel, faults>>

ForkFails ==
  /\ at = "fork" /\ at' = "dead"
  /\ ended' = [ended EXCEPT ![camp] = "forkfailed"]
  /\ faults < MaxFaults /\ faults' = faults + 1
  /\ UNCHANGED <<camp, child, how, execs, pid, disp, loose, create_init_corpus,
                 proc, interceptors, targets, shm, kernel>>

After(r) == CASE r = "bsim" -> "target" [] r = "target" -> "attacker"
              [] OTHER -> "interceptor"

Store ==
  /\ at = "store"
  /\ pid' = [pid EXCEPT ![child] = "known"]
  /\ at' = IF child = "interceptor" THEN "wait" ELSE "fork"
  /\ child' = After(child)
  /\ UNCHANGED <<camp, how, execs, disp, ended, loose, create_init_corpus, proc,
                 interceptors, targets, shm, kernel, faults>>

Reaped(r) == proc' = [proc EXCEPT ![<<camp, r>>] = "reaped"]

TargetEnded_bad == TRUE   \* waitpid with WNOHANG
TargetEnded == proc[<<camp, "target">>] = "zombie"

WaitForTarget ==
  /\ at = "wait" /\ TargetEnded
  /\ at' = "endbsim"
  /\ proc' = [proc EXCEPT ![<<camp, "target">>] = IF @ = "zombie" THEN "reaped" ELSE @]
  /\ UNCHANGED <<camp, child, how, execs, pid, disp, ended, loose,
                 create_init_corpus, interceptors, targets, shm, kernel, faults>>

\* kill and waitpid of the phy, then of the attacker; whether the verdict asks
\* for a new queue is left open
EndBsim ==
  /\ at = "endbsim" /\ at' = "endattacker" /\ Reaped("bsim")
  /\ UNCHANGED <<camp, child, how, execs, pid, disp, ended, loose,
                 create_init_corpus, interceptors, targets, shm, kernel, faults>>

EndAttacker ==
  /\ at = "endattacker" /\ at' \in {"reset", "join"} /\ Reaped("attacker")
  /\ UNCHANGED <<camp, child, how, execs, pid, disp, ended, loose,
                 create_init_corpus, interceptors, targets, shm, kernel, faults>>

\* msgctl(qid, IPC_RMID)
DeleteQueue == mq' = IF mq.id = qid[camp] THEN NoQueue ELSE mq

ResetQueue ==
  /\ at = "reset" /\ at' = "create"
  /\ proc' = [proc EXCEPT ![<<camp, "interceptor">>] = "zombie"]
  /\ DeleteQueue
  /\ UNCHANGED <<camp, child, how, execs, pid, disp, ended, loose,
                 create_init_corpus, interceptors, targets, shm, qid, ids, faults>>

Join ==
  /\ at = "join" /\ proc[<<camp, "interceptor">>] = "zombie"
  /\ at' = "idle" /\ Reaped("interceptor")
  /\ UNCHANGED <<camp, child, how, execs, pid, disp, ended, loose,
                 create_init_corpus, interceptors, targets, shm, kernel, faults>>

-----------------------------------------------------------------------------
(* cleanup_fuzzer_env, and the ways into it and around it *)

TimerExit ==
  /\ at = "idle" /\ execs > 0
  /\ at' = "clean" /\ child' = "bsim" /\ how' = "timer"
  /\ UNCHANGED <<camp, execs, pid, disp, ended, loose, create_init_corpus, proc,
                 interceptors, targets, shm, kernel, faults>>

\* sig_handler; a second signal would only start it again
Handled(s) ==
  /\ Alive /\ disp[s] = "handler" /\ how # "signal"
  /\ at' = "clean" /\ child' = "bsim" /\ how' = "signal"
  /\ loose' = [loose EXCEPT ![camp] = IF at = "store" THEN child ELSE "none"]
  /\ faults < MaxFaults /\ faults' = faults + 1
  /\ UNCHANGED <<camp, execs, pid, disp, ended, create_init_corpus, proc,
                 interceptors, targets, shm, kernel>>

\* SIGKILL, a signal before setup_sighandler, or one whose handler is gone
Default(s) ==
  /\ Alive /\ disp[s] = "default"
  /\ at' = "dead"
  /\ ended' = [ended EXCEPT ![camp] =
                 IF s = "KILL" \/ at \in {"shm", "queue", "handlers"} THEN "killed"
                 ELSE "unhandled"]
  /\ faults < MaxFaults /\ faults' = faults + 1
  /\ UNCHANGED <<camp, child, how, execs, pid, disp, loose, create_init_corpus,
                 proc, interceptors, targets, shm, kernel>>

\* kill and waitpid of one child; kill(0, SIGKILL), before the first execution,
\* ends the fuzzer's own process group
Cleaned_bad == {"bsim", "interceptor"}
Cleaned == {"bsim", "attacker", "interceptor"}

CleanKill ==
  /\ at = "clean"
  /\ child' = After(child)
  /\ IF pid[child] = "zero" /\ child \in Cleaned
       THEN /\ at' = "dead" /\ ended' = [ended EXCEPT ![camp] = "group"]
            /\ UNCHANGED proc
       ELSE /\ at' = IF child = "interceptor" THEN "cleanshm" ELSE "clean"
            /\ IF pid[child] = "known" /\ child \in Cleaned
                 THEN Reaped(child) ELSE UNCHANGED proc
            /\ UNCHANGED ended
  /\ UNCHANGED <<camp, how, execs, pid, disp, loose, create_init_corpus,
                 interceptors, targets, shm, kernel, faults>>

CleanShm ==
  /\ at = "cleanshm" /\ at' = "cleanqueue"
  /\ shm' = shm \ {camp}
  /\ UNCHANGED <<camp, child, how, execs, pid, disp, ended, loose,
                 create_init_corpus, proc, interceptors, targets, kernel, faults>>

CleanQueue_bad ==
  /\ at = "cleanqueue" /\ at' = "cleanstack"
  /\ UNCHANGED <<camp, child, how, execs, pid, disp, ended, loose,
                 create_init_corpus, proc, interceptors, targets, shm, kernel, faults>>
CleanQueue ==
  /\ at = "cleanqueue" /\ at' = "cleanstack"
  /\ DeleteQueue
  /\ UNCHANGED <<camp, child, how, execs, pid, disp, ended, loose,
                 create_init_corpus, proc, interceptors, targets, shm, qid, ids, faults>>

\* munmap of the stack an interceptor still runs on, and exit
Unmapped == [proc EXCEPT ![<<camp, "interceptor">>] = IF @ = "running" THEN "zombie" ELSE @]

CleanStack ==
  /\ at = "cleanstack" /\ at' = "dead"
  /\ proc' = Unmapped
  /\ ended' = [ended EXCEPT ![camp] = how]
  /\ UNCHANGED <<camp, child, how, execs, pid, disp, loose, create_init_corpus,
                 interceptors, targets, shm, kernel, faults>>

\* another fuzzer is started when there is none
NewCampaign ==
  /\ at = "dead" /\ camp < MaxCampaigns
  /\ camp' = camp + 1 /\ at' = "shm" /\ child' = "bsim" /\ how' = "none"
  /\ execs' = 0 /\ pid' = [r \in Role |-> "zero"]
  /\ disp' = [s \in Sig |-> "default"]
  /\ UNCHANGED <<ended, loose, create_init_corpus, proc, interceptors, targets,
                 shm, kernel, faults>>

-----------------------------------------------------------------------------
(* the interceptor of fuzzer c, which survives it if nobody kills it *)

\* the first calls of _run_ble_interceptor
ShareHandlers(c) ==
  /\ Running(c, "interceptor") /\ ipc[c] = "start"
  /\ ipc' = [ipc EXCEPT ![c] = "recv"]
  /\ disp' = IF c = camp /\ Alive
               THEN [disp EXCEPT !["INT"] = "ignore", !["TERM"] = "default"]
               ELSE disp
  /\ UNCHANGED <<camp, at, child, how, execs, pid, ended, loose,
                 create_init_corpus, proc, held, targets, shm, kernel, faults>>

Receive(c) ==
  /\ Running(c, "interceptor") /\ ipc[c] = "recv"
  /\ mq.id = qid[c] /\ mq.pkts # << >>
  /\ held' = [held EXCEPT ![c] = Head(mq.pkts)]
  /\ mq' = [mq EXCEPT !.pkts = Tail(@)]
  /\ ipc' = [ipc EXCEPT ![c] = "ack"]
  /\ UNCHANGED <<fuzzer, proc, targets, shm, qid, ids, faults>>

\* an answer, or the final one, after which the interceptor is done
Answer(c) ==
  /\ Running(c, "interceptor") /\ ipc[c] = "ack" /\ mq.id = qid[c]
  /\ \E last \in BOOLEAN :
       /\ mq' = [mq EXCEPT !.acks = Append(@, [camp |-> held[c], last |-> last])]
       /\ ipc' = [ipc EXCEPT ![c] = IF last THEN "exit" ELSE "recv"]
  /\ held' = [held EXCEPT ![c] = 0]
  /\ UNCHANGED <<fuzzer, proc, targets, shm, qid, ids, faults>>

InterceptorExit(c) ==
  /\ Running(c, "interceptor") /\ ipc[c] = "exit"
  /\ proc' = [proc EXCEPT ![<<c, "interceptor">>] = "zombie"]
  /\ UNCHANGED <<fuzzer, interceptors, targets, shm, kernel, faults>>

\* timeouthandler
Alarm(c) ==
  /\ Running(c, "interceptor") /\ ipc[c] # "start" /\ ~create_init_corpus[c]
  /\ proc' = [p \in Camp \X Role |->
                IF p \in {<<c, "interceptor">>, <<c, "target">>} /\ proc[p] = "running"
                THEN "zombie" ELSE proc[p]]
  /\ held' = [held EXCEPT ![c] = 0]
  /\ UNCHANGED <<fuzzer, ipc, targets, shm, kernel, faults>>

-----------------------------------------------------------------------------
(* the target of fuzzer c and its hook; msgsnd and msgrcv on a queue that was
   deleted fail, and the hook tries again without end *)

\* the phy starts with two devices (-D=2)
PacketArrives(c) ==
  /\ Running(c, "target") /\ tpc[c] = "run"
  /\ Running(c, "bsim") /\ Running(c, "attacker")
  /\ tpc' = [tpc EXCEPT ![c] = IF tqid[c] = 0 THEN "lookup" ELSE "send"]
  /\ UNCHANGED <<fuzzer, proc, interceptors, tqid, shm, kernel, faults>>

LookUp(c) ==
  /\ Running(c, "target") /\ tpc[c] = "lookup"
  /\ MsgGet /\ tqid' = [tqid EXCEPT ![c] = mq'.id]
  /\ tpc' = [tpc EXCEPT ![c] = "send"]
  /\ UNCHANGED <<fuzzer, proc, interceptors, shm, qid, faults>>

Send(c) ==
  /\ Running(c, "target") /\ tpc[c] = "send" /\ mq.id = tqid[c]
  /\ mq' = [mq EXCEPT !.pkts = Append(@, c)]
  /\ tpc' = [tpc EXCEPT ![c] = "await"]
  /\ UNCHANGED <<fuzzer, proc, interceptors, tqid, shm, qid, ids, faults>>

RecvAck(c) ==
  /\ Running(c, "target") /\ tpc[c] = "await" /\ mq.id = tqid[c] /\ mq.acks # << >>
  /\ mq' = [mq EXCEPT !.acks = Tail(@)]
  /\ tpc' = [tpc EXCEPT ![c] = "run"]
  /\ proc' = [proc EXCEPT ![<<c, "target">>] = IF Head(mq.acks).last THEN "zombie" ELSE @]
  /\ UNCHANGED <<fuzzer, interceptors, tqid, shm, qid, ids, faults>>

\* the firmware ends by itself
TargetEnds(c) ==
  /\ Running(c, "target") /\ tpc[c] = "run"
  /\ proc' = [proc EXCEPT ![<<c, "target">>] = "zombie"]
  /\ UNCHANGED <<fuzzer, interceptors, targets, shm, kernel, faults>>

-----------------------------------------------------------------------------
Fuzzer == \/ SetupShm \/ CreateQueue("queue", "handlers") \/ SetupHandlers
          \/ BeginExec \/ Fork \/ ForkFails \/ Store
          \/ WaitForTarget \/ EndBsim \/ EndAttacker
          \/ ResetQueue \/ CreateQueue("create", "join") \/ Join
          \/ TimerExit \/ CleanKill \/ CleanShm \/ CleanQueue \/ CleanStack
          \/ NewCampaign
Signal == \E s \in Sig : Handled(s) \/ Default(s)
Interceptor(c) == \/ ShareHandlers(c) \/ Receive(c) \/ Answer(c)
                  \/ InterceptorExit(c) \/ Alarm(c)
Target(c) == PacketArrives(c) \/ LookUp(c) \/ Send(c) \/ RecvAck(c) \/ TargetEnds(c)

Next == Fuzzer \/ Signal \/ \E c \in Camp : Interceptor(c) \/ Target(c)

Spec == Init /\ [][Next]_vars

-----------------------------------------------------------------------------
(* Properties *)

FuzzerTypes ==
  /\ camp \in Camp /\ child \in Role /\ how \in {"none", "timer", "signal"}
  /\ at \in {"shm", "queue", "handlers", "idle", "fork", "store", "wait", "endbsim",
             "endattacker", "reset", "create", "join", "clean", "cleanshm",
             "cleanqueue", "cleanstack", "dead"}
  /\ execs \in Nat /\ pid \in [Role -> {"zero", "unset", "known"}]
  /\ disp \in [Sig -> {"default", "handler", "ignore"}]
  /\ ended \in [Camp -> {"no", "timer", "signal", "killed", "unhandled",
                         "forkfailed", "group"}]
  /\ loose \in [Camp -> Role \cup {"none"}]
  /\ create_init_corpus \in [Camp -> BOOLEAN]

ProcessTypes ==
  /\ proc \in [Camp \X Role -> {"none", "running", "zombie", "reaped"}]
  /\ ipc \in [Camp -> {"start", "recv", "ack", "exit"}] /\ held \in [Camp -> 0..MaxCampaigns]
  /\ tpc \in [Camp -> {"run", "lookup", "send", "await"}] /\ tqid \in [Camp -> Nat]

Ack == [camp : Camp, last : BOOLEAN]

KernelTypes ==
  /\ shm \subseteq Camp /\ qid \in [Camp -> Nat] /\ ids \in Nat /\ faults \in Nat
  /\ mq \in [id : Nat, pkts : Seq(Camp), acks : Seq(Ack)]

\* The types of the variables.
TypeOK == FuzzerTypes /\ ProcessTypes /\ KernelTypes

\* A campaign that ends by its TIMER leaves no process and no segment behind,
\* though cleanup_fuzzer_env never kills a target: fuzz_one has waited for it.
TimerLeavesNothing ==
  \A c \in Camp : ended[c] = "timer" =>
    c \notin shm /\ \A r \in Role : ~Running(c, r)

\* Children of campaign c that run on: its target, or the one it had no pid of.
OnlyLoose(c) == \A r \in Role \ {"target"} : Running(c, r) => r = loose[c]

\* A campaign that sig_handler ends, wherever the signal came, leaves its target
\* at most, and a phy or attacker whose pid was not yet stored; never an
\* interceptor, whose stack goes even if its pid was not known.  With its
\* handlers set up no signal but SIGKILL ends the fuzzer without them before one
\* of its own interceptors has put others in their place; it then leaves its
\* segment, or a clean-up had got that far.  And the clean-up meets pids that are
\* zero, and with kill(0, SIGKILL) everyone in the group, only while there has
\* been no child; then the segment stays, too.
SignalLeftovers ==
  \A c \in Camp :
    /\ ended[c] = "signal" => c \notin shm /\ OnlyLoose(c) /\ ~Running(c, "interceptor")
    /\ ended[c] = "unhandled" => /\ proc[<<c, "interceptor">>] # "none"
                                 /\ c \in shm \/ OnlyLoose(c)
    /\ ended[c] = "group" => c \in shm /\ \A r \in Role : proc[<<c, r>>] = "none"

\* Messages about the target of campaign c that others can still meet.
InQueue(c) == Cardinality({k \in DOMAIN mq.pkts : mq.pkts[k] = c})
              + Cardinality({k \in DOMAIN mq.acks : mq.acks[k].camp = c})

\* The queue of a campaign is its own: one that ended by its TIMER leaves no
\* message to its successors, and one that sig_handler ended at most the packet
\* of a target that looked the queue up only after it had been deleted.
QueueIsolated ==
  \A c \in Camp :
    /\ ended[c] = "timer" => InQueue(c) = 0
    /\ ended[c] = "signal" => InQueue(c) <= 1
=============================================================================
