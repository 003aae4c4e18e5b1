------------------------------ MODULE FuzzOne ------------------------------
(***************************************************************************)
(* One fuzzer driving executions of fuzz_one (blueman-main/btfuzz.c).      *)
(* Every execution runs four children: the BabbleSim phy, the attacker,    *)
(* the target, whose radio model carries the hook of patch/bsim.patch, and *)
(* the interceptor, a clone that shares the fuzzer's memory.  The hook and *)
(* the interceptor talk through one System V message queue with two        *)
(* message types, kept here as the two sequences pktq (packets the target  *)
(* received) and ackq (the answers to it).  The queue outlives an          *)
(* execution: only an attack error or a crash re-creates it.               *)
(***************************************************************************)
EXTENDS Integers, Sequences

CONSTANTS MaxPkts,      \* MAX_PACKET_COUNT_PER_ITER
          StaleLimit,   \* packets without new coverage that end the init run
          InitialSeeds, \* corpora found in the seed directory at start
          QueueCap,     \* messages the kernel lets the queue hold
          MaxExecs      \* bound: executions per behaviour

Kind == {"plain", "mutated", "hole"}   \* hole: a record whose device_id is 0

ASSUME FuzzOneAssumption ==
  /\ MaxPkts \in Nat \ {0}
  /\ StaleLimit \in Nat
  /\ QueueCap \in Nat \ {0}
  /\ MaxExecs \in Nat
  /\ \A c \in InitialSeeds : c \in Seq(Kind) /\ Len(c) <= MaxPkts

VARIABLES
  fpc,      \* where the fuzzer stands in collect_init_corpus .. fuzz_one
  create_init_corpus, corpus, pkt_rec, seeds, initfile,
  execs,    \* executions begun
  fault,    \* what wait_for_target returned
  files,    \* kinds of file this execution has saved
  ipc, i, cnt, gained, doom,   \* interceptor; doom: SIGKILL sent to it
  held,     \* the message it has received and not yet answered (at most one)
  tpc, tstat, tn,              \* target, and the packets it has sent
  astat, bsim,                 \* attacker, and whether the phy runs
  pktq, ackq,                  \* the message queue
  leftover, timeouts           \* history: messages found in the queue at the
                               \* fork; live targets killed by the alarm

fuzzer == <<fpc, create_init_corpus, corpus, execs, fault, files, leftover>>
interceptor == <<ipc, i, cnt, gained, held>>
target == <<tpc, tstat, tn>>
store == <<pkt_rec, seeds, initfile>>
queue == <<pktq, ackq>>
vars == <<fuzzer, interceptor, doom, target, store, queue, astat, bsim, timeouts>>

Msg == [exec : Nat, n : Nat, mut : 0..2]
Room == Len(pktq) + Len(ackq) < QueueCap
InFlight == Len(pktq) + Len(ackq) + Len(held)
Quiet == fpc \in {"collect", "load", "idle", "exited", "aborted"}

(* An operator whose name ends in _bad is a plausible wrong version of the    *)
(* operator that follows it: no specification uses it, the runs are repeated  *)
(* with it in place of the right one to see that a property notices.          *)

\* a recorder created without the factor of two
Record_bad(r, m) == IF MaxPkts > Len(r) + 1 THEN Append(r, m) ELSE r

\* add_pkt_to_seq_buf: the recorder is created with room for 2 * MaxPkts
Record(r, m) == IF 2 * MaxPkts > Len(r) + 1 THEN Append(r, m) ELSE r

\* The corpus a record makes once it is read back from its file.
SeedOf(r) == [k \in 1..Len(r) |-> IF r[k].mut = 1 THEN "mutated" ELSE "plain"]

\* The same when only its first k packets reached the file.
Holed(r, k) == [j \in 1..Len(r) |-> IF j <= k THEN SeedOf(r)[j] ELSE "hole"]

\* The queue is new: create_msg_queue attaches to any queue of its key, but run.sh
\* starts each campaign in a container, which has none.  What a campaign finds
\* after another one on the same key is in Shutdown.
Init ==
  /\ fpc = "collect" /\ create_init_corpus = FALSE /\ corpus = << >>
  /\ pkt_rec = << >> /\ seeds = InitialSeeds /\ initfile = "none"
  /\ execs = 0 /\ fault = "none" /\ files = {}
  /\ ipc = "dead" /\ i = 0 /\ cnt = 0 /\ gained = FALSE /\ doom = FALSE
  /\ held = << >>
  /\ tpc = "run" /\ tstat = "none" /\ tn = 0
  /\ astat = "none" /\ bsim = FALSE
  /\ pktq = << >> /\ ackq = << >>
  /\ leftover = 0 /\ timeouts = 0

-----------------------------------------------------------------------------
(* collect_init_corpus and the loop of start_fuzzer around fuzz_one *)

CollectInitCorpus ==
  /\ fpc = "collect"
  /\ IF seeds # {}
       THEN fpc' = "idle" /\ UNCHANGED create_init_corpus
       ELSE fpc' = "fork" /\ create_init_corpus' = TRUE
  /\ UNCHANGED <<corpus, execs, fault, files, leftover, interceptor, doom,
                 target, store, queue, astat, bsim, timeouts>>

\* load_corpus_to_queue after the init run: no file leaves the list empty and
\* its first entry garbage; an incomplete file ends in SIGBUS or in records of
\* zeroes past the end of what was written.
LoadCorpus ==
  /\ fpc = "load"
  /\ \/ /\ initfile = "full"
        /\ seeds' = {SeedOf(pkt_rec)} /\ fpc' = "idle"
     \/ /\ initfile = "partial"
        /\ \E k \in 0..(Len(pkt_rec) - 1) : seeds' = {Holed(pkt_rec, k)}
        /\ fpc' = "idle"
     \/ /\ initfile # "full"
        /\ fpc' = "aborted" /\ UNCHANGED seeds
  /\ UNCHANGED <<create_init_corpus, corpus, execs, fault, files, leftover,
                 interceptor, doom, target, pkt_rec, initfile, queue, astat,
                 bsim, timeouts>>

InitPktSeqBuf_bad == UNCHANGED pkt_rec
InitPktSeqBuf == pkt_rec' = << >>

StartFuzzOne ==
  /\ fpc = "idle" /\ execs < MaxExecs
  /\ \E c \in seeds : corpus' = c
  /\ InitPktSeqBuf /\ create_init_corpus' = FALSE /\ fpc' = "fork"
  /\ UNCHANGED <<execs, fault, files, leftover, interceptor, doom, target,
                 seeds, initfile, queue, astat, bsim, timeouts>>

\* The TIMER branch: cleanup_fuzzer_env deletes the queue and the fuzzer exits.
TimerExit ==
  /\ fpc = "idle" /\ execs > 0
  /\ fpc' = "exited" /\ pktq' = << >> /\ ackq' = << >>
  /\ UNCHANGED <<create_init_corpus, corpus, execs, fault, files, leftover,
                 interceptor, doom, target, store, astat, bsim, timeouts>>

-----------------------------------------------------------------------------
(* fuzz_one *)

Fork ==
  /\ fpc = "fork"
  /\ execs' = execs + 1 /\ files' = {} /\ fault' = "none"
  /\ bsim' = TRUE /\ astat' = "alive"
  /\ tstat' = "alive" /\ tpc' = "run" /\ tn' = 0
  /\ leftover' = Len(pktq) + Len(ackq)
  /\ fpc' = "clone"
  /\ UNCHANGED <<create_init_corpus, corpus, interceptor, doom, store, queue, timeouts>>

\* run_ble_interceptor; the fuzz mode enters its loop only for a corpus.
Clone ==
  /\ fpc = "clone"
  /\ ipc' = IF create_init_corpus \/ corpus # << >> THEN "recv" ELSE "passrecv"
  /\ i' = 0 /\ cnt' = 0 /\ gained' = FALSE /\ doom' = FALSE /\ held' = << >>
  /\ fpc' = "wait"
  /\ UNCHANGED <<create_init_corpus, corpus, execs, fault, files, leftover,
                 target, store, queue, astat, bsim, timeouts>>

FaultOf(s) == CASE s = "trap" -> "error"
                [] s = "killed" -> "timeout"
                [] s \in {"segv", "exit1"} -> "crash"
                [] s = "exitN" -> "error"
                [] OTHER -> "none"

\* waitpid in wait_for_target
Reap ==
  /\ fpc = "wait" /\ tstat # "alive"
  /\ fault' = FaultOf(tstat) /\ fpc' = "report"
  /\ UNCHANGED <<create_init_corpus, corpus, execs, files, leftover, interceptor,
                 doom, target, store, queue, astat, bsim, timeouts>>

\* what wait_for_target saves before it returns
Report ==
  /\ fpc = "report"
  /\ files' = files \cup (CASE fault = "crash" -> {"crash"}
                            [] tstat = "exitN" -> {"targetErr"}
                            [] OTHER -> {})
  /\ fpc' = "kill"
  /\ UNCHANGED <<create_init_corpus, corpus, execs, fault, leftover, interceptor,
                 doom, target, store, queue, astat, bsim, timeouts>>

KillBsim ==
  /\ fpc = "kill" /\ bsim
  /\ bsim' = FALSE
  /\ UNCHANGED <<fuzzer, interceptor, doom, target, store, queue, astat, timeouts>>

KillAttacker ==
  /\ fpc = "kill" /\ ~bsim
  /\ astat' = IF astat = "alive" THEN "killed" ELSE astat
  /\ fpc' = "attackerr"
  /\ UNCHANGED <<create_init_corpus, corpus, execs, fault, files, leftover,
                 interceptor, doom, target, store, queue, bsim, timeouts>>

AttackFailed == astat \in {"exitErr", "trap"}

\* kill of the interceptor, which dies only once the signal is delivered, and
\* deletion and creation of the queue
ResetQueue ==
  /\ doom' = TRUE /\ pktq' = << >> /\ ackq' = << >>

AttackError_bad == AttackFailed \/ fault # "crash"
AttackError == AttackFailed \/ fault = "error"

AttackErr ==
  /\ fpc = "attackerr"
  /\ fpc' = "crash"
  /\ IF AttackError
       THEN /\ ResetQueue
            /\ files' = IF AttackFailed THEN files \cup {"attackerErr"} ELSE files
       ELSE UNCHANGED <<doom, queue, files>>
  /\ UNCHANGED <<create_init_corpus, corpus, execs, fault, leftover, interceptor,
                 target, store, astat, bsim, timeouts>>

Crash ==
  /\ fpc = "crash"
  /\ fpc' = "timeout"
  /\ IF fault = "crash" THEN ResetQueue ELSE UNCHANGED <<doom, queue>>
  /\ UNCHANGED <<create_init_corpus, corpus, execs, fault, files, leftover,
                 interceptor, target, store, astat, bsim, timeouts>>

Timeout ==
  /\ fpc = "timeout"
  /\ fpc' = "join"
  /\ files' = IF fault = "timeout" /\ astat # "trap"
                THEN files \cup {"timeout"} ELSE files
  /\ UNCHANGED <<create_init_corpus, corpus, execs, fault, leftover, interceptor,
                 doom, target, store, queue, astat, bsim, timeouts>>

\* waitpid of the interceptor
InterceptorReaped_bad == TRUE
InterceptorReaped == ipc = "dead"

Join ==
  /\ fpc = "join" /\ InterceptorReaped
  /\ fpc' = IF create_init_corpus THEN "load"
            ELSE IF fault = "crash" THEN "idle" ELSE "keep"
  /\ UNCHANGED <<create_init_corpus, corpus, execs, fault, files, leftover,
                 interceptor, doom, target, store, queue, astat, bsim, timeouts>>

\* save_if_interesting: whether the trace has new bits is left open.
Keep ==
  /\ fpc = "keep"
  /\ fpc' = "idle"
  /\ \/ /\ seeds' = seeds \cup {SeedOf(pkt_rec)} /\ files' = files \cup {"seed"}
     \/ UNCHANGED <<seeds, files>>
  /\ UNCHANGED <<create_init_corpus, corpus, execs, fault, leftover, interceptor,
                 doom, target, pkt_rec, initfile, queue, astat, bsim, timeouts>>

-----------------------------------------------------------------------------
(* the interceptor *)

Receive(from, to) ==
  /\ ipc = from /\ pktq # << >>
  /\ held' = <<Head(pktq)>> /\ pktq' = Tail(pktq) /\ ipc' = to
  /\ UNCHANGED <<fuzzer, i, cnt, gained, doom, target, store, ackq, astat, bsim, timeouts>>

RecvLoop == Receive("recv", "edit")
RecvPass == Receive("passrecv", "passack")
RecvLast == Receive("lastrecv", "lastack")

\* copy_ble_pkt, mutate_pkt, which may or may not mutate, and the recorder
EditFuzz ==
  /\ ipc = "edit" /\ ~create_init_corpus /\ corpus[i + 1] # "hole"
  /\ \E m \in (IF corpus[i + 1] = "mutated" THEN {1} ELSE {0, 1}) :
       held' = <<[held[1] EXCEPT !.mut = m]>>
  /\ i' = i + 1
  /\ pkt_rec' = Record(pkt_rec, held'[1])
  /\ ipc' = "ack"
  /\ UNCHANGED <<fuzzer, cnt, gained, doom, target, seeds, initfile, queue,
                 astat, bsim, timeouts>>

\* a hole in the corpus: while(1), which only a signal ends
EditHole ==
  /\ ipc = "edit" /\ ~create_init_corpus /\ corpus[i + 1] = "hole"
  /\ ipc' = "spin"
  /\ UNCHANGED <<fuzzer, i, cnt, gained, held, doom, target, store, queue,
                 astat, bsim, timeouts>>

EditInit ==
  /\ ipc = "edit" /\ create_init_corpus
  /\ pkt_rec' = Record(pkt_rec, held[1])
  /\ gained' \in BOOLEAN
  /\ ipc' = "ack"
  /\ UNCHANGED <<fuzzer, i, cnt, held, doom, target, seeds, initfile, queue,
                 astat, bsim, timeouts>>

\* recv_ble_pkt_ack, retried until the kernel takes the message
Answer_bad(m) ==  \* while(n <= 0)
  /\ Len(pktq) + Len(ackq) + 1 < QueueCap
  /\ ackq' = ackq \o <<m, m>> /\ held' = << >>
Answer(m) == Room /\ ackq' = Append(ackq, m) /\ held' = << >>

CorpusDone_bad == i + 1 >= Len(corpus)
CorpusDone == i >= Len(corpus)

AckFuzz ==
  /\ ipc = "ack" /\ ~create_init_corpus
  /\ Answer(held[1])
  /\ ipc' = IF CorpusDone THEN "passrecv" ELSE "recv"
  /\ UNCHANGED <<fuzzer, i, cnt, gained, doom, target, store, pktq, astat, bsim, timeouts>>

\* The init run ends with a full corpus or too many packets without gain.
RecordFull == MaxPkts <= Len(pkt_rec)

AckInit ==
  LET stale == ~RecordFull /\ ~gained
  IN /\ ipc = "ack" /\ create_init_corpus
     /\ Answer(held[1])
     /\ cnt' = IF stale THEN cnt + 1 ELSE cnt
     /\ ipc' = IF RecordFull \/ (stale /\ cnt' > StaleLimit) THEN "lastrecv" ELSE "recv"
     /\ UNCHANGED <<fuzzer, i, gained, doom, target, store, pktq, astat, bsim, timeouts>>

AckPass_bad ==
  /\ ipc = "passack"
  /\ held' = << >> /\ ipc' = "lastrecv"
  /\ UNCHANGED <<fuzzer, i, cnt, gained, doom, target, store, queue, astat, bsim, timeouts>>

AckPass ==
  /\ ipc = "passack"
  /\ Answer(held[1]) /\ ipc' = "lastrecv"
  /\ UNCHANGED <<fuzzer, i, cnt, gained, doom, target, store, pktq, astat, bsim, timeouts>>

LastAnswer_bad(m) == m
LastAnswer(m) == [m EXCEPT !.mut = 2]

AckLast ==
  /\ ipc = "lastack"
  /\ Answer(LastAnswer(held[1]))
  /\ ipc' = IF create_init_corpus THEN "saveopen" ELSE "exit"
  /\ UNCHANGED <<fuzzer, i, cnt, gained, doom, target, store, pktq, astat, bsim, timeouts>>

\* save_seq_buf_to_file2 truncates the file before it writes the record.
SaveInit ==
  /\ \/ ipc = "saveopen" /\ initfile' = "partial" /\ ipc' = "savewrite"
     \/ ipc = "savewrite" /\ initfile' = "full" /\ ipc' = "exit"
  /\ UNCHANGED <<fuzzer, i, cnt, gained, held, doom, target, pkt_rec, seeds,
                 queue, astat, bsim, timeouts>>

Exit ==
  /\ ipc = "exit" /\ ipc' = "dead"
  /\ UNCHANGED <<fuzzer, i, cnt, gained, held, doom, target, store, queue,
                 astat, bsim, timeouts>>

\* timeouthandler, armed by alarm(2) in the fuzz mode only: it kills the target
\* if that still runs, and the interceptor leaves with whatever it held.
KillTarget_bad == UNCHANGED <<tstat, timeouts>>
KillTarget == IF tstat = "alive"
                THEN tstat' = "killed" /\ timeouts' = timeouts + 1
                ELSE UNCHANGED <<tstat, timeouts>>

Alarm ==
  /\ ipc # "dead" /\ ~create_init_corpus
  /\ ipc' = "dead" /\ held' = << >>
  /\ KillTarget
  /\ UNCHANGED <<fuzzer, i, cnt, gained, doom, tpc, tn, store, queue, astat, bsim>>

\* the SIGKILL of fuzz_one takes effect
Die ==
  /\ doom /\ ipc # "dead"
  /\ ipc' = "dead" /\ held' = << >>
  /\ UNCHANGED <<fuzzer, i, cnt, gained, doom, target, store, queue, astat, bsim, timeouts>>

-----------------------------------------------------------------------------
(* the target: hijack_packet_recorder, and the firmware around it *)

Send ==
  /\ tstat = "alive" /\ tpc = "run" /\ Room
  /\ pktq' = Append(pktq, [exec |-> execs, n |-> tn + 1, mut |-> 0])
  /\ tn' = tn + 1 /\ tpc' = "await"
  /\ UNCHANGED <<fuzzer, interceptor, doom, tstat, store, ackq, astat, bsim, timeouts>>

RecvAck ==
  /\ tstat = "alive" /\ tpc = "await" /\ ackq # << >>
  /\ tstat' = IF Head(ackq).mut = 2 THEN "hookexit" ELSE "alive"
  /\ tpc' = "run" /\ ackq' = Tail(ackq)
  /\ UNCHANGED <<fuzzer, interceptor, doom, tn, store, pktq, astat, bsim, timeouts>>

\* the firmware ends by itself, or a processed packet makes it
TargetEnds ==
  /\ tstat = "alive" /\ tpc = "run"
  /\ tstat' \in {"exit0", "exit1", "exitN", "trap", "segv"}
  /\ UNCHANGED <<fuzzer, interceptor, doom, tpc, tn, store, queue, astat, bsim, timeouts>>

AttackerFails ==
  /\ astat = "alive"
  /\ astat' \in {"exitErr", "trap"}
  /\ UNCHANGED <<fuzzer, interceptor, doom, target, store, queue, bsim, timeouts>>

-----------------------------------------------------------------------------
Fuzzer == \/ CollectInitCorpus \/ LoadCorpus \/ StartFuzzOne \/ TimerExit
          \/ Fork \/ Clone \/ Reap \/ Report \/ KillBsim \/ KillAttacker
          \/ AttackErr \/ Crash \/ Timeout \/ Join \/ Keep
Interceptor == \/ RecvLoop \/ RecvPass \/ RecvLast
               \/ EditFuzz \/ EditHole \/ EditInit
               \/ AckFuzz \/ AckInit \/ AckPass \/ AckLast
               \/ SaveInit \/ Exit \/ Alarm \/ Die
Target == Send \/ RecvAck \/ TargetEnds
Terminated == fpc \in {"exited", "aborted"} /\ UNCHANGED vars

Next == Fuzzer \/ Interceptor \/ Target \/ AttackerFails \/ Terminated

Spec == Init /\ [][Next]_vars

\* Every process the system schedules goes on, and the kernel delivers an
\* answer that is there; the firmware of target and attacker owes nothing.
FairSpec == Spec /\ WF_vars(Fuzzer) /\ WF_vars(Interceptor) /\ WF_vars(RecvAck)

-----------------------------------------------------------------------------
(* Properties *)

LocationTypes ==
  /\ fpc \in {"collect", "load", "idle", "fork", "clone", "wait", "report", "kill",
              "attackerr", "crash", "timeout", "join", "keep", "exited", "aborted"}
  /\ ipc \in {"dead", "recv", "edit", "spin", "ack", "passrecv", "passack",
              "lastrecv", "lastack", "saveopen", "savewrite", "exit"}
  /\ tpc \in {"run", "await"}
  /\ tstat \in {"none", "alive", "hookexit", "exit0", "exit1", "exitN", "trap",
                "segv", "killed"}
  /\ astat \in {"none", "alive", "exitErr", "trap", "killed"}
  /\ initfile \in {"none", "partial", "full"}
  /\ fault \in {"none", "error", "timeout", "crash"}

FlagTypes ==
  /\ create_init_corpus \in BOOLEAN /\ gained \in BOOLEAN /\ doom \in BOOLEAN
  /\ bsim \in BOOLEAN
  /\ files \subseteq {"crash", "targetErr", "attackerErr", "timeout", "seed"}

CorpusTypes ==
  /\ corpus \in Seq(Kind) /\ Len(corpus) <= MaxPkts
  /\ pkt_rec \in Seq(Msg) /\ Len(pkt_rec) <= MaxPkts
  /\ \A c \in seeds : c \in Seq(Kind) /\ Len(c) <= MaxPkts
  /\ i \in 0..MaxPkts

CounterTypes ==
  /\ execs \in Nat /\ cnt \in Nat /\ tn \in Nat
  /\ leftover \in Nat /\ timeouts \in Nat

QueueTypes ==
  /\ pktq \in Seq(Msg) /\ ackq \in Seq(Msg) /\ Len(pktq) + Len(ackq) <= QueueCap
  /\ held \in Seq(Msg) /\ Len(held) <= 1

\* The types of the variables, with the capacity of the queue and the room of
\* the recorder (add_pkt_to_seq_buf never has to refuse a packet).
TypeOK == LocationTypes /\ FlagTypes /\ CorpusTypes /\ CounterTypes /\ QueueTypes

Awaited == IF tpc = "await" THEN 1 ELSE 0

\* Nothing is lost or invented between hook and interceptor: while the
\* interceptor runs undisturbed, what is in the queue and in its hands is what
\* earlier executions left there and the one packet the target waits for.
FlightConserved ==
  ipc # "dead" /\ ~doom => InFlight = leftover + Awaited

\* A message outlives its execution only if the alarm killed the target it
\* belonged to: the queue never holds more stale messages than there were
\* timeouts (fuzz_one does not re-create the queue after one, btfuzz.c:594).
StaleBounded ==
  /\ leftover <= timeouts
  /\ Quiet => InFlight <= timeouts

\* Every message of q is about packet n of execution e.
Concern(q, e, n) == \A k \in 1..Len(q) : q[k].exec = e /\ q[k].n = n

\* In an execution that began with an empty queue the answer the target gets
\* is the answer to the packet it sent, and no packet waits twice.
AckForOwnPacket ==
  leftover = 0 => \A q \in {pktq, ackq, held} : Concern(q, execs, tn)

\* In such an execution the record, which becomes the crash corpus or the next
\* seed, is the packets of this execution in the order the target sent them.
InOrder(r, e) == \A k \in 1..Len(r) : r[k].exec = e /\ r[k].n = k
RecordFaithful == leftover = 0 => InOrder(pkt_rec, execs)

\* wait_for_target saves the crash corpus before the interceptor is stopped
\* (btfuzz.c:385): every packet the target got before it crashed is in it.
CrashCorpusComplete ==
  fpc = "report" /\ fault = "crash" /\ leftover = 0 /\ ~create_init_corpus =>
    /\ held = << >>
    /\ Len(pkt_rec) = IF tn < Len(corpus) THEN tn ELSE Len(corpus)

\* A target that left through the hook replayed the whole corpus, and two
\* packets more.
CleanExitCompletes ==
  tstat = "hookexit" /\ leftover = 0 /\ ~Quiet /\ fpc # "fork" =>
    /\ create_init_corpus => Len(pkt_rec) = tn - 1
    /\ ~create_init_corpus => tn = Len(corpus) + 2 /\ Len(pkt_rec) = Len(corpus)

\* Once the interceptor is gone no live target waits for an answer that cannot
\* come: nothing but the answer could wake it, the alarm being gone as well.
TargetNeverStranded ==
  fpc = "wait" /\ ipc = "dead" /\ tstat = "alive" /\ tpc = "await" => ackq # << >>

\* The init run leaves a complete seed file or none, unless the attacker failed:
\* then the interceptor may be killed between the two (btfuzz.c:570 and 151).
InitFileComplete ==
  fpc = "load" /\ initfile = "partial" => "attackerErr" \in files

\* A fuzzing execution that began with an empty queue returns, whatever the
\* target does.
FuzzOneReturns ==
  (fpc = "wait" /\ ~create_init_corpus /\ leftover = 0) ~> (fpc = "idle")
=============================================================================
