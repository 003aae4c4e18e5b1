--------------------------- MODULE FuzzOneProofs ---------------------------
(***************************************************************************)
(* Theorems about FuzzOne, for every value of its constants: the types of  *)
(* its variables, the ledger of its message queue, the lockstep of hook    *)
(* and interceptor, how an execution ends, and that it implements          *)
(* ExecContract.                                                           *)
(***************************************************************************)
EXTENDS FuzzOneRefinement, SequenceTheorems, TLAPS

-----------------------------------------------------------------------------
(* Types *)

Holding == ipc \in {"edit", "spin", "ack", "passack", "lastack"}

Control ==
  /\ ipc # "dead" => fpc \in {"wait", "report", "kill", "attackerr", "crash",
                              "timeout", "join"}
  /\ Len(held) = IF Holding THEN 1 ELSE 0
  /\ fpc \in {"collect", "fork", "clone"} => pkt_rec = << >>
  /\ ~create_init_corpus /\ ipc # "dead" => i <= Len(corpus) /\ Len(pkt_rec) <= i
  /\ ~create_init_corpus /\ ipc \in {"recv", "edit"} => i < Len(corpus)
  /\ create_init_corpus /\ ipc \in {"recv", "edit"} => Len(pkt_rec) < MaxPkts

TypeInv == TypeOK /\ Control

LEMMA ConstantTypes == MaxPkts \in Nat /\ MaxPkts > 0 /\ QueueCap \in Nat
BY FuzzOneAssumption

(* What the operators on messages, records and seeds return. *)

LEMMA SeedOfType ==
  ASSUME NEW r \in Seq(Msg)
  PROVE  SeedOf(r) \in Seq(Kind) /\ Len(SeedOf(r)) = Len(r)
BY DEF SeedOf, Kind

LEMMA HoledType ==
  ASSUME NEW r \in Seq(Msg), NEW k \in Int
  PROVE  Holed(r, k) \in Seq(Kind) /\ Len(Holed(r, k)) = Len(r)
<1>1. \A j \in 1..Len(r) : Holed(r, k)[j] \in Kind
  BY DEF Holed, SeedOf, Kind
<1> QED
  BY <1>1 DEF Holed

LEMMA RecordType ==
  ASSUME NEW r \in Seq(Msg), NEW m \in Msg
  PROVE  /\ Record(r, m) \in Seq(Msg)
         /\ Len(Record(r, m)) \in {Len(r), Len(r) + 1}
BY DEF Record

LEMMA SetMutType ==
  ASSUME NEW m \in Msg, NEW k \in 0..2
  PROVE  [m EXCEPT !.mut = k] \in Msg
BY DEF Msg

LEMMA LastAnswerType ==
  ASSUME NEW m \in Msg
  PROVE  LastAnswer(m) \in Msg
BY DEF LastAnswer, Msg

LEMMA AppendMsg ==
  ASSUME NEW q \in Seq(Msg), NEW m \in Msg
  PROVE  Append(q, m) \in Seq(Msg) /\ Len(Append(q, m)) = Len(q) + 1
OBVIOUS

LEMMA SingleMsg ==
  ASSUME NEW m \in Msg
  PROVE  <<m>> \in Seq(Msg) /\ Len(<<m>>) = 1 /\ <<m>>[1] = m
OBVIOUS

LEMMA HeldMsg == QueueTypes /\ Len(held) = 1 => held[1] \in Msg
<1> SUFFICES ASSUME QueueTypes, Len(held) = 1 PROVE held[1] \in Msg
  OBVIOUS
<1>1. held \in Seq(Msg) /\ 1 \in 1..Len(held)
  BY DEF QueueTypes
<1> QED
  BY <1>1, ElementOfSeq

(* TypeInv is inductive: one lemma per action. *)

LEMMA InitTypeInv == Init => TypeInv
<1> SUFFICES ASSUME Init PROVE TypeInv
  OBVIOUS
<1> USE DEF Init
<1>0. LocationTypes
  BY DEF LocationTypes
<1>1. FlagTypes
  BY DEF FlagTypes
<1>2. CorpusTypes
  BY FuzzOneAssumption DEF CorpusTypes
<1>3. CounterTypes
  BY DEF CounterTypes
<1>4. QueueTypes
  BY FuzzOneAssumption DEF QueueTypes
<1>5. Control
  BY DEF Control, Holding
<1> QED
  BY <1>0, <1>1, <1>2, <1>3, <1>4, <1>5 DEF TypeInv, TypeOK

LEMMA CollectInitCorpusTypeInv == TypeInv /\ CollectInitCorpus => TypeInv'
<1> SUFFICES ASSUME TypeInv, CollectInitCorpus PROVE TypeInv'
  OBVIOUS
<1> USE DEF CollectInitCorpus, fuzzer, interceptor, target, store, queue, TypeInv, TypeOK
<1>0. LocationTypes'
  BY DEF LocationTypes
<1>1. FlagTypes'
  BY DEF FlagTypes
<1>2. UNCHANGED <<corpus, pkt_rec, seeds, i, execs, cnt, tn, leftover, timeouts, pktq, ackq, held>>
  OBVIOUS
<1>3. CorpusTypes'
  BY <1>2 DEF CorpusTypes
<1>4. CounterTypes'
  BY <1>2 DEF CounterTypes
<1>5. QueueTypes'
  BY <1>2 DEF QueueTypes
<1>6. Control'
  BY DEF Control, Holding, LocationTypes, FlagTypes, CorpusTypes, QueueTypes
<1> QED
  BY <1>0, <1>1, <1>3, <1>4, <1>5, <1>6

LEMMA LoadCorpusTypeInv == TypeInv /\ LoadCorpus => TypeInv'
<1> SUFFICES ASSUME TypeInv, LoadCorpus PROVE TypeInv'
  OBVIOUS
<1> USE DEF LoadCorpus, SeedOf, fuzzer, interceptor, target, store, queue, TypeInv, TypeOK
<1>0. LocationTypes'
  BY DEF LocationTypes
<1>1. FlagTypes'
  BY DEF FlagTypes
<1>2. UNCHANGED <<execs, cnt, tn, leftover, timeouts, pktq, ackq, held>>
  OBVIOUS
<1>3. CorpusTypes'
  <2>1. pkt_rec \in Seq(Msg) /\ Len(pkt_rec) <= MaxPkts
    BY DEF CorpusTypes
  <2>2. \A c \in seeds' : c \in Seq(Kind) /\ Len(c) <= MaxPkts
    <3>1. CASE seeds' = seeds
      BY <3>1 DEF CorpusTypes
    <3>2. CASE seeds' = {SeedOf(pkt_rec)}
      BY <3>2, <2>1, SeedOfType
    <3>3. CASE \E k \in 0..(Len(pkt_rec) - 1) : seeds' = {Holed(pkt_rec, k)}
      BY <3>3, <2>1, HoledType
    <3> QED
      BY <3>1, <3>2, <3>3
  <2> QED
    BY <2>2 DEF CorpusTypes
<1>4. CounterTypes'
  BY <1>2 DEF CounterTypes
<1>5. QueueTypes'
  BY <1>2 DEF QueueTypes
<1>6. Control'
  BY DEF Control, Holding, LocationTypes, FlagTypes, CorpusTypes, QueueTypes
<1> QED
  BY <1>0, <1>1, <1>3, <1>4, <1>5, <1>6

LEMMA StartFuzzOneTypeInv == TypeInv /\ StartFuzzOne => TypeInv'
<1> SUFFICES ASSUME TypeInv, StartFuzzOne PROVE TypeInv'
  OBVIOUS
<1> USE DEF StartFuzzOne, InitPktSeqBuf, fuzzer, interceptor, target, store, queue, TypeInv, TypeOK
<1>0. LocationTypes'
  BY DEF LocationTypes
<1>1. FlagTypes'
  BY DEF FlagTypes
<1>2. UNCHANGED <<execs, cnt, tn, leftover, timeouts, pktq, ackq, held>>
  OBVIOUS
<1>3. CorpusTypes'
  BY ConstantTypes DEF CorpusTypes
<1>4. CounterTypes'
  BY <1>2 DEF CounterTypes
<1>5. QueueTypes'
  BY <1>2 DEF QueueTypes
<1>6. Control'
  BY DEF Control, Holding, LocationTypes, FlagTypes, CorpusTypes, QueueTypes
<1> QED
  BY <1>0, <1>1, <1>3, <1>4, <1>5, <1>6

LEMMA TimerExitTypeInv == TypeInv /\ TimerExit => TypeInv'
<1> SUFFICES ASSUME TypeInv, TimerExit PROVE TypeInv'
  OBVIOUS
<1> USE DEF TimerExit, fuzzer, interceptor, target, store, queue, TypeInv, TypeOK
<1>0. LocationTypes'
  BY DEF LocationTypes
<1>1. FlagTypes'
  BY DEF FlagTypes
<1>2. UNCHANGED <<corpus, pkt_rec, seeds, i, execs, cnt, tn, leftover, timeouts>>
  OBVIOUS
<1>3. CorpusTypes'
  BY <1>2 DEF CorpusTypes
<1>4. CounterTypes'
  BY <1>2 DEF CounterTypes
<1>5. QueueTypes'
  BY ConstantTypes DEF QueueTypes
<1>6. Control'
  BY DEF Control, Holding, LocationTypes, FlagTypes, CorpusTypes, QueueTypes
<1> QED
  BY <1>0, <1>1, <1>3, <1>4, <1>5, <1>6

LEMMA ForkTypeInv == TypeInv /\ Fork => TypeInv'
<1> SUFFICES ASSUME TypeInv, Fork PROVE TypeInv'
  OBVIOUS
<1> USE DEF Fork, fuzzer, interceptor, target, store, queue, TypeInv, TypeOK
<1>0. LocationTypes'
  BY DEF LocationTypes
<1>1. FlagTypes'
  BY DEF FlagTypes
<1>2. UNCHANGED <<corpus, pkt_rec, seeds, i, pktq, ackq, held>>
  OBVIOUS
<1>3. CorpusTypes'
  BY <1>2 DEF CorpusTypes
<1>4. CounterTypes'
  BY DEF CounterTypes
<1>5. QueueTypes'
  BY <1>2 DEF QueueTypes
<1>6. Control'
  BY DEF Control, Holding, LocationTypes, FlagTypes, CorpusTypes, QueueTypes
<1> QED
  BY <1>0, <1>1, <1>3, <1>4, <1>5, <1>6

LEMMA CloneTypeInv == TypeInv /\ Clone => TypeInv'
<1> SUFFICES ASSUME TypeInv, Clone PROVE TypeInv'
  OBVIOUS
<1> USE DEF Clone, fuzzer, interceptor, target, store, queue, TypeInv, TypeOK
<1>0. LocationTypes'
  BY DEF LocationTypes
<1>1. FlagTypes'
  BY DEF FlagTypes
<1>3. CorpusTypes'
  BY ConstantTypes DEF CorpusTypes
<1>4. CounterTypes'
  BY DEF CounterTypes
<1>5. QueueTypes'
  BY ConstantTypes DEF QueueTypes
<1>6. Control'
  <2>1. corpus # << >> => 0 < Len(corpus)
    BY DEF CorpusTypes
  <2> QED
    BY <2>1, ConstantTypes DEF Control, Holding, CorpusTypes
<1> QED
  BY <1>0, <1>1, <1>3, <1>4, <1>5, <1>6

LEMMA ReapTypeInv == TypeInv /\ Reap => TypeInv'
<1> SUFFICES ASSUME TypeInv, Reap PROVE TypeInv'
  OBVIOUS
<1> USE DEF Reap, FaultOf, fuzzer, interceptor, target, store, queue, TypeInv, TypeOK
<1>0. LocationTypes'
  BY DEF LocationTypes
<1>1. FlagTypes'
  BY DEF FlagTypes
<1>2. UNCHANGED <<corpus, pkt_rec, seeds, i, execs, cnt, tn, leftover, timeouts, pktq, ackq, held>>
  OBVIOUS
<1>3. CorpusTypes'
  BY <1>2 DEF CorpusTypes
<1>4. CounterTypes'
  BY <1>2 DEF CounterTypes
<1>5. QueueTypes'
  BY <1>2 DEF QueueTypes
<1>6. Control'
  BY DEF Control, Holding, LocationTypes, FlagTypes, CorpusTypes, QueueTypes
<1> QED
  BY <1>0, <1>1, <1>3, <1>4, <1>5, <1>6

LEMMA ReportTypeInv == TypeInv /\ Report => TypeInv'
<1> SUFFICES ASSUME TypeInv, Report PROVE TypeInv'
  OBVIOUS
<1> USE DEF Report, fuzzer, interceptor, target, store, queue, TypeInv, TypeOK
<1>0. LocationTypes'
  BY DEF LocationTypes
<1>1. FlagTypes'
  BY DEF FlagTypes
<1>2. UNCHANGED <<corpus, pkt_rec, seeds, i, execs, cnt, tn, leftover, timeouts, pktq, ackq, held>>
  OBVIOUS
<1>3. CorpusTypes'
  BY <1>2 DEF CorpusTypes
<1>4. CounterTypes'
  BY <1>2 DEF CounterTypes
<1>5. QueueTypes'
  BY <1>2 DEF QueueTypes
<1>6. Control'
  BY DEF Control, Holding, LocationTypes, FlagTypes, CorpusTypes, QueueTypes
<1> QED
  BY <1>0, <1>1, <1>3, <1>4, <1>5, <1>6

LEMMA KillBsimTypeInv == TypeInv /\ KillBsim => TypeInv'
<1> SUFFICES ASSUME TypeInv, KillBsim PROVE TypeInv'
  OBVIOUS
<1> USE DEF KillBsim, fuzzer, interceptor, target, store, queue, TypeInv, TypeOK
<1>0. LocationTypes'
  BY DEF LocationTypes
<1>1. FlagTypes'
  BY DEF FlagTypes
<1>2. UNCHANGED <<corpus, pkt_rec, seeds, i, execs, cnt, tn, leftover, timeouts, pktq, ackq, held>>
  OBVIOUS
<1>3. CorpusTypes'
  BY <1>2 DEF CorpusTypes
<1>4. CounterTypes'
  BY <1>2 DEF CounterTypes
<1>5. QueueTypes'
  BY <1>2 DEF QueueTypes
<1>6. Control'
  BY DEF Control, Holding, LocationTypes, FlagTypes, CorpusTypes, QueueTypes
<1> QED
  BY <1>0, <1>1, <1>3, <1>4, <1>5, <1>6

LEMMA KillAttackerTypeInv == TypeInv /\ KillAttacker => TypeInv'
<1> SUFFICES ASSUME TypeInv, KillAttacker PROVE TypeInv'
  OBVIOUS
<1> USE DEF KillAttacker, fuzzer, interceptor, target, store, queue, TypeInv, TypeOK
<1>0. LocationTypes'
  BY DEF LocationTypes
<1>1. FlagTypes'
  BY DEF FlagTypes
<1>2. UNCHANGED <<corpus, pkt_rec, seeds, i, execs, cnt, tn, leftover, timeouts, pktq, ackq, held>>
  OBVIOUS
<1>3. CorpusTypes'
  BY <1>2 DEF CorpusTypes
<1>4. CounterTypes'
  BY <1>2 DEF CounterTypes
<1>5. QueueTypes'
  BY <1>2 DEF QueueTypes
<1>6. Control'
  BY DEF Control, Holding, LocationTypes, FlagTypes, CorpusTypes, QueueTypes
<1> QED
  BY <1>0, <1>1, <1>3, <1>4, <1>5, <1>6

LEMMA AttackErrTypeInv == TypeInv /\ AttackErr => TypeInv'
<1> SUFFICES ASSUME TypeInv, AttackErr PROVE TypeInv'
  OBVIOUS
<1> USE DEF AttackErr, ResetQueue, AttackError, fuzzer, interceptor, target, store, queue, TypeInv, TypeOK
<1>0. LocationTypes'
  BY DEF LocationTypes
<1>1. FlagTypes'
  BY DEF FlagTypes
<1>2. UNCHANGED <<corpus, pkt_rec, seeds, i, execs, cnt, tn, leftover, timeouts>>
  OBVIOUS
<1>3. CorpusTypes'
  BY <1>2 DEF CorpusTypes
<1>4. CounterTypes'
  BY <1>2 DEF CounterTypes
<1>5. QueueTypes'
  <2>1. CASE pktq' = << >> /\ ackq' = << >>
    BY <2>1, ConstantTypes DEF QueueTypes
  <2>2. CASE UNCHANGED queue
    BY <2>2 DEF QueueTypes
  <2> QED
    BY <2>1, <2>2
<1>6. Control'
  BY DEF Control, Holding, LocationTypes, FlagTypes, CorpusTypes, QueueTypes
<1> QED
  BY <1>0, <1>1, <1>3, <1>4, <1>5, <1>6

LEMMA CrashTypeInv == TypeInv /\ Crash => TypeInv'
<1> SUFFICES ASSUME TypeInv, Crash PROVE TypeInv'
  OBVIOUS
<1> USE DEF Crash, ResetQueue, fuzzer, interceptor, target, store, queue, TypeInv, TypeOK
<1>0. LocationTypes'
  BY DEF LocationTypes
<1>1. FlagTypes'
  BY DEF FlagTypes
<1>2. UNCHANGED <<corpus, pkt_rec, seeds, i, execs, cnt, tn, leftover, timeouts>>
  OBVIOUS
<1>3. CorpusTypes'
  BY <1>2 DEF CorpusTypes
<1>4. CounterTypes'
  BY <1>2 DEF CounterTypes
<1>5. QueueTypes'
  <2>1. CASE pktq' = << >> /\ ackq' = << >>
    BY <2>1, ConstantTypes DEF QueueTypes
  <2>2. CASE UNCHANGED queue
    BY <2>2 DEF QueueTypes
  <2> QED
    BY <2>1, <2>2
<1>6. Control'
  BY DEF Control, Holding, LocationTypes, FlagTypes, CorpusTypes, QueueTypes
<1> QED
  BY <1>0, <1>1, <1>3, <1>4, <1>5, <1>6

LEMMA TimeoutTypeInv == TypeInv /\ Timeout => TypeInv'
<1> SUFFICES ASSUME TypeInv, Timeout PROVE TypeInv'
  OBVIOUS
<1> USE DEF Timeout, fuzzer, interceptor, target, store, queue, TypeInv, TypeOK
<1>0. LocationTypes'
  BY DEF LocationTypes
<1>1. FlagTypes'
  BY DEF FlagTypes
<1>2. UNCHANGED <<corpus, pkt_rec, seeds, i, execs, cnt, tn, leftover, timeouts, pktq, ackq, held>>
  OBVIOUS
<1>3. CorpusTypes'
  BY <1>2 DEF CorpusTypes
<1>4. CounterTypes'
  BY <1>2 DEF CounterTypes
<1>5. QueueTypes'
  BY <1>2 DEF QueueTypes
<1>6. Control'
  BY DEF Control, Holding, LocationTypes, FlagTypes, CorpusTypes, QueueTypes
<1> QED
  BY <1>0, <1>1, <1>3, <1>4, <1>5, <1>6

LEMMA JoinTypeInv == TypeInv /\ Join => TypeInv'
<1> SUFFICES ASSUME TypeInv, Join PROVE TypeInv'
  OBVIOUS
<1> USE DEF Join, InterceptorReaped, fuzzer, interceptor, target, store, queue, TypeInv, TypeOK
<1>0. LocationTypes'
  BY DEF LocationTypes
<1>1. FlagTypes'
  BY DEF FlagTypes
<1>2. UNCHANGED <<corpus, pkt_rec, seeds, i, execs, cnt, tn, leftover, timeouts, pktq, ackq, held>>
  OBVIOUS
<1>3. CorpusTypes'
  BY <1>2 DEF CorpusTypes
<1>4. CounterTypes'
  BY <1>2 DEF CounterTypes
<1>5. QueueTypes'
  BY <1>2 DEF QueueTypes
<1>6. Control'
  <2>1. fpc' \in {"load", "idle", "keep"}
    OBVIOUS
  <2> QED
    BY <2>1 DEF Control, Holding
<1> QED
  BY <1>0, <1>1, <1>3, <1>4, <1>5, <1>6

LEMMA KeepTypeInv == TypeInv /\ Keep => TypeInv'
<1> SUFFICES ASSUME TypeInv, Keep PROVE TypeInv'
  OBVIOUS
<1> USE DEF Keep, SeedOf, fuzzer, interceptor, target, store, queue, TypeInv, TypeOK
<1>0. LocationTypes'
  BY DEF LocationTypes
<1>1. FlagTypes'
  BY DEF FlagTypes
<1>2. UNCHANGED <<execs, cnt, tn, leftover, timeouts, pktq, ackq, held>>
  OBVIOUS
<1>3. CorpusTypes'
  <2>1. pkt_rec \in Seq(Msg) /\ Len(pkt_rec) <= MaxPkts
    BY DEF CorpusTypes
  <2>2. SeedOf(pkt_rec) \in Seq(Kind) /\ Len(SeedOf(pkt_rec)) <= MaxPkts
    BY <2>1, SeedOfType
  <2>3. \A c \in seeds' : c \in Seq(Kind) /\ Len(c) <= MaxPkts
    BY <2>2 DEF CorpusTypes
  <2> QED
    BY <2>3 DEF CorpusTypes
<1>4. CounterTypes'
  BY <1>2 DEF CounterTypes
<1>5. QueueTypes'
  BY <1>2 DEF QueueTypes
<1>6. Control'
  BY DEF Control, Holding, LocationTypes, FlagTypes, CorpusTypes, QueueTypes
<1> QED
  BY <1>0, <1>1, <1>3, <1>4, <1>5, <1>6

LEMMA RecvLoopTypeInv == TypeInv /\ RecvLoop => TypeInv'
<1> SUFFICES ASSUME TypeInv, RecvLoop PROVE TypeInv'
  OBVIOUS
<1> USE DEF RecvLoop, Receive, fuzzer, interceptor, target, store, queue, TypeInv, TypeOK
<1>0. LocationTypes'
  BY DEF LocationTypes
<1>1. FlagTypes'
  BY DEF FlagTypes
<1>2. UNCHANGED <<corpus, pkt_rec, seeds, i, execs, cnt, tn, leftover, timeouts>>
  OBVIOUS
<1>3. CorpusTypes'
  BY <1>2 DEF CorpusTypes
<1>4. CounterTypes'
  BY <1>2 DEF CounterTypes
<1>5. QueueTypes'
  BY ConstantTypes DEF QueueTypes
<1>6. Control'
  BY DEF Control, Holding, LocationTypes, FlagTypes, CorpusTypes, QueueTypes
<1> QED
  BY <1>0, <1>1, <1>3, <1>4, <1>5, <1>6

LEMMA RecvPassTypeInv == TypeInv /\ RecvPass => TypeInv'
<1> SUFFICES ASSUME TypeInv, RecvPass PROVE TypeInv'
  OBVIOUS
<1> USE DEF RecvPass, Receive, fuzzer, interceptor, target, store, queue, TypeInv, TypeOK
<1>0. LocationTypes'
  BY DEF LocationTypes
<1>1. FlagTypes'
  BY DEF FlagTypes
<1>2. UNCHANGED <<corpus, pkt_rec, seeds, i, execs, cnt, tn, leftover, timeouts>>
  OBVIOUS
<1>3. CorpusTypes'
  BY <1>2 DEF CorpusTypes
<1>4. CounterTypes'
  BY <1>2 DEF CounterTypes
<1>5. QueueTypes'
  BY ConstantTypes DEF QueueTypes
<1>6. Control'
  BY DEF Control, Holding, LocationTypes, FlagTypes, CorpusTypes, QueueTypes
<1> QED
  BY <1>0, <1>1, <1>3, <1>4, <1>5, <1>6

LEMMA RecvLastTypeInv == TypeInv /\ RecvLast => TypeInv'
<1> SUFFICES ASSUME TypeInv, RecvLast PROVE TypeInv'
  OBVIOUS
<1> USE DEF RecvLast, Receive, fuzzer, interceptor, target, store, queue, TypeInv, TypeOK
<1>0. LocationTypes'
  BY DEF LocationTypes
<1>1. FlagTypes'
  BY DEF FlagTypes
<1>2. UNCHANGED <<corpus, pkt_rec, seeds, i, execs, cnt, tn, leftover, timeouts>>
  OBVIOUS
<1>3. CorpusTypes'
  BY <1>2 DEF CorpusTypes
<1>4. CounterTypes'
  BY <1>2 DEF CounterTypes
<1>5. QueueTypes'
  BY ConstantTypes DEF QueueTypes
<1>6. Control'
  BY DEF Control, Holding, LocationTypes, FlagTypes, CorpusTypes, QueueTypes
<1> QED
  BY <1>0, <1>1, <1>3, <1>4, <1>5, <1>6

LEMMA EditFuzzTypeInv == TypeInv /\ EditFuzz => TypeInv'
<1> SUFFICES ASSUME TypeInv, EditFuzz PROVE TypeInv'
  OBVIOUS
<1> USE DEF EditFuzz, fuzzer, interceptor, target, store, queue, TypeInv, TypeOK
<1>0. LocationTypes'
  BY DEF LocationTypes
<1>1. FlagTypes'
  BY DEF FlagTypes
<1>2. UNCHANGED <<execs, cnt, tn, leftover, timeouts>>
  OBVIOUS
<1> DEFINE Edited(m) == [held[1] EXCEPT !.mut = m]
<1>9. PICK m \in 0..2 : held' = <<Edited(m)>>
  OBVIOUS
<1>10. held' \in Seq(Msg) /\ Len(held') = 1 /\ held'[1] \in Msg
  <2>1. held[1] \in Msg
    BY HeldMsg DEF Control, Holding
  <2>2. Edited(m) \in Msg
    BY <2>1, SetMutType
  <2> HIDE DEF Edited
  <2> QED
    BY <1>9, <2>2, SingleMsg
<1> HIDE DEF Edited
<1>3. CorpusTypes'
  <2>1. i' = i + 1 /\ i < Len(corpus) /\ Len(pkt_rec) <= i /\ UNCHANGED <<corpus, seeds>>
    BY DEF Control
  <2>2. pkt_rec' = Record(pkt_rec, held'[1])
    OBVIOUS
  <2> HIDE DEF EditFuzz
  <2>3. pkt_rec' \in Seq(Msg) /\ Len(pkt_rec') \in {Len(pkt_rec), Len(pkt_rec) + 1}
    BY <2>2, <1>10, RecordType DEF CorpusTypes
  <2> QED
    BY <2>1, <2>3, ConstantTypes DEF CorpusTypes
<1>4. CounterTypes'
  BY <1>2 DEF CounterTypes
<1>5. QueueTypes'
  BY <1>10 DEF QueueTypes
<1>6. Control'
  <2>1. Len(pkt_rec') <= Len(pkt_rec) + 1
    BY <1>10, RecordType DEF CorpusTypes
  <2> QED
    BY <1>10, <2>1 DEF Control, Holding, LocationTypes, FlagTypes, CorpusTypes
<1> QED
  BY <1>0, <1>1, <1>3, <1>4, <1>5, <1>6

LEMMA EditHoleTypeInv == TypeInv /\ EditHole => TypeInv'
<1> SUFFICES ASSUME TypeInv, EditHole PROVE TypeInv'
  OBVIOUS
<1> USE DEF EditHole, fuzzer, interceptor, target, store, queue, TypeInv, TypeOK
<1>0. LocationTypes'
  BY DEF LocationTypes
<1>1. FlagTypes'
  BY DEF FlagTypes
<1>2. UNCHANGED <<corpus, pkt_rec, seeds, i, execs, cnt, tn, leftover, timeouts, pktq, ackq, held>>
  OBVIOUS
<1>3. CorpusTypes'
  BY <1>2 DEF CorpusTypes
<1>4. CounterTypes'
  BY <1>2 DEF CounterTypes
<1>5. QueueTypes'
  BY <1>2 DEF QueueTypes
<1>6. Control'
  BY DEF Control, Holding, LocationTypes, FlagTypes, CorpusTypes, QueueTypes
<1> QED
  BY <1>0, <1>1, <1>3, <1>4, <1>5, <1>6

LEMMA EditInitTypeInv == TypeInv /\ EditInit => TypeInv'
<1> SUFFICES ASSUME TypeInv, EditInit PROVE TypeInv'
  OBVIOUS
<1> USE DEF EditInit, fuzzer, interceptor, target, store, queue, TypeInv, TypeOK
<1>0. LocationTypes'
  BY DEF LocationTypes
<1>1. FlagTypes'
  BY DEF FlagTypes
<1>2. UNCHANGED <<execs, cnt, tn, leftover, timeouts, pktq, ackq, held>>
  OBVIOUS
<1>3. CorpusTypes'
  <2>1. held[1] \in Msg
    BY HeldMsg DEF Control, Holding
  <2>2. Len(pkt_rec) < MaxPkts /\ UNCHANGED <<corpus, seeds, i>>
    BY DEF Control
  <2>3. pkt_rec' = Record(pkt_rec, held[1])
    OBVIOUS
  <2> HIDE DEF EditInit
  <2>4. pkt_rec' \in Seq(Msg) /\ Len(pkt_rec') \in {Len(pkt_rec), Len(pkt_rec) + 1}
    BY <2>1, <2>3, RecordType DEF CorpusTypes
  <2> QED
    BY <2>2, <2>4, ConstantTypes DEF CorpusTypes
<1>4. CounterTypes'
  BY <1>2 DEF CounterTypes
<1>5. QueueTypes'
  BY <1>2 DEF QueueTypes
<1>6. Control'
  BY DEF Control, Holding, LocationTypes, FlagTypes, CorpusTypes, QueueTypes
<1> QED
  BY <1>0, <1>1, <1>3, <1>4, <1>5, <1>6

LEMMA AckFuzzTypeInv == TypeInv /\ AckFuzz => TypeInv'
<1> SUFFICES ASSUME TypeInv, AckFuzz PROVE TypeInv'
  OBVIOUS
<1> USE DEF AckFuzz, Answer, Room, CorpusDone, fuzzer, interceptor, target, store, queue, TypeInv, TypeOK
<1>0. LocationTypes'
  BY DEF LocationTypes
<1>1. FlagTypes'
  BY DEF FlagTypes
<1>2. UNCHANGED <<corpus, pkt_rec, seeds, i, execs, cnt, tn, leftover, timeouts>>
  OBVIOUS
<1>3. CorpusTypes'
  BY <1>2 DEF CorpusTypes
<1>4. CounterTypes'
  BY <1>2 DEF CounterTypes
<1>5. QueueTypes'
  <2>1. held[1] \in Msg
    BY HeldMsg DEF Control, Holding
  <2>2. held[1] \in Msg
    BY <2>1
  <2>3. ackq' \in Seq(Msg) /\ Len(ackq') = Len(ackq) + 1
    BY <2>2, AppendMsg DEF QueueTypes
  <2> QED
    BY <2>3, ConstantTypes DEF QueueTypes
<1>6. Control'
  BY DEF Control, Holding, LocationTypes, FlagTypes, CorpusTypes, QueueTypes
<1> QED
  BY <1>0, <1>1, <1>3, <1>4, <1>5, <1>6

LEMMA AckInitTypeInv == TypeInv /\ AckInit => TypeInv'
<1> SUFFICES ASSUME TypeInv, AckInit PROVE TypeInv'
  OBVIOUS
<1> USE DEF AckInit, Answer, Room, RecordFull, fuzzer, interceptor, target, store, queue, TypeInv, TypeOK
<1>0. LocationTypes'
  BY DEF LocationTypes
<1>1. FlagTypes'
  BY DEF FlagTypes
<1>2. UNCHANGED <<corpus, pkt_rec, seeds, i>>
  OBVIOUS
<1>3. CorpusTypes'
  BY <1>2 DEF CorpusTypes
<1>4. CounterTypes'
  BY DEF CounterTypes
<1>5. QueueTypes'
  <2>1. held[1] \in Msg
    BY HeldMsg DEF Control, Holding
  <2>2. held[1] \in Msg
    BY <2>1
  <2>3. ackq' \in Seq(Msg) /\ Len(ackq') = Len(ackq) + 1
    BY <2>2, AppendMsg DEF QueueTypes
  <2> QED
    BY <2>3, ConstantTypes DEF QueueTypes
<1>6. Control'
  <2>1. ipc' = "recv" => Len(pkt_rec') < MaxPkts
    BY ConstantTypes DEF CorpusTypes
  <2>2. ipc' \in {"recv", "lastrecv"}
    OBVIOUS
  <2> QED
    BY <2>1, <2>2 DEF Control, Holding
<1> QED
  BY <1>0, <1>1, <1>3, <1>4, <1>5, <1>6

LEMMA AckPassTypeInv == TypeInv /\ AckPass => TypeInv'
<1> SUFFICES ASSUME TypeInv, AckPass PROVE TypeInv'
  OBVIOUS
<1> USE DEF AckPass, Answer, Room, fuzzer, interceptor, target, store, queue, TypeInv, TypeOK
<1>0. LocationTypes'
  BY DEF LocationTypes
<1>1. FlagTypes'
  BY DEF FlagTypes
<1>2. UNCHANGED <<corpus, pkt_rec, seeds, i, execs, cnt, tn, leftover, timeouts>>
  OBVIOUS
<1>3. CorpusTypes'
  BY <1>2 DEF CorpusTypes
<1>4. CounterTypes'
  BY <1>2 DEF CounterTypes
<1>5. QueueTypes'
  <2>1. held[1] \in Msg
    BY HeldMsg DEF Control, Holding
  <2>2. held[1] \in Msg
    BY <2>1
  <2>3. ackq' \in Seq(Msg) /\ Len(ackq') = Len(ackq) + 1
    BY <2>2, AppendMsg DEF QueueTypes
  <2> QED
    BY <2>3, ConstantTypes DEF QueueTypes
<1>6. Control'
  BY DEF Control, Holding, LocationTypes, FlagTypes, CorpusTypes, QueueTypes
<1> QED
  BY <1>0, <1>1, <1>3, <1>4, <1>5, <1>6

LEMMA AckLastTypeInv == TypeInv /\ AckLast => TypeInv'
<1> SUFFICES ASSUME TypeInv, AckLast PROVE TypeInv'
  OBVIOUS
<1> USE DEF AckLast, Answer, Room, fuzzer, interceptor, target, store, queue, TypeInv, TypeOK
<1>0. LocationTypes'
  BY DEF LocationTypes
<1>1. FlagTypes'
  BY DEF FlagTypes
<1>2. UNCHANGED <<corpus, pkt_rec, seeds, i, execs, cnt, tn, leftover, timeouts>>
  OBVIOUS
<1>3. CorpusTypes'
  BY <1>2 DEF CorpusTypes
<1>4. CounterTypes'
  BY <1>2 DEF CounterTypes
<1>5. QueueTypes'
  <2>1. held[1] \in Msg
    BY HeldMsg DEF Control, Holding
  <2>2. LastAnswer(held[1]) \in Msg
    BY <2>1, LastAnswerType
  <2>3. ackq' \in Seq(Msg) /\ Len(ackq') = Len(ackq) + 1
    BY <2>2, AppendMsg DEF QueueTypes
  <2> QED
    BY <2>3, ConstantTypes DEF QueueTypes
<1>6. Control'
  BY DEF Control, Holding, LocationTypes, FlagTypes, CorpusTypes, QueueTypes
<1> QED
  BY <1>0, <1>1, <1>3, <1>4, <1>5, <1>6

LEMMA SaveInitTypeInv == TypeInv /\ SaveInit => TypeInv'
<1> SUFFICES ASSUME TypeInv, SaveInit PROVE TypeInv'
  OBVIOUS
<1> USE DEF SaveInit, fuzzer, interceptor, target, store, queue, TypeInv, TypeOK
<1>0. LocationTypes'
  BY DEF LocationTypes
<1>1. FlagTypes'
  BY DEF FlagTypes
<1>2. UNCHANGED <<corpus, pkt_rec, seeds, i, execs, cnt, tn, leftover, timeouts, pktq, ackq, held>>
  OBVIOUS
<1>3. CorpusTypes'
  BY <1>2 DEF CorpusTypes
<1>4. CounterTypes'
  BY <1>2 DEF CounterTypes
<1>5. QueueTypes'
  BY <1>2 DEF QueueTypes
<1>6. Control'
  BY DEF Control, Holding, LocationTypes, FlagTypes, CorpusTypes, QueueTypes
<1> QED
  BY <1>0, <1>1, <1>3, <1>4, <1>5, <1>6

LEMMA ExitTypeInv == TypeInv /\ Exit => TypeInv'
<1> SUFFICES ASSUME TypeInv, Exit PROVE TypeInv'
  OBVIOUS
<1> USE DEF Exit, fuzzer, interceptor, target, store, queue, TypeInv, TypeOK
<1>0. LocationTypes'
  BY DEF LocationTypes
<1>1. FlagTypes'
  BY DEF FlagTypes
<1>2. UNCHANGED <<corpus, pkt_rec, seeds, i, execs, cnt, tn, leftover, timeouts, pktq, ackq, held>>
  OBVIOUS
<1>3. CorpusTypes'
  BY <1>2 DEF CorpusTypes
<1>4. CounterTypes'
  BY <1>2 DEF CounterTypes
<1>5. QueueTypes'
  BY <1>2 DEF QueueTypes
<1>6. Control'
  BY DEF Control, Holding, LocationTypes, FlagTypes, CorpusTypes, QueueTypes
<1> QED
  BY <1>0, <1>1, <1>3, <1>4, <1>5, <1>6

LEMMA AlarmTypeInv == TypeInv /\ Alarm => TypeInv'
<1> SUFFICES ASSUME TypeInv, Alarm PROVE TypeInv'
  OBVIOUS
<1> USE DEF Alarm, KillTarget, fuzzer, interceptor, target, store, queue, TypeInv, TypeOK
<1>0. LocationTypes'
  BY DEF LocationTypes
<1>1. FlagTypes'
  BY DEF FlagTypes
<1>2. UNCHANGED <<corpus, pkt_rec, seeds, i>>
  OBVIOUS
<1>3. CorpusTypes'
  BY <1>2 DEF CorpusTypes
<1>4. CounterTypes'
  BY DEF CounterTypes
<1>5. QueueTypes'
  BY ConstantTypes DEF QueueTypes
<1>6. Control'
  BY DEF Control, Holding, LocationTypes, FlagTypes, CorpusTypes, QueueTypes
<1> QED
  BY <1>0, <1>1, <1>3, <1>4, <1>5, <1>6

LEMMA DieTypeInv == TypeInv /\ Die => TypeInv'
<1> SUFFICES ASSUME TypeInv, Die PROVE TypeInv'
  OBVIOUS
<1> USE DEF Die, fuzzer, interceptor, target, store, queue, TypeInv, TypeOK
<1>0. LocationTypes'
  BY DEF LocationTypes
<1>1. FlagTypes'
  BY DEF FlagTypes
<1>2. UNCHANGED <<corpus, pkt_rec, seeds, i, execs, cnt, tn, leftover, timeouts>>
  OBVIOUS
<1>3. CorpusTypes'
  BY <1>2 DEF CorpusTypes
<1>4. CounterTypes'
  BY <1>2 DEF CounterTypes
<1>5. QueueTypes'
  BY ConstantTypes DEF QueueTypes
<1>6. Control'
  BY DEF Control, Holding, LocationTypes, FlagTypes, CorpusTypes, QueueTypes
<1> QED
  BY <1>0, <1>1, <1>3, <1>4, <1>5, <1>6

LEMMA SendTypeInv == TypeInv /\ Send => TypeInv'
<1> SUFFICES ASSUME TypeInv, Send PROVE TypeInv'
  OBVIOUS
<1> USE DEF Send, Room, fuzzer, interceptor, target, store, queue, TypeInv, TypeOK
<1>0. LocationTypes'
  BY DEF LocationTypes
<1>1. FlagTypes'
  BY DEF FlagTypes
<1>2. UNCHANGED <<corpus, pkt_rec, seeds, i>>
  OBVIOUS
<1>3. CorpusTypes'
  BY <1>2 DEF CorpusTypes
<1>4. CounterTypes'
  BY DEF CounterTypes
<1>5. QueueTypes'
  <2>1. [exec |-> execs, n |-> tn + 1, mut |-> 0] \in Msg
    BY DEF Msg, CounterTypes
  <2>2. pktq' \in Seq(Msg) /\ Len(pktq') = Len(pktq) + 1
    BY <2>1, AppendMsg DEF QueueTypes
  <2> QED
    BY <2>2, ConstantTypes DEF QueueTypes
<1>6. Control'
  BY DEF Control, Holding, LocationTypes, FlagTypes, CorpusTypes, QueueTypes
<1> QED
  BY <1>0, <1>1, <1>3, <1>4, <1>5, <1>6

LEMMA RecvAckTypeInv == TypeInv /\ RecvAck => TypeInv'
<1> SUFFICES ASSUME TypeInv, RecvAck PROVE TypeInv'
  OBVIOUS
<1> USE DEF RecvAck, fuzzer, interceptor, target, store, queue, TypeInv, TypeOK
<1>0. LocationTypes'
  BY DEF LocationTypes
<1>1. FlagTypes'
  BY DEF FlagTypes
<1>2. UNCHANGED <<corpus, pkt_rec, seeds, i, execs, cnt, tn, leftover, timeouts>>
  OBVIOUS
<1>3. CorpusTypes'
  BY <1>2 DEF CorpusTypes
<1>4. CounterTypes'
  BY <1>2 DEF CounterTypes
<1>5. QueueTypes'
  BY ConstantTypes DEF QueueTypes
<1>6. Control'
  BY DEF Control, Holding, LocationTypes, FlagTypes, CorpusTypes, QueueTypes
<1> QED
  BY <1>0, <1>1, <1>3, <1>4, <1>5, <1>6

LEMMA TargetEndsTypeInv == TypeInv /\ TargetEnds => TypeInv'
<1> SUFFICES ASSUME TypeInv, TargetEnds PROVE TypeInv'
  OBVIOUS
<1> USE DEF TargetEnds, fuzzer, interceptor, target, store, queue, TypeInv, TypeOK
<1>0. LocationTypes'
  BY DEF LocationTypes
<1>1. FlagTypes'
  BY DEF FlagTypes
<1>2. UNCHANGED <<corpus, pkt_rec, seeds, i, execs, cnt, tn, leftover, timeouts, pktq, ackq, held>>
  OBVIOUS
<1>3. CorpusTypes'
  BY <1>2 DEF CorpusTypes
<1>4. CounterTypes'
  BY <1>2 DEF CounterTypes
<1>5. QueueTypes'
  BY <1>2 DEF QueueTypes
<1>6. Control'
  BY DEF Control, Holding, LocationTypes, FlagTypes, CorpusTypes, QueueTypes
<1> QED
  BY <1>0, <1>1, <1>3, <1>4, <1>5, <1>6

LEMMA AttackerFailsTypeInv == TypeInv /\ AttackerFails => TypeInv'
<1> SUFFICES ASSUME TypeInv, AttackerFails PROVE TypeInv'
  OBVIOUS
<1> USE DEF AttackerFails, fuzzer, interceptor, target, store, queue, TypeInv, TypeOK
<1>0. LocationTypes'
  BY DEF LocationTypes
<1>1. FlagTypes'
  BY DEF FlagTypes
<1>2. UNCHANGED <<corpus, pkt_rec, seeds, i, execs, cnt, tn, leftover, timeouts, pktq, ackq, held>>
  OBVIOUS
<1>3. CorpusTypes'
  BY <1>2 DEF CorpusTypes
<1>4. CounterTypes'
  BY <1>2 DEF CounterTypes
<1>5. QueueTypes'
  BY <1>2 DEF QueueTypes
<1>6. Control'
  BY DEF Control, Holding, LocationTypes, FlagTypes, CorpusTypes, QueueTypes
<1> QED
  BY <1>0, <1>1, <1>3, <1>4, <1>5, <1>6

LEMMA TerminatedTypeInv == TypeInv /\ Terminated => TypeInv'
<1> SUFFICES ASSUME TypeInv, Terminated PROVE TypeInv'
  OBVIOUS
<1> USE DEF Terminated, vars, fuzzer, interceptor, target, store, queue, TypeInv, TypeOK
<1>0. LocationTypes'
  BY DEF LocationTypes
<1>1. FlagTypes'
  BY DEF FlagTypes
<1>2. UNCHANGED <<corpus, pkt_rec, seeds, i, execs, cnt, tn, leftover, timeouts, pktq, ackq, held>>
  OBVIOUS
<1>3. CorpusTypes'
  BY <1>2 DEF CorpusTypes
<1>4. CounterTypes'
  BY <1>2 DEF CounterTypes
<1>5. QueueTypes'
  BY <1>2 DEF QueueTypes
<1>6. Control'
  BY DEF Control, Holding, LocationTypes, FlagTypes, CorpusTypes, QueueTypes
<1> QED
  BY <1>0, <1>1, <1>3, <1>4, <1>5, <1>6

LEMMA NextTypeInv == TypeInv /\ [Next]_vars => TypeInv'
<1> SUFFICES ASSUME TypeInv, [Next]_vars PROVE TypeInv'
  OBVIOUS
<1>1. CASE UNCHANGED vars
  <2> USE <1>1 DEF vars, fuzzer, interceptor, target, store, queue, TypeInv, TypeOK
  <2>1. LocationTypes' /\ FlagTypes'
    BY DEF LocationTypes, FlagTypes
  <2>2. CorpusTypes' /\ CounterTypes'
    BY DEF CorpusTypes, CounterTypes
  <2>3. QueueTypes' /\ Control'
    BY DEF QueueTypes, Control, Holding
  <2> QED
    BY <2>1, <2>2, <2>3
<1>2. CASE Fuzzer
  BY <1>2, CollectInitCorpusTypeInv, LoadCorpusTypeInv, StartFuzzOneTypeInv,
     TimerExitTypeInv, ForkTypeInv, CloneTypeInv, ReapTypeInv, ReportTypeInv,
     KillBsimTypeInv, KillAttackerTypeInv, AttackErrTypeInv, CrashTypeInv,
     TimeoutTypeInv, JoinTypeInv, KeepTypeInv DEF Fuzzer
<1>3. CASE Interceptor
  BY <1>3, RecvLoopTypeInv, RecvPassTypeInv, RecvLastTypeInv, EditFuzzTypeInv,
     EditHoleTypeInv, EditInitTypeInv, AckFuzzTypeInv, AckInitTypeInv,
     AckPassTypeInv, AckLastTypeInv, SaveInitTypeInv, ExitTypeInv, AlarmTypeInv,
     DieTypeInv DEF Interceptor
<1>4. CASE Target
  BY <1>4, SendTypeInv, RecvAckTypeInv, TargetEndsTypeInv DEF Target
<1> QED
  BY <1>1, <1>2, <1>3, <1>4, AttackerFailsTypeInv, TerminatedTypeInv DEF Next

THEOREM TypeCorrect == Spec => []TypeOK
<1>1. TypeInv => TypeOK
  BY DEF TypeInv
<1> QED
  BY InitTypeInv, NextTypeInv, <1>1, PTL DEF Spec

-----------------------------------------------------------------------------
(* The message queue *)

\* An execution is open from its fork to the end of fuzz_one.
Open == ~Quiet /\ fpc # "fork"

\* The inductive invariant behind FlightConserved and StaleBounded.
Flight ==
  /\ leftover <= timeouts
  /\ ~Open => InFlight <= timeouts
  /\ Open => InFlight <= leftover + Awaited
  /\ fpc = "clone" \/ (ipc # "dead" /\ ~doom) => InFlight = leftover + Awaited
  /\ Open /\ tstat = "killed" => leftover + 1 <= timeouts /\ ipc = "dead" /\ fpc # "clone"
  /\ tstat \notin {"alive", "killed"} => tpc = "run"
  /\ tstat = "alive" => fpc \in {"clone", "wait"}

LEMMA InitFlight == Init => Flight
BY DEF Init, Flight, Open, Quiet, InFlight, Awaited

\* Steps of the fuzzer between the fork and the join that touch neither the
\* queue nor the processes the invariant is about.
LEMMA FrameFlight ==
  ASSUME Flight,
         UNCHANGED <<pktq, ackq, held, ipc, doom, tpc, tstat, leftover, timeouts>>,
         \/ fpc' = fpc
         \/ /\ fpc \in {"wait", "report", "kill", "attackerr", "crash", "timeout"}
            /\ fpc' \in {"report", "kill", "attackerr", "crash", "timeout", "join"}
            /\ tstat # "alive"
  PROVE  Flight'
BY DEF Flight, Open, Quiet, InFlight, Awaited

LEMMA CollectInitCorpusFlight == TypeInv /\ Flight /\ CollectInitCorpus => Flight'
BY DEF CollectInitCorpus, fuzzer, interceptor, target, store, queue, TypeInv,
   LocationTypes, CounterTypes, QueueTypes, TypeOK,
   Control, Holding, Flight, Open, Quiet, InFlight, Awaited

LEMMA LoadCorpusFlight == TypeInv /\ Flight /\ LoadCorpus => Flight'
BY DEF LoadCorpus, SeedOf, fuzzer, interceptor, target, store, queue, TypeInv,
   LocationTypes, CounterTypes, QueueTypes, TypeOK,
   Control, Holding, Flight, Open, Quiet, InFlight, Awaited

LEMMA StartFuzzOneFlight == TypeInv /\ Flight /\ StartFuzzOne => Flight'
BY DEF StartFuzzOne, InitPktSeqBuf, fuzzer, interceptor, target, store, queue,
   TypeInv, LocationTypes, CounterTypes, QueueTypes, TypeOK,
   Control, Holding, Flight, Open, Quiet, InFlight, Awaited

LEMMA TimerExitFlight == TypeInv /\ Flight /\ TimerExit => Flight'
BY DEF TimerExit, fuzzer, interceptor, target, store, queue, TypeInv, LocationTypes,
   CounterTypes, QueueTypes, TypeOK,
   Control, Holding, Flight, Open, Quiet, InFlight, Awaited

LEMMA ForkFlight == TypeInv /\ Flight /\ Fork => Flight'
BY DEF Fork, fuzzer, interceptor, target, store, queue, TypeInv, LocationTypes,
   CounterTypes, QueueTypes, TypeOK,
   Control, Holding, Flight, Open, Quiet, InFlight, Awaited

LEMMA CloneFlight == TypeInv /\ Flight /\ Clone => Flight'
BY DEF Clone, fuzzer, interceptor, target, store, queue, TypeInv, LocationTypes,
   CounterTypes, QueueTypes, TypeOK,
   Control, Holding, Flight, Open, Quiet, InFlight, Awaited

LEMMA ReapFlight == Flight /\ Reap => Flight'
<1> SUFFICES ASSUME Flight, Reap PROVE Flight'
  OBVIOUS
<1>1. UNCHANGED <<pktq, ackq, held, ipc, doom, tpc, tstat, leftover, timeouts>>
  BY DEF Reap, FaultOf, fuzzer, interceptor, target, store, queue
<1>2. fpc' = fpc \/ fpc' \in {"report", "kill", "attackerr", "join"} \/ fpc' \in {"crash", "timeout"}
  BY DEF Reap, FaultOf, fuzzer, interceptor, target, store, queue
<1>3. fpc' # fpc => fpc \in {"wait", "report", "kill", "timeout"} /\ tstat # "alive"
  BY DEF Reap, FaultOf, fuzzer, interceptor, target, store, queue, Flight
<1> QED
  BY <1>1, <1>2, <1>3, FrameFlight

LEMMA ReportFlight == Flight /\ Report => Flight'
<1> SUFFICES ASSUME Flight, Report PROVE Flight'
  OBVIOUS
<1>1. UNCHANGED <<pktq, ackq, held, ipc, doom, tpc, tstat, leftover, timeouts>>
  BY DEF Report, fuzzer, interceptor, target, store, queue
<1>2. fpc' = fpc \/ fpc' \in {"report", "kill", "attackerr", "join"} \/ fpc' \in {"crash", "timeout"}
  BY DEF Report, fuzzer, interceptor, target, store, queue
<1>3. fpc' # fpc => fpc \in {"wait", "report", "kill", "timeout"} /\ tstat # "alive"
  BY DEF Report, fuzzer, interceptor, target, store, queue, Flight
<1> QED
  BY <1>1, <1>2, <1>3, FrameFlight

LEMMA KillBsimFlight == Flight /\ KillBsim => Flight'
<1> SUFFICES ASSUME Flight, KillBsim PROVE Flight'
  OBVIOUS
<1>1. UNCHANGED <<pktq, ackq, held, ipc, doom, tpc, tstat, leftover, timeouts>>
  BY DEF KillBsim, fuzzer, interceptor, target, store, queue
<1>2. fpc' = fpc \/ fpc' \in {"report", "kill", "attackerr", "join"} \/ fpc' \in {"crash", "timeout"}
  BY DEF KillBsim, fuzzer, interceptor, target, store, queue
<1>3. fpc' # fpc => fpc \in {"wait", "report", "kill", "timeout"} /\ tstat # "alive"
  BY DEF KillBsim, fuzzer, interceptor, target, store, queue, Flight
<1> QED
  BY <1>1, <1>2, <1>3, FrameFlight

LEMMA KillAttackerFlight == Flight /\ KillAttacker => Flight'
<1> SUFFICES ASSUME Flight, KillAttacker PROVE Flight'
  OBVIOUS
<1>1. UNCHANGED <<pktq, ackq, held, ipc, doom, tpc, tstat, leftover, timeouts>>
  BY DEF KillAttacker, fuzzer, interceptor, target, store, queue
<1>2. fpc' = fpc \/ fpc' \in {"report", "kill", "attackerr", "join"} \/ fpc' \in {"crash", "timeout"}
  BY DEF KillAttacker, fuzzer, interceptor, target, store, queue
<1>3. fpc' # fpc => fpc \in {"wait", "report", "kill", "timeout"} /\ tstat # "alive"
  BY DEF KillAttacker, fuzzer, interceptor, target, store, queue, Flight
<1> QED
  BY <1>1, <1>2, <1>3, FrameFlight

LEMMA AttackErrFlight == TypeInv /\ Flight /\ AttackErr => Flight'
<1> SUFFICES ASSUME TypeInv, Flight, AttackErr PROVE Flight'
  OBVIOUS
<1>1. /\ fpc \in {"attackerr", "crash"} /\ fpc' \in {"crash", "timeout"} /\ tstat # "alive"
      /\ UNCHANGED <<held, ipc, tpc, tstat, leftover, timeouts>>
  BY DEF AttackErr, ResetQueue, AttackError, fuzzer, interceptor, target, store,
     queue, Flight
<1>2. CASE UNCHANGED <<pktq, ackq, doom>>
  BY <1>1, <1>2, FrameFlight
<1>3. CASE doom' = TRUE /\ pktq' = << >> /\ ackq' = << >>
  <2>1. /\ Len(pktq') = 0 /\ Len(ackq') = 0 /\ Len(pktq) \in Nat /\ Len(ackq) \in Nat
        /\ Len(held) \in Nat /\ leftover \in Nat /\ timeouts \in Nat
    BY <1>3 DEF TypeInv, TypeOK, QueueTypes, CounterTypes
  <2> QED
    BY <1>1, <1>3, <2>1 DEF Flight, Open, Quiet, InFlight, Awaited
<1> QED
  BY <1>2, <1>3 DEF AttackErr, ResetQueue, AttackError, fuzzer, interceptor, target,
     store, queue

LEMMA CrashFlight == TypeInv /\ Flight /\ Crash => Flight'
<1> SUFFICES ASSUME TypeInv, Flight, Crash PROVE Flight'
  OBVIOUS
<1>1. /\ fpc \in {"attackerr", "crash"} /\ fpc' \in {"crash", "timeout"} /\ tstat # "alive"
      /\ UNCHANGED <<held, ipc, tpc, tstat, leftover, timeouts>>
  BY DEF Crash, ResetQueue, fuzzer, interceptor, target, store, queue, Flight
<1>2. CASE UNCHANGED <<pktq, ackq, doom>>
  BY <1>1, <1>2, FrameFlight
<1>3. CASE doom' = TRUE /\ pktq' = << >> /\ ackq' = << >>
  <2>1. /\ Len(pktq') = 0 /\ Len(ackq') = 0 /\ Len(pktq) \in Nat /\ Len(ackq) \in Nat
        /\ Len(held) \in Nat /\ leftover \in Nat /\ timeouts \in Nat
    BY <1>3 DEF TypeInv, TypeOK, QueueTypes, CounterTypes
  <2> QED
    BY <1>1, <1>3, <2>1 DEF Flight, Open, Quiet, InFlight, Awaited
<1> QED
  BY <1>2, <1>3 DEF Crash, ResetQueue, fuzzer, interceptor, target, store, queue

LEMMA TimeoutFlight == Flight /\ Timeout => Flight'
<1> SUFFICES ASSUME Flight, Timeout PROVE Flight'
  OBVIOUS
<1>1. UNCHANGED <<pktq, ackq, held, ipc, doom, tpc, tstat, leftover, timeouts>>
  BY DEF Timeout, fuzzer, interceptor, target, store, queue
<1>2. fpc' = fpc \/ fpc' \in {"report", "kill", "attackerr", "join"} \/ fpc' \in {"crash", "timeout"}
  BY DEF Timeout, fuzzer, interceptor, target, store, queue
<1>3. fpc' # fpc => fpc \in {"wait", "report", "kill", "timeout"} /\ tstat # "alive"
  BY DEF Timeout, fuzzer, interceptor, target, store, queue, Flight
<1> QED
  BY <1>1, <1>2, <1>3, FrameFlight

LEMMA JoinFlight == TypeInv /\ Flight /\ Join => Flight'
BY DEF Join, InterceptorReaped, fuzzer, interceptor, target, store, queue, TypeInv,
   LocationTypes, CounterTypes, QueueTypes, TypeOK,
   Control, Holding, Flight, Open, Quiet, InFlight, Awaited

LEMMA KeepFlight == TypeInv /\ Flight /\ Keep => Flight'
BY DEF Keep, SeedOf, fuzzer, interceptor, target, store, queue, TypeInv,
   LocationTypes, CounterTypes, QueueTypes, TypeOK,
   Control, Holding, Flight, Open, Quiet, InFlight, Awaited

LEMMA RecvLoopFlight == TypeInv /\ Flight /\ RecvLoop => Flight'
BY DEF RecvLoop, Receive, fuzzer, interceptor, target, store, queue, TypeInv,
   LocationTypes, CounterTypes, QueueTypes, TypeOK,
   Control, Holding, Flight, Open, Quiet, InFlight, Awaited

LEMMA RecvPassFlight == TypeInv /\ Flight /\ RecvPass => Flight'
BY DEF RecvPass, Receive, fuzzer, interceptor, target, store, queue, TypeInv,
   LocationTypes, CounterTypes, QueueTypes, TypeOK,
   Control, Holding, Flight, Open, Quiet, InFlight, Awaited

LEMMA RecvLastFlight == TypeInv /\ Flight /\ RecvLast => Flight'
BY DEF RecvLast, Receive, fuzzer, interceptor, target, store, queue, TypeInv,
   LocationTypes, CounterTypes, QueueTypes, TypeOK,
   Control, Holding, Flight, Open, Quiet, InFlight, Awaited

LEMMA EditFuzzFlight == TypeInv /\ Flight /\ EditFuzz => Flight'
BY DEF EditFuzz, fuzzer, interceptor, target, store, queue, TypeInv, LocationTypes,
   CounterTypes, QueueTypes, TypeOK,
   Control, Holding, Flight, Open, Quiet, InFlight, Awaited

LEMMA EditHoleFlight == TypeInv /\ Flight /\ EditHole => Flight'
<1> SUFFICES ASSUME TypeInv, Flight, EditHole PROVE Flight'
  OBVIOUS
<1>1. UNCHANGED <<fpc, pktq, ackq, held, doom, tpc, tstat, leftover, timeouts>>
  BY DEF EditHole, fuzzer, interceptor, target, store, queue
<1>2. ipc # "dead" /\ ipc' # "dead"
  BY DEF EditHole, fuzzer, interceptor, target, store, queue
<1> QED
  BY <1>1, <1>2 DEF Flight, Open, Quiet, InFlight, Awaited

LEMMA EditInitFlight == TypeInv /\ Flight /\ EditInit => Flight'
<1> SUFFICES ASSUME TypeInv, Flight, EditInit PROVE Flight'
  OBVIOUS
<1>1. UNCHANGED <<fpc, pktq, ackq, held, doom, tpc, tstat, leftover, timeouts>>
  BY DEF EditInit, fuzzer, interceptor, target, store, queue
<1>2. ipc # "dead" /\ ipc' # "dead"
  BY DEF EditInit, fuzzer, interceptor, target, store, queue
<1> QED
  BY <1>1, <1>2 DEF Flight, Open, Quiet, InFlight, Awaited

LEMMA AckFuzzFlight == TypeInv /\ Flight /\ AckFuzz => Flight'
BY DEF AckFuzz, Answer, Room, CorpusDone, fuzzer, interceptor, target, store, queue,
   TypeInv, LocationTypes, CounterTypes, QueueTypes, TypeOK,
   Control, Holding, Flight, Open, Quiet, InFlight, Awaited

LEMMA AckInitFlight == TypeInv /\ Flight /\ AckInit => Flight'
BY DEF AckInit, Answer, Room, RecordFull, fuzzer, interceptor, target, store, queue,
   TypeInv, LocationTypes, CounterTypes, QueueTypes, TypeOK,
   Control, Holding, Flight, Open, Quiet, InFlight, Awaited

LEMMA AckPassFlight == TypeInv /\ Flight /\ AckPass => Flight'
BY DEF AckPass, Answer, Room, fuzzer, interceptor, target, store, queue, TypeInv,
   LocationTypes, CounterTypes, QueueTypes, TypeOK,
   Control, Holding, Flight, Open, Quiet, InFlight, Awaited

LEMMA AckLastFlight == TypeInv /\ Flight /\ AckLast => Flight'
BY DEF AckLast, Answer, Room, fuzzer, interceptor, target, store, queue, TypeInv,
   LocationTypes, CounterTypes, QueueTypes, TypeOK,
   Control, Holding, Flight, Open, Quiet, InFlight, Awaited

LEMMA SaveInitFlight == TypeInv /\ Flight /\ SaveInit => Flight'
<1> SUFFICES ASSUME TypeInv, Flight, SaveInit PROVE Flight'
  OBVIOUS
<1>1. ipc # "dead" /\ UNCHANGED <<fpc, leftover, held, doom, tpc, tstat, pktq, ackq, timeouts>>
  BY DEF SaveInit, fuzzer, target, queue
<1>2. UNCHANGED <<InFlight, Awaited, Open>>
  BY <1>1 DEF InFlight, Awaited, Open, Quiet
<1> QED
  BY <1>1, <1>2 DEF Flight, SaveInit

LEMMA ExitFlight == TypeInv /\ Flight /\ Exit => Flight'
BY DEF Exit, fuzzer, interceptor, target, store, queue, TypeInv, LocationTypes,
   CounterTypes, QueueTypes, TypeOK,
   Control, Holding, Flight, Open, Quiet, InFlight, Awaited

LEMMA AlarmFlight == TypeInv /\ Flight /\ Alarm => Flight'
BY DEF Alarm, KillTarget, fuzzer, interceptor, target, store, queue, TypeInv,
   LocationTypes, CounterTypes, QueueTypes, TypeOK,
   Control, Holding, Flight, Open, Quiet, InFlight, Awaited

LEMMA DieFlight == TypeInv /\ Flight /\ Die => Flight'
BY DEF Die, fuzzer, interceptor, target, store, queue, TypeInv, LocationTypes,
   CounterTypes, QueueTypes, TypeOK,
   Control, Holding, Flight, Open, Quiet, InFlight, Awaited

LEMMA SendFlight == TypeInv /\ Flight /\ Send => Flight'
<1> SUFFICES ASSUME TypeInv, Flight, Send PROVE Flight'
  OBVIOUS
<1>1. /\ UNCHANGED <<fpc, ackq, held, ipc, doom, leftover, timeouts>>
      /\ tstat = "alive" /\ tpc = "run" /\ tpc' = "await" /\ tstat' = tstat
  BY DEF Send, Room, fuzzer, interceptor, target, store, queue
<1>2. /\ Len(pktq') = Len(pktq) + 1
      /\ Len(pktq) \in Nat /\ Len(ackq) \in Nat /\ Len(held) \in Nat
      /\ leftover \in Nat /\ timeouts \in Nat
  BY DEF Send, TypeInv, TypeOK, QueueTypes, CounterTypes
<1> QED
  BY <1>1, <1>2 DEF Flight, Open, Quiet, InFlight, Awaited

LEMMA RecvAckFlight == TypeInv /\ Flight /\ RecvAck => Flight'
<1> SUFFICES ASSUME TypeInv, Flight, RecvAck PROVE Flight'
  OBVIOUS
<1>1. /\ UNCHANGED <<fpc, pktq, held, ipc, doom, leftover, timeouts>>
      /\ tstat = "alive" /\ tpc = "await" /\ tpc' = "run" /\ tstat' \in {"alive", "hookexit"}
  BY DEF RecvAck, fuzzer, interceptor, target, store, queue
<1>2. /\ Len(ackq') = Len(ackq) - 1
      /\ Len(pktq) \in Nat /\ Len(ackq) \in Nat /\ Len(held) \in Nat
      /\ leftover \in Nat /\ timeouts \in Nat
  BY DEF RecvAck, TypeInv, TypeOK, QueueTypes, CounterTypes
<1> QED
  BY <1>1, <1>2 DEF Flight, Open, Quiet, InFlight, Awaited

LEMMA TargetEndsFlight == TypeInv /\ Flight /\ TargetEnds => Flight'
<1> SUFFICES ASSUME TypeInv, Flight, TargetEnds PROVE Flight'
  OBVIOUS
<1>1. /\ UNCHANGED <<fpc, pktq, ackq, held, ipc, doom, tpc, leftover, timeouts>>
      /\ tpc = "run" /\ tstat' \notin {"alive", "killed"}
  BY DEF TargetEnds, fuzzer, interceptor, target, store, queue
<1> QED
  BY <1>1 DEF Flight, Open, Quiet, InFlight, Awaited

LEMMA AttackerFailsFlight == Flight /\ AttackerFails => Flight'
<1> SUFFICES ASSUME Flight, AttackerFails PROVE Flight'
  OBVIOUS
<1>1. UNCHANGED <<pktq, ackq, held, ipc, doom, tpc, tstat, leftover, timeouts>>
  BY DEF AttackerFails, fuzzer, interceptor, target, store, queue
<1>2. fpc' = fpc \/ fpc' \in {"report", "kill", "attackerr", "join"} \/ fpc' \in {"crash", "timeout"}
  BY DEF AttackerFails, fuzzer, interceptor, target, store, queue
<1>3. fpc' # fpc => fpc \in {"wait", "report", "kill", "timeout"} /\ tstat # "alive"
  BY DEF AttackerFails, fuzzer, interceptor, target, store, queue, Flight
<1> QED
  BY <1>1, <1>2, <1>3, FrameFlight

LEMMA TerminatedFlight == TypeInv /\ Flight /\ Terminated => Flight'
BY DEF Terminated, vars, fuzzer, interceptor, target, store, queue, TypeInv,
   LocationTypes, CounterTypes, QueueTypes, TypeOK,
   Control, Holding, Flight, Open, Quiet, InFlight, Awaited

LEMMA StutterFlight == Flight /\ UNCHANGED vars => Flight'
BY DEF Flight, Open, Quiet, InFlight, Awaited, vars, fuzzer, interceptor, target, queue

LEMMA NextFlight == TypeInv /\ Flight /\ [Next]_vars => Flight'
<1> SUFFICES ASSUME TypeInv, Flight, [Next]_vars PROVE Flight'
  OBVIOUS
<1>1. CASE Fuzzer
  BY <1>1, CollectInitCorpusFlight, LoadCorpusFlight, StartFuzzOneFlight,
     TimerExitFlight, ForkFlight, CloneFlight, ReapFlight, ReportFlight,
     KillBsimFlight, KillAttackerFlight, AttackErrFlight, CrashFlight, TimeoutFlight,
     JoinFlight, KeepFlight DEF Fuzzer
<1>2. CASE Interceptor
  BY <1>2, RecvLoopFlight, RecvPassFlight, RecvLastFlight, EditFuzzFlight,
     EditHoleFlight, EditInitFlight, AckFuzzFlight, AckInitFlight, AckPassFlight,
     AckLastFlight, SaveInitFlight, ExitFlight, AlarmFlight, DieFlight DEF
     Interceptor
<1>3. CASE Target
  BY <1>3, SendFlight, RecvAckFlight, TargetEndsFlight DEF Target
<1> QED
  BY <1>1, <1>2, <1>3, AttackerFailsFlight, TerminatedFlight, StutterFlight DEF Next

LEMMA SpecFlight == Spec => [](TypeInv /\ Flight)
BY InitTypeInv, NextTypeInv, InitFlight, NextFlight, PTL DEF Spec

\* The ledger of the queue is balanced in every execution.
THEOREM LedgerBalanced == Spec => []FlightConserved
<1>1. Flight => FlightConserved
  BY DEF Flight, FlightConserved
<1> QED
  BY SpecFlight, <1>1, PTL

\* Stale messages are bounded by the timeouts, however many executions there were.
THEOREM StaleMessagesBounded == Spec => []StaleBounded
<1>1. Flight => StaleBounded
  BY DEF Flight, StaleBounded, Open
<1> QED
  BY SpecFlight, <1>1, PTL

-----------------------------------------------------------------------------
(* In an execution that began with an empty queue hook and interceptor move  *)
(* in lockstep: every answer is the answer to the packet the target waits    *)
(* with, and the record is the packets in the order they were sent.          *)

Progress ==
  /\ fpc = "clone" => ackq = << >> /\ Len(pktq) = tn
  /\ ipc = "recv" => Len(pkt_rec) + Len(pktq) = tn
  /\ ipc = "edit" => Len(pkt_rec) + 1 = tn
  /\ ipc = "ack" => Len(pkt_rec) = tn

Lockstep ==
  leftover = 0 =>
    /\ Concern(pktq, execs, tn) /\ Concern(ackq, execs, tn) /\ Concern(held, execs, tn)
    /\ InOrder(pkt_rec, execs)
    /\ Progress

(* Sequences of messages about one packet, and records in order. *)

LEMMA ConcernEmpty ==
  ASSUME NEW q, q = << >>, NEW e, NEW n
  PROVE  Concern(q, e, n)
BY DEF Concern

LEMMA ConcernHead ==
  ASSUME NEW q \in Seq(Msg), q # << >>, NEW e, NEW n, Concern(q, e, n)
  PROVE  /\ Concern(Tail(q), e, n) /\ Concern(<<Head(q)>>, e, n)
         /\ Head(q) \in Msg /\ Len(Tail(q)) = Len(q) - 1
BY DEF Concern

LEMMA ConcernAppend ==
  ASSUME NEW q \in Seq(Msg), NEW m \in Msg, NEW e, NEW n, Concern(q, e, n),
         m.exec = e, m.n = n
  PROVE  Concern(Append(q, m), e, n)
BY DEF Concern

LEMMA ConcernSingle ==
  ASSUME NEW m \in Msg, NEW e, NEW n, m.exec = e, m.n = n
  PROVE  Concern(<<m>>, e, n)
BY DEF Concern

LEMMA InOrderRecord ==
  ASSUME NEW r \in Seq(Msg), NEW m \in Msg, NEW e, InOrder(r, e),
         m.exec = e, m.n = Len(r) + 1
  PROVE  InOrder(Record(r, m), e)
BY DEF InOrder, Record

LEMMA RecordTakes ==
  ASSUME NEW r \in Seq(Msg), NEW m \in Msg, Len(r) < MaxPkts
  PROVE  Len(Record(r, m)) = Len(r) + 1
BY ConstantTypes DEF Record

LEMMA SetMut ==
  ASSUME NEW m \in Msg, NEW k \in 0..2
  PROVE  [m EXCEPT !.mut = k].exec = m.exec /\ [m EXCEPT !.mut = k].n = m.n
BY DEF Msg

LEMMA NonEmpty == ASSUME NEW q, Len(q) = 1 PROVE q # << >>
OBVIOUS

LEMMA OnlyOne ==
  ASSUME NEW a \in Nat \ {0}, NEW b \in Nat, NEW c \in Nat, NEW w \in {0, 1},
         a + b + c <= w
  PROVE  a = 1
OBVIOUS

LEMMA LastAnswerKeeps ==
  ASSUME NEW m \in Msg
  PROVE  LastAnswer(m).exec = m.exec /\ LastAnswer(m).n = m.n
BY DEF LastAnswer, Msg

\* At most one message is under way, and none while the target runs.
LEMMA OneInFlight ==
  ASSUME TypeInv, Flight, Open, leftover = 0
  PROVE  /\ InFlight <= Awaited
         /\ tpc = "run" => pktq = << >> /\ ackq = << >> /\ held = << >>
         /\ held # << >> => pktq = << >> /\ ackq = << >>
         /\ ackq # << >> => pktq = << >> /\ held = << >>
         /\ pktq # << >> => ackq = << >> /\ held = << >>
<1>1. Len(pktq) \in Nat /\ Len(ackq) \in Nat /\ Len(held) \in Nat
  BY DEF TypeInv, TypeOK, QueueTypes
<1>2. InFlight <= Awaited
  BY <1>1 DEF Flight, InFlight, Awaited
<1>3. \A q \in Seq(Msg) : Len(q) = 0 <=> q = << >>
  OBVIOUS
<1>4. pktq \in Seq(Msg) /\ ackq \in Seq(Msg) /\ held \in Seq(Msg)
  BY DEF TypeInv, TypeOK, QueueTypes
<1> QED
  BY <1>1, <1>2, <1>3, <1>4 DEF InFlight, Awaited

LEMMA InitLockstep == Init => Lockstep
BY ConcernEmpty DEF Init, Lockstep, Progress, InOrder

LEMMA FrameLockstep ==
  ASSUME Lockstep,
         UNCHANGED <<leftover, execs, tn, pktq, ackq, held, pkt_rec>>,
         fpc' = "clone" => fpc = "clone",
         ipc' \in {"recv", "edit", "ack"} => ipc' = ipc
  PROVE  Lockstep'
BY DEF Lockstep, Progress

LEMMA CollectInitCorpusLockstep == Lockstep /\ CollectInitCorpus => Lockstep'
<1> SUFFICES ASSUME Lockstep, CollectInitCorpus PROVE Lockstep'
  OBVIOUS
<1>1. UNCHANGED <<leftover, execs, tn, pktq, ackq, held, pkt_rec>>
  BY DEF CollectInitCorpus, fuzzer, interceptor, target, store, queue
<1>2. (fpc' = "clone" => fpc = "clone") /\ (ipc' \in {"recv", "edit", "ack"} => ipc' = ipc)
  BY DEF CollectInitCorpus, fuzzer, interceptor, target, store, queue
<1> QED
  BY <1>1, <1>2, FrameLockstep

LEMMA LoadCorpusLockstep == Lockstep /\ LoadCorpus => Lockstep'
<1> SUFFICES ASSUME Lockstep, LoadCorpus PROVE Lockstep'
  OBVIOUS
<1>1. UNCHANGED <<leftover, execs, tn, pktq, ackq, held, pkt_rec>>
  BY DEF LoadCorpus, SeedOf, fuzzer, interceptor, target, store, queue
<1>2. (fpc' = "clone" => fpc = "clone") /\ (ipc' \in {"recv", "edit", "ack"} => ipc' = ipc)
  BY DEF LoadCorpus, SeedOf, fuzzer, interceptor, target, store, queue
<1> QED
  BY <1>1, <1>2, FrameLockstep

LEMMA StartFuzzOneLockstep == TypeInv /\ Flight /\ Lockstep /\ StartFuzzOne => Lockstep'
<1> SUFFICES ASSUME TypeInv, Flight, Lockstep, StartFuzzOne, leftover' = 0 PROVE Lockstep'
  BY DEF Lockstep
<1>1. /\ UNCHANGED <<leftover, execs, tn, pktq, ackq, held>>
      /\ pkt_rec' = << >> /\ ipc' = "dead" /\ fpc' = "fork"
  BY DEF StartFuzzOne, InitPktSeqBuf, fuzzer, interceptor, target, store, queue,
     TypeInv, Control
<1> QED
  BY <1>1 DEF Lockstep, Progress, InOrder

LEMMA TimerExitLockstep == TypeInv /\ Flight /\ Lockstep /\ TimerExit => Lockstep'
<1> SUFFICES ASSUME TypeInv, Flight, Lockstep, TimerExit, leftover' = 0 PROVE Lockstep'
  BY DEF Lockstep
<1>1. /\ UNCHANGED <<leftover, execs, tn, held, pkt_rec>>
      /\ pktq' = << >> /\ ackq' = << >> /\ ipc' = "dead" /\ fpc' = "exited"
  BY DEF TimerExit, fuzzer, interceptor, target, store, queue, TypeInv, Control
<1> QED
  BY <1>1, ConcernEmpty DEF Lockstep, Progress

LEMMA ForkLockstep == TypeInv /\ Flight /\ Lockstep /\ Fork => Lockstep'
<1> SUFFICES ASSUME TypeInv, Flight, Lockstep, Fork, leftover' = 0 PROVE Lockstep'
  BY DEF Lockstep
<1>1. /\ pkt_rec' = << >> /\ tn' = 0 /\ ipc' = "dead" /\ fpc' = "clone"
      /\ UNCHANGED <<pktq, ackq, held>> /\ Len(held) = 0 /\ Len(pktq) + Len(ackq) = 0
  BY DEF Fork, fuzzer, interceptor, target, store, queue, TypeInv, Control, Holding
<1>2. pktq = << >> /\ ackq = << >> /\ held = << >>
  BY <1>1 DEF TypeInv, TypeOK, QueueTypes
<1> QED
  BY <1>1, <1>2, ConcernEmpty DEF Lockstep, Progress, InOrder

LEMMA CloneLockstep == TypeInv /\ Flight /\ Lockstep /\ Clone => Lockstep'
<1> SUFFICES ASSUME TypeInv, Flight, Lockstep, Clone, leftover' = 0 PROVE Lockstep'
  BY DEF Lockstep
<1>1. /\ UNCHANGED <<leftover, execs, tn, pktq, ackq, pkt_rec>>
      /\ held' = << >> /\ pkt_rec = << >> /\ fpc = "clone" /\ fpc' = "wait"
      /\ ipc' \notin {"edit", "ack"}
  BY DEF Clone, fuzzer, interceptor, target, store, queue, TypeInv, Control
<1>2. Len(pkt_rec) = 0 /\ Len(pktq) \in Nat
  BY <1>1 DEF TypeInv, TypeOK, QueueTypes
<1> QED
  BY <1>1, <1>2, ConcernEmpty DEF Lockstep, Progress

LEMMA ReapLockstep == Lockstep /\ Reap => Lockstep'
<1> SUFFICES ASSUME Lockstep, Reap PROVE Lockstep'
  OBVIOUS
<1>1. UNCHANGED <<leftover, execs, tn, pktq, ackq, held, pkt_rec>>
  BY DEF Reap, FaultOf, fuzzer, interceptor, target, store, queue
<1>2. (fpc' = "clone" => fpc = "clone") /\ (ipc' \in {"recv", "edit", "ack"} => ipc' = ipc)
  BY DEF Reap, FaultOf, fuzzer, interceptor, target, store, queue
<1> QED
  BY <1>1, <1>2, FrameLockstep

LEMMA ReportLockstep == Lockstep /\ Report => Lockstep'
<1> SUFFICES ASSUME Lockstep, Report PROVE Lockstep'
  OBVIOUS
<1>1. UNCHANGED <<leftover, execs, tn, pktq, ackq, held, pkt_rec>>
  BY DEF Report, fuzzer, interceptor, target, store, queue
<1>2. (fpc' = "clone" => fpc = "clone") /\ (ipc' \in {"recv", "edit", "ack"} => ipc' = ipc)
  BY DEF Report, fuzzer, interceptor, target, store, queue
<1> QED
  BY <1>1, <1>2, FrameLockstep

LEMMA KillBsimLockstep == Lockstep /\ KillBsim => Lockstep'
<1> SUFFICES ASSUME Lockstep, KillBsim PROVE Lockstep'
  OBVIOUS
<1>1. UNCHANGED <<leftover, execs, tn, pktq, ackq, held, pkt_rec>>
  BY DEF KillBsim, fuzzer, interceptor, target, store, queue
<1>2. (fpc' = "clone" => fpc = "clone") /\ (ipc' \in {"recv", "edit", "ack"} => ipc' = ipc)
  BY DEF KillBsim, fuzzer, interceptor, target, store, queue
<1> QED
  BY <1>1, <1>2, FrameLockstep

LEMMA KillAttackerLockstep == Lockstep /\ KillAttacker => Lockstep'
<1> SUFFICES ASSUME Lockstep, KillAttacker PROVE Lockstep'
  OBVIOUS
<1>1. UNCHANGED <<leftover, execs, tn, pktq, ackq, held, pkt_rec>>
  BY DEF KillAttacker, fuzzer, interceptor, target, store, queue
<1>2. (fpc' = "clone" => fpc = "clone") /\ (ipc' \in {"recv", "edit", "ack"} => ipc' = ipc)
  BY DEF KillAttacker, fuzzer, interceptor, target, store, queue
<1> QED
  BY <1>1, <1>2, FrameLockstep

LEMMA AttackErrLockstep == TypeInv /\ Flight /\ Lockstep /\ AttackErr => Lockstep'
<1> SUFFICES ASSUME TypeInv, Flight, Lockstep, AttackErr, leftover' = 0 PROVE Lockstep'
  BY DEF Lockstep
<1>1. /\ UNCHANGED <<leftover, execs, tn, held, pkt_rec, ipc>>
      /\ fpc \in {"attackerr", "crash"} /\ fpc' \in {"crash", "timeout"}
  BY DEF AttackErr, ResetQueue, AttackError, fuzzer, interceptor, target, store, queue
<1>2. CASE UNCHANGED <<pktq, ackq>>
  BY <1>1, <1>2, FrameLockstep
<1>3. CASE pktq' = << >> /\ ackq' = << >>
  <2>1. ipc = "recv" => pktq = << >>
    <3> SUFFICES ASSUME ipc = "recv" PROVE pktq = << >>
      OBVIOUS
    <3>1. Open /\ tpc = "run"
      BY <1>1 DEF Flight, Open, Quiet
    <3> QED
      BY <1>1, <3>1, OneInFlight
  <2> QED
    BY <1>1, <1>3, <2>1, ConcernEmpty DEF Lockstep, Progress
<1> QED
  BY <1>2, <1>3 DEF AttackErr, ResetQueue, AttackError, fuzzer, interceptor, target,
     store, queue

LEMMA CrashLockstep == TypeInv /\ Flight /\ Lockstep /\ Crash => Lockstep'
<1> SUFFICES ASSUME TypeInv, Flight, Lockstep, Crash, leftover' = 0 PROVE Lockstep'
  BY DEF Lockstep
<1>1. /\ UNCHANGED <<leftover, execs, tn, held, pkt_rec, ipc>>
      /\ fpc \in {"attackerr", "crash"} /\ fpc' \in {"crash", "timeout"}
  BY DEF Crash, ResetQueue, fuzzer, interceptor, target, store, queue
<1>2. CASE UNCHANGED <<pktq, ackq>>
  BY <1>1, <1>2, FrameLockstep
<1>3. CASE pktq' = << >> /\ ackq' = << >>
  <2>1. ipc = "recv" => pktq = << >>
    <3> SUFFICES ASSUME ipc = "recv" PROVE pktq = << >>
      OBVIOUS
    <3>1. Open /\ tpc = "run"
      BY <1>1 DEF Flight, Open, Quiet
    <3> QED
      BY <1>1, <3>1, OneInFlight
  <2> QED
    BY <1>1, <1>3, <2>1, ConcernEmpty DEF Lockstep, Progress
<1> QED
  BY <1>2, <1>3 DEF Crash, ResetQueue, fuzzer, interceptor, target, store, queue

LEMMA TimeoutLockstep == Lockstep /\ Timeout => Lockstep'
<1> SUFFICES ASSUME Lockstep, Timeout PROVE Lockstep'
  OBVIOUS
<1>1. UNCHANGED <<leftover, execs, tn, pktq, ackq, held, pkt_rec>>
  BY DEF Timeout, fuzzer, interceptor, target, store, queue
<1>2. (fpc' = "clone" => fpc = "clone") /\ (ipc' \in {"recv", "edit", "ack"} => ipc' = ipc)
  BY DEF Timeout, fuzzer, interceptor, target, store, queue
<1> QED
  BY <1>1, <1>2, FrameLockstep

LEMMA JoinLockstep == Lockstep /\ Join => Lockstep'
<1> SUFFICES ASSUME Lockstep, Join PROVE Lockstep'
  OBVIOUS
<1>1. UNCHANGED <<leftover, execs, tn, pktq, ackq, held, pkt_rec>>
  BY DEF Join, InterceptorReaped, fuzzer, interceptor, target, store, queue
<1>2. (fpc' = "clone" => fpc = "clone") /\ (ipc' \in {"recv", "edit", "ack"} => ipc' = ipc)
  BY DEF Join, InterceptorReaped, fuzzer, interceptor, target, store, queue
<1> QED
  BY <1>1, <1>2, FrameLockstep

LEMMA KeepLockstep == Lockstep /\ Keep => Lockstep'
<1> SUFFICES ASSUME Lockstep, Keep PROVE Lockstep'
  OBVIOUS
<1>1. UNCHANGED <<leftover, execs, tn, pktq, ackq, held, pkt_rec>>
  BY DEF Keep, SeedOf, fuzzer, interceptor, target, store, queue
<1>2. (fpc' = "clone" => fpc = "clone") /\ (ipc' \in {"recv", "edit", "ack"} => ipc' = ipc)
  BY DEF Keep, SeedOf, fuzzer, interceptor, target, store, queue
<1> QED
  BY <1>1, <1>2, FrameLockstep

LEMMA RecvLoopLockstep == TypeInv /\ Flight /\ Lockstep /\ RecvLoop => Lockstep'
<1> SUFFICES ASSUME TypeInv, Flight, Lockstep, RecvLoop, leftover' = 0 PROVE Lockstep'
  BY DEF Lockstep
<1>1. /\ UNCHANGED <<fpc, leftover, execs, tn, ackq, pkt_rec>>
      /\ pktq # << >> /\ held' = <<Head(pktq)>> /\ pktq' = Tail(pktq)
      /\ ipc' = "edit" /\ ipc = "recv"
  BY DEF RecvLoop, Receive, fuzzer, interceptor, target, store, queue
<1>2. pktq \in Seq(Msg) /\ Concern(pktq, execs, tn)
  BY <1>1 DEF TypeInv, TypeOK, QueueTypes, Lockstep
<1>3. Concern(pktq', execs, tn) /\ Concern(held', execs, tn)
  BY <1>1, <1>2, ConcernHead
<1>4. fpc # "clone"
  BY <1>1 DEF TypeInv, Control
<1>5. Len(pktq) = 1 /\ Len(pkt_rec) \in Nat
  <2>1. Open /\ Len(pktq) \in Nat \ {0} /\ Len(ackq) \in Nat /\ Len(held) \in Nat
    BY <1>1, <1>2 DEF TypeInv, TypeOK, Control, QueueTypes, Open, Quiet
  <2>2. InFlight <= Awaited
    BY <1>1, <2>1, OneInFlight
  <2>3. pkt_rec \in Seq(Msg)
    BY DEF TypeInv, TypeOK, CorpusTypes
  <2>4. Awaited \in {0, 1}
    BY DEF Awaited
  <2>5. Len(pktq) = 1
    BY <2>1, <2>2, <2>4, OnlyOne DEF InFlight
  <2> QED
    BY <2>3, <2>5
<1> QED
  BY <1>1, <1>3, <1>4, <1>5 DEF Lockstep, Progress

LEMMA RecvPassLockstep == TypeInv /\ Flight /\ Lockstep /\ RecvPass => Lockstep'
<1> SUFFICES ASSUME TypeInv, Flight, Lockstep, RecvPass, leftover' = 0 PROVE Lockstep'
  BY DEF Lockstep
<1>1. /\ UNCHANGED <<fpc, leftover, execs, tn, ackq, pkt_rec>>
      /\ pktq # << >> /\ held' = <<Head(pktq)>> /\ pktq' = Tail(pktq)
      /\ ipc' = "passack" /\ ipc = "passrecv"
  BY DEF RecvPass, Receive, fuzzer, interceptor, target, store, queue
<1>2. pktq \in Seq(Msg) /\ Concern(pktq, execs, tn)
  BY <1>1 DEF TypeInv, TypeOK, QueueTypes, Lockstep
<1>3. Concern(pktq', execs, tn) /\ Concern(held', execs, tn)
  BY <1>1, <1>2, ConcernHead
<1>4. fpc # "clone"
  BY <1>1 DEF TypeInv, Control
<1> QED
  BY <1>1, <1>3, <1>4 DEF Lockstep, Progress

LEMMA RecvLastLockstep == TypeInv /\ Flight /\ Lockstep /\ RecvLast => Lockstep'
<1> SUFFICES ASSUME TypeInv, Flight, Lockstep, RecvLast, leftover' = 0 PROVE Lockstep'
  BY DEF Lockstep
<1>1. /\ UNCHANGED <<fpc, leftover, execs, tn, ackq, pkt_rec>>
      /\ pktq # << >> /\ held' = <<Head(pktq)>> /\ pktq' = Tail(pktq)
      /\ ipc' = "lastack" /\ ipc = "lastrecv"
  BY DEF RecvLast, Receive, fuzzer, interceptor, target, store, queue
<1>2. pktq \in Seq(Msg) /\ Concern(pktq, execs, tn)
  BY <1>1 DEF TypeInv, TypeOK, QueueTypes, Lockstep
<1>3. Concern(pktq', execs, tn) /\ Concern(held', execs, tn)
  BY <1>1, <1>2, ConcernHead
<1>4. fpc # "clone"
  BY <1>1 DEF TypeInv, Control
<1> QED
  BY <1>1, <1>3, <1>4 DEF Lockstep, Progress

LEMMA EditFuzzLockstep == TypeInv /\ Flight /\ Lockstep /\ EditFuzz => Lockstep'
<1> SUFFICES ASSUME TypeInv, Flight, Lockstep, EditFuzz, leftover' = 0 PROVE Lockstep'
  BY DEF Lockstep
<1>1. /\ UNCHANGED <<fpc, leftover, execs, tn, pktq, ackq>>
      /\ ipc = "edit" /\ ipc' = "ack"
      /\ \E m \in 0..2 : held' = <<[held[1] EXCEPT !.mut = m]>>
      /\ pkt_rec' = Record(pkt_rec, held'[1])
      /\ Len(pkt_rec) <= i /\ i < Len(corpus)
  BY DEF EditFuzz, fuzzer, interceptor, target, store, queue, TypeInv, Control
<1>2. /\ held \in Seq(Msg) /\ Len(held) = 1 /\ held[1] \in Msg
      /\ pkt_rec \in Seq(Msg) /\ Len(pkt_rec) < MaxPkts
  BY <1>1, HeldMsg, ConstantTypes DEF TypeInv, TypeOK, QueueTypes, CorpusTypes,
     Control, Holding
<1>3. held[1].exec = execs /\ held[1].n = tn /\ Len(pkt_rec) + 1 = tn /\ fpc # "clone"
  <2>1. 1 \in 1..Len(held) /\ Concern(held, execs, tn) /\ Progress
    BY <1>1, <1>2 DEF Lockstep
  <2> QED
    BY <1>1, <2>1 DEF Progress, Concern, TypeInv, Control
<1>4. PICK h \in Msg : held' = <<h>> /\ h.exec = execs /\ h.n = tn
  <2> DEFINE Edited(k) == [held[1] EXCEPT !.mut = k]
  <2>1. PICK k \in 0..2 : held' = <<Edited(k)>>
    BY <1>1
  <2>2. Edited(k) \in Msg /\ Edited(k).exec = execs /\ Edited(k).n = tn
    BY <1>2, <1>3, SetMut, SetMutType
  <2> HIDE DEF Edited
  <2> QED
    BY <2>1, <2>2
<1>5. held'[1] = h
  BY <1>4
<1>6. InOrder(pkt_rec', execs) /\ Len(pkt_rec') = tn
  BY <1>1, <1>2, <1>3, <1>4, <1>5, InOrderRecord, RecordTakes DEF Lockstep
<1>7. Concern(held', execs, tn)
  BY <1>4, ConcernSingle
<1> QED
  BY <1>1, <1>3, <1>6, <1>7 DEF Lockstep, Progress

LEMMA EditHoleLockstep == Lockstep /\ EditHole => Lockstep'
<1> SUFFICES ASSUME Lockstep, EditHole PROVE Lockstep'
  OBVIOUS
<1>1. UNCHANGED <<leftover, execs, tn, pktq, ackq, held, pkt_rec>>
  BY DEF EditHole, fuzzer, interceptor, target, store, queue
<1>2. (fpc' = "clone" => fpc = "clone") /\ (ipc' \in {"recv", "edit", "ack"} => ipc' = ipc)
  BY DEF EditHole, fuzzer, interceptor, target, store, queue
<1> QED
  BY <1>1, <1>2, FrameLockstep

LEMMA EditInitLockstep == TypeInv /\ Flight /\ Lockstep /\ EditInit => Lockstep'
<1> SUFFICES ASSUME TypeInv, Flight, Lockstep, EditInit, leftover' = 0 PROVE Lockstep'
  BY DEF Lockstep
<1>1. /\ UNCHANGED <<fpc, leftover, execs, tn, pktq, ackq, held>>
      /\ ipc = "edit" /\ ipc' = "ack"
      /\ pkt_rec' = Record(pkt_rec, held[1]) /\ Len(pkt_rec) < MaxPkts
  BY DEF EditInit, fuzzer, interceptor, target, store, queue, TypeInv, Control
<1>2. held \in Seq(Msg) /\ Len(held) = 1 /\ held[1] \in Msg /\ pkt_rec \in Seq(Msg)
  BY <1>1, HeldMsg DEF TypeInv, TypeOK, QueueTypes, CorpusTypes, Control, Holding
<1>3. held[1].exec = execs /\ held[1].n = tn /\ Len(pkt_rec) + 1 = tn /\ fpc # "clone"
  <2>1. 1 \in 1..Len(held) /\ Concern(held, execs, tn) /\ Progress
    BY <1>1, <1>2 DEF Lockstep
  <2> QED
    BY <1>1, <2>1 DEF Progress, Concern, TypeInv, Control
<1>4. InOrder(pkt_rec', execs) /\ Len(pkt_rec') = tn
  BY <1>1, <1>2, <1>3, InOrderRecord, RecordTakes DEF Lockstep
<1> QED
  BY <1>1, <1>3, <1>4 DEF Lockstep, Progress

LEMMA AckFuzzLockstep == TypeInv /\ Flight /\ Lockstep /\ AckFuzz => Lockstep'
<1> SUFFICES ASSUME TypeInv, Flight, Lockstep, AckFuzz, leftover' = 0 PROVE Lockstep'
  BY DEF Lockstep
<1>1. /\ UNCHANGED <<fpc, leftover, execs, tn, pktq, pkt_rec>>
      /\ ipc = "ack" /\ ipc' \notin {"edit", "ack"}
      /\ ackq' = Append(ackq, held[1]) /\ held' = << >>
  BY DEF AckFuzz, Answer, Room, CorpusDone, fuzzer, interceptor, target, store, queue
<1>2. /\ held \in Seq(Msg) /\ Len(held) = 1 /\ held[1] \in Msg /\ held # << >>
      /\ ackq \in Seq(Msg) /\ Open
  <2>1. held \in Seq(Msg) /\ ackq \in Seq(Msg) /\ Len(held) = 1
    BY <1>1 DEF TypeInv, TypeOK, QueueTypes, Control, Holding
  <2>2. held[1] \in Msg
    BY <2>1, HeldMsg DEF TypeInv, TypeOK
  <2>3. held # << >>
    BY <2>1, NonEmpty
  <2> QED
    BY <1>1, <2>1, <2>2, <2>3 DEF TypeInv, Control, Open, Quiet
<1>3. held[1].exec = execs /\ held[1].n = tn /\ fpc # "clone"
  <2>1. 1 \in 1..Len(held) /\ Concern(held, execs, tn)
    BY <1>1, <1>2 DEF Lockstep
  <2> QED
    BY <1>1, <2>1 DEF Concern, TypeInv, Control
<1>4. held[1] \in Msg /\ held[1].exec = execs /\ held[1].n = tn
  BY <1>2, <1>3
<1>5. Concern(ackq', execs, tn) /\ Concern(held', execs, tn)
  BY <1>1, <1>2, <1>4, ConcernAppend, ConcernEmpty DEF Lockstep
<1>6. Len(pkt_rec) + Len(pktq) = tn
  <2>1. pktq = << >>
    BY <1>1, <1>2, OneInFlight
  <2>2. Len(pktq) = 0 /\ Len(pkt_rec) \in Nat
    BY <2>1 DEF TypeInv, TypeOK, CorpusTypes
  <2> QED
    BY <1>1, <2>2 DEF Lockstep, Progress
<1> QED
  BY <1>1, <1>3, <1>5, <1>6 DEF Lockstep, Progress

LEMMA AckInitLockstep == TypeInv /\ Flight /\ Lockstep /\ AckInit => Lockstep'
<1> SUFFICES ASSUME TypeInv, Flight, Lockstep, AckInit, leftover' = 0 PROVE Lockstep'
  BY DEF Lockstep
<1>1. /\ UNCHANGED <<fpc, leftover, execs, tn, pktq, pkt_rec>>
      /\ ipc = "ack" /\ ipc' \notin {"edit", "ack"}
      /\ ackq' = Append(ackq, held[1]) /\ held' = << >>
  BY DEF AckInit, Answer, Room, RecordFull, fuzzer, interceptor, target, store, queue
<1>2. /\ held \in Seq(Msg) /\ Len(held) = 1 /\ held[1] \in Msg /\ held # << >>
      /\ ackq \in Seq(Msg) /\ Open
  <2>1. held \in Seq(Msg) /\ ackq \in Seq(Msg) /\ Len(held) = 1
    BY <1>1 DEF TypeInv, TypeOK, QueueTypes, Control, Holding
  <2>2. held[1] \in Msg
    BY <2>1, HeldMsg DEF TypeInv, TypeOK
  <2>3. held # << >>
    BY <2>1, NonEmpty
  <2> QED
    BY <1>1, <2>1, <2>2, <2>3 DEF TypeInv, Control, Open, Quiet
<1>3. held[1].exec = execs /\ held[1].n = tn /\ fpc # "clone"
  <2>1. 1 \in 1..Len(held) /\ Concern(held, execs, tn)
    BY <1>1, <1>2 DEF Lockstep
  <2> QED
    BY <1>1, <2>1 DEF Concern, TypeInv, Control
<1>4. held[1] \in Msg /\ held[1].exec = execs /\ held[1].n = tn
  BY <1>2, <1>3
<1>5. Concern(ackq', execs, tn) /\ Concern(held', execs, tn)
  BY <1>1, <1>2, <1>4, ConcernAppend, ConcernEmpty DEF Lockstep
<1>6. Len(pkt_rec) + Len(pktq) = tn
  <2>1. pktq = << >>
    BY <1>1, <1>2, OneInFlight
  <2>2. Len(pktq) = 0 /\ Len(pkt_rec) \in Nat
    BY <2>1 DEF TypeInv, TypeOK, CorpusTypes
  <2> QED
    BY <1>1, <2>2 DEF Lockstep, Progress
<1> QED
  BY <1>1, <1>3, <1>5, <1>6 DEF Lockstep, Progress

LEMMA AckPassLockstep == TypeInv /\ Flight /\ Lockstep /\ AckPass => Lockstep'
<1> SUFFICES ASSUME TypeInv, Flight, Lockstep, AckPass, leftover' = 0 PROVE Lockstep'
  BY DEF Lockstep
<1>1. /\ UNCHANGED <<fpc, leftover, execs, tn, pktq, pkt_rec>>
      /\ ipc = "passack" /\ ipc' \notin {"edit", "ack"} /\ ipc' # "recv"
      /\ ackq' = Append(ackq, held[1]) /\ held' = << >>
  BY DEF AckPass, Answer, Room, fuzzer, interceptor, target, store, queue
<1>2. /\ held \in Seq(Msg) /\ Len(held) = 1 /\ held[1] \in Msg /\ held # << >>
      /\ ackq \in Seq(Msg) /\ Open
  <2>1. held \in Seq(Msg) /\ ackq \in Seq(Msg) /\ Len(held) = 1
    BY <1>1 DEF TypeInv, TypeOK, QueueTypes, Control, Holding
  <2>2. held[1] \in Msg
    BY <2>1, HeldMsg DEF TypeInv, TypeOK
  <2>3. held # << >>
    BY <2>1, NonEmpty
  <2> QED
    BY <1>1, <2>1, <2>2, <2>3 DEF TypeInv, Control, Open, Quiet
<1>3. held[1].exec = execs /\ held[1].n = tn /\ fpc # "clone"
  <2>1. 1 \in 1..Len(held) /\ Concern(held, execs, tn)
    BY <1>1, <1>2 DEF Lockstep
  <2> QED
    BY <1>1, <2>1 DEF Concern, TypeInv, Control
<1>4. held[1] \in Msg /\ held[1].exec = execs /\ held[1].n = tn
  BY <1>2, <1>3
<1>5. Concern(ackq', execs, tn) /\ Concern(held', execs, tn)
  BY <1>1, <1>2, <1>4, ConcernAppend, ConcernEmpty DEF Lockstep
<1> QED
  BY <1>1, <1>3, <1>5 DEF Lockstep, Progress

LEMMA AckLastLockstep == TypeInv /\ Flight /\ Lockstep /\ AckLast => Lockstep'
<1> SUFFICES ASSUME TypeInv, Flight, Lockstep, AckLast, leftover' = 0 PROVE Lockstep'
  BY DEF Lockstep
<1>1. /\ UNCHANGED <<fpc, leftover, execs, tn, pktq, pkt_rec>>
      /\ ipc = "lastack" /\ ipc' \notin {"edit", "ack"} /\ ipc' # "recv"
      /\ ackq' = Append(ackq, LastAnswer(held[1])) /\ held' = << >>
  BY DEF AckLast, Answer, Room, fuzzer, interceptor, target, store, queue
<1>2. /\ held \in Seq(Msg) /\ Len(held) = 1 /\ held[1] \in Msg /\ held # << >>
      /\ ackq \in Seq(Msg) /\ Open
  <2>1. held \in Seq(Msg) /\ ackq \in Seq(Msg) /\ Len(held) = 1
    BY <1>1 DEF TypeInv, TypeOK, QueueTypes, Control, Holding
  <2>2. held[1] \in Msg
    BY <2>1, HeldMsg DEF TypeInv, TypeOK
  <2>3. held # << >>
    BY <2>1, NonEmpty
  <2> QED
    BY <1>1, <2>1, <2>2, <2>3 DEF TypeInv, Control, Open, Quiet
<1>3. held[1].exec = execs /\ held[1].n = tn /\ fpc # "clone"
  <2>1. 1 \in 1..Len(held) /\ Concern(held, execs, tn)
    BY <1>1, <1>2 DEF Lockstep
  <2> QED
    BY <1>1, <2>1 DEF Concern, TypeInv, Control
<1>4. LastAnswer(held[1]) \in Msg /\ LastAnswer(held[1]).exec = execs /\ LastAnswer(held[1]).n = tn
  BY <1>2, <1>3, LastAnswerType, LastAnswerKeeps
<1>5. Concern(ackq', execs, tn) /\ Concern(held', execs, tn)
  BY <1>1, <1>2, <1>4, ConcernAppend, ConcernEmpty DEF Lockstep
<1> QED
  BY <1>1, <1>3, <1>5 DEF Lockstep, Progress

LEMMA SaveInitLockstep == Lockstep /\ SaveInit => Lockstep'
<1> SUFFICES ASSUME Lockstep, SaveInit PROVE Lockstep'
  OBVIOUS
<1>1. UNCHANGED <<leftover, execs, tn, pktq, ackq, held, pkt_rec>>
  BY DEF SaveInit, fuzzer, interceptor, target, store, queue
<1>2. (fpc' = "clone" => fpc = "clone") /\ (ipc' \in {"recv", "edit", "ack"} => ipc' = ipc)
  BY DEF SaveInit, fuzzer, interceptor, target, store, queue
<1> QED
  BY <1>1, <1>2, FrameLockstep

LEMMA ExitLockstep == Lockstep /\ Exit => Lockstep'
<1> SUFFICES ASSUME Lockstep, Exit PROVE Lockstep'
  OBVIOUS
<1>1. UNCHANGED <<leftover, execs, tn, pktq, ackq, held, pkt_rec>>
  BY DEF Exit, fuzzer, interceptor, target, store, queue
<1>2. (fpc' = "clone" => fpc = "clone") /\ (ipc' \in {"recv", "edit", "ack"} => ipc' = ipc)
  BY DEF Exit, fuzzer, interceptor, target, store, queue
<1> QED
  BY <1>1, <1>2, FrameLockstep

LEMMA AlarmLockstep == TypeInv /\ Flight /\ Lockstep /\ Alarm => Lockstep'
<1> SUFFICES ASSUME TypeInv, Flight, Lockstep, Alarm, leftover' = 0 PROVE Lockstep'
  BY DEF Lockstep
<1>1. /\ UNCHANGED <<fpc, leftover, execs, tn, pktq, ackq, pkt_rec>>
      /\ ipc' = "dead" /\ held' = << >>
  BY DEF Alarm, KillTarget, fuzzer, interceptor, target, store, queue
<1> QED
  BY <1>1, ConcernEmpty DEF Lockstep, Progress

LEMMA DieLockstep == TypeInv /\ Flight /\ Lockstep /\ Die => Lockstep'
<1> SUFFICES ASSUME TypeInv, Flight, Lockstep, Die, leftover' = 0 PROVE Lockstep'
  BY DEF Lockstep
<1>1. /\ UNCHANGED <<fpc, leftover, execs, tn, pktq, ackq, pkt_rec>>
      /\ ipc' = "dead" /\ held' = << >>
  BY DEF Die, fuzzer, interceptor, target, store, queue
<1> QED
  BY <1>1, ConcernEmpty DEF Lockstep, Progress

LEMMA SendLockstep == TypeInv /\ Flight /\ Lockstep /\ Send => Lockstep'
<1> SUFFICES ASSUME TypeInv, Flight, Lockstep, Send, leftover' = 0 PROVE Lockstep'
  BY DEF Lockstep
<1> DEFINE m == [exec |-> execs, n |-> tn + 1, mut |-> 0]
<1>1. /\ UNCHANGED <<fpc, leftover, execs, ackq, held, pkt_rec, ipc>>
      /\ tstat = "alive" /\ tpc = "run" /\ tn' = tn + 1 /\ pktq' = Append(pktq, m)
  BY DEF Send, Room, fuzzer, interceptor, target, store, queue
<1>2. m \in Msg /\ m.exec = execs /\ m.n = tn + 1
  BY DEF TypeInv, TypeOK, CounterTypes, Msg
<1>3. Open
  BY <1>1 DEF Flight, Open, Quiet
<1>4. pktq = << >> /\ ackq = << >> /\ held = << >> /\ Len(pktq) = 0 /\ Len(held) = 0
  BY <1>1, <1>3, OneInFlight
<1>5. ipc \notin {"edit", "ack"}
  BY <1>4 DEF TypeInv, Control, Holding
<1>6. pktq \in Seq(Msg) /\ pkt_rec \in Seq(Msg) /\ tn \in Nat
  BY DEF TypeInv, TypeOK, QueueTypes, CorpusTypes, CounterTypes
<1> HIDE DEF m
<1>7. Concern(pktq', execs, tn + 1) /\ Concern(ackq', execs, tn + 1) /\ Concern(held', execs, tn + 1)
  BY <1>1, <1>2, <1>4, <1>6, ConcernEmpty, ConcernAppend
<1>8. Len(pktq') = 1
  BY <1>1, <1>2, <1>4, <1>6, AppendMsg
<1> QED
  BY <1>1, <1>4, <1>5, <1>6, <1>7, <1>8 DEF Lockstep, Progress

LEMMA RecvAckLockstep == TypeInv /\ Flight /\ Lockstep /\ RecvAck => Lockstep'
<1> SUFFICES ASSUME TypeInv, Flight, Lockstep, RecvAck, leftover' = 0 PROVE Lockstep'
  BY DEF Lockstep
<1>1. /\ UNCHANGED <<fpc, leftover, execs, tn, pktq, held, pkt_rec, ipc>>
      /\ ackq # << >> /\ ackq' = Tail(ackq)
  BY DEF RecvAck, fuzzer, interceptor, target, store, queue
<1>2. ackq \in Seq(Msg) /\ Concern(ackq, execs, tn) /\ fpc # "clone"
  BY <1>1 DEF TypeInv, TypeOK, QueueTypes, Lockstep, Progress
<1>3. Concern(ackq', execs, tn)
  BY <1>1, <1>2, ConcernHead
<1> QED
  BY <1>1, <1>2, <1>3 DEF Lockstep, Progress

LEMMA TargetEndsLockstep == Lockstep /\ TargetEnds => Lockstep'
<1> SUFFICES ASSUME Lockstep, TargetEnds PROVE Lockstep'
  OBVIOUS
<1>1. UNCHANGED <<leftover, execs, tn, pktq, ackq, held, pkt_rec>>
  BY DEF TargetEnds, fuzzer, interceptor, target, store, queue
<1>2. (fpc' = "clone" => fpc = "clone") /\ (ipc' \in {"recv", "edit", "ack"} => ipc' = ipc)
  BY DEF TargetEnds, fuzzer, interceptor, target, store, queue
<1> QED
  BY <1>1, <1>2, FrameLockstep

LEMMA AttackerFailsLockstep == Lockstep /\ AttackerFails => Lockstep'
<1> SUFFICES ASSUME Lockstep, AttackerFails PROVE Lockstep'
  OBVIOUS
<1>1. UNCHANGED <<leftover, execs, tn, pktq, ackq, held, pkt_rec>>
  BY DEF AttackerFails, fuzzer, interceptor, target, store, queue
<1>2. (fpc' = "clone" => fpc = "clone") /\ (ipc' \in {"recv", "edit", "ack"} => ipc' = ipc)
  BY DEF AttackerFails, fuzzer, interceptor, target, store, queue
<1> QED
  BY <1>1, <1>2, FrameLockstep

LEMMA TerminatedLockstep == Lockstep /\ Terminated => Lockstep'
<1> SUFFICES ASSUME Lockstep, Terminated PROVE Lockstep'
  OBVIOUS
<1>1. UNCHANGED <<leftover, execs, tn, pktq, ackq, held, pkt_rec>>
  BY DEF Terminated, vars, fuzzer, interceptor, target, store, queue
<1>2. (fpc' = "clone" => fpc = "clone") /\ (ipc' \in {"recv", "edit", "ack"} => ipc' = ipc)
  BY DEF Terminated, vars, fuzzer, interceptor, target, store, queue
<1> QED
  BY <1>1, <1>2, FrameLockstep

LEMMA NextLockstep == TypeInv /\ Flight /\ Lockstep /\ [Next]_vars => Lockstep'
<1> SUFFICES ASSUME TypeInv, Flight, Lockstep, [Next]_vars PROVE Lockstep'
  OBVIOUS
<1>1. CASE Fuzzer
  BY <1>1, CollectInitCorpusLockstep, LoadCorpusLockstep, StartFuzzOneLockstep,
     TimerExitLockstep, ForkLockstep, CloneLockstep, ReapLockstep, ReportLockstep,
     KillBsimLockstep, KillAttackerLockstep, AttackErrLockstep, CrashLockstep,
     TimeoutLockstep, JoinLockstep, KeepLockstep DEF Fuzzer
<1>2. CASE Interceptor
  BY <1>2, RecvLoopLockstep, RecvPassLockstep, RecvLastLockstep, EditFuzzLockstep,
     EditHoleLockstep, EditInitLockstep, AckFuzzLockstep, AckInitLockstep,
     AckPassLockstep, AckLastLockstep, SaveInitLockstep, ExitLockstep, AlarmLockstep,
     DieLockstep DEF Interceptor
<1>3. CASE Target
  BY <1>3, SendLockstep, RecvAckLockstep, TargetEndsLockstep DEF Target
<1>4. CASE UNCHANGED vars
  BY <1>4, FrameLockstep DEF vars, fuzzer, interceptor, target, store, queue
<1> QED
  BY <1>1, <1>2, <1>3, <1>4, AttackerFailsLockstep, TerminatedLockstep DEF Next

LEMMA SpecLockstep == Spec => []Lockstep
BY SpecFlight, InitLockstep, NextLockstep, PTL DEF Spec

\* Lockstep of hook and interceptor, in every execution that began clean.
THEOREM AnswersMatch == Spec => []AckForOwnPacket
<1>1. Lockstep => AckForOwnPacket
  BY DEF Lockstep, AckForOwnPacket
<1> QED
  BY SpecLockstep, <1>1, PTL

\* The record of such an execution is what the target sent, in its order.
THEOREM RecordIsFaithful == Spec => []RecordFaithful
<1>1. Lockstep => RecordFaithful
  BY DEF Lockstep, RecordFaithful
<1> QED
  BY SpecLockstep, <1>1, PTL

-----------------------------------------------------------------------------
(* How an execution ends: what the record holds when the target has ended,   *)
(* that a live target is never left waiting, and what the init run leaves on *)
(* disk.                                                                     *)


\* The mark of a last answer, on some message of q.
Marked(q) == \E k \in 1..Len(q) : q[k].mut = 2

\* Only answers are ever marked.
Unmarked == ~Marked(pktq) /\ ~Marked(held)

\* A target that outlives its interceptor has the last answer before it.
Parting ==
  fpc = "wait" /\ tstat = "alive" /\ ipc \in {"saveopen", "savewrite", "exit", "dead"} =>
    Marked(ackq)

\* What fuzz_one has concluded so far about the target that ended.
Verdict ==
  /\ fpc \in {"wait", "report", "kill", "attackerr"} => ~doom
  /\ fpc \in {"report", "kill", "attackerr", "crash", "timeout", "join"} =>
       fault = FaultOf(tstat)
  /\ fpc \in {"crash", "timeout", "join"} /\ doom /\ tstat = "hookexit" =>
       "attackerErr" \in files

\* The replay is complete: two packets after the corpus, or one in the init run.
Complete ==
  IF create_init_corpus THEN tn = Len(pkt_rec) + 1
  ELSE Len(pkt_rec) = Len(corpus) /\ tn = Len(corpus) + 2

\* How far the record is, wherever the interceptor stands.
Replay ==
  leftover = 0 /\ Open =>
    /\ Marked(ackq) \/ tstat = "hookexit"
         \/ ipc \in {"lastack", "saveopen", "savewrite", "exit"} => Complete
    /\ create_init_corpus => (ipc = "lastrecv" => Len(pkt_rec) + Len(pktq) = tn)
    /\ ~create_init_corpus =>
         /\ ipc \in {"recv", "edit", "ack"} => Len(pkt_rec) = i
         /\ ipc = "passrecv" => Len(pkt_rec) = Len(corpus) /\ tn = Len(corpus) + Len(pktq)
         /\ ipc = "passack" => Len(pkt_rec) = Len(corpus) /\ tn = Len(corpus) + 1
         /\ ipc = "lastrecv" => Len(pkt_rec) = Len(corpus) /\ tn = Len(corpus) + 1 + Len(pktq)
         /\ tstat \in {"exit0", "exit1", "exitN", "trap", "segv"} =>
              Len(pkt_rec) = IF tn < Len(corpus) THEN tn ELSE Len(corpus)

\* The init run is the first execution, and the only one that writes its file.
InitRun ==
  /\ fpc = "load" => create_init_corpus
  /\ ~create_init_corpus => ipc \notin {"saveopen", "savewrite"}
  /\ create_init_corpus => ipc \notin {"passrecv", "passack", "spin"}
  /\ fpc = "collect" => initfile = "none" /\ pktq = << >> /\ ackq = << >>
  /\ create_init_corpus =>
       /\ fpc \in {"fork", "clone"} => initfile = "none"
       /\ fpc = "fork" => pktq = << >> /\ ackq = << >>
       /\ Open => leftover = 0
       /\ ipc \in {"saveopen", "savewrite", "exit"} => tstat \in {"alive", "hookexit"}
       /\ (Open \/ fpc = "load") /\ initfile = "partial" =>
            ipc = "savewrite" \/ (ipc = "dead" /\ "attackerErr" \in files)

Ends == Unmarked /\ Parting /\ Verdict /\ Replay /\ InitRun

LEMMA MarkedEmpty == ~Marked(<< >>)
BY DEF Marked

LEMMA MarkedAppend ==
  ASSUME NEW q \in Seq(Msg), NEW m \in Msg
  PROVE  Marked(Append(q, m)) <=> Marked(q) \/ m.mut = 2
<1>1. Len(q) \in Nat /\ Len(Append(q, m)) = Len(q) + 1
  OBVIOUS
<1>2. /\ \A k \in 1..Len(q) : Append(q, m)[k] = q[k]
      /\ Append(q, m)[Len(q) + 1] = m
  OBVIOUS
<1>3. 1..(Len(q) + 1) = (1..Len(q)) \cup {Len(q) + 1}
  BY <1>1
<1> QED
  BY <1>1, <1>2, <1>3 DEF Marked

LEMMA MarkedHead ==
  ASSUME NEW q \in Seq(Msg), q # << >>
  PROVE  /\ Marked(Tail(q)) => Marked(q)
         /\ Marked(<<Head(q)>>) => Marked(q)
         /\ Marked(q) => Marked(Tail(q)) \/ Head(q).mut = 2
         /\ Head(q).mut = 2 => Marked(q)
<1>1. Len(q) \in Nat \ {0} /\ Len(Tail(q)) = Len(q) - 1 /\ Head(q) = q[1]
  OBVIOUS
<1>2. \A k \in 1..Len(Tail(q)) : Tail(q)[k] = q[k + 1] /\ k + 1 \in 1..Len(q)
  BY <1>1
<1>3. \A k \in 1..Len(q) : k = 1 \/ (k - 1 \in 1..Len(Tail(q)) /\ Tail(q)[k - 1] = q[k])
  BY <1>1
<1>4. 1 \in 1..Len(q)
  BY <1>1
<1>5. Len(<<Head(q)>>) = 1 /\ <<Head(q)>>[1] = Head(q)
  OBVIOUS
<1>6. Marked(Tail(q)) => Marked(q)
  BY <1>2 DEF Marked
<1>7. Marked(<<Head(q)>>) => Marked(q)
  BY <1>1, <1>4, <1>5 DEF Marked
<1>8. Marked(q) => Marked(Tail(q)) \/ Head(q).mut = 2
  BY <1>1, <1>3 DEF Marked
<1>9. Head(q).mut = 2 => Marked(q)
  BY <1>1, <1>4 DEF Marked
<1> QED
  BY <1>6, <1>7, <1>8, <1>9

LEMMA MarkedOne ==
  ASSUME NEW q \in Seq(Msg), Len(q) = 1 PROVE Marked(q) <=> q[1].mut = 2
BY DEF Marked

LEMMA InitEnds == Init => Ends
<1> SUFFICES ASSUME Init PROVE Ends
  OBVIOUS
<1>1. Unmarked /\ Parting
  BY MarkedEmpty DEF Init, Unmarked, Parting
<1>2. Verdict /\ InitRun
  BY DEF Init, Verdict, InitRun
<1>3. Replay
  BY DEF Init, Replay, Open, Quiet
<1> QED
  BY <1>1, <1>2, <1>3 DEF Ends

\* The sizes the counting below is about.
LEMMA Sizes ==
  ASSUME TypeInv
  PROVE  /\ pktq \in Seq(Msg) /\ ackq \in Seq(Msg) /\ held \in Seq(Msg)
         /\ pkt_rec \in Seq(Msg)
         /\ Len(pktq) \in Nat /\ Len(ackq) \in Nat /\ Len(pkt_rec) \in Nat
         /\ Len(corpus) \in Nat /\ i \in Nat /\ tn \in Nat
<1>1. /\ pktq \in Seq(Msg) /\ ackq \in Seq(Msg) /\ held \in Seq(Msg)
      /\ pkt_rec \in Seq(Msg) /\ corpus \in Seq(Kind) /\ i \in 0..MaxPkts /\ tn \in Nat
  BY DEF TypeInv, TypeOK, QueueTypes, CorpusTypes, CounterTypes
<1>2. i \in Nat
  BY <1>1, ConstantTypes
<1> QED
  BY <1>1, <1>2

\* What it means that the interceptor has a packet in its hands.
LEMMA InHands ==
  ASSUME TypeInv, Flight, leftover = 0, Holding
  PROVE  /\ Open /\ fpc # "clone" /\ tpc = "await" /\ tstat = "alive" /\ fpc = "wait"
         /\ pktq = << >> /\ ackq = << >> /\ Len(pktq) = 0
         /\ ~Marked(ackq)
<1>1. Len(held) = 1 /\ held # << >> /\ ipc # "dead"
  BY NonEmpty DEF TypeInv, Control, Holding
<1>2. Open /\ fpc # "clone"
  BY <1>1 DEF TypeInv, Control, Open, Quiet
<1>3. tpc = "await" /\ pktq = << >> /\ ackq = << >>
  BY <1>1, <1>2, OneInFlight DEF TypeInv, TypeOK, LocationTypes
<1>4. tstat = "alive"
  BY <1>1, <1>2, <1>3 DEF Flight
<1>5. fpc = "wait"
  BY <1>2, <1>4 DEF Flight
<1> QED
  BY <1>2, <1>3, <1>4, <1>5, MarkedEmpty

LEMMA HeldOne ==
  ASSUME TypeInv, Holding
  PROVE  held \in Seq(Msg) /\ Len(held) = 1 /\ held[1] \in Msg
         /\ (Unmarked => held[1].mut # 2)
<1>1. held \in Seq(Msg) /\ Len(held) = 1
  BY DEF TypeInv, TypeOK, QueueTypes, Control
<1>2. held[1] \in Msg
  BY <1>1, HeldMsg DEF TypeInv, TypeOK
<1> QED
  BY <1>1, <1>2, MarkedOne DEF Unmarked

\* A packet is there to be received: it is the only message.
LEMMA OneThere ==
  ASSUME TypeInv, Flight, leftover = 0, ipc # "dead", pktq # << >>
  PROVE  Open /\ Len(pktq) = 1 /\ Len(Tail(pktq)) = 0
<1>1. Open
  BY DEF TypeInv, Control, Open, Quiet
<1>2. pktq \in Seq(Msg) /\ Len(pktq) \in Nat \ {0} /\ Len(ackq) \in Nat /\ Len(held) \in Nat
  BY DEF TypeInv, TypeOK, QueueTypes
<1>3. InFlight <= Awaited
  BY <1>1, OneInFlight
<1>4. Awaited \in {0, 1}
  BY DEF Awaited
<1>5. Len(pktq) = 1
  BY <1>2, <1>3, <1>4, OnlyOne DEF InFlight
<1> QED
  BY <1>1, <1>2, <1>5

\* A target that runs: nothing is under way, and its interceptor is not done.
LEMMA TargetRuns ==
  ASSUME TypeInv, Flight, Ends, leftover = 0, tstat = "alive", tpc = "run"
  PROVE  /\ Open /\ pktq = << >> /\ ackq = << >> /\ held = << >>
         /\ Len(pktq) = 0 /\ ~Marked(ackq)
         /\ ipc \notin {"edit", "spin", "ack", "passack", "lastack",
                        "saveopen", "savewrite", "exit"}
         /\ ipc = "dead" => fpc = "clone"
<1>1. fpc \in {"clone", "wait"} /\ Open
  BY DEF Flight, Open, Quiet
<1>2. pktq = << >> /\ ackq = << >> /\ held = << >>
  BY <1>1, OneInFlight
<1>3. Len(held) = 0 /\ Len(pktq) = 0 /\ ~Marked(ackq)
  BY <1>2, MarkedEmpty
<1>4. ~Holding
  BY <1>3 DEF TypeInv, Control
<1>5. fpc = "wait" => ipc \notin {"saveopen", "savewrite", "exit", "dead"}
  BY <1>3 DEF Ends, Parting
<1>6. fpc = "clone" => ipc = "dead"
  BY DEF TypeInv, Control
<1> QED
  BY <1>1, <1>2, <1>3, <1>4, <1>5, <1>6 DEF Holding

\* When the target has ended and the interceptor has not, the queue is empty.
LEMMA TargetGone ==
  ASSUME TypeInv, Flight, leftover = 0, fpc \in {"attackerr", "crash"}, ipc # "dead"
  PROVE  pktq = << >>
<1>1. Open /\ tstat \notin {"alive", "killed"}
  BY DEF Flight, Open, Quiet
<1> QED
  BY <1>1, OneInFlight DEF Flight

LEMMA SetMutIs ==
  ASSUME NEW m \in Msg, NEW k \in 0..2 PROVE [m EXCEPT !.mut = k].mut = k
BY DEF Msg

LEMMA CollectInitCorpusEnds ==
  ASSUME TypeInv, Flight, Lockstep, Ends, CollectInitCorpus PROVE Ends'
<1>1. Unmarked'
  BY MarkedEmpty DEF CollectInitCorpus, fuzzer, interceptor, target, store, queue,
     Ends, Unmarked
<1>2. Parting'
  BY MarkedEmpty DEF CollectInitCorpus, fuzzer, interceptor, target, store, queue,
     Ends, Parting, Verdict, Flight, TypeInv, Control
<1>3. Verdict'
  BY DEF CollectInitCorpus, fuzzer, interceptor, target, store, queue, Ends, Verdict,
     Flight, TypeInv, Control
<1>4. Replay'
  BY MarkedEmpty DEF CollectInitCorpus, fuzzer, interceptor, target, store, queue,
     Ends, Replay, Complete, Open, Quiet, TypeInv, Control, TypeOK, LocationTypes
<1>5. InitRun'
  BY DEF CollectInitCorpus, fuzzer, interceptor, target, store, queue, Ends, InitRun,
     Open, Quiet, TypeInv, Control, TypeOK, LocationTypes
<1> QED
  BY <1>1, <1>2, <1>3, <1>4, <1>5 DEF Ends

LEMMA LoadCorpusEnds ==
  ASSUME TypeInv, Flight, Lockstep, Ends, LoadCorpus PROVE Ends'
<1>1. Unmarked'
  BY MarkedEmpty DEF LoadCorpus, fuzzer, interceptor, target, store, queue, Ends,
     Unmarked
<1>2. Parting'
  BY MarkedEmpty DEF LoadCorpus, fuzzer, interceptor, target, store, queue, Ends,
     Parting, Verdict, Flight, TypeInv, Control
<1>3. Verdict'
  BY DEF LoadCorpus, fuzzer, interceptor, target, store, queue, Ends, Verdict,
     Flight, TypeInv, Control
<1>4. Replay'
  BY MarkedEmpty DEF LoadCorpus, fuzzer, interceptor, target, store, queue, Ends,
     Replay, Complete, Open, Quiet, TypeInv, Control, TypeOK, LocationTypes
<1>5. InitRun'
  BY DEF LoadCorpus, fuzzer, interceptor, target, store, queue, Ends, InitRun, Open,
     Quiet, TypeInv, Control, TypeOK, LocationTypes
<1> QED
  BY <1>1, <1>2, <1>3, <1>4, <1>5 DEF Ends

LEMMA StartFuzzOneEnds ==
  ASSUME TypeInv, Flight, Lockstep, Ends, StartFuzzOne PROVE Ends'
<1>1. Unmarked'
  BY MarkedEmpty DEF StartFuzzOne, InitPktSeqBuf, fuzzer, interceptor, target, store,
     queue, Ends, Unmarked
<1>2. Parting'
  BY MarkedEmpty DEF StartFuzzOne, InitPktSeqBuf, fuzzer, interceptor, target, store,
     queue, Ends, Parting, Verdict, Flight, TypeInv, Control
<1>3. Verdict'
  BY DEF StartFuzzOne, InitPktSeqBuf, fuzzer, interceptor, target, store, queue,
     Ends, Verdict, Flight, TypeInv, Control
<1>4. Replay'
  BY MarkedEmpty DEF StartFuzzOne, InitPktSeqBuf, fuzzer, interceptor, target, store,
     queue, Ends, Replay, Complete, Open, Quiet, TypeInv, Control, TypeOK,
     LocationTypes
<1>5. InitRun'
  BY DEF StartFuzzOne, InitPktSeqBuf, fuzzer, interceptor, target, store, queue,
     Ends, InitRun, Open, Quiet, TypeInv, Control, TypeOK, LocationTypes
<1> QED
  BY <1>1, <1>2, <1>3, <1>4, <1>5 DEF Ends

LEMMA TimerExitEnds ==
  ASSUME TypeInv, Flight, Lockstep, Ends, TimerExit PROVE Ends'
<1>1. Unmarked'
  BY MarkedEmpty DEF TimerExit, fuzzer, interceptor, target, store, queue, Ends,
     Unmarked
<1>2. Parting'
  BY MarkedEmpty DEF TimerExit, fuzzer, interceptor, target, store, queue, Ends,
     Parting, Verdict, Flight, TypeInv, Control
<1>3. Verdict'
  BY DEF TimerExit, fuzzer, interceptor, target, store, queue, Ends, Verdict, Flight,
     TypeInv, Control
<1>4. Replay'
  BY MarkedEmpty DEF TimerExit, fuzzer, interceptor, target, store, queue, Ends,
     Replay, Complete, Open, Quiet, TypeInv, Control, TypeOK, LocationTypes
<1>5. InitRun'
  BY DEF TimerExit, fuzzer, interceptor, target, store, queue, Ends, InitRun, Open,
     Quiet, TypeInv, Control, TypeOK, LocationTypes
<1> QED
  BY <1>1, <1>2, <1>3, <1>4, <1>5 DEF Ends

LEMMA ForkEnds ==
  ASSUME TypeInv, Flight, Lockstep, Ends, Fork PROVE Ends'
<1>1. Unmarked'
  BY MarkedEmpty DEF Fork, fuzzer, interceptor, target, store, queue, Ends, Unmarked
<1>2. Parting'
  BY MarkedEmpty DEF Fork, fuzzer, interceptor, target, store, queue, Ends, Parting,
     Verdict, Flight, TypeInv, Control
<1>3. Verdict'
  BY DEF Fork, fuzzer, interceptor, target, store, queue, Ends, Verdict, Flight,
     TypeInv, Control
<1>4. Replay'
  BY MarkedEmpty DEF Fork, fuzzer, interceptor, target, store, queue, Ends, Replay,
     Complete, Open, Quiet, TypeInv, Control, TypeOK, LocationTypes
<1>5. InitRun'
  BY DEF Fork, fuzzer, interceptor, target, store, queue, Ends, InitRun, Open, Quiet,
     TypeInv, Control, TypeOK, LocationTypes
<1> QED
  BY <1>1, <1>2, <1>3, <1>4, <1>5 DEF Ends

LEMMA CloneEnds ==
  ASSUME TypeInv, Flight, Lockstep, Ends, Clone PROVE Ends'
<1>1. Unmarked'
  BY MarkedEmpty DEF Clone, fuzzer, interceptor, target, store, queue, Ends, Unmarked
<1>2. Parting'
  BY MarkedEmpty DEF Clone, fuzzer, interceptor, target, store, queue, Ends, Parting,
     Verdict, Flight, TypeInv, Control
<1>3. Verdict'
  BY DEF Clone, fuzzer, interceptor, target, store, queue, Ends, Verdict, Flight,
     TypeInv, Control
<1>4. Replay'
  <2> SUFFICES ASSUME leftover = 0 PROVE Replay'
    BY DEF Clone, Replay
  <2>1. /\ UNCHANGED <<create_init_corpus, corpus, leftover, tn, tstat, pkt_rec, pktq, ackq>>
        /\ fpc = "clone" /\ i' = 0 /\ ipc' \in {"recv", "passrecv"}
        /\ ipc' = "passrecv" => corpus = << >>
    BY DEF Clone, target, store, queue
  <2>2. Open /\ pkt_rec = << >> /\ Len(pktq) = tn
    BY <2>1 DEF Open, Quiet, TypeInv, Control, Lockstep, Progress
  <2>3. Marked(ackq)' <=> Marked(ackq)
    BY <2>1
  <2>4. Len(pkt_rec) = 0 /\ (ipc' = "passrecv" => Len(corpus) = 0)
    BY <2>1, <2>2
  <2> QED
    BY <2>1, <2>2, <2>3, <2>4, Sizes DEF Ends, Replay, Complete
<1>5. InitRun'
  BY DEF Clone, fuzzer, interceptor, target, store, queue, Ends, InitRun, Open,
     Quiet, TypeInv, Control, TypeOK, LocationTypes
<1> QED
  BY <1>1, <1>2, <1>3, <1>4, <1>5 DEF Ends

LEMMA ReapEnds ==
  ASSUME TypeInv, Flight, Lockstep, Ends, Reap PROVE Ends'
<1>1. Unmarked'
  BY MarkedEmpty DEF Reap, FaultOf, fuzzer, interceptor, target, store, queue, Ends,
     Unmarked
<1>2. Parting'
  BY MarkedEmpty DEF Reap, FaultOf, fuzzer, interceptor, target, store, queue, Ends,
     Parting, Verdict, Flight, TypeInv, Control
<1>3. Verdict'
  BY DEF Reap, FaultOf, fuzzer, interceptor, target, store, queue, Ends, Verdict,
     Flight, TypeInv, Control
<1>4. Replay'
  BY MarkedEmpty DEF Reap, FaultOf, fuzzer, interceptor, target, store, queue, Ends,
     Replay, Complete, Open, Quiet, TypeInv, Control, TypeOK, LocationTypes
<1>5. InitRun'
  BY DEF Reap, FaultOf, fuzzer, interceptor, target, store, queue, Ends, InitRun,
     Open, Quiet, TypeInv, Control, TypeOK, LocationTypes
<1> QED
  BY <1>1, <1>2, <1>3, <1>4, <1>5 DEF Ends

LEMMA ReportEnds ==
  ASSUME TypeInv, Flight, Lockstep, Ends, Report PROVE Ends'
<1>1. Unmarked'
  BY MarkedEmpty DEF Report, fuzzer, interceptor, target, store, queue, Ends, Unmarked
<1>2. Parting'
  BY MarkedEmpty DEF Report, fuzzer, interceptor, target, store, queue, Ends,
     Parting, Verdict, Flight, TypeInv, Control
<1>3. Verdict'
  BY DEF Report, fuzzer, interceptor, target, store, queue, Ends, Verdict, Flight,
     TypeInv, Control
<1>4. Replay'
  BY MarkedEmpty DEF Report, fuzzer, interceptor, target, store, queue, Ends, Replay,
     Complete, Open, Quiet, TypeInv, Control, TypeOK, LocationTypes
<1>5. InitRun'
  BY DEF Report, fuzzer, interceptor, target, store, queue, Ends, InitRun, Open,
     Quiet, TypeInv, Control, TypeOK, LocationTypes
<1> QED
  BY <1>1, <1>2, <1>3, <1>4, <1>5 DEF Ends

LEMMA KillBsimEnds ==
  ASSUME TypeInv, Flight, Lockstep, Ends, KillBsim PROVE Ends'
<1>1. Unmarked'
  BY MarkedEmpty DEF KillBsim, fuzzer, interceptor, target, store, queue, Ends, Unmarked
<1>2. Parting'
  BY MarkedEmpty DEF KillBsim, fuzzer, interceptor, target, store, queue, Ends,
     Parting, Verdict, Flight, TypeInv, Control
<1>3. Verdict'
  BY DEF KillBsim, fuzzer, interceptor, target, store, queue, Ends, Verdict, Flight,
     TypeInv, Control
<1>4. Replay'
  BY MarkedEmpty DEF KillBsim, fuzzer, interceptor, target, store, queue, Ends,
     Replay, Complete, Open, Quiet, TypeInv, Control, TypeOK, LocationTypes
<1>5. InitRun'
  BY DEF KillBsim, fuzzer, interceptor, target, store, queue, Ends, InitRun, Open,
     Quiet, TypeInv, Control, TypeOK, LocationTypes
<1> QED
  BY <1>1, <1>2, <1>3, <1>4, <1>5 DEF Ends

LEMMA KillAttackerEnds ==
  ASSUME TypeInv, Flight, Lockstep, Ends, KillAttacker PROVE Ends'
<1>1. Unmarked'
  BY MarkedEmpty DEF KillAttacker, fuzzer, interceptor, target, store, queue, Ends,
     Unmarked
<1>2. Parting'
  BY MarkedEmpty DEF KillAttacker, fuzzer, interceptor, target, store, queue, Ends,
     Parting, Verdict, Flight, TypeInv, Control
<1>3. Verdict'
  BY DEF KillAttacker, fuzzer, interceptor, target, store, queue, Ends, Verdict,
     Flight, TypeInv, Control
<1>4. Replay'
  BY MarkedEmpty DEF KillAttacker, fuzzer, interceptor, target, store, queue, Ends,
     Replay, Complete, Open, Quiet, TypeInv, Control, TypeOK, LocationTypes
<1>5. InitRun'
  BY DEF KillAttacker, fuzzer, interceptor, target, store, queue, Ends, InitRun,
     Open, Quiet, TypeInv, Control, TypeOK, LocationTypes
<1> QED
  BY <1>1, <1>2, <1>3, <1>4, <1>5 DEF Ends

LEMMA AttackErrEnds ==
  ASSUME TypeInv, Flight, Lockstep, Ends, AttackErr PROVE Ends'
<1>1. Unmarked'
  BY MarkedEmpty DEF AttackErr, ResetQueue, AttackError, AttackFailed, FaultOf,
     fuzzer, interceptor, target, store, queue, Ends, Unmarked
<1>2. Parting'
  BY MarkedEmpty DEF AttackErr, ResetQueue, AttackError, AttackFailed, FaultOf,
     fuzzer, interceptor, target, store, queue, Ends, Parting, Verdict, Flight,
     TypeInv, Control
<1>3. Verdict'
  BY DEF AttackErr, ResetQueue, AttackError, AttackFailed, FaultOf, fuzzer,
     interceptor, target, store, queue, Ends, Verdict, Flight, TypeInv, Control
<1>4. Replay'
  <2> SUFFICES ASSUME leftover = 0 PROVE Replay'
    BY DEF AttackErr, fuzzer, Replay
  <2>1. /\ UNCHANGED <<create_init_corpus, corpus, leftover, tn, tstat, pkt_rec, i, ipc>>
        /\ fpc = "attackerr" /\ fpc' = "crash"
    BY DEF AttackErr, interceptor, target, store
  <2>2. (ackq' = ackq \/ ackq' = << >>) /\ (pktq' = pktq \/ pktq' = << >>)
    BY DEF AttackErr, ResetQueue, queue
  <2>3. Open /\ (ipc # "dead" => pktq' = pktq)
    BY <2>1, <2>2, TargetGone DEF Open, Quiet
  <2>4. Marked(ackq)' => Marked(ackq)
    BY <2>2, MarkedEmpty
  <2> QED
    BY <2>1, <2>3, <2>4 DEF Ends, Replay, Complete
<1>5. InitRun'
  BY DEF AttackErr, ResetQueue, AttackError, AttackFailed, FaultOf, fuzzer,
     interceptor, target, store, queue, Ends, InitRun, Open, Quiet, TypeInv, Control,
     TypeOK, LocationTypes
<1> QED
  BY <1>1, <1>2, <1>3, <1>4, <1>5 DEF Ends

LEMMA CrashEnds ==
  ASSUME TypeInv, Flight, Lockstep, Ends, Crash PROVE Ends'
<1>1. Unmarked'
  BY MarkedEmpty DEF Crash, ResetQueue, FaultOf, fuzzer, interceptor, target, store,
     queue, Ends, Unmarked
<1>2. Parting'
  BY MarkedEmpty DEF Crash, ResetQueue, FaultOf, fuzzer, interceptor, target, store,
     queue, Ends, Parting, Verdict, Flight, TypeInv, Control
<1>3. Verdict'
  BY DEF Crash, ResetQueue, FaultOf, fuzzer, interceptor, target, store, queue, Ends,
     Verdict, Flight, TypeInv, Control
<1>4. Replay'
  <2> SUFFICES ASSUME leftover = 0 PROVE Replay'
    BY DEF Crash, fuzzer, Replay
  <2>1. /\ UNCHANGED <<create_init_corpus, corpus, leftover, tn, tstat, pkt_rec, i, ipc>>
        /\ fpc = "crash" /\ fpc' = "timeout"
    BY DEF Crash, interceptor, target, store
  <2>2. (ackq' = ackq \/ ackq' = << >>) /\ (pktq' = pktq \/ pktq' = << >>)
    BY DEF Crash, ResetQueue, queue
  <2>3. Open /\ (ipc # "dead" => pktq' = pktq)
    BY <2>1, <2>2, TargetGone DEF Open, Quiet
  <2>4. Marked(ackq)' => Marked(ackq)
    BY <2>2, MarkedEmpty
  <2> QED
    BY <2>1, <2>3, <2>4 DEF Ends, Replay, Complete
<1>5. InitRun'
  BY DEF Crash, ResetQueue, FaultOf, fuzzer, interceptor, target, store, queue, Ends,
     InitRun, Open, Quiet, TypeInv, Control, TypeOK, LocationTypes
<1> QED
  BY <1>1, <1>2, <1>3, <1>4, <1>5 DEF Ends

LEMMA TimeoutEnds ==
  ASSUME TypeInv, Flight, Lockstep, Ends, Timeout PROVE Ends'
<1>1. Unmarked'
  BY MarkedEmpty DEF Timeout, fuzzer, interceptor, target, store, queue, Ends, Unmarked
<1>2. Parting'
  BY MarkedEmpty DEF Timeout, fuzzer, interceptor, target, store, queue, Ends,
     Parting, Verdict, Flight, TypeInv, Control
<1>3. Verdict'
  BY DEF Timeout, fuzzer, interceptor, target, store, queue, Ends, Verdict, Flight,
     TypeInv, Control
<1>4. Replay'
  BY MarkedEmpty DEF Timeout, fuzzer, interceptor, target, store, queue, Ends,
     Replay, Complete, Open, Quiet, TypeInv, Control, TypeOK, LocationTypes
<1>5. InitRun'
  BY DEF Timeout, fuzzer, interceptor, target, store, queue, Ends, InitRun, Open,
     Quiet, TypeInv, Control, TypeOK, LocationTypes
<1> QED
  BY <1>1, <1>2, <1>3, <1>4, <1>5 DEF Ends

LEMMA JoinEnds ==
  ASSUME TypeInv, Flight, Lockstep, Ends, Join PROVE Ends'
<1>1. Unmarked'
  BY MarkedEmpty DEF Join, InterceptorReaped, fuzzer, interceptor, target, store,
     queue, Ends, Unmarked
<1>2. Parting'
  BY MarkedEmpty DEF Join, InterceptorReaped, fuzzer, interceptor, target, store,
     queue, Ends, Parting, Verdict, Flight, TypeInv, Control
<1>3. Verdict'
  BY DEF Join, InterceptorReaped, fuzzer, interceptor, target, store, queue, Ends,
     Verdict, Flight, TypeInv, Control
<1>4. Replay'
  BY MarkedEmpty DEF Join, InterceptorReaped, fuzzer, interceptor, target, store,
     queue, Ends, Replay, Complete, Open, Quiet, TypeInv, Control, TypeOK,
     LocationTypes
<1>5. InitRun'
  BY DEF Join, InterceptorReaped, fuzzer, interceptor, target, store, queue, Ends,
     InitRun, Open, Quiet, TypeInv, Control, TypeOK, LocationTypes
<1> QED
  BY <1>1, <1>2, <1>3, <1>4, <1>5 DEF Ends

LEMMA KeepEnds ==
  ASSUME TypeInv, Flight, Lockstep, Ends, Keep PROVE Ends'
<1>1. Unmarked'
  BY MarkedEmpty DEF Keep, fuzzer, interceptor, target, store, queue, Ends, Unmarked
<1>2. Parting'
  BY MarkedEmpty DEF Keep, fuzzer, interceptor, target, store, queue, Ends, Parting,
     Verdict, Flight, TypeInv, Control
<1>3. Verdict'
  BY DEF Keep, fuzzer, interceptor, target, store, queue, Ends, Verdict, Flight,
     TypeInv, Control
<1>4. Replay'
  BY MarkedEmpty DEF Keep, fuzzer, interceptor, target, store, queue, Ends, Replay,
     Complete, Open, Quiet, TypeInv, Control, TypeOK, LocationTypes
<1>5. InitRun'
  BY DEF Keep, fuzzer, interceptor, target, store, queue, Ends, InitRun, Open, Quiet,
     TypeInv, Control, TypeOK, LocationTypes
<1> QED
  BY <1>1, <1>2, <1>3, <1>4, <1>5 DEF Ends

LEMMA RecvLoopEnds ==
  ASSUME TypeInv, Flight, Lockstep, Ends, RecvLoop PROVE Ends'
<1>1. Unmarked'
  BY Sizes, MarkedHead DEF RecvLoop, Receive, Ends, Unmarked
<1>2. Parting'
  BY MarkedEmpty DEF RecvLoop, Receive, fuzzer, interceptor, target, store, queue,
     Ends, Parting, Verdict, Flight, TypeInv, Control
<1>3. Verdict'
  BY DEF RecvLoop, Receive, fuzzer, interceptor, target, store, queue, Ends, Verdict,
     Flight, TypeInv, Control
<1>4. Replay'
  BY MarkedEmpty DEF RecvLoop, Receive, fuzzer, interceptor, target, store, queue,
     Ends, Replay, Complete, Open, Quiet, TypeInv, Control, TypeOK, LocationTypes
<1>5. InitRun'
  BY DEF RecvLoop, Receive, fuzzer, interceptor, target, store, queue, Ends, InitRun,
     Open, Quiet, TypeInv, Control, TypeOK, LocationTypes
<1> QED
  BY <1>1, <1>2, <1>3, <1>4, <1>5 DEF Ends

LEMMA RecvPassEnds ==
  ASSUME TypeInv, Flight, Lockstep, Ends, RecvPass PROVE Ends'
<1>1. Unmarked'
  BY Sizes, MarkedHead DEF RecvPass, Receive, Ends, Unmarked
<1>2. Parting'
  BY MarkedEmpty DEF RecvPass, Receive, fuzzer, interceptor, target, store, queue,
     Ends, Parting, Verdict, Flight, TypeInv, Control
<1>3. Verdict'
  BY DEF RecvPass, Receive, fuzzer, interceptor, target, store, queue, Ends, Verdict,
     Flight, TypeInv, Control
<1>4. Replay'
  <2> SUFFICES ASSUME leftover = 0 PROVE Replay'
    BY DEF RecvPass, Receive, fuzzer, Replay
  <2>1. /\ UNCHANGED <<fpc, create_init_corpus, corpus, leftover, tn, tstat, ackq, pkt_rec, i>>
        /\ pktq # << >> /\ pktq' = Tail(pktq) /\ ipc = "passrecv" /\ ipc' = "passack"
    BY DEF RecvPass, Receive, fuzzer, interceptor, target, store
  <2>2. Open /\ Len(pktq) = 1 /\ Len(pktq') = 0
    BY <2>1, OneThere
  <2>3. Marked(ackq) <=> Marked(ackq)'
    BY <2>1
  <2> QED
    BY <2>1, <2>2, <2>3, Sizes DEF Ends, Replay, Complete, InitRun
<1>5. InitRun'
  BY DEF RecvPass, Receive, fuzzer, interceptor, target, store, queue, Ends, InitRun,
     Open, Quiet, TypeInv, Control, TypeOK, LocationTypes
<1> QED
  BY <1>1, <1>2, <1>3, <1>4, <1>5 DEF Ends

LEMMA RecvLastEnds ==
  ASSUME TypeInv, Flight, Lockstep, Ends, RecvLast PROVE Ends'
<1>1. Unmarked'
  BY Sizes, MarkedHead DEF RecvLast, Receive, Ends, Unmarked
<1>2. Parting'
  BY MarkedEmpty DEF RecvLast, Receive, fuzzer, interceptor, target, store, queue,
     Ends, Parting, Verdict, Flight, TypeInv, Control
<1>3. Verdict'
  BY DEF RecvLast, Receive, fuzzer, interceptor, target, store, queue, Ends, Verdict,
     Flight, TypeInv, Control
<1>4. Replay'
  <2> SUFFICES ASSUME leftover = 0 PROVE Replay'
    BY DEF RecvLast, Receive, fuzzer, Replay
  <2>1. /\ UNCHANGED <<fpc, create_init_corpus, corpus, leftover, tn, tstat, ackq, pkt_rec, i>>
        /\ pktq # << >> /\ pktq' = Tail(pktq) /\ ipc = "lastrecv" /\ ipc' = "lastack"
    BY DEF RecvLast, Receive, fuzzer, interceptor, target, store
  <2>2. Open /\ Len(pktq) = 1 /\ Len(pktq') = 0
    BY <2>1, OneThere
  <2>3. Marked(ackq) <=> Marked(ackq)'
    BY <2>1
  <2> QED
    BY <2>1, <2>2, <2>3, Sizes DEF Ends, Replay, Complete, InitRun
<1>5. InitRun'
  BY DEF RecvLast, Receive, fuzzer, interceptor, target, store, queue, Ends, InitRun,
     Open, Quiet, TypeInv, Control, TypeOK, LocationTypes
<1> QED
  BY <1>1, <1>2, <1>3, <1>4, <1>5 DEF Ends

LEMMA EditFuzzEnds ==
  ASSUME TypeInv, Flight, Lockstep, Ends, EditFuzz PROVE Ends'
<1>1. Unmarked'
  <2>1. held[1] \in Msg /\ UNCHANGED pktq
    BY HeldOne DEF EditFuzz, queue, Holding
  <2>2. PICK k \in {0, 1} : held' = <<[held[1] EXCEPT !.mut = k]>>
    BY DEF EditFuzz
  <2> DEFINE h == [held[1] EXCEPT !.mut = k]
  <2>3. h \in Msg /\ h.mut # 2
    <3>1. k \in 0..2 /\ k # 2
      OBVIOUS
    <3>2. h.mut = k /\ h \in Msg
      BY <2>1, <3>1, SetMutIs, SetMutType
    <3> QED
      BY <3>1, <3>2
  <2>4. held' = <<h>>
    BY <2>2
  <2> HIDE DEF h
  <2>5. ~Marked(<<h>>)
    BY <2>3, SingleMsg, MarkedOne
  <2> QED
    BY <2>1, <2>4, <2>5 DEF Ends, Unmarked
<1>2. Parting'
  BY MarkedEmpty DEF EditFuzz, fuzzer, interceptor, target, store, queue, Ends,
     Parting, Verdict, Flight, TypeInv, Control
<1>3. Verdict'
  BY DEF EditFuzz, fuzzer, interceptor, target, store, queue, Ends, Verdict, Flight,
     TypeInv, Control
<1>4. Replay'
  <2> SUFFICES ASSUME leftover = 0 PROVE Replay'
    BY DEF EditFuzz, fuzzer, Replay
  <2>1. /\ UNCHANGED <<fpc, create_init_corpus, corpus, leftover, tn, tstat, ackq, pktq>>
        /\ ipc = "edit" /\ ipc' = "ack" /\ ~create_init_corpus /\ i' = i + 1
        /\ pkt_rec' = Record(pkt_rec, held'[1])
        /\ \E k \in 0..2 : held' = <<[held[1] EXCEPT !.mut = k]>>
    BY DEF EditFuzz, fuzzer, target, queue
  <2>2. /\ ~Marked(ackq) /\ tstat = "alive" /\ Open /\ held[1] \in Msg
    BY <2>1, InHands, HeldOne DEF Holding
  <2>3. held'[1] \in Msg
    <3>1. PICK k \in 0..2 : held' = <<[held[1] EXCEPT !.mut = k]>>
      BY <2>1
    <3>2. [held[1] EXCEPT !.mut = k] \in Msg
      BY <2>2, SetMutType
    <3> QED
      BY <3>1, <3>2
  <2>4. Len(pkt_rec) < MaxPkts
    BY <2>1, Sizes, ConstantTypes DEF TypeInv, TypeOK, CorpusTypes, Control
  <2>5. Len(pkt_rec') = Len(pkt_rec) + 1
    BY <2>1, <2>3, <2>4, Sizes, RecordTakes
  <2>6. Len(pkt_rec) = i
    BY <2>1, <2>2 DEF Ends, Replay
  <2>7. ~Marked(ackq)'
    BY <2>1, <2>2
  <2> QED
    BY <2>1, <2>2, <2>5, <2>6, <2>7 DEF Replay
<1>5. InitRun'
  BY DEF EditFuzz, fuzzer, interceptor, target, store, queue, Ends, InitRun, Open,
     Quiet, TypeInv, Control, TypeOK, LocationTypes
<1> QED
  BY <1>1, <1>2, <1>3, <1>4, <1>5 DEF Ends

LEMMA EditHoleEnds ==
  ASSUME TypeInv, Flight, Lockstep, Ends, EditHole PROVE Ends'
<1>1. Unmarked'
  BY MarkedEmpty DEF EditHole, fuzzer, interceptor, target, store, queue, Ends, Unmarked
<1>2. Parting'
  BY MarkedEmpty DEF EditHole, fuzzer, interceptor, target, store, queue, Ends,
     Parting, Verdict, Flight, TypeInv, Control
<1>3. Verdict'
  BY DEF EditHole, fuzzer, interceptor, target, store, queue, Ends, Verdict, Flight,
     TypeInv, Control
<1>4. Replay'
  BY MarkedEmpty DEF EditHole, fuzzer, interceptor, target, store, queue, Ends,
     Replay, Complete, Open, Quiet, TypeInv, Control, TypeOK, LocationTypes
<1>5. InitRun'
  BY DEF EditHole, fuzzer, interceptor, target, store, queue, Ends, InitRun, Open,
     Quiet, TypeInv, Control, TypeOK, LocationTypes
<1> QED
  BY <1>1, <1>2, <1>3, <1>4, <1>5 DEF Ends

LEMMA EditInitEnds ==
  ASSUME TypeInv, Flight, Lockstep, Ends, EditInit PROVE Ends'
<1>1. Unmarked'
  BY MarkedEmpty DEF EditInit, fuzzer, interceptor, target, store, queue, Ends, Unmarked
<1>2. Parting'
  BY MarkedEmpty DEF EditInit, fuzzer, interceptor, target, store, queue, Ends,
     Parting, Verdict, Flight, TypeInv, Control
<1>3. Verdict'
  BY DEF EditInit, fuzzer, interceptor, target, store, queue, Ends, Verdict, Flight,
     TypeInv, Control
<1>4. Replay'
  <2> SUFFICES ASSUME leftover = 0 PROVE Replay'
    BY DEF EditInit, fuzzer, Replay
  <2>1. /\ UNCHANGED <<create_init_corpus, tstat, ackq>>
        /\ ipc = "edit" /\ ipc' = "ack" /\ create_init_corpus
    BY DEF EditInit, fuzzer, target, queue
  <2>2. ~Marked(ackq) /\ tstat = "alive"
    BY <2>1, InHands DEF Holding
  <2> QED
    BY <2>1, <2>2 DEF Replay
<1>5. InitRun'
  BY DEF EditInit, fuzzer, interceptor, target, store, queue, Ends, InitRun, Open,
     Quiet, TypeInv, Control, TypeOK, LocationTypes
<1> QED
  BY <1>1, <1>2, <1>3, <1>4, <1>5 DEF Ends

LEMMA AckFuzzEnds ==
  ASSUME TypeInv, Flight, Lockstep, Ends, AckFuzz PROVE Ends'
<1>1. Unmarked'
  BY MarkedEmpty DEF AckFuzz, Answer, CorpusDone, fuzzer, interceptor, target, store,
     queue, Ends, Unmarked
<1>2. Parting'
  BY MarkedEmpty DEF AckFuzz, Answer, CorpusDone, fuzzer, interceptor, target, store,
     queue, Ends, Parting, Verdict, Flight, TypeInv, Control
<1>3. Verdict'
  BY DEF AckFuzz, Answer, CorpusDone, fuzzer, interceptor, target, store, queue,
     Ends, Verdict, Flight, TypeInv, Control
<1>4. Replay'
  <2> SUFFICES ASSUME leftover = 0 PROVE Replay'
    BY DEF AckFuzz, Answer, fuzzer, Replay
  <2>1. /\ UNCHANGED <<fpc, create_init_corpus, corpus, leftover, tn, tstat, pktq, pkt_rec, i>>
        /\ ipc = "ack" /\ ~create_init_corpus /\ ipc' \in {"recv", "passrecv"}
        /\ ipc' = "passrecv" => i >= Len(corpus)
        /\ ackq' = Append(ackq, held[1])
    BY DEF AckFuzz, Answer, CorpusDone, fuzzer, target, store, Ends, InitRun
  <2>2. ~Marked(ackq) /\ tstat = "alive" /\ Open /\ Len(pktq) = 0
    BY <2>1, InHands DEF Holding
  <2>3. held[1] \in Msg /\ held[1].mut # 2
    BY <2>1, HeldOne DEF Holding, Ends
  <2>4. ~Marked(ackq)'
    BY <2>1, <2>2, <2>3, Sizes, MarkedAppend
  <2>5. Len(pkt_rec) = i /\ Len(pkt_rec) = tn /\ i <= Len(corpus)
    BY <2>1, <2>2 DEF Ends, Replay, Lockstep, Progress, TypeInv, Control
  <2> QED
    BY <2>1, <2>2, <2>4, <2>5, Sizes DEF Replay
<1>5. InitRun'
  BY DEF AckFuzz, Answer, CorpusDone, fuzzer, interceptor, target, store, queue,
     Ends, InitRun, Open, Quiet, TypeInv, Control, TypeOK, LocationTypes
<1> QED
  BY <1>1, <1>2, <1>3, <1>4, <1>5 DEF Ends

LEMMA AckInitEnds ==
  ASSUME TypeInv, Flight, Lockstep, Ends, AckInit PROVE Ends'
<1>1. Unmarked'
  BY MarkedEmpty DEF AckInit, Answer, RecordFull, fuzzer, interceptor, target, store,
     queue, Ends, Unmarked
<1>2. Parting'
  BY MarkedEmpty DEF AckInit, Answer, RecordFull, fuzzer, interceptor, target, store,
     queue, Ends, Parting, Verdict, Flight, TypeInv, Control
<1>3. Verdict'
  BY DEF AckInit, Answer, RecordFull, fuzzer, interceptor, target, store, queue,
     Ends, Verdict, Flight, TypeInv, Control
<1>4. Replay'
  <2> SUFFICES ASSUME leftover = 0 PROVE Replay'
    BY DEF AckInit, Answer, fuzzer, Replay
  <2>1. /\ UNCHANGED <<fpc, create_init_corpus, corpus, leftover, tn, tstat, pktq, pkt_rec, i>>
        /\ ipc = "ack" /\ create_init_corpus /\ ipc' \in {"recv", "lastrecv"}
        /\ ackq' = Append(ackq, held[1])
    BY DEF AckInit, Answer, RecordFull, fuzzer, target, store, Ends, InitRun
  <2>2. ~Marked(ackq) /\ tstat = "alive" /\ Open /\ Len(pktq) = 0
    BY <2>1, InHands DEF Holding
  <2>3. held[1] \in Msg /\ held[1].mut # 2
    BY <2>1, HeldOne DEF Holding, Ends
  <2>4. ~Marked(ackq)'
    BY <2>1, <2>2, <2>3, Sizes, MarkedAppend
  <2>5. Len(pkt_rec) = tn
    BY <2>1, <2>2 DEF Lockstep, Progress
  <2> QED
    BY <2>1, <2>2, <2>4, <2>5, Sizes DEF Replay
<1>5. InitRun'
  BY DEF AckInit, Answer, RecordFull, fuzzer, interceptor, target, store, queue,
     Ends, InitRun, Open, Quiet, TypeInv, Control, TypeOK, LocationTypes
<1> QED
  BY <1>1, <1>2, <1>3, <1>4, <1>5 DEF Ends

LEMMA AckPassEnds ==
  ASSUME TypeInv, Flight, Lockstep, Ends, AckPass PROVE Ends'
<1>1. Unmarked'
  BY MarkedEmpty DEF AckPass, Answer, fuzzer, interceptor, target, store, queue,
     Ends, Unmarked
<1>2. Parting'
  BY MarkedEmpty DEF AckPass, Answer, fuzzer, interceptor, target, store, queue,
     Ends, Parting, Verdict, Flight, TypeInv, Control
<1>3. Verdict'
  BY DEF AckPass, Answer, fuzzer, interceptor, target, store, queue, Ends, Verdict,
     Flight, TypeInv, Control
<1>4. Replay'
  <2> SUFFICES ASSUME leftover = 0 PROVE Replay'
    BY DEF AckPass, Answer, fuzzer, Replay
  <2>1. /\ UNCHANGED <<fpc, create_init_corpus, corpus, leftover, tn, tstat, pktq, pkt_rec, i>>
        /\ ipc = "passack" /\ ~create_init_corpus /\ ipc' = "lastrecv"
        /\ ackq' = Append(ackq, held[1])
    BY DEF AckPass, Answer, fuzzer, target, store, Ends, InitRun
  <2>2. ~Marked(ackq) /\ tstat = "alive" /\ Open /\ Len(pktq) = 0
    BY <2>1, InHands DEF Holding
  <2>3. held[1] \in Msg /\ held[1].mut # 2
    BY <2>1, HeldOne DEF Holding, Ends
  <2>4. ~Marked(ackq)'
    BY <2>1, <2>2, <2>3, Sizes, MarkedAppend
  <2>5. Len(pkt_rec) = Len(corpus) /\ tn = Len(corpus) + 1
    BY <2>1, <2>2 DEF Ends, Replay
  <2> QED
    BY <2>1, <2>2, <2>4, <2>5, Sizes DEF Replay
<1>5. InitRun'
  BY DEF AckPass, Answer, fuzzer, interceptor, target, store, queue, Ends, InitRun,
     Open, Quiet, TypeInv, Control, TypeOK, LocationTypes
<1> QED
  BY <1>1, <1>2, <1>3, <1>4, <1>5 DEF Ends

LEMMA AckLastEnds ==
  ASSUME TypeInv, Flight, Lockstep, Ends, AckLast PROVE Ends'
<1>1. Unmarked'
  BY MarkedEmpty DEF AckLast, Answer, LastAnswer, fuzzer, interceptor, target, store,
     queue, Ends, Unmarked
<1>2. Parting'
  <2>1. ipc = "lastack" /\ ackq' = Append(ackq, LastAnswer(held[1]))
    BY DEF AckLast, Answer
  <2>2. LastAnswer(held[1]) \in Msg /\ LastAnswer(held[1]).mut = 2
    BY <2>1, HeldOne, LastAnswerType, SetMutIs DEF LastAnswer, Holding
  <2>3. Marked(ackq)'
    BY <2>1, <2>2, Sizes, MarkedAppend
  <2> QED
    BY <2>3 DEF Parting
<1>3. Verdict'
  BY DEF AckLast, Answer, LastAnswer, fuzzer, interceptor, target, store, queue,
     Ends, Verdict, Flight, TypeInv, Control
<1>4. Replay'
  BY MarkedEmpty DEF AckLast, Answer, LastAnswer, fuzzer, interceptor, target, store,
     queue, Ends, Replay, Complete, Open, Quiet, TypeInv, Control, TypeOK,
     LocationTypes
<1>5. InitRun'
  <2>1. UNCHANGED <<fpc, create_init_corpus, leftover, tstat, initfile, files, pktq>>
    BY DEF AckLast, Answer, fuzzer, target, store
  <2>2. ipc = "lastack" /\ ipc' \in {"saveopen", "exit"} /\ (ipc' = "saveopen" => create_init_corpus)
    BY DEF AckLast
  <2>3. fpc \notin {"collect", "fork", "clone"} /\ Open
    BY <2>2 DEF TypeInv, Control, Open, Quiet
  <2>4. create_init_corpus => leftover = 0 /\ tstat = "alive"
    BY <2>2, <2>3, InHands DEF Holding, Ends, InitRun
  <2> QED
    BY <2>1, <2>2, <2>3, <2>4 DEF Ends, InitRun, Open, Quiet
<1> QED
  BY <1>1, <1>2, <1>3, <1>4, <1>5 DEF Ends

LEMMA SaveInitEnds ==
  ASSUME TypeInv, Flight, Lockstep, Ends, SaveInit PROVE Ends'
<1>1. Unmarked'
  BY MarkedEmpty DEF SaveInit, fuzzer, interceptor, target, store, queue, Ends, Unmarked
<1>2. Parting'
  BY MarkedEmpty DEF SaveInit, fuzzer, interceptor, target, store, queue, Ends,
     Parting, Verdict, Flight, TypeInv, Control
<1>3. Verdict'
  BY DEF SaveInit, fuzzer, interceptor, target, store, queue, Ends, Verdict, Flight,
     TypeInv, Control
<1>4. Replay'
  BY MarkedEmpty DEF SaveInit, fuzzer, interceptor, target, store, queue, Ends,
     Replay, Complete, Open, Quiet, TypeInv, Control, TypeOK, LocationTypes
<1>5. InitRun'
  BY DEF SaveInit, fuzzer, interceptor, target, store, queue, Ends, InitRun, Open,
     Quiet, TypeInv, Control, TypeOK, LocationTypes
<1> QED
  BY <1>1, <1>2, <1>3, <1>4, <1>5 DEF Ends

LEMMA ExitEnds ==
  ASSUME TypeInv, Flight, Lockstep, Ends, Exit PROVE Ends'
<1>1. Unmarked'
  BY MarkedEmpty DEF Exit, fuzzer, interceptor, target, store, queue, Ends, Unmarked
<1>2. Parting'
  BY MarkedEmpty DEF Exit, fuzzer, interceptor, target, store, queue, Ends, Parting,
     Verdict, Flight, TypeInv, Control
<1>3. Verdict'
  BY DEF Exit, fuzzer, interceptor, target, store, queue, Ends, Verdict, Flight,
     TypeInv, Control
<1>4. Replay'
  BY MarkedEmpty DEF Exit, fuzzer, interceptor, target, store, queue, Ends, Replay,
     Complete, Open, Quiet, TypeInv, Control, TypeOK, LocationTypes
<1>5. InitRun'
  BY DEF Exit, fuzzer, interceptor, target, store, queue, Ends, InitRun, Open, Quiet,
     TypeInv, Control, TypeOK, LocationTypes
<1> QED
  BY <1>1, <1>2, <1>3, <1>4, <1>5 DEF Ends

LEMMA AlarmEnds ==
  ASSUME TypeInv, Flight, Lockstep, Ends, Alarm PROVE Ends'
<1>1. Unmarked'
  BY MarkedEmpty DEF Alarm, KillTarget, fuzzer, interceptor, target, store, queue,
     Ends, Unmarked
<1>2. Parting'
  BY MarkedEmpty DEF Alarm, KillTarget, fuzzer, interceptor, target, store, queue,
     Ends, Parting, Verdict, Flight, TypeInv, Control
<1>3. Verdict'
  BY DEF Alarm, KillTarget, fuzzer, interceptor, target, store, queue, Ends, Verdict,
     Flight, TypeInv, Control
<1>4. Replay'
  BY MarkedEmpty DEF Alarm, KillTarget, fuzzer, interceptor, target, store, queue,
     Ends, Replay, Complete, Open, Quiet, TypeInv, Control, TypeOK, LocationTypes
<1>5. InitRun'
  BY DEF Alarm, KillTarget, fuzzer, interceptor, target, store, queue, Ends, InitRun,
     Open, Quiet, TypeInv, Control, TypeOK, LocationTypes
<1> QED
  BY <1>1, <1>2, <1>3, <1>4, <1>5 DEF Ends

LEMMA DieEnds ==
  ASSUME TypeInv, Flight, Lockstep, Ends, Die PROVE Ends'
<1>1. Unmarked'
  BY MarkedEmpty DEF Die, fuzzer, interceptor, target, store, queue, Ends, Unmarked
<1>2. Parting'
  BY MarkedEmpty DEF Die, fuzzer, interceptor, target, store, queue, Ends, Parting,
     Verdict, Flight, TypeInv, Control
<1>3. Verdict'
  BY DEF Die, fuzzer, interceptor, target, store, queue, Ends, Verdict, Flight,
     TypeInv, Control
<1>4. Replay'
  BY MarkedEmpty DEF Die, fuzzer, interceptor, target, store, queue, Ends, Replay,
     Complete, Open, Quiet, TypeInv, Control, TypeOK, LocationTypes
<1>5. InitRun'
  <2>1. /\ UNCHANGED <<fpc, create_init_corpus, leftover, tstat, initfile, files, pktq, ackq>>
        /\ doom /\ ipc # "dead" /\ ipc' = "dead"
    BY DEF Die, fuzzer, target, store, queue
  <2>2. fpc \in {"crash", "timeout", "join"}
    BY <2>1 DEF TypeInv, Control, Ends, Verdict
  <2>3. tstat # "alive"
    BY <2>2 DEF Flight
  <2>4. create_init_corpus /\ initfile = "partial" => "attackerErr" \in files
    BY <2>1, <2>2, <2>3 DEF Ends, InitRun, Verdict, Open, Quiet
  <2> QED
    BY <2>1, <2>2, <2>4 DEF Ends, InitRun, Open, Quiet
<1> QED
  BY <1>1, <1>2, <1>3, <1>4, <1>5 DEF Ends

LEMMA SendEnds ==
  ASSUME TypeInv, Flight, Lockstep, Ends, Send PROVE Ends'
<1>1. Unmarked'
  <2> DEFINE m == [exec |-> execs, n |-> tn + 1, mut |-> 0]
  <2>1. pktq' = Append(pktq, m) /\ UNCHANGED held
    BY DEF Send, interceptor
  <2>2. m \in Msg /\ m.mut # 2
    BY DEF TypeInv, TypeOK, CounterTypes, Msg
  <2> HIDE DEF m
  <2>3. ~Marked(Append(pktq, m))
    BY <2>2, Sizes, MarkedAppend DEF Ends, Unmarked
  <2> QED
    BY <2>1, <2>3 DEF Ends, Unmarked
<1>2. Parting'
  BY MarkedEmpty DEF Send, fuzzer, interceptor, target, store, queue, Ends, Parting,
     Verdict, Flight, TypeInv, Control
<1>3. Verdict'
  BY DEF Send, fuzzer, interceptor, target, store, queue, Ends, Verdict, Flight,
     TypeInv, Control
<1>4. Replay'
  <2> SUFFICES ASSUME leftover = 0 PROVE Replay'
    BY DEF Send, fuzzer, Replay
  <2> DEFINE m == [exec |-> execs, n |-> tn + 1, mut |-> 0]
  <2>1. /\ UNCHANGED <<fpc, create_init_corpus, corpus, leftover, tstat, ackq, pkt_rec, i, ipc>>
        /\ tstat = "alive" /\ tpc = "run" /\ tn' = tn + 1 /\ pktq' = Append(pktq, m)
    BY DEF Send, fuzzer, interceptor, store
  <2>2. /\ Open /\ pktq = << >> /\ Len(pktq) = 0 /\ ~Marked(ackq)
        /\ ipc \notin {"edit", "spin", "ack", "passack", "lastack", "saveopen", "savewrite", "exit"}
    BY <2>1, TargetRuns
  <2>3. Len(pktq') = 1
    <3>1. m \in Msg
      BY DEF TypeInv, TypeOK, CounterTypes, Msg
    <3> HIDE DEF m
    <3> QED
      BY <2>1, <2>2, <3>1, Sizes, AppendMsg
  <2>4. ~Marked(ackq)'
    BY <2>1, <2>2
  <2>5. create_init_corpus /\ ipc = "lastrecv" => Len(pkt_rec) = tn
    BY <2>2, Sizes DEF Ends, Replay
  <2>6. ~create_init_corpus =>
          /\ ipc = "recv" => Len(pkt_rec) = i
          /\ ipc = "passrecv" => Len(pkt_rec) = Len(corpus) /\ tn = Len(corpus)
          /\ ipc = "lastrecv" => Len(pkt_rec) = Len(corpus) /\ tn = Len(corpus) + 1
    BY <2>2, Sizes DEF Ends, Replay
  <2> HIDE DEF m
  <2> QED
    BY <2>1, <2>2, <2>3, <2>4, <2>5, <2>6, Sizes DEF Replay
<1>5. InitRun'
  <2>1. /\ UNCHANGED <<fpc, create_init_corpus, leftover, tstat, initfile, files, ackq, ipc>>
        /\ tstat = "alive"
    BY DEF Send, fuzzer, interceptor, store
  <2>2. fpc \in {"clone", "wait"}
    BY <2>1 DEF Flight
  <2> QED
    BY <2>1, <2>2 DEF Ends, InitRun, Open, Quiet
<1> QED
  BY <1>1, <1>2, <1>3, <1>4, <1>5 DEF Ends

LEMMA RecvAckEnds ==
  ASSUME TypeInv, Flight, Lockstep, Ends, RecvAck PROVE Ends'
<1>1. Unmarked'
  BY MarkedEmpty DEF RecvAck, fuzzer, interceptor, target, store, queue, Ends, Unmarked
<1>2. Parting'
  <2>1. /\ UNCHANGED <<fpc, ipc>> /\ tstat = "alive" /\ ackq # << >> /\ ackq' = Tail(ackq)
        /\ tstat' = IF Head(ackq).mut = 2 THEN "hookexit" ELSE "alive"
    BY DEF RecvAck, fuzzer, interceptor
  <2>2. Marked(ackq) => Marked(Tail(ackq)) \/ Head(ackq).mut = 2
    BY <2>1, Sizes, MarkedHead
  <2> QED
    BY <2>1, <2>2 DEF Ends, Parting
<1>3. Verdict'
  BY DEF RecvAck, fuzzer, interceptor, target, store, queue, Ends, Verdict, Flight,
     TypeInv, Control
<1>4. Replay'
  <2> SUFFICES ASSUME leftover = 0 PROVE Replay'
    BY DEF RecvAck, fuzzer, Replay
  <2>1. /\ UNCHANGED <<fpc, create_init_corpus, corpus, leftover, tn, pktq, pkt_rec, i, ipc>>
        /\ tstat = "alive" /\ ackq # << >> /\ ackq' = Tail(ackq)
        /\ tstat' = IF Head(ackq).mut = 2 THEN "hookexit" ELSE "alive"
    BY DEF RecvAck, fuzzer, interceptor, store
  <2>2. (Head(ackq).mut = 2 => Marked(ackq)) /\ (Marked(Tail(ackq)) => Marked(ackq))
    BY <2>1, Sizes, MarkedHead
  <2>3. Open
    BY <2>1 DEF Flight, Open, Quiet
  <2>4. Marked(ackq)' \/ tstat' = "hookexit" => Marked(ackq)
    BY <2>1, <2>2
  <2>5. tstat' \in {"alive", "hookexit"}
    BY <2>1
  <2> QED
    BY <2>1, <2>3, <2>4, <2>5 DEF Ends, Replay, Complete
<1>5. InitRun'
  BY DEF RecvAck, fuzzer, interceptor, target, store, queue, Ends, InitRun, Open,
     Quiet, TypeInv, Control, TypeOK, LocationTypes
<1> QED
  BY <1>1, <1>2, <1>3, <1>4, <1>5 DEF Ends

LEMMA TargetEndsEnds ==
  ASSUME TypeInv, Flight, Lockstep, Ends, TargetEnds PROVE Ends'
<1>1. Unmarked'
  BY MarkedEmpty DEF TargetEnds, fuzzer, interceptor, target, store, queue, Ends,
     Unmarked
<1>2. Parting'
  BY MarkedEmpty DEF TargetEnds, fuzzer, interceptor, target, store, queue, Ends,
     Parting, Verdict, Flight, TypeInv, Control
<1>3. Verdict'
  BY DEF TargetEnds, fuzzer, interceptor, target, store, queue, Ends, Verdict,
     Flight, TypeInv, Control
<1>4. Replay'
  <2> SUFFICES ASSUME leftover = 0 PROVE Replay'
    BY DEF TargetEnds, fuzzer, Replay
  <2>1. /\ UNCHANGED <<fpc, create_init_corpus, corpus, leftover, tn, pktq, ackq, pkt_rec, i, ipc>>
        /\ tstat = "alive" /\ tpc = "run" /\ tstat' # "hookexit"
    BY DEF TargetEnds, fuzzer, interceptor, store, queue
  <2>2. /\ Open /\ Len(pktq) = 0 /\ ~Marked(ackq)
        /\ ipc \notin {"edit", "spin", "ack", "passack", "lastack", "saveopen", "savewrite", "exit"}
        /\ ipc = "dead" => fpc = "clone"
    BY <2>1, TargetRuns
  <2>3. ~create_init_corpus => Len(pkt_rec) = IF tn < Len(corpus) THEN tn ELSE Len(corpus)
    <3> SUFFICES ASSUME ~create_init_corpus
                 PROVE  Len(pkt_rec) = IF tn < Len(corpus) THEN tn ELSE Len(corpus)
      OBVIOUS
    <3>1. CASE ipc = "recv"
      BY <2>2, <3>1, Sizes DEF Ends, Replay, Lockstep, Progress, TypeInv, Control
    <3>2. CASE ipc = "passrecv"
      BY <2>2, <3>2, Sizes DEF Ends, Replay
    <3>3. CASE ipc = "lastrecv"
      BY <2>2, <3>3, Sizes DEF Ends, Replay
    <3>4. CASE ipc = "dead"
      <4>1. pkt_rec = << >> /\ tn = 0
        BY <2>2, <3>4 DEF Lockstep, Progress, TypeInv, Control
      <4> QED
        BY <4>1, Sizes
    <3> QED
      BY <2>2, <3>1, <3>2, <3>3, <3>4 DEF TypeInv, TypeOK, LocationTypes
  <2>4. ~Marked(ackq)'
    BY <2>1, <2>2
  <2> QED
    BY <2>1, <2>2, <2>3, <2>4 DEF Ends, Replay
<1>5. InitRun'
  <2>1. /\ UNCHANGED <<fpc, create_init_corpus, leftover, initfile, files, pktq, ackq, ipc>>
        /\ tstat = "alive" /\ tpc = "run"
    BY DEF TargetEnds, fuzzer, interceptor, store, queue
  <2>2. Open
    BY <2>1 DEF Flight, Open, Quiet
  <2>3. create_init_corpus => ipc \notin {"saveopen", "savewrite", "exit"}
    BY <2>1, <2>2, TargetRuns DEF Ends, InitRun
  <2> QED
    BY <2>1, <2>3 DEF Ends, InitRun, Open, Quiet
<1> QED
  BY <1>1, <1>2, <1>3, <1>4, <1>5 DEF Ends

LEMMA AttackerFailsEnds ==
  ASSUME TypeInv, Flight, Lockstep, Ends, AttackerFails PROVE Ends'
<1>1. Unmarked'
  BY MarkedEmpty DEF AttackerFails, fuzzer, interceptor, target, store, queue, Ends,
     Unmarked
<1>2. Parting'
  BY MarkedEmpty DEF AttackerFails, fuzzer, interceptor, target, store, queue, Ends,
     Parting, Verdict, Flight, TypeInv, Control
<1>3. Verdict'
  BY DEF AttackerFails, fuzzer, interceptor, target, store, queue, Ends, Verdict,
     Flight, TypeInv, Control
<1>4. Replay'
  BY MarkedEmpty DEF AttackerFails, fuzzer, interceptor, target, store, queue, Ends,
     Replay, Complete, Open, Quiet, TypeInv, Control, TypeOK, LocationTypes
<1>5. InitRun'
  BY DEF AttackerFails, fuzzer, interceptor, target, store, queue, Ends, InitRun,
     Open, Quiet, TypeInv, Control, TypeOK, LocationTypes
<1> QED
  BY <1>1, <1>2, <1>3, <1>4, <1>5 DEF Ends

LEMMA TerminatedEnds ==
  ASSUME TypeInv, Flight, Lockstep, Ends, Terminated PROVE Ends'
<1>1. Unmarked'
  BY MarkedEmpty DEF Terminated, vars, fuzzer, interceptor, target, store, queue,
     Ends, Unmarked
<1>2. Parting'
  BY MarkedEmpty DEF Terminated, vars, fuzzer, interceptor, target, store, queue,
     Ends, Parting, Verdict, Flight, TypeInv, Control
<1>3. Verdict'
  BY DEF Terminated, vars, fuzzer, interceptor, target, store, queue, Ends, Verdict,
     Flight, TypeInv, Control
<1>4. Replay'
  BY MarkedEmpty DEF Terminated, vars, fuzzer, interceptor, target, store, queue,
     Ends, Replay, Complete, Open, Quiet, TypeInv, Control, TypeOK, LocationTypes
<1>5. InitRun'
  BY DEF Terminated, vars, fuzzer, interceptor, target, store, queue, Ends, InitRun,
     Open, Quiet, TypeInv, Control, TypeOK, LocationTypes
<1> QED
  BY <1>1, <1>2, <1>3, <1>4, <1>5 DEF Ends

LEMMA StutterEnds == ASSUME Ends, UNCHANGED vars PROVE Ends'
<1>1. Unmarked' /\ Parting'
  BY DEF vars, fuzzer, interceptor, target, queue, Ends, Unmarked, Parting
<1>2. Verdict' /\ InitRun'
  BY DEF vars, fuzzer, interceptor, target, store, queue, Ends, Verdict, InitRun,
     Open, Quiet
<1>3. Replay'
  BY DEF vars, fuzzer, interceptor, target, store, queue, Ends, Replay, Complete,
     Open, Quiet
<1> QED
  BY <1>1, <1>2, <1>3 DEF Ends

LEMMA NextEnds == TypeInv /\ Flight /\ Lockstep /\ Ends /\ [Next]_vars => Ends'
<1> SUFFICES ASSUME TypeInv, Flight, Lockstep, Ends, [Next]_vars PROVE Ends'
  OBVIOUS
<1>1. CASE Fuzzer
  BY <1>1, CollectInitCorpusEnds, LoadCorpusEnds, StartFuzzOneEnds, TimerExitEnds,
     ForkEnds, CloneEnds, ReapEnds, ReportEnds, KillBsimEnds, KillAttackerEnds,
     AttackErrEnds, CrashEnds, TimeoutEnds, JoinEnds, KeepEnds DEF Fuzzer
<1>2. CASE Interceptor
  BY <1>2, RecvLoopEnds, RecvPassEnds, RecvLastEnds, EditFuzzEnds, EditHoleEnds,
     EditInitEnds, AckFuzzEnds, AckInitEnds, AckPassEnds, AckLastEnds, SaveInitEnds,
     ExitEnds, AlarmEnds, DieEnds DEF Interceptor
<1>3. CASE Target
  BY <1>3, SendEnds, RecvAckEnds, TargetEndsEnds DEF Target
<1> QED
  BY <1>1, <1>2, <1>3, AttackerFailsEnds, TerminatedEnds, StutterEnds DEF Next

LEMMA SpecEnds == Spec => [](TypeInv /\ Flight /\ Lockstep /\ Ends)
BY SpecFlight, InitLockstep, NextLockstep, InitEnds, NextEnds, PTL DEF Spec

\* The crash corpus is complete when it is saved: every packet the target got
\* before it crashed is in the record, up to the length of the corpus.
THEOREM CrashCorpusIsComplete == Spec => []CrashCorpusComplete
<1>1. TypeInv /\ Flight /\ Lockstep /\ Ends => CrashCorpusComplete
  <2> SUFFICES ASSUME TypeInv, Flight, Lockstep, Ends, fpc = "report", fault = "crash",
                      leftover = 0, ~create_init_corpus
               PROVE  /\ held = << >>
                      /\ Len(pkt_rec) = IF tn < Len(corpus) THEN tn ELSE Len(corpus)
    BY DEF CrashCorpusComplete
  <2>1. tstat \in {"segv", "exit1"} /\ Open
    BY DEF Ends, Verdict, FaultOf, TypeInv, TypeOK, LocationTypes, Open, Quiet
  <2>2. held = << >>
    BY <2>1, OneInFlight DEF Flight
  <2> QED
    BY <2>1, <2>2 DEF Ends, Replay
<1> QED
  BY SpecEnds, <1>1, PTL

\* A target that leaves through the hook has replayed the whole corpus.
THEOREM CleanExitIsComplete == Spec => []CleanExitCompletes
<1>1. TypeInv /\ Ends => CleanExitCompletes
  <2> SUFFICES ASSUME TypeInv, Ends, tstat = "hookexit", leftover = 0, ~Quiet, fpc # "fork"
               PROVE  CleanExitCompletes
    BY DEF CleanExitCompletes
  <2>1. Complete
    BY DEF Ends, Replay, Open
  <2> QED
    BY <2>1, Sizes DEF Complete, CleanExitCompletes
<1> QED
  BY SpecEnds, <1>1, PTL

\* No live target waits for an answer that nobody is left to give.
THEOREM NoTargetStranded == Spec => []TargetNeverStranded
<1>1. Ends => TargetNeverStranded
  <2>1. ackq = << >> => ~Marked(ackq)
    BY MarkedEmpty
  <2> QED
    BY <2>1 DEF Ends, Parting, TargetNeverStranded
<1> QED
  BY SpecEnds, <1>1, PTL

\* In an execution that began with an empty queue a live target has the
\* interceptor still there, whose alarm may kill it, or the answer that ends it
\* is the only message before it: the part of FuzzOneReturns about states.
TargetWillEnd ==
  fpc = "wait" /\ leftover = 0 /\ tstat = "alive" =>
    ipc # "dead" \/ (tpc = "await" /\ Len(ackq) = 1 /\ ackq[1].mut = 2)

\* The interceptor takes its alarm with it only when it has given the answer at
\* which the hook leaves, so wait_for_target has something to wait for.
THEOREM TargetsCanEnd == Spec => []TargetWillEnd
<1>1. TypeInv /\ Flight /\ Ends => TargetWillEnd
  <2> SUFFICES ASSUME TypeInv, Flight, Ends, fpc = "wait", leftover = 0,
                      tstat = "alive", ipc = "dead"
               PROVE  tpc = "await" /\ Len(ackq) = 1 /\ ackq[1].mut = 2
    BY DEF TargetWillEnd
  <2>1. PICK k \in 1..Len(ackq) : ackq[k].mut = 2
    BY DEF Ends, Parting, Marked
  <2>2. Len(pktq) \in Nat /\ Len(ackq) \in Nat /\ Len(held) \in Nat
    BY DEF TypeInv, TypeOK, QueueTypes
  <2>3. Len(ackq) \in Nat \ {0}
    BY <2>1, <2>2
  <2>4. Len(ackq) + Len(pktq) + Len(held) <= Awaited /\ Awaited \in {0, 1}
    BY <2>2, OneInFlight DEF Open, Quiet, InFlight, Awaited
  <2>5. Len(ackq) = 1
    BY <2>2, <2>3, <2>4, OnlyOne
  <2>6. k = 1
    BY <2>1, <2>5
  <2>7. tpc = "await"
    BY <2>1, <2>2, <2>4, <2>5 DEF Awaited
  <2> QED
    BY <2>1, <2>5, <2>6, <2>7
<1> QED
  BY SpecEnds, <1>1, PTL

\* The file of the init run is complete unless its attacker failed.
THEOREM InitFileIsComplete == Spec => []InitFileComplete
<1>1. TypeInv /\ Ends /\ (fpc = "load" => create_init_corpus) => InitFileComplete
  BY DEF TypeInv, Control, Ends, InitRun, InitFileComplete
<1>2. TypeInv /\ Ends => (fpc = "load" => create_init_corpus)
  BY DEF Ends, InitRun
<1> QED
  BY SpecEnds, <1>1, <1>2, PTL

-----------------------------------------------------------------------------
(* FuzzOne implements ExecContract *)

\* What is saved, and who is left, at each place of fuzz_one.
Books ==
  /\ fpc \in {"clone", "wait", "report"} => files = {}
  /\ fpc \in {"kill", "attackerr"} => files \subseteq {"crash", "targetErr"}
  /\ fpc \in {"crash", "timeout"} => files \subseteq {"crash", "targetErr", "attackerErr"}
  /\ fpc = "report" /\ tstat = "exitN" => fault = "error"
  /\ fpc \in {"kill", "attackerr", "crash", "timeout", "join"} /\ fault = "crash"
       => "crash" \in files
  /\ fpc = "keep" => fault # "crash" /\ ipc = "dead"
  /\ fpc \notin {"clone", "wait", "report", "kill"} => ~bsim /\ astat # "alive"

LEMMA InitBooks == Init => Books
BY DEF Init, Books

LEMMA CollectInitCorpusBooks == TypeInv /\ Flight /\ Books /\ CollectInitCorpus => Books'
BY DEF CollectInitCorpus, fuzzer, interceptor, target, store, queue, Books, Flight, TypeInv, Control, TypeOK, LocationTypes, FlagTypes

LEMMA LoadCorpusBooks == TypeInv /\ Flight /\ Books /\ LoadCorpus => Books'
BY DEF LoadCorpus, SeedOf, fuzzer, interceptor, target, store, queue, Books, Flight, TypeInv, Control, TypeOK, LocationTypes, FlagTypes

LEMMA StartFuzzOneBooks == TypeInv /\ Flight /\ Books /\ StartFuzzOne => Books'
BY DEF StartFuzzOne, InitPktSeqBuf, fuzzer, interceptor, target, store, queue, Books, Flight, TypeInv, Control, TypeOK, LocationTypes, FlagTypes

LEMMA TimerExitBooks == TypeInv /\ Flight /\ Books /\ TimerExit => Books'
BY DEF TimerExit, fuzzer, interceptor, target, store, queue, Books, Flight, TypeInv, Control, TypeOK, LocationTypes, FlagTypes

LEMMA ForkBooks == TypeInv /\ Flight /\ Books /\ Fork => Books'
BY DEF Fork, fuzzer, interceptor, target, store, queue, Books, Flight, TypeInv, Control, TypeOK, LocationTypes, FlagTypes

LEMMA CloneBooks == TypeInv /\ Flight /\ Books /\ Clone => Books'
BY DEF Clone, fuzzer, interceptor, target, store, queue, Books, Flight, TypeInv, Control, TypeOK, LocationTypes, FlagTypes

LEMMA ReapBooks == TypeInv /\ Flight /\ Books /\ Reap => Books'
BY DEF Reap, FaultOf, fuzzer, interceptor, target, store, queue, Books, Flight, TypeInv, Control, TypeOK, LocationTypes, FlagTypes

LEMMA ReportBooks == TypeInv /\ Flight /\ Books /\ Report => Books'
BY DEF Report, fuzzer, interceptor, target, store, queue, Books, Flight, TypeInv, Control, TypeOK, LocationTypes, FlagTypes

LEMMA KillBsimBooks == TypeInv /\ Flight /\ Books /\ KillBsim => Books'
BY DEF KillBsim, fuzzer, interceptor, target, store, queue, Books, Flight, TypeInv, Control, TypeOK, LocationTypes, FlagTypes

LEMMA KillAttackerBooks == TypeInv /\ Flight /\ Books /\ KillAttacker => Books'
BY DEF KillAttacker, fuzzer, interceptor, target, store, queue, Books, Flight, TypeInv, Control, TypeOK, LocationTypes, FlagTypes

LEMMA AttackErrBooks == TypeInv /\ Flight /\ Books /\ AttackErr => Books'
<1> SUFFICES ASSUME TypeInv, Books, AttackErr PROVE Books'
  OBVIOUS
<1>1. /\ fpc = "attackerr" /\ fpc' = "crash" /\ UNCHANGED <<tstat, fault, ipc, bsim, astat>>
      /\ files' = files \/ files' = files \cup {"attackerErr"}
  BY DEF AttackErr, ResetQueue, AttackError, interceptor, target, store, queue
<1> QED
  BY <1>1 DEF Books

LEMMA CrashBooks == TypeInv /\ Flight /\ Books /\ Crash => Books'
BY DEF Crash, ResetQueue, fuzzer, interceptor, target, store, queue, Books, Flight, TypeInv, Control, TypeOK, LocationTypes, FlagTypes

LEMMA TimeoutBooks == TypeInv /\ Flight /\ Books /\ Timeout => Books'
BY DEF Timeout, fuzzer, interceptor, target, store, queue, Books, Flight, TypeInv, Control, TypeOK, LocationTypes, FlagTypes

LEMMA JoinBooks == TypeInv /\ Flight /\ Books /\ Join => Books'
BY DEF Join, InterceptorReaped, fuzzer, interceptor, target, store, queue, Books, Flight, TypeInv, Control, TypeOK, LocationTypes, FlagTypes

LEMMA KeepBooks == TypeInv /\ Flight /\ Books /\ Keep => Books'
BY DEF Keep, SeedOf, fuzzer, interceptor, target, store, queue, Books, Flight, TypeInv, Control, TypeOK, LocationTypes, FlagTypes

LEMMA RecvLoopBooks == TypeInv /\ Flight /\ Books /\ RecvLoop => Books'
BY DEF RecvLoop, Receive, fuzzer, interceptor, target, store, queue, Books, Flight, TypeInv, Control, TypeOK, LocationTypes, FlagTypes

LEMMA RecvPassBooks == TypeInv /\ Flight /\ Books /\ RecvPass => Books'
BY DEF RecvPass, Receive, fuzzer, interceptor, target, store, queue, Books, Flight, TypeInv, Control, TypeOK, LocationTypes, FlagTypes

LEMMA RecvLastBooks == TypeInv /\ Flight /\ Books /\ RecvLast => Books'
BY DEF RecvLast, Receive, fuzzer, interceptor, target, store, queue, Books, Flight, TypeInv, Control, TypeOK, LocationTypes, FlagTypes

LEMMA EditFuzzBooks == TypeInv /\ Flight /\ Books /\ EditFuzz => Books'
BY DEF EditFuzz, fuzzer, interceptor, target, store, queue, Books, Flight, TypeInv, Control, TypeOK, LocationTypes, FlagTypes

LEMMA EditHoleBooks == TypeInv /\ Flight /\ Books /\ EditHole => Books'
BY DEF EditHole, fuzzer, interceptor, target, store, queue, Books, Flight, TypeInv, Control, TypeOK, LocationTypes, FlagTypes

LEMMA EditInitBooks == TypeInv /\ Flight /\ Books /\ EditInit => Books'
BY DEF EditInit, fuzzer, interceptor, target, store, queue, Books, Flight, TypeInv, Control, TypeOK, LocationTypes, FlagTypes

LEMMA AckFuzzBooks == TypeInv /\ Flight /\ Books /\ AckFuzz => Books'
BY DEF AckFuzz, Answer, Room, CorpusDone, fuzzer, interceptor, target, store, queue, Books, Flight, TypeInv, Control, TypeOK, LocationTypes, FlagTypes

LEMMA AckInitBooks == TypeInv /\ Flight /\ Books /\ AckInit => Books'
BY DEF AckInit, Answer, Room, RecordFull, fuzzer, interceptor, target, store, queue, Books, Flight, TypeInv, Control, TypeOK, LocationTypes, FlagTypes

LEMMA AckPassBooks == TypeInv /\ Flight /\ Books /\ AckPass => Books'
BY DEF AckPass, Answer, Room, fuzzer, interceptor, target, store, queue, Books, Flight, TypeInv, Control, TypeOK, LocationTypes, FlagTypes

LEMMA AckLastBooks == TypeInv /\ Flight /\ Books /\ AckLast => Books'
BY DEF AckLast, Answer, Room, fuzzer, interceptor, target, store, queue, Books, Flight, TypeInv, Control, TypeOK, LocationTypes, FlagTypes

LEMMA SaveInitBooks == TypeInv /\ Flight /\ Books /\ SaveInit => Books'
BY DEF SaveInit, fuzzer, interceptor, target, store, queue, Books, Flight, TypeInv, Control, TypeOK, LocationTypes, FlagTypes

LEMMA ExitBooks == TypeInv /\ Flight /\ Books /\ Exit => Books'
BY DEF Exit, fuzzer, interceptor, target, store, queue, Books, Flight, TypeInv, Control, TypeOK, LocationTypes, FlagTypes

LEMMA AlarmBooks == TypeInv /\ Flight /\ Books /\ Alarm => Books'
BY DEF Alarm, KillTarget, fuzzer, interceptor, target, store, queue, Books, Flight, TypeInv, Control, TypeOK, LocationTypes, FlagTypes

LEMMA DieBooks == TypeInv /\ Flight /\ Books /\ Die => Books'
BY DEF Die, fuzzer, interceptor, target, store, queue, Books, Flight, TypeInv, Control, TypeOK, LocationTypes, FlagTypes

LEMMA SendBooks == TypeInv /\ Flight /\ Books /\ Send => Books'
BY DEF Send, Room, fuzzer, interceptor, target, store, queue, Books, Flight, TypeInv, Control, TypeOK, LocationTypes, FlagTypes

LEMMA RecvAckBooks == TypeInv /\ Flight /\ Books /\ RecvAck => Books'
BY DEF RecvAck, fuzzer, interceptor, target, store, queue, Books, Flight, TypeInv, Control, TypeOK, LocationTypes, FlagTypes

LEMMA TargetEndsBooks == TypeInv /\ Flight /\ Books /\ TargetEnds => Books'
BY DEF TargetEnds, fuzzer, interceptor, target, store, queue, Books, Flight, TypeInv, Control, TypeOK, LocationTypes, FlagTypes

LEMMA AttackerFailsBooks == TypeInv /\ Flight /\ Books /\ AttackerFails => Books'
BY DEF AttackerFails, fuzzer, interceptor, target, store, queue, Books, Flight, TypeInv, Control, TypeOK, LocationTypes, FlagTypes

LEMMA TerminatedBooks == TypeInv /\ Flight /\ Books /\ Terminated => Books'
BY DEF Terminated, vars, fuzzer, interceptor, target, store, queue, Books, Flight, TypeInv, Control, TypeOK, LocationTypes, FlagTypes

LEMMA NextBooks == TypeInv /\ Flight /\ Books /\ [Next]_vars => Books'
<1> SUFFICES ASSUME TypeInv, Flight, Books, [Next]_vars PROVE Books'
  OBVIOUS
<1>1. CASE Fuzzer
  BY <1>1, CollectInitCorpusBooks, LoadCorpusBooks, StartFuzzOneBooks, TimerExitBooks, ForkBooks, CloneBooks, ReapBooks, ReportBooks, KillBsimBooks, KillAttackerBooks, AttackErrBooks, CrashBooks, TimeoutBooks, JoinBooks, KeepBooks DEF Fuzzer
<1>2. CASE Interceptor
  BY <1>2, RecvLoopBooks, RecvPassBooks, RecvLastBooks, EditFuzzBooks, EditHoleBooks, EditInitBooks, AckFuzzBooks, AckInitBooks, AckPassBooks, AckLastBooks, SaveInitBooks, ExitBooks, AlarmBooks, DieBooks DEF Interceptor
<1>3. CASE Target
  BY <1>3, SendBooks, RecvAckBooks, TargetEndsBooks DEF Target
<1>4. CASE UNCHANGED vars
  BY <1>4 DEF Books, vars, fuzzer, interceptor, target, store, queue
<1> QED
  BY <1>1, <1>2, <1>3, <1>4, AttackerFailsBooks, TerminatedBooks DEF Next

LEMMA SpecBooks == Spec => [](TypeInv /\ Flight /\ Books)
BY SpecFlight, InitBooks, NextBooks, PTL DEF Spec

(* Every step of FuzzOne is a step of the contract or leaves it unchanged. *)

LEMMA InitContract == Init => Contract!AInit
BY DEF Init, Contract!AInit, phaseBar, aliveBar, Quiet

LEMMA CollectInitCorpusContract == TypeInv /\ CollectInitCorpus => UNCHANGED Contract!avars
<1> SUFFICES ASSUME TypeInv, CollectInitCorpus PROVE UNCHANGED Contract!avars
  OBVIOUS
<1>1. aliveBar' = aliveBar
  BY DEF CollectInitCorpus, fuzzer, interceptor, target, store, queue, aliveBar
<1>2. UNCHANGED <<fault, files>> /\ phaseBar' = phaseBar
  BY DEF CollectInitCorpus, fuzzer, interceptor, target, store, queue, phaseBar, Quiet
<1> QED
  BY <1>1, <1>2 DEF Contract!avars

LEMMA LoadCorpusContract == TypeInv /\ LoadCorpus => UNCHANGED Contract!avars
<1> SUFFICES ASSUME TypeInv, LoadCorpus PROVE UNCHANGED Contract!avars
  OBVIOUS
<1>1. aliveBar' = aliveBar
  BY DEF LoadCorpus, SeedOf, fuzzer, interceptor, target, store, queue, aliveBar
<1>2. UNCHANGED <<fault, files>> /\ phaseBar' = phaseBar
  BY DEF LoadCorpus, SeedOf, fuzzer, interceptor, target, store, queue, phaseBar, Quiet
<1> QED
  BY <1>1, <1>2 DEF Contract!avars

LEMMA StartFuzzOneContract == TypeInv /\ StartFuzzOne => UNCHANGED Contract!avars
<1> SUFFICES ASSUME TypeInv, StartFuzzOne PROVE UNCHANGED Contract!avars
  OBVIOUS
<1>1. aliveBar' = aliveBar
  BY DEF StartFuzzOne, InitPktSeqBuf, fuzzer, interceptor, target, store, queue, aliveBar
<1>2. UNCHANGED <<fault, files>> /\ phaseBar' = phaseBar
  BY DEF StartFuzzOne, InitPktSeqBuf, fuzzer, interceptor, target, store, queue, phaseBar, Quiet
<1> QED
  BY <1>1, <1>2 DEF Contract!avars

LEMMA TimerExitContract == TypeInv /\ TimerExit => UNCHANGED Contract!avars
<1> SUFFICES ASSUME TypeInv, TimerExit PROVE UNCHANGED Contract!avars
  OBVIOUS
<1>1. aliveBar' = aliveBar
  BY DEF TimerExit, fuzzer, interceptor, target, store, queue, aliveBar
<1>2. UNCHANGED <<fault, files>> /\ phaseBar' = phaseBar
  BY DEF TimerExit, fuzzer, interceptor, target, store, queue, phaseBar, Quiet
<1> QED
  BY <1>1, <1>2 DEF Contract!avars

LEMMA ForkContract == TypeInv /\ Flight /\ Books /\ Fork => Contract!Begin
<1> SUFFICES ASSUME TypeInv, Flight, Books, Fork PROVE Contract!Begin
  OBVIOUS
<1>1. aliveBar = {} /\ aliveBar' = {"bsim", "target", "attacker"}
  BY DEF Fork, fuzzer, interceptor, target, store, queue, aliveBar, Books, Flight, TypeInv, Control, TypeOK, LocationTypes, FlagTypes
<1>2. phaseBar = "quiet" /\ phaseBar' = "launch" /\ fault' = "none" /\ files' = {}
  BY DEF Fork, fuzzer, interceptor, target, store, queue, phaseBar, Quiet
<1> QED
  BY <1>1, <1>2 DEF Contract!Begin, Contract!Processes

LEMMA CloneContract == TypeInv /\ Flight /\ Books /\ Clone => Contract!Launch
<1> SUFFICES ASSUME TypeInv, Flight, Books, Clone PROVE Contract!Launch
  OBVIOUS
<1>1. aliveBar' = aliveBar \cup {"interceptor"}
  BY DEF Clone, fuzzer, interceptor, target, store, queue, aliveBar
<1>2. phaseBar = "launch" /\ phaseBar' = "running" /\ UNCHANGED <<fault, files>>
  BY DEF Clone, fuzzer, interceptor, target, store, queue, phaseBar, Quiet
<1> QED
  BY <1>1, <1>2 DEF Contract!Launch

LEMMA ReapContract == TypeInv /\ Flight /\ Books /\ Reap => Contract!Judge
<1> SUFFICES ASSUME TypeInv, Flight, Books, Reap PROVE Contract!Judge
  OBVIOUS
<1>1. aliveBar' = aliveBar /\ "target" \notin aliveBar
  BY DEF Reap, FaultOf, fuzzer, interceptor, target, store, queue, aliveBar
<1>2. /\ phaseBar = "running" /\ phaseBar' = "judged" /\ UNCHANGED files
      /\ fault' \in {"none", "crash", "error", "timeout"}
  BY DEF Reap, FaultOf, fuzzer, interceptor, target, store, queue, phaseBar, Quiet
<1> QED
  BY <1>1, <1>2 DEF Contract!Judge

LEMMA ReportContract == TypeInv /\ Flight /\ Books /\ Report => Contract!Save \/ UNCHANGED Contract!avars
<1> SUFFICES ASSUME TypeInv, Flight, Books, Report PROVE Contract!Save \/ UNCHANGED Contract!avars
  OBVIOUS
<1>1. /\ phaseBar = "judged" /\ phaseBar' = "judged" /\ UNCHANGED fault
      /\ aliveBar' = aliveBar
  BY DEF Report, fuzzer, interceptor, target, store, queue, phaseBar, aliveBar, Quiet
<1>2. \/ files' = files
      \/ fault = "crash" /\ files' = files \cup {"crash"}
      \/ fault = "error" /\ files' = files \cup {"targetErr"}
  BY DEF Report, Books
<1>3. files = {}
  BY DEF Report, Books
<1> QED
  BY <1>1, <1>2, <1>3 DEF Contract!Save, Contract!Fits, Contract!avars

LEMMA KillBsimContract == TypeInv /\ Flight /\ Books /\ KillBsim => Contract!EndSome
<1> SUFFICES ASSUME TypeInv, Flight, Books, KillBsim PROVE Contract!EndSome
  OBVIOUS
<1>1. phaseBar' = phaseBar /\ phaseBar # "quiet" /\ UNCHANGED <<fault, files>>
  BY DEF KillBsim, fuzzer, interceptor, target, store, queue, phaseBar, Quiet, Books, Flight, TypeInv, Control, TypeOK, LocationTypes, FlagTypes
<1>2. /\ "bsim" \in aliveBar /\ "target" \notin aliveBar
      /\ aliveBar' = aliveBar \ {"bsim"}
  BY DEF KillBsim, fuzzer, interceptor, target, store, queue, aliveBar, Flight
<1> QED
  BY <1>1, <1>2 DEF Contract!EndSome, Contract!End

LEMMA KillAttackerContract == TypeInv /\ Flight /\ Books /\ KillAttacker => Contract!EndSome \/ UNCHANGED Contract!avars
<1> SUFFICES ASSUME TypeInv, Flight, Books, KillAttacker PROVE Contract!EndSome \/ UNCHANGED Contract!avars
  OBVIOUS
<1>1. phaseBar' = phaseBar /\ phaseBar # "quiet" /\ UNCHANGED <<fault, files>>
  BY DEF KillAttacker, fuzzer, interceptor, target, store, queue, phaseBar, Quiet, Books, Flight, TypeInv, Control, TypeOK, LocationTypes, FlagTypes
<1>2. CASE astat = "alive"
  <2>1. "attacker" \in aliveBar /\ aliveBar' = aliveBar \ {"attacker"}
    BY <1>2 DEF KillAttacker, fuzzer, interceptor, target, store, queue, aliveBar
  <2> QED
    BY <1>1, <2>1 DEF Contract!EndSome, Contract!End
<1>3. CASE astat # "alive"
  <2>1. aliveBar' = aliveBar
    BY <1>3 DEF KillAttacker, fuzzer, interceptor, target, store, queue, aliveBar
  <2> QED
    BY <1>1, <2>1 DEF Contract!avars
<1> QED
  BY <1>2, <1>3

LEMMA AttackErrContract == TypeInv /\ Flight /\ Books /\ AttackErr => Contract!Save \/ UNCHANGED Contract!avars
<1> SUFFICES ASSUME TypeInv, Flight, Books, AttackErr PROVE Contract!Save \/ UNCHANGED Contract!avars
  OBVIOUS
<1>1. /\ phaseBar = "judged" /\ phaseBar' = "judged" /\ UNCHANGED fault
      /\ aliveBar' = aliveBar /\ "attacker" \notin aliveBar
      /\ files' = files \/ files' = files \cup {"attackerErr"}
  BY DEF AttackErr, ResetQueue, AttackError, fuzzer, interceptor, target, store, queue, phaseBar, aliveBar, Quiet, Books
<1>2. "attackerErr" \notin files
  BY DEF AttackErr, Books
<1> QED
  BY <1>1, <1>2 DEF Contract!Save, Contract!Fits, Contract!avars

LEMMA CrashContract == TypeInv /\ Crash => UNCHANGED Contract!avars
<1> SUFFICES ASSUME TypeInv, Crash PROVE UNCHANGED Contract!avars
  OBVIOUS
<1>1. aliveBar' = aliveBar
  BY DEF Crash, ResetQueue, fuzzer, interceptor, target, store, queue, aliveBar
<1>2. UNCHANGED <<fault, files>> /\ phaseBar' = phaseBar
  BY DEF Crash, ResetQueue, fuzzer, interceptor, target, store, queue, phaseBar, Quiet
<1> QED
  BY <1>1, <1>2 DEF Contract!avars

LEMMA TimeoutContract == TypeInv /\ Flight /\ Books /\ Timeout => Contract!Save \/ UNCHANGED Contract!avars
<1> SUFFICES ASSUME TypeInv, Flight, Books, Timeout PROVE Contract!Save \/ UNCHANGED Contract!avars
  OBVIOUS
<1>1. /\ phaseBar = "judged" /\ phaseBar' = "judged" /\ UNCHANGED fault
      /\ aliveBar' = aliveBar
      /\ files' = files \/ (fault = "timeout" /\ files' = files \cup {"timeout"})
  BY DEF Timeout, fuzzer, interceptor, target, store, queue, phaseBar, aliveBar, Quiet
<1>2. "timeout" \notin files
  BY DEF Timeout, Books
<1> QED
  BY <1>1, <1>2 DEF Contract!Save, Contract!Fits, Contract!avars

LEMMA JoinContract == TypeInv /\ Flight /\ Books /\ Join => Contract!Finish \/ UNCHANGED Contract!avars
<1> SUFFICES ASSUME TypeInv, Flight, Books, Join PROVE Contract!Finish \/ UNCHANGED Contract!avars
  OBVIOUS
<1>1. phaseBar = "judged" /\ aliveBar = {} /\ aliveBar' = {} /\ UNCHANGED fault
  BY DEF Join, InterceptorReaped, fuzzer, interceptor, target, store, queue, phaseBar, aliveBar, Quiet, Books, Flight
<1>2. UNCHANGED files /\ (fault = "crash" => "crash" \in files)
  BY DEF Join, Books
<1>3. phaseBar' \in {"quiet", "judged"}
  BY DEF Join, InterceptorReaped, phaseBar, Quiet
<1> QED
  BY <1>1, <1>2, <1>3 DEF Contract!Finish, Contract!avars

LEMMA KeepContract == TypeInv /\ Flight /\ Books /\ Keep => Contract!Finish
<1> SUFFICES ASSUME TypeInv, Flight, Books, Keep PROVE Contract!Finish
  OBVIOUS
<1>1. phaseBar = "judged" /\ aliveBar = {} /\ aliveBar' = {} /\ UNCHANGED fault
  BY DEF Keep, SeedOf, fuzzer, interceptor, target, store, queue, phaseBar, aliveBar, Quiet, Books, Flight
<1>2. /\ fault # "crash" /\ phaseBar' = "quiet"
      /\ files' = files \/ files' = files \cup {"seed"}
  BY DEF Keep, Books, phaseBar, Quiet
<1> QED
  BY <1>1, <1>2 DEF Contract!Finish

LEMMA RecvLoopContract == TypeInv /\ RecvLoop => UNCHANGED Contract!avars
<1> SUFFICES ASSUME TypeInv, RecvLoop PROVE UNCHANGED Contract!avars
  OBVIOUS
<1>1. aliveBar' = aliveBar
  BY DEF RecvLoop, Receive, fuzzer, interceptor, target, store, queue, aliveBar
<1>2. UNCHANGED <<fault, files>> /\ phaseBar' = phaseBar
  BY DEF RecvLoop, Receive, fuzzer, interceptor, target, store, queue, phaseBar, Quiet
<1> QED
  BY <1>1, <1>2 DEF Contract!avars

LEMMA RecvPassContract == TypeInv /\ RecvPass => UNCHANGED Contract!avars
<1> SUFFICES ASSUME TypeInv, RecvPass PROVE UNCHANGED Contract!avars
  OBVIOUS
<1>1. aliveBar' = aliveBar
  BY DEF RecvPass, Receive, fuzzer, interceptor, target, store, queue, aliveBar
<1>2. UNCHANGED <<fault, files>> /\ phaseBar' = phaseBar
  BY DEF RecvPass, Receive, fuzzer, interceptor, target, store, queue, phaseBar, Quiet
<1> QED
  BY <1>1, <1>2 DEF Contract!avars

LEMMA RecvLastContract == TypeInv /\ RecvLast => UNCHANGED Contract!avars
<1> SUFFICES ASSUME TypeInv, RecvLast PROVE UNCHANGED Contract!avars
  OBVIOUS
<1>1. aliveBar' = aliveBar
  BY DEF RecvLast, Receive, fuzzer, interceptor, target, store, queue, aliveBar
<1>2. UNCHANGED <<fault, files>> /\ phaseBar' = phaseBar
  BY DEF RecvLast, Receive, fuzzer, interceptor, target, store, queue, phaseBar, Quiet
<1> QED
  BY <1>1, <1>2 DEF Contract!avars

LEMMA EditFuzzContract == TypeInv /\ EditFuzz => UNCHANGED Contract!avars
<1> SUFFICES ASSUME TypeInv, EditFuzz PROVE UNCHANGED Contract!avars
  OBVIOUS
<1>1. aliveBar' = aliveBar
  BY DEF EditFuzz, fuzzer, interceptor, target, store, queue, aliveBar
<1>2. UNCHANGED <<fault, files>> /\ phaseBar' = phaseBar
  BY DEF EditFuzz, fuzzer, interceptor, target, store, queue, phaseBar, Quiet
<1> QED
  BY <1>1, <1>2 DEF Contract!avars

LEMMA EditHoleContract == TypeInv /\ EditHole => UNCHANGED Contract!avars
<1> SUFFICES ASSUME TypeInv, EditHole PROVE UNCHANGED Contract!avars
  OBVIOUS
<1>1. aliveBar' = aliveBar
  BY DEF EditHole, fuzzer, interceptor, target, store, queue, aliveBar
<1>2. UNCHANGED <<fault, files>> /\ phaseBar' = phaseBar
  BY DEF EditHole, fuzzer, interceptor, target, store, queue, phaseBar, Quiet
<1> QED
  BY <1>1, <1>2 DEF Contract!avars

LEMMA EditInitContract == TypeInv /\ EditInit => UNCHANGED Contract!avars
<1> SUFFICES ASSUME TypeInv, EditInit PROVE UNCHANGED Contract!avars
  OBVIOUS
<1>1. aliveBar' = aliveBar
  BY DEF EditInit, fuzzer, interceptor, target, store, queue, aliveBar
<1>2. UNCHANGED <<fault, files>> /\ phaseBar' = phaseBar
  BY DEF EditInit, fuzzer, interceptor, target, store, queue, phaseBar, Quiet
<1> QED
  BY <1>1, <1>2 DEF Contract!avars

LEMMA AckFuzzContract == TypeInv /\ AckFuzz => UNCHANGED Contract!avars
<1> SUFFICES ASSUME TypeInv, AckFuzz PROVE UNCHANGED Contract!avars
  OBVIOUS
<1>1. aliveBar' = aliveBar
  BY DEF AckFuzz, Answer, Room, CorpusDone, fuzzer, interceptor, target, store, queue, aliveBar
<1>2. UNCHANGED <<fault, files>> /\ phaseBar' = phaseBar
  BY DEF AckFuzz, Answer, Room, CorpusDone, fuzzer, interceptor, target, store, queue, phaseBar, Quiet
<1> QED
  BY <1>1, <1>2 DEF Contract!avars

LEMMA AckInitContract == TypeInv /\ AckInit => UNCHANGED Contract!avars
<1> SUFFICES ASSUME TypeInv, AckInit PROVE UNCHANGED Contract!avars
  OBVIOUS
<1>1. aliveBar' = aliveBar
  BY DEF AckInit, Answer, Room, RecordFull, fuzzer, interceptor, target, store, queue, aliveBar
<1>2. UNCHANGED <<fault, files>> /\ phaseBar' = phaseBar
  BY DEF AckInit, Answer, Room, RecordFull, fuzzer, interceptor, target, store, queue, phaseBar, Quiet
<1> QED
  BY <1>1, <1>2 DEF Contract!avars

LEMMA AckPassContract == TypeInv /\ AckPass => UNCHANGED Contract!avars
<1> SUFFICES ASSUME TypeInv, AckPass PROVE UNCHANGED Contract!avars
  OBVIOUS
<1>1. aliveBar' = aliveBar
  BY DEF AckPass, Answer, Room, fuzzer, interceptor, target, store, queue, aliveBar
<1>2. UNCHANGED <<fault, files>> /\ phaseBar' = phaseBar
  BY DEF AckPass, Answer, Room, fuzzer, interceptor, target, store, queue, phaseBar, Quiet
<1> QED
  BY <1>1, <1>2 DEF Contract!avars

LEMMA AckLastContract == TypeInv /\ AckLast => UNCHANGED Contract!avars
<1> SUFFICES ASSUME TypeInv, AckLast PROVE UNCHANGED Contract!avars
  OBVIOUS
<1>1. aliveBar' = aliveBar
  BY DEF AckLast, Answer, Room, fuzzer, interceptor, target, store, queue, aliveBar
<1>2. UNCHANGED <<fault, files>> /\ phaseBar' = phaseBar
  BY DEF AckLast, Answer, Room, fuzzer, interceptor, target, store, queue, phaseBar, Quiet
<1> QED
  BY <1>1, <1>2 DEF Contract!avars

LEMMA SaveInitContract == TypeInv /\ SaveInit => UNCHANGED Contract!avars
<1> SUFFICES ASSUME TypeInv, SaveInit PROVE UNCHANGED Contract!avars
  OBVIOUS
<1>1. aliveBar' = aliveBar
  BY DEF SaveInit, fuzzer, interceptor, target, store, queue, aliveBar
<1>2. UNCHANGED <<fault, files>> /\ phaseBar' = phaseBar
  BY DEF SaveInit, fuzzer, interceptor, target, store, queue, phaseBar, Quiet
<1> QED
  BY <1>1, <1>2 DEF Contract!avars

LEMMA ExitContract == TypeInv /\ Flight /\ Books /\ Exit => Contract!EndSome
<1> SUFFICES ASSUME TypeInv, Flight, Books, Exit PROVE Contract!EndSome
  OBVIOUS
<1>1. phaseBar' = phaseBar /\ phaseBar # "quiet" /\ UNCHANGED <<fault, files>>
  BY DEF Exit, fuzzer, interceptor, target, store, queue, phaseBar, Quiet, Books, Flight, TypeInv, Control, TypeOK, LocationTypes, FlagTypes
<1>2. "interceptor" \in aliveBar /\ aliveBar' = aliveBar \ {"interceptor"}
  BY DEF Exit, fuzzer, interceptor, target, store, queue, aliveBar
<1> QED
  BY <1>1, <1>2 DEF Contract!EndSome, Contract!End

LEMMA AlarmContract == TypeInv /\ Flight /\ Books /\ Alarm => Contract!EndSome
<1> SUFFICES ASSUME TypeInv, Flight, Books, Alarm PROVE Contract!EndSome
  OBVIOUS
<1>1. phaseBar' = phaseBar /\ phaseBar # "quiet" /\ UNCHANGED <<fault, files>>
  BY DEF Alarm, KillTarget, fuzzer, interceptor, target, store, queue, phaseBar, Quiet, Books, Flight, TypeInv, Control, TypeOK, LocationTypes, FlagTypes
<1>2. CASE tstat = "alive"
  <2>1. /\ {"target", "interceptor"} \subseteq aliveBar
        /\ aliveBar' = aliveBar \ {"target", "interceptor"}
    BY <1>2 DEF Alarm, KillTarget, fuzzer, interceptor, target, store, queue, aliveBar
  <2> QED
    BY <1>1, <2>1 DEF Contract!EndSome, Contract!End
<1>3. CASE tstat # "alive"
  <2>1. "interceptor" \in aliveBar /\ aliveBar' = aliveBar \ {"interceptor"}
    BY <1>3 DEF Alarm, KillTarget, fuzzer, interceptor, target, store, queue, aliveBar
  <2> QED
    BY <1>1, <2>1 DEF Contract!EndSome, Contract!End
<1> QED
  BY <1>2, <1>3

LEMMA DieContract == TypeInv /\ Flight /\ Books /\ Die => Contract!EndSome
<1> SUFFICES ASSUME TypeInv, Flight, Books, Die PROVE Contract!EndSome
  OBVIOUS
<1>1. phaseBar' = phaseBar /\ phaseBar # "quiet" /\ UNCHANGED <<fault, files>>
  BY DEF Die, fuzzer, interceptor, target, store, queue, phaseBar, Quiet, Books, Flight, TypeInv, Control, TypeOK, LocationTypes, FlagTypes
<1>2. "interceptor" \in aliveBar /\ aliveBar' = aliveBar \ {"interceptor"}
  BY DEF Die, fuzzer, interceptor, target, store, queue, aliveBar
<1> QED
  BY <1>1, <1>2 DEF Contract!EndSome, Contract!End

LEMMA SendContract == TypeInv /\ Send => UNCHANGED Contract!avars
<1> SUFFICES ASSUME TypeInv, Send PROVE UNCHANGED Contract!avars
  OBVIOUS
<1>1. aliveBar' = aliveBar
  BY DEF Send, Room, fuzzer, interceptor, target, store, queue, aliveBar
<1>2. UNCHANGED <<fault, files>> /\ phaseBar' = phaseBar
  BY DEF Send, Room, fuzzer, interceptor, target, store, queue, phaseBar, Quiet
<1> QED
  BY <1>1, <1>2 DEF Contract!avars

LEMMA RecvAckContract == TypeInv /\ Flight /\ Books /\ RecvAck => Contract!EndSome \/ UNCHANGED Contract!avars
<1> SUFFICES ASSUME TypeInv, Flight, Books, RecvAck PROVE Contract!EndSome \/ UNCHANGED Contract!avars
  OBVIOUS
<1>1. phaseBar' = phaseBar /\ phaseBar # "quiet" /\ UNCHANGED <<fault, files>>
  BY DEF RecvAck, fuzzer, interceptor, target, store, queue, phaseBar, Quiet, Books, Flight, TypeInv, Control, TypeOK, LocationTypes, FlagTypes
<1>2. CASE tstat' = "alive"
  <2>1. aliveBar' = aliveBar
    BY <1>2 DEF RecvAck, fuzzer, interceptor, target, store, queue, aliveBar
  <2> QED
    BY <1>1, <2>1 DEF Contract!avars
<1>3. CASE tstat' # "alive"
  <2>1. "target" \in aliveBar /\ aliveBar' = aliveBar \ {"target"}
    BY <1>3 DEF RecvAck, fuzzer, interceptor, target, store, queue, aliveBar
  <2> QED
    BY <1>1, <2>1 DEF Contract!EndSome, Contract!End
<1> QED
  BY <1>2, <1>3

LEMMA TargetEndsContract == TypeInv /\ Flight /\ Books /\ TargetEnds => Contract!EndSome
<1> SUFFICES ASSUME TypeInv, Flight, Books, TargetEnds PROVE Contract!EndSome
  OBVIOUS
<1>1. phaseBar' = phaseBar /\ phaseBar # "quiet" /\ UNCHANGED <<fault, files>>
  BY DEF TargetEnds, fuzzer, interceptor, target, store, queue, phaseBar, Quiet, Books, Flight, TypeInv, Control, TypeOK, LocationTypes, FlagTypes
<1>2. "target" \in aliveBar /\ aliveBar' = aliveBar \ {"target"}
  BY DEF TargetEnds, fuzzer, interceptor, target, store, queue, aliveBar
<1> QED
  BY <1>1, <1>2 DEF Contract!EndSome, Contract!End

LEMMA AttackerFailsContract == TypeInv /\ Flight /\ Books /\ AttackerFails => Contract!EndSome
<1> SUFFICES ASSUME TypeInv, Flight, Books, AttackerFails PROVE Contract!EndSome
  OBVIOUS
<1>1. phaseBar' = phaseBar /\ phaseBar # "quiet" /\ UNCHANGED <<fault, files>>
  BY DEF AttackerFails, fuzzer, interceptor, target, store, queue, phaseBar, Quiet, Books, Flight, TypeInv, Control, TypeOK, LocationTypes, FlagTypes
<1>2. "attacker" \in aliveBar /\ aliveBar' = aliveBar \ {"attacker"}
  BY DEF AttackerFails, fuzzer, interceptor, target, store, queue, aliveBar
<1> QED
  BY <1>1, <1>2 DEF Contract!EndSome, Contract!End

LEMMA TerminatedContract == TypeInv /\ Terminated => UNCHANGED Contract!avars
<1> SUFFICES ASSUME TypeInv, Terminated PROVE UNCHANGED Contract!avars
  OBVIOUS
<1>1. aliveBar' = aliveBar
  BY DEF Terminated, vars, fuzzer, interceptor, target, store, queue, aliveBar
<1>2. UNCHANGED <<fault, files>> /\ phaseBar' = phaseBar
  BY DEF Terminated, vars, fuzzer, interceptor, target, store, queue, phaseBar, Quiet
<1> QED
  BY <1>1, <1>2 DEF Contract!avars

LEMMA NextContract ==
  TypeInv /\ Flight /\ Books /\ [Next]_vars => [Contract!ANext]_(Contract!avars)
<1> SUFFICES ASSUME TypeInv, Flight, Books, [Next]_vars
             PROVE  Contract!ANext \/ UNCHANGED Contract!avars
  OBVIOUS
<1>1. CASE Fuzzer
  BY <1>1, CollectInitCorpusContract, LoadCorpusContract, StartFuzzOneContract, TimerExitContract, ForkContract, CloneContract, ReapContract, ReportContract, KillBsimContract, KillAttackerContract, AttackErrContract, CrashContract, TimeoutContract, JoinContract, KeepContract DEF Fuzzer, Contract!ANext
<1>2. CASE Interceptor
  BY <1>2, RecvLoopContract, RecvPassContract, RecvLastContract, EditFuzzContract, EditHoleContract, EditInitContract, AckFuzzContract, AckInitContract, AckPassContract, AckLastContract, SaveInitContract, ExitContract, AlarmContract, DieContract DEF Interceptor, Contract!ANext
<1>3. CASE Target
  BY <1>3, SendContract, RecvAckContract, TargetEndsContract DEF Target, Contract!ANext
<1>4. CASE UNCHANGED vars
  BY <1>4 DEF Contract!avars, aliveBar, phaseBar, Quiet, vars, fuzzer, interceptor, target, store, queue
<1> QED
  BY <1>1, <1>2, <1>3, <1>4, AttackerFailsContract, TerminatedContract DEF Next, Contract!ANext

\* Every behaviour of fuzz_one keeps the contract of one execution.
THEOREM FuzzOneKeepsContract == Spec => ContractKept
<1>1. TypeInv /\ Flight /\ Books /\ [Next]_vars => [Contract!ANext]_(Contract!avars)
  BY NextContract
<1> QED
  BY SpecBooks, InitContract, <1>1, PTL DEF Spec, ContractKept, Contract!ASpec
=============================================================================
