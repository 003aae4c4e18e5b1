---------------------------- MODULE ShutdownProofs ----------------------------
(***************************************************************************)
(* Theorems about the end of campaigns, for any number of campaigns and    *)
(* executions, and signals and failing forks anywhere: what each way of    *)
(* ending leaves behind.                                                   *)
(***************************************************************************)
EXTENDS Shutdown, SequenceTheorems, FiniteSetTheorems, TLAPS

Queue == [id : Nat, pkts : Seq(Camp), acks : Seq(Ack)]

\* An interceptor that is about to answer has a packet in its hands.
Handed == \A c \in Camp : Running(c, "interceptor") /\ ipc[c] = "ack" => held[c] \in Camp

\* cleanup_fuzzer_env knows who called it.
Called == at \in {"clean", "cleanshm", "cleanqueue", "cleanstack"} => how # "none"

Types == TypeOK /\ Handed /\ Called

LEMMA Camps == Camp \subseteq 0..MaxCampaigns /\ 0 \in 0..MaxCampaigns /\ 1 \in Camp
BY ShutdownAssumption DEF Camp

LEMMA NextCamp == ASSUME NEW c \in Camp, c < MaxCampaigns PROVE c + 1 \in Camp
BY ShutdownAssumption DEF Camp

\* The queue as a record: what is put into it and taken out of it.
LEMMA EmptyQueue == NoQueue \in Queue
BY DEF NoQueue, Queue

LEMMA QueueParts ==
  ASSUME NEW q \in Queue
  PROVE  q.id \in Nat /\ q.pkts \in Seq(Camp) /\ q.acks \in Seq(Ack)
BY DEF Queue

LEMMA QueueWithId ==
  ASSUME NEW q \in Queue, NEW n \in Nat PROVE [q EXCEPT !.id = n] \in Queue
BY DEF Queue

LEMMA QueueWithPkts ==
  ASSUME NEW q \in Queue, NEW s \in Seq(Camp) PROVE [q EXCEPT !.pkts = s] \in Queue
BY DEF Queue

LEMMA QueueWithAcks ==
  ASSUME NEW q \in Queue, NEW s \in Seq(Ack) PROVE [q EXCEPT !.acks = s] \in Queue
BY DEF Queue

LEMMA Taken ==
  ASSUME NEW S, NEW s \in Seq(S), s # << >>
  PROVE  Head(s) \in S /\ Tail(s) \in Seq(S)
OBVIOUS

LEMMA Put ==
  ASSUME NEW S, NEW s \in Seq(S), NEW e \in S
  PROVE  Append(s, e) \in Seq(S)
OBVIOUS

\* One process changes.
LEMMA ProcUpdate ==
  ASSUME NEW S, NEW v \in S, proc \in [Camp \X Role -> S],
         NEW c \in Camp, NEW r \in Role, proc' = [proc EXCEPT ![<<c, r>>] = v]
  PROVE  /\ proc' \in [Camp \X Role -> S]
         /\ \A d \in Camp, q \in Role :
              proc'[<<d, q>>] = IF d = c /\ q = r THEN v ELSE proc[<<d, q>>]
<1>1. <<c, r>> \in Camp \X Role
  OBVIOUS
<1>2. \A d \in Camp, q \in Role : <<d, q>> \in Camp \X Role /\ (<<d, q>> = <<c, r>> <=> d = c /\ q = r)
  OBVIOUS
<1> QED
  BY <1>1, <1>2

\* The alarm, seen from the processes.
LEMMA AlarmEnds ==
  ASSUME ProcessTypes, NEW c \in Camp, Alarm(c)
  PROVE  /\ proc' \in [Camp \X Role -> {"none", "running", "zombie", "reaped"}]
         /\ \A p \in Camp \X Role : proc'[p] = "running" => proc[p] = "running"
         /\ proc'[<<c, "interceptor">>] # "running"
<1>1. proc \in [Camp \X Role -> {"none", "running", "zombie", "reaped"}]
  BY DEF ProcessTypes
<1>2. proc[<<c, "interceptor">>] = "running" /\ <<c, "interceptor">> \in Camp \X Role
  BY DEF Alarm, Running, Role
<1> DEFINE K == {<<c, "interceptor">>, <<c, "target">>}
<1>3. proc' = [p \in Camp \X Role |->
                 IF p \in K /\ proc[p] = "running" THEN "zombie" ELSE proc[p]]
  BY DEF Alarm
<1>4. <<c, "interceptor">> \in K
  OBVIOUS
<1> HIDE DEF K
<1> QED
  BY <1>1, <1>2, <1>3, <1>4

\* msgget leaves a queue under the key.
LEMMA MsgGetTypes ==
  ASSUME KernelTypes, MsgGet PROVE mq' \in Queue /\ mq'.id \in Nat /\ ids' \in Nat
<1>1. mq \in Queue /\ ids \in Nat /\ ids + 1 \in Nat
  BY DEF KernelTypes, Queue
<1>2. mq' \in Queue /\ ids' \in Nat
  BY <1>1, EmptyQueue, QueueWithId DEF MsgGet
<1> QED
  BY <1>2, QueueParts

\* The interceptor takes a packet about some campaign.
LEMMA ReceiveTakes ==
  ASSUME KernelTypes, NEW c \in Camp, Receive(c)
  PROVE  Head(mq.pkts) \in Camp /\ mq' \in Queue
<1>1. mq \in Queue /\ mq.pkts \in Seq(Camp) /\ mq.pkts # << >>
  BY QueueParts DEF Receive, KernelTypes, Queue
<1>2. Head(mq.pkts) \in Camp /\ Tail(mq.pkts) \in Seq(Camp)
  BY <1>1, Taken
<1>3. mq' = [mq EXCEPT !.pkts = Tail(mq.pkts)]
  BY DEF Receive
<1> QED
  BY <1>1, <1>2, <1>3, QueueWithPkts

LEMMA InitTypes == Init => Types
<1> SUFFICES ASSUME Init PROVE Types
  OBVIOUS
<1>1. FuzzerTypes
  BY Camps DEF Init, FuzzerTypes, Role, Sig
<1>2. ProcessTypes
  BY Camps DEF Init, ProcessTypes
<1>3. KernelTypes
  <2>1. mq \in [id : Nat, pkts : Seq(Camp), acks : Seq(Ack)]
    BY EmptyQueue DEF Init, Queue
  <2> QED
    BY <2>1 DEF Init, KernelTypes
<1>4. Called
  BY DEF Init, Called
<1>5. Handed
  BY DEF Init, Handed, Running
<1> QED
  BY <1>1, <1>2, <1>3, <1>4, <1>5 DEF Types, TypeOK

LEMMA FuzzerTypesStep ==
  ASSUME FuzzerTypes, Called, Next PROVE FuzzerTypes'
<1>1. CASE SetupShm
  BY <1>1 DEF SetupShm, FuzzerTypes, fuzzer, Role, Sig
<1>2. CASE CreateQueue("queue", "handlers")
  BY <1>2 DEF CreateQueue, FuzzerTypes, fuzzer, Role, Sig
<1>3. CASE SetupHandlers
  BY <1>3 DEF SetupHandlers, FuzzerTypes, fuzzer, Role, Sig
<1>4. CASE BeginExec
  <2>1. PICK init \in BOOLEAN : create_init_corpus' = [create_init_corpus EXCEPT ![camp] = init]
    BY <1>4 DEF BeginExec
  <2>2. create_init_corpus' \in [Camp -> BOOLEAN]
    BY <2>1 DEF FuzzerTypes
  <2>3. pid' \in [Role -> {"zero", "unset", "known"}]
    BY <1>4 DEF BeginExec
  <2>4. execs' \in Nat /\ at' = "fork" /\ child' = "bsim"
    BY <1>4 DEF BeginExec, FuzzerTypes
  <2>5. UNCHANGED <<camp, how, disp, ended, loose>>
    BY <1>4 DEF BeginExec
  <2> QED
    BY <2>2, <2>3, <2>4, <2>5 DEF FuzzerTypes, Role
<1>5. CASE Fork
  BY <1>5 DEF Fork, FuzzerTypes, fuzzer, Role, Sig
<1>6. CASE ForkFails
  BY <1>6 DEF ForkFails, FuzzerTypes, fuzzer, Role, Sig
<1>7. CASE Store
  BY <1>7 DEF Store, After, FuzzerTypes, fuzzer, Role, Sig
<1>8. CASE WaitForTarget
  BY <1>8 DEF WaitForTarget, FuzzerTypes, fuzzer, Role, Sig
<1>9. CASE EndBsim
  BY <1>9 DEF EndBsim, Reaped, FuzzerTypes, fuzzer, Role, Sig
<1>10. CASE EndAttacker
  BY <1>10 DEF EndAttacker, Reaped, FuzzerTypes, fuzzer, Role, Sig
<1>11. CASE ResetQueue
  BY <1>11 DEF ResetQueue, FuzzerTypes, fuzzer, Role, Sig
<1>12. CASE CreateQueue("create", "join")
  BY <1>12 DEF CreateQueue, FuzzerTypes, fuzzer, Role, Sig
<1>13. CASE Join
  BY <1>13 DEF Join, Reaped, FuzzerTypes, fuzzer, Role, Sig
<1>14. CASE TimerExit
  BY <1>14 DEF TimerExit, FuzzerTypes, fuzzer, Role, Sig
<1>15. CASE CleanKill
  BY <1>15 DEF CleanKill, After, Reaped, FuzzerTypes, fuzzer, Role, Sig
<1>16. CASE CleanShm
  BY <1>16 DEF CleanShm, FuzzerTypes, fuzzer, Role, Sig
<1>17. CASE CleanQueue
  BY <1>17 DEF CleanQueue, FuzzerTypes, fuzzer, Role, Sig
<1>18. CASE CleanStack
  BY <1>18 DEF CleanStack, Unmapped, FuzzerTypes, fuzzer, Role, Sig, Called
<1>19. CASE NewCampaign
  BY <1>19, NextCamp DEF NewCampaign, FuzzerTypes, fuzzer, Role, Sig
<1>20. CASE \E s \in Sig : Handled(s)
  BY <1>20 DEF Handled, Alive, FuzzerTypes, fuzzer, Role, Sig
<1>21. CASE \E s \in Sig : Default(s)
  BY <1>21 DEF Default, Alive, FuzzerTypes, fuzzer, Role, Sig
<1>22. CASE \E c \in Camp : ShareHandlers(c)
  BY <1>22 DEF ShareHandlers, FuzzerTypes, fuzzer, Role, Sig
<1>23. CASE \E c \in Camp : Receive(c)
  BY <1>23 DEF Receive, FuzzerTypes, fuzzer, Role, Sig
<1>24. CASE \E c \in Camp : Answer(c)
  BY <1>24 DEF Answer, FuzzerTypes, fuzzer, Role, Sig
<1>25. CASE \E c \in Camp : InterceptorExit(c)
  BY <1>25 DEF InterceptorExit, FuzzerTypes, fuzzer, Role, Sig
<1>26. CASE \E c \in Camp : Alarm(c)
  BY <1>26 DEF Alarm, FuzzerTypes, fuzzer, Role, Sig
<1>27. CASE \E c \in Camp : PacketArrives(c)
  BY <1>27 DEF PacketArrives, FuzzerTypes, fuzzer, Role, Sig
<1>28. CASE \E c \in Camp : LookUp(c)
  BY <1>28 DEF LookUp, FuzzerTypes, fuzzer, Role, Sig
<1>29. CASE \E c \in Camp : Send(c)
  BY <1>29 DEF Send, FuzzerTypes, fuzzer, Role, Sig
<1>30. CASE \E c \in Camp : RecvAck(c)
  BY <1>30 DEF RecvAck, FuzzerTypes, fuzzer, Role, Sig
<1>31. CASE \E c \in Camp : TargetEnds(c)
  BY <1>31 DEF TargetEnds, FuzzerTypes, fuzzer, Role, Sig
<1> QED
  BY <1>1, <1>2, <1>3, <1>4, <1>5, <1>6, <1>7, <1>8, <1>9, <1>10, <1>11, <1>12,
     <1>13, <1>14, <1>15, <1>16, <1>17, <1>18, <1>19, <1>20, <1>21, <1>22, <1>23,
     <1>24, <1>25, <1>26, <1>27, <1>28, <1>29, <1>30, <1>31 DEF Next, Fuzzer, Signal,
     Interceptor, Target

LEMMA CalledStep ==
  ASSUME FuzzerTypes, Called, Next PROVE Called'
<1>1. CASE SetupShm
  BY <1>1 DEF SetupShm, FuzzerTypes, Called, fuzzer
<1>2. CASE CreateQueue("queue", "handlers")
  BY <1>2 DEF CreateQueue, FuzzerTypes, Called, fuzzer
<1>3. CASE SetupHandlers
  BY <1>3 DEF SetupHandlers, FuzzerTypes, Called, fuzzer
<1>4. CASE BeginExec
  BY <1>4 DEF BeginExec, FuzzerTypes, Called, fuzzer
<1>5. CASE Fork
  BY <1>5 DEF Fork, FuzzerTypes, Called, fuzzer
<1>6. CASE ForkFails
  BY <1>6 DEF ForkFails, FuzzerTypes, Called, fuzzer
<1>7. CASE Store
  BY <1>7 DEF Store, After, FuzzerTypes, Called, fuzzer
<1>8. CASE WaitForTarget
  BY <1>8 DEF WaitForTarget, FuzzerTypes, Called, fuzzer
<1>9. CASE EndBsim
  BY <1>9 DEF EndBsim, Reaped, FuzzerTypes, Called, fuzzer
<1>10. CASE EndAttacker
  BY <1>10 DEF EndAttacker, Reaped, FuzzerTypes, Called, fuzzer
<1>11. CASE ResetQueue
  BY <1>11 DEF ResetQueue, FuzzerTypes, Called, fuzzer
<1>12. CASE CreateQueue("create", "join")
  BY <1>12 DEF CreateQueue, FuzzerTypes, Called, fuzzer
<1>13. CASE Join
  BY <1>13 DEF Join, Reaped, FuzzerTypes, Called, fuzzer
<1>14. CASE TimerExit
  BY <1>14 DEF TimerExit, FuzzerTypes, Called, fuzzer
<1>15. CASE CleanKill
  BY <1>15 DEF CleanKill, After, Reaped, FuzzerTypes, Called, fuzzer
<1>16. CASE CleanShm
  BY <1>16 DEF CleanShm, FuzzerTypes, Called, fuzzer
<1>17. CASE CleanQueue
  BY <1>17 DEF CleanQueue, FuzzerTypes, Called, fuzzer
<1>18. CASE CleanStack
  BY <1>18 DEF CleanStack, Unmapped, FuzzerTypes, Called, fuzzer
<1>19. CASE NewCampaign
  BY <1>19 DEF NewCampaign, FuzzerTypes, Called, fuzzer
<1>20. CASE \E s \in Sig : Handled(s)
  BY <1>20 DEF Handled, Alive, FuzzerTypes, Called, fuzzer
<1>21. CASE \E s \in Sig : Default(s)
  BY <1>21 DEF Default, Alive, FuzzerTypes, Called, fuzzer
<1>22. CASE \E c \in Camp : ShareHandlers(c)
  BY <1>22 DEF ShareHandlers, FuzzerTypes, Called, fuzzer
<1>23. CASE \E c \in Camp : Receive(c)
  BY <1>23 DEF Receive, FuzzerTypes, Called, fuzzer
<1>24. CASE \E c \in Camp : Answer(c)
  BY <1>24 DEF Answer, FuzzerTypes, Called, fuzzer
<1>25. CASE \E c \in Camp : InterceptorExit(c)
  BY <1>25 DEF InterceptorExit, FuzzerTypes, Called, fuzzer
<1>26. CASE \E c \in Camp : Alarm(c)
  BY <1>26 DEF Alarm, FuzzerTypes, Called, fuzzer
<1>27. CASE \E c \in Camp : PacketArrives(c)
  BY <1>27 DEF PacketArrives, FuzzerTypes, Called, fuzzer
<1>28. CASE \E c \in Camp : LookUp(c)
  BY <1>28 DEF LookUp, FuzzerTypes, Called, fuzzer
<1>29. CASE \E c \in Camp : Send(c)
  BY <1>29 DEF Send, FuzzerTypes, Called, fuzzer
<1>30. CASE \E c \in Camp : RecvAck(c)
  BY <1>30 DEF RecvAck, FuzzerTypes, Called, fuzzer
<1>31. CASE \E c \in Camp : TargetEnds(c)
  BY <1>31 DEF TargetEnds, FuzzerTypes, Called, fuzzer
<1> QED
  BY <1>1, <1>2, <1>3, <1>4, <1>5, <1>6, <1>7, <1>8, <1>9, <1>10, <1>11, <1>12,
     <1>13, <1>14, <1>15, <1>16, <1>17, <1>18, <1>19, <1>20, <1>21, <1>22, <1>23,
     <1>24, <1>25, <1>26, <1>27, <1>28, <1>29, <1>30, <1>31 DEF Next, Fuzzer, Signal,
     Interceptor, Target

LEMMA ProcessTypesStep ==
  ASSUME FuzzerTypes, ProcessTypes, KernelTypes, Next PROVE ProcessTypes'
<1>1. CASE SetupShm
  BY <1>1 DEF SetupShm, ProcessTypes, FuzzerTypes, interceptors, targets
<1>2. CASE CreateQueue("queue", "handlers")
  BY <1>2 DEF CreateQueue, ProcessTypes, FuzzerTypes, interceptors, targets
<1>3. CASE SetupHandlers
  BY <1>3 DEF SetupHandlers, ProcessTypes, FuzzerTypes, interceptors, targets
<1>4. CASE BeginExec
  BY <1>4 DEF BeginExec, ProcessTypes, FuzzerTypes, interceptors, targets
<1>5. CASE Fork
  BY <1>5, Camps DEF Fork, ProcessTypes, FuzzerTypes, interceptors, targets
<1>6. CASE ForkFails
  BY <1>6 DEF ForkFails, ProcessTypes, FuzzerTypes, interceptors, targets
<1>7. CASE Store
  BY <1>7 DEF Store, After, ProcessTypes, FuzzerTypes, interceptors, targets
<1>8. CASE WaitForTarget
  BY <1>8 DEF WaitForTarget, ProcessTypes, FuzzerTypes, interceptors, targets
<1>9. CASE EndBsim
  BY <1>9 DEF EndBsim, Reaped, ProcessTypes, FuzzerTypes, interceptors, targets
<1>10. CASE EndAttacker
  BY <1>10 DEF EndAttacker, Reaped, ProcessTypes, FuzzerTypes, interceptors, targets
<1>11. CASE ResetQueue
  BY <1>11 DEF ResetQueue, ProcessTypes, FuzzerTypes, interceptors, targets
<1>12. CASE CreateQueue("create", "join")
  BY <1>12 DEF CreateQueue, ProcessTypes, FuzzerTypes, interceptors, targets
<1>13. CASE Join
  BY <1>13 DEF Join, Reaped, ProcessTypes, FuzzerTypes, interceptors, targets
<1>14. CASE TimerExit
  BY <1>14 DEF TimerExit, ProcessTypes, FuzzerTypes, interceptors, targets
<1>15. CASE CleanKill
  BY <1>15 DEF CleanKill, After, Reaped, ProcessTypes, FuzzerTypes, interceptors,
     targets
<1>16. CASE CleanShm
  BY <1>16 DEF CleanShm, ProcessTypes, FuzzerTypes, interceptors, targets
<1>17. CASE CleanQueue
  BY <1>17 DEF CleanQueue, ProcessTypes, FuzzerTypes, interceptors, targets
<1>18. CASE CleanStack
  BY <1>18 DEF CleanStack, Unmapped, ProcessTypes, FuzzerTypes, interceptors, targets
<1>19. CASE NewCampaign
  BY <1>19 DEF NewCampaign, ProcessTypes, FuzzerTypes, interceptors, targets
<1>20. CASE \E s \in Sig : Handled(s)
  BY <1>20 DEF Handled, Alive, ProcessTypes, FuzzerTypes, interceptors, targets
<1>21. CASE \E s \in Sig : Default(s)
  BY <1>21 DEF Default, Alive, ProcessTypes, FuzzerTypes, interceptors, targets
<1>22. CASE \E c \in Camp : ShareHandlers(c)
  BY <1>22 DEF ShareHandlers, ProcessTypes, FuzzerTypes, interceptors, targets
<1>23. CASE \E c \in Camp : Receive(c)
  <2>1. PICK c \in Camp : Receive(c)
    BY <1>23
  <2>2. Head(mq.pkts) \in 0..MaxCampaigns
    BY <2>1, ReceiveTakes, Camps
  <2>3. /\ held' = [held EXCEPT ![c] = Head(mq.pkts)]
        /\ ipc' = [ipc EXCEPT ![c] = "ack"]
        /\ UNCHANGED <<proc, targets>>
    BY <2>1 DEF Receive
  <2> QED
    BY <2>2, <2>3 DEF ProcessTypes, targets
<1>24. CASE \E c \in Camp : Answer(c)
  BY <1>24, Camps DEF Answer, ProcessTypes, FuzzerTypes, interceptors, targets
<1>25. CASE \E c \in Camp : InterceptorExit(c)
  BY <1>25 DEF InterceptorExit, ProcessTypes, FuzzerTypes, interceptors, targets
<1>26. CASE \E c \in Camp : Alarm(c)
  <2>1. PICK c \in Camp : Alarm(c)
    BY <1>26
  <2>2. proc' \in [Camp \X Role -> {"none", "running", "zombie", "reaped"}]
    BY <2>1, AlarmEnds
  <2>3. held' = [held EXCEPT ![c] = 0] /\ UNCHANGED <<ipc, targets>>
    BY <2>1 DEF Alarm
  <2> QED
    BY <2>2, <2>3, Camps DEF ProcessTypes, targets
<1>27. CASE \E c \in Camp : PacketArrives(c)
  BY <1>27 DEF PacketArrives, ProcessTypes, FuzzerTypes, interceptors, targets
<1>28. CASE \E c \in Camp : LookUp(c)
  <2>1. PICK c \in Camp : LookUp(c)
    BY <1>28
  <2>2. mq'.id \in Nat
    BY <2>1, MsgGetTypes DEF LookUp
  <2>3. /\ tqid' = [tqid EXCEPT ![c] = mq'.id]
        /\ tpc' = [tpc EXCEPT ![c] = "send"]
        /\ UNCHANGED <<proc, interceptors>>
    BY <2>1 DEF LookUp
  <2> QED
    BY <2>2, <2>3 DEF ProcessTypes, interceptors
<1>29. CASE \E c \in Camp : Send(c)
  BY <1>29 DEF Send, ProcessTypes, FuzzerTypes, interceptors, targets
<1>30. CASE \E c \in Camp : RecvAck(c)
  <2>1. PICK c \in Camp : RecvAck(c)
    BY <1>30
  <2> DEFINE last == Head(mq.acks).last
  <2>2. /\ proc' = [proc EXCEPT ![<<c, "target">>] = IF last THEN "zombie" ELSE @]
        /\ tpc' = [tpc EXCEPT ![c] = "run"]
        /\ UNCHANGED <<interceptors, tqid>>
    BY <2>1 DEF RecvAck
  <2> HIDE DEF last
  <2>3. CASE last
    BY <2>2, <2>3 DEF ProcessTypes, interceptors
  <2>4. CASE ~last
    BY <2>2, <2>4 DEF ProcessTypes, interceptors
  <2> QED
    BY <2>3, <2>4
<1>31. CASE \E c \in Camp : TargetEnds(c)
  BY <1>31 DEF TargetEnds, ProcessTypes, FuzzerTypes, interceptors, targets
<1> QED
  BY <1>1, <1>2, <1>3, <1>4, <1>5, <1>6, <1>7, <1>8, <1>9, <1>10, <1>11, <1>12,
     <1>13, <1>14, <1>15, <1>16, <1>17, <1>18, <1>19, <1>20, <1>21, <1>22, <1>23,
     <1>24, <1>25, <1>26, <1>27, <1>28, <1>29, <1>30, <1>31 DEF Next, Fuzzer, Signal,
     Interceptor, Target

LEMMA HandedStep ==
  ASSUME FuzzerTypes, ProcessTypes, KernelTypes, Handed, Next PROVE Handed'
<1>1. CASE SetupShm
  BY <1>1 DEF SetupShm, Handed, Running, ProcessTypes, FuzzerTypes, interceptors
<1>2. CASE CreateQueue("queue", "handlers")
  BY <1>2 DEF CreateQueue, Handed, Running, ProcessTypes, FuzzerTypes, interceptors
<1>3. CASE SetupHandlers
  BY <1>3 DEF SetupHandlers, Handed, Running, ProcessTypes, FuzzerTypes, interceptors
<1>4. CASE BeginExec
  BY <1>4 DEF BeginExec, Handed, Running, ProcessTypes, FuzzerTypes, interceptors
<1>5. CASE Fork
  BY <1>5 DEF Fork, Handed, Running, ProcessTypes, FuzzerTypes, interceptors
<1>6. CASE ForkFails
  BY <1>6 DEF ForkFails, Handed, Running, ProcessTypes, FuzzerTypes, interceptors
<1>7. CASE Store
  BY <1>7 DEF Store, After, Handed, Running, ProcessTypes, FuzzerTypes, interceptors
<1>8. CASE WaitForTarget
  BY <1>8 DEF WaitForTarget, Handed, Running, ProcessTypes, FuzzerTypes, interceptors
<1>9. CASE EndBsim
  BY <1>9 DEF EndBsim, Reaped, Handed, Running, ProcessTypes, FuzzerTypes, interceptors
<1>10. CASE EndAttacker
  BY <1>10 DEF EndAttacker, Reaped, Handed, Running, ProcessTypes, FuzzerTypes,
     interceptors
<1>11. CASE ResetQueue
  BY <1>11 DEF ResetQueue, Handed, Running, ProcessTypes, FuzzerTypes, interceptors
<1>12. CASE CreateQueue("create", "join")
  BY <1>12 DEF CreateQueue, Handed, Running, ProcessTypes, FuzzerTypes, interceptors
<1>13. CASE Join
  BY <1>13 DEF Join, Reaped, Handed, Running, ProcessTypes, FuzzerTypes, interceptors
<1>14. CASE TimerExit
  BY <1>14 DEF TimerExit, Handed, Running, ProcessTypes, FuzzerTypes, interceptors
<1>15. CASE CleanKill
  <2>1. proc' = proc \/ Reaped(child)
    BY <1>15 DEF CleanKill
  <2>2. UNCHANGED <<ipc, held>>
    BY <1>15 DEF CleanKill, interceptors
  <2>3. \A p \in Camp \X Role : proc'[p] = "running" => proc[p] = "running"
    <3>1. CASE Reaped(child)
      BY <3>1 DEF Reaped, ProcessTypes
    <3> QED
      BY <2>1, <3>1
  <2>4. \A d \in Camp : <<d, "interceptor">> \in Camp \X Role
    BY DEF Role
  <2> QED
    BY <2>2, <2>3, <2>4 DEF Handed, Running
<1>16. CASE CleanShm
  BY <1>16 DEF CleanShm, Handed, Running, ProcessTypes, FuzzerTypes, interceptors
<1>17. CASE CleanQueue
  BY <1>17 DEF CleanQueue, Handed, Running, ProcessTypes, FuzzerTypes, interceptors
<1>18. CASE CleanStack
  BY <1>18 DEF CleanStack, Unmapped, Handed, Running, ProcessTypes, FuzzerTypes,
     interceptors
<1>19. CASE NewCampaign
  BY <1>19 DEF NewCampaign, Handed, Running, ProcessTypes, FuzzerTypes, interceptors
<1>20. CASE \E s \in Sig : Handled(s)
  BY <1>20 DEF Handled, Alive, Handed, Running, ProcessTypes, FuzzerTypes, interceptors
<1>21. CASE \E s \in Sig : Default(s)
  BY <1>21 DEF Default, Alive, Handed, Running, ProcessTypes, FuzzerTypes, interceptors
<1>22. CASE \E c \in Camp : ShareHandlers(c)
  BY <1>22 DEF ShareHandlers, Handed, Running, ProcessTypes, FuzzerTypes, interceptors
<1>23. CASE \E c \in Camp : Receive(c)
  <2>1. PICK c \in Camp : Receive(c)
    BY <1>23
  <2>2. Head(mq.pkts) \in Camp
    BY <2>1, ReceiveTakes
  <2>3. /\ held' = [held EXCEPT ![c] = Head(mq.pkts)]
        /\ ipc' = [ipc EXCEPT ![c] = "ack"]
        /\ UNCHANGED proc
    BY <2>1 DEF Receive
  <2> QED
    BY <2>2, <2>3 DEF Handed, Running, ProcessTypes
<1>24. CASE \E c \in Camp : Answer(c)
  BY <1>24 DEF Answer, Handed, Running, ProcessTypes, FuzzerTypes, interceptors
<1>25. CASE \E c \in Camp : InterceptorExit(c)
  BY <1>25 DEF InterceptorExit, Handed, Running, ProcessTypes, FuzzerTypes, interceptors
<1>26. CASE \E c \in Camp : Alarm(c)
  <2>1. PICK c \in Camp : Alarm(c)
    BY <1>26
  <2>2. /\ \A d \in Camp : proc'[<<d, "interceptor">>] = "running" => proc[<<d, "interceptor">>] = "running"
        /\ proc'[<<c, "interceptor">>] # "running"
    BY <2>1, AlarmEnds DEF Role
  <2>3. held' = [held EXCEPT ![c] = 0] /\ UNCHANGED ipc
    BY <2>1 DEF Alarm
  <2> QED
    BY <2>2, <2>3 DEF Handed, Running, ProcessTypes
<1>27. CASE \E c \in Camp : PacketArrives(c)
  BY <1>27 DEF PacketArrives, Handed, Running, ProcessTypes, FuzzerTypes, interceptors
<1>28. CASE \E c \in Camp : LookUp(c)
  BY <1>28 DEF LookUp, Handed, Running, ProcessTypes, FuzzerTypes, interceptors
<1>29. CASE \E c \in Camp : Send(c)
  BY <1>29 DEF Send, Handed, Running, ProcessTypes, FuzzerTypes, interceptors
<1>30. CASE \E c \in Camp : RecvAck(c)
  BY <1>30 DEF RecvAck, Handed, Running, ProcessTypes, FuzzerTypes, interceptors
<1>31. CASE \E c \in Camp : TargetEnds(c)
  BY <1>31 DEF TargetEnds, Handed, Running, ProcessTypes, FuzzerTypes, interceptors
<1> QED
  BY <1>1, <1>2, <1>3, <1>4, <1>5, <1>6, <1>7, <1>8, <1>9, <1>10, <1>11, <1>12,
     <1>13, <1>14, <1>15, <1>16, <1>17, <1>18, <1>19, <1>20, <1>21, <1>22, <1>23,
     <1>24, <1>25, <1>26, <1>27, <1>28, <1>29, <1>30, <1>31 DEF Next, Fuzzer, Signal,
     Interceptor, Target

LEMMA KernelTypesStep ==
  ASSUME FuzzerTypes, KernelTypes, Handed, Next PROVE KernelTypes'
<1>1. CASE SetupShm
  BY <1>1 DEF SetupShm, KernelTypes, FuzzerTypes, kernel
<1>2. CASE CreateQueue("queue", "handlers")
  <2>1. mq' \in Queue /\ mq'.id \in Nat /\ ids' \in Nat
    BY <1>2, MsgGetTypes DEF CreateQueue
  <2>2. qid' = [qid EXCEPT ![camp] = mq'.id] /\ UNCHANGED <<shm, faults>>
    BY <1>2 DEF CreateQueue
  <2> QED
    BY <2>1, <2>2 DEF KernelTypes, Queue
<1>3. CASE SetupHandlers
  BY <1>3 DEF SetupHandlers, KernelTypes, FuzzerTypes, kernel
<1>4. CASE BeginExec
  BY <1>4 DEF BeginExec, KernelTypes, FuzzerTypes, kernel
<1>5. CASE Fork
  BY <1>5 DEF Fork, KernelTypes, FuzzerTypes, kernel
<1>6. CASE ForkFails
  BY <1>6 DEF ForkFails, KernelTypes, FuzzerTypes, kernel
<1>7. CASE Store
  BY <1>7 DEF Store, KernelTypes, FuzzerTypes, kernel
<1>8. CASE WaitForTarget
  BY <1>8 DEF WaitForTarget, KernelTypes, FuzzerTypes, kernel
<1>9. CASE EndBsim
  BY <1>9 DEF EndBsim, KernelTypes, FuzzerTypes, kernel
<1>10. CASE EndAttacker
  BY <1>10 DEF EndAttacker, KernelTypes, FuzzerTypes, kernel
<1>11. CASE ResetQueue
  <2>1. mq' \in Queue
    BY <1>11, EmptyQueue DEF ResetQueue, DeleteQueue, KernelTypes, Queue
  <2>2. UNCHANGED <<shm, qid, ids, faults>>
    BY <1>11 DEF ResetQueue
  <2> QED
    BY <2>1, <2>2 DEF KernelTypes, Queue
<1>12. CASE CreateQueue("create", "join")
  <2>1. mq' \in Queue /\ mq'.id \in Nat /\ ids' \in Nat
    BY <1>12, MsgGetTypes DEF CreateQueue
  <2>2. qid' = [qid EXCEPT ![camp] = mq'.id] /\ UNCHANGED <<shm, faults>>
    BY <1>12 DEF CreateQueue
  <2> QED
    BY <2>1, <2>2 DEF KernelTypes, Queue
<1>13. CASE Join
  BY <1>13 DEF Join, KernelTypes, FuzzerTypes, kernel
<1>14. CASE TimerExit
  BY <1>14 DEF TimerExit, KernelTypes, FuzzerTypes, kernel
<1>15. CASE CleanKill
  BY <1>15 DEF CleanKill, KernelTypes, FuzzerTypes, kernel
<1>16. CASE CleanShm
  BY <1>16 DEF CleanShm, KernelTypes, FuzzerTypes, kernel
<1>17. CASE CleanQueue
  <2>1. mq' \in Queue
    BY <1>17, EmptyQueue DEF CleanQueue, DeleteQueue, KernelTypes, Queue
  <2>2. UNCHANGED <<shm, qid, ids, faults>>
    BY <1>17 DEF CleanQueue
  <2> QED
    BY <2>1, <2>2 DEF KernelTypes, Queue
<1>18. CASE CleanStack
  BY <1>18 DEF CleanStack, KernelTypes, FuzzerTypes, kernel
<1>19. CASE NewCampaign
  BY <1>19 DEF NewCampaign, KernelTypes, FuzzerTypes, kernel
<1>20. CASE \E s \in Sig : Handled(s)
  BY <1>20 DEF Handled, KernelTypes, FuzzerTypes, kernel
<1>21. CASE \E s \in Sig : Default(s)
  BY <1>21 DEF Default, KernelTypes, FuzzerTypes, kernel
<1>22. CASE \E c \in Camp : ShareHandlers(c)
  BY <1>22 DEF ShareHandlers, KernelTypes, FuzzerTypes, kernel
<1>23. CASE \E c \in Camp : Receive(c)
  <2>1. PICK c \in Camp : Receive(c)
    BY <1>23
  <2>2. UNCHANGED <<shm, qid, faults>>
    BY <2>1 DEF Receive
  <2>9. mq' \in Queue /\ UNCHANGED ids
    BY <2>1, ReceiveTakes DEF Receive
  <2> QED
    BY <2>2, <2>9 DEF KernelTypes, Queue
<1>24. CASE \E c \in Camp : Answer(c)
  <2>1. PICK c \in Camp : Answer(c)
    BY <1>24
  <2>2. UNCHANGED <<shm, qid, faults>>
    BY <2>1 DEF Answer
  <2>3. PICK last \in BOOLEAN :
          mq' = [mq EXCEPT !.acks = Append(mq.acks, [camp |-> held[c], last |-> last])]
    BY <2>1 DEF Answer
  <2>4. [camp |-> held[c], last |-> last] \in Ack
    BY <2>1 DEF Answer, Handed, Ack
  <2>5. mq \in Queue
    BY DEF KernelTypes, Queue
  <2>6. Append(mq.acks, [camp |-> held[c], last |-> last]) \in Seq(Ack)
    BY <2>4, <2>5, QueueParts, Put
  <2>9. mq' \in Queue /\ UNCHANGED ids
    BY <2>1, <2>3, <2>5, <2>6, QueueWithAcks DEF Answer
  <2> QED
    BY <2>2, <2>9 DEF KernelTypes, Queue
<1>25. CASE \E c \in Camp : InterceptorExit(c)
  BY <1>25 DEF InterceptorExit, KernelTypes, FuzzerTypes, kernel
<1>26. CASE \E c \in Camp : Alarm(c)
  BY <1>26 DEF Alarm, KernelTypes, FuzzerTypes, kernel
<1>27. CASE \E c \in Camp : PacketArrives(c)
  BY <1>27 DEF PacketArrives, KernelTypes, FuzzerTypes, kernel
<1>28. CASE \E c \in Camp : LookUp(c)
  <2>1. PICK c \in Camp : LookUp(c)
    BY <1>28
  <2>2. UNCHANGED <<shm, qid, faults>>
    BY <2>1 DEF LookUp
  <2>9. mq' \in Queue /\ ids' \in Nat
    BY <2>1, MsgGetTypes DEF LookUp
  <2> QED
    BY <2>2, <2>9 DEF KernelTypes, Queue
<1>29. CASE \E c \in Camp : Send(c)
  <2>1. PICK c \in Camp : Send(c)
    BY <1>29
  <2>2. UNCHANGED <<shm, qid, faults>>
    BY <2>1 DEF Send
  <2>3. mq \in Queue
    BY DEF KernelTypes, Queue
  <2>4. Append(mq.pkts, c) \in Seq(Camp)
    BY <2>3, QueueParts, Put
  <2>5. mq' = [mq EXCEPT !.pkts = Append(mq.pkts, c)]
    BY <2>1 DEF Send
  <2>9. mq' \in Queue /\ UNCHANGED ids
    BY <2>1, <2>3, <2>4, <2>5, QueueWithPkts DEF Send
  <2> QED
    BY <2>2, <2>9 DEF KernelTypes, Queue
<1>30. CASE \E c \in Camp : RecvAck(c)
  <2>1. PICK c \in Camp : RecvAck(c)
    BY <1>30
  <2>2. UNCHANGED <<shm, qid, faults>>
    BY <2>1 DEF RecvAck
  <2>3. mq \in Queue /\ mq.acks # << >>
    BY <2>1 DEF RecvAck, KernelTypes, Queue
  <2>4. Tail(mq.acks) \in Seq(Ack)
    BY <2>3, QueueParts, Taken
  <2>5. mq' = [mq EXCEPT !.acks = Tail(mq.acks)]
    BY <2>1 DEF RecvAck
  <2>9. mq' \in Queue /\ UNCHANGED ids
    BY <2>1, <2>3, <2>4, <2>5, QueueWithAcks DEF RecvAck
  <2> QED
    BY <2>2, <2>9 DEF KernelTypes, Queue
<1>31. CASE \E c \in Camp : TargetEnds(c)
  BY <1>31 DEF TargetEnds, KernelTypes, FuzzerTypes, kernel
<1> QED
  BY <1>1, <1>2, <1>3, <1>4, <1>5, <1>6, <1>7, <1>8, <1>9, <1>10, <1>11, <1>12,
     <1>13, <1>14, <1>15, <1>16, <1>17, <1>18, <1>19, <1>20, <1>21, <1>22, <1>23,
     <1>24, <1>25, <1>26, <1>27, <1>28, <1>29, <1>30, <1>31 DEF Next, Fuzzer, Signal,
     Interceptor, Target

LEMMA TypesStep == ASSUME Types, [Next]_vars PROVE Types'
<1>1. CASE Next
  BY <1>1, FuzzerTypesStep, CalledStep, ProcessTypesStep, HandedStep, KernelTypesStep
     DEF Types, TypeOK
<1>2. CASE UNCHANGED vars
  <2>1. FuzzerTypes'
    BY <1>2 DEF vars, fuzzer, Types, TypeOK, FuzzerTypes
  <2>2. ProcessTypes'
    BY <1>2 DEF vars, interceptors, targets, Types, TypeOK, ProcessTypes
  <2>3. KernelTypes'
    BY <1>2 DEF vars, kernel, Types, TypeOK, KernelTypes
  <2>4. Handed' /\ Called'
    BY <1>2 DEF vars, fuzzer, interceptors, Types, Handed, Called, Running
  <2> QED
    BY <2>1, <2>2, <2>3, <2>4 DEF Types, TypeOK
<1> QED
  BY <1>1, <1>2

\* The variables keep their types through every way a campaign can end and
\* through the processes and messages that outlive it.
THEOREM ShutdownTypes == Spec => []TypeOK
<1>1. Types => TypeOK
  BY DEF Types
<1> QED
  BY InitTypes, TypesStep, <1>1, PTL DEF Spec

-----------------------------------------------------------------------------
(* What is left behind *)

Left(c) ==
  /\ ended[c] = "timer" => c \notin shm /\ \A r \in Role : ~Running(c, r)
  /\ ended[c] = "signal" =>
       /\ c \notin shm
       /\ \A r \in Role \ {"target"} : Running(c, r) => r = loose[c] /\ r # "interceptor"

\* A fuzzer that is not started yet has nothing running.
Unstarted(c) == ended[c] = "no" /\ \A r \in Role : ~Running(c, r)

Past == \A c \in Camp : (c > camp => Unstarted(c)) /\ Left(c)

NotEnded == Alive => ended[camp] = "no"

\* In fuzz_one: which processes of the execution run, and that their pids are known.
InExecution ==
  /\ at \in {"shm", "queue", "handlers", "idle"} => \A r \in Role : ~Running(camp, r)
  /\ at \in {"fork", "store", "wait"} =>
       \A r \in Role : Running(camp, r) =>
         pid[r] = "known" \/ (at = "store" /\ r = child)
  /\ at = "endbsim" =>
       \A r \in Role : Running(camp, r) => pid[r] = "known" /\ r # "target"
  /\ at = "endattacker" =>
       \A r \in Role : Running(camp, r) => pid[r] = "known" /\ r \in {"attacker", "interceptor"}
  /\ at \in {"reset", "create", "join"} =>
       \A r \in Role : Running(camp, r) => pid[r] = "known" /\ r = "interceptor"

\* In cleanup_fuzzer_env: what it has not yet killed is known, but for one.
InCleanup ==
  /\ at = "clean" =>
       \A r \in Role : Running(camp, r) =>
         /\ how = "signal" /\ (pid[r] = "known" \/ r = loose[camp])
         /\ r = "bsim" /\ child # "bsim" => r = loose[camp]
         /\ r = "attacker" /\ child = "interceptor" => r = loose[camp]
  /\ at \in {"cleanshm", "cleanqueue", "cleanstack"} =>
       \A r \in Role : Running(camp, r) =>
         how = "signal" /\ (r = "target" \/ r = loose[camp])
  /\ at \in {"cleanqueue", "cleanstack"} => camp \notin shm

Inv == Past /\ NotEnded /\ InExecution /\ InCleanup

\* The steps of interceptors and targets only end processes.
OnlyEnds ==
  /\ UNCHANGED <<camp, at, child, how, pid, ended, loose, shm>>
  /\ \A c \in Camp, r \in Role : Running(c, r)' => Running(c, r)

LEMMA PassiveStep ==
  ASSUME Types, NEW c \in Camp, Interceptor(c) \/ Target(c) PROVE OnlyEnds
<1>1. CASE ShareHandlers(c)
  BY <1>1 DEF ShareHandlers, OnlyEnds, fuzzer, Running, Types, TypeOK, ProcessTypes
<1>2. CASE Receive(c)
  BY <1>2 DEF Receive, OnlyEnds, fuzzer, Running, Types, TypeOK, ProcessTypes
<1>3. CASE Answer(c)
  BY <1>3 DEF Answer, OnlyEnds, fuzzer, Running, Types, TypeOK, ProcessTypes
<1>4. CASE InterceptorExit(c)
  BY <1>4 DEF InterceptorExit, OnlyEnds, fuzzer, Running, Types, TypeOK, ProcessTypes
<1>5. CASE Alarm(c)
  <2>1. \A p \in Camp \X Role : proc'[p] = "running" => proc[p] = "running"
    BY <1>5, AlarmEnds DEF Types, TypeOK
  <2>2. UNCHANGED <<camp, at, child, how, pid, ended, loose, shm>>
    BY <1>5 DEF Alarm, fuzzer
  <2>3. \A d \in Camp, r \in Role : <<d, r>> \in Camp \X Role
    OBVIOUS
  <2> QED
    BY <2>1, <2>2, <2>3 DEF OnlyEnds, Running
<1>6. CASE PacketArrives(c)
  BY <1>6 DEF PacketArrives, OnlyEnds, fuzzer, Running, Types, TypeOK, ProcessTypes
<1>7. CASE LookUp(c)
  BY <1>7 DEF LookUp, OnlyEnds, fuzzer, Running, Types, TypeOK, ProcessTypes
<1>8. CASE Send(c)
  BY <1>8 DEF Send, OnlyEnds, fuzzer, Running, Types, TypeOK, ProcessTypes
<1>9. CASE RecvAck(c)
  BY <1>9 DEF RecvAck, OnlyEnds, fuzzer, Running, Types, TypeOK, ProcessTypes
<1>10. CASE TargetEnds(c)
  BY <1>10 DEF TargetEnds, OnlyEnds, fuzzer, Running, Types, TypeOK, ProcessTypes
<1> QED
  BY <1>1, <1>2, <1>3, <1>4, <1>5, <1>6, <1>7, <1>8, <1>9, <1>10 DEF Interceptor, Target

LEMMA PassiveInv == ASSUME Types, Inv, OnlyEnds PROVE Inv'
<1>1. camp \in Camp
  BY DEF Types, TypeOK, FuzzerTypes
<1>2. Past'
  BY DEF Inv, OnlyEnds, Past, Left, Unstarted
<1>3. NotEnded'
  BY DEF Inv, OnlyEnds, NotEnded, Alive
<1>4. InExecution'
  BY <1>1 DEF Inv, OnlyEnds, InExecution
<1>5. InCleanup'
  BY <1>1 DEF Inv, OnlyEnds, InCleanup
<1> QED
  BY <1>2, <1>3, <1>4, <1>5 DEF Inv

\* A step of the fuzzer, or a signal it gets, is about its own processes.
Own ==
  /\ Alive /\ UNCHANGED camp
  /\ \A c \in Camp : c # camp =>
       /\ \A r \in Role : Running(c, r)' = Running(c, r)
       /\ ended'[c] = ended[c] /\ loose'[c] = loose[c] /\ (c \in shm' <=> c \in shm)

LEMMA OwnPast ==
  ASSUME Types, Inv, Own, Left(camp)' PROVE Past'
<1>1. camp \in Camp /\ camp' = camp
  BY DEF Types, TypeOK, FuzzerTypes, Own
<1>2. ASSUME NEW c \in Camp, c # camp PROVE (c > camp => Unstarted(c)') /\ Left(c)'
  BY <1>2 DEF Inv, Own, Past, Left, Unstarted
<1>3. ~(camp > camp)
  BY <1>1, ShutdownAssumption DEF Camp
<1> QED
  BY <1>1, <1>2, <1>3 DEF Past

LEMMA FuzzerStep ==
  ASSUME Types, Inv, Fuzzer, ~NewCampaign
  PROVE  Own /\ Left(camp)' /\ NotEnded' /\ InExecution' /\ InCleanup'
<1>1. CASE SetupShm
  <2>1. Own
    BY <1>1 DEF SetupShm, Own, Alive, Running, Types, TypeOK, FuzzerTypes,
       ProcessTypes, KernelTypes
  <2>2. Left(camp)' /\ NotEnded'
    BY <1>1 DEF SetupShm, Left, Inv, NotEnded, Alive, Running, InCleanup, Called,
       Role, Types, TypeOK, FuzzerTypes, ProcessTypes
  <2>3. InExecution'
    BY <1>1 DEF SetupShm, Inv, InExecution, Running, Role, Types, TypeOK,
       FuzzerTypes, ProcessTypes
  <2>4. InCleanup'
    BY <1>1 DEF SetupShm, Inv, InExecution, InCleanup, Running, Role, Types, TypeOK,
       FuzzerTypes, ProcessTypes
  <2> QED
    BY <2>1, <2>2, <2>3, <2>4
<1>2. CASE CreateQueue("queue", "handlers")
  <2>1. Own
    BY <1>2 DEF CreateQueue, Own, Alive, Running, Types, TypeOK, FuzzerTypes,
       ProcessTypes, KernelTypes
  <2>2. Left(camp)' /\ NotEnded'
    BY <1>2 DEF CreateQueue, Left, Inv, NotEnded, Alive, Running, InCleanup, Called,
       Role, Types, TypeOK, FuzzerTypes, ProcessTypes
  <2>3. InExecution'
    BY <1>2 DEF CreateQueue, Inv, InExecution, Running, Role, Types, TypeOK,
       FuzzerTypes, ProcessTypes
  <2>4. InCleanup'
    BY <1>2 DEF CreateQueue, Inv, InExecution, InCleanup, Running, Role, Types,
       TypeOK, FuzzerTypes, ProcessTypes
  <2> QED
    BY <2>1, <2>2, <2>3, <2>4
<1>3. CASE SetupHandlers
  <2>1. Own
    BY <1>3 DEF SetupHandlers, Own, Alive, Running, Types, TypeOK, FuzzerTypes,
       ProcessTypes, KernelTypes
  <2>2. Left(camp)' /\ NotEnded'
    BY <1>3 DEF SetupHandlers, Left, Inv, NotEnded, Alive, Running, InCleanup,
       Called, Role, Types, TypeOK, FuzzerTypes, ProcessTypes
  <2>3. InExecution'
    BY <1>3 DEF SetupHandlers, Inv, InExecution, Running, Role, Types, TypeOK,
       FuzzerTypes, ProcessTypes
  <2>4. InCleanup'
    BY <1>3 DEF SetupHandlers, Inv, InExecution, InCleanup, Running, Role, Types,
       TypeOK, FuzzerTypes, ProcessTypes
  <2> QED
    BY <2>1, <2>2, <2>3, <2>4
<1>4. CASE BeginExec
  <2>1. Own
    BY <1>4 DEF BeginExec, Own, Alive, Running, Types, TypeOK, FuzzerTypes,
       ProcessTypes, KernelTypes
  <2>2. Left(camp)' /\ NotEnded'
    BY <1>4 DEF BeginExec, Left, Inv, NotEnded, Alive, Running, InCleanup, Called,
       Role, Types, TypeOK, FuzzerTypes, ProcessTypes
  <2>3. InExecution'
    BY <1>4 DEF BeginExec, Inv, InExecution, Running, Role, Types, TypeOK,
       FuzzerTypes, ProcessTypes
  <2>4. InCleanup'
    BY <1>4 DEF BeginExec, Inv, InExecution, InCleanup, Running, Role, Types, TypeOK,
       FuzzerTypes, ProcessTypes
  <2> QED
    BY <2>1, <2>2, <2>3, <2>4
<1>5. CASE Fork
  <2>1. Own
    BY <1>5 DEF Fork, Own, Alive, Running, Types, TypeOK, FuzzerTypes, ProcessTypes,
       KernelTypes
  <2>2. Left(camp)' /\ NotEnded'
    BY <1>5 DEF Fork, Left, Inv, NotEnded, Alive, Running, InCleanup, Called, Role,
       Types, TypeOK, FuzzerTypes, ProcessTypes
  <2>3. InExecution'
    BY <1>5 DEF Fork, Inv, InExecution, Running, Role, Types, TypeOK, FuzzerTypes,
       ProcessTypes
  <2>4. InCleanup'
    BY <1>5 DEF Fork, Inv, InExecution, InCleanup, Running, Role, Types, TypeOK,
       FuzzerTypes, ProcessTypes
  <2> QED
    BY <2>1, <2>2, <2>3, <2>4
<1>6. CASE ForkFails
  <2>1. Own
    BY <1>6 DEF ForkFails, Own, Alive, Running, Types, TypeOK, FuzzerTypes,
       ProcessTypes, KernelTypes
  <2>2. Left(camp)' /\ NotEnded'
    BY <1>6 DEF ForkFails, Left, Inv, NotEnded, Alive, Running, InCleanup, Called,
       Role, Types, TypeOK, FuzzerTypes, ProcessTypes
  <2>3. InExecution'
    BY <1>6 DEF ForkFails, Inv, InExecution, Running, Role, Types, TypeOK,
       FuzzerTypes, ProcessTypes
  <2>4. InCleanup'
    BY <1>6 DEF ForkFails, Inv, InExecution, InCleanup, Running, Role, Types, TypeOK,
       FuzzerTypes, ProcessTypes
  <2> QED
    BY <2>1, <2>2, <2>3, <2>4
<1>7. CASE Store
  <2>1. Own
    BY <1>7 DEF Store, After, Own, Alive, Running, Types, TypeOK, FuzzerTypes,
       ProcessTypes, KernelTypes
  <2>2. Left(camp)' /\ NotEnded'
    BY <1>7 DEF Store, After, Left, Inv, NotEnded, Alive, Running, InCleanup, Called,
       Role, Types, TypeOK, FuzzerTypes, ProcessTypes
  <2>3. InExecution'
    BY <1>7 DEF Store, After, Inv, InExecution, Running, Role, Types, TypeOK,
       FuzzerTypes, ProcessTypes
  <2>4. InCleanup'
    BY <1>7 DEF Store, After, Inv, InExecution, InCleanup, Running, Role, Types,
       TypeOK, FuzzerTypes, ProcessTypes
  <2> QED
    BY <2>1, <2>2, <2>3, <2>4
<1>8. CASE WaitForTarget
  <2>1. Own
    BY <1>8 DEF WaitForTarget, TargetEnded, Own, Alive, Running, Types, TypeOK,
       FuzzerTypes, ProcessTypes, KernelTypes
  <2>2. Left(camp)' /\ NotEnded'
    BY <1>8 DEF WaitForTarget, TargetEnded, Left, Inv, NotEnded, Alive, Running,
       InCleanup, Called, Role, Types, TypeOK, FuzzerTypes, ProcessTypes
  <2>3. InExecution'
    BY <1>8 DEF WaitForTarget, TargetEnded, Inv, InExecution, Running, Role, Types,
       TypeOK, FuzzerTypes, ProcessTypes
  <2>4. InCleanup'
    BY <1>8 DEF WaitForTarget, TargetEnded, Inv, InExecution, InCleanup, Running,
       Role, Types, TypeOK, FuzzerTypes, ProcessTypes
  <2> QED
    BY <2>1, <2>2, <2>3, <2>4
<1>9. CASE EndBsim
  <2>1. Own
    BY <1>9 DEF EndBsim, Reaped, Own, Alive, Running, Types, TypeOK, FuzzerTypes,
       ProcessTypes, KernelTypes
  <2>2. Left(camp)' /\ NotEnded'
    BY <1>9 DEF EndBsim, Reaped, Left, Inv, NotEnded, Alive, Running, InCleanup,
       Called, Role, Types, TypeOK, FuzzerTypes, ProcessTypes
  <2>3. InExecution'
    BY <1>9 DEF EndBsim, Reaped, Inv, InExecution, Running, Role, Types, TypeOK,
       FuzzerTypes, ProcessTypes
  <2>4. InCleanup'
    BY <1>9 DEF EndBsim, Reaped, Inv, InExecution, InCleanup, Running, Role, Types,
       TypeOK, FuzzerTypes, ProcessTypes
  <2> QED
    BY <2>1, <2>2, <2>3, <2>4
<1>10. CASE EndAttacker
  <2>1. Own
    BY <1>10 DEF EndAttacker, Reaped, Own, Alive, Running, Types, TypeOK,
       FuzzerTypes, ProcessTypes, KernelTypes
  <2>2. Left(camp)' /\ NotEnded'
    BY <1>10 DEF EndAttacker, Reaped, Left, Inv, NotEnded, Alive, Running, InCleanup,
       Called, Role, Types, TypeOK, FuzzerTypes, ProcessTypes
  <2>3. InExecution'
    BY <1>10 DEF EndAttacker, Reaped, Inv, InExecution, Running, Role, Types, TypeOK,
       FuzzerTypes, ProcessTypes
  <2>4. InCleanup'
    BY <1>10 DEF EndAttacker, Reaped, Inv, InExecution, InCleanup, Running, Role,
       Types, TypeOK, FuzzerTypes, ProcessTypes
  <2> QED
    BY <2>1, <2>2, <2>3, <2>4
<1>11. CASE ResetQueue
  <2>1. Own
    BY <1>11 DEF ResetQueue, Own, Alive, Running, Types, TypeOK, FuzzerTypes,
       ProcessTypes, KernelTypes
  <2>2. Left(camp)' /\ NotEnded'
    BY <1>11 DEF ResetQueue, Left, Inv, NotEnded, Alive, Running, InCleanup, Called,
       Role, Types, TypeOK, FuzzerTypes, ProcessTypes
  <2>3. InExecution'
    BY <1>11 DEF ResetQueue, Inv, InExecution, Running, Role, Types, TypeOK,
       FuzzerTypes, ProcessTypes
  <2>4. InCleanup'
    BY <1>11 DEF ResetQueue, Inv, InExecution, InCleanup, Running, Role, Types,
       TypeOK, FuzzerTypes, ProcessTypes
  <2> QED
    BY <2>1, <2>2, <2>3, <2>4
<1>12. CASE CreateQueue("create", "join")
  <2>1. Own
    BY <1>12 DEF CreateQueue, Own, Alive, Running, Types, TypeOK, FuzzerTypes,
       ProcessTypes, KernelTypes
  <2>2. Left(camp)' /\ NotEnded'
    BY <1>12 DEF CreateQueue, Left, Inv, NotEnded, Alive, Running, InCleanup, Called,
       Role, Types, TypeOK, FuzzerTypes, ProcessTypes
  <2>3. InExecution'
    BY <1>12 DEF CreateQueue, Inv, InExecution, Running, Role, Types, TypeOK,
       FuzzerTypes, ProcessTypes
  <2>4. InCleanup'
    BY <1>12 DEF CreateQueue, Inv, InExecution, InCleanup, Running, Role, Types,
       TypeOK, FuzzerTypes, ProcessTypes
  <2> QED
    BY <2>1, <2>2, <2>3, <2>4
<1>13. CASE Join
  <2>1. Own
    BY <1>13 DEF Join, Reaped, Own, Alive, Running, Types, TypeOK, FuzzerTypes,
       ProcessTypes, KernelTypes
  <2>2. Left(camp)' /\ NotEnded'
    BY <1>13 DEF Join, Reaped, Left, Inv, NotEnded, Alive, Running, InCleanup,
       Called, Role, Types, TypeOK, FuzzerTypes, ProcessTypes
  <2>3. InExecution'
    BY <1>13 DEF Join, Reaped, Inv, InExecution, Running, Role, Types, TypeOK,
       FuzzerTypes, ProcessTypes
  <2>4. InCleanup'
    BY <1>13 DEF Join, Reaped, Inv, InExecution, InCleanup, Running, Role, Types,
       TypeOK, FuzzerTypes, ProcessTypes
  <2> QED
    BY <2>1, <2>2, <2>3, <2>4
<1>14. CASE TimerExit
  <2>1. Own
    BY <1>14 DEF TimerExit, Own, Alive, Running, Types, TypeOK, FuzzerTypes,
       ProcessTypes, KernelTypes
  <2>2. Left(camp)' /\ NotEnded'
    BY <1>14 DEF TimerExit, Left, Inv, NotEnded, Alive, Running, InCleanup, Called,
       Role, Types, TypeOK, FuzzerTypes, ProcessTypes
  <2>3. InExecution'
    BY <1>14 DEF TimerExit, Inv, InExecution, Running, Role, Types, TypeOK,
       FuzzerTypes, ProcessTypes
  <2>4. InCleanup'
    BY <1>14 DEF TimerExit, Inv, InExecution, InCleanup, Running, Role, Types,
       TypeOK, FuzzerTypes, ProcessTypes
  <2> QED
    BY <2>1, <2>2, <2>3, <2>4
<1>15. CASE CleanKill
  <2>1. Own
    BY <1>15 DEF CleanKill, After, Reaped, Own, Alive, Running, Types, TypeOK,
       FuzzerTypes, ProcessTypes, KernelTypes
  <2>2. Left(camp)' /\ NotEnded'
    BY <1>15 DEF CleanKill, After, Reaped, Left, Inv, NotEnded, Alive, Running,
       InCleanup, Called, Role, Types, TypeOK, FuzzerTypes, ProcessTypes
  <2>3. InExecution'
    BY <1>15 DEF CleanKill, After, Reaped, Inv, InExecution, Running, Role, Types,
       TypeOK, FuzzerTypes, ProcessTypes
  <2>4. ASSUME pid[child] = "zero" /\ child \in Cleaned
        PROVE  InCleanup'
    <3>1. at' = "dead"
      BY <1>15, <2>4 DEF CleanKill
    <3> QED
      BY <3>1 DEF InCleanup
  <2>5. ASSUME ~(pid[child] = "zero" /\ child \in Cleaned)
        PROVE  InCleanup'
    <3>1. /\ UNCHANGED <<camp, how, loose, pid>> /\ child' = After(child)
          /\ at' = IF child = "interceptor" THEN "cleanshm" ELSE "clean"
      BY <1>15, <2>5 DEF CleanKill
    <3>2. \A r \in Role : Running(camp, r)' =>
            Running(camp, r) /\ (r = child /\ child \in Cleaned => pid[r] # "known")
      <4>1. CASE pid[child] = "known" /\ child \in Cleaned
        BY <1>15, <2>5, <4>1 DEF CleanKill, Reaped, Running, Types, TypeOK,
           FuzzerTypes, ProcessTypes
      <4>2. CASE ~(pid[child] = "known" /\ child \in Cleaned)
        BY <1>15, <2>5, <4>2 DEF CleanKill, Running
      <4> QED
        BY <4>1, <4>2
    <3>3. \A r \in Role : Running(camp, r) =>
            /\ how = "signal" /\ (pid[r] = "known" \/ r = loose[camp])
            /\ r = "bsim" /\ child # "bsim" => r = loose[camp]
            /\ r = "attacker" /\ child = "interceptor" => r = loose[camp]
      BY <1>15 DEF CleanKill, Inv, InCleanup
    <3>4. child \in Role
      BY DEF Types, TypeOK, FuzzerTypes
    <3>5. CASE child = "bsim"
      BY <3>1, <3>2, <3>3, <3>5 DEF InCleanup, After, Cleaned, Running, Role
    <3>6. CASE child = "target"
      BY <3>1, <3>2, <3>3, <3>6 DEF InCleanup, After, Cleaned, Running, Role
    <3>7. CASE child = "attacker"
      BY <3>1, <3>2, <3>3, <3>7 DEF InCleanup, After, Cleaned, Running, Role
    <3>8. CASE child = "interceptor"
      BY <3>1, <3>2, <3>3, <3>8 DEF InCleanup, Cleaned, Running, Role
    <3> QED
      BY <3>4, <3>5, <3>6, <3>7, <3>8 DEF Role
  <2> QED
    BY <2>1, <2>2, <2>3, <2>4, <2>5
<1>16. CASE CleanShm
  <2>1. Own
    BY <1>16 DEF CleanShm, Own, Alive, Running, Types, TypeOK, FuzzerTypes,
       ProcessTypes, KernelTypes
  <2>2. Left(camp)' /\ NotEnded'
    BY <1>16 DEF CleanShm, Left, Inv, NotEnded, Alive, Running, InCleanup, Called,
       Role, Types, TypeOK, FuzzerTypes, ProcessTypes
  <2>3. InExecution'
    BY <1>16 DEF CleanShm, Inv, InExecution, Running, Role, Types, TypeOK,
       FuzzerTypes, ProcessTypes
  <2>4. InCleanup'
    BY <1>16 DEF CleanShm, Inv, InExecution, InCleanup, Running, Role, Types, TypeOK,
       FuzzerTypes, ProcessTypes
  <2> QED
    BY <2>1, <2>2, <2>3, <2>4
<1>17. CASE CleanQueue
  <2>1. Own
    BY <1>17 DEF CleanQueue, Own, Alive, Running, Types, TypeOK, FuzzerTypes,
       ProcessTypes, KernelTypes
  <2>2. Left(camp)' /\ NotEnded'
    BY <1>17 DEF CleanQueue, Left, Inv, NotEnded, Alive, Running, InCleanup, Called,
       Role, Types, TypeOK, FuzzerTypes, ProcessTypes
  <2>3. InExecution'
    BY <1>17 DEF CleanQueue, Inv, InExecution, Running, Role, Types, TypeOK,
       FuzzerTypes, ProcessTypes
  <2>4. InCleanup'
    BY <1>17 DEF CleanQueue, Inv, InExecution, InCleanup, Running, Role, Types,
       TypeOK, FuzzerTypes, ProcessTypes
  <2> QED
    BY <2>1, <2>2, <2>3, <2>4
<1>18. CASE CleanStack
  <2>1. Own
    BY <1>18 DEF CleanStack, Unmapped, Own, Alive, Running, Types, TypeOK,
       FuzzerTypes, ProcessTypes, KernelTypes
  <2>2. Left(camp)' /\ NotEnded'
    BY <1>18 DEF CleanStack, Unmapped, Left, Inv, NotEnded, Alive, Running,
       InCleanup, Called, Role, Types, TypeOK, FuzzerTypes, ProcessTypes
  <2>3. InExecution'
    BY <1>18 DEF CleanStack, Unmapped, Inv, InExecution, Running, Role, Types,
       TypeOK, FuzzerTypes, ProcessTypes
  <2>4. InCleanup'
    BY <1>18 DEF CleanStack, Unmapped, Inv, InExecution, InCleanup, Running, Role,
       Types, TypeOK, FuzzerTypes, ProcessTypes
  <2> QED
    BY <2>1, <2>2, <2>3, <2>4
<1> QED
  BY <1>1, <1>2, <1>3, <1>4, <1>5, <1>6, <1>7, <1>8, <1>9, <1>10, <1>11, <1>12,
     <1>13, <1>14, <1>15, <1>16, <1>17, <1>18 DEF Fuzzer

LEMMA SignalStep ==
  ASSUME Types, Inv, Signal
  PROVE  Own /\ Left(camp)' /\ NotEnded' /\ InExecution' /\ InCleanup'
<1>1. ASSUME NEW s \in Sig, Handled(s)
      PROVE  Own /\ Left(camp)' /\ NotEnded' /\ InExecution' /\ InCleanup'
  <2>1. Own
    BY <1>1 DEF Handled, Alive, Own, Running, Types, TypeOK, FuzzerTypes,
       ProcessTypes, KernelTypes
  <2>2. Left(camp)' /\ NotEnded'
    BY <1>1 DEF Handled, Alive, Left, Inv, NotEnded, Running, Role, Types, TypeOK,
       FuzzerTypes, ProcessTypes
  <2>3. InExecution'
    BY <1>1 DEF Handled, Alive, Inv, InExecution, Running, Role, Types, TypeOK,
       FuzzerTypes, ProcessTypes
  <2>4. InCleanup'
    BY <1>1 DEF Handled, Alive, Inv, InExecution, InCleanup, Called, Running, Role,
       Types, TypeOK, FuzzerTypes, ProcessTypes
  <2> QED
    BY <2>1, <2>2, <2>3, <2>4
<1>2. ASSUME NEW s \in Sig, Default(s)
      PROVE  Own /\ Left(camp)' /\ NotEnded' /\ InExecution' /\ InCleanup'
  <2>1. Own
    BY <1>2 DEF Default, Alive, Own, Running, Types, TypeOK, FuzzerTypes,
       ProcessTypes, KernelTypes
  <2>2. Left(camp)' /\ NotEnded'
    BY <1>2 DEF Default, Alive, Left, Inv, NotEnded, Running, Role, Types, TypeOK,
       FuzzerTypes, ProcessTypes
  <2>3. InExecution'
    BY <1>2 DEF Default, Alive, Inv, InExecution, Running, Role, Types, TypeOK,
       FuzzerTypes, ProcessTypes
  <2>4. InCleanup'
    BY <1>2 DEF Default, Alive, Inv, InExecution, InCleanup, Called, Running, Role,
       Types, TypeOK, FuzzerTypes, ProcessTypes
  <2> QED
    BY <2>1, <2>2, <2>3, <2>4
<1> QED
  BY <1>1, <1>2 DEF Signal

LEMMA NewCampaignStep == ASSUME Types, Inv, NewCampaign PROVE Inv'
<1>1. camp + 1 \in Camp /\ camp + 1 > camp /\ camp' = camp + 1
  BY NextCamp DEF NewCampaign, Types, TypeOK, FuzzerTypes, Camp
<1>2. UNCHANGED <<ended, loose, proc, shm>> /\ at' = "shm"
  BY DEF NewCampaign
<1>3. Unstarted(camp + 1)
  BY <1>1 DEF Inv, Past
<1>4. \A c \in Camp : c > camp + 1 => c > camp
  BY DEF Camp, Types, TypeOK, FuzzerTypes
<1>5. Past'
  BY <1>1, <1>2, <1>4 DEF Inv, Past, Left, Unstarted, Running
<1>6. NotEnded' /\ InExecution' /\ InCleanup'
  BY <1>1, <1>2, <1>3 DEF NotEnded, InExecution, InCleanup, Unstarted, Running
<1> QED
  BY <1>5, <1>6 DEF Inv

LEMMA InvStep == ASSUME Types, Inv, [Next]_vars PROVE Inv'
<1>1. CASE Fuzzer /\ ~NewCampaign
  BY <1>1, FuzzerStep, OwnPast DEF Inv
<1>2. CASE NewCampaign
  BY <1>2, NewCampaignStep
<1>3. CASE Signal
  BY <1>3, SignalStep, OwnPast DEF Inv
<1>4. CASE \E c \in Camp : Interceptor(c) \/ Target(c)
  BY <1>4, PassiveStep, PassiveInv
<1>5. CASE UNCHANGED vars
  <2>1. OnlyEnds
    BY <1>5 DEF vars, fuzzer, OnlyEnds, Running
  <2> QED
    BY <2>1, PassiveInv
<1> QED
  BY <1>1, <1>2, <1>3, <1>4, <1>5 DEF Next

LEMMA InitInv == Init => Inv
<1> SUFFICES ASSUME Init PROVE Inv
  OBVIOUS
<1>1. \A c \in Camp, r \in Role : ~Running(c, r) /\ ended[c] = "no"
  BY DEF Init, Running
<1>2. camp \in Camp /\ at = "shm"
  BY Camps DEF Init
<1> QED
  BY <1>1, <1>2 DEF Inv, Past, Left, Unstarted, NotEnded, InExecution, InCleanup, Role

LEMMA ShutdownInv == Spec => [](Types /\ Inv)
<1>1. Init => Types /\ Inv
  BY InitTypes, InitInv
<1>2. Types /\ Inv /\ [Next]_vars => (Types /\ Inv)'
  BY TypesStep, InvStep
<1> QED
  BY <1>1, <1>2, PTL DEF Spec

\* A campaign that its TIMER ends, in any sequence of campaigns, leaves no
\* process of its own behind and no segment.
THEOREM TimerIsClean == Spec => []TimerLeavesNothing
<1>1. Inv => TimerLeavesNothing
  BY DEF Inv, Past, Left, TimerLeavesNothing
<1> QED
  BY ShutdownInv, <1>1, PTL

-----------------------------------------------------------------------------
(* Counting messages *)

\* The positions of a sequence that hold a member of T.
Pos(s, T) == {k \in DOMAIN s : s[k] \in T}

LEMMA PosFinite ==
  ASSUME NEW S, NEW s \in Seq(S), NEW T
  PROVE  IsFiniteSet(Pos(s, T)) /\ Cardinality(Pos(s, T)) \in Nat
<1>1. IsFiniteSet(1..Len(s))
  BY FS_Interval
<1>2. Pos(s, T) \in SUBSET (1..Len(s))
  BY DEF Pos
<1> QED
  BY <1>1, <1>2, FS_Subset, FS_CardinalityType

LEMMA PosEmpty == ASSUME NEW T PROVE Cardinality(Pos(<< >>, T)) = 0
<1>1. Pos(<< >>, T) = {}
  BY DEF Pos
<1> QED
  BY <1>1, FS_EmptySet

LEMMA PosAppend ==
  ASSUME NEW S, NEW s \in Seq(S), NEW e \in S, NEW T
  PROVE  Cardinality(Pos(Append(s, e), T)) =
           Cardinality(Pos(s, T)) + (IF e \in T THEN 1 ELSE 0)
<1>1. /\ DOMAIN Append(s, e) = DOMAIN s \cup {Len(s) + 1}
      /\ Append(s, e)[Len(s) + 1] = e
      /\ \A k \in DOMAIN s : Append(s, e)[k] = s[k]
      /\ Len(s) + 1 \notin DOMAIN s
  OBVIOUS
<1>2. CASE e \in T
  <2>1. Pos(Append(s, e), T) = Pos(s, T) \cup {Len(s) + 1} /\ Len(s) + 1 \notin Pos(s, T)
    BY <1>1, <1>2 DEF Pos
  <2> QED
    BY <1>2, <2>1, PosFinite, FS_AddElement
<1>3. CASE e \notin T
  <2>1. Pos(Append(s, e), T) = Pos(s, T)
    BY <1>1, <1>3 DEF Pos
  <2> QED
    BY <1>3, <2>1, PosFinite
<1> QED
  BY <1>2, <1>3

\* Without its first message the positions move by one.
LEMMA PosTail ==
  ASSUME NEW S, NEW s \in Seq(S), s # << >>, NEW T
  PROVE  Cardinality(Pos(Tail(s), T)) =
           Cardinality(Pos(s, T)) - (IF Head(s) \in T THEN 1 ELSE 0)
<1> DEFINE A == Pos(Tail(s), T)
           B == Pos(s, T)
           f == [k \in A |-> k + 1]
<1>1. /\ Tail(s) \in Seq(S) /\ Len(Tail(s)) = Len(s) - 1 /\ Len(s) \in Nat \ {0}
      /\ \A k \in 1..Len(Tail(s)) : Tail(s)[k] = s[k + 1]
  OBVIOUS
<1>2. Head(s) = s[1] /\ DOMAIN s = 1..Len(s) /\ DOMAIN Tail(s) = 1..Len(Tail(s))
  OBVIOUS
<1>3. f \in Bijection(A, B \ {1})
  <2>1. A \subseteq Nat /\ \A k \in A : k + 1 \in B \ {1}
    BY <1>1, <1>2 DEF Pos
  <2>2. f \in Injection(A, B \ {1})
    BY <2>1 DEF Injection, IsInjective
  <2>3. ASSUME NEW k \in B \ {1} PROVE \E j \in A : f[j] = k
    <3>1. k \in 1..Len(s) /\ k # 1 /\ s[k] \in T
      BY <1>2 DEF Pos
    <3>2. k - 1 \in 1..Len(Tail(s)) /\ (k - 1) + 1 = k
      BY <1>1, <3>1
    <3>3. k - 1 \in A
      BY <1>1, <1>2, <3>1, <3>2 DEF Pos
    <3> QED
      BY <3>2, <3>3
  <2> QED
    BY <2>1, <2>2, <2>3 DEF Bijection, Surjection, Injection
<1>4. IsFiniteSet(A) /\ IsFiniteSet(B) /\ Cardinality(B) \in Nat
  BY <1>1, PosFinite
<1>5. Cardinality(A) = Cardinality(B \ {1})
  BY <1>3, <1>4, FS_Bijection DEF ExistsBijection
<1>6. 1 \in B <=> Head(s) \in T
  BY <1>1, <1>2 DEF Pos
<1>7. Cardinality(B \ {1}) = IF 1 \in B THEN Cardinality(B) - 1 ELSE Cardinality(B)
  BY <1>4, FS_RemoveElement
<1> HIDE DEF A, B
<1>8. Cardinality(A) = Cardinality(B) - (IF Head(s) \in T THEN 1 ELSE 0)
  BY <1>4, <1>5, <1>6, <1>7
<1> QED
  BY <1>8 DEF A, B

-----------------------------------------------------------------------------
(* Whose messages a queue holds *)

\* The acknowledgements meant for the target of campaign c.
AcksFor(c) == {a \in Ack : a.camp = c}

Packets(c) == Cardinality(Pos(mq.pkts, {c}))
Answers(c) == Cardinality(Pos(mq.acks, AcksFor(c)))

\* Interceptors that will answer a packet of c into the queue there is.
HoldersOf(c) == {d \in Camp : /\ Running(d, "interceptor") /\ ipc[d] = "ack"
                              /\ held[d] = c /\ qid[d] = mq.id}

\* The target of c is about to send into it, or to look up the one it will find.
MaySend(c) == /\ Running(c, "target")
              /\ tpc[c] = "lookup" \/ (tpc[c] = "send" /\ tqid[c] = mq.id)

\* What a campaign puts into the queue, or still can without a new packet of its
\* target: each message is in one place on its way there and back.
Claim(c) == Packets(c) + Answers(c) + Cardinality(HoldersOf(c))
            + (IF MaySend(c) THEN 1 ELSE 0)

\* Nothing is left of a campaign, or at most one message and no new packets.
Gone(c) == Claim(c) = 0 /\ ~Running(c, "target")
Spent(c) == Claim(c) <= 1 /\ ~(Running(c, "bsim") /\ Running(c, "attacker"))

\* Ids of queues are new, and 0 is none of them.
Ids ==
  /\ mq.id <= ids /\ (mq.id = 0 => mq = NoQueue)
  /\ \A c \in Camp :
       /\ qid[c] <= ids /\ tqid[c] <= ids
       /\ tpc[c] = "send" => tqid[c] # 0
       /\ Running(c, "interceptor") /\ ipc[c] = "ack" => qid[c] # 0

\* A signal before setup_sighandler is not handled.
NoHandlers == at \in {"shm", "queue", "handlers"} => \A s \in Sig : disp[s] # "handler"

\* The queue under the key is that of the fuzzer, but for the time between its
\* deletion and its creation, when an older target may create another.
OwnQueue == mq.id = qid[camp] /\ mq.id # 0

Places ==
  /\ at \in {"handlers", "idle", "fork", "store", "wait", "endbsim", "endattacker",
             "reset", "join"} => OwnQueue
  /\ at = "create" => Gone(camp) /\ ~Running(camp, "interceptor")
  /\ at \in {"clean", "cleanshm", "cleanqueue"} => OwnQueue \/ Gone(camp)
  /\ at = "cleanstack" => IF how = "timer" THEN Gone(camp) ELSE Spent(camp)

Ends == \A c \in Camp : /\ ended[c] = "timer" => Gone(c)
                        /\ ended[c] = "signal" => Spent(c)

QInv == Ids /\ NoHandlers /\ Places /\ Ends

LEMMA QueueSeqs ==
  ASSUME Types PROVE mq.pkts \in Seq(Camp) /\ mq.acks \in Seq(Ack) /\ mq.id \in Nat /\ ids \in Nat
BY DEF Types, TypeOK, KernelTypes

LEMMA HoldersFinite ==
  ASSUME NEW c \in Camp
  PROVE  IsFiniteSet(HoldersOf(c)) /\ Cardinality(HoldersOf(c)) \in Nat
<1>1. IsFiniteSet(Camp)
  BY ShutdownAssumption, FS_Interval DEF Camp
<1>2. HoldersOf(c) \in SUBSET Camp
  BY DEF HoldersOf
<1> QED
  BY <1>1, <1>2, FS_Subset, FS_CardinalityType

LEMMA ClaimNat ==
  ASSUME Types, NEW c \in Camp
  PROVE  /\ Packets(c) \in Nat /\ Answers(c) \in Nat /\ Cardinality(HoldersOf(c)) \in Nat
         /\ Claim(c) \in Nat
<1>1. Packets(c) \in Nat /\ Answers(c) \in Nat
  BY QueueSeqs, PosFinite DEF Packets, Answers
<1> QED
  BY <1>1, HoldersFinite DEF Claim

LEMMA ClaimNatNext ==
  ASSUME Types', NEW c \in Camp
  PROVE  /\ Packets(c)' \in Nat /\ Answers(c)' \in Nat
         /\ IsFiniteSet(HoldersOf(c)') /\ Cardinality(HoldersOf(c)') \in Nat
         /\ Claim(c)' \in Nat
<1>1. mq'.pkts \in Seq(Camp) /\ mq'.acks \in Seq(Ack)
  BY DEF Types, TypeOK, KernelTypes
<1>2. Packets(c)' \in Nat /\ Answers(c)' \in Nat
  BY <1>1, PosFinite DEF Packets, Answers
<1>3. IsFiniteSet(Camp) /\ HoldersOf(c)' \in SUBSET Camp
  BY ShutdownAssumption, FS_Interval DEF Camp, HoldersOf
<1>4. IsFiniteSet(HoldersOf(c)') /\ Cardinality(HoldersOf(c)') \in Nat
  BY <1>3, FS_Subset, FS_CardinalityType
<1> QED
  BY <1>2, <1>4 DEF Claim

\* The claim of a campaign does not grow when no part of it does.
LEMMA ClaimLess ==
  ASSUME Types, Types', NEW c \in Camp,
         Packets(c)' <= Packets(c), Answers(c)' <= Answers(c),
         HoldersOf(c)' \subseteq HoldersOf(c), MaySend(c)' => MaySend(c)
  PROVE  Claim(c)' <= Claim(c)
<1>1. Cardinality(HoldersOf(c)') <= Cardinality(HoldersOf(c))
  BY HoldersFinite, FS_Subset
<1>2. (IF MaySend(c)' THEN 1 ELSE 0) <= (IF MaySend(c) THEN 1 ELSE 0)
  OBVIOUS
<1> QED
  BY <1>1, <1>2, ClaimNat, ClaimNatNext DEF Claim

LEMMA ClaimSame ==
  ASSUME Types, Types', NEW c \in Camp, UNCHANGED mq,
         HoldersOf(c)' \subseteq HoldersOf(c), MaySend(c)' => MaySend(c)
  PROVE  Claim(c)' <= Claim(c)
<1>1. Packets(c)' = Packets(c) /\ Answers(c)' = Answers(c)
  BY DEF Packets, Answers
<1> QED
  BY <1>1, ClaimLess, ClaimNat

LEMMA KeepsEnd ==
  ASSUME Types, Types', NEW c \in Camp, Claim(c)' <= Claim(c),
         \A r \in Role : Running(c, r)' => Running(c, r)
  PROVE  (Gone(c) => Gone(c)') /\ (Spent(c) => Spent(c)')
BY ClaimNat, ClaimNatNext DEF Gone, Spent, Role

\* A packet goes from the queue into the hands of an interceptor,
LEMMA ReceiveClaim ==
  ASSUME Types, Types', NEW c \in Camp, NEW d \in Camp, Receive(d)
  PROVE  Claim(c)' <= Claim(c)
<1>1. /\ mq \in Queue /\ mq.pkts \in Seq(Camp) /\ mq.pkts # << >>
      /\ mq' = [mq EXCEPT !.pkts = Tail(mq.pkts)]
      /\ held' = [held EXCEPT ![d] = Head(mq.pkts)]
      /\ ipc' = [ipc EXCEPT ![d] = "ack"]
      /\ UNCHANGED <<proc, tpc, tqid, qid>>
  BY QueueSeqs DEF Receive, Types, TypeOK, KernelTypes, Queue, targets
<1>2. mq'.pkts = Tail(mq.pkts) /\ mq'.acks = mq.acks /\ mq'.id = mq.id
  BY <1>1 DEF Queue
<1>3. Packets(c)' = Packets(c) - (IF Head(mq.pkts) = c THEN 1 ELSE 0)
  BY <1>1, <1>2, PosTail DEF Packets
<1>4. Answers(c)' = Answers(c)
  BY <1>2 DEF Answers
<1>5. MaySend(c)' <=> MaySend(c)
  BY <1>1, <1>2 DEF MaySend, Running
<1>6. CASE Head(mq.pkts) = c
  <2>1. HoldersOf(c)' \subseteq HoldersOf(c) \cup {d}
    BY <1>1, <1>2 DEF HoldersOf, Running, Types, TypeOK, ProcessTypes
  <2>2. /\ IsFiniteSet(HoldersOf(c) \cup {d})
        /\ Cardinality(HoldersOf(c) \cup {d}) =
             IF d \in HoldersOf(c) THEN Cardinality(HoldersOf(c))
                                  ELSE Cardinality(HoldersOf(c)) + 1
    BY HoldersFinite, FS_AddElement
  <2>3. Cardinality(HoldersOf(c)') <= Cardinality(HoldersOf(c) \cup {d})
    BY <2>1, <2>2, FS_Subset
  <2>4. Cardinality(HoldersOf(c) \cup {d}) \in Nat
    BY <2>2, FS_CardinalityType
  <2> QED
    BY <1>3, <1>4, <1>5, <1>6, <2>2, <2>3, <2>4, ClaimNat, ClaimNatNext DEF Claim
<1>7. CASE Head(mq.pkts) # c
  <2>1. HoldersOf(c)' \subseteq HoldersOf(c)
    BY <1>1, <1>2, <1>7 DEF HoldersOf, Running, Types, TypeOK, ProcessTypes
  <2> QED
    BY <1>3, <1>4, <1>5, <1>7, <2>1, ClaimLess, ClaimNat
<1> QED
  BY <1>6, <1>7

\* from there back into it as its answer,
LEMMA AnswerClaim ==
  ASSUME Types, Types', NEW c \in Camp, NEW d \in Camp, Answer(d)
  PROVE  Claim(c)' <= Claim(c)
<1>1. PICK last \in BOOLEAN :
        /\ mq' = [mq EXCEPT !.acks = Append(mq.acks, [camp |-> held[d], last |-> last])]
        /\ ipc' = [ipc EXCEPT ![d] = IF last THEN "exit" ELSE "recv"]
  BY DEF Answer
<1> DEFINE ack == [camp |-> held[d], last |-> last]
<1>2. /\ mq \in Queue /\ mq.acks \in Seq(Ack) /\ mq.id = qid[d]
      /\ held' = [held EXCEPT ![d] = 0] /\ Running(d, "interceptor") /\ ipc[d] = "ack"
      /\ UNCHANGED <<proc, tpc, tqid, qid>>
  BY QueueSeqs DEF Answer, Types, TypeOK, KernelTypes, Queue, targets
<1>3. mq'.pkts = mq.pkts /\ mq'.acks = Append(mq.acks, ack) /\ mq'.id = mq.id
  BY <1>1, <1>2 DEF Queue
<1>4. held[d] \in Camp /\ ack \in Ack /\ (ack \in AcksFor(c) <=> held[d] = c)
  BY <1>2 DEF Types, Handed, Ack, AcksFor
<1>5. Answers(c)' = Answers(c) + (IF held[d] = c THEN 1 ELSE 0)
  <2> HIDE DEF ack
  <2> QED
    BY <1>2, <1>3, <1>4, PosAppend DEF Answers
<1>6. Packets(c)' = Packets(c)
  BY <1>3 DEF Packets
<1>7. MaySend(c)' <=> MaySend(c)
  BY <1>2, <1>3 DEF MaySend, Running
<1>8. HoldersOf(c)' \subseteq HoldersOf(c) \ {d}
  BY <1>1, <1>2, <1>3 DEF HoldersOf, Running, Types, TypeOK, ProcessTypes
<1>9. CASE held[d] = c
  <2>1. d \in HoldersOf(c)
    BY <1>2, <1>9 DEF HoldersOf
  <2>2. /\ IsFiniteSet(HoldersOf(c) \ {d})
        /\ Cardinality(HoldersOf(c) \ {d}) = Cardinality(HoldersOf(c)) - 1
    BY <2>1, HoldersFinite, FS_RemoveElement
  <2>3. Cardinality(HoldersOf(c)') <= Cardinality(HoldersOf(c) \ {d})
    BY <1>8, <2>2, FS_Subset
  <2> QED
    BY <1>5, <1>6, <1>7, <1>9, <2>2, <2>3, ClaimNat, ClaimNatNext DEF Claim
<1>10. CASE held[d] # c
  BY <1>5, <1>6, <1>7, <1>8, <1>10, ClaimLess, ClaimNat
<1> QED
  BY <1>9, <1>10

\* and out of it again; a target sends when it was about to.
LEMMA RecvAckClaim ==
  ASSUME Types, Types', NEW c \in Camp, NEW d \in Camp, RecvAck(d)
  PROVE  Claim(c)' <= Claim(c)
<1>1. /\ mq \in Queue /\ mq.acks \in Seq(Ack) /\ mq.acks # << >>
      /\ mq' = [mq EXCEPT !.acks = Tail(mq.acks)]
      /\ tpc' = [tpc EXCEPT ![d] = "run"]
      /\ UNCHANGED <<ipc, held, tqid, qid>>
  BY QueueSeqs DEF RecvAck, Types, TypeOK, KernelTypes, Queue, interceptors
<1>2. mq'.pkts = mq.pkts /\ mq'.acks = Tail(mq.acks) /\ mq'.id = mq.id
  BY <1>1 DEF Queue
<1>3. Answers(c)' = Answers(c) - (IF Head(mq.acks) \in AcksFor(c) THEN 1 ELSE 0)
  BY <1>1, <1>2, PosTail DEF Answers
<1>4. Packets(c)' = Packets(c)
  BY <1>2 DEF Packets
<1>5. \A e \in Camp, r \in Role : Running(e, r)' => Running(e, r)
  BY PassiveStep DEF Target, OnlyEnds
<1>6. MaySend(c)' => MaySend(c)
  BY <1>1, <1>2, <1>5 DEF MaySend, Role, Types, TypeOK, ProcessTypes
<1>7. HoldersOf(c)' \subseteq HoldersOf(c)
  BY <1>1, <1>2, <1>5 DEF HoldersOf, Role
<1> QED
  BY <1>3, <1>4, <1>6, <1>7, ClaimLess, ClaimNat

LEMMA SendClaim ==
  ASSUME Types, Types', NEW c \in Camp, NEW d \in Camp, Send(d)
  PROVE  Claim(c)' <= Claim(c)
<1>1. /\ mq \in Queue /\ mq.pkts \in Seq(Camp)
      /\ mq' = [mq EXCEPT !.pkts = Append(mq.pkts, d)]
      /\ tpc' = [tpc EXCEPT ![d] = "await"] /\ tpc[d] = "send" /\ tqid[d] = mq.id
      /\ Running(d, "target")
      /\ UNCHANGED <<proc, ipc, held, tqid, qid>>
  BY QueueSeqs DEF Send, Types, TypeOK, KernelTypes, Queue, interceptors
<1>2. mq'.pkts = Append(mq.pkts, d) /\ mq'.acks = mq.acks /\ mq'.id = mq.id
  BY <1>1 DEF Queue
<1>3. Packets(c)' = Packets(c) + (IF d = c THEN 1 ELSE 0)
  BY <1>1, <1>2, PosAppend DEF Packets
<1>4. Answers(c)' = Answers(c)
  BY <1>2 DEF Answers
<1>5. HoldersOf(c)' = HoldersOf(c)
  BY <1>1, <1>2 DEF HoldersOf, Running
<1>6. /\ d = c => MaySend(c) /\ ~MaySend(c)'
      /\ d # c => (MaySend(c)' <=> MaySend(c))
  BY <1>1, <1>2 DEF MaySend, Running, Types, TypeOK, ProcessTypes
<1> QED
  BY <1>3, <1>4, <1>5, <1>6, ClaimNat DEF Claim

\* msgget finds a queue, or creates an empty one with an id nobody has.
LEMMA MsgGetQueue ==
  ASSUME Types, Ids, MsgGet
  PROVE  /\ mq'.id # 0 /\ mq'.id <= ids' /\ ids <= ids' /\ ids' \in Nat
         /\ \/ mq.id # 0 /\ mq' = mq
            \/ mq.id = 0 /\ mq'.id = ids + 1 /\ mq'.pkts = << >> /\ mq'.acks = << >>
<1>1. mq.id \in Nat /\ ids \in Nat /\ mq.id <= ids
  BY QueueSeqs DEF Ids
<1>2. CASE mq.id = 0
  <2>1. mq' = [NoQueue EXCEPT !.id = ids + 1] /\ ids' = ids + 1
    BY <1>2 DEF MsgGet
  <2>2. mq'.id = ids + 1 /\ mq'.pkts = << >> /\ mq'.acks = << >>
    BY <2>1 DEF NoQueue
  <2> QED
    BY <1>1, <1>2, <2>1, <2>2
<1>3. CASE mq.id # 0
  BY <1>1, <1>3 DEF MsgGet
<1> QED
  BY <1>2, <1>3

\* What it finds or creates holds nothing new about anyone.
LEMMA MsgGetClaim ==
  ASSUME Types, Types', Ids, MsgGet, NEW c \in Camp,
         UNCHANGED <<ipc, held>>,
         \A d \in Camp : Running(d, "interceptor")' =>
           Running(d, "interceptor") /\ qid'[d] = qid[d],
         Running(c, "target")' => Running(c, "target"),
         tpc[c] = "lookup" \/ (tpc'[c] = tpc[c] /\ tqid'[c] = tqid[c])
  PROVE  Claim(c)' <= Claim(c)
<1>1. /\ mq.id # 0 => mq' = mq
      /\ mq.id = 0 => mq'.id = ids + 1 /\ mq'.pkts = << >> /\ mq'.acks = << >>
  BY MsgGetQueue
<1>2. Packets(c)' <= Packets(c) /\ Answers(c)' <= Answers(c)
  BY <1>1, PosEmpty, ClaimNat DEF Packets, Answers
<1>3. qid \in [Camp -> Nat] /\ tqid \in [Camp -> Nat] /\ ids \in Nat
  BY DEF Types, TypeOK, ProcessTypes, KernelTypes
<1>4. \A d \in Camp : qid[d] # ids + 1 /\ tqid[d] # ids + 1
  BY <1>3 DEF Ids
<1>5. HoldersOf(c)' \subseteq HoldersOf(c)
  BY <1>1, <1>4 DEF HoldersOf
<1>6. MaySend(c)' => MaySend(c)
  BY <1>1, <1>4 DEF MaySend
<1> QED
  BY <1>2, <1>5, <1>6, ClaimLess

LEMMA LookUpClaim ==
  ASSUME Types, Types', Ids, NEW c \in Camp, NEW d \in Camp, LookUp(d)
  PROVE  Claim(c)' <= Claim(c)
<1>1. /\ MsgGet /\ UNCHANGED <<proc, ipc, held, qid>>
      /\ Running(d, "target") /\ tpc[d] = "lookup"
      /\ tqid' = [tqid EXCEPT ![d] = mq'.id] /\ tpc' = [tpc EXCEPT ![d] = "send"]
  BY DEF LookUp, interceptors
<1>2. c # d => tpc'[c] = tpc[c] /\ tqid'[c] = tqid[c]
  BY <1>1 DEF Types, TypeOK, ProcessTypes
<1> QED
  BY <1>1, <1>2, MsgGetClaim DEF Running

\* The steps of interceptors and targets add to no claim, but for a new packet.
LEMMA PassiveClaim ==
  ASSUME Types, Types', Ids, NEW c \in Camp, NEW d \in Camp,
         Interceptor(d) \/ Target(d), ~(PacketArrives(d) /\ c = d)
  PROVE  Claim(c)' <= Claim(c)
<1>1. \A e \in Camp, r \in Role : Running(e, r)' => Running(e, r)
  BY PassiveStep DEF OnlyEnds
<1>2. CASE ShareHandlers(d)
  <2>1. /\ UNCHANGED <<mq, qid, held, tpc, tqid>>
        /\ ipc' = [ipc EXCEPT ![d] = "recv"]
    BY <1>2 DEF ShareHandlers, targets, kernel
  <2> QED
    BY <1>1, <2>1, ClaimSame DEF HoldersOf, MaySend, Role, Types, TypeOK, ProcessTypes
<1>3. CASE Receive(d)
  BY <1>3, ReceiveClaim
<1>4. CASE Answer(d)
  BY <1>4, AnswerClaim
<1>5. CASE InterceptorExit(d)
  BY <1>1, <1>5, ClaimSame DEF InterceptorExit, interceptors, targets, kernel,
     HoldersOf, MaySend, Role
<1>6. CASE Alarm(d)
  <2>1. /\ UNCHANGED <<mq, qid, ipc, tpc, tqid>>
        /\ held' = [held EXCEPT ![d] = 0]
    BY <1>6 DEF Alarm, targets, kernel
  <2>2. ~Running(d, "interceptor")'
    BY <1>6, AlarmEnds DEF Running, Types, TypeOK
  <2> QED
    BY <1>1, <2>1, <2>2, ClaimSame DEF HoldersOf, MaySend, Role, Types, TypeOK, ProcessTypes
<1>7. CASE PacketArrives(d)
  <2>1. /\ UNCHANGED <<mq, qid, held, ipc, tqid>>
        /\ \A e \in Camp : e # d => tpc'[e] = tpc[e]
    BY <1>7 DEF PacketArrives, interceptors, kernel, Types, TypeOK, ProcessTypes
  <2> QED
    BY <1>1, <1>7, <2>1, ClaimSame DEF HoldersOf, MaySend, Role
<1>8. CASE LookUp(d)
  BY <1>8, LookUpClaim
<1>9. CASE Send(d)
  BY <1>9, SendClaim
<1>10. CASE RecvAck(d)
  BY <1>10, RecvAckClaim
<1>11. CASE TargetEnds(d)
  BY <1>1, <1>11, ClaimSame DEF TargetEnds, interceptors, targets, kernel,
     HoldersOf, MaySend, Role
<1> QED
  BY <1>2, <1>3, <1>4, <1>5, <1>6, <1>7, <1>8, <1>9, <1>10, <1>11 DEF Interceptor, Target

\* A campaign that is gone or spent stays so: its target gets no packet any more.
LEMMA PassiveEnd ==
  ASSUME Types, Types', Ids, NEW c \in Camp, NEW d \in Camp, Interceptor(d) \/ Target(d)
  PROVE  (Gone(c) => Gone(c)') /\ (Spent(c) => Spent(c)')
<1>1. \A r \in Role : Running(c, r)' => Running(c, r)
  BY PassiveStep DEF OnlyEnds
<1>2. CASE PacketArrives(d) /\ c = d
  BY <1>2 DEF PacketArrives, Gone, Spent
<1>3. CASE ~(PacketArrives(d) /\ c = d)
  BY <1>1, <1>3, PassiveClaim, KeepsEnd
<1> QED
  BY <1>2, <1>3

\* Steps after which every queue, interceptor and target is as before, or has ended.
Quiet ==
  /\ UNCHANGED <<mq, ids, qid, ipc, held, tpc, tqid>>
  /\ \A c \in Camp, r \in Role : Running(c, r)' => Running(c, r)

LEMMA QuietClaim ==
  ASSUME Types, Types', Quiet, NEW c \in Camp PROVE Claim(c)' <= Claim(c)
BY ClaimSame DEF Quiet, HoldersOf, MaySend, Role

LEMMA QuietIds == ASSUME Ids, Quiet PROVE Ids'
BY DEF Ids, Quiet, Role

LEMMA QuietSteps ==
  ASSUME Types, \/ SetupShm \/ SetupHandlers \/ BeginExec \/ ForkFails \/ Store
                \/ WaitForTarget \/ EndBsim \/ EndAttacker \/ Join \/ TimerExit
                \/ CleanKill \/ CleanShm \/ CleanStack \/ NewCampaign \/ Signal
                \/ UNCHANGED vars
  PROVE  Quiet
<1> USE DEF Quiet, kernel, interceptors, targets, Running
<1>1. camp \in Camp /\ child \in Role
  BY DEF Types, TypeOK, FuzzerTypes
<1>2. proc \in [Camp \X Role -> {"none", "running", "zombie", "reaped"}]
  BY DEF Types, TypeOK, ProcessTypes
<1>3. ASSUME NEW r \in Role, Reaped(r)
      PROVE  \A c \in Camp, q \in Role : Running(c, q)' => Running(c, q)
  BY <1>1, <1>2, <1>3 DEF Reaped
<1>4. CASE SetupShm \/ SetupHandlers \/ BeginExec \/ ForkFails \/ Store \/ TimerExit
           \/ CleanShm \/ NewCampaign
  BY <1>4 DEF SetupShm, SetupHandlers, BeginExec, ForkFails, Store, TimerExit,
     CleanShm, NewCampaign
<1>5. CASE WaitForTarget
  BY <1>1, <1>2, <1>5 DEF WaitForTarget, Role
<1>6. CASE EndBsim \/ EndAttacker \/ Join
  BY <1>3, <1>6 DEF EndBsim, EndAttacker, Join, Role
<1>7. CASE CleanKill
  <2>1. Reaped(child) \/ UNCHANGED proc
    BY <1>7 DEF CleanKill
  <2> QED
    BY <1>1, <1>3, <1>7, <2>1 DEF CleanKill
<1>8. CASE CleanStack
  BY <1>1, <1>2, <1>8 DEF CleanStack, Unmapped, Role
<1>9. CASE Signal
  BY <1>9 DEF Signal, Handled, Default
<1>10. CASE UNCHANGED vars
  BY <1>10 DEF vars
<1> QED
  BY <1>4, <1>5, <1>6, <1>7, <1>8, <1>9, <1>10

LEMMA ForkStep ==
  ASSUME Types, Fork
  PROVE  /\ UNCHANGED <<mq, ids, qid, camp>>
         /\ \A c \in Camp : c # camp =>
              /\ ipc'[c] = ipc[c] /\ held'[c] = held[c]
              /\ tpc'[c] = tpc[c] /\ tqid'[c] = tqid[c]
              /\ \A r \in Role : Running(c, r)' = Running(c, r)
         /\ tpc'[camp] = "run" \/ (tpc'[camp] = tpc[camp] /\ tqid'[camp] = tqid[camp])
         /\ tqid'[camp] = 0 \/ tqid'[camp] = tqid[camp]
         /\ \/ ipc'[camp] = "start"
            \/ /\ ipc'[camp] = ipc[camp] /\ held'[camp] = held[camp]
               /\ Running(camp, "interceptor")' => Running(camp, "interceptor")
<1>1. camp \in Camp /\ child \in Role
  BY DEF Types, TypeOK, FuzzerTypes
<1> QED
  BY <1>1, ProcUpdate DEF Fork, kernel, Running, Types, TypeOK, ProcessTypes, Role

\* A fork adds to no other claim: what it starts holds and sends nothing yet.
LEMMA ForkClaim ==
  ASSUME Types, Types', Fork, NEW c \in Camp, c # camp PROVE Claim(c)' <= Claim(c)
<1>1. HoldersOf(c)' \subseteq HoldersOf(c)
  <2>1. ASSUME NEW d \in HoldersOf(c)' PROVE d \in HoldersOf(c)
    <3>1. d \in Camp /\ Running(d, "interceptor")' /\ ipc'[d] = "ack" /\ held'[d] = c
      BY DEF HoldersOf
    <3>2. qid'[d] = mq'.id
      BY DEF HoldersOf
    <3>3. CASE d = camp
      BY <3>1, <3>2, <3>3, ForkStep DEF HoldersOf
    <3>4. CASE d # camp
      BY <3>1, <3>2, <3>4, ForkStep DEF HoldersOf, Role
    <3> QED
      BY <3>3, <3>4
  <2> QED
    BY <2>1
<1>2. MaySend(c)' => MaySend(c)
  BY ForkStep DEF MaySend, Role
<1> QED
  BY <1>1, <1>2, ForkStep, ClaimSame

LEMMA DeleteClaim ==
  ASSUME Types, Types', Ids, DeleteQueue, NEW c \in Camp,
         UNCHANGED <<qid, ipc, held, tpc, tqid>>,
         \A d \in Camp, r \in Role : Running(d, r)' => Running(d, r)
  PROVE  /\ Claim(c)' <= Claim(c)
         /\ mq.id = qid[camp] => Claim(c)' <= 1
         /\ mq.id = qid[camp] /\ ~Running(c, "target") => Claim(c)' = 0
<1>1. CASE mq.id = qid[camp]
  <2>1. mq' = NoQueue /\ mq'.id = 0 /\ mq'.pkts = << >> /\ mq'.acks = << >>
    BY <1>1 DEF DeleteQueue, NoQueue
  <2>2. Packets(c)' = 0 /\ Answers(c)' = 0
    BY <2>1, PosEmpty DEF Packets, Answers
  <2>3. HoldersOf(c)' = {}
    BY <2>1 DEF HoldersOf, Ids, Role
  <2>4. Cardinality(HoldersOf(c)') = 0
    BY <2>3, FS_EmptySet
  <2>5. MaySend(c)' => MaySend(c) /\ Running(c, "target")
    BY <2>1 DEF MaySend, Ids, Role
  <2>6. Claim(c)' = IF MaySend(c)' THEN 1 ELSE 0
    BY <2>2, <2>4 DEF Claim
  <2>7. MaySend(c) => Claim(c) >= 1
    BY ClaimNat DEF Claim
  <2> QED
    BY <1>1, <2>5, <2>6, <2>7, ClaimNat
<1>2. CASE mq.id # qid[camp]
  BY <1>2, ClaimSame DEF DeleteQueue, HoldersOf, MaySend, Role
<1> QED
  BY <1>1, <1>2

LEMMA IdsStep == ASSUME Types, Types', Inv, Ids, Places, Next PROVE Ids'
<1>1. /\ mq.id \in Nat /\ ids \in Nat /\ camp \in Camp
      /\ qid \in [Camp -> Nat] /\ tqid \in [Camp -> Nat]
      /\ tpc \in [Camp -> {"run", "lookup", "send", "await"}]
      /\ ipc \in [Camp -> {"start", "recv", "ack", "exit"}]
  BY DEF Types, TypeOK, FuzzerTypes, ProcessTypes, KernelTypes
<1>2. mq.id = 0 => mq.pkts = << >> /\ mq.acks = << >>
  BY DEF Ids, NoQueue
<1>3. \A c \in Camp : Running(c, "interceptor") /\ ipc[c] = "ack" => qid[c] # 0
  BY DEF Ids
<1>4. ASSUME NEW d \in Camp, Interceptor(d) \/ Target(d) PROVE Ids'
  <2> DEFINE Fewer == \A c \in Camp, r \in Role : Running(c, r)' => Running(c, r)
  <2>1. Fewer
    BY <1>4, PassiveStep DEF OnlyEnds
  <2>2. CASE ShareHandlers(d)
    <3>1. /\ UNCHANGED <<mq, ids, qid, tpc, tqid>>
          /\ ipc' = [ipc EXCEPT ![d] = "recv"]
      BY <2>2 DEF ShareHandlers, targets, kernel
    <3> QED
      BY <1>1, <2>1, <3>1 DEF Ids, Role
  <2>3. CASE Receive(d)
    <3>1. /\ UNCHANGED <<ids, qid, tpc, tqid, proc>> /\ mq' = [mq EXCEPT !.pkts = Tail(mq.pkts)]
          /\ ipc' = [ipc EXCEPT ![d] = "ack"] /\ mq.id = qid[d] /\ mq.pkts # << >>
      BY <2>3 DEF Receive, targets
    <3>2. mq'.id = mq.id /\ mq.id # 0
      BY <1>2, <3>1 DEF Types, TypeOK, KernelTypes
    <3> QED
      BY <1>1, <3>1, <3>2 DEF Ids, Running
  <2>4. CASE Answer(d)
    <3>1. PICK last \in BOOLEAN :
            /\ mq' = [mq EXCEPT !.acks = Append(mq.acks, [camp |-> held[d], last |-> last])]
            /\ ipc' = [ipc EXCEPT ![d] = IF last THEN "exit" ELSE "recv"]
      BY <2>4 DEF Answer
    <3>2. /\ UNCHANGED <<ids, qid, tpc, tqid, proc>> /\ mq.id = qid[d]
          /\ Running(d, "interceptor") /\ ipc[d] = "ack"
      BY <2>4 DEF Answer, targets
    <3>3. mq'.id = mq.id /\ mq.id # 0
      BY <1>3, <3>1, <3>2 DEF Types, TypeOK, KernelTypes
    <3> QED
      BY <1>1, <3>1, <3>2, <3>3 DEF Ids, Running
  <2>5. CASE InterceptorExit(d) \/ Alarm(d) \/ TargetEnds(d)
    <3>1. UNCHANGED <<mq, ids, qid, tpc, tqid, ipc>>
      BY <2>5 DEF InterceptorExit, Alarm, TargetEnds, targets, kernel, interceptors
    <3> QED
      BY <2>1, <3>1 DEF Ids, Role
  <2>6. CASE PacketArrives(d)
    <3>1. /\ UNCHANGED <<mq, ids, qid, tqid, ipc, proc>>
          /\ tpc' = [tpc EXCEPT ![d] = IF tqid[d] = 0 THEN "lookup" ELSE "send"]
      BY <2>6 DEF PacketArrives, kernel, interceptors
    <3> QED
      BY <1>1, <3>1 DEF Ids, Running
  <2>7. CASE LookUp(d)
    <3>1. /\ UNCHANGED <<qid, ipc, proc>> /\ tqid' = [tqid EXCEPT ![d] = mq'.id]
          /\ tpc' = [tpc EXCEPT ![d] = "send"] /\ MsgGet
      BY <2>7 DEF LookUp, interceptors
    <3> QED
      BY <1>1, <3>1, MsgGetQueue DEF Ids, Running
  <2>8. CASE Send(d)
    <3>1. /\ UNCHANGED <<ids, qid, ipc, tqid, proc>> /\ mq' = [mq EXCEPT !.pkts = Append(mq.pkts, d)]
          /\ tpc' = [tpc EXCEPT ![d] = "await"] /\ mq.id = tqid[d] /\ tpc[d] = "send"
      BY <2>8 DEF Send, interceptors
    <3>2. mq'.id = mq.id /\ mq.id # 0
      BY <3>1 DEF Ids, Types, TypeOK, KernelTypes
    <3> QED
      BY <1>1, <3>1, <3>2 DEF Ids, Running
  <2>9. CASE RecvAck(d)
    <3>1. /\ UNCHANGED <<ids, qid, ipc, tqid>> /\ mq' = [mq EXCEPT !.acks = Tail(mq.acks)]
          /\ tpc' = [tpc EXCEPT ![d] = "run"] /\ mq.acks # << >>
      BY <2>9 DEF RecvAck, interceptors
    <3>2. mq'.id = mq.id /\ mq.id # 0
      BY <1>2, <3>1 DEF Types, TypeOK, KernelTypes
    <3> QED
      BY <1>1, <2>1, <3>1, <3>2 DEF Ids, Role
  <2> QED
    BY <1>4, <2>2, <2>3, <2>4, <2>5, <2>6, <2>7, <2>8, <2>9 DEF Interceptor, Target
<1>5. CASE Fork
  <2>1. camp \in Camp => \A c \in Camp : c = camp \/ c # camp
    OBVIOUS
  <2> QED
    BY <1>1, <1>5, <2>1, ForkStep DEF Ids, Role
<1>6. ASSUME MsgGet, qid' = [qid EXCEPT ![camp] = mq'.id],
             UNCHANGED <<proc, interceptors, targets>>
      PROVE  Ids'
  BY <1>1, <1>6, MsgGetQueue DEF Ids, Running, interceptors, targets
<1>7. CASE CreateQueue("queue", "handlers") \/ CreateQueue("create", "join")
  BY <1>6, <1>7 DEF CreateQueue
<1>8. ASSUME DeleteQueue, UNCHANGED <<qid, ids, interceptors, targets>>,
             \A c \in Camp, r \in Role : Running(c, r)' => Running(c, r)
      PROVE  Ids'
  <2>1. mq' = NoQueue \/ mq' = mq
    BY <1>8 DEF DeleteQueue
  <2>2. NoQueue.id = 0
    BY DEF NoQueue
  <2> QED
    BY <1>1, <1>8, <2>1, <2>2 DEF Ids, interceptors, targets, Role
<1>9. CASE ResetQueue
  <2>1. \A c \in Camp, r \in Role : Running(c, r)' => Running(c, r)
    BY <1>1, <1>9, ProcUpdate DEF ResetQueue, Running, Role, Types, TypeOK, ProcessTypes
  <2> QED
    BY <1>8, <1>9, <2>1 DEF ResetQueue
<1>10. CASE CleanQueue
  BY <1>8, <1>10 DEF CleanQueue, Running
<1> QED
  BY <1>4, <1>5, <1>7, <1>9, <1>10, QuietSteps, QuietIds DEF Next, Fuzzer

LEMMA DeleteStep ==
  ASSUME Types, ResetQueue \/ CleanQueue
  PROVE  /\ DeleteQueue /\ UNCHANGED <<camp, qid, ids, ipc, held, tpc, tqid>>
         /\ \A d \in Camp, r \in Role : Running(d, r)' => Running(d, r)
<1>1. camp \in Camp /\ "interceptor" \in Role
  BY DEF Types, TypeOK, FuzzerTypes, Role
<1>2. CASE ResetQueue
  <2>1. \A d \in Camp, r \in Role : Running(d, r)' => Running(d, r)
    BY <1>1, <1>2, ProcUpdate DEF ResetQueue, Running, Types, TypeOK, ProcessTypes
  <2> QED
    BY <1>2, <2>1 DEF ResetQueue, interceptors, targets
<1>3. CASE CleanQueue
  BY <1>3 DEF CleanQueue, Running, interceptors, targets
<1> QED
  BY <1>2, <1>3

\* What is gone or spent stays so, whoever makes a step: only a fork starts anew.
LEMMA EndKept ==
  ASSUME Types, Types', Inv, Ids, Places, Next, NEW c \in Camp, Fork => c # camp
  PROVE  (Gone(c) => Gone(c)') /\ (Spent(c) => Spent(c)')
<1>1. camp \in Camp
  BY DEF Types, TypeOK, FuzzerTypes
<1>2. CASE \E d \in Camp : Interceptor(d) \/ Target(d)
  BY <1>2, PassiveEnd
<1>3. CASE Fork
  <2>1. \A r \in Role : Running(c, r)' => Running(c, r)
    BY <1>3, ForkStep
  <2> QED
    BY <1>3, <2>1, ForkClaim, KeepsEnd
<1>4. CASE CreateQueue("queue", "handlers") \/ CreateQueue("create", "join")
  <2>1. /\ MsgGet /\ qid' = [qid EXCEPT ![camp] = mq'.id]
        /\ UNCHANGED <<proc, ipc, held, tpc, tqid>> /\ at \in {"queue", "create"}
    BY <1>4 DEF CreateQueue, interceptors, targets
  <2>2. ~Running(camp, "interceptor")
    BY <2>1 DEF Inv, InExecution, Places, Role
  <2>3. \A d \in Camp : Running(d, "interceptor")' =>
          Running(d, "interceptor") /\ qid'[d] = qid[d]
    BY <2>1, <2>2 DEF Running, Types, TypeOK, KernelTypes
  <2>4. Claim(c)' <= Claim(c)
    BY <2>1, <2>3, MsgGetClaim DEF Running
  <2> QED
    BY <2>1, <2>4, KeepsEnd DEF Running
<1>5. CASE ResetQueue \/ CleanQueue
  BY <1>5, DeleteStep, DeleteClaim, KeepsEnd
<1>6. CASE Quiet
  BY <1>6, QuietClaim, KeepsEnd DEF Quiet
<1> QED
  BY <1>2, <1>3, <1>4, <1>5, <1>6, QuietSteps DEF Next, Fuzzer

LEMMA NoHandlersStep == ASSUME Types, NoHandlers, Next PROVE NoHandlers'
<1>1. disp \in [Sig -> {"default", "handler", "ignore"}]
  BY DEF Types, TypeOK, FuzzerTypes
<1>2. CASE SetupShm \/ NewCampaign \/ CreateQueue("queue", "handlers")
  BY <1>2 DEF SetupShm, NewCampaign, CreateQueue, NoHandlers
<1>3. CASE \/ SetupHandlers \/ BeginExec \/ Fork \/ ForkFails \/ Store
           \/ WaitForTarget \/ EndBsim \/ EndAttacker \/ ResetQueue
           \/ CreateQueue("create", "join") \/ Join \/ TimerExit \/ CleanKill
           \/ CleanShm \/ CleanQueue \/ CleanStack \/ Signal
  <2>1. at' \notin {"shm", "queue", "handlers"}
    BY <1>3 DEF SetupHandlers, BeginExec, Fork, ForkFails, Store, WaitForTarget, EndBsim,
       EndAttacker, ResetQueue, CreateQueue, Join, TimerExit, CleanKill, CleanShm,
       CleanQueue, CleanStack, Signal, Handled, Default
  <2> QED
    BY <2>1 DEF NoHandlers
<1>4. ASSUME NEW d \in Camp, Interceptor(d) \/ Target(d) PROVE NoHandlers'
  <2>1. at' = at
    BY <1>4, PassiveStep DEF OnlyEnds
  <2>2. CASE ShareHandlers(d)
    <3>1. disp' = disp \/ disp' = [disp EXCEPT !["INT"] = "ignore", !["TERM"] = "default"]
      BY <2>2 DEF ShareHandlers
    <3> QED
      BY <1>1, <2>1, <3>1 DEF NoHandlers, Sig
  <2>3. CASE ~ShareHandlers(d)
    <3>1. disp' = disp
      BY <1>4, <2>3 DEF Interceptor, Target, Receive, Answer, InterceptorExit, Alarm,
         PacketArrives, LookUp, Send, RecvAck, TargetEnds, fuzzer
    <3> QED
      BY <2>1, <3>1 DEF NoHandlers
  <2> QED
    BY <2>2, <2>3
<1> QED
  BY <1>2, <1>3, <1>4 DEF Next, Fuzzer

\* Interceptors and targets never take a queue away.
LEMMA PassiveQueue ==
  ASSUME Types, NEW d \in Camp, Interceptor(d) \/ Target(d)
  PROVE  UNCHANGED <<camp, at, how, ended, qid>> /\ (mq.id # 0 => mq'.id = mq.id)
<1>1. mq \in Queue
  BY DEF Types, TypeOK, KernelTypes, Queue
<1>2. UNCHANGED <<camp, at, how, ended>>
  BY PassiveStep DEF OnlyEnds
<1>3. CASE Receive(d) \/ Send(d) \/ RecvAck(d)
  BY <1>1, <1>2, <1>3 DEF Receive, Send, RecvAck, Queue
<1>4. CASE Answer(d)
  <2>1. PICK last \in BOOLEAN :
          mq' = [mq EXCEPT !.acks = Append(@, [camp |-> held[d], last |-> last])]
    BY <1>4 DEF Answer
  <2> QED
    BY <1>1, <1>2, <1>4, <2>1 DEF Answer, Queue
<1>5. CASE LookUp(d)
  BY <1>2, <1>5 DEF LookUp, MsgGet
<1>6. CASE ShareHandlers(d) \/ InterceptorExit(d) \/ Alarm(d) \/ PacketArrives(d) \/ TargetEnds(d)
  BY <1>2, <1>6 DEF ShareHandlers, InterceptorExit, Alarm, PacketArrives, TargetEnds, kernel
<1> QED
  BY <1>3, <1>4, <1>5, <1>6 DEF Interceptor, Target

LEMMA PlacesStep ==
  ASSUME Types, Types', Inv, Inv', Ids, NoHandlers, Places, Next PROVE Places'
<1>1. camp \in Camp /\ how \in {"none", "timer", "signal"}
  BY DEF Types, TypeOK, FuzzerTypes
<1>2. ~Fork => \A c \in Camp : (Gone(c) => Gone(c)') /\ (Spent(c) => Spent(c)')
  BY EndKept
<1>3. CASE SetupShm \/ NewCampaign \/ ForkFails \/ CleanStack \/ (\E s \in Sig : Default(s))
  BY <1>3 DEF SetupShm, NewCampaign, ForkFails, CleanStack, Default, Places
<1>4. CASE CreateQueue("queue", "handlers") \/ CreateQueue("create", "join")
  <2>1. MsgGet /\ qid' = [qid EXCEPT ![camp] = mq'.id] /\ camp' = camp
        /\ at' \in {"handlers", "join"}
    BY <1>4 DEF CreateQueue
  <2>2. OwnQueue'
    BY <1>1, <2>1, MsgGetQueue DEF OwnQueue, Types, TypeOK, KernelTypes
  <2> QED
    BY <2>1, <2>2 DEF Places
<1>5. CASE SetupHandlers \/ BeginExec \/ Fork \/ Store \/ WaitForTarget \/ EndBsim
           \/ EndAttacker \/ Join \/ TimerExit
  <2>1. /\ OwnQueue /\ UNCHANGED <<mq, qid, camp>>
        /\ at' \in {"idle", "fork", "store", "wait", "endbsim", "endattacker", "reset",
                    "join", "clean"}
    BY <1>5 DEF SetupHandlers, BeginExec, Fork, Store, WaitForTarget, EndBsim,
       EndAttacker, Join, TimerExit, Places, kernel
  <2> QED
    BY <2>1 DEF Places, OwnQueue
<1>6. CASE CleanKill \/ CleanShm
  <2>1. /\ (OwnQueue \/ Gone(camp)) /\ UNCHANGED <<mq, qid, camp>>
        /\ at' \in {"clean", "cleanshm", "cleanqueue", "dead"}
    BY <1>6 DEF CleanKill, CleanShm, Places, kernel
  <2>2. ~Fork
    BY <1>6 DEF CleanKill, CleanShm, Fork
  <2>3. OwnQueue' \/ Gone(camp)'
    BY <1>1, <1>2, <2>1, <2>2 DEF OwnQueue
  <2> QED
    BY <2>1, <2>3 DEF Places
<1>7. CASE ResetQueue
  <2>1. at = "reset" /\ at' = "create" /\ camp' = camp
        /\ proc' = [proc EXCEPT ![<<camp, "interceptor">>] = "zombie"]
    BY <1>7 DEF ResetQueue
  <2>2. ~Running(camp, "target") /\ mq.id = qid[camp]
    BY <2>1 DEF Inv, InExecution, Places, OwnQueue, Role
  <2>3. \A c \in Camp, r \in Role : Running(c, r)' => Running(c, r)
    BY <1>7, DeleteStep
  <2>4. \A c \in Camp : mq.id = qid[camp] /\ ~Running(c, "target") => Claim(c)' = 0
    BY <1>7, DeleteStep, DeleteClaim
  <2>5. \A c \in Camp : c = camp => Gone(c)'
    BY <2>2, <2>3, <2>4 DEF Gone, Role
  <2>6. ~Running(camp, "interceptor")'
    BY <1>1, <2>1 DEF Running, Role, Types, TypeOK, ProcessTypes
  <2> QED
    BY <1>1, <2>1, <2>5, <2>6 DEF Places
<1>8. CASE CleanQueue
  <2>1. at = "cleanqueue" /\ at' = "cleanstack" /\ UNCHANGED <<camp, how>> /\ ~Fork
    BY <1>8 DEF CleanQueue, Fork
  <2>2. how \in {"timer", "signal"}
    BY <1>1, <2>1 DEF Types, Called
  <2>3. /\ how = "timer" => ~Running(camp, "target")
        /\ ~(Running(camp, "bsim") /\ Running(camp, "attacker"))
    BY <2>1 DEF Inv, InCleanup, Role
  <2>4. \A c \in Camp, r \in Role : Running(c, r)' => Running(c, r)
    BY <1>8, DeleteStep
  <2>5. \A c \in Camp : mq.id = qid[camp] =>
          Claim(c)' <= 1 /\ (~Running(c, "target") => Claim(c)' = 0)
    BY <1>8, DeleteStep, DeleteClaim
  <2>6. OwnQueue \/ Gone(camp)
    BY <2>1 DEF Places
  <2>7. ASSUME NEW c \in Camp, c = camp
        PROVE  IF how = "timer" THEN Gone(c)' ELSE Spent(c)'
    <3>1. CASE Gone(c)
      <4>1. Gone(c)'
        BY <1>2, <2>1, <3>1
      <4> QED
        BY <2>3, <2>4, <2>7, <4>1 DEF Gone, Spent, Role
    <3>2. CASE OwnQueue
      BY <2>3, <2>4, <2>5, <2>7, <3>2 DEF OwnQueue, Gone, Spent, Role
    <3> QED
      BY <2>6, <2>7, <3>1, <3>2
  <2> QED
    BY <1>1, <2>1, <2>7 DEF Places
<1>9. CASE \E s \in Sig : Handled(s)
  <2>1. /\ at \in {"idle", "fork", "store", "wait", "endbsim", "endattacker", "reset",
                   "create", "join", "clean", "cleanshm", "cleanqueue", "cleanstack"}
        /\ how # "signal" /\ at' = "clean" /\ UNCHANGED <<mq, qid, camp>> /\ ~Fork
    BY <1>9 DEF Handled, Alive, NoHandlers, Fork, kernel, Types, TypeOK, FuzzerTypes
  <2>2. OwnQueue \/ Gone(camp)
    BY <1>1, <2>1 DEF Places, Types, Called
  <2>3. OwnQueue' \/ Gone(camp)'
    BY <1>1, <1>2, <2>1, <2>2 DEF OwnQueue
  <2> QED
    BY <2>1, <2>3 DEF Places
<1>10. CASE \E d \in Camp : Interceptor(d) \/ Target(d)
  <2>1. UNCHANGED <<camp, at, how, qid>> /\ (mq.id # 0 => mq'.id = mq.id) /\ ~Fork
    <3>1. UNCHANGED <<camp, at, how, qid>> /\ (mq.id # 0 => mq'.id = mq.id)
      BY <1>10, PassiveQueue
    <3> QED
      BY <3>1 DEF Fork
  <2>2. OwnQueue => OwnQueue'
    BY <2>1 DEF OwnQueue
  <2>3. \A c \in Camp, r \in Role : Running(c, r)' => Running(c, r)
    BY <1>10, PassiveStep DEF OnlyEnds
  <2>4. (Gone(camp) => Gone(camp)') /\ (Spent(camp) => Spent(camp)')
    BY <1>1, <1>2, <2>1
  <2>5. Running(camp, "interceptor")' => Running(camp, "interceptor")
    BY <1>1, <2>1, <2>3 DEF Role
  <2> QED
    BY <2>1, <2>2, <2>4, <2>5 DEF Places
<1> QED
  BY <1>3, <1>4, <1>5, <1>6, <1>7, <1>8, <1>9, <1>10 DEF Next, Fuzzer, Signal

LEMMA EndsStep ==
  ASSUME Types, Types', Inv, Ids, Places, Ends, Next PROVE Ends'
<1>1. camp \in Camp
  BY DEF Types, TypeOK, FuzzerTypes
<1>2. ASSUME NEW c \in Camp, ended'[c] = ended[c]
      PROVE  (ended[c] = "timer" => Gone(c)') /\ (ended[c] = "signal" => Spent(c)')
  <2>1. CASE Fork /\ c = camp
    BY <2>1 DEF Fork, Inv, NotEnded, Alive
  <2>2. CASE ~(Fork /\ c = camp)
    <3>1. (Gone(c) => Gone(c)') /\ (Spent(c) => Spent(c)')
      BY <2>2, EndKept
    <3> QED
      BY <3>1 DEF Ends
  <2> QED
    BY <2>1, <2>2
<1>3. CASE CleanStack
  <2>1. /\ ended' = [ended EXCEPT ![camp] = how] /\ at = "cleanstack" /\ ~Fork
    BY <1>3 DEF CleanStack, Fork
  <2>2. \A c \in Camp : (Gone(c) => Gone(c)') /\ (Spent(c) => Spent(c)')
    BY <2>1, EndKept
  <2>3. IF how = "timer" THEN Gone(camp) ELSE Spent(camp)
    BY <2>1 DEF Places
  <2> QED
    BY <1>1, <1>2, <2>1, <2>2, <2>3 DEF Ends, Types, TypeOK, FuzzerTypes
<1>4. CASE ~CleanStack
  <2>1. \A c \in Camp : ended'[c] = ended[c] \/ ended'[c] \notin {"timer", "signal"}
    <3>1. CASE ForkFails \/ (\E s \in Sig : Default(s))
      <4>1. PICK e \in {"forkfailed", "killed", "unhandled"} :
              ended' = [ended EXCEPT ![camp] = e]
        BY <3>1 DEF ForkFails, Default
      <4> QED
        BY <1>1, <4>1 DEF Types, TypeOK, FuzzerTypes
    <3>2. CASE CleanKill
      <4>1. ended' = [ended EXCEPT ![camp] = "group"] \/ ended' = ended
        BY <3>2 DEF CleanKill
      <4> QED
        BY <1>1, <4>1 DEF Types, TypeOK, FuzzerTypes
    <3>3. CASE \E d \in Camp : Interceptor(d) \/ Target(d)
      BY <3>3, PassiveQueue
    <3>4. CASE \E s \in Sig : Handled(s)
      BY <3>4 DEF Handled
    <3> QED
      BY <1>4, <3>1, <3>2, <3>3, <3>4 DEF Next, Fuzzer, Signal, SetupShm, CreateQueue,
         SetupHandlers, BeginExec, Fork, Store, WaitForTarget, EndBsim, EndAttacker,
         ResetQueue, Join, TimerExit, CleanShm, CleanQueue, NewCampaign
  <2> QED
    BY <1>2, <2>1 DEF Ends
<1> QED
  BY <1>3, <1>4

LEMMA QInvStep ==
  ASSUME Types, Types', Inv, Inv', QInv, [Next]_vars PROVE QInv'
<1>1. CASE Next
  BY <1>1, IdsStep, NoHandlersStep, PlacesStep, EndsStep DEF QInv
<1>2. CASE UNCHANGED vars
  <2>1. Quiet /\ UNCHANGED <<camp, at, how, ended, disp, proc>>
    BY <1>2, QuietSteps DEF vars, fuzzer
  <2>2. \A c \in Camp : (Gone(c) => Gone(c)') /\ (Spent(c) => Spent(c)')
    BY <2>1, QuietClaim, KeepsEnd DEF Quiet
  <2>3. camp \in Camp
    BY DEF Types, TypeOK, FuzzerTypes
  <2>4. Ids'
    BY <2>1, QuietIds DEF QInv
  <2>5. (OwnQueue => OwnQueue') /\ (Running(camp, "interceptor")' => Running(camp, "interceptor"))
    BY <2>1 DEF OwnQueue, Quiet, Running
  <2>6. (Gone(camp) => Gone(camp)') /\ (Spent(camp) => Spent(camp)')
    BY <2>1, <2>2, <2>3
  <2>7. Places'
    BY <2>1, <2>5, <2>6 DEF QInv, Places
  <2>8. NoHandlers' /\ Ends'
    BY <2>1, <2>2 DEF QInv, NoHandlers, Ends
  <2> QED
    BY <2>4, <2>7, <2>8 DEF QInv
<1> QED
  BY <1>1, <1>2

LEMMA InitQInv == Init => QInv
<1> SUFFICES ASSUME Init PROVE QInv
  OBVIOUS
<1>1. at = "shm" /\ \A c \in Camp : ended[c] = "no"
  BY DEF Init
<1>2. Ids
  BY DEF Init, Ids, NoQueue, Running
<1>3. NoHandlers
  BY DEF Init, NoHandlers, Sig
<1> QED
  BY <1>1, <1>2, <1>3 DEF QInv, Places, Ends

\* The messages of a campaign are part of its claim.
LEMMA InQueueClaim == ASSUME Types, NEW c \in Camp PROVE InQueue(c) \in Nat /\ InQueue(c) <= Claim(c)
<1>1. {k \in DOMAIN mq.pkts : mq.pkts[k] = c} = Pos(mq.pkts, {c})
  BY DEF Pos
<1>2. {k \in DOMAIN mq.acks : mq.acks[k].camp = c} = Pos(mq.acks, AcksFor(c))
  BY QueueSeqs DEF Pos, AcksFor
<1>3. InQueue(c) = Packets(c) + Answers(c)
  BY <1>1, <1>2 DEF InQueue, Packets, Answers
<1> QED
  BY <1>3, ClaimNat DEF Claim

\* In any sequence of campaigns, a campaign its TIMER ended has no message in a
\* queue others use, and one that a signal ended at most one, whatever order its
\* orphans and the processes of its successors act in.
THEOREM QueuesAreIsolated == Spec => []QueueIsolated
<1>1. Init => Types /\ Inv /\ QInv
  BY InitTypes, InitInv, InitQInv
<1>2. Types /\ Inv /\ QInv /\ [Next]_vars => (Types /\ Inv /\ QInv)'
  BY TypesStep, InvStep, QInvStep
<1>3. Types /\ QInv => QueueIsolated
  <2> SUFFICES ASSUME Types, QInv, NEW c \in Camp
               PROVE  /\ ended[c] = "timer" => InQueue(c) = 0
                      /\ ended[c] = "signal" => InQueue(c) <= 1
    BY DEF QueueIsolated
  <2> QED
    BY InQueueClaim, ClaimNat DEF QInv, Ends, Gone, Spent
<1> QED
  BY <1>1, <1>2, <1>3, PTL DEF Spec

-----------------------------------------------------------------------------
(* What the other ends of a campaign leave: a signal whose handler is gone, and
   kill(0, SIGKILL) *)

Childless(c) == \A r \in Role : proc[<<c, r>>] = "none"

\* Pids are zero until the first execution, and there is no child until then.
Children ==
  /\ \A c \in Camp : c > camp => Childless(c)
  /\ \/ \A r \in Role : pid[r] # "zero"
     \/ /\ \A r \in Role : pid[r] = "zero"
        /\ Childless(camp) /\ execs = 0 /\ how # "timer"
        /\ at \in {"shm", "queue", "handlers", "idle", "clean", "dead"}
        /\ at = "clean" => child = "bsim" /\ camp \in shm

\* Between shmget and the removal of the segment; a clean-up that is begun again
\* after the removal meets no process that it does not know.
Segment ==
  /\ at \in {"queue", "handlers", "idle", "fork", "store", "wait", "endbsim",
             "endattacker", "reset", "create", "join"} => camp \in shm
  /\ at \in {"clean", "cleanshm", "cleanqueue", "cleanstack"} =>
       camp \in shm \/ OnlyLoose(camp)

\* Only an interceptor takes a handler away.
Replaced ==
  Alive /\ at \notin {"shm", "queue", "handlers"} =>
    \A s \in Sig \ {"KILL"} : disp[s] = "default" => proc[<<camp, "interceptor">>] # "none"

Abrupt(c) ==
  /\ ended[c] = "unhandled" => /\ proc[<<c, "interceptor">>] # "none"
                               /\ c \in shm \/ OnlyLoose(c)
  /\ ended[c] = "group" => c \in shm /\ Childless(c)

Marks == Children /\ Segment /\ Replaced /\ \A c \in Camp : Abrupt(c)

\* What the fuzzer does to the processes of other campaigns, and of its own.
OwnChildren ==
  /\ \A c \in Camp, r \in Role : c # camp => proc'[<<c, r>>] = proc[<<c, r>>]
  /\ \A r \in Role : proc[<<camp, r>>] # "none" => proc'[<<camp, r>>] # "none"

LEMMA OwnMarks ==
  ASSUME Types, Inv, Marks, Own, OwnChildren, Abrupt(camp)'
  PROVE  (\A c \in Camp : Abrupt(c)') /\ \A c \in Camp : c > camp' => Childless(c)'
<1>1. camp \in Camp /\ camp' = camp /\ ~(camp > camp)
  BY ShutdownAssumption DEF Types, TypeOK, FuzzerTypes, Own, Camp
<1>2. ASSUME NEW c \in Camp, c # camp PROVE Abrupt(c)' /\ (c > camp => Childless(c)')
  <2>1. \A r \in Role : proc'[<<c, r>>] = proc[<<c, r>>] /\ Running(c, r)' = Running(c, r)
    BY <1>2 DEF Own, OwnChildren
  <2>2. ended'[c] = ended[c] /\ loose'[c] = loose[c] /\ (c \in shm' <=> c \in shm)
    BY <1>2 DEF Own
  <2> QED
    BY <2>1, <2>2 DEF Marks, Children, Abrupt, Childless, OnlyLoose, Role
<1> QED
  BY <1>1, <1>2

LEMMA FuzzerMarks ==
  ASSUME Types, Inv, NoHandlers, Marks, Fuzzer, ~NewCampaign
  PROVE  Marks'
<1> DEFINE Goal == /\ OwnChildren /\ Abrupt(camp)' /\ Segment' /\ Replaced'
                   /\ \/ \A r \in Role : pid'[r] # "zero"
                      \/ /\ \A r \in Role : pid'[r] = "zero"
                         /\ Childless(camp)' /\ execs' = 0 /\ how' # "timer"
                         /\ at' \in {"shm", "queue", "handlers", "idle", "clean", "dead"}
                         /\ at' = "clean" => child' = "bsim" /\ camp \in shm'
<1>0. camp \in Camp
  BY DEF Types, TypeOK, FuzzerTypes
<1>1. ASSUME SetupShm PROVE Goal
  <2>1. OwnChildren
    BY <1>0, <1>1 DEF SetupShm, OwnChildren, Role, Types, TypeOK, FuzzerTypes, ProcessTypes
  <2>2. Abrupt(camp)'
    BY <1>0, <1>1 DEF SetupShm, Abrupt, OnlyLoose, Childless, Running, Inv, NotEnded,
       Alive, Marks, Children, Segment, Role, Types, TypeOK, FuzzerTypes, ProcessTypes
  <2>3. Segment'
    BY <1>0, <1>1 DEF SetupShm, OnlyLoose, Running, Inv, InCleanup, Called, Marks, Segment,
       Role, Types, TypeOK, FuzzerTypes, ProcessTypes
  <2>4. Replaced'
    BY <1>0, <1>1, <2>1 DEF SetupShm, OwnChildren, Alive, Marks, Replaced, Role, Sig, Types,
       TypeOK, FuzzerTypes, ProcessTypes
  <2> QED
    BY <1>0, <1>1, <2>1, <2>2, <2>3, <2>4 DEF SetupShm, Marks, Children, Childless, Segment,
       Role, After, Cleaned, Types, TypeOK, FuzzerTypes, ProcessTypes
<1>2. ASSUME CreateQueue("queue", "handlers") PROVE Goal
  <2>1. OwnChildren
    BY <1>0, <1>2 DEF CreateQueue, OwnChildren, Role, Types, TypeOK, FuzzerTypes, ProcessTypes
  <2>2. Abrupt(camp)'
    BY <1>0, <1>2 DEF CreateQueue, Abrupt, OnlyLoose, Childless, Running, Inv, NotEnded,
       Alive, Marks, Children, Segment, Role, Types, TypeOK, FuzzerTypes, ProcessTypes
  <2>3. Segment'
    BY <1>0, <1>2 DEF CreateQueue, OnlyLoose, Running, Inv, InCleanup, Called, Marks, Segment,
       Role, Types, TypeOK, FuzzerTypes, ProcessTypes
  <2>4. Replaced'
    BY <1>0, <1>2, <2>1 DEF CreateQueue, OwnChildren, Alive, Marks, Replaced, Role, Sig, Types,
       TypeOK, FuzzerTypes, ProcessTypes
  <2> QED
    BY <1>0, <1>2, <2>1, <2>2, <2>3, <2>4 DEF CreateQueue, Marks, Children, Childless, Segment,
       Role, After, Cleaned, Types, TypeOK, FuzzerTypes, ProcessTypes
<1>3. ASSUME SetupHandlers PROVE Goal
  <2>1. OwnChildren
    BY <1>0, <1>3 DEF SetupHandlers, OwnChildren, Role, Types, TypeOK, FuzzerTypes, ProcessTypes
  <2>2. Abrupt(camp)'
    BY <1>0, <1>3 DEF SetupHandlers, Abrupt, OnlyLoose, Childless, Running, Inv, NotEnded,
       Alive, Marks, Children, Segment, Role, Types, TypeOK, FuzzerTypes, ProcessTypes
  <2>3. Segment'
    BY <1>0, <1>3 DEF SetupHandlers, OnlyLoose, Running, Inv, InCleanup, Called, Marks, Segment,
       Role, Types, TypeOK, FuzzerTypes, ProcessTypes
  <2>4. Replaced'
    BY <1>0, <1>3, <2>1 DEF SetupHandlers, OwnChildren, Alive, Marks, Replaced, Role, Sig, Types,
       TypeOK, FuzzerTypes, ProcessTypes
  <2> QED
    BY <1>0, <1>3, <2>1, <2>2, <2>3, <2>4 DEF SetupHandlers, Marks, Children, Childless, Segment,
       Role, After, Cleaned, Types, TypeOK, FuzzerTypes, ProcessTypes
<1>4. ASSUME BeginExec PROVE Goal
  <2>1. OwnChildren
    BY <1>0, <1>4 DEF BeginExec, OwnChildren, Role, Types, TypeOK, FuzzerTypes, ProcessTypes
  <2>2. Abrupt(camp)'
    BY <1>0, <1>4 DEF BeginExec, Abrupt, OnlyLoose, Childless, Running, Inv, NotEnded,
       Alive, Marks, Children, Segment, Role, Types, TypeOK, FuzzerTypes, ProcessTypes
  <2>3. Segment'
    BY <1>0, <1>4 DEF BeginExec, OnlyLoose, Running, Inv, InCleanup, Called, Marks, Segment,
       Role, Types, TypeOK, FuzzerTypes, ProcessTypes
  <2>4. Replaced'
    BY <1>0, <1>4, <2>1 DEF BeginExec, OwnChildren, Alive, Marks, Replaced, Role, Sig, Types,
       TypeOK, FuzzerTypes, ProcessTypes
  <2> QED
    BY <1>0, <1>4, <2>1, <2>2, <2>3, <2>4 DEF BeginExec, Marks, Children, Childless, Segment,
       Role, After, Cleaned, Types, TypeOK, FuzzerTypes, ProcessTypes
<1>5. ASSUME Fork PROVE Goal
  <2>1. OwnChildren
    BY <1>0, <1>5 DEF Fork, OwnChildren, Role, Types, TypeOK, FuzzerTypes, ProcessTypes
  <2>2. Abrupt(camp)'
    BY <1>0, <1>5 DEF Fork, Abrupt, OnlyLoose, Childless, Running, Inv, NotEnded,
       Alive, Marks, Children, Segment, Role, Types, TypeOK, FuzzerTypes, ProcessTypes
  <2>3. Segment'
    BY <1>0, <1>5 DEF Fork, OnlyLoose, Running, Inv, InCleanup, Called, Marks, Segment,
       Role, Types, TypeOK, FuzzerTypes, ProcessTypes
  <2>4. Replaced'
    BY <1>0, <1>5, <2>1 DEF Fork, OwnChildren, Alive, Marks, Replaced, Role, Sig, Types,
       TypeOK, FuzzerTypes, ProcessTypes
  <2> QED
    BY <1>0, <1>5, <2>1, <2>2, <2>3, <2>4 DEF Fork, Marks, Children, Childless, Segment,
       Role, After, Cleaned, Types, TypeOK, FuzzerTypes, ProcessTypes
<1>6. ASSUME ForkFails PROVE Goal
  <2>1. OwnChildren
    BY <1>0, <1>6 DEF ForkFails, OwnChildren, Role, Types, TypeOK, FuzzerTypes, ProcessTypes
  <2>2. Abrupt(camp)'
    BY <1>0, <1>6 DEF ForkFails, Abrupt, OnlyLoose, Childless, Running, Inv, NotEnded,
       Alive, Marks, Children, Segment, Role, Types, TypeOK, FuzzerTypes, ProcessTypes
  <2>3. Segment'
    BY <1>0, <1>6 DEF ForkFails, OnlyLoose, Running, Inv, InCleanup, Called, Marks, Segment,
       Role, Types, TypeOK, FuzzerTypes, ProcessTypes
  <2>4. Replaced'
    BY <1>0, <1>6, <2>1 DEF ForkFails, OwnChildren, Alive, Marks, Replaced, Role, Sig, Types,
       TypeOK, FuzzerTypes, ProcessTypes
  <2> QED
    BY <1>0, <1>6, <2>1, <2>2, <2>3, <2>4 DEF ForkFails, Marks, Children, Childless, Segment,
       Role, After, Cleaned, Types, TypeOK, FuzzerTypes, ProcessTypes
<1>7. ASSUME Store PROVE Goal
  <2>1. OwnChildren
    BY <1>0, <1>7 DEF Store, OwnChildren, Role, Types, TypeOK, FuzzerTypes, ProcessTypes
  <2>2. Abrupt(camp)'
    BY <1>0, <1>7 DEF Store, Abrupt, OnlyLoose, Childless, Running, Inv, NotEnded,
       Alive, Marks, Children, Segment, Role, Types, TypeOK, FuzzerTypes, ProcessTypes
  <2>3. Segment'
    BY <1>0, <1>7 DEF Store, OnlyLoose, Running, Inv, InCleanup, Called, Marks, Segment,
       Role, Types, TypeOK, FuzzerTypes, ProcessTypes
  <2>4. Replaced'
    BY <1>0, <1>7, <2>1 DEF Store, OwnChildren, Alive, Marks, Replaced, Role, Sig, Types,
       TypeOK, FuzzerTypes, ProcessTypes
  <2> QED
    BY <1>0, <1>7, <2>1, <2>2, <2>3, <2>4 DEF Store, Marks, Children, Childless, Segment,
       Role, After, Cleaned, Types, TypeOK, FuzzerTypes, ProcessTypes
<1>8. ASSUME WaitForTarget PROVE Goal
  <2>1. OwnChildren
    BY <1>0, <1>8 DEF WaitForTarget, OwnChildren, Role, Types, TypeOK, FuzzerTypes, ProcessTypes
  <2>2. Abrupt(camp)'
    BY <1>0, <1>8 DEF WaitForTarget, Abrupt, OnlyLoose, Childless, Running, Inv, NotEnded,
       Alive, Marks, Children, Segment, Role, Types, TypeOK, FuzzerTypes, ProcessTypes
  <2>3. Segment'
    BY <1>0, <1>8 DEF WaitForTarget, OnlyLoose, Running, Inv, InCleanup, Called, Marks, Segment,
       Role, Types, TypeOK, FuzzerTypes, ProcessTypes
  <2>4. Replaced'
    BY <1>0, <1>8, <2>1 DEF WaitForTarget, OwnChildren, Alive, Marks, Replaced, Role, Sig, Types,
       TypeOK, FuzzerTypes, ProcessTypes
  <2> QED
    BY <1>0, <1>8, <2>1, <2>2, <2>3, <2>4 DEF WaitForTarget, Marks, Children, Childless, Segment,
       Role, After, Cleaned, Types, TypeOK, FuzzerTypes, ProcessTypes
<1>9. ASSUME EndBsim PROVE Goal
  <2>1. OwnChildren
    BY <1>0, <1>9 DEF EndBsim, Reaped, OwnChildren, Role, Types, TypeOK, FuzzerTypes, ProcessTypes
  <2>2. Abrupt(camp)'
    BY <1>0, <1>9 DEF EndBsim, Reaped, Abrupt, OnlyLoose, Childless, Running, Inv, NotEnded,
       Alive, Marks, Children, Segment, Role, Types, TypeOK, FuzzerTypes, ProcessTypes
  <2>3. Segment'
    BY <1>0, <1>9 DEF EndBsim, Reaped, OnlyLoose, Running, Inv, InCleanup, Called, Marks, Segment,
       Role, Types, TypeOK, FuzzerTypes, ProcessTypes
  <2>4. Replaced'
    BY <1>0, <1>9, <2>1 DEF EndBsim, Reaped, OwnChildren, Alive, Marks, Replaced, Role, Sig, Types,
       TypeOK, FuzzerTypes, ProcessTypes
  <2> QED
    BY <1>0, <1>9, <2>1, <2>2, <2>3, <2>4 DEF EndBsim, Reaped, Marks, Children, Childless, Segment,
       Role, After, Cleaned, Types, TypeOK, FuzzerTypes, ProcessTypes
<1>10. ASSUME EndAttacker PROVE Goal
  <2>1. OwnChildren
    BY <1>0, <1>10 DEF EndAttacker, Reaped, OwnChildren, Role, Types, TypeOK, FuzzerTypes, ProcessTypes
  <2>2. Abrupt(camp)'
    BY <1>0, <1>10 DEF EndAttacker, Reaped, Abrupt, OnlyLoose, Childless, Running, Inv, NotEnded,
       Alive, Marks, Children, Segment, Role, Types, TypeOK, FuzzerTypes, ProcessTypes
  <2>3. Segment'
    BY <1>0, <1>10 DEF EndAttacker, Reaped, OnlyLoose, Running, Inv, InCleanup, Called, Marks, Segment,
       Role, Types, TypeOK, FuzzerTypes, ProcessTypes
  <2>4. Replaced'
    BY <1>0, <1>10, <2>1 DEF EndAttacker, Reaped, OwnChildren, Alive, Marks, Replaced, Role, Sig, Types,
       TypeOK, FuzzerTypes, ProcessTypes
  <2> QED
    BY <1>0, <1>10, <2>1, <2>2, <2>3, <2>4 DEF EndAttacker, Reaped, Marks, Children, Childless, Segment,
       Role, After, Cleaned, Types, TypeOK, FuzzerTypes, ProcessTypes
<1>11. ASSUME ResetQueue PROVE Goal
  <2>1. OwnChildren
    BY <1>0, <1>11 DEF ResetQueue, OwnChildren, Role, Types, TypeOK, FuzzerTypes, ProcessTypes
  <2>2. Abrupt(camp)'
    BY <1>0, <1>11 DEF ResetQueue, Abrupt, OnlyLoose, Childless, Running, Inv, NotEnded,
       Alive, Marks, Children, Segment, Role, Types, TypeOK, FuzzerTypes, ProcessTypes
  <2>3. Segment'
    BY <1>0, <1>11 DEF ResetQueue, OnlyLoose, Running, Inv, InCleanup, Called, Marks, Segment,
       Role, Types, TypeOK, FuzzerTypes, ProcessTypes
  <2>4. Replaced'
    BY <1>0, <1>11, <2>1 DEF ResetQueue, OwnChildren, Alive, Marks, Replaced, Role, Sig, Types,
       TypeOK, FuzzerTypes, ProcessTypes
  <2> QED
    BY <1>0, <1>11, <2>1, <2>2, <2>3, <2>4 DEF ResetQueue, Marks, Children, Childless, Segment,
       Role, After, Cleaned, Types, TypeOK, FuzzerTypes, ProcessTypes
<1>12. ASSUME CreateQueue("create", "join") PROVE Goal
  <2>1. OwnChildren
    BY <1>0, <1>12 DEF CreateQueue, OwnChildren, Role, Types, TypeOK, FuzzerTypes, ProcessTypes
  <2>2. Abrupt(camp)'
    BY <1>0, <1>12 DEF CreateQueue, Abrupt, OnlyLoose, Childless, Running, Inv, NotEnded,
       Alive, Marks, Children, Segment, Role, Types, TypeOK, FuzzerTypes, ProcessTypes
  <2>3. Segment'
    BY <1>0, <1>12 DEF CreateQueue, OnlyLoose, Running, Inv, InCleanup, Called, Marks, Segment,
       Role, Types, TypeOK, FuzzerTypes, ProcessTypes
  <2>4. Replaced'
    BY <1>0, <1>12, <2>1 DEF CreateQueue, OwnChildren, Alive, Marks, Replaced, Role, Sig, Types,
       TypeOK, FuzzerTypes, ProcessTypes
  <2> QED
    BY <1>0, <1>12, <2>1, <2>2, <2>3, <2>4 DEF CreateQueue, Marks, Children, Childless, Segment,
       Role, After, Cleaned, Types, TypeOK, FuzzerTypes, ProcessTypes
<1>13. ASSUME Join PROVE Goal
  <2>1. OwnChildren
    BY <1>0, <1>13 DEF Join, Reaped, OwnChildren, Role, Types, TypeOK, FuzzerTypes, ProcessTypes
  <2>2. Abrupt(camp)'
    BY <1>0, <1>13 DEF Join, Reaped, Abrupt, OnlyLoose, Childless, Running, Inv, NotEnded,
       Alive, Marks, Children, Segment, Role, Types, TypeOK, FuzzerTypes, ProcessTypes
  <2>3. Segment'
    BY <1>0, <1>13 DEF Join, Reaped, OnlyLoose, Running, Inv, InCleanup, Called, Marks, Segment,
       Role, Types, TypeOK, FuzzerTypes, ProcessTypes
  <2>4. Replaced'
    BY <1>0, <1>13, <2>1 DEF Join, Reaped, OwnChildren, Alive, Marks, Replaced, Role, Sig, Types,
       TypeOK, FuzzerTypes, ProcessTypes
  <2> QED
    BY <1>0, <1>13, <2>1, <2>2, <2>3, <2>4 DEF Join, Reaped, Marks, Children, Childless, Segment,
       Role, After, Cleaned, Types, TypeOK, FuzzerTypes, ProcessTypes
<1>14. ASSUME TimerExit PROVE Goal
  <2>1. OwnChildren
    BY <1>0, <1>14 DEF TimerExit, OwnChildren, Role, Types, TypeOK, FuzzerTypes, ProcessTypes
  <2>2. Abrupt(camp)'
    BY <1>0, <1>14 DEF TimerExit, Abrupt, OnlyLoose, Childless, Running, Inv, NotEnded,
       Alive, Marks, Children, Segment, Role, Types, TypeOK, FuzzerTypes, ProcessTypes
  <2>3. Segment'
    BY <1>0, <1>14 DEF TimerExit, OnlyLoose, Running, Inv, InCleanup, Called, Marks, Segment,
       Role, Types, TypeOK, FuzzerTypes, ProcessTypes
  <2>4. Replaced'
    BY <1>0, <1>14, <2>1 DEF TimerExit, OwnChildren, Alive, Marks, Replaced, Role, Sig, Types,
       TypeOK, FuzzerTypes, ProcessTypes
  <2> QED
    BY <1>0, <1>14, <2>1, <2>2, <2>3, <2>4 DEF TimerExit, Marks, Children, Childless, Segment,
       Role, After, Cleaned, Types, TypeOK, FuzzerTypes, ProcessTypes
<1>15. ASSUME CleanKill PROVE Goal
  <2>1. /\ at = "clean" /\ child' = After(child) /\ child \in Role
        /\ UNCHANGED <<camp, how, execs, pid, disp, loose, shm>>
        /\ NotEnded /\ InCleanup /\ Alive
    BY <1>15 DEF CleanKill, Inv, Alive, Types, TypeOK, FuzzerTypes
  <2>2. CASE pid[child] = "zero" /\ child \in Cleaned
    <3>1. at' = "dead" /\ ended' = [ended EXCEPT ![camp] = "group"] /\ proc' = proc
      BY <1>15, <2>2 DEF CleanKill
    <3>2. camp \in shm /\ Childless(camp) /\ execs = 0 /\ how # "timer"
          /\ \A r \in Role : pid[r] = "zero"
      BY <2>1, <2>2 DEF Marks, Children
    <3>3. ended'[camp] = "group"
      BY <1>0, <3>1 DEF Types, TypeOK, FuzzerTypes
    <3> QED
      BY <1>0, <2>1, <3>1, <3>2, <3>3 DEF OwnChildren, Abrupt, Segment, Replaced, Alive, Childless
  <2>3. CASE ~(pid[child] = "zero" /\ child \in Cleaned)
    <3>1. /\ ended' = ended
          /\ at' = IF child = "interceptor" THEN "cleanshm" ELSE "clean"
          /\ IF pid[child] = "known" /\ child \in Cleaned
               THEN proc' = [proc EXCEPT ![<<camp, child>>] = "reaped"] ELSE proc' = proc
      BY <1>15, <2>3 DEF CleanKill, Reaped
    <3>2. \A r \in Role : pid[r] # "zero"
      BY <2>1, <2>3 DEF Marks, Children, Cleaned
    <3>3. /\ OwnChildren
          /\ \A r \in Role : Running(camp, r)' => Running(camp, r)
      <4>1. CASE pid[child] = "known" /\ child \in Cleaned
        <5> DEFINE S == {"none", "running", "zombie", "reaped"}
        <5>1. proc \in [Camp \X Role -> S] /\ "reaped" \in S
          BY DEF Types, TypeOK, ProcessTypes
        <5>2. proc' = [proc EXCEPT ![<<camp, child>>] = "reaped"]
          BY <3>1, <4>1
        <5> HIDE DEF S
        <5>3. \A d \in Camp, q \in Role :
                proc'[<<d, q>>] = IF d = camp /\ q = child THEN "reaped" ELSE proc[<<d, q>>]
          BY <1>0, <2>1, <5>1, <5>2, ProcUpdate
        <5> QED
          BY <1>0, <2>1, <5>3 DEF OwnChildren, Running
      <4>2. CASE ~(pid[child] = "known" /\ child \in Cleaned)
        BY <3>1, <4>2, <2>1 DEF OwnChildren, Running, Cleaned, Role
      <4> QED
        BY <4>1, <4>2
    <3>4. Abrupt(camp)'
      BY <1>0, <2>1, <3>1 DEF NotEnded, Abrupt
    <3>5. Segment'
      BY <1>0, <2>1, <3>1, <3>3 DEF OnlyLoose, Marks, Segment
    <3>6. Replaced'
      BY <1>0, <2>1, <3>1, <3>3 DEF OwnChildren, Marks, Replaced, Role, Alive
    <3> QED
      BY <2>1, <3>2, <3>3, <3>4, <3>5, <3>6
  <2> QED
    BY <2>2, <2>3
<1>16. ASSUME CleanShm PROVE Goal
  <2>1. OwnChildren
    BY <1>0, <1>16 DEF CleanShm, OwnChildren, Role, Types, TypeOK, FuzzerTypes, ProcessTypes
  <2>2. Abrupt(camp)'
    BY <1>0, <1>16 DEF CleanShm, Abrupt, OnlyLoose, Childless, Running, Inv, NotEnded,
       Alive, Marks, Children, Segment, Role, Types, TypeOK, FuzzerTypes, ProcessTypes
  <2>3. Segment'
    BY <1>0, <1>16 DEF CleanShm, OnlyLoose, Running, Inv, InCleanup, Called, Marks, Segment,
       Role, Types, TypeOK, FuzzerTypes, ProcessTypes
  <2>4. Replaced'
    BY <1>0, <1>16, <2>1 DEF CleanShm, OwnChildren, Alive, Marks, Replaced, Role, Sig, Types,
       TypeOK, FuzzerTypes, ProcessTypes
  <2> QED
    BY <1>0, <1>16, <2>1, <2>2, <2>3, <2>4 DEF CleanShm, Marks, Children, Childless, Segment,
       Role, After, Cleaned, Types, TypeOK, FuzzerTypes, ProcessTypes
<1>17. ASSUME CleanQueue PROVE Goal
  <2>1. OwnChildren
    BY <1>0, <1>17 DEF CleanQueue, OwnChildren, Role, Types, TypeOK, FuzzerTypes, ProcessTypes
  <2>2. Abrupt(camp)'
    BY <1>0, <1>17 DEF CleanQueue, Abrupt, OnlyLoose, Childless, Running, Inv, NotEnded,
       Alive, Marks, Children, Segment, Role, Types, TypeOK, FuzzerTypes, ProcessTypes
  <2>3. Segment'
    BY <1>0, <1>17 DEF CleanQueue, OnlyLoose, Running, Inv, InCleanup, Called, Marks, Segment,
       Role, Types, TypeOK, FuzzerTypes, ProcessTypes
  <2>4. Replaced'
    BY <1>0, <1>17, <2>1 DEF CleanQueue, OwnChildren, Alive, Marks, Replaced, Role, Sig, Types,
       TypeOK, FuzzerTypes, ProcessTypes
  <2> QED
    BY <1>0, <1>17, <2>1, <2>2, <2>3, <2>4 DEF CleanQueue, Marks, Children, Childless, Segment,
       Role, After, Cleaned, Types, TypeOK, FuzzerTypes, ProcessTypes
<1>18. ASSUME CleanStack PROVE Goal
  <2>1. OwnChildren
    BY <1>0, <1>18 DEF CleanStack, Unmapped, OwnChildren, Role, Types, TypeOK, FuzzerTypes, ProcessTypes
  <2>2. Abrupt(camp)'
    BY <1>0, <1>18 DEF CleanStack, Unmapped, Abrupt, OnlyLoose, Childless, Running, Inv, NotEnded,
       Alive, Marks, Children, Segment, Role, Types, TypeOK, FuzzerTypes, ProcessTypes
  <2>3. Segment'
    BY <1>0, <1>18 DEF CleanStack, Unmapped, OnlyLoose, Running, Inv, InCleanup, Called, Marks, Segment,
       Role, Types, TypeOK, FuzzerTypes, ProcessTypes
  <2>4. Replaced'
    BY <1>0, <1>18, <2>1 DEF CleanStack, Unmapped, OwnChildren, Alive, Marks, Replaced, Role, Sig, Types,
       TypeOK, FuzzerTypes, ProcessTypes
  <2> QED
    BY <1>0, <1>18, <2>1, <2>2, <2>3, <2>4 DEF CleanStack, Unmapped, Marks, Children, Childless, Segment,
       Role, After, Cleaned, Types, TypeOK, FuzzerTypes, ProcessTypes
<1>19. Goal
  BY <1>1, <1>2, <1>3, <1>4, <1>5, <1>6, <1>7, <1>8, <1>9,
     <1>10, <1>11, <1>12, <1>13, <1>14, <1>15, <1>16, <1>17, <1>18
     DEF Fuzzer
<1>20. Own
  BY FuzzerStep
<1> QED
  BY <1>0, <1>19, <1>20, OwnMarks DEF Marks, Children, Own

LEMMA SignalMarks == ASSUME Types, Inv, NoHandlers, Marks, Signal PROVE Marks'
<1>1. camp \in Camp /\ camp' = camp /\ Own
  BY SignalStep DEF Types, TypeOK, FuzzerTypes, Own
<1>2. UNCHANGED <<proc, pid, execs, shm, disp>>
  BY DEF Signal, Handled, Default
<1>3. OwnChildren
  BY <1>2 DEF OwnChildren
<1>4. ASSUME NEW s \in Sig, Handled(s) PROVE Marks'
  <2>1. at \notin {"shm", "queue", "handlers"}
    BY <1>4 DEF Handled, NoHandlers
  <2>2. Segment'
    BY <1>1, <1>2, <1>4, <2>1 DEF Handled, Alive, OnlyLoose, Running, Inv, InCleanup,
       Called, Marks, Segment, Role, Types, TypeOK, FuzzerTypes
  <2>3. Replaced'
    BY <1>1, <1>2, <1>4, <2>1 DEF Handled, Alive, Marks, Replaced
  <2>4. Abrupt(camp)'
    BY <1>1, <1>2, <1>4 DEF Handled, Alive, Inv, NotEnded, Abrupt
  <2>5. \/ \A r \in Role : pid'[r] # "zero"
        \/ /\ \A r \in Role : pid'[r] = "zero"
           /\ Childless(camp') /\ execs' = 0 /\ how' # "timer" /\ at' = "clean"
           /\ child' = "bsim" /\ camp' \in shm'
    BY <1>1, <1>2, <1>4, <2>1 DEF Handled, Alive, Marks, Children, Segment, Childless
  <2> QED
    BY <1>1, <1>2, <1>3, <2>2, <2>3, <2>4, <2>5, OwnMarks DEF Marks, Children, Childless
<1>5. ASSUME NEW s \in Sig, Default(s) PROVE Marks'
  <2>1. at' = "dead" /\ UNCHANGED <<child, how, loose>>
    BY <1>5 DEF Default
  <2>2. Segment' /\ Replaced'
    BY <2>1 DEF Segment, Replaced, Alive
  <2>3. Abrupt(camp)'
    BY <1>1, <1>2, <1>5, <2>1 DEF Default, Alive, Inv, NotEnded, InExecution, Abrupt, Marks,
       Segment, Replaced, OnlyLoose, Running, Types, TypeOK, FuzzerTypes
  <2>4. \/ \A r \in Role : pid'[r] # "zero"
        \/ /\ \A r \in Role : pid'[r] = "zero"
           /\ Childless(camp)' /\ execs' = 0 /\ how' # "timer" /\ at' = "dead"
    BY <1>1, <1>2, <2>1 DEF Marks, Children, Childless
  <2> QED
    BY <1>1, <1>3, <2>1, <2>2, <2>3, <2>4, OwnMarks DEF Marks, Children
<1> QED
  BY <1>4, <1>5 DEF Signal

LEMMA NewCampaignMarks == ASSUME Types, Marks, NewCampaign PROVE Marks'
<1>1. camp + 1 \in Camp /\ camp + 1 > camp /\ camp' = camp + 1
  BY NextCamp DEF NewCampaign, Types, TypeOK, FuzzerTypes, Camp
<1>2. UNCHANGED <<ended, loose, proc, shm>> /\ at' = "shm" /\ how' = "none" /\ execs' = 0
  BY DEF NewCampaign
<1>3. \A c \in Camp : c > camp + 1 => c > camp
  BY DEF Camp, Types, TypeOK, FuzzerTypes
<1>4. \A r \in Role : pid'[r] = "zero"
  BY DEF NewCampaign
<1>5. Children'
  BY <1>1, <1>2, <1>3, <1>4 DEF Marks, Children, Childless
<1>6. Segment' /\ Replaced'
  BY <1>2 DEF Segment, Replaced
<1>7. \A c \in Camp : Abrupt(c)'
  BY <1>2 DEF Marks, Abrupt, OnlyLoose, Running, Childless
<1> QED
  BY <1>5, <1>6, <1>7 DEF Marks

\* Interceptors and targets start no process and forget none.
LEMMA PassiveMarks ==
  ASSUME Types, Inv, Marks, NEW d \in Camp, Interceptor(d) \/ Target(d) PROVE Marks'
<1>1. OnlyEnds /\ camp \in Camp
  BY PassiveStep DEF Types, TypeOK, FuzzerTypes
<1>2. execs' = execs
  BY DEF Interceptor, Target, ShareHandlers, Receive, Answer, InterceptorExit, Alarm,
     PacketArrives, LookUp, Send, RecvAck, TargetEnds, fuzzer
<1>3. \A p \in Camp \X Role : proc'[p] = proc[p] \/ (proc[p] = "running" /\ proc'[p] = "zombie")
  BY DEF Interceptor, Target, ShareHandlers, Receive, Answer, InterceptorExit, Alarm,
     PacketArrives, LookUp, Send, RecvAck, TargetEnds, Running, Types, TypeOK, ProcessTypes
<1>4. \A c \in Camp, r \in Role : proc'[<<c, r>>] = "none" <=> proc[<<c, r>>] = "none"
  <2>1. \A c \in Camp, r \in Role : <<c, r>> \in Camp \X Role
    OBVIOUS
  <2> QED
    BY <1>3, <2>1
<1>5. \A c \in Camp : (Childless(c) <=> Childless(c)') /\ (OnlyLoose(c) => OnlyLoose(c)')
  BY <1>1, <1>4 DEF Childless, OnlyLoose, OnlyEnds
<1>6. Children'
  BY <1>1, <1>2, <1>5 DEF Marks, Children, OnlyEnds
<1>7. Segment'
  BY <1>1, <1>5 DEF Marks, Segment, OnlyEnds
<1>8. \A c \in Camp : Abrupt(c)'
  BY <1>1, <1>4, <1>5 DEF Marks, Abrupt, OnlyEnds, Role
<1>9. Replaced'
  <2>1. CASE ShareHandlers(d)
    <3>1. CASE d = camp /\ Alive
      <4>1. proc[<<camp, "interceptor">>] # "none"
        BY <2>1, <3>1 DEF ShareHandlers, Running
      <4> QED
        BY <1>1, <1>4, <4>1 DEF Replaced, OnlyEnds, Role
    <3>2. CASE ~(d = camp /\ Alive)
      <4>1. disp' = disp
        BY <2>1, <3>2 DEF ShareHandlers
      <4> QED
        BY <1>1, <1>4, <4>1 DEF Marks, Replaced, Alive, OnlyEnds, Role
    <3> QED
      BY <3>1, <3>2
  <2>2. CASE ~ShareHandlers(d)
    <3>1. disp' = disp
      BY <2>2 DEF Interceptor, Target, Receive, Answer, InterceptorExit, Alarm,
         PacketArrives, LookUp, Send, RecvAck, TargetEnds, fuzzer
    <3> QED
      BY <1>1, <1>4, <3>1 DEF Marks, Replaced, Alive, OnlyEnds, Role
  <2> QED
    BY <2>1, <2>2
<1> QED
  BY <1>6, <1>7, <1>8, <1>9 DEF Marks

LEMMA MarksStep == ASSUME Types, Inv, NoHandlers, Marks, [Next]_vars PROVE Marks'
<1>1. CASE UNCHANGED vars
  BY <1>1 DEF vars, fuzzer, Marks, Children, Segment, Replaced, Abrupt, Childless, OnlyLoose,
     Running, Alive
<1> QED
  BY <1>1, FuzzerMarks, SignalMarks, NewCampaignMarks, PassiveMarks DEF Next

LEMMA InitMarks == Init => Marks
<1> SUFFICES ASSUME Init PROVE Marks
  OBVIOUS
<1>1. \A c \in Camp : ended[c] = "no" /\ Childless(c)
  BY DEF Init, Childless
<1>2. camp \in Camp /\ at = "shm" /\ execs = 0 /\ how = "none" /\ \A r \in Role : pid[r] = "zero"
  BY Camps DEF Init
<1> QED
  BY <1>1, <1>2 DEF Marks, Children, Segment, Replaced, Abrupt

\* In any sequence of campaigns: one that sig_handler ends leaves its target and
\* one process of unknown pid at most; only an interceptor of its own takes the
\* handlers of a fuzzer away; and kill(0, SIGKILL) comes before any child.
THEOREM SignalIsNearlyClean == Spec => []SignalLeftovers
<1>1. Init => Types /\ Inv /\ NoHandlers /\ Marks
  BY InitTypes, InitInv, InitQInv, InitMarks DEF QInv
<1>2. Types /\ Inv /\ NoHandlers /\ Marks /\ [Next]_vars
        => (Types /\ Inv /\ NoHandlers /\ Marks)'
  <2>1. ASSUME NoHandlers, UNCHANGED vars PROVE NoHandlers'
    BY <2>1 DEF vars, fuzzer, NoHandlers
  <2> QED
    BY <2>1, TypesStep, InvStep, NoHandlersStep, MarksStep
<1>3. Inv /\ Marks => SignalLeftovers
  <2>1. \A c \in Camp : Left(c) => (ended[c] = "signal" =>
                          c \notin shm /\ OnlyLoose(c) /\ ~Running(c, "interceptor"))
    BY DEF Left, OnlyLoose, Role
  <2> QED
    BY <2>1 DEF Inv, Past, Marks, Abrupt, Childless, SignalLeftovers
<1> QED
  BY <1>1, <1>2, <1>3, PTL DEF Spec
===============================================================================
