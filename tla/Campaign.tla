------------------------------- MODULE Campaign -------------------------------
(***************************************************************************)
(* The main loop of the fuzzer (start_fuzzer, blueman-main/btfuzz.c) and   *)
(* what it remembers of its executions: the coverage maps and the seed     *)
(* queue (blueman-main/coverage.c) and the seed directory, which outlives  *)
(* the process.  An execution of fuzz_one is one step here, with any       *)
(* verdict and any trace (FuzzOne has the inside of it).  The list and the *)
(* cursor are those of SeedQueue.                                          *)
(*                                                                         *)
(* A coverage map is kept as the sets of bits that are 1: has_new_bits     *)
(* reads it in words of several bytes, here words of lanes.  In trace_bits *)
(* a bit is set by the target; in virgin_bits it is cleared once seen.     *)
(***************************************************************************)
EXTENDS SeedQueue, FiniteSets

CONSTANTS NWords, Lane, Bit, \* the shape of a map: words, bytes of a word, bits
          Traces,            \* the traces an execution may leave
          InitialFiles,      \* names in the seed directory at first
          TimesPerRound,     \* TIMES_PER_ROUND
          MaxPkts,           \* packets an execution may record
          MaxExecs,          \* bound: executions per process
          MaxStarts          \* bound: processes

Words == 1..NWords
Map == [Words -> [Lane -> SUBSET Bit]]
Name == [cov : Nat, exec : Nat, num : Nat]
InitCorpus == [cov |-> 0, exec |-> 0, num |-> 0]   \* "init_corpus"

ASSUME CampaignAssumption ==
  /\ NWords \in Nat \ {0} /\ Traces \subseteq Map
  /\ IsFiniteSet(Lane) /\ Bit # {}
  /\ IsFiniteSet(InitialFiles)
  /\ \A f \in InitialFiles : f \in Name /\ f.num < Cardinality(InitialFiles)
  /\ TimesPerRound \in Nat \ {0} /\ MaxPkts \in Nat
  /\ MaxExecs \in Nat /\ MaxStarts \in Nat

VARIABLES
  at,                                  \* where start_fuzzer stands
  seedfiles,                           \* the seed directory
  fname,                               \* queue_entry.fname
  queued_paths, total_exec_times, ith, \* ith: loop variable of a round
  fault_count, trace_bits, virgin_bits,
  w, ret,                              \* has_new_bits: next word, value so far
  packet_count, total_packet_count,
  cur_coverage, max_total_coverage,
  starts,                              \* processes started
  mine, seen,                          \* history: the trace of the last execution,
                                       \* the union of those that did not crash
  recorded, heard,                     \* history: packets all executions recorded,
  recounted                            \* and the last that had any; packets counted
                                       \* for executions that had none

counters == <<queued_paths, total_exec_times, ith, packet_count,
              total_packet_count, cur_coverage, max_total_coverage>>
maps == <<fault_count, trace_bits, virgin_bits, w, ret>>
packets == <<recorded, heard, recounted>>
history == <<starts, mine, seen, packets>>
disk == <<seedfiles, fname>>
campaign == <<qvars, at, disk, counters, maps, history>>

NoBits == [v \in Words |-> [l \in Lane |-> {}]]
AllBits == [v \in Words |-> [l \in Lane |-> Bit]]
Plus(m, n) == [v \in Words |-> [l \in Lane |-> m[v][l] \cup n[v][l]]]
Bytes == Words \X Lane

\* count_bytes: bytes of the trace that are not zero
CorpusGetCoverage == Cardinality({b \in Bytes : trace_bits[b[1]][b[2]] # {}})

\* count_non_255_bytes: bytes of virgin_bits that have lost a bit
TotalCoverage == Cardinality({b \in Bytes : virgin_bits[b[1]][b[2]] # Bit})

\* the memory of a process at its start, after setup_shm
FreshMaps == /\ fault_count = 0 /\ trace_bits = NoBits /\ virgin_bits = AllBits
             /\ w = 1 /\ ret = 0
FreshCounters == /\ queued_paths = 0 /\ total_exec_times = 0 /\ ith = 0
                 /\ packet_count = 0 /\ total_packet_count = 0
                 /\ cur_coverage = 0 /\ max_total_coverage = 0

CampaignInit ==
  /\ Init /\ at = "collect"
  /\ seedfiles = InitialFiles /\ fname = [e \in Entry |-> InitCorpus]
  /\ FreshMaps /\ FreshCounters
  /\ starts = 1 /\ mine = NoBits /\ seen = NoBits
  /\ recorded = 0 /\ heard = 0 /\ recounted = 0

-----------------------------------------------------------------------------
\* collect_init_corpus: the init run writes its file, or fails and does not.
CollectInitCorpus ==
  /\ at = "collect" /\ at' = "load"
  /\ IF seedfiles # {} THEN UNCHANGED seedfiles
                       ELSE seedfiles' \in {{}, {InitCorpus}}
  /\ UNCHANGED <<qvars, fname, counters, maps, history>>

AddPath(e, name) ==
  /\ AddToQueue(e)
  /\ fname' = [fname EXCEPT ![e] = name]
  /\ queued_paths' = queued_paths + 1
  /\ UNCHANGED <<total_exec_times, ith, packet_count, total_packet_count,
                 cur_coverage, max_total_coverage>>

\* malloc; no behaviour depends on which free address it returns
Malloc == LET free == {e \in Entry : ~IsListed(e)}
          IN IF free = {} THEN {} ELSE {CHOOSE e \in free : TRUE}

Queued == {fname[order[k]] : k \in 1..Len(order)}

\* load_corpus_to_queue, in the order readdir happens to give
LoadCorpus ==
  /\ at = "load"
  /\ \E f \in seedfiles \ Queued, e \in Malloc : AddPath(e, f)
  /\ UNCHANGED <<at, seedfiles, maps, history>>

EndLoad ==
  /\ at = "load" /\ seedfiles \subseteq Queued
  /\ Loaded /\ at' = "cycle"
  /\ UNCHANGED <<disk, counters, maps, history>>

StartCycle ==
  /\ at = "cycle" /\ BeginCycle
  /\ at' = IF walk' = "round" THEN "exec" ELSE "aborted"
  /\ UNCHANGED <<disk, counters, maps, history>>

CleanTraceBits_bad == trace_bits
CleanTraceBits == NoBits

\* One turn of the inner loop up to the return of fuzz_one's processes.  An
\* execution whose interceptor received nothing leaves packet_count alone.
RunOne ==
  /\ at = "exec" /\ total_exec_times < MaxExecs
  /\ total_exec_times' = total_exec_times + 1
  /\ \E t \in Traces, n \in 0..MaxPkts :
       /\ mine' = t /\ trace_bits' = Plus(CleanTraceBits, t)
       /\ packet_count' = IF n = 0 THEN packet_count ELSE n
       /\ recorded' = recorded + n
       /\ heard' = IF n = 0 THEN heard ELSE n
       /\ recounted' = IF n = 0 THEN recounted + heard ELSE recounted
  /\ fault_count' \in {0, 1}
  /\ w' = 1 /\ ret' = 0
  /\ at' = IF fault_count' = 1 THEN "account" ELSE "scan"
  /\ UNCHANGED <<qvars, disk, virgin_bits, queued_paths, ith, total_packet_count,
                 cur_coverage, max_total_coverage, starts, seen>>

\* has_new_bits looks at one word
AnyNew(cur, vir) == \E l \in Lane : cur[l] \cap vir[l] # {}
NewByte(cur, vir) == \E l \in Lane : cur[l] # {} /\ vir[l] = Bit

WordRet_bad(cur, vir) == IF NewByte(cur, vir) THEN 2 ELSE 1
WordRet(cur, vir) == IF ret = 2 \/ NewByte(cur, vir) THEN 2 ELSE 1

ScanWord ==
  LET cur == trace_bits[w]
      vir == virgin_bits[w]
  IN /\ at = "scan" /\ w <= NWords
     /\ IF AnyNew(cur, vir)
          THEN /\ ret' = WordRet(cur, vir)
               /\ virgin_bits' = [virgin_bits EXCEPT ![w] = [l \in Lane |-> vir[l] \ cur[l]]]
          ELSE UNCHANGED <<ret, virgin_bits>>
     /\ w' = w + 1
     /\ UNCHANGED <<qvars, at, disk, counters, fault_count, trace_bits, history>>

\* save_if_interesting: the early return, or a new entry under a new name
NotInteresting ==
  /\ at = "scan" /\ w > NWords /\ ret = 0
  /\ at' = "account"
  /\ UNCHANGED <<qvars, disk, counters, maps, history>>

SeedNumber_bad == total_exec_times
SeedNumber == queued_paths

KeepSeed ==
  /\ at = "scan" /\ w > NWords /\ ret # 0
  /\ \E e \in Malloc :
       AddPath(e, [cov |-> CorpusGetCoverage, exec |-> total_exec_times,
                   num |-> SeedNumber])
  /\ at' = "save"
  /\ UNCHANGED <<seedfiles, maps, history>>

Newest == fname[order[Len(order)]]

SaveSeed ==
  /\ at = "save" /\ at' = "account"
  /\ seedfiles' = seedfiles \cup {Newest}
  /\ UNCHANGED <<qvars, fname, counters, maps, history>>

MaxCoverage_bad == IF CorpusGetCoverage > max_total_coverage THEN CorpusGetCoverage
                   ELSE max_total_coverage
MaxCoverage == IF TotalCoverage > max_total_coverage THEN TotalCoverage
               ELSE max_total_coverage

PacketTotal_bad == IF fault_count = 1 THEN total_packet_count
                   ELSE total_packet_count + packet_count
PacketTotal == total_packet_count + packet_count

NextTurn == (ith + 1) % TimesPerRound

\* The rest of the turn.
Account ==
  /\ at = "account"
  /\ cur_coverage' = CorpusGetCoverage
  /\ max_total_coverage' = MaxCoverage
  /\ total_packet_count' = PacketTotal
  /\ ith' = NextTurn
  /\ at' = IF ith' = 0 THEN "rounded" ELSE "exec"
  /\ seen' = IF fault_count = 1 THEN seen ELSE Plus(seen, mine)
  /\ UNCHANGED <<qvars, disk, maps, queued_paths, total_exec_times, packet_count,
                 starts, mine, packets>>

\* The end of a round: the time is over, or the walk goes on.
TimerExit ==
  /\ at = "rounded" /\ at' = "exited"
  /\ UNCHANGED <<qvars, disk, counters, maps, history>>

NextRound_bad ==   \* the head of the queue is read again for every round
  /\ at = "rounded" /\ at' = "exec" /\ queue_cur' = QueueHead
  /\ UNCHANGED <<list, queue_tail, walk, begun, turns, disk, counters, maps, history>>

NextRound ==
  /\ at = "rounded" /\ NextSeed
  /\ at' = IF walk' = "round" THEN "exec" ELSE "cycle"
  /\ UNCHANGED <<disk, counters, maps, history>>

\* The process is killed wherever it stands, or has ended, and another one is
\* started on the directory it left.
Restart ==
  /\ starts < MaxStarts /\ starts' = starts + 1
  /\ NewProcess /\ at' = "collect"
  /\ fname' = [e \in Entry |-> InitCorpus]
  /\ fault_count' = 0 /\ trace_bits' = NoBits /\ virgin_bits' = AllBits
  /\ w' = 1 /\ ret' = 0
  /\ queued_paths' = 0 /\ total_exec_times' = 0 /\ ith' = 0
  /\ packet_count' = 0 /\ total_packet_count' = 0
  /\ cur_coverage' = 0 /\ max_total_coverage' = 0
  /\ mine' = NoBits /\ seen' = NoBits
  /\ recorded' = 0 /\ heard' = 0 /\ recounted' = 0
  /\ UNCHANGED seedfiles

CampaignNext ==
  \/ CollectInitCorpus \/ LoadCorpus \/ EndLoad \/ StartCycle
  \/ RunOne \/ ScanWord \/ NotInteresting \/ KeepSeed \/ SaveSeed \/ Account
  \/ TimerExit \/ NextRound \/ Restart

CampaignSpec == CampaignInit /\ [][CampaignNext]_campaign

-----------------------------------------------------------------------------
(* Properties *)

\* The types of the variables.
CampaignTypeOK ==
  /\ at \in {"collect", "load", "cycle", "exec", "scan", "save", "account",
             "rounded", "exited", "aborted"}
  /\ seedfiles \subseteq Name /\ fname \in [Entry -> Name]
  /\ trace_bits \in Map /\ virgin_bits \in Map /\ mine \in Map /\ seen \in Map
  /\ w \in 1..(NWords + 1) /\ ret \in 0..2
  /\ fault_count \in {0, 1}
  /\ ith \in 0..(TimesPerRound - 1)
  /\ queued_paths \in Nat /\ total_exec_times \in Nat
  /\ packet_count \in Nat /\ total_packet_count \in Nat
  /\ recorded \in Nat /\ heard \in Nat /\ recounted \in Nat
  /\ cur_coverage \in Nat /\ max_total_coverage \in Nat /\ starts \in Nat

\* Words of virgin_bits that has_new_bits has dealt with in this execution.
Merged(v) == \/ at = "scan" /\ v < w
             \/ at \in {"save", "account"} /\ fault_count = 0

\* virgin_bits has lost exactly the bits of the executions that did not crash:
\* a crash, whose trace is not looked at (btfuzz.c:602), leaves its coverage to
\* be found again, and skipping the words without new bits loses nothing.
VirginLedger ==
  \A v \in Words, l \in Lane :
    virgin_bits[v][l] = Bit \ (seen[v][l] \cup (IF Merged(v) THEN mine[v][l] ELSE {}))

\* What has_new_bits promises: 2 if the trace reaches a byte no execution that
\* counted had reached, 1 if it only adds bits to bytes already reached, else 0.
Novelty ==
  IF \E v \in Words, l \in Lane : mine[v][l] # {} /\ seen[v][l] = {} THEN 2
  ELSE IF \E v \in Words, l \in Lane : mine[v][l] \ seen[v][l] # {} THEN 1
  ELSE 0

\* Over the whole campaign a trace is judged against what came before it, not
\* against itself, whatever word its news are in (coverage.c:51).
NoveltyExact ==
  \/ at = "scan" /\ w > NWords
  \/ at \in {"save", "account"} /\ fault_count = 0
  => ret = Novelty

\* A seed never replaces another one, though a new process counts its
\* executions from 0 again and may have been killed between queueing a seed
\* and writing its file.
SeedNameFresh == at = "save" => Newest \notin seedfiles

\* Every seed in the queue is a file of its own that mmap_seq_buf_file will
\* find, but for the one about to be written.
QueueOnDisk ==
  /\ queued_paths = Len(order)
  /\ \A k \in 1..Len(order) :
       \/ fname[order[k]] \in seedfiles
       \/ at = "save" /\ k = Len(order)
  /\ \A j, k \in 1..Len(order) : fname[order[j]] = fname[order[k]] => j = k

\* The coverage that is logged as the maximum is the number of bytes reached by
\* the executions that did not crash, and it never shrinks.
MaxIsOfSeen ==
  at \in {"exec", "rounded"} =>
    max_total_coverage = Cardinality({b \in Bytes : seen[b[1]][b[2]] # {}})

\* packet_count is only set once a packet has come (btfuzz.c:192): an execution
\* without one, and no other, counts those of the last one that had any again.
\* The total the fuzzer prints is too large by these and nothing else.
PacketsAccounted ==
  at \in {"exec", "rounded"} => total_packet_count = recorded + recounted

\* The campaign works the seed queue the way SeedQueue says: what holds for the
\* list and the walk there holds here.
QueueKept == Spec

=============================================================================
