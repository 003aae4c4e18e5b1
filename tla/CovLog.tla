------------------------------- MODULE CovLog -------------------------------
(***************************************************************************)
(* The coverage statistics: the logger of the fuzzer                       *)
(* (coverage_logger/coverage_logger.c), which keeps its samples in memory  *)
(* until the campaign ends by its TIMER, and gen_csv.py, which makes one   *)
(* row per second of them.                                                 *)
(***************************************************************************)
EXTENDS Integers, Sequences, FiniteSetsExt

CONSTANTS MaxEntries,  \* MAX_ENTRIES
          Second,      \* units of the clock in a second
          MaxTime      \* max_time of gen_csv.py, in seconds

ASSUME CovLogAssumption ==
  MaxEntries \in Nat \ {0} /\ Second \in Nat \ {0} /\ MaxTime \in Nat

VARIABLES coverage_array, statfile   \* statfile: what was saved, << >> before

Sample == [time : Nat, coverage : Nat]
Reading == [time : Int, coverage : Nat]   \* what a sample is meant to say

\* the newest samples are dropped once the array is full
AddCoverageEntry_bad(time, coverage) ==
  coverage_array' = Append(IF Len(coverage_array) >= MaxEntries THEN Tail(coverage_array)
                           ELSE coverage_array, [time |-> time, coverage |-> coverage])
AddCoverageEntry(time, coverage) ==
  coverage_array' = IF Len(coverage_array) >= MaxEntries THEN coverage_array
                    ELSE Append(coverage_array, [time |-> time, coverage |-> coverage])

SaveCoverageToFile == statfile' = coverage_array'

-----------------------------------------------------------------------------
(* json_to_csv *)

TimeSec(sample) == sample.time \div Second

\* the samples before the first that is later than max_time
Read(data) ==
  LET late == {k \in DOMAIN data : TimeSec(data[k]) > MaxTime}
  IN IF late = {} THEN DOMAIN data ELSE 1..(Min(late) - 1)

\* trace: of the samples in one second the last one stays
TraceOf(data) ==
  LET at(t) == {k \in Read(data) : TimeSec(data[k]) = t}
  IN [t \in {0} \cup {TimeSec(data[k]) : k \in Read(data)} |->
        IF at(t) = {} THEN 0 ELSE data[Max(at(t))].coverage]

Rebuild(trace) ==
  LET row[t \in 0..MaxTime] == IF t \in DOMAIN trace THEN trace[t] ELSE row[t - 1]
  IN row

\* What a row is meant to say of the samples that were taken: the coverage of
\* the last one up to its second, of the first MAX_ENTRIES.
Plot(readings) ==
  [t \in 0..MaxTime |->
     LET upto == {k \in DOMAIN readings : /\ k <= MaxEntries /\ readings[k].time >= 0
                                          /\ TimeSec(readings[k]) <= t}
     IN IF upto = {} THEN 0 ELSE readings[Max(upto)].coverage]
=============================================================================
