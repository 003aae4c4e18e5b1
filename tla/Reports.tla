------------------------------- MODULE Reports -------------------------------
(***************************************************************************)
(* What a campaign leaves on disk besides its seeds: a report for every    *)
(* crash, timeout and attack error (blueman-main/btfuzz.c), made of the    *)
(* recorded packets and a copy of a log file, and the coverage statistics  *)
(* of CovLog.                                                              *)
(*                                                                         *)
(* Target and attacker write to log files the fuzzer opened once; what     *)
(* they write in an execution starts at the beginning of the file, over    *)
(* what is there.  A log is the sequence of its blocks, each of them known *)
(* by the process and the execution that wrote it.  A later process finds  *)
(* the reports of an earlier one, and counts from zero again.              *)
(***************************************************************************)
EXTENDS CovLog

CONSTANTS TimesPerRound,  \* TIMES_PER_ROUND
          Timer,          \* TIMER, in units of the clock
          ClockLimit,     \* the clock is read modulo this
          Steps,          \* by how much the clock may have moved when it is read
          MaxCoverage,    \* bound: coverage
          MaxOut,         \* bound: blocks a device writes in an execution
          MaxExecs,       \* bound: executions of a process; one less is left to a later one
          MaxReports,     \* bound: with so many reports on disk nothing else goes wrong
          MaxStarts       \* bound: processes

ASSUME ReportsAssumption ==
  /\ TimesPerRound \in Nat \ {0} /\ Timer \in Nat /\ Timer < ClockLimit
  /\ ClockLimit \in Nat \ {0} /\ Steps \subseteq Int
  /\ MaxCoverage \in Nat /\ MaxOut \in Nat
  /\ MaxExecs \in Nat /\ MaxStarts \in Nat /\ MaxReports \in Nat

\* From any time a campaign goes on at, one step is less than the range of the
\* clock, and one step back before its start is past any time it is asked for.
ASSUME StepsAssumption ==
  \A s \in Steps : /\ Timer + s < ClockLimit /\ Timer < ClockLimit + s
                   /\ (MaxTime + 1) * Second <= ClockLimit + s

Device == {"target", "attacker"}

VARIABLES
  starts, at,
  total_exec_times, attack_error_count, crash_count, timeout_count,
  log, pos,        \* per device: its log file, and where it writes next
  out,             \* history: blocks it wrote in this execution
  spoken,          \* history: devices that wrote since the process started
  status, astatus, \* how target and attacker ended
  reports,         \* the reports by name
  clock,           \* cur_time - start_time, before it is cut to its width
  sampled,         \* history: clock and coverage at the end of every round
  max_total_coverage

counts == <<attack_error_count, crash_count, timeout_count>>
logs == <<log, pos, out, spoken>>
stats == <<coverage_array, statfile, clock, sampled, max_total_coverage>>
vars == <<starts, at, total_exec_times, counts, logs, status, astatus, reports, stats>>

Me == <<starts, total_exec_times>>   \* this execution
Report == [corpus : Nat \X Nat, log : Seq(Nat \X Nat), own : Nat]

\* the memory of a process after init_fuzzer, which truncates the log files
Fresh ==
  [at |-> "collect", log |-> [d \in Device |-> << >>], pos |-> [d \in Device |-> 0]]

Init ==
  /\ starts = 1 /\ at = Fresh.at /\ total_exec_times = 0
  /\ attack_error_count = 0 /\ crash_count = 0 /\ timeout_count = 0
  /\ log = Fresh.log /\ pos = Fresh.pos /\ out = Fresh.pos /\ spoken = {}
  /\ status = "none" /\ astatus = "none"
  /\ reports = [n \in {} |-> n]
  /\ coverage_array = << >> /\ statfile = << >> /\ clock = 0 /\ sampled = << >>
  /\ max_total_coverage = 0

-----------------------------------------------------------------------------
(* start_fuzzer around an execution *)

\* collect_init_corpus: an init run, with total_exec_times still 0, or none
Collect ==
  /\ at = "collect" /\ at' \in {"begin", "loop"}
  /\ UNCHANGED <<starts, total_exec_times, counts, logs, status, astatus, reports, stats>>

NextExec ==
  /\ at = "loop" /\ starts + total_exec_times <= MaxExecs
  /\ total_exec_times' = total_exec_times + 1 /\ at' = "begin"
  /\ UNCHANGED <<starts, counts, logs, status, astatus, reports, stats>>

\* the clock is gettimeofday, which may be set back; the difference is unsigned
TotalElapse_bad == IF clock' < 0 THEN 0 ELSE clock'   \* signed, from 0
TotalElapse == clock' % ClockLimit

EndInitRun ==
  /\ at = "done" /\ total_exec_times = 0 /\ at' = "loop"
  /\ UNCHANGED <<starts, total_exec_times, counts, logs, status, astatus, reports, stats>>

\* end of a turn; after the last of a round the sample and the TIMER
EndExec ==
  /\ at = "done" /\ total_exec_times > 0
  /\ \E c \in max_total_coverage..MaxCoverage : max_total_coverage' = c
  /\ IF total_exec_times % TimesPerRound # 0
       THEN at' = "loop" /\ UNCHANGED <<coverage_array, statfile, clock, sampled>>
       ELSE /\ \E s \in Steps : clock' = clock + s
            /\ sampled' = Append(sampled, [time |-> clock', coverage |-> max_total_coverage'])
            /\ AddCoverageEntry(TotalElapse, max_total_coverage')
            /\ IF TotalElapse > Timer THEN at' = "exited" /\ SaveCoverageToFile
                                      ELSE at' = "loop" /\ UNCHANGED statfile
  /\ UNCHANGED <<starts, total_exec_times, counts, logs, status, astatus, reports>>

\* the process is killed, or has ended, and another one is started; a target
\* that outlives it (Shutdown) is taken to be silent
Restart ==
  /\ starts < MaxStarts /\ starts + total_exec_times <= MaxExecs /\ starts' = starts + 1
  /\ at' = Fresh.at /\ total_exec_times' = 0
  /\ attack_error_count' = 0 /\ crash_count' = 0 /\ timeout_count' = 0
  /\ log' = Fresh.log /\ pos' = Fresh.pos /\ out' = Fresh.pos /\ spoken' = {}
  /\ status' = "none" /\ astatus' = "none"
  /\ coverage_array' = << >> /\ statfile' = << >> /\ clock' = 0 /\ sampled' = << >>
  /\ max_total_coverage' = 0
  /\ UNCHANGED reports

-----------------------------------------------------------------------------
(* fuzz_one *)

\* "reset log": the devices write from the beginning, but the files keep what
\* is in them
ResetLog_bad == UNCHANGED <<pos, log>>
ResetLog_truncate == pos' = Fresh.pos /\ log' = Fresh.log
ResetLog == pos' = Fresh.pos /\ UNCHANGED log

Begin ==
  /\ at = "begin" /\ at' = "run"
  /\ ResetLog /\ out' = Fresh.pos
  /\ status' = "running" /\ astatus' = "running"
  /\ UNCHANGED <<starts, total_exec_times, counts, spoken, reports, stats>>

\* the firmware prints
Output(d) ==
  /\ (IF d = "target" THEN status ELSE astatus) = "running" /\ out[d] < MaxOut
  /\ log' = [log EXCEPT ![d] = [k \in 1..Max({Len(@), pos[d] + 1}) |->
                                  IF k = pos[d] + 1 THEN Me ELSE @[k]]]
  /\ pos' = [pos EXCEPT ![d] = @ + 1] /\ out' = [out EXCEPT ![d] = @ + 1]
  /\ spoken' = spoken \cup {d}
  /\ UNCHANGED <<starts, at, total_exec_times, counts, status, astatus, reports, stats>>

Calm == Cardinality(DOMAIN reports) >= MaxReports

\* the alarm that kills a target is not set in the init run
TargetEnds ==
  /\ at = "run" /\ at' = "report"
  /\ status' \in {"fine", "crash", "error"}
       \cup (IF total_exec_times = 0 THEN {} ELSE {"killed"})
  /\ Calm => status' = "fine"
  /\ UNCHANGED <<starts, total_exec_times, counts, logs, astatus, reports, stats>>

\* open without O_TRUNC, then my_copy_file_range of the whole log: a log of that
\* name that was longer keeps its end.  An empty log cannot be mapped.
CopyOver(new, old) == new \o SubSeq(old, Len(new) + 1, Len(old))

Save(name, d) ==
  LET old == IF name \in DOMAIN reports THEN reports[name].log ELSE << >>
  IN reports' = [n \in DOMAIN reports \cup {name} |->
                   IF n # name THEN reports[n]
                   ELSE [corpus |-> Me, log |-> CopyOver(log[d], old), own |-> out[d]]]

CrashName_bad == <<"crash", timeout_count>>
CrashName == <<"crash", total_exec_times>>

SaveSignalErrorInfo ==
  /\ at = "report" /\ status = "crash"
  /\ Save(CrashName, "target")
  /\ crash_count' = crash_count + 1 /\ at' = "attacker"
  /\ UNCHANGED <<starts, total_exec_times, attack_error_count, timeout_count, logs,
                 status, astatus, stats>>

\* a log that cannot be copied ends in while(1)
SaveAttackErrorInfo(d, next) ==
  /\ Save(<<"attack", attack_error_count, d>>, d)
  /\ IF log[d] = << >>
       THEN at' = "spin" /\ UNCHANGED attack_error_count
       ELSE at' = next /\ attack_error_count' = attack_error_count + 1
  /\ UNCHANGED <<starts, total_exec_times, crash_count, timeout_count, logs, status,
                 astatus, stats>>

TargetError ==
  at = "report" /\ status = "error" /\ SaveAttackErrorInfo("target", "attacker")

NoReport ==
  /\ at = "report" /\ status \in {"fine", "killed"} /\ at' = "attacker"
  /\ UNCHANGED <<starts, total_exec_times, counts, logs, status, astatus, reports, stats>>

\* kill and waitpid of the attacker, which may have ended by itself
ReapAttacker ==
  /\ at = "attacker" /\ at' = "attackreport"
  /\ astatus' \in {"killed", "exit", "trap"}
  /\ Calm => astatus' = "killed"
  /\ UNCHANGED <<starts, total_exec_times, counts, logs, status, reports, stats>>

AttackError ==
  /\ at = "attackreport" /\ astatus # "killed"
  /\ SaveAttackErrorInfo("attacker", "timeout")

NoAttackError ==
  /\ at = "attackreport" /\ astatus = "killed" /\ at' = "timeout"
  /\ UNCHANGED <<starts, total_exec_times, counts, logs, status, astatus, reports, stats>>

SaveTimeoutErrorInfo ==
  /\ at = "timeout" /\ at' = "done"
  /\ IF status = "killed" /\ astatus # "trap"
       THEN Save(<<"timeout", total_exec_times>>, "target") /\ timeout_count' = timeout_count + 1
       ELSE UNCHANGED <<reports, timeout_count>>
  /\ status' = "none" /\ astatus' = "none"
  /\ UNCHANGED <<starts, total_exec_times, attack_error_count, crash_count, logs, stats>>

-----------------------------------------------------------------------------
Next == \/ Collect \/ NextExec \/ EndInitRun \/ EndExec \/ Restart
        \/ Begin \/ Output("target") \/ Output("attacker") \/ TargetEnds
        \/ SaveSignalErrorInfo \/ TargetError \/ NoReport \/ ReapAttacker
        \/ AttackError \/ NoAttackError \/ SaveTimeoutErrorInfo

Spec == Init /\ [][Next]_vars

-----------------------------------------------------------------------------
(* Properties *)

\* The types of the variables.
TypeOK ==
  /\ at \in {"collect", "loop", "begin", "run", "report", "attacker", "attackreport",
             "timeout", "done", "spin", "exited"}
  /\ starts \in Nat /\ total_exec_times \in Nat /\ attack_error_count \in Nat
  /\ crash_count \in Nat /\ timeout_count \in Nat
  /\ log \in [Device -> Seq(Nat \X Nat)] /\ pos \in [Device -> Nat]
  /\ out \in [Device -> Nat] /\ spoken \subseteq Device
  /\ status \in {"none", "running", "fine", "crash", "error", "killed"}
  /\ astatus \in {"none", "running", "killed", "exit", "trap"}
  /\ \A n \in DOMAIN reports : reports[n] \in Report
  /\ clock \in Int /\ max_total_coverage \in Nat
  /\ coverage_array \in Seq(Sample) /\ Len(coverage_array) <= MaxEntries
  /\ statfile \in Seq(Sample) /\ sampled \in Seq(Reading)

\* The counters the fuzzer prints are the reports on disk: no report of this
\* process is written over by another one, nor counted without being there,
\* whether it is numbered by executions or by a counter of its own.
Mine(kind) == Cardinality({n \in DOMAIN reports : n[1] = kind /\ reports[n].corpus[1] = starts})

CountsMatch ==
  /\ Mine("crash") = crash_count
  /\ Mine("timeout") = timeout_count
  /\ Mine("attack") = attack_error_count + (IF at = "spin" THEN 1 ELSE 0)

\* The log of a report begins with all that the device wrote in the execution
\* its packets are of, and what follows is older: the log files are not
\* truncated between executions, and neither are those copied to.
LogBeginsOwn ==
  \A n \in DOMAIN reports :
    LET r == reports[n]
    IN \A k \in 1..Len(r.log) :
         IF k <= r.own THEN r.log[k] = r.corpus
         ELSE r.log[k][1] < r.corpus[1] \/ r.log[k][2] < r.corpus[2]

\* The report of an attack error ends in an endless loop only if the device it
\* is about has printed nothing in the whole life of the process.
SpinsOnlyUnheard ==
  at = "spin" => (IF astatus = "running" THEN "target" ELSE "attacker") \notin spoken

\* A campaign ends with the first round whose clock is past TIMER or, the
\* difference being unsigned, before its own start, and with no other.  Unless
\* the clock was set back between samples it took in time, the rows of the CSV
\* are then the coverage over time of all its samples, not only of those it
\* saved, but for those after the first MAX_ENTRIES and for one before its start.
InTime(sample) == sample.time \in 0..Timer

CsvExact ==
  at = "exited" =>
    LET n == Len(sampled)
    IN /\ \A k \in 1..n : InTime(sampled[k]) <=> k < n
       /\ (\A j, k \in 1..(n - 1) : j < k => sampled[j].time <= sampled[k].time)
            => Rebuild(TraceOf(statfile)) = Plot(sampled)
=============================================================================
