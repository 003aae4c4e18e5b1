---------------------------- MODULE ReportsProofs ----------------------------
(***************************************************************************)
(* Theorems about the error reports, for any number of processes, of       *)
(* executions and of blocks a device prints: the counters and the files    *)
(* agree, and a report begins with the log of its own execution.           *)
(***************************************************************************)
EXTENDS Reports, SequenceTheorems, FiniteSetTheorems, TLAPS

Block == Nat \X Nat

-----------------------------------------------------------------------------
(* The inductive invariant *)

CounterTypes ==
  /\ at \in {"collect", "loop", "begin", "run", "report", "attacker", "attackreport",
             "timeout", "done", "spin", "exited"}
  /\ starts \in Nat /\ total_exec_times \in Nat /\ attack_error_count \in Nat
  /\ crash_count \in Nat /\ timeout_count \in Nat

LogTypes ==
  /\ log \in [Device -> Seq(Block)] /\ pos \in [Device -> Nat] /\ out \in [Device -> Nat]
  /\ spoken \subseteq Device

\* Who may still print, and what a process that spins has not heard of.
Phase ==
  /\ at \in {"run", "report", "attacker"} => astatus = "running"
  /\ status = "running" => at = "run"
  /\ astatus = "running" => at \in {"run", "report", "attacker", "spin"}
  /\ \A d \in spoken : log[d] # << >>
  /\ at = "spin" => log[IF astatus = "running" THEN "target" ELSE "attacker"] = << >>

InExec == at \in {"run", "report", "attacker", "attackreport", "timeout", "done", "spin"}

\* A log is of this process, and in an execution it begins with what that printed.
LogsOwn ==
  \A d \in Device :
    /\ \A k \in 1..Len(log[d]) : log[d][k][1] = starts /\ log[d][k][2] <= total_exec_times
    /\ at = "collect" => log[d] = << >> /\ total_exec_times = 0
    /\ at = "begin" => \A k \in 1..Len(log[d]) : log[d][k][2] < total_exec_times
    /\ InExec => /\ pos[d] = out[d] /\ out[d] <= Len(log[d])
                 /\ \A k \in 1..Len(log[d]) :
                      IF k <= out[d] THEN log[d][k] = Me ELSE log[d][k][2] < total_exec_times

\* A report is of a process that was started, its log begins with its own
\* execution, and no block of it is of a later process.
GoodReport(r) ==
  /\ r \in Report /\ r.corpus[1] <= starts
  /\ \A k \in 1..Len(r.log) :
       /\ r.log[k] \in Block /\ r.log[k][1] <= r.corpus[1]
       /\ IF k <= r.own THEN r.log[k] = r.corpus
          ELSE r.log[k][1] < r.corpus[1] \/ r.log[k][2] < r.corpus[2]

GoodReports == \A n \in DOMAIN reports : GoodReport(reports[n])

\* The numbers in the names of this process's reports are all behind it.
Behind(n) ==
  /\ n[1] = "crash" =>
       /\ n[2] \in Nat /\ n[2] <= total_exec_times
       /\ at \in {"collect", "begin", "run", "report"} => n[2] < total_exec_times
  /\ n[1] = "timeout" =>
       /\ n[2] \in Nat /\ n[2] <= total_exec_times
       /\ at \notin {"done", "loop", "exited"} => n[2] < total_exec_times
  /\ n[1] = "attack" => n[2] \in Nat /\ (n[2] < attack_error_count \/ at = "spin")

Numbered == \A n \in DOMAIN reports : reports[n].corpus[1] = starts => Behind(n)

Own(kind) == {n \in DOMAIN reports : n[1] = kind /\ reports[n].corpus[1] = starts}

Counted == IsFiniteSet(DOMAIN reports) /\ CountsMatch

Inv == CounterTypes /\ LogTypes /\ Phase /\ LogsOwn /\ GoodReports /\ Numbered /\ Counted

-----------------------------------------------------------------------------
(* Helpers *)

LEMMA MaxOfTwo ==
  ASSUME NEW a \in Nat, NEW b \in Nat
  PROVE  Max({a, b}) = IF a >= b THEN a ELSE b
<1> DEFINE m == IF a >= b THEN a ELSE b
<1>1. m \in {a, b} /\ \A y \in {a, b} : m >= y
  OBVIOUS
<1>2. \A x \in {a, b} : (\A y \in {a, b} : x >= y) => x = m
  OBVIOUS
<1> QED
  BY <1>1, <1>2 DEF Max

\* What my_copy_file_range makes of two logs.
LEMMA CopyOverIs ==
  ASSUME NEW new \in Seq(Block), NEW old \in Seq(Block)
  PROVE  /\ CopyOver(new, old) \in Seq(Block)
         /\ Len(new) <= Len(CopyOver(new, old))
         /\ \A k \in 1..Len(CopyOver(new, old)) :
              /\ k <= Len(new) => CopyOver(new, old)[k] = new[k]
              /\ k > Len(new) => k \in 1..Len(old) /\ CopyOver(new, old)[k] = old[k]
<1> DEFINE n == Len(new)
           m == Len(old)
           tail == SubSeq(old, n + 1, m)
<1>1. n \in Nat /\ m \in Nat
  OBVIOUS
<1>2. \A k \in (n + 1)..m : old[k] \in Block
  BY <1>1
<1>3. /\ tail \in Seq(Block)
      /\ Len(tail) = IF n + 1 <= m THEN m - (n + 1) + 1 ELSE 0
      /\ \A k \in 1..(m - (n + 1) + 1) : tail[k] = old[(n + 1) + k - 1]
  <2>1. n + 1 \in Int /\ m \in Int
    BY <1>1
  <2> HIDE DEF n, m
  <2> QED
    BY <1>2, <2>1, SubSeqProperties
<1> HIDE DEF tail
<1>4. /\ new \o tail \in Seq(Block)
      /\ Len(new \o tail) = n + Len(tail)
      /\ \A k \in 1..(n + Len(tail)) :
           (new \o tail)[k] = IF k <= n THEN new[k] ELSE tail[k - n]
  BY <1>3, ConcatProperties
<1>5. CopyOver(new, old) = new \o tail
  BY DEF CopyOver, tail
<1> DEFINE c == new \o tail
<1>6. Len(c) = IF n + 1 <= m THEN m ELSE n
  BY <1>1, <1>3, <1>4
<1>7. ASSUME NEW k \in 1..Len(c)
      PROVE  (k <= n => c[k] = new[k]) /\ (k > n => k \in 1..m /\ c[k] = old[k])
  <2> HIDE DEF c, n, m
  <2>1. CASE k <= n
    BY <1>1, <1>3, <1>4, <1>6, <2>1 DEF c
  <2>2. CASE k > n
    <3>1. k \in 1..m /\ k - n \in 1..(m - (n + 1) + 1) /\ k \in 1..(n + Len(tail))
      BY <1>1, <1>3, <1>6, <2>2
    <3>2. c[k] = tail[k - n]
      BY <1>4, <2>2, <3>1, <1>1 DEF c
    <3>3. tail[k - n] = old[(n + 1) + (k - n) - 1] /\ (n + 1) + (k - n) - 1 = k
      BY <1>1, <1>3, <3>1
    <3> QED
      BY <1>1, <2>2, <3>1, <3>2, <3>3
  <2> QED
    BY <1>1, <2>1, <2>2
<1>8. n <= Len(c)
  BY <1>1, <1>6
<1> QED
  BY <1>4, <1>5, <1>7, <1>8

\* One report is added, or takes the place of an old one.
LEMMA Saved ==
  ASSUME NEW name, NEW d, Save(name, d)
  PROVE  /\ DOMAIN reports' = DOMAIN reports \cup {name}
         /\ \A n \in DOMAIN reports : n # name => reports'[n] = reports[n]
         /\ reports'[name] =
              [corpus |-> Me,
               log |-> CopyOver(log[d], IF name \in DOMAIN reports THEN reports[name].log ELSE << >>),
               own |-> out[d]]
BY DEF Save

LEMMA ReportParts ==
  ASSUME NEW c, NEW l, NEW o, NEW r, r = [corpus |-> c, log |-> l, own |-> o]
  PROVE  /\ r.corpus = c /\ r.log = l /\ r.own = o
         /\ c \in Block /\ l \in Seq(Block) /\ o \in Nat => r \in Report
BY DEF Report, Block

LEMMA ReportFields ==
  ASSUME NEW r \in Report
  PROVE  r.corpus \in Block /\ r.log \in Seq(Block) /\ r.own \in Nat
BY DEF Report, Block

\* The reports after a name that is not of this process is saved under.
LEMMA SavedGood ==
  ASSUME Inv, InExec, NEW d \in Device, NEW name, Save(name, d),
         name \in DOMAIN reports => reports[name].corpus[1] # starts
  PROVE  /\ \A n \in DOMAIN reports' : GoodReport(reports'[n])
         /\ reports'[name].corpus[1] = starts
<1> DEFINE old == IF name \in DOMAIN reports THEN reports[name].log ELSE << >>
           l == CopyOver(log[d], old)
           r == reports'[name]
<1>1. r = [corpus |-> Me, log |-> l, own |-> out[d]]
  BY Saved
<1>2. log[d] \in Seq(Block) /\ out[d] \in Nat /\ Me \in Block
      /\ starts \in Nat /\ total_exec_times \in Nat /\ Me[1] = starts /\ Me[2] = total_exec_times
  BY DEF Inv, LogTypes, CounterTypes, Me, Block
<1>3. /\ old \in Seq(Block)
      /\ \A k \in 1..Len(old) : old[k] \in Block /\ old[k][1] < starts
  <2>1. CASE name \in DOMAIN reports
    <3>1. GoodReport(reports[name]) /\ reports[name].corpus[1] # starts /\ old = reports[name].log
      BY <2>1 DEF Inv, GoodReports
    <3>2. reports[name].corpus \in Block /\ reports[name].log \in Seq(Block)
      BY <3>1, ReportFields DEF GoodReport
    <3>3. reports[name].corpus[1] \in Nat /\ reports[name].corpus[1] < starts
      BY <3>1, <3>2, <1>2 DEF GoodReport, Block
    <3>4. ASSUME NEW k \in 1..Len(reports[name].log)
          PROVE  reports[name].log[k] \in Block /\ reports[name].log[k][1] < starts
      <4>1. reports[name].log[k] \in Block /\ reports[name].log[k][1] <= reports[name].corpus[1]
        BY <3>1 DEF GoodReport
      <4>2. reports[name].log[k][1] \in Nat
        BY <4>1 DEF Block
      <4> QED
        BY <4>1, <4>2, <3>3, <1>2
    <3> QED
      BY <3>1, <3>2, <3>4
  <2>2. CASE name \notin DOMAIN reports
    BY <2>2
  <2> QED
    BY <2>1, <2>2
<1> HIDE DEF old
<1>4. /\ l \in Seq(Block) /\ Len(log[d]) <= Len(l)
      /\ \A k \in 1..Len(l) :
           /\ k <= Len(log[d]) => l[k] = log[d][k]
           /\ k > Len(log[d]) => k \in 1..Len(old) /\ l[k] = old[k]
  BY <1>2, <1>3, CopyOverIs
<1> HIDE DEF l, r
<1>5. r.corpus = Me /\ r.log = l /\ r.own = out[d] /\ r \in Report
  BY <1>1, <1>2, <1>4, ReportParts
<1>6. /\ out[d] <= Len(log[d])
      /\ \A k \in 1..Len(log[d]) :
           /\ log[d][k] \in Block /\ log[d][k][1] = starts
           /\ IF k <= out[d] THEN log[d][k] = Me ELSE log[d][k][2] < total_exec_times
  BY <1>2 DEF Inv, LogsOwn, InExec
<1>7. ASSUME NEW k \in 1..Len(l)
      PROVE  /\ l[k] \in Block /\ l[k][1] <= starts
             /\ IF k <= out[d] THEN l[k] = Me
                ELSE l[k][1] < starts \/ l[k][2] < total_exec_times
  <2>1. Len(log[d]) \in Nat /\ k \in Nat /\ Len(l) \in Nat
    BY <1>2, <1>4
  <2>2. CASE k <= Len(log[d])
    <3>1. k \in 1..Len(log[d]) /\ l[k] = log[d][k]
      BY <1>4, <2>1, <2>2
    <3> QED
      BY <1>2, <1>6, <3>1
  <2>3. CASE k > Len(log[d])
    <3>1. l[k] \in Block /\ l[k][1] < starts
      BY <1>3, <1>4, <2>3
    <3>2. ~(k <= out[d])
      BY <1>2, <1>6, <2>1, <2>3
    <3>3. l[k][1] \in Nat
      BY <3>1 DEF Block
    <3> QED
      BY <1>2, <3>1, <3>2, <3>3
  <2> QED
    BY <2>1, <2>2, <2>3
<1>8. GoodReport(r)
  BY <1>2, <1>5, <1>7 DEF GoodReport
<1>9. ASSUME NEW n \in DOMAIN reports', n # name PROVE GoodReport(reports'[n])
  <2>1. /\ DOMAIN reports' = DOMAIN reports \cup {name}
        /\ \A k \in DOMAIN reports : k # name => reports'[k] = reports[k]
    BY Saved
  <2> QED
    BY <1>9, <2>1 DEF Inv, GoodReports
<1> QED
  BY <1>2, <1>5, <1>8, <1>9 DEF r

\* The reports of one kind are counted: those of the kind of the new one are
\* one more, the others as many.
LEMMA SavedCounted ==
  ASSUME Counted, NEW name, NEW d, NEW kind, Save(name, d), UNCHANGED starts,
         name \in DOMAIN reports => reports[name].corpus[1] # starts,
         reports'[name].corpus[1] = starts
  PROVE  /\ IsFiniteSet(DOMAIN reports')
         /\ Mine(kind)' = IF name[1] = kind THEN Cardinality(Own(kind)) + 1
                          ELSE Cardinality(Own(kind))
<1>1. DOMAIN reports' = DOMAIN reports \cup {name}
      /\ \A n \in DOMAIN reports : n # name => reports'[n] = reports[n]
  BY Saved
<1>2. IsFiniteSet(DOMAIN reports')
  BY <1>1, FS_AddElement DEF Counted
<1>3. IsFiniteSet(Own(kind)) /\ name \notin Own(kind)
  BY FS_Subset DEF Counted, Own
<1> DEFINE S == {n \in DOMAIN reports' : n[1] = kind /\ reports'[n].corpus[1] = starts}
<1>4. Mine(kind)' = Cardinality(S)
  BY DEF Mine
<1>5. CASE name[1] = kind
  <2>1. S = Own(kind) \cup {name}
    BY <1>1, <1>5 DEF Own
  <2> QED
    BY <1>2, <1>3, <1>4, <1>5, <2>1, FS_AddElement
<1>6. CASE name[1] # kind
  <2>1. S = Own(kind)
    BY <1>1, <1>6 DEF Own
  <2> QED
    BY <1>2, <1>4, <1>6, <2>1
<1> QED
  BY <1>5, <1>6

LEMMA MineIsOwn == ASSUME NEW kind PROVE Mine(kind) = Cardinality(Own(kind))
BY DEF Mine, Own

-----------------------------------------------------------------------------
(* The invariant is inductive: one lemma per action. *)

LEMMA InitInv == Init => Inv
<1> SUFFICES ASSUME Init PROVE Inv
  OBVIOUS
<1>1. CounterTypes /\ Phase
  BY DEF Init, Fresh, CounterTypes, Phase
<1>2. LogTypes /\ LogsOwn
  <2>1. << >> \in Seq(Block) /\ Len(<< >>) = 0
    OBVIOUS
  <2> QED
    BY <2>1 DEF Init, Fresh, LogTypes, LogsOwn, InExec
<1>3. DOMAIN reports = {}
  BY DEF Init
<1>4. GoodReports /\ Numbered
  BY <1>3 DEF GoodReports, Numbered
<1>5. Counted
  <2>1. \A kind : Own(kind) = {}
    BY <1>3 DEF Own
  <2>2. Mine("crash") = 0 /\ Mine("timeout") = 0 /\ Mine("attack") = 0
    BY <2>1, MineIsOwn, FS_EmptySet
  <2> QED
    BY <1>3, <2>2, FS_EmptySet DEF Counted, CountsMatch, Init, Fresh
<1> QED
  BY <1>1, <1>2, <1>4, <1>5 DEF Inv

\* Steps that leave the reports, the counters and the process alone.
LEMMA FrameReports ==
  ASSUME GoodReports, Numbered, Counted, CounterTypes,
         UNCHANGED <<starts, counts, reports>>,
         total_exec_times' = total_exec_times \/ (at = "loop" /\ total_exec_times' = total_exec_times + 1),
         at = "spin" <=> at' = "spin",
         at' \in {"collect", "begin", "run", "report"} =>
           at \in {"collect", "begin", "run", "report"}
             \/ total_exec_times' = total_exec_times + 1,
         at' \notin {"done", "loop", "exited"} =>
           at \notin {"done", "loop", "exited"} \/ total_exec_times' = total_exec_times + 1
  PROVE  GoodReports' /\ Numbered' /\ Counted'
<1>1. GoodReports'
  BY DEF GoodReports, GoodReport
<1>2. ASSUME NEW n \in DOMAIN reports, Behind(n) PROVE Behind(n)'
  BY <1>2 DEF Behind, CounterTypes, counts
<1>3. Numbered'
  BY <1>2 DEF Numbered
<1>4. Counted'
  BY DEF Counted, CountsMatch, Mine, counts
<1> QED
  BY <1>1, <1>3, <1>4

LEMMA CollectInv == ASSUME Inv, Collect PROVE Inv'
<1>1. CounterTypes'
  BY DEF Collect, Inv, CounterTypes, counts
<1>2. LogTypes' /\ Phase'
  BY DEF Collect, Inv, LogTypes, Phase, logs, Device
<1>3. LogsOwn'
  BY DEF Collect, Inv, CounterTypes, LogTypes, LogsOwn, InExec, Me, logs
<1>4. GoodReports' /\ Numbered' /\ Counted'
  BY FrameReports DEF Collect, Inv, CounterTypes, counts
<1> QED
  BY <1>1, <1>2, <1>3, <1>4 DEF Inv

LEMMA NextExecInv == ASSUME Inv, NextExec PROVE Inv'
<1>1. CounterTypes'
  BY DEF NextExec, Inv, CounterTypes, counts
<1>2. LogTypes' /\ Phase'
  BY DEF NextExec, Inv, LogTypes, Phase, logs, Device
<1>3. LogsOwn'
  <2>1. /\ UNCHANGED <<starts, log, pos, out>> /\ at = "loop" /\ at' = "begin"
        /\ total_exec_times' = total_exec_times + 1
    BY DEF NextExec, logs
  <2>2. ASSUME NEW d \in Device, NEW k \in 1..Len(log[d])
        PROVE  /\ log[d][k][1] = starts
               /\ log[d][k][2] <= total_exec_times + 1 /\ log[d][k][2] < total_exec_times + 1
    <3>1. log[d][k] \in Block /\ log[d][k][1] = starts /\ log[d][k][2] <= total_exec_times
      BY DEF Inv, LogTypes, LogsOwn
    <3>2. log[d][k][2] \in Nat /\ total_exec_times \in Nat
      BY <3>1 DEF Block, Inv, CounterTypes
    <3> QED
      BY <3>1, <3>2
  <2> QED
    BY <2>1, <2>2 DEF LogsOwn, InExec
<1>4. GoodReports' /\ Numbered' /\ Counted'
  BY FrameReports DEF NextExec, Inv, CounterTypes, counts
<1> QED
  BY <1>1, <1>2, <1>3, <1>4 DEF Inv

LEMMA EndInitRunInv == ASSUME Inv, EndInitRun PROVE Inv'
<1>1. CounterTypes'
  BY DEF EndInitRun, Inv, CounterTypes, counts
<1>2. LogTypes' /\ Phase'
  BY DEF EndInitRun, Inv, LogTypes, Phase, logs, Device
<1>3. LogsOwn'
  BY DEF EndInitRun, Inv, CounterTypes, LogTypes, LogsOwn, InExec, Me, logs
<1>4. GoodReports' /\ Numbered' /\ Counted'
  BY FrameReports DEF EndInitRun, Inv, CounterTypes, counts
<1> QED
  BY <1>1, <1>2, <1>3, <1>4 DEF Inv

LEMMA EndExecInv == ASSUME Inv, EndExec PROVE Inv'
<1>1. CounterTypes'
  BY DEF EndExec, Inv, CounterTypes, counts
<1>2. LogTypes' /\ Phase'
  BY DEF EndExec, Inv, LogTypes, Phase, logs, Device
<1>3. LogsOwn'
  BY DEF EndExec, Inv, CounterTypes, LogTypes, LogsOwn, InExec, Me, logs
<1>4. GoodReports' /\ Numbered' /\ Counted'
  BY FrameReports DEF EndExec, Inv, CounterTypes, counts
<1> QED
  BY <1>1, <1>2, <1>3, <1>4 DEF Inv

LEMMA BeginInv == ASSUME Inv, Begin PROVE Inv'
<1>1. CounterTypes'
  BY DEF Begin, Inv, CounterTypes, counts
<1>2. LogTypes' /\ Phase'
  BY DEF Begin, ResetLog, Fresh, Inv, LogTypes, Phase, logs, Device
<1>3. LogsOwn'
  BY DEF Begin, ResetLog, Fresh, Inv, CounterTypes, LogTypes, LogsOwn, InExec, Me, logs
<1>4. GoodReports' /\ Numbered' /\ Counted'
  BY FrameReports DEF Begin, Inv, CounterTypes, counts
<1> QED
  BY <1>1, <1>2, <1>3, <1>4 DEF Inv

LEMMA TargetEndsInv == ASSUME Inv, TargetEnds PROVE Inv'
<1>1. CounterTypes'
  BY DEF TargetEnds, Inv, CounterTypes, counts
<1>2. LogTypes' /\ Phase'
  BY DEF TargetEnds, Inv, LogTypes, Phase, logs, Device
<1>3. LogsOwn'
  BY DEF TargetEnds, Inv, CounterTypes, LogTypes, LogsOwn, InExec, Me, logs
<1>4. GoodReports' /\ Numbered' /\ Counted'
  BY FrameReports DEF TargetEnds, Inv, CounterTypes, counts
<1> QED
  BY <1>1, <1>2, <1>3, <1>4 DEF Inv

LEMMA NoReportInv == ASSUME Inv, NoReport PROVE Inv'
<1>1. CounterTypes'
  BY DEF NoReport, Inv, CounterTypes, counts
<1>2. LogTypes' /\ Phase'
  BY DEF NoReport, Inv, LogTypes, Phase, logs, Device
<1>3. LogsOwn'
  BY DEF NoReport, Inv, CounterTypes, LogTypes, LogsOwn, InExec, Me, logs
<1>4. GoodReports' /\ Numbered' /\ Counted'
  BY FrameReports DEF NoReport, Inv, CounterTypes, counts
<1> QED
  BY <1>1, <1>2, <1>3, <1>4 DEF Inv

LEMMA ReapAttackerInv == ASSUME Inv, ReapAttacker PROVE Inv'
<1>1. CounterTypes'
  BY DEF ReapAttacker, Inv, CounterTypes, counts
<1>2. LogTypes' /\ Phase'
  BY DEF ReapAttacker, Inv, LogTypes, Phase, logs, Device
<1>3. LogsOwn'
  BY DEF ReapAttacker, Inv, CounterTypes, LogTypes, LogsOwn, InExec, Me, logs
<1>4. GoodReports' /\ Numbered' /\ Counted'
  BY FrameReports DEF ReapAttacker, Inv, CounterTypes, counts
<1> QED
  BY <1>1, <1>2, <1>3, <1>4 DEF Inv

LEMMA NoAttackErrorInv == ASSUME Inv, NoAttackError PROVE Inv'
<1>1. CounterTypes'
  BY DEF NoAttackError, Inv, CounterTypes, counts
<1>2. LogTypes' /\ Phase'
  BY DEF NoAttackError, Inv, LogTypes, Phase, logs, Device
<1>3. LogsOwn'
  BY DEF NoAttackError, Inv, CounterTypes, LogTypes, LogsOwn, InExec, Me, logs
<1>4. GoodReports' /\ Numbered' /\ Counted'
  BY FrameReports DEF NoAttackError, Inv, CounterTypes, counts
<1> QED
  BY <1>1, <1>2, <1>3, <1>4 DEF Inv

LEMMA RestartInv == ASSUME Inv, Restart PROVE Inv'
<1>1. CounterTypes' /\ starts' = starts + 1 /\ at' = "collect" /\ UNCHANGED reports
      /\ total_exec_times' = 0 /\ crash_count' = 0 /\ timeout_count' = 0 /\ attack_error_count' = 0
  BY DEF Restart, Fresh, Inv, CounterTypes
<1>2. LogTypes' /\ Phase' /\ LogsOwn'
  <2>1. << >> \in Seq(Block) /\ Len(<< >>) = 0
    OBVIOUS
  <2> QED
    BY <1>1, <2>1 DEF Restart, Fresh, LogTypes, Phase, LogsOwn, InExec
<1>3. \A n \in DOMAIN reports : /\ reports[n].corpus[1] \in Nat
                               /\ reports[n].corpus[1] <= starts /\ starts \in Nat
  BY ReportFields DEF Inv, GoodReports, GoodReport, CounterTypes, Block
<1>4. GoodReports'
  BY <1>1, <1>3 DEF Inv, GoodReports, GoodReport
<1>5. Numbered'
  BY <1>1, <1>3 DEF Numbered
<1>6. Counted'
  <2>1. ASSUME NEW kind PROVE Mine(kind)' = 0
    <3>1. {n \in DOMAIN reports' : n[1] = kind /\ reports'[n].corpus[1] = starts'} = {}
      BY <1>1, <1>3
    <3> QED
      BY <3>1, FS_EmptySet DEF Mine
  <2> QED
    BY <1>1, <2>1 DEF Inv, Counted, CountsMatch
<1> QED
  BY <1>1, <1>2, <1>4, <1>5, <1>6 DEF Inv

LEMMA OutputInv == ASSUME Inv, NEW d \in Device, Output(d) PROVE Inv'
<1> DEFINE new == [k \in 1..Max({Len(log[d]), pos[d] + 1}) |->
                     IF k = pos[d] + 1 THEN Me ELSE log[d][k]]
<1>1. /\ UNCHANGED <<starts, at, total_exec_times, counts, status, astatus, reports>>
      /\ log' = [log EXCEPT ![d] = new] /\ pos' = [pos EXCEPT ![d] = pos[d] + 1]
      /\ out' = [out EXCEPT ![d] = out[d] + 1] /\ spoken' = spoken \cup {d}
      /\ (IF d = "target" THEN status ELSE astatus) = "running"
  BY DEF Output
<1>2. InExec
  BY <1>1 DEF Inv, Phase, InExec
<1>3. /\ log[d] \in Seq(Block) /\ Len(log[d]) \in Nat /\ pos[d] \in Nat /\ out[d] \in Nat
      /\ pos[d] = out[d] /\ out[d] <= Len(log[d])
      /\ Me \in Block /\ Me[1] = starts /\ Me[2] = total_exec_times
      /\ starts \in Nat /\ total_exec_times \in Nat
  BY <1>2 DEF Inv, LogTypes, LogsOwn, CounterTypes, Me, Block
<1> DEFINE m == IF Len(log[d]) >= pos[d] + 1 THEN Len(log[d]) ELSE pos[d] + 1
<1>4. Max({Len(log[d]), pos[d] + 1}) = m /\ m \in Nat /\ m # 0
  BY <1>3, MaxOfTwo
<1>5. new = [k \in 1..m |-> IF k = pos[d] + 1 THEN Me ELSE log[d][k]]
  BY <1>4
<1>6. \A k \in 1..m : k = pos[d] + 1 \/ k \in 1..Len(log[d])
  BY <1>3
<1>7. \A k \in 1..Len(log[d]) : log[d][k] \in Block
  BY <1>3
<1> HIDE DEF new
<1>8. new \in Seq(Block) /\ Len(new) = m /\ new # << >>
      /\ \A k \in 1..m : new[k] = IF k = pos[d] + 1 THEN Me ELSE log[d][k]
  <2>1. new \in [1..m -> Block]
    BY <1>3, <1>5, <1>6, <1>7
  <2>2. new \in Seq(Block) /\ Len(new) = m
    BY <2>1, <1>4
  <2>3. new # << >>
    BY <2>2, <1>4
  <2> QED
    BY <1>5, <2>2, <2>3
<1>9. CounterTypes' /\ LogTypes'
  BY <1>1, <1>3, <1>8 DEF Inv, CounterTypes, LogTypes, counts
<1>10. \A e \in Device : log'[e] = (IF e = d THEN new ELSE log[e])
                        /\ out'[e] = (IF e = d THEN out[d] + 1 ELSE out[e])
                        /\ pos'[e] = (IF e = d THEN pos[d] + 1 ELSE pos[e])
  BY <1>1 DEF Inv, LogTypes
<1>11. Phase'
  <2>1. \A e \in spoken' : log'[e] # << >>
    BY <1>1, <1>8, <1>10 DEF Inv, Phase, LogTypes
  <2>2. at = "spin" => d # (IF astatus = "running" THEN "target" ELSE "attacker")
    BY <1>1 DEF Inv, Phase, Device
  <2>3. at = "spin" => log'[IF astatus = "running" THEN "target" ELSE "attacker"] = << >>
    BY <1>10, <2>2 DEF Inv, Phase, Device
  <2> QED
    BY <1>1, <2>1, <2>3 DEF Inv, Phase
<1>12. LogsOwn'
  <2>1. ASSUME NEW k \in 1..m
        PROVE  /\ new[k][1] = starts /\ new[k][2] <= total_exec_times
               /\ IF k <= out[d] + 1 THEN new[k] = Me ELSE new[k][2] < total_exec_times
    <3>1. CASE k = pos[d] + 1
      BY <1>3, <1>8, <3>1
    <3>2. CASE k # pos[d] + 1
      <4>1. k \in 1..Len(log[d]) /\ new[k] = log[d][k]
        BY <1>6, <1>8, <3>2
      <4>2. k <= out[d] + 1 <=> k <= out[d]
        BY <1>3, <4>1, <3>2
      <4> QED
        BY <1>2, <4>1, <4>2 DEF Inv, LogsOwn
    <3> QED
      BY <3>1, <3>2
  <2>2. out[d] + 1 <= m
    BY <1>3
  <2>3. at \notin {"collect", "begin"}
    BY <1>2 DEF InExec
  <2> HIDE DEF m
  <2>4. Me' = Me
    BY <1>1 DEF Me
  <2>5. ASSUME NEW e \in Device
        PROVE  /\ \A k \in 1..Len(log'[e]) : log'[e][k][1] = starts /\ log'[e][k][2] <= total_exec_times
               /\ pos'[e] = out'[e] /\ out'[e] <= Len(log'[e])
               /\ \A k \in 1..Len(log'[e]) :
                    IF k <= out'[e] THEN log'[e][k] = Me ELSE log'[e][k][2] < total_exec_times
    <3>1. CASE e = d
      BY <1>3, <1>8, <1>10, <2>1, <2>2, <3>1
    <3>2. CASE e # d
      BY <1>2, <1>10, <3>2 DEF Inv, LogsOwn
    <3> QED
      BY <3>1, <3>2
  <2> QED
    BY <1>1, <2>3, <2>4, <2>5 DEF LogsOwn, InExec
<1>13. GoodReports' /\ Numbered' /\ Counted'
  BY <1>1, FrameReports DEF Inv, counts
<1> QED
  BY <1>9, <1>11, <1>12, <1>13 DEF Inv

LEMMA SaveSignalErrorInfoInv == ASSUME Inv, SaveSignalErrorInfo PROVE Inv'
<1>0. PICK name : name = <<"crash", total_exec_times>>
  OBVIOUS
<1>1. /\ Save(name, "target") /\ at = "report" /\ at' = "attacker"
      /\ crash_count' = crash_count + 1
      /\ UNCHANGED <<starts, total_exec_times, attack_error_count, timeout_count, logs,
                     status, astatus>>
  BY <1>0 DEF SaveSignalErrorInfo, CrashName
<1>2. name[1] = "crash" /\ name[2] = total_exec_times /\ "target" \in Device
  BY <1>0 DEF Device
<1>3. name \in DOMAIN reports => reports[name].corpus[1] # starts
  BY <1>1, <1>2 DEF Inv, Numbered, Behind, CounterTypes
<1>4. CounterTypes' /\ LogTypes' /\ Phase' /\ LogsOwn'
  <2>1. CounterTypes' /\ LogTypes'
    BY <1>1 DEF Inv, CounterTypes, LogTypes, logs
  <2>2. Phase'
    BY <1>1 DEF Inv, Phase, logs
  <2>3. LogsOwn'
    BY <1>1 DEF Inv, LogsOwn, InExec, Me, logs
  <2> QED
    BY <2>1, <2>2, <2>3
<1>5. /\ \A n \in DOMAIN reports' : GoodReport(reports'[n])
      /\ IsFiniteSet(DOMAIN reports')
      /\ \A kind : Mine(kind)' = IF name[1] = kind THEN Mine(kind) + 1 ELSE Mine(kind)
  <2>1. /\ \A n \in DOMAIN reports' : GoodReport(reports'[n])
        /\ reports'[name].corpus[1] = starts
    BY <1>1, <1>2, <1>3, SavedGood DEF InExec
  <2> QED
    BY <1>1, <1>3, <2>1, SavedCounted, MineIsOwn DEF Inv
<1>6. GoodReports'
  BY <1>1, <1>5 DEF GoodReports, GoodReport
<1>7. Numbered'
  <2>1. \A n \in DOMAIN reports : Behind(n) => Behind(n)'
    BY <1>1 DEF Behind, Inv, CounterTypes
  <2>2. Behind(name)'
    BY <1>1, <1>2 DEF Behind, Inv, CounterTypes
  <2>3. /\ DOMAIN reports' = DOMAIN reports \cup {name}
        /\ \A n \in DOMAIN reports : n # name => reports'[n] = reports[n]
    BY <1>1, Saved
  <2>4. UNCHANGED starts
    BY <1>1
  <2> QED
    BY <2>1, <2>2, <2>3, <2>4 DEF Inv, Numbered
<1>8. Counted'
  BY <1>1, <1>2, <1>5 DEF Inv, Counted, CountsMatch, CounterTypes
<1> QED
  BY <1>4, <1>6, <1>7, <1>8 DEF Inv

LEMMA TimeoutSavedInv ==
  ASSUME Inv, SaveTimeoutErrorInfo, status = "killed" /\ astatus # "trap" PROVE Inv'
<1>0. PICK name : name = <<"timeout", total_exec_times>>
  OBVIOUS
<1>1. /\ Save(name, "target") /\ at = "timeout" /\ at' = "done"
      /\ timeout_count' = timeout_count + 1
      /\ UNCHANGED <<starts, total_exec_times, attack_error_count, crash_count, logs>>
      /\ status' = "none" /\ astatus' = "none"
  BY <1>0 DEF SaveTimeoutErrorInfo
<1>2. name[1] = "timeout" /\ name[2] = total_exec_times /\ "target" \in Device
  BY <1>0 DEF Device
<1>3. name \in DOMAIN reports => reports[name].corpus[1] # starts
  BY <1>1, <1>2 DEF Inv, Numbered, Behind, CounterTypes
<1>4. CounterTypes' /\ LogTypes' /\ Phase' /\ LogsOwn'
  <2>1. CounterTypes' /\ LogTypes'
    BY <1>1 DEF Inv, CounterTypes, LogTypes, logs
  <2>2. Phase'
    BY <1>1 DEF Inv, Phase, logs
  <2>3. LogsOwn'
    BY <1>1 DEF Inv, LogsOwn, InExec, Me, logs
  <2> QED
    BY <2>1, <2>2, <2>3
<1>5. /\ \A n \in DOMAIN reports' : GoodReport(reports'[n])
      /\ IsFiniteSet(DOMAIN reports')
      /\ \A kind : Mine(kind)' = IF name[1] = kind THEN Mine(kind) + 1 ELSE Mine(kind)
  <2>1. /\ \A n \in DOMAIN reports' : GoodReport(reports'[n])
        /\ reports'[name].corpus[1] = starts
    BY <1>1, <1>2, <1>3, SavedGood DEF InExec
  <2> QED
    BY <1>1, <1>3, <2>1, SavedCounted, MineIsOwn DEF Inv
<1>6. GoodReports'
  BY <1>1, <1>5 DEF GoodReports, GoodReport
<1>7. Numbered'
  <2>1. \A n \in DOMAIN reports : Behind(n) => Behind(n)'
    BY <1>1 DEF Behind, Inv, CounterTypes
  <2>2. Behind(name)'
    BY <1>1, <1>2 DEF Behind, Inv, CounterTypes
  <2>3. /\ DOMAIN reports' = DOMAIN reports \cup {name}
        /\ \A n \in DOMAIN reports : n # name => reports'[n] = reports[n]
    BY <1>1, Saved
  <2>4. UNCHANGED starts
    BY <1>1
  <2> QED
    BY <2>1, <2>2, <2>3, <2>4 DEF Inv, Numbered
<1>8. Counted'
  BY <1>1, <1>2, <1>5 DEF Inv, Counted, CountsMatch, CounterTypes
<1> QED
  BY <1>4, <1>6, <1>7, <1>8 DEF Inv

LEMMA SaveTimeoutErrorInfoInv == ASSUME Inv, SaveTimeoutErrorInfo PROVE Inv'
<1> SUFFICES ASSUME ~(status = "killed" /\ astatus # "trap") PROVE Inv'
  BY TimeoutSavedInv
<1>1. /\ at = "timeout" /\ at' = "done" /\ status' = "none" /\ astatus' = "none"
      /\ UNCHANGED <<starts, total_exec_times, counts, logs, reports>>
  BY DEF SaveTimeoutErrorInfo, counts
<1>2. CounterTypes'
  BY <1>1 DEF Inv, CounterTypes, counts
<1>3. LogTypes' /\ Phase'
  BY <1>1 DEF Inv, LogTypes, Phase, logs
<1>4. LogsOwn'
  BY <1>1 DEF Inv, LogsOwn, InExec, Me, logs
<1>5. GoodReports' /\ Numbered' /\ Counted'
  BY <1>1, FrameReports DEF Inv, counts
<1> QED
  BY <1>2, <1>3, <1>4, <1>5 DEF Inv

\* The device an attack error is about, and that the log that stops it is its own.
LEMMA AttackSavedInv ==
  ASSUME Inv, NEW d \in Device, NEW next \in {"attacker", "timeout"},
         SaveAttackErrorInfo(d, next),
         \/ d = "target" /\ at = "report" /\ next = "attacker"
         \/ d = "attacker" /\ at = "attackreport" /\ next = "timeout"
  PROVE  Inv'
<1>0. PICK name : name = <<"attack", attack_error_count, d>>
  OBVIOUS
<1>1. /\ Save(name, d)
      /\ IF log[d] = << >>
           THEN at' = "spin" /\ UNCHANGED attack_error_count
           ELSE at' = next /\ attack_error_count' = attack_error_count + 1
      /\ UNCHANGED <<starts, total_exec_times, crash_count, timeout_count, logs, status, astatus>>
  BY <1>0 DEF SaveAttackErrorInfo
<1>2. name[1] = "attack" /\ name[2] = attack_error_count
  BY <1>0
<1>3. name \in DOMAIN reports => reports[name].corpus[1] # starts
  BY <1>2 DEF Inv, Numbered, Behind, CounterTypes
<1>4. CounterTypes' /\ LogTypes' /\ Phase' /\ LogsOwn'
  <2>1. CounterTypes' /\ LogTypes'
    BY <1>1 DEF Inv, CounterTypes, LogTypes, logs
  <2>2. Phase'
    BY <1>1 DEF Inv, Phase, logs
  <2>3. LogsOwn'
    BY <1>1 DEF Inv, LogsOwn, InExec, Me, logs
  <2> QED
    BY <2>1, <2>2, <2>3
<1>5. /\ \A n \in DOMAIN reports' : GoodReport(reports'[n])
      /\ IsFiniteSet(DOMAIN reports')
      /\ \A kind : Mine(kind)' = IF name[1] = kind THEN Mine(kind) + 1 ELSE Mine(kind)
  <2>1. /\ \A n \in DOMAIN reports' : GoodReport(reports'[n])
        /\ reports'[name].corpus[1] = starts
    BY <1>1, <1>2, <1>3, SavedGood DEF InExec
  <2> QED
    BY <1>1, <1>3, <2>1, SavedCounted, MineIsOwn DEF Inv
<1>6. GoodReports'
  BY <1>1, <1>5 DEF GoodReports, GoodReport
<1>7. Numbered'
  <2>1. \A n \in DOMAIN reports : Behind(n) => Behind(n)'
    BY <1>1 DEF Behind, Inv, CounterTypes
  <2>2. Behind(name)'
    BY <1>1, <1>2 DEF Behind, Inv, CounterTypes
  <2>3. /\ DOMAIN reports' = DOMAIN reports \cup {name}
        /\ \A n \in DOMAIN reports : n # name => reports'[n] = reports[n]
    BY <1>1, Saved
  <2>4. UNCHANGED starts
    BY <1>1
  <2> QED
    BY <2>1, <2>2, <2>3, <2>4 DEF Inv, Numbered
<1>8. Counted'
  BY <1>1, <1>2, <1>5 DEF Inv, Counted, CountsMatch, CounterTypes
<1> QED
  BY <1>4, <1>6, <1>7, <1>8 DEF Inv

LEMMA NextInv == Inv /\ [Next]_vars => Inv'
<1> SUFFICES ASSUME Inv, [Next]_vars PROVE Inv'
  OBVIOUS
<1>1. CASE TargetError
  BY <1>1, AttackSavedInv DEF TargetError, Device
<1>2. CASE AttackError
  BY <1>2, AttackSavedInv DEF AttackError, Device
<1>3. CASE Output("target") \/ Output("attacker")
  BY <1>3, OutputInv DEF Device
<1>4. CASE UNCHANGED vars
  <2>1. CounterTypes'
    BY <1>4 DEF vars, counts, Inv, CounterTypes
  <2>2. LogTypes' /\ Phase' /\ LogsOwn'
    BY <1>4 DEF vars, logs, Inv, LogTypes, Phase, LogsOwn, InExec, Me
  <2>3. GoodReports' /\ Numbered' /\ Counted'
    BY <1>4, FrameReports DEF vars, counts, Inv
  <2> QED
    BY <2>1, <2>2, <2>3 DEF Inv
<1> QED
  BY <1>1, <1>2, <1>3, <1>4, CollectInv, NextExecInv, EndInitRunInv, EndExecInv,
     RestartInv,
     BeginInv, TargetEndsInv, SaveSignalErrorInfoInv, NoReportInv, ReapAttackerInv,
     NoAttackErrorInv, SaveTimeoutErrorInfoInv
     DEF Next

LEMMA SpecInv == Spec => []Inv
BY InitInv, NextInv, PTL DEF Spec

-----------------------------------------------------------------------------
(* Theorems *)

\* What the fuzzer counted is on disk, for every kind of report.
THEOREM ReportsCounted == Spec => []CountsMatch
<1>1. Inv => CountsMatch
  BY DEF Inv, Counted
<1> QED
  BY SpecInv, <1>1, PTL

\* A report begins with its own execution; what follows is older.
THEOREM LogsBeginOwn == Spec => []LogBeginsOwn
<1>1. Inv => LogBeginsOwn
  BY DEF Inv, GoodReports, GoodReport, LogBeginsOwn
<1> QED
  BY SpecInv, <1>1, PTL

\* Only a device that was never heard of makes the fuzzer spin.
THEOREM SpinsUnheard == Spec => []SpinsOnlyUnheard
<1>1. Inv => SpinsOnlyUnheard
  BY DEF Inv, Phase, SpinsOnlyUnheard
<1> QED
  BY SpecInv, <1>1, PTL

-----------------------------------------------------------------------------
(* The types, those of the statistics included *)

StatTypes ==
  /\ status \in {"none", "running", "fine", "crash", "error", "killed"}
  /\ astatus \in {"none", "running", "killed", "exit", "trap"}
  /\ clock \in Int /\ max_total_coverage \in Nat
  /\ coverage_array \in Seq(Sample) /\ Len(coverage_array) <= MaxEntries
  /\ statfile \in Seq(Sample) /\ sampled \in Seq(Reading)

\* What is remembered of a reading, and what of all of them.
Cut(r) == [time |-> r.time % ClockLimit, coverage |-> r.coverage]

Remembered(data, readings) ==
  /\ Len(data) = IF Len(readings) < MaxEntries THEN Len(readings) ELSE MaxEntries
  /\ \A k \in 1..Len(data) : data[k] = Cut(readings[k])

\* One step away from a time the campaign goes on at.
InReach(x) ==
  x < ClockLimit /\ Timer < ClockLimit + x /\ (MaxTime + 1) * Second <= ClockLimit + x

Sampled ==
  /\ Remembered(coverage_array, sampled)
  /\ at # "exited" =>
       clock \in 0..Timer /\ \A k \in 1..Len(sampled) : InTime(sampled[k])
  /\ at = "exited" =>
       /\ statfile = coverage_array /\ Len(sampled) > 0
       /\ \A k \in 1..Len(sampled) : InTime(sampled[k]) <=> k < Len(sampled)
       /\ InReach(sampled[Len(sampled)].time)

LEMMA Width == ClockLimit \in Nat /\ ClockLimit > 0 /\ Timer \in Nat /\ Timer < ClockLimit
BY ReportsAssumption

LEMMA ModNat == ASSUME NEW x \in Int PROVE x % ClockLimit \in Nat
<1>1. \A y \in Int, n \in Nat : n > 0 => y % n \in Nat
  OBVIOUS
<1> QED
  BY <1>1, Width

LEMMA ModIs ==
  ASSUME NEW x \in Int
  PROVE  /\ 0 <= x /\ x < ClockLimit => x % ClockLimit = x
         /\ x < 0 /\ 0 < ClockLimit + x => x % ClockLimit = ClockLimit + x
<1>1. \A y \in Int, n \in Nat : n > 0 /\ 0 <= y /\ y < n => y % n = y
  OBVIOUS
<1>2. \A y \in Int, n \in Nat : n > 0 /\ y < 0 /\ 0 < n + y => y % n = n + y
  OBVIOUS
<1> QED
  BY <1>1, <1>2, Width

LEMMA CutSample ==
  ASSUME NEW r \in Reading
  PROVE  Cut(r) \in Sample /\ r.time \in Int /\ r.coverage \in Nat
<1>1. r.time \in Int /\ r.coverage \in Nat
  BY DEF Reading
<1> QED
  BY <1>1, ModNat DEF Cut, Sample

\* The unsigned time is late exactly if the signed one is not in time.
LEMMA LateIs ==
  ASSUME NEW x \in Int, InReach(x)
  PROVE  x % ClockLimit > Timer <=> x \notin 0..Timer
<1>1. CASE x >= 0
  BY <1>1, ModIs, Width DEF InReach
<1>2. CASE x < 0
  BY <1>2, ModIs, Width DEF InReach
<1> QED
  BY <1>1, <1>2

LEMMA Pushed ==
  ASSUME NEW S, NEW q \in Seq(S), NEW e \in S
  PROVE  /\ Append(q, e) \in Seq(S) /\ Len(Append(q, e)) = Len(q) + 1 /\ Len(q) \in Nat
         /\ \A k \in 1..Len(q) : Append(q, e)[k] = q[k]
         /\ Append(q, e)[Len(q) + 1] = e
OBVIOUS

\* add_coverage_entry remembers a reading as long as there is room.
LEMMA EntryAdded ==
  ASSUME StatTypes, Remembered(coverage_array, sampled), NEW r \in Reading,
         sampled' = Append(sampled, r),
         AddCoverageEntry(r.time % ClockLimit, r.coverage)
  PROVE  /\ coverage_array' \in Seq(Sample) /\ Len(coverage_array') <= MaxEntries
         /\ Remembered(coverage_array', sampled')
<1> DEFINE e == Cut(r)
<1>1. e \in Sample /\ MaxEntries \in Nat /\ MaxEntries > 0
  BY CutSample, CovLogAssumption
<1>2. /\ sampled \in Seq(Reading) /\ coverage_array \in Seq(Sample)
      /\ Len(coverage_array) <= MaxEntries /\ Len(coverage_array) \in Nat
  BY DEF StatTypes
<1>3. /\ Len(sampled') = Len(sampled) + 1 /\ Len(sampled) \in Nat
      /\ \A k \in 1..Len(sampled) : sampled'[k] = sampled[k]
      /\ sampled'[Len(sampled) + 1] = r
  BY <1>2, Pushed
<1>4. coverage_array' = IF Len(coverage_array) >= MaxEntries THEN coverage_array
                        ELSE Append(coverage_array, e)
  BY DEF AddCoverageEntry, Cut
<1> HIDE DEF e
<1>5. /\ Len(coverage_array) = IF Len(sampled) < MaxEntries THEN Len(sampled) ELSE MaxEntries
      /\ \A k \in 1..Len(coverage_array) : coverage_array[k] = Cut(sampled[k])
  BY DEF Remembered
<1>6. CASE Len(coverage_array) >= MaxEntries
  <2>1. coverage_array' = coverage_array /\ Len(coverage_array) = MaxEntries
    BY <1>1, <1>2, <1>4, <1>6
  <2>2. MaxEntries <= Len(sampled)
    BY <1>1, <1>3, <1>5, <2>1
  <2>3. \A k \in 1..Len(coverage_array') : coverage_array'[k] = Cut(sampled'[k])
    <3>1. \A k \in 1..MaxEntries : k \in 1..Len(sampled)
      BY <1>1, <1>3, <2>2
    <3> QED
      BY <1>3, <1>5, <2>1, <3>1
  <2>4. Len(coverage_array') = IF Len(sampled') < MaxEntries THEN Len(sampled')
                               ELSE MaxEntries
    BY <1>1, <1>3, <2>1, <2>2
  <2> QED
    BY <1>2, <2>1, <2>3, <2>4 DEF Remembered
<1>7. CASE ~(Len(coverage_array) >= MaxEntries)
  <2>1. coverage_array' = Append(coverage_array, e) /\ Len(coverage_array) < MaxEntries
    BY <1>1, <1>2, <1>4, <1>7
  <2>2. Len(sampled) = Len(coverage_array)
    BY <1>1, <1>3, <1>5, <2>1
  <2>3. /\ coverage_array' \in Seq(Sample) /\ Len(coverage_array') = Len(coverage_array) + 1
        /\ \A k \in 1..Len(coverage_array) : coverage_array'[k] = coverage_array[k]
        /\ coverage_array'[Len(coverage_array) + 1] = e
    BY <1>1, <1>2, <2>1, Pushed
  <2>4. \A k \in 1..Len(coverage_array') : coverage_array'[k] = Cut(sampled'[k])
    <3>1. ASSUME NEW k \in 1..Len(coverage_array')
          PROVE  k \in 1..Len(coverage_array) \/ k = Len(coverage_array) + 1
      BY <1>2, <2>3
    <3> QED
      BY <1>3, <1>5, <2>2, <2>3, <3>1 DEF e
  <2>5. Len(coverage_array') = IF Len(sampled') < MaxEntries THEN Len(sampled')
                               ELSE MaxEntries
    BY <1>1, <1>2, <1>3, <2>1, <2>2, <2>3
  <2>6. Len(coverage_array') <= MaxEntries
    BY <1>1, <1>2, <2>1, <2>3
  <2> QED
    BY <2>3, <2>4, <2>5, <2>6 DEF Remembered
<1> QED
  BY <1>6, <1>7

LEMMA EndExecStats ==
  ASSUME StatTypes, Sampled, EndExec PROVE StatTypes' /\ Sampled'
<1>1. max_total_coverage' \in Nat /\ at = "done" /\ UNCHANGED <<status, astatus>>
  BY ReportsAssumption DEF EndExec, StatTypes
<1>2. CASE total_exec_times % TimesPerRound # 0
  <2>1. at' = "loop" /\ UNCHANGED <<coverage_array, statfile, clock, sampled>>
    BY <1>2 DEF EndExec
  <2> QED
    BY <1>1, <2>1 DEF StatTypes, Sampled
<1>3. CASE ~(total_exec_times % TimesPerRound # 0)
  <2> DEFINE r == [time |-> clock', coverage |-> max_total_coverage']
  <2>1. PICK s \in Steps : clock' = clock + s
    BY <1>3 DEF EndExec
  <2>2. /\ sampled' = Append(sampled, r)
        /\ AddCoverageEntry(clock' % ClockLimit, max_total_coverage')
        /\ IF clock' % ClockLimit > Timer THEN at' = "exited" /\ SaveCoverageToFile
                                         ELSE at' = "loop" /\ UNCHANGED statfile
    BY <1>3 DEF EndExec, TotalElapse
  <2>3. clock \in 0..Timer /\ \A k \in 1..Len(sampled) : InTime(sampled[k])
    BY <1>1 DEF Sampled
  <2>4. clock' \in Int /\ InReach(clock')
    <3>1. /\ s \in Int /\ Timer + s < ClockLimit /\ Timer < ClockLimit + s
          /\ (MaxTime + 1) * Second <= ClockLimit + s
      BY ReportsAssumption, StepsAssumption
    <3>2. (MaxTime + 1) * Second \in Nat
      BY CovLogAssumption
    <3> DEFINE m == (MaxTime + 1) * Second
    <3>3. m \in Nat /\ m <= ClockLimit + s
      BY <3>1, <3>2
    <3> HIDE DEF m
    <3>4. /\ clock' \in Int /\ clock' < ClockLimit /\ Timer < ClockLimit + clock'
          /\ m <= ClockLimit + clock'
      BY <2>1, <2>3, <3>1, <3>3, Width
    <3> QED
      BY <3>4 DEF InReach, m
  <2>5. r \in Reading /\ r.time = clock' /\ r.coverage = max_total_coverage'
    BY <1>1, <2>4 DEF Reading
  <2> HIDE DEF r
  <2>6. /\ coverage_array' \in Seq(Sample) /\ Len(coverage_array') <= MaxEntries
        /\ Remembered(coverage_array', sampled')
    BY <2>2, <2>5, EntryAdded DEF Sampled
  <2>7. /\ sampled' \in Seq(Reading) /\ Len(sampled') = Len(sampled) + 1
        /\ Len(sampled) \in Nat /\ sampled'[Len(sampled) + 1] = r
        /\ \A k \in 1..Len(sampled) : sampled'[k] = sampled[k]
    BY <2>2, <2>5, Pushed DEF StatTypes
  <2>8. InTime(r) <=> ~(clock' % ClockLimit > Timer)
    BY <2>4, <2>5, LateIs DEF InTime
  <2>9. StatTypes'
    <3>1. statfile' \in Seq(Sample)
      BY <2>2, <2>6 DEF SaveCoverageToFile, StatTypes
    <3> QED
      BY <1>1, <2>4, <2>6, <2>7, <3>1 DEF StatTypes
  <2>10. \A k \in 1..Len(sampled') :
           \/ k \in 1..Len(sampled) /\ sampled'[k] = sampled[k]
           \/ k = Len(sampled') /\ sampled'[k] = r
    <3>1. ASSUME NEW k \in 1..Len(sampled')
          PROVE  k \in 1..Len(sampled) \/ k = Len(sampled) + 1
      BY <2>7
    <3> QED
      BY <2>7, <3>1
  <2>11. CASE clock' % ClockLimit > Timer
    <3>1. at' = "exited" /\ statfile' = coverage_array' /\ ~InTime(r)
      BY <2>2, <2>8, <2>11 DEF SaveCoverageToFile
    <3>2. \A k \in 1..Len(sampled') : InTime(sampled'[k]) <=> k < Len(sampled')
      <4>1. ASSUME NEW k \in 1..Len(sampled) PROVE k < Len(sampled')
        BY <2>7
      <4>2. ~(Len(sampled') < Len(sampled'))
        BY <2>7
      <4> QED
        BY <2>3, <2>10, <3>1, <4>1, <4>2
    <3>3. InReach(sampled'[Len(sampled')].time) /\ Len(sampled') > 0
      BY <2>4, <2>5, <2>7
    <3>5. (Remembered(coverage_array, sampled))'
      BY <2>6 DEF Remembered, Cut
    <3>6. (\A k \in 1..Len(sampled) : InTime(sampled[k]) <=> k < Len(sampled))'
      BY <3>2 DEF InTime
    <3>7. (InReach(sampled[Len(sampled)].time))'
      BY <3>3 DEF InReach
    <3> QED
      BY <2>9, <3>1, <3>3, <3>5, <3>6, <3>7 DEF Sampled
  <2>12. CASE ~(clock' % ClockLimit > Timer)
    <3>1. at' = "loop" /\ InTime(r)
      BY <2>2, <2>8, <2>12
    <3>2. clock' \in 0..Timer
      BY <2>5, <3>1 DEF InTime
    <3>3. \A k \in 1..Len(sampled') : InTime(sampled'[k])
      BY <2>3, <2>10, <3>1
    <3>5. (Remembered(coverage_array, sampled))'
      BY <2>6 DEF Remembered, Cut
    <3>6. (\A k \in 1..Len(sampled) : InTime(sampled[k]))'
      BY <3>3 DEF InTime
    <3> QED
      BY <2>9, <3>1, <3>2, <3>5, <3>6 DEF Sampled
  <2> QED
    BY <2>9, <2>11, <2>12
<1> QED
  BY <1>2, <1>3

LEMMA StatsStep ==
  ASSUME StatTypes, Sampled, [Next]_vars PROVE StatTypes' /\ Sampled'
<1>1. CASE EndExec
  BY <1>1, EndExecStats
<1>2. CASE Restart
  <2>1. StatTypes'
    BY <1>2, CovLogAssumption DEF Restart, StatTypes
  <2>2. coverage_array' = << >> /\ sampled' = << >> /\ clock' = 0 /\ at' = "collect"
    BY <1>2 DEF Restart, Fresh
  <2> QED
    BY <2>1, <2>2, Width, CovLogAssumption DEF Sampled, Remembered
<1>3. CASE \/ Collect \/ NextExec \/ EndInitRun \/ Begin \/ Output("target")
           \/ Output("attacker") \/ TargetEnds \/ SaveSignalErrorInfo \/ TargetError
           \/ NoReport \/ ReapAttacker \/ AttackError \/ NoAttackError
           \/ SaveTimeoutErrorInfo \/ UNCHANGED vars
  <2>1. UNCHANGED stats /\ (at' = at \/ (at # "exited" /\ at' # "exited"))
    BY <1>3 DEF Collect, NextExec, EndInitRun, Begin, Output, TargetEnds,
       SaveSignalErrorInfo, TargetError, NoReport, ReapAttacker, AttackError,
       NoAttackError, SaveTimeoutErrorInfo, SaveAttackErrorInfo, vars
  <2>2. /\ status' \in {"none", "running", "fine", "crash", "error", "killed"}
        /\ astatus' \in {"none", "running", "killed", "exit", "trap"}
    BY <1>3 DEF Collect, NextExec, EndInitRun, Begin, Output, TargetEnds,
       SaveSignalErrorInfo, TargetError, NoReport, ReapAttacker, AttackError,
       NoAttackError, SaveTimeoutErrorInfo, SaveAttackErrorInfo, vars, StatTypes
  <2> QED
    BY <2>1, <2>2 DEF stats, StatTypes, Sampled
<1> QED
  BY <1>1, <1>2, <1>3 DEF Next

LEMMA InitStats == Init => StatTypes /\ Sampled
<1> SUFFICES ASSUME Init PROVE StatTypes /\ Sampled
  OBVIOUS
<1>1. StatTypes
  BY CovLogAssumption DEF Init, StatTypes
<1>2. coverage_array = << >> /\ sampled = << >> /\ clock = 0 /\ at = "collect"
  BY DEF Init, Fresh
<1> QED
  BY <1>1, <1>2, Width, CovLogAssumption DEF Sampled, Remembered

LEMMA StatsInv == Spec => [](StatTypes /\ Sampled)
BY InitStats, StatsStep, PTL DEF Spec

\* The variables keep their types; the logger never holds more than MAX_ENTRIES.
THEOREM ReportTypes == Spec => []TypeOK
<1>1. Inv /\ StatTypes => TypeOK
  <2> SUFFICES ASSUME Inv, StatTypes PROVE TypeOK
    OBVIOUS
  <2>1. \A n \in DOMAIN reports : reports[n] \in Report
    BY DEF Inv, GoodReports, GoodReport
  <2> QED
    BY <2>1 DEF Inv, CounterTypes, LogTypes, StatTypes, TypeOK, Block
<1> QED
  BY SpecInv, StatsInv, <1>1, PTL

-----------------------------------------------------------------------------
(* What rebuild computes, by induction in the form of a least counterexample;
   first of samples as they are saved *)

\* The clock was not set back between two samples.
Ordered(data) ==
  \A j, k \in DOMAIN data : j < k => data[j].time <= data[k].time

PlotOf(data) ==
  [t \in 0..MaxTime |->
     LET upto == {k \in DOMAIN data : TimeSec(data[k]) <= t}
     IN IF upto = {} THEN 0 ELSE data[Max(upto)].coverage]

LEMMA Least == ASSUME NEW S \in SUBSET Nat, S # {} PROVE \E x \in S : \A y \in S : x <= y
<1>1. IsWellFoundedOn(OpToRel(<, Nat), Nat)
  BY NatLessThanWellFounded
<1>2. \E x \in S : \A y \in S : <<y, x>> \notin OpToRel(<, Nat)
  BY <1>1, WFMin
<1>3. PICK x \in S : \A y \in S : <<y, x>> \notin OpToRel(<, Nat)
  BY <1>2
<1>4. ASSUME NEW y \in S, y < x PROVE FALSE
  <2>1. <<y, x>> \in Nat \X Nat /\ <<y, x>>[1] < <<y, x>>[2]
    BY <1>4
  <2>2. <<y, x>> \in OpToRel(<, Nat)
    BY <2>1 DEF OpToRel
  <2> QED
    BY <1>3, <2>2
<1>5. \A y \in S : x <= y
  BY <1>4
<1> QED
  BY <1>5

\* so a bounded one a greatest.
LEMMA Greatest ==
  ASSUME NEW n \in Nat, NEW S \in SUBSET (1..n), S # {}
  PROVE  Max(S) \in S /\ \A y \in S : Max(S) >= y
<1> DEFINE D == {n - y : y \in S}
<1>1. D \in SUBSET Nat /\ D # {}
  <2>1. \A y \in S : y \in Int /\ n - y \in Nat
    OBVIOUS
  <2> QED
    BY <2>1
<1>2. PICK d \in D : \A e \in D : d <= e
  BY <1>1, Least
<1>3. PICK x \in S : d = n - x
  BY <1>2
<1>4. ASSUME NEW y \in S PROVE x >= y
  <2>1. n - y \in D /\ y \in Int /\ x \in Int
    OBVIOUS
  <2>2. n - x <= n - y
    BY <1>2, <1>3, <2>1
  <2> QED
    BY <2>1, <2>2
<1> QED
  BY <1>4 DEF Max

LEMMA MinOf ==
  ASSUME NEW S \in SUBSET Nat, S # {}
  PROVE  Min(S) \in S /\ \A y \in S : Min(S) <= y
BY Least DEF Min

LEMMA SampleParts ==
  ASSUME NEW data \in Seq(Sample), NEW k \in DOMAIN data
  PROVE  data[k].time \in Nat /\ data[k].coverage \in Nat /\ k \in Nat
<1>1. data[k] \in Sample /\ k \in Nat
  OBVIOUS
<1> QED
  BY <1>1 DEF Sample

\* Whole seconds keep the order of the clock.
LEMMA SecondsMonotone ==
  ASSUME NEW a \in Nat, NEW b \in Nat, a <= b
  PROVE  a \div Second \in Nat /\ a \div Second <= b \div Second
<1>1. Second \in Nat /\ Second > 0
  BY CovLogAssumption
<1>2. /\ a \div Second \in Nat /\ b \div Second \in Nat
      /\ a >= Second * (a \div Second)
      /\ b < Second * (b \div Second) + Second
  BY <1>1
<1>3. ASSUME a \div Second > b \div Second PROVE FALSE
  <2>1. ASSUME NEW p \in Nat, NEW q \in Nat, p > q PROVE Second * p >= Second * q + Second
    <3>1. p >= q + 1 /\ Second * (q + 1) = Second * q + Second
      BY <1>1, <2>1
    <3>2. \A x, y, z \in Nat : x >= y => z * x >= z * y
      OBVIOUS
    <3> QED
      BY <1>1, <3>1, <3>2
  <2> QED
    BY <1>1, <1>2, <1>3, <2>1
<1> QED
  BY <1>2, <1>3

LEMMA SecondsOrdered ==
  ASSUME NEW data \in Seq(Sample), Ordered(data)
  PROVE  /\ \A k \in DOMAIN data : TimeSec(data[k]) \in Nat
         /\ \A j, k \in DOMAIN data : j <= k => TimeSec(data[j]) <= TimeSec(data[k])
<1>1. ASSUME NEW j \in DOMAIN data, NEW k \in DOMAIN data, j <= k
      PROVE  TimeSec(data[j]) \in Nat /\ TimeSec(data[j]) <= TimeSec(data[k])
  <2>1. data[j].time \in Nat /\ data[k].time \in Nat /\ j \in Nat /\ k \in Nat
    BY SampleParts
  <2>2. data[j].time <= data[k].time
    BY <1>1, <2>1 DEF Ordered
  <2> QED
    BY <2>1, <2>2, SecondsMonotone DEF TimeSec
<1> QED
  BY <1>1, SampleParts

\* Reading ends at the first late sample: with the clock in order, the others are all.
LEMMA ReadIs ==
  ASSUME NEW data \in Seq(Sample), Ordered(data)
  PROVE  Read(data) = {k \in DOMAIN data : TimeSec(data[k]) <= MaxTime}
<1> DEFINE late == {k \in DOMAIN data : TimeSec(data[k]) > MaxTime}
<1>1. MaxTime \in Nat /\ \A k \in DOMAIN data : TimeSec(data[k]) \in Nat
  BY CovLogAssumption, SecondsOrdered
<1>2. DOMAIN data = 1..Len(data) /\ Len(data) \in Nat
  OBVIOUS
<1>3. CASE late = {}
  BY <1>1, <1>3 DEF Read
<1>4. CASE late # {}
  <2>1. Min(late) \in late /\ \A y \in late : Min(late) <= y
    <3>1. late \in SUBSET Nat
      BY <1>2
    <3> HIDE DEF late
    <3> QED
      BY <1>4, <3>1, MinOf
  <2>2. Read(data) = 1..(Min(late) - 1)
    BY <1>4 DEF Read
  <2>3. \A k \in DOMAIN data : k < Min(late) <=> TimeSec(data[k]) <= MaxTime
    <3>1. ASSUME NEW k \in DOMAIN data, k >= Min(late) PROVE TimeSec(data[k]) > MaxTime
      BY <1>1, <2>1, <3>1, SecondsOrdered
    <3>2. ASSUME NEW k \in DOMAIN data, k < Min(late) PROVE TimeSec(data[k]) <= MaxTime
      <4>1. k \notin late
        <5>1. k \in Int /\ Min(late) \in Int
          BY <1>2, <2>1
        <5> HIDE DEF late
        <5> QED
          BY <2>1, <3>2, <5>1
      <4> QED
        BY <1>1, <4>1
    <3>3. Min(late) \in Int /\ \A k \in DOMAIN data : k \in Int
      BY <1>2, <2>1
    <3> HIDE DEF late
    <3> QED
      BY <1>1, <3>1, <3>2, <3>3
  <2> HIDE DEF late
  <2>4. Min(late) \in 1..Len(data)
    BY <1>2, <2>1 DEF late
  <2> QED
    BY <1>2, <2>2, <2>3, <2>4
<1> QED
  BY <1>3, <1>4

-----------------------------------------------------------------------------
(* The rows of the CSV *)

At(data, t) == {k \in DOMAIN data : TimeSec(data[k]) = t}
UpTo(data, t) == {k \in DOMAIN data : TimeSec(data[k]) <= t}

LEMMA TraceIs ==
  ASSUME NEW data \in Seq(Sample), Ordered(data)
  PROVE  /\ \A t \in 0..MaxTime : t \in DOMAIN TraceOf(data) <=> t = 0 \/ At(data, t) # {}
         /\ \A t \in 0..MaxTime : t \in DOMAIN TraceOf(data) =>
              TraceOf(data)[t] = IF At(data, t) = {} THEN 0 ELSE data[Max(At(data, t))].coverage
<1> DEFINE R == {k \in DOMAIN data : TimeSec(data[k]) <= MaxTime}
<1>1. Read(data) = R /\ MaxTime \in Nat
  BY ReadIs, CovLogAssumption
<1>2. \A t \in 0..MaxTime : {k \in R : TimeSec(data[k]) = t} = At(data, t)
  BY <1>1, SecondsOrdered DEF At
<1> DEFINE sec(t) == {k \in R : TimeSec(data[k]) = t}
<1>3. TraceOf(data) = [t \in {0} \cup {TimeSec(data[k]) : k \in R} |->
                         IF sec(t) = {} THEN 0 ELSE data[Max(sec(t))].coverage]
  BY <1>1 DEF TraceOf
<1>4. DOMAIN TraceOf(data) = {0} \cup {TimeSec(data[k]) : k \in R}
  BY <1>3
<1>5. \A t \in 0..MaxTime : t \in DOMAIN TraceOf(data) <=> t = 0 \/ At(data, t) # {}
  BY <1>2, <1>4
<1>6. \A t \in 0..MaxTime : t \in DOMAIN TraceOf(data) =>
        TraceOf(data)[t] = IF At(data, t) = {} THEN 0 ELSE data[Max(At(data, t))].coverage
  BY <1>2, <1>3, <1>4
<1> QED
  BY <1>5, <1>6

\* The last sample of a second is the last one up to it.
LEMMA LastUpTo ==
  ASSUME NEW data \in Seq(Sample), Ordered(data), NEW t \in Nat, At(data, t) # {}
  PROVE  UpTo(data, t) # {} /\ Max(UpTo(data, t)) = Max(At(data, t))
<1> DEFINE A == At(data, t)
           U == UpTo(data, t)
<1>1. /\ A \in SUBSET (1..Len(data)) /\ U \in SUBSET (1..Len(data)) /\ Len(data) \in Nat
      /\ A \subseteq U /\ U # {}
  BY SecondsOrdered DEF At, UpTo
<1>2. Max(A) \in A /\ (\A y \in A : Max(A) >= y) /\ Max(U) \in U /\ \A y \in U : Max(U) >= y
  BY <1>1, Greatest
<1>3. Max(U) >= Max(A)
  BY <1>1, <1>2
<1>4. TimeSec(data[Max(A)]) = t /\ TimeSec(data[Max(U)]) <= t
  BY <1>2 DEF At, UpTo
<1>5. Max(A) \in DOMAIN data /\ Max(U) \in DOMAIN data
  BY <1>2 DEF At, UpTo
<1>6. TimeSec(data[Max(U)]) = t
  BY <1>3, <1>4, <1>5, SecondsOrdered
<1>7. Max(U) \in A
  BY <1>5, <1>6 DEF At
<1>8. Max(A) >= Max(U)
  BY <1>2, <1>7
<1> QED
  BY <1>1, <1>3, <1>5, <1>8

\* What rebuild is meant to give solves the equation rebuild computes by.
LEMMA PlotSolves ==
  ASSUME NEW data \in Seq(Sample), Ordered(data)
  PROVE  PlotOf(data) = [t \in 0..MaxTime |->
                         IF t \in DOMAIN TraceOf(data) THEN TraceOf(data)[t]
                         ELSE PlotOf(data)[t - 1]]
<1>1. MaxTime \in Nat
  BY CovLogAssumption
<1>2. PlotOf(data) = [t \in 0..MaxTime |-> IF UpTo(data, t) = {} THEN 0
                                         ELSE data[Max(UpTo(data, t))].coverage]
  BY DEF PlotOf, UpTo
<1>3. ASSUME NEW t \in 0..MaxTime
      PROVE  PlotOf(data)[t] = IF t \in DOMAIN TraceOf(data) THEN TraceOf(data)[t]
                             ELSE PlotOf(data)[t - 1]
  <2>1. CASE At(data, t) # {}
    BY <1>1, <1>2, <2>1, TraceIs, LastUpTo
  <2>2. CASE At(data, t) = {} /\ t = 0
    <3>1. UpTo(data, t) = {}
      BY <2>2, SecondsOrdered DEF UpTo, At
    <3> QED
      BY <1>1, <1>2, <2>2, <3>1, TraceIs
  <2>3. CASE At(data, t) = {} /\ t # 0
    <3>1. t \notin DOMAIN TraceOf(data) /\ t - 1 \in 0..MaxTime
      BY <1>1, <2>3, TraceIs
    <3>2. UpTo(data, t) = UpTo(data, t - 1)
      BY <1>1, <2>3, SecondsOrdered DEF UpTo, At
    <3> QED
      BY <1>2, <3>1, <3>2
  <2> QED
    BY <2>1, <2>2, <2>3
<1> QED
  BY <1>2, <1>3

\* rebuild is the only solution: of two, take the first row in which they differ.
LEMMA RowsAgree ==
  ASSUME NEW trace, 0 \in DOMAIN trace, NEW P, NEW Q,
         P = [t \in 0..MaxTime |-> IF t \in DOMAIN trace THEN trace[t] ELSE P[t - 1]],
         Q = [t \in 0..MaxTime |-> IF t \in DOMAIN trace THEN trace[t] ELSE Q[t - 1]]
  PROVE  P = Q
<1> DEFINE bad == {t \in 0..MaxTime : P[t] # Q[t]}
<1>1. MaxTime \in Nat
  BY CovLogAssumption
<1>2. /\ \A t \in 0..MaxTime : P[t] = IF t \in DOMAIN trace THEN trace[t] ELSE P[t - 1]
      /\ \A t \in 0..MaxTime : Q[t] = IF t \in DOMAIN trace THEN trace[t] ELSE Q[t - 1]
  OBVIOUS
<1>3. ASSUME bad # {} PROVE FALSE
  <2>1. bad \in SUBSET Nat
    BY <1>1
  <2>2. PICK t \in bad : \A u \in bad : t <= u
    BY <1>3, <2>1, Least
  <2>3. t \notin DOMAIN trace /\ t # 0
    BY <1>2, <2>2
  <2>4. t - 1 \in 0..MaxTime /\ t - 1 < t
    BY <1>1, <2>2, <2>3
  <2>5. P[t - 1] = Q[t - 1]
    BY <2>2, <2>4
  <2> QED
    BY <1>2, <2>2, <2>3, <2>5
<1> QED
  BY <1>3

LEMMA RebuildSolves ==
  ASSUME NEW trace, NEW P,
         P = [t \in 0..MaxTime |-> IF t \in DOMAIN trace THEN trace[t] ELSE P[t - 1]]
  PROVE  Rebuild(trace) = [t \in 0..MaxTime |-> IF t \in DOMAIN trace THEN trace[t]
                                                ELSE Rebuild(trace)[t - 1]]
BY DEF Rebuild

LEMMA RowsExact ==
  ASSUME NEW data \in Seq(Sample), Ordered(data)
  PROVE  Rebuild(TraceOf(data)) = PlotOf(data)
<1>1. 0 \in DOMAIN TraceOf(data)
  BY TraceIs, CovLogAssumption
<1> QED
  BY <1>1, PlotSolves, RebuildSolves, RowsAgree

-----------------------------------------------------------------------------
(* From what was saved to what was read *)

\* A second past the last one that is asked for.
LEMMA PastMaxTime ==
  ASSUME NEW x \in Nat, (MaxTime + 1) * Second <= x PROVE x \div Second > MaxTime
<1>1. Second \in Nat /\ Second > 0 /\ MaxTime \in Nat
  BY CovLogAssumption
<1>2. x \div Second \in Nat /\ x < Second * (x \div Second) + Second
  BY <1>1
<1>3. ASSUME x \div Second <= MaxTime PROVE FALSE
  <2>1. \A a, b, z \in Nat : a <= b => z * a <= z * b
    OBVIOUS
  <2>2. Second * (x \div Second) <= Second * MaxTime
    BY <1>1, <1>2, <1>3, <2>1
  <2>3. (MaxTime + 1) * Second = Second * MaxTime + Second
    BY <1>1
  <2> QED
    BY <1>1, <1>2, <2>2, <2>3
<1> QED
  BY <1>1, <1>2, <1>3

\* A reading keeps its time if it is not before the start, and is past every
\* second asked for if it is.
LEMMA CutTime ==
  ASSUME NEW r \in Reading, InTime(r) \/ InReach(r.time)
  PROVE  /\ Cut(r).coverage = r.coverage
         /\ r.time >= 0 => Cut(r).time = r.time
         /\ r.time < 0 => /\ Cut(r).time > Timer
                          /\ TimeSec(Cut(r)) > MaxTime
<1>1. r.time \in Int /\ Cut(r).time = r.time % ClockLimit /\ Cut(r).coverage = r.coverage
  BY CutSample DEF Cut
<1>2. CASE r.time >= 0
  <2>1. r.time < ClockLimit
    <3>1. CASE InTime(r)
      BY <1>1, <3>1, Width DEF InTime
    <3>2. CASE InReach(r.time)
      BY <3>2 DEF InReach
    <3> QED
      BY <3>1, <3>2
  <2> QED
    BY <1>1, <1>2, <2>1, ModIs
<1>3. CASE r.time < 0
  <2>1. InReach(r.time)
    BY <1>1, <1>3, Width DEF InTime
  <2>2. Cut(r).time = ClockLimit + r.time
    BY <1>1, <1>3, <2>1, ModIs, Width DEF InReach
  <2>3. ClockLimit + r.time \in Nat /\ ClockLimit + r.time > Timer
    BY <1>1, <2>1, Width DEF InReach
  <2>4. (MaxTime + 1) * Second <= ClockLimit + r.time
    BY <2>1 DEF InReach
  <2> QED
    BY <1>1, <1>3, <2>2, <2>3, <2>4, PastMaxTime DEF TimeSec
<1> QED
  BY <1>1, <1>2, <1>3

\* When the campaign has ended: what was saved is in order if what was read in
\* time is, and both say the same.
LEMMA SavedOrdered ==
  ASSUME StatTypes, Sampled, at = "exited",
         \A j, k \in 1..(Len(sampled) - 1) : j < k => sampled[j].time <= sampled[k].time
  PROVE  Ordered(statfile) /\ Plot(sampled) = PlotOf(statfile)
<1> DEFINE n == Len(sampled)
<1>1. /\ n \in Nat /\ MaxEntries \in Nat /\ MaxTime \in Nat
      /\ \A k \in 1..n : sampled[k] \in Reading /\ sampled[k].time \in Int
  <2>1. \A k \in 1..n : sampled[k] \in Reading
    BY DEF StatTypes
  <2> QED
    BY <2>1, CutSample, CovLogAssumption DEF StatTypes
<1>2. /\ \A k \in DOMAIN statfile : statfile[k] = Cut(sampled[k])
      /\ DOMAIN statfile = {k \in 1..n : k <= MaxEntries}
  <2>1. statfile = coverage_array /\ Remembered(coverage_array, sampled)
    BY DEF Sampled
  <2>2. DOMAIN statfile = 1..Len(statfile) /\ Len(statfile) \in Nat
    BY DEF StatTypes
  <2> QED
    BY <1>1, <2>1, <2>2 DEF Remembered
<1>3. /\ \A k \in 1..n : InTime(sampled[k]) <=> k < n
      /\ \A k \in 1..n : InTime(sampled[k]) \/ InReach(sampled[k].time)
  BY <1>1 DEF Sampled
<1>4. \A k \in 1..n : /\ Cut(sampled[k]).coverage = sampled[k].coverage
                      /\ sampled[k].time >= 0 => Cut(sampled[k]).time = sampled[k].time
                      /\ sampled[k].time < 0 => /\ Cut(sampled[k]).time > Timer
                                                /\ TimeSec(Cut(sampled[k])) > MaxTime
  BY <1>1, <1>3, CutTime
<1>5. Ordered(statfile)
  <2> SUFFICES ASSUME NEW j \in DOMAIN statfile, NEW k \in DOMAIN statfile, j < k
               PROVE  statfile[j].time <= statfile[k].time
    BY DEF Ordered
  <2>1. j \in 1..n /\ k \in 1..n /\ j < n
    BY <1>1, <1>2
  <2>2. /\ sampled[j].time \in 0..Timer /\ statfile[j].time = sampled[j].time
    BY <1>1, <1>2, <1>3, <1>4, <2>1, Width DEF InTime
  <2>3. CASE k < n
    <3>1. sampled[k].time \in 0..Timer /\ statfile[k].time = sampled[k].time
      BY <1>1, <1>2, <1>3, <1>4, <2>1, <2>3, Width DEF InTime
    <3>2. j \in 1..(n - 1) /\ k \in 1..(n - 1)
      BY <1>1, <2>1, <2>3
    <3> QED
      BY <2>2, <3>1, <3>2
  <2>4. CASE ~(k < n)
    <3>1. sampled[k].time \notin 0..Timer /\ sampled[k].time \in Int
      BY <1>1, <1>3, <2>1, <2>4 DEF InTime
    <3>2. statfile[k].time \in Int /\ statfile[k].time > Timer
      BY <1>2, <1>4, <2>1, <3>1, Width, SampleParts DEF StatTypes
    <3> QED
      BY <2>2, <3>2, Width
  <2> QED
    BY <2>3, <2>4
<1>6. ASSUME NEW t \in 0..MaxTime
      PROVE  {k \in DOMAIN statfile : TimeSec(statfile[k]) <= t}
               = {k \in DOMAIN sampled : /\ k <= MaxEntries /\ sampled[k].time >= 0
                                         /\ TimeSec(sampled[k]) <= t}
  <2>1. DOMAIN sampled = 1..n
    BY DEF StatTypes
  <2>2. \A k \in DOMAIN statfile : TimeSec(statfile[k]) \in Nat
    BY <1>5, SecondsOrdered DEF StatTypes
  <2>3. ASSUME NEW k \in DOMAIN statfile
        PROVE  TimeSec(statfile[k]) <= t <=> sampled[k].time >= 0 /\ TimeSec(sampled[k]) <= t
    <3>1. k \in 1..n /\ statfile[k] = Cut(sampled[k])
      BY <1>2
    <3>2. CASE sampled[k].time >= 0
      BY <1>4, <3>1, <3>2 DEF TimeSec
    <3>3. CASE ~(sampled[k].time >= 0)
      <4>1. TimeSec(statfile[k]) > MaxTime
        BY <1>1, <1>4, <3>1, <3>3
      <4> QED
        BY <1>1, <2>2, <3>3, <4>1
    <3> QED
      BY <3>2, <3>3
  <2> QED
    BY <1>2, <2>1, <2>3
<1>7. ASSUME NEW t \in 0..MaxTime PROVE Plot(sampled)[t] = PlotOf(statfile)[t]
  <2> DEFINE U == {k \in DOMAIN statfile : TimeSec(statfile[k]) <= t}
  <2>1. PlotOf(statfile)[t] = IF U = {} THEN 0 ELSE statfile[Max(U)].coverage
    BY DEF PlotOf
  <2>2. Plot(sampled)[t] = IF U = {} THEN 0 ELSE sampled[Max(U)].coverage
    BY <1>6 DEF Plot
  <2>3. ASSUME U # {} PROVE statfile[Max(U)].coverage = sampled[Max(U)].coverage
    <3>1. DOMAIN statfile = 1..Len(statfile) /\ Len(statfile) \in Nat
      BY DEF StatTypes
    <3>2. U \in SUBSET (1..Len(statfile))
      BY <3>1
    <3>3. Max(U) \in U
      <4> HIDE DEF U
      <4> QED
        BY <2>3, <3>1, <3>2, Greatest
    <3>4. Max(U) \in DOMAIN statfile
      BY <3>3
    <3> HIDE DEF U
    <3> QED
      BY <1>2, <1>4, <3>4
  <2> HIDE DEF U
  <2> QED
    BY <2>1, <2>2, <2>3
<1>8. Plot(sampled) = PlotOf(statfile)
  <2>1. /\ Plot(sampled) = [t \in 0..MaxTime |-> Plot(sampled)[t]]
        /\ PlotOf(statfile) = [t \in 0..MaxTime |-> PlotOf(statfile)[t]]
    BY DEF Plot, PlotOf
  <2> QED
    BY <1>7, <2>1
<1> QED
  BY <1>5, <1>8

\* Whatever a campaign sampled, it ends with the first sample out of 0..TIMER; if
\* its clock was not set back in between, the rows of the CSV are the coverage it
\* had reached by each second, but for what came after MAX_ENTRIES samples.
THEOREM CsvIsExact == Spec => []CsvExact
<1>1. StatTypes /\ Sampled => CsvExact
  <2> SUFFICES ASSUME StatTypes, Sampled, at = "exited"
               PROVE  /\ \A k \in 1..Len(sampled) : InTime(sampled[k]) <=> k < Len(sampled)
                      /\ (\A j, k \in 1..(Len(sampled) - 1) :
                            j < k => sampled[j].time <= sampled[k].time)
                           => Rebuild(TraceOf(statfile)) = Plot(sampled)
    BY DEF CsvExact
  <2>1. \A k \in 1..Len(sampled) : InTime(sampled[k]) <=> k < Len(sampled)
    BY DEF Sampled
  <2> QED
    BY <2>1, SavedOrdered, RowsExact DEF StatTypes
<1> QED
  BY StatsInv, <1>1, PTL
=============================================================================
