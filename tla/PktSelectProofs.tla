--------------------------- MODULE PktSelectProofs ---------------------------
(* Proofs about PktSelect: the delta of the init run and the strategy in force. *)
EXTENDS PktSelect, TLAPS

Previous(k) == IF k = 1 THEN 0 ELSE covs[k - 1]

\* What the code makes of the growth up to the k-th packet: the unsigned delta.
Wrapped(c, k) == Delta(c[k], IF k = 1 THEN 0 ELSE c[k - 1])

\* What the code really looks for, and finds: the first largest unsigned delta.
WrappedPoint ==
  /\ \A k \in 1..count : Wrapped(covs, k) <= max_delta
  /\ \A k \in 1..max_delta_index : Wrapped(covs, k) < max_delta
  /\ max_delta > 0 => /\ max_delta_index < count
                      /\ Wrapped(covs, max_delta_index + 1) = max_delta

Locations == {"recv", "answer", "save", "mixed", "entry", "probs", "fuzz",
              "packet", "aborted"}

Types ==
  /\ pc \in Locations
  /\ asked \in PktselMode /\ mode \in PktselMode
  /\ strategy \in PktselMode \cup {"none"}
  /\ mixed_mode \in BOOLEAN
  /\ count \in Nat /\ max_delta \in Nat
  /\ max_delta_index \in Nat /\ max_delta_index <= count
  /\ coverage_count \in Nat /\ new_coverage_count \in Nat
  /\ covs \in Seq(Nat) /\ Len(covs) = count
  /\ \A k \in 1..count : covs[k] \in Coverages
  /\ idx \in Nat /\ total_exec_times \in Nat

\* Where the init run stands in its own history.
Remembered ==
  /\ pc = "recv" => coverage_count = Previous(count + 1)
  /\ pc = "answer" => count > 0 /\ new_coverage_count = covs[count]

\* The configuration is what selection_strategy_setup made of the strategy.
Configured ==
  /\ strategy # "none" => /\ pc \in {"fuzz", "packet"}
                          /\ mode = strategy /\ entry_index = max_delta_index
  /\ strategy = "FIXED_PROB_10" => fixed_prob = 10
  /\ strategy = "FIXED_PROB_25" => fixed_prob = 25
  /\ strategy = "FIXED_PROB_50" => fixed_prob = 50
  /\ strategy = "FIXED_PROB_75" => fixed_prob = 75
  /\ strategy = "FIXED_PROB_100" => fixed_prob = 100
  /\ strategy = "SELECTIVE_25_75" => first_prob = 25 /\ second_prob = 75
  /\ strategy = "SELECTIVE_75_25" => first_prob = 75 /\ second_prob = 25

\* What the interceptor has set up before it is done, and for whom.
Underway ==
  /\ pc = "probs" => mode = asked /\ entry_index = max_delta_index
  /\ mixed_mode => asked = "MIXED_PROB"

Inv == Types /\ Remembered /\ WrappedPoint /\ Configured /\ Underway

LEMMA DeltaIsNat ==
  ASSUME NEW a \in Nat, NEW b \in Nat PROVE Delta(a, b) \in Nat
BY PktSelectAssumption DEF Delta

LEMMA Appended ==
  ASSUME NEW s \in Seq(Nat), NEW e \in Nat
  PROVE  /\ Append(s, e) \in Seq(Nat) /\ Len(Append(s, e)) = Len(s) + 1
         /\ \A k \in 1..Len(s) : Append(s, e)[k] = s[k]
         /\ Append(s, e)[Len(s) + 1] = e
         /\ Len(s) \in Nat
OBVIOUS

LEMMA Start == Init => Inv
<1> SUFFICES ASSUME Init PROVE Inv
  OBVIOUS
<1>1. Types
  <2>1. asked \in PktselMode /\ mode \in PktselMode
    BY DEF Init, PktselMode, Fixed
  <2>2. covs \in Seq(Nat) /\ Len(covs) = 0 /\ \A k \in 1..0 : covs[k] \in Coverages
    BY DEF Init
  <2>3. pc \in Locations /\ mixed_mode \in BOOLEAN /\ strategy = "none"
    BY DEF Init, Locations
  <2>4. count = 0 /\ coverage_count = 0 /\ new_coverage_count = 0
    BY DEF Init
  <2>5. max_delta = 0 /\ max_delta_index = 0 /\ idx = 0 /\ total_exec_times = 0
    BY DEF Init
  <2> QED BY <2>1, <2>2, <2>3, <2>4, <2>5 DEF Types
<1>2. Remembered /\ WrappedPoint
  BY DEF Init, Remembered, WrappedPoint, Previous
<1>3. Configured /\ Underway
  BY DEF Init, Configured, Underway
<1> QED BY <1>1, <1>2, <1>3 DEF Inv

-----------------------------------------------------------------------------
LEMMA TypesKept == Types /\ [Next]_pvars => Types'
<1> SUFFICES ASSUME Types, [Next]_pvars PROVE Types'
  OBVIOUS
<1> USE DEF Types, Locations
<1>1. CASE Recv
  <2>1. new_coverage_count' \in Nat
    BY <1>1, PktSelectAssumption DEF Recv
  <2>2. covs' = Append(covs, new_coverage_count') /\ count' = count + 1
    BY <1>1 DEF Recv
  <2>3. /\ covs' \in Seq(Nat) /\ Len(covs') = count'
        /\ \A k \in 1..count' : covs'[k] \in Coverages
    <3>1. new_coverage_count' \in Coverages /\ count = Len(covs)
      BY <1>1 DEF Recv
    <3>2. /\ covs' \in Seq(Nat) /\ Len(covs') = count'
          /\ \A k \in 1..count : covs'[k] = covs[k]
          /\ covs'[count + 1] = new_coverage_count'
      BY <2>1, <2>2, <3>1, Appended
    <3> QED BY <2>2, <3>1, <3>2
  <2>4. Delta(new_coverage_count', coverage_count) \in Nat
    BY <2>1, DeltaIsNat
  <2>5. max_delta' \in Nat /\ max_delta_index' \in Nat /\ max_delta_index' <= count'
    BY <1>1, <2>2, <2>4 DEF Recv, DeltaIndex
  <2>6. UNCHANGED <<asked, coverage_count, mixed_mode, mode, strategy, idx, total_exec_times>>
    BY <1>1 DEF Recv, config, execution
  <2>7. pc' = "answer"
    BY <1>1 DEF Recv
  <2> HIDE DEF Types
  <2> QED BY <2>1, <2>2, <2>3, <2>5, <2>6, <2>7 DEF Types
<1>2. CASE Answer
  BY <1>2 DEF Answer, config, execution
<1>3. CASE Save \/ SetMixed \/ InitRunFails \/ NextPacket \/ EndExec
  <2>1. UNCHANGED <<asked, strategy, mode, count, max_delta, max_delta_index,
                    coverage_count, new_coverage_count, covs>>
    BY <1>3 DEF Save, SetMixed, InitRunFails, NextPacket, EndExec, config, initrun
  <2>2. mixed_mode' \in BOOLEAN
    BY <1>3 DEF Save, SetMixed, InitRunFails, NextPacket, EndExec
  <2>3. idx' \in Nat /\ total_exec_times' \in Nat
    BY <1>3 DEF Save, SetMixed, InitRunFails, NextPacket, EndExec, execution
  <2>4. pc' \in Locations
    BY <1>3 DEF Save, SetMixed, InitRunFails, NextPacket, EndExec
  <2> QED BY <2>1, <2>2, <2>3, <2>4
<1>4. CASE SetupEntry \/ SetupProbs
  BY <1>4 DEF SetupEntry, SetupProbs, SetEntry, config, initrun, execution
<1>5. CASE StartExec
  <2>1. /\ UNCHANGED <<asked, initrun, mixed_mode>> /\ pc' = "packet"
        /\ total_exec_times' = total_exec_times + 1 /\ idx' = 0
    BY <1>5 DEF StartExec
  <2>2. mode' \in PktselMode /\ strategy' \in PktselMode \cup {"none"}
    <3>1. CASE Redraw
      BY <1>5, <3>1 DEF StartExec, DrawStrategy, SetEntry, Drawn
    <3>2. CASE ~Redraw
      BY <1>5, <3>2 DEF StartExec, config
    <3> QED BY <3>1, <3>2
  <2>3. UNCHANGED <<count, max_delta, max_delta_index, coverage_count,
                    new_coverage_count, covs>>
    BY <2>1 DEF initrun
  <2>4. total_exec_times' \in Nat /\ idx' \in Nat
    BY <2>1
  <2> QED BY <2>1, <2>2, <2>3, <2>4
<1>6. CASE UNCHANGED pvars
  BY <1>6 DEF pvars, config, initrun, execution
<1> QED BY <1>1, <1>2, <1>3, <1>4, <1>5, <1>6 DEF Next

LEMMA RememberedKept == Types /\ Remembered /\ [Next]_pvars => Remembered'
<1> SUFFICES ASSUME Types, Remembered, [Next]_pvars PROVE Remembered'
  OBVIOUS
<1>1. CASE Recv
  <2>1. /\ covs' = Append(covs, new_coverage_count') /\ count' = count + 1
        /\ new_coverage_count' \in Nat /\ pc' = "answer"
    BY <1>1, PktSelectAssumption DEF Recv
  <2>2. covs'[count'] = new_coverage_count' /\ count' > 0
    BY <2>1, Appended DEF Types
  <2> QED BY <2>1, <2>2 DEF Remembered
<1>2. CASE Answer
  <2>1. pc' = "recv" => coverage_count' = covs[count] /\ count > 0
    BY <1>2 DEF Answer, Remembered
  <2>2. UNCHANGED <<covs, count>> /\ pc' # "answer"
    BY <1>2 DEF Answer
  <2> QED BY <2>1, <2>2 DEF Remembered, Previous, Types
<1>3. CASE Save \/ SetMixed \/ InitRunFails \/ NextPacket \/ EndExec
           \/ SetupEntry \/ SetupProbs \/ StartExec
  <2> pc' \notin {"recv", "answer"}
    BY <1>3 DEF Save, SetMixed, InitRunFails, NextPacket, EndExec, SetupEntry,
                SetupProbs, StartExec
  <2> QED BY DEF Remembered
<1>4. CASE UNCHANGED pvars
  BY <1>4 DEF pvars, initrun, Remembered, Previous
<1> QED BY <1>1, <1>2, <1>3, <1>4 DEF Next

\* A packet is either covered by the deltas already known or is the new one.
LEMMA WrappedPointKept == Types /\ Remembered /\ WrappedPoint /\ [Next]_pvars => WrappedPoint'
<1> SUFFICES ASSUME Types, Remembered, WrappedPoint, [Next]_pvars PROVE WrappedPoint'
  OBVIOUS
<1>1. CASE Recv
  <2>1. /\ covs' = Append(covs, new_coverage_count') /\ count' = count + 1
        /\ new_coverage_count' \in Nat /\ coverage_count = Previous(count + 1)
    BY <1>1, PktSelectAssumption DEF Recv, Remembered
  <2> DEFINE delta == Delta(new_coverage_count', coverage_count)
  <2>2. /\ count \in Nat
        /\ \A k \in 1..count : covs'[k] = covs[k]
        /\ covs'[count + 1] = new_coverage_count'
    BY <2>1, Appended DEF Types
  <2>3. \A k \in 1..count : Wrapped(covs', k) = Wrapped(covs, k)
    BY <2>2 DEF Wrapped
  <2>4. Wrapped(covs', count') = delta
    <3>1. CASE count = 0
      BY <2>1, <2>2, <3>1 DEF Wrapped, Previous
    <3>2. CASE count # 0
      <4>0. count' - 1 = count /\ count \in 1..count /\ count' # 1 /\ count + 1 # 1
        BY <2>1, <2>2, <3>2
      <4>1. covs'[count' - 1] = covs[count]
        BY <2>2, <4>0
      <4>2. coverage_count = covs[count]
        BY <2>1, <2>2, <4>0 DEF Previous
      <4> QED BY <2>1, <2>2, <4>0, <4>1, <4>2 DEF Wrapped
    <3> QED BY <3>1, <3>2
  <2>5. delta \in Nat /\ max_delta \in Nat /\ max_delta_index \in Nat
    BY <2>1, DeltaIsNat DEF Types
  <2>6. \A k \in 1..count : Wrapped(covs, k) \in Nat
    <3> SUFFICES ASSUME NEW k \in 1..count PROVE Wrapped(covs, k) \in Nat
      OBVIOUS
    <3>1. \A j \in 1..count : covs[j] \in Nat
      BY DEF Types
    <3>2. covs[k] \in Nat /\ (k # 1 => covs[k - 1] \in Nat)
      BY <2>2, <3>1
    <3> QED BY <3>2, DeltaIsNat DEF Wrapped
  <2>7. CASE delta > max_delta
    <3>1. max_delta' = delta /\ max_delta_index' = count
      BY <1>1, <2>1, <2>2, <2>7 DEF Recv, DeltaIndex
    <3> HIDE DEF delta
    <3>2. \A k \in 1..count : Wrapped(covs', k) < max_delta'
      BY <2>3, <2>5, <2>6, <2>7, <3>1 DEF WrappedPoint
    <3>3. \A k \in 1..count' : Wrapped(covs', k) <= max_delta'
      BY <2>1, <2>2, <2>3, <2>4, <2>5, <2>6, <3>1, <3>2
    <3> QED BY <2>1, <2>2, <2>4, <3>1, <3>2, <3>3 DEF WrappedPoint
  <2>8. CASE ~(delta > max_delta)
    <3>1. max_delta' = max_delta /\ max_delta_index' = max_delta_index
      BY <1>1, <2>8 DEF Recv
    <3> HIDE DEF delta
    <3>2. max_delta_index <= count
      BY DEF Types
    <3>3. \A k \in 1..count' : Wrapped(covs', k) <= max_delta'
      BY <2>1, <2>2, <2>3, <2>4, <2>5, <2>8, <3>1 DEF WrappedPoint
    <3>4. \A k \in 1..max_delta_index' : Wrapped(covs', k) < max_delta'
      BY <2>2, <2>3, <2>5, <3>1, <3>2 DEF WrappedPoint
    <3>5. max_delta' > 0 => /\ max_delta_index' < count'
                            /\ Wrapped(covs', max_delta_index' + 1) = max_delta'
      BY <2>1, <2>2, <2>3, <2>5, <3>1 DEF WrappedPoint
    <3> QED BY <3>3, <3>4, <3>5 DEF WrappedPoint
  <2> QED BY <2>7, <2>8
<1>2. CASE ~Recv
  <2> UNCHANGED <<count, covs, max_delta, max_delta_index>>
    BY <1>2 DEF Next, Answer, Save, SetMixed, SetupEntry, SetupProbs, InitRunFails,
                StartExec, NextPacket, EndExec, initrun, pvars
  <2> QED BY DEF WrappedPoint, Wrapped
<1> QED BY <1>1, <1>2

LEMMA ConfiguredKept ==
  Types /\ Configured /\ Underway /\ [Next]_pvars => Configured' /\ Underway'
<1> SUFFICES ASSUME Types, Configured, Underway, [Next]_pvars
             PROVE  Configured' /\ Underway'
  OBVIOUS
<1>1. CASE Recv \/ Answer \/ Save \/ SetMixed \/ SetupEntry
  <2>1. strategy = "none" /\ strategy' = "none"
    BY <1>1 DEF Recv, Answer, Save, SetMixed, SetupEntry, Configured
  <2>2. Configured'
    BY <2>1 DEF Configured
  <2>3. Underway'
    <3>1. CASE Recv \/ Answer \/ Save
      BY <3>1 DEF Recv, Answer, Save, Underway
    <3>2. CASE SetMixed
      BY <3>2 DEF SetMixed, Underway
    <3>3. CASE SetupEntry
      BY <3>3 DEF SetupEntry, SetEntry, Underway, initrun
    <3> QED BY <1>1, <3>1, <3>2, <3>3
  <2> QED BY <2>2, <2>3
<1>2. CASE SetupProbs
  <2>1. SetProbs(mode) /\ strategy' = mode /\ pc' = "fuzz" /\ mode \in PktselMode
    BY <1>2 DEF SetupProbs, Types
  <2>2. entry_index' = max_delta_index' /\ mode' = mode
    BY <1>2 DEF SetupProbs, Underway, initrun
  <2>3. Configured'
    BY <2>1, <2>2 DEF Configured, SetProbs
  <2>4. Underway'
    BY <1>2 DEF SetupProbs, Underway
  <2> QED BY <2>3, <2>4
<1>3. CASE InitRunFails \/ NextPacket \/ EndExec
  <2>1. UNCHANGED <<strategy, config, max_delta_index, asked, mixed_mode>>
    BY <1>3 DEF InitRunFails, NextPacket, EndExec, initrun
  <2>2. pc' # "probs" /\ (strategy # "none" => pc' \in {"fuzz", "packet"})
    BY <1>3 DEF InitRunFails, NextPacket, EndExec, Configured
  <2> QED BY <2>1, <2>2 DEF Configured, Underway, config
<1>4. CASE StartExec
  <2>1. pc' = "packet" /\ UNCHANGED <<asked, mixed_mode, max_delta_index>>
    BY <1>4 DEF StartExec, initrun
  <2>2. CASE Redraw
    <3>1. PICK m \in Drawn : DrawStrategy(m)
      BY <1>4, <2>2 DEF StartExec
    <3>2. SetProbs(m) /\ strategy' = m /\ mode' = m /\ entry_index' = max_delta_index
      BY <3>1 DEF DrawStrategy, SetEntry
    <3>3. Configured'
      BY <2>1, <3>2 DEF Configured, SetProbs
    <3> QED BY <2>1, <3>3 DEF Underway
  <2>3. CASE ~Redraw
    <3>1. UNCHANGED <<config, strategy>>
      BY <1>4, <2>3 DEF StartExec
    <3> QED BY <2>1, <3>1 DEF Configured, Underway, config
  <2> QED BY <2>2, <2>3
<1>5. CASE UNCHANGED pvars
  BY <1>5 DEF pvars, initrun, config, Configured, Underway
<1> QED BY <1>1, <1>2, <1>3, <1>4, <1>5 DEF Next

LEMMA Invariance == Spec => []Inv
<1>1. Inv /\ [Next]_pvars => Inv'
  BY TypesKept, RememberedKept, WrappedPointKept, ConfiguredKept DEF Inv
<1> QED BY <1>1, Start, PTL DEF Spec

-----------------------------------------------------------------------------
\* A fall gives a larger unsigned delta than any growth.
LEMMA DeltaValue ==
  ASSUME NEW a \in Nat, NEW b \in Nat, 2 * a < Modulus, 2 * b < Modulus
  PROVE  Delta(a, b) = IF a >= b THEN a - b ELSE Modulus + (a - b)
BY PktSelectAssumption DEF Delta

\* While the coverage of the init run never shrank, the index the strategy is set
\* up with is that of the first packet of the largest growth; once it has shrunk,
\* it is that of the first of the smallest falls, whatever grew: for init runs of
\* any length, any coverages and any width of the unsigned delta that is above
\* twice the coverage (intercept_ble_packet_for_init_corpus).
THEOREM DeltaFound == Spec => []DeltaPoint
<1>1. Inv => DeltaPoint
  <2> SUFFICES ASSUME Inv PROVE DeltaPoint
    OBVIOUS
  <2>1. /\ count \in Nat /\ Len(covs) = count /\ max_delta \in Nat
        /\ max_delta_index \in Nat /\ max_delta_index <= count
    BY DEF Inv, Types
  <2>2. Modulus \in Nat /\ Modulus > 0
    BY PktSelectAssumption
  <2>3. \A k \in 1..count :
          /\ Growth(covs, k) \in Int
          /\ 2 * Growth(covs, k) < Modulus /\ 2 * Growth(covs, k) > -Modulus
          /\ Wrapped(covs, k) = IF Growth(covs, k) >= 0 THEN Growth(covs, k)
                                ELSE Modulus + Growth(covs, k)
    <3> SUFFICES ASSUME NEW k \in 1..count
                 PROVE  /\ Growth(covs, k) \in Int
                        /\ 2 * Growth(covs, k) < Modulus /\ 2 * Growth(covs, k) > -Modulus
                        /\ Wrapped(covs, k) = IF Growth(covs, k) >= 0 THEN Growth(covs, k)
                                              ELSE Modulus + Growth(covs, k)
      OBVIOUS
    <3> DEFINE old == IF k = 1 THEN 0 ELSE covs[k - 1]
    <3>1. covs[k] \in Nat /\ 2 * covs[k] < Modulus
      BY PktSelectAssumption DEF Inv, Types
    <3>2. old \in Nat /\ 2 * old < Modulus
      <4>1. CASE k = 1
        BY <2>2, <4>1
      <4>2. CASE k # 1
        <5>1. k - 1 \in 1..count /\ old = covs[k - 1]
          BY <2>1, <4>2
        <5>2. covs[k - 1] \in Coverages
          BY <5>1 DEF Inv, Types
        <5> QED BY <5>1, <5>2, PktSelectAssumption
      <4> QED BY <4>1, <4>2
    <3>3. Growth(covs, k) = covs[k] - old /\ Wrapped(covs, k) = Delta(covs[k], old)
      BY DEF Growth, Wrapped
    <3>4. Delta(covs[k], old) = IF covs[k] >= old THEN covs[k] - old
                                ELSE Modulus + (covs[k] - old)
      BY <3>1, <3>2, DeltaValue
    <3> HIDE DEF old
    <3> QED BY <2>2, <3>1, <3>2, <3>3, <3>4
  <2>4. /\ \A k \in 1..count : Wrapped(covs, k) <= max_delta
        /\ \A k \in 1..max_delta_index : Wrapped(covs, k) < max_delta
        /\ max_delta > 0 => /\ max_delta_index < count
                            /\ Wrapped(covs, max_delta_index + 1) = max_delta
    BY DEF Inv, WrappedPoint
  <2>5. CASE Fell(covs) = {}
    <3>1. \A k \in 1..count : Wrapped(covs, k) = Growth(covs, k)
      BY <2>1, <2>3, <2>5 DEF Fell
    <3>2. \A k \in 1..max_delta_index : k \in 1..count
      BY <2>1
    <3>3. max_delta_index < count => max_delta_index + 1 \in 1..count
      BY <2>1
    <3> QED BY <2>4, <2>5, <3>1, <3>2, <3>3 DEF DeltaPoint
  <2>6. CASE Fell(covs) # {}
    <3>1. PICK f \in 1..count : Growth(covs, f) < 0
      BY <2>1, <2>6 DEF Fell
    <3>2. Wrapped(covs, f) = Modulus + Growth(covs, f) /\ 2 * Growth(covs, f) > -Modulus
          /\ Growth(covs, f) \in Int
      BY <2>3, <3>1
    <3>3. max_delta > 0 /\ 2 * max_delta > Modulus
      BY <2>1, <2>2, <2>4, <3>1, <3>2
    <3> DEFINE found == max_delta_index + 1
    <3>4. found \in 1..count /\ Wrapped(covs, found) = max_delta
      BY <2>1, <2>4, <3>3
    <3>5. Growth(covs, found) < 0 /\ max_delta = Modulus + Growth(covs, found)
      BY <2>1, <2>2, <2>3, <3>3, <3>4
    <3>6. \A k \in 1..count : Growth(covs, k) < 0 => Growth(covs, k) <= Growth(covs, found)
      BY <2>1, <2>2, <2>3, <2>4, <3>4, <3>5
    <3>7. \A k \in 1..count : Growth(covs, k) < 0 /\ k < found
                              => Growth(covs, k) < Growth(covs, found)
      BY <2>1, <2>2, <2>3, <2>4, <3>4, <3>5
    <3> QED BY <2>1, <2>6, <3>4, <3>5, <3>6, <3>7 DEF DeltaPoint, Fell
  <2> QED BY <2>5, <2>6
<1> QED BY <1>1, Invariance, PTL

\* Every packet is decided on by the last strategy that was set up, whatever
\* strategies were in force before it (should_mutate_packet).
THEOREM LastStrategyInForce == Spec => []StrategyInForce
<1>1. Inv => StrategyInForce
  <2> SUFFICES ASSUME Inv, pc = "packet", strategy # "none"
               PROVE  Probs(idx) = Promised(strategy, idx)
    BY DEF StrategyInForce
  <2>1. mode = strategy /\ entry_index = max_delta_index /\ mode \in PktselMode
    BY DEF Inv, Configured, Types
  <2>2. CASE strategy \in Fixed
    <3>1. mode \in Fixed /\ mode \notin Selective /\ mode # "RANDOM_PROB"
      BY <2>1, <2>2 DEF Fixed, Selective
    <3>2. Probs(idx) = {fixed_prob}
      BY <3>1 DEF Probs
    <3> QED BY <2>2, <3>2 DEF Inv, Configured, Promised, Fixed
  <2>3. CASE strategy \in Selective
    <3>1. Probs(idx) = {IF idx >= max_delta_index THEN first_prob ELSE second_prob}
      BY <2>1, <2>3 DEF Probs, Fixed, Selective
    <3> QED BY <2>3, <3>1 DEF Inv, Configured, Promised, Selective
  <2>4. CASE strategy \in {"RANDOM_PROB", "MIXED_PROB"}
    BY <2>1, <2>4 DEF Probs, Promised, Fixed, Selective
  <2> QED BY <2>1, <2>2, <2>3, <2>4 DEF PktselMode
<1> QED BY <1>1, Invariance, PTL

\* Only in the mixed mode does a strategy that was set up give way to another
\* one (start_fuzzer).
THEOREM OnlyMixedRedraws == Spec => MixedOnly
<1>1. Inv /\ [Next]_pvars =>
        [strategy' # strategy => strategy = "none" \/ asked = "MIXED_PROB"]_pvars
  <2> SUFFICES ASSUME Inv, Next, strategy' # strategy
               PROVE  strategy = "none" \/ asked = "MIXED_PROB"
    OBVIOUS
  <2>1. CASE SetupProbs
    BY <2>1 DEF SetupProbs, Inv, Configured
  <2>2. CASE StartExec
    <3>1. Redraw
      BY <2>2 DEF StartExec
    <3> QED BY <3>1 DEF Redraw, Inv, Underway
  <2>3. CASE ~SetupProbs /\ ~StartExec
    BY <2>3 DEF Next, Recv, Answer, Save, SetMixed, SetupEntry, InitRunFails,
                NextPacket, EndExec
  <2> QED BY <2>1, <2>2, <2>3
<1> QED BY <1>1, Invariance, PTL DEF Spec, MixedOnly
=============================================================================
