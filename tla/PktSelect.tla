------------------------------ MODULE PktSelect ------------------------------
(***************************************************************************)
(* Which packets the field-aware mutator may mutate.  The init run looks   *)
(* for the packet with the largest coverage delta; the interceptor that  *)
(* ran it then sets the selection strategy up, in the memory it shares     *)
(* with the fuzzer, and may be killed while it does so.  In the mixed mode *)
(* start_fuzzer draws another strategy every so many executions.  Built    *)
(* with PKTSEL (blueman-main/Makefile); probabilities are in percent.      *)
(***************************************************************************)
EXTENDS Integers, Sequences

CONSTANTS MaxPkts,     \* MAX_PACKET_COUNT_PER_ITER
          StaleLimit,  \* packets without new coverage that end the init run
          Coverages,   \* what corpus_get_coverage may return
          Modulus,     \* 2^32, of the unsigned delta
          SwitchEvery, \* executions between two draws of the mixed mode
          MaxExecs     \* bound: executions

Fixed == {"FIXED_PROB_10", "FIXED_PROB_25", "FIXED_PROB_50", "FIXED_PROB_75", "FIXED_PROB_100"}
Selective == {"SELECTIVE_25_75", "SELECTIVE_75_25"}
PktselMode == Fixed \cup Selective \cup {"RANDOM_PROB", "MIXED_PROB"}

ASSUME PktSelectAssumption ==
  /\ MaxPkts \in Nat \ {0} /\ StaleLimit \in Nat
  /\ Modulus \in Nat \ {0} /\ SwitchEvery \in Nat \ {0} /\ MaxExecs \in Nat
  /\ Coverages \subseteq Nat
  /\ \A c \in Coverages : 2 * c < Modulus   \* at most MAP_SIZE, 2 << 16

VARIABLES
  pc,                                        \* fuzzer and interceptor, in turn
  asked,                                     \* DEFAULT_PKTSEL_MODE of the build
  count, coverage_count, new_coverage_count, cnt, max_delta,
  max_delta_index, mixed_mode,
  mode, fixed_prob, first_prob, second_prob, entry_index,  \* pkt_selection_config
  total_exec_times, idx,
  covs,                                      \* history: coverage at each packet
  strategy                                   \* history: last one set up, or "none"

config == <<mode, fixed_prob, first_prob, second_prob, entry_index>>
initrun == <<count, coverage_count, new_coverage_count, cnt, max_delta,
             max_delta_index, covs>>
execution == <<total_exec_times, idx>>
pvars == <<pc, asked, initrun, mixed_mode, config, execution, strategy>>

Init ==
  /\ asked \in PktselMode
  /\ pc \in {"recv", "fuzz"}   \* "fuzz": there were seeds, no init run
  /\ count = 0 /\ coverage_count = 0 /\ new_coverage_count = 0 /\ cnt = 0
  /\ max_delta = 0 /\ max_delta_index = 0 /\ covs = << >>
  /\ mixed_mode = FALSE
  /\ mode = "FIXED_PROB_10" /\ fixed_prob = 0 /\ first_prob = 0 /\ second_prob = 0
  /\ entry_index = 0           \* static, so all zero
  /\ total_exec_times = 0 /\ idx = 0 /\ strategy = "none"

-----------------------------------------------------------------------------
(* intercept_ble_packet_for_init_corpus *)

\* uint32_t: a coverage that shrinks makes a huge delta
Delta(new, old) == (new - old) % Modulus

DeltaIndex_bad == count'       \* the count after the packet was added
DeltaIndex == count' - 1

Recv ==
  /\ pc = "recv" /\ pc' = "answer"
  /\ count' = count + 1
  /\ new_coverage_count' \in Coverages /\ covs' = Append(covs, new_coverage_count')
  /\ LET delta == Delta(new_coverage_count', coverage_count)
     IN IF delta > max_delta
          THEN max_delta' = delta /\ max_delta_index' = DeltaIndex
          ELSE UNCHANGED <<max_delta, max_delta_index>>
  /\ UNCHANGED <<asked, coverage_count, cnt, mixed_mode, config, execution, strategy>>

\* The answer is sent; the run ends with enough packets or too few news.
Answer ==
  LET full == MaxPkts <= count
      stale == new_coverage_count <= coverage_count
  IN /\ pc = "answer"
     /\ cnt' = IF ~full /\ stale THEN cnt + 1 ELSE cnt
     /\ IF full \/ (stale /\ cnt' > StaleLimit)
          THEN pc' = "save" /\ UNCHANGED coverage_count
          ELSE pc' = "recv" /\ coverage_count' = new_coverage_count
     /\ UNCHANGED <<asked, count, new_coverage_count, max_delta, max_delta_index,
                    covs, mixed_mode, config, execution, strategy>>

\* The last packet, and the seed file.
Save ==
  /\ pc = "save" /\ pc' = "mixed"
  /\ UNCHANGED <<asked, initrun, mixed_mode, config, execution, strategy>>

SetMixed ==
  /\ pc = "mixed" /\ pc' = "entry"
  /\ mixed_mode' = (asked = "MIXED_PROB")
  /\ UNCHANGED <<asked, initrun, config, execution, strategy>>

-----------------------------------------------------------------------------
(* selection_strategy_setup *)

SetEntry(m, index) == mode' = m /\ entry_index' = index

SetProbs(m) ==
  /\ fixed_prob' = CASE m = "FIXED_PROB_10" -> 10
                     [] m = "FIXED_PROB_25" -> 25
                     [] m = "FIXED_PROB_50" -> 50
                     [] m = "FIXED_PROB_75" -> 75
                     [] m = "FIXED_PROB_100" -> 100
                     [] OTHER -> fixed_prob
  /\ first_prob' = CASE m = "SELECTIVE_25_75" -> 25
                     [] m = "SELECTIVE_75_25" -> 75
                     [] OTHER -> first_prob
  /\ second_prob' = CASE m = "SELECTIVE_25_75" -> 75
                      [] m = "SELECTIVE_75_25" -> 25
                      [] OTHER -> second_prob

\* called by the interceptor, which can be killed in between
SetupEntry ==
  /\ pc = "entry" /\ pc' = "probs"
  /\ SetEntry(asked, max_delta_index)
  /\ UNCHANGED <<asked, initrun, mixed_mode, fixed_prob, first_prob, second_prob,
                 execution, strategy>>

SetupProbs ==
  /\ pc = "probs" /\ pc' = "fuzz"
  /\ SetProbs(mode) /\ strategy' = mode
  /\ UNCHANGED <<asked, initrun, mixed_mode, mode, entry_index, execution>>

\* fuzz_one(1) kills the interceptor after an attack error or a crash; without a
\* seed file the fuzzer then ends, with one it goes on.
InitRunFails ==
  /\ pc \in {"recv", "answer", "save", "mixed", "entry", "probs"}
  /\ pc' \in {"aborted", "fuzz"}
  /\ pc \in {"recv", "answer"} => pc' = "aborted"
  /\ pc \in {"mixed", "entry", "probs"} => pc' = "fuzz"
  /\ UNCHANGED <<asked, initrun, mixed_mode, config, execution, strategy>>

-----------------------------------------------------------------------------
(* start_fuzzer and intercept_ble_packet_for_fuzz *)

Drawn == PktselMode \ {"MIXED_PROB"}   \* rand() % 8

Redraw == mixed_mode /\ total_exec_times' % SwitchEvery = 0

DrawStrategy_bad(m) ==                 \* the other index btfuzz.c declares
  SetEntry(m, 0) /\ SetProbs(m) /\ strategy' = m

DrawStrategy(m) ==
  SetEntry(m, max_delta_index) /\ SetProbs(m) /\ strategy' = m

StartExec ==
  /\ pc = "fuzz" /\ total_exec_times < MaxExecs
  /\ total_exec_times' = total_exec_times + 1 /\ idx' = 0
  /\ pc' = "packet"
  /\ IF Redraw THEN \E m \in Drawn : DrawStrategy(m)
               ELSE UNCHANGED <<config, strategy>>
  /\ UNCHANGED <<asked, initrun, mixed_mode>>

\* the next packet of the seed: i++, then mutate_pkt(.., i)
NextPacket ==
  /\ pc = "packet" /\ idx < MaxPkts
  /\ idx' = idx + 1
  /\ UNCHANGED <<pc, asked, initrun, mixed_mode, config, total_exec_times, strategy>>

EndExec ==
  /\ pc = "packet" /\ pc' = "fuzz"
  /\ UNCHANGED <<asked, initrun, mixed_mode, config, execution, strategy>>

\* should_mutate_packet: the probabilities it may compare its random number with
Probs(k) ==
  CASE mode \in Fixed -> {fixed_prob}
    [] mode = "RANDOM_PROB" -> 10..100
    [] mode \in Selective -> {IF k >= entry_index THEN first_prob ELSE second_prob}
    [] OTHER -> {50}

Next ==
  \/ Recv \/ Answer \/ Save \/ SetMixed \/ SetupEntry \/ SetupProbs \/ InitRunFails
  \/ StartExec \/ NextPacket \/ EndExec

Spec == Init /\ [][Next]_pvars

-----------------------------------------------------------------------------
(* Properties *)

\* What the k-th packet of c really brought: negative where the coverage shrank.
Growth(c, k) == c[k] - (IF k = 1 THEN 0 ELSE c[k - 1])

Fell(c) == {k \in 1..Len(c) : Growth(c, k) < 0}

\* README.md:95, "coverage delta points": while the coverage of the init run has
\* never shrunk, the index the strategy is set up with is that of the first
\* packet before which it grew most, if it grew at all.  Once it has shrunk,
\* however little and however much it grew elsewhere, the unsigned delta has
\* made the index that of a packet before which the coverage FELL, the first of
\* the smallest falls: the ?: of btfuzz.c:116 does not clamp it to 0.
DeltaPoint ==
  IF Fell(covs) = {}
    THEN /\ \A k \in 1..count : Growth(covs, k) <= max_delta
         /\ \A k \in 1..max_delta_index : Growth(covs, k) < max_delta
         /\ max_delta > 0 => /\ max_delta_index < count
                             /\ Growth(covs, max_delta_index + 1) = max_delta
    ELSE LET found == max_delta_index + 1
         IN /\ found \in Fell(covs)
            /\ \A k \in Fell(covs) : /\ Growth(covs, k) <= Growth(covs, found)
                                     /\ k < found => Growth(covs, k) < Growth(covs, found)

\* What a strategy stands for, by its name and the coverage delta.
Promised(m, k) ==
  CASE m = "FIXED_PROB_10" -> {10}
    [] m = "FIXED_PROB_25" -> {25}
    [] m \in {"FIXED_PROB_50", "MIXED_PROB"} -> {50}
    [] m = "FIXED_PROB_75" -> {75}
    [] m = "FIXED_PROB_100" -> {100}
    [] m = "SELECTIVE_25_75" -> IF k >= max_delta_index THEN {25} ELSE {75}
    [] m = "SELECTIVE_75_25" -> IF k >= max_delta_index THEN {75} ELSE {25}
    [] m = "RANDOM_PROB" -> 10..100

\* Once a strategy was set up, every packet of every execution is decided on by
\* it, whatever an earlier strategy has left in the fields of the configuration,
\* and the mixed mode stays on the delta of the init run.
StrategyInForce ==
  pc = "packet" /\ strategy # "none" => Probs(idx) = Promised(strategy, idx)

\* The mixed mode is the one way to another strategy than the one asked for.
MixedOnly ==
  [][strategy' # strategy => strategy = "none" \/ asked = "MIXED_PROB"]_pvars

-----------------------------------------------------------------------------
\* README.md:92 and 93, "Available Packet selection strategies", "Fixed mutation
\* probabilities": outside the mixed mode the one asked for is in force.
AskedInForce ==
  pc = "packet" /\ asked # "MIXED_PROB" => Probs(idx) = Promised(asked, idx)
=============================================================================
