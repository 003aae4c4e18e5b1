# Verification of the BlueMan Bluetooth fuzzer

The repository fuzzes Bluetooth Low Energy stacks.  A *target* firmware and an
*attacker* firmware run as native processes on a simulated radio (BabbleSim);
the radio model of the target carries a hook that hands every received packet
to the fuzzer and waits for the packet to go on with, mutated or not.  The
fuzzer starts these processes again for every execution, measures what the
target covered, keeps the packet sequences that reached something new and
reports crashes.

This directory has TLA+ modules for the parts of it in which processes, shared
memory, message queues and files meet, the configurations TLC checks them with,
and proofs that TLAPS checks.  Paths below are relative to `src/`.

## 1. The system

| component | where | state | operations |
|---|---|---|---|
| one execution, `fuzz_one` | `blueman-main/btfuzz.c` | pids, fault, the record of packets | fork phy, target, attacker; clone the interceptor; wait for the target; judge, report, take down, reset the queue; keep the record as a seed |
| interceptor | `btfuzz.c`, `interceptor.c` | its place in the seed, the packet in hand, its alarm | receive, replace and mutate, record, answer; end the execution |
| radio hook | `patch/bsim.patch` | the packet the radio received | send, wait for the answer, write it back, or exit |
| message queue | System V, key 0x878787 | messages of two types | msgsnd, msgrcv, delete, create |
| campaign loop, `start_fuzzer` | `btfuzz.c`, `main.c` | cursor and tail of the walk, counters | collect and load seeds, rounds of ten executions, statistics, timer |
| coverage maps | `coverage.c` | `trace_bits` (shared with the target), `virgin_bits` | clear, `has_new_bits`, count |
| seed queue | `coverage.c`, `utils.c` | circular doubly linked list | add behind the head, walk |
| packet recorder, seed files | `pkt_record.c` | count, room, packets | reset, append, write, map |
| packet selection | `mutator/mutator_full_stack2.c`, `btfuzz.c` | mode, probabilities, index of the coverage delta | set up after the init run, change every 2000 executions, decide |
| mutators | `mutator/*.c` | length and bytes of one packet | field-aware, random, AFL |
| signals and clean-up | `btfuzz.c` | signal table, pids, what is still running | handle, kill, remove queue and memory |
| error reports | `btfuzz.c`, `utils.c` | counters, log files of the devices, report files | save a corpus, copy a log |
| coverage logger, plots | `coverage_logger/` | list of samples | append, write, convert to CSV |
| OTC test thread | `patch/zephyr.patch` | `test_state` | select, read metadata, write, read |
| build, evaluation, AFL patches | scripts, `Dockerfile`, `patch/*_afl.patch` | none | none |

How they interact.  The fuzzer and the interceptor are two processes with one
memory (`CLONE_VM`): the record, the seed being replayed and the counters are
written by one and read by the other without a lock, in an order that only
`kill` and `waitpid` impose.  Hook and interceptor exchange messages through a
queue that outlives the execution and is re-created in two of the five ways an
execution can end.  The target writes the coverage map through shared memory.
Seeds pass from one process to the next one through a directory.

What is hard here, and what has to hold:

* A packet and its answer must stay in step although the target may crash, hang
  or be killed by the interceptor's alarm between any two messages, and although
  messages of an older execution may be in the queue.
* The record must be the packets of *this* execution, in order, when it becomes a
  crash corpus or a seed, although three processes stop at three different times.
* An execution has to end, and to leave no process behind, whatever the firmware
  does.
* The walk over the seeds must survive insertions into the list it walks on.
* `has_new_bits` works on words, skips some, and returns one value for all.
* Seed names must not collide within a process, nor between processes that were
  killed anywhere.  Report names must not collide within a process; between
  processes they do: every process numbers its reports from 0, so a second
  campaign in the same directory writes over the reports of the first.
  `README.md:102` asks for a directory of its own for every test.
* A campaign may end at any instruction, by a signal, a failed fork or its timer,
  and the next one finds what it left: processes, segment, queue.
* A report must show what its own execution printed, although the log files are
  written over and over and never truncated.

## 2. Modules

| module | role |
|---|---|
| `FuzzOne` | one fuzzer over several executions: fuzzer, interceptor, hook, attacker, phy, queue |
| `ExecContract` | what the campaign may rely on about one execution (abstract) |
| `FuzzOneRefinement` | the mapping under which `FuzzOne` implements `ExecContract` |
| `SeedQueue` | the linked list with its pointers, and the walk of `start_fuzzer` |
| `Campaign` | the main loop, coverage maps, seeds on disk, restarts; implements `SeedQueue` |
| `PktSelect` | which packets may be mutated: the coverage delta of the init run, the strategy set up from it, the mixed mode |
| `Mutation` | one packet through hook, seed, mutator and hook: lengths, marks, and where mutators write |
| `HookBuffer` | the bytes of one packet in the radio's buffer, in the message, in the seed, and back; the layers |
| `Shutdown` | how a campaign ends at any point, what it leaves, and the next campaign on the same queue key |
| `OtcTest` | the test thread of the attacker sample `central_otc` against the callbacks |
| `CovLog` | the samples of the coverage logger and their conversion to CSV |
| `Reports` | error reports, log files and their copies over processes; uses `CovLog` as the loop does |
| `FuzzOneProofs` | theorems about `FuzzOne` and `FuzzOneRefinement` |
| `CampaignProofs` | theorems about `SeedQueue` and `Campaign` |
| `PktSelectProofs`, `MutationProofs`, `HookBufferProofs`, `ShutdownProofs`, `OtcTestProofs`, `ReportsProofs` | theorems about the module each is named after |
| `MCFuzzOne`, `MCFuzzOneRefinement`, `MCCampaign`, `MCShutdown`, `MCReports` | instances for TLC |

### FuzzOne and the code

`fpc` is the place of the fuzzer in `collect_init_corpus`, `start_fuzzer` and
`fuzz_one`, `ipc` that of the interceptor in its two `intercept_ble_packet_*`
functions, `tpc` says whether the target runs or waits inside the hook.  `tstat`
and `astat` are what `waitpid` will report of target and attacker, `bsim` whether
the phy runs.  `pktq` and `ackq` are the two message types of the queue (FIFO per
type, as `msgrcv` with a positive type gives them); both share the room
`QueueCap`.  `held` is the message the interceptor has received and not yet
answered.  `corpus` is the seed that is replayed, as a sequence of kinds: a plain
packet, one recorded as mutated, or a record of zeroes (`device_id` 0) as found
past the end of a file that was cut off.  `pkt_rec` is the record.  A message is
its execution, its number in it and its `mutated` flag (0, 1, or 2 for "exit"):
contents do not change what the processes do next.

Every blocking call and every access to memory another process uses is a step of
its own: `msgrcv`, the editing of the packet and its recording, `msgsnd`, the
file's opening and writing, `kill` and `waitpid`.  `SIGKILL` is sent in one step
and takes effect in a later one (`doom`, `Die`).  The alarm is enabled from the
moment the interceptor of a fuzzing execution runs.  The firmware may end between
two packets with any status, at any time, or never; the attacker may fail.

`leftover` and `timeouts` are history: messages in the queue at the fork, and
live targets the alarm has killed.

### SeedQueue, Campaign and the code

`SeedQueue` has `next` and `prev` as the functions from addresses to addresses
they are, `list_add` as its four assignments, and the cursor of `start_fuzzer`.
`order` is history: the entries in the order they were added.  `NewProcess` is a
restart of the program.

`Campaign` EXTENDS it.  An execution is one step here with any trace and either
verdict, since `FuzzOne` has its inside; `has_new_bits` is one step per word, and
queueing a seed and writing its file are two steps, so that a process can be
killed in between.  A map is kept as the sets of bits that are 1 in each byte of
each word.  A seed name is its three numbers.  `mine`, `seen`, `recorded`, `heard`
and `recounted` are history: the trace of the last execution, all bits of the
executions without a crash, the packets recorded, those of the last execution
that had any, and those counted once more for an execution without one.

### PktSelect and the code

`pc` is where the interceptor of the init run, then the fuzzer, stands; each runs
while the other waits.  The configuration is that of `mutator_full_stack2.c` with
probabilities in percent, and `selection_strategy_setup` is two steps when the
interceptor calls it, since `fuzz_one` may kill it in between.  Only the packets
of device 1 are steps: others are answered and change nothing here.  Coverage is
a number that may shrink (the hit counts of `trace_bits` wrap), subtracted
without a sign as the code does (`Delta`).  The property measures with a sign
(`Growth`): where they differ, the code takes a fall for the largest delta.
`covs` and `strategy` are history: the coverage at each packet, and the strategy
last set up to its end.

### Mutation and the code

One packet per execution: `Received` is the first half of the hook, `Replaced` is
`copy_ble_pkt`, then `mutate_pkt` of the mutator the fuzzer was built with, and
`Answered` is the second half of the hook.  A packet is `len`, `mutated` and, for
each call of a primitive, the interval of bytes it writes (`touch`), as offsets in
the packed structure `BLE_pkt`; contents are left out, so that any layer may be
found in any packet.  Widths are those of the code: 255 bytes, lengths in 8 bits
where the code narrows them.  What was recorded may become the seed of the next
executions, under another MAXLEN.  `spoilt` is history: bytes of `len` were
overwritten, which only the ATT and SM mutators do.

### HookBuffer and the code

The same path as in `Mutation`, for the field-aware mutator, with short packets
and what each byte is: `buf` is the radio's buffer, `pkt` the array of the
message.  A byte has a value where the code reads one (the link layer id and the
length in the header, the channel id), else the execution it came from, so that
a byte of the seed, of the packet it replaced and of the hook's stack differ.
`TopLayer` is `get_upper_layer_type_for_zephyr`, which reads the length in the
header after `FieldLength` has drawn another one; `DataLayer` draws among the
mutators of that layer and those below it.  `mutate_havoc` is any of "no byte"
and "every byte of its area".  `received`, `before` and `fresh` are history.

### Shutdown and the code

`at` is the place of the fuzzer from `init_fuzzer` to its end, `child` the process
it forks or kills next; a fork and the assignment of its result are two steps,
because `cleanup_fuzzer_env` goes by the pids it knows.  `pid` is "zero" before
the first execution, where `kill` is given 0.  `disp` is the signal table, which
`ShareHandlers`, the first calls of the interceptor, writes for both.  Everything
indexed by a campaign outlives it: its processes, its segment, the queue id its
interceptor uses and the one its target has looked up.  A message is the campaign
of the target it is about.  What `FuzzOne` has inside an execution (seed, record,
verdict) is left open, and a `SIGKILL` takes effect at once, where `FuzzOne` has
the delay.  `loose` is history: the child that had been forked, but not yet
assigned, when a signal came.

### OtcTest and the code

The thread is `pc` with its loop variable, the callbacks are the five of
`patch/zephyr.patch` that change state.  The OTS client is external: it refuses a
call while a request is under way and answers an accepted one by one callback;
whether it forgets the previous object's properties on a new selection is not
known and left open.  `meta`, `before`, `used`, `failed` and `denied` are history:
whose metadata `props` are, whose they were when the object was selected, on what
they decided in which turn, and, for the turn under way, the two ways in which the
sample itself loses its thread: metadata that could not be read, and an object
that lacks a property.

### CovLog, Reports and the code

`Reports` has `fuzz_one` from its reset of the log files to its reports, once more
with any verdict, and the loop around it with the counters of the process.  A log
is the sequence of its blocks, known by process and execution; a device writes at
its file offset, which is set to 0 for every execution while the file keeps its
length.  `Save` is a report: packets of this execution, and the copy of a log
over whatever a file of that name holds.  A name is a kind and a number; the
signal, the device's exit status and the return values in the real names do not
change which names meet.  `EndExec` takes the sample and tests the timer after
every round with the width of the clock (`ClockLimit`), and the clock may be set
back.  `CovLog` has `AddCoverageEntry`, the saved file, and `json_to_csv` with
`rebuild` beside what a plot is meant to show (`Plot`).  `own`, `out`, `spoken` and
`sampled` are history; `sampled` has every sample of the campaign with its time
as the clock gave it, also those the array had no room for, and a time before the
start as a negative number.

## 3. Runs

| run | instance | question |
|---|---|---|
| `resume` | two seeds, 2 packets, 3 executions, room for 2 messages | the safety of `FuzzOne` from an existing seed directory, complete crash corpora, no stranded target, no deadlock |
| `fresh` | no seed, 2 packets, 3 executions, fairness | the init run and what follows: how it ends, the seed file it saves, that `FuzzOne` implements `ExecContract`, and that an execution that began with an empty queue returns |
| `seeds` | 4 addresses, fairness | list, walk, and every seed's turn |
| `campaign` | 2 words of 2 bytes of 2 bits, 5 traces, 3 executions in each of 2 processes | maps, names, files, counters; implements `SeedQueue` |
| `pktsel` | 3 packets, 3 coverages that grow or fall, 5 executions, every mode | the delta index, and the strategy each packet is decided on by |
| `mutation` | MAXLEN 27, 251, 255, seven lengths and ends of ranges, 3 executions, each mutator | lengths and places written |
| `hookbuf` | MAXLEN 5 and 6, payloads of 0, 3, 6, two link layer and channel ids, 3 executions, both builds | what a replay gives byte for byte, what an unmarked packet is, and how far mutators write |
| `shutdown` | 2 campaigns of 2 and 1 executions, one signal or failing fork | what each way of ending leaves (timer, signal with and without handler, kill of the group), and whom the next campaign meets |
| `otctest` | 3 rounds, 3 objects of any properties, fairness | completions in step, by whose metadata each turn is decided, and what keeps the test from its end |
| `reports` | init run and up to 3 executions, until 2 reports are on disk, a second process, 3 samples for an array of 2, clock modulo 16 with steps back | reports against counters, what a copied log holds, when a campaign ends by its clock, the CSV against all that was sampled |
| `unset`, `attpkt` | as above | violations, see section 6 |

Why these bounds are enough to meet the interesting cases.  Two packets per seed
give a first, a last and a packet in between for the hook, which sends two more
than the seed has; a third execution is needed because a timeout in the first
leaves a message, the second shifts every answer by one, and the third starts
from what a shifted execution leaves.  Room for two messages is the smallest in
which a stale message and a live one fill the queue, so both senders block.
Zeroed records need a seed file that was cut off, which the second seed of
`resume` is.  Four list nodes have two neighbours inside the list.  Two words are
needed for news in a later word only, two bytes for a word with an old and a new
byte, two bits for a byte that only gains a bit; the five traces reach all the
values of `has_new_bits` from both words.  Two processes are needed for a name to
come up twice.  Three packets give a largest growth that is first, in the middle,
last, or tied, and one fall before, after or next to another; three coverages
modulo 8 a delta that wraps; five executions
with a draw every second one put a third strategy on the fields of two others.
For `mutation`, three executions are one that records, one that records again
what it replayed, and one that replays it; 250 to 255 are the lengths with which
a frame no longer fits 8 bits.  For `hookbuf`, a payload of 3 is too short for an
L2CAP header and one of 6 has room for an ATT or SM packet, a seed of MAXLEN 6
under MAXLEN 5 is cut, and with MAXLEN at most 14 what ATT and SM mutators write
stays before the length (they are in `Mutation`); ids 2, 3 and 4, 5 lead to the
layers LL, L2CAP and ATT, from which SM does not differ here. For `shutdown`, a
message can only be left by a timeout in one execution and survive to a signal
in the next, so the first campaign has two; the second campaign needs one
execution to take a message that is not its own; with two faults the state space
leaves what TLC can do in minutes, and a second signal only starts the same
clean-up again. For `otctest`, three objects in three rounds are one before, one
after, and the wrap to the first needs no fourth because every object may have
any properties. For `reports`, a log is longer than what is copied over it once
an earlier execution, or process, printed more; two samples fill the array, the
third is dropped, and a clock of 16 units with steps back passes its width. Once
`MaxReports` reports are on disk executions end well (`Calm`), so that three of
them stay within what TLC can do. Every bound is a CONSTANT, and the theorems hold
for all its values.

Deadlock is checked in `resume` and `seeds`.  The other runs stop at their bound
on executions, rounds or processes, and in `fresh` the program may stop by
itself: the interceptor of the init run has no alarm, so `fuzz_one` waits for it
without end when the target exits before it has sent enough packets.

### Fairness

`FuzzOne` (`FairSpec`): weak fairness of the fuzzer and of the interceptor as
processes the kernel schedules, and of `RecvAck`, since `msgrcv` returns once a
message is there.  None for the firmware: a target may hang, and an attacker need
not do anything.  `FuzzOneReturns` is therefore carried by the alarm.
`SeedQueue` (`FairSpec`): weak fairness of the loop of `start_fuzzer`, which
assumes that rounds end; that they do is `FuzzOneReturns`, under its
hypothesis.
`OtcTest` (`FairSpec`): weak fairness of the thread, because interrupts keep
coming and `k_cpu_idle` returns at each, and of the callbacks, because the
library answers a request it accepted.
`Shutdown` and `Reports` state safety only.

## 4. Proofs

All theorems are proved for every value of the constants that satisfies the named
assumptions: `PktSelectAssumption` (moduli are not zero, coverages are numbers below
half the width of the delta, as MAP_SIZE is),
`MutationAssumption` (MAXLEN is from 5 to 255), `HookBufferAssumption` (MAXLEN is
from 5 to 14), `FuzzOneAssumption` (bounds are
numbers, seeds are no longer than the limit), `SeedQueueAssumption` (the list
head is not an entry), `CampaignAssumption` (finite bytes per word, initial file
numbers smaller than the number of files), `ShutdownAssumption`,
`OtcTestAssumption`, `CovLogAssumption` and `ReportsAssumption` (bounds and moduli
are numbers of the right sign, the timer is in the clock's range) and
`StepsAssumption` (one step of the clock is small against its range, forward and
back).  TLC evaluates them in every run.

* `FuzzOneProofs`, in five parts.  `TypeOK`, with the room of recorder and queue,
  is inductive with what ties `i` to the seed and the length of the record to
  where the interceptor stands.  The ledger (`FlightConserved`, `StaleBounded`)
  says for each place of the fuzzer what of the last execution can still be in
  flight; the alarm is the only step that turns a live message into a stale one.
  Lockstep (`AckForOwnPacket`, `RecordFaithful`): with an empty queue at the fork,
  the one message of the execution is in exactly one place, and the record is the
  messages answered so far; a doomed interceptor may still answer, but only into
  the old queue's successor, as `StaleBounded` accounts.  How an execution ends
  (`CrashCorpusComplete`, `CleanExitCompletes`, `TargetNeverStranded`,
  `InitFileComplete`): only the interceptor's final message makes a target exit
  cleanly, so the state of the target when `waitpid` has reported it says how far
  the interceptor had come; the invariant carries that through the verdict, where
  the interceptor may still be running.  Last, every step of `FuzzOne` is a step of
  `ExecContract` or a stutter.
* `CampaignProofs`, about `SeedQueue`: with the history `order`, "next is the older
  neighbour and prev the newer one" is inductive, and the cursor is at the
  position the number of turns says; `CycleComplete` follows from the step that
  ends a cycle.  About `Campaign`: the loop invariant of `has_new_bits` (its value
  so far is what the definition over the words done says) with the ledger of
  `virgin_bits`; that numbers of seed files stay below their count, so a name never
  collides; that the total of packets is too large by what was counted once more,
  because `packet_count` is always that of the last execution that had a packet;
  that `Campaign` implements `SeedQueue`, by which the theorems of
  `SeedQueue` hold in it.
* `PktSelectProofs`: the properties of `pktsel` and `MixedOnly`, from an invariant that ties
  `max_delta` to the coverages measured so far and the fields of the
  configuration to the strategy that wrote them last.  `DeltaPoint` is about signed
  growth: with coverages below half the modulus the delta of a fall is larger than
  that of any growth, and of two falls the smaller one has the larger delta.
* `MutationProofs`: that a length nobody wrote over fits the radio it was drawn or
  copied for, from which the hook's narrowing and cutting are the identity and a
  replay gives what was recorded; that a length recorded without a mark is the
  one received, or was drawn within 8 bits, since only then the comparison with
  `old_payload_len` leaves it unmarked; and that every primitive stays inside the
  payload, by one lemma per kind of primitive, in the code's integer widths.
* `HookBufferProofs`: the three properties of `hookbuf`, from what each place of the
  mutator leaves equal: the packet and what was received while it is not marked,
  the packet beyond its length and what it was before, and the bytes a seed gives
  and the buffer it was recorded with.
* `ShutdownProofs`: for `TimerLeavesNothing` and `SignalLeftovers` the invariant
  says what may run at each place of the fuzzer: inside an execution exactly the
  children forked so far, inside the clean-up those not yet killed, and of a
  campaign that has ended what its end says.  Most steps only end processes,
  which one lemma serves; the rest are steps of the fuzzer about its own.  For the
  ends without a handler (`Marks`) it also says at which places the segment is
  still there, that a signal has its default action only once the campaign had an
  interceptor, and that the pids are zero only as long as it had no child.  For
  `QueueIsolated` one counts the claim of a campaign: its packets and answers in
  the queue, what its interceptors hold, and the targets about to send.  Only
  a new packet of a running target adds to it; taking, answering and receiving
  move it.  The invariant says which queue the key leads to at each place, that
  ids are not used again, and that the claim of a campaign which has ended stays
  nothing (timer) or one at most (signal).  It is stated with cardinalities of
  sets of positions, so that a step of the queue is one lemma about `Append` and
  one about `Tail`.
* `OtcTestProofs`: `InStep` and `OwnMetadata`, from where the thread, `test_state`
  and the request under way can be together, and whose metadata `props` are there,
  in the turn of this object or of an earlier one.
* `ReportsProofs`: `CountsMatch`, by the cardinality of the names of this process,
  all of which are behind its counters; `LogBeginsOwn`, because up to the file
  offset a log is of the current execution and after it of older ones;
  `SpinsOnlyUnheard`, because a device that printed left a log that is not empty.
  `CsvExact` rests on one invariant (`Sampled`): the array is the first `MaxEntries`
  samples with their times cut to the width of the clock, while the campaign goes
  on all samples are in time, and at its end all but the last one are.  So only the
  last saved sample can be out of order, and it then lies after the last second of
  the CSV.  What is left is about a recursive function, for which the library's
  induction theorems cannot be used.  What the rows should say (`Plot`) solves the
  equation by which `Rebuild` is defined, so there is a solution; and two solutions
  agree, because there is no least second at which they differ (the order of the
  naturals is well-founded).  That `Plot` solves it needs the samples taken in time
  to be in order, which is the property's hypothesis: the clock may be set back
  between them to before the start, which ends the campaign, but not within it.

Proved and not run: the types of `Campaign`, `Shutdown` and `Reports`
(`CampaignTypes`, `ShutdownTypes`, `ReportTypes`) and that the strategy is drawn
again in mixed mode only (`OnlyMixedRedraws`).

Only model-checked: the liveness properties, which the prover does not do
(`FuzzOneReturns`, `EverySeedFuzzed`, `TestEnds`).  The part of them that is about
states is proved, since it needs no fairness: `CyclesComplete`, `TargetsCanEnd` (a
target that is waited for has the interceptor with its alarm still there, or the
answer that ends it is the only message before it; the alarm exists in fuzzing
executions only) and `NoTurnIsLost` (whenever no callback is to
come, the thread of the OTC test can go on, has ended, or stands still at an object
that lacks a property or whose metadata could not be read).  Every safety property of a passing run
is stated by a theorem.

## 5. What is left out, and why

* The queue a campaign starts with: `FuzzOne` starts on an empty one, while
  `create_msg_queue` (`interceptor.c:8`) attaches to whatever there is under the
  fixed key.  `run.sh:233` starts every campaign in a container of its own, whose
  IPC namespace has no queue yet, and `StaleBounded` and `InitFileComplete` rest on
  that.  Two campaigns on one key are the subject of `Shutdown`, and `QueueIsolated`
  says what the second one finds.
* Reports of an earlier process: `CountsMatch` counts the reports of the process
  that runs.  Those of an earlier one in the same directory are written over, as
  section 1 says; of them `LogBeginsOwn` says only that what they leave in a file
  comes behind the log of the report that took their name.
* The size of the array `pkt[]` of a message, 255 bytes: `InPayload` and
  `WritesInPacket` bound every write by the length of the packet the mutator is
  handed, and how long that gets depends on the MAXLEN the firmware sets.
* The before and after of the selective strategies: `StrategyInForce` takes
  `k >= max_delta_index` over from `should_mutate_packet` and judges whether the
  fields of the configuration are those of the last strategy, not whether the
  comparison is the right one (section 6).
* In `Campaign`, an interceptor killed between adding a packet to the record and
  setting `packet_count` (`btfuzz.c:191`, `:192`), which would count one less.
* Bytes: contents beyond those `HookBuffer` tells apart, the layout of seed files,
  the unused seed format 1.
* `HookBuffer` has the field-aware mutator only: the random one keeps header and
  length together and the AFL one takes all bytes alike.  Reads of the array past
  its 255 bytes are left out: how long packets get depends on the MAXLEN the
  firmware sets, which is not in the repository.
* Failing system calls: a failing `fork` is in `Shutdown` and a log that cannot be
  mapped in `Reports`; after the others (`open`, `mmap`, `clone`) the program exits
  or goes on with an invalid value.  Short writes of `my_copy_file_range` are left
  out too.
* In `Reports`, the output of a target that outlived its campaign: `Shutdown` shows
  that there can be one, and it would write into the same log file.
* Paths, output directories, the text of logs and of the statistics on the screen.
* The seven operations of the AFL mutator that `rand() % 8` cannot draw.
* The mesh samples and AFL patches (configuration) and the shell and R scripts.
* BabbleSim, Zephyr and BTstack are not in the repository; what the target does
  between two packets is nondeterministic, and of the OTS client only what the
  sample relies on is modelled.

## 6. Where the code and its words differ

Shown by a run:

* `unset`: "Available Packet selection strategies ... Fixed mutation
  probabilities" (`README.md:93`).  The strategy is set up at the end of the init
  run only: a campaign on an existing seed directory, and one whose first
  interceptor was killed after it saved the seed, runs with FIXED_PROB_10 at
  probability 0 and mutates nothing.
* `pktsel`: "for PktselMode: COVERAGE_DELTA" (`btfuzz.c:115`), "before/after coverage
  delta points" (`README.md:95`).  The delta is unsigned and its `?:` is the
  identity: once the coverage of the init run has fallen, by however little, the
  delta point is where it fell.  `DeltaPoint` states both cases.
* `campaign`: "total_packet_count" (`btfuzz.c:751`).  `packet_count` is not reset, so
  an execution without a packet counts those of an earlier one again
  (`btfuzz.c:732`); `PacketsAccounted` says by how much.
* `otctest`: `test_write_obj` and `test_read_obj` return 0 at an object that lacks
  the property, without a request (`zephyr.patch:199`, `:227`), and the test then
  stands still for good (`TestEnds`).  `on_obj_metadata_read` goes on when it is told
  of an error (`zephyr.patch:354`), and the object is judged by what the client had
  before (`OwnMetadata`).
* `shutdown`: "setup signal handler" (`btfuzz.c:848`).  The interceptor shares the
  signal table and sets SIGTERM and SIGQUIT back to their default action and SIGINT
  to ignored (`btfuzz.c:236`, `ShareHandlers`): from the first execution on SIGTERM
  ends the fuzzer without its clean-up (`ended` is "unhandled"), and SIGINT does
  nothing.  Before the first execution the pids are 0, so `cleanup_fuzzer_env` sends
  SIGKILL to the fuzzer's own process group and ends there, with the segment and the
  queue still there (`ended` is "group").  `SignalLeftovers` says that these two
  happen at those times only, and what they leave.
* `reports`: the evaluation guide says the fuzzer ends after its time
  (`EVALUATON_RQ4.md:69`).  The campaign's time is an unsigned difference of
  `gettimeofday`: a clock set back before the start ends the campaign at the next
  round (`btfuzz.c:743`), and its last sample is later than any plot (`CsvExact`).
* `attpkt`: "mutate att opcode", "mutate att parameters"
  (`mutator_full_stack2.c:74`, `:79`).  The macros get the structure, not the
  packet in it, so what is mutated is `device_id`, `mutated`, the address and the
  length.

Met while modelling, without a run of its own:

* "Payload of packet is modifed or length of packet is changed"
  (`mutator_full_stack2.c:264`).  The old length is taken after `FieldLength` has
  drawn the new one (`:217`), so a change of length alone never marks a packet: the
  record says one length, the target gets another.  `NothingCut` says that such a
  length stays in 8 bits, `ReplayFaithful` that a replay gives the target the same.
* "modify length to valid length" (`patch/bsim.patch:111`).  The length goes to the
  first byte of the header, the second one keeps the length received.  The next
  line copies the packet from its header on to where the payload is, so that the
  target's payload begins with two bytes of header (`WriteBack`).
* `should_mutate_packet` is handed an index counted from 1 and compares it with one
  counted from 0 (`btfuzz.c:185`).
* "Clean fuzzing environment" (`btfuzz.c:558`).  After a timeout the queue is not
  re-created, so the next execution finds the unanswered packet, and from then on
  each answer is one packet late until a crash or an attack error.  `StaleBounded`
  and `FlightConserved` say exactly how much can be left.
* The evaluation guide says the fuzzer ends after its time (`EVALUATON_RQ4.md:69`).
  With a stale message in the queue the interceptor can finish before the target
  does and takes the only alarm with it; a target that then hangs is waited for
  without end.  This is why `FuzzOneReturns` assumes an empty queue.
* "collect first valid initial corpus" (`btfuzz.c:701`).  The result of the init run
  is not looked at.
* Log files are written from the beginning but not truncated, so a report's log
  ends with lines of older executions; `LogBeginsOwn` says which part is its own.
  An empty one cannot be mapped and ends the report in `while(1)`
  (`SpinsOnlyUnheard`).

## 7. Plan

Done: `FuzzOne`, `Campaign`, `PktSelect`, `Mutation`, `HookBuffer`, `Shutdown`,
`OtcTest`, `CovLog` and `Reports`, with their proofs.  What is left:

1. `Reports` composed with `Shutdown`, so that an orphaned target prints into the
   log of the next campaign, and with report names over processes.
2. `HookBuffer` for the random and the AFL mutator.
