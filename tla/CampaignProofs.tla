---------------------------- MODULE CampaignProofs ----------------------------
(***************************************************************************)
(* Theorems about the seed queue and the campaign, for maps, rounds and    *)
(* directories of any size: the list is linked in both directions through  *)
(* the seeds in the order they were added, the walk over it never leaves   *)
(* it and ends when every seed known at its start was taken; the campaign  *)
(* works the queue as SeedQueue says, its coverage map and the value of    *)
(* has_new_bits are those of the executions that counted, and no seed file *)
(* is ever written over.                                                   *)
(***************************************************************************)
EXTENDS Campaign, SequenceTheorems, FiniteSetTheorems, TLAPS

-----------------------------------------------------------------------------
(* The list and the walk *)

\* Append leaves what is there alone and puts the new element last.
LEMMA Appended ==
  ASSUME NEW S, NEW s \in Seq(S), NEW e \in S
  PROVE  /\ Append(s, e) \in Seq(S)
         /\ Len(Append(s, e)) = Len(s) + 1
         /\ \A k \in 1..Len(s) : Append(s, e)[k] = s[k]
         /\ Append(s, e)[Len(s) + 1] = e
         /\ Append(s, e) # << >>
OBVIOUS

\* A sequence is empty exactly when its length is zero.
LEMMA NoSeeds ==
  ASSUME NEW S, NEW s \in Seq(S)
  PROVE  Len(s) \in Nat /\ (s = << >> <=> Len(s) = 0)
OBVIOUS

LEMMA TypeInit == Init => TypeOK
BY DEF Init, ListHead, TypeOK, Node

LEMMA TypeStep == TypeOK /\ [Next]_qvars => TypeOK'
<1> SUFFICES ASSUME TypeOK, [Next]_qvars PROVE TypeOK'
  OBVIOUS
<1>1. ASSUME NEW e \in Entry, AddToQueue(e) PROVE TypeOK'
  <2>1. order' \in Seq(Entry)
    BY <1>1, Appended DEF AddToQueue, TypeOK
  <2>2. next' \in [Node -> Node] /\ prev' \in [Node -> Node]
    BY <1>1 DEF AddToQueue, ListAdd, TypeOK, Node
  <2> QED BY <1>1, <2>1, <2>2 DEF AddToQueue, cursor, TypeOK
<1>2. CASE Loaded
  BY <1>2 DEF Loaded, list, TypeOK
<1>3. CASE BeginCycle
  <2>1. Len(order) \in Nat
    BY NoSeeds DEF TypeOK
  <2> QED BY <1>3, <2>1 DEF BeginCycle, QueueHead, QueueTail, list, TypeOK, Node
<1>4. CASE NextSeed
  BY <1>4 DEF NextSeed, QueueNext, list, TypeOK, Node
<1>5. CASE NewProcess
  BY <1>5 DEF NewProcess, TypeOK, Node
<1>6. CASE UNCHANGED qvars
  BY <1>6 DEF qvars, list, cursor, TypeOK
<1> QED BY <1>1, <1>2, <1>3, <1>4, <1>5, <1>6 DEF Next

-----------------------------------------------------------------------------
(* The links *)

LEMMA LinkedEmpty ==
  ASSUME next = [n \in Node |-> n], prev = [n \in Node |-> n], order = << >>
  PROVE  Linked
<1>1. Len(order) = 0 /\ 1..Len(order) = {}
  OBVIOUS
<1>2. next[queue] = queue /\ prev[queue] = queue
  BY DEF Node
<1> QED BY <1>1, <1>2 DEF Linked, NoneTwice, NextRight, PrevRight, Newer

\* list_add at the head of the queue keeps both directions of the list whole.
LEMMA LinkedAdd ==
  ASSUME TypeOK, Linked, NEW e \in Entry, AddToQueue(e)
  PROVE  Linked'
<1> DEFINE n == Len(order)
<1>1. /\ n \in Nat /\ (order = << >> <=> n = 0)
      /\ order' # << >> /\ Len(order') = n + 1
      /\ \A k \in 1..n : order'[k] = order[k]
      /\ order'[n + 1] = e
  BY Appended, NoSeeds DEF AddToQueue, TypeOK
<1>2. \A k \in 1..n : order[k] \in Entry /\ order[k] # e
  BY ElementOfSeq DEF AddToQueue, IsListed, TypeOK
<1>3. queue \notin Entry /\ e # queue
  BY SeedQueueAssumption
<1>4. \A x \in Node : next'[x] = IF x = queue THEN e
                                 ELSE IF x = e THEN next[queue] ELSE next[x]
  BY <1>3 DEF AddToQueue, ListAdd, TypeOK, Node
<1>5. next[queue] \in Node /\ next[queue] # e
  BY <1>1, <1>2, <1>3 DEF Linked, NextRight, TypeOK, Node
<1>6. \A x \in Node : prev'[x] = IF x = e THEN queue
                                 ELSE IF x = next[queue] THEN e ELSE prev[x]
  BY <1>5 DEF AddToQueue, ListAdd, TypeOK, Node
<1> HIDE DEF n
<1>7. NoneTwice'
  <2> SUFFICES ASSUME NEW j \in 1..(n + 1), NEW k \in 1..(n + 1), order'[j] = order'[k]
               PROVE  j = k
    BY <1>1 DEF NoneTwice
  <2>1. CASE j \in 1..n /\ k \in 1..n
    BY <2>1, <1>1 DEF Linked, NoneTwice, n
  <2>2. CASE j = n + 1 \/ k = n + 1
    BY <2>2, <1>1, <1>2
  <2> QED BY <2>1, <2>2, <1>1
<1>8. NextRight'
  <2>1. next'[queue] = order'[n + 1]
    BY <1>1, <1>4 DEF Node
  <2>2. ASSUME NEW k \in 1..(n + 1) PROVE next'[order'[k]] = Older(k)'
    <3>1. CASE k = n + 1
      <4>1. next'[e] = next[queue]
        BY <1>3, <1>4 DEF Node
      <4>2. next[queue] = IF n = 0 THEN queue ELSE order[n]
        BY <1>1 DEF Linked, NextRight, n
      <4>3. n # 0 => order'[k - 1] = order[n]
        BY <3>1, <1>1
      <4> QED BY <3>1, <4>1, <4>2, <4>3, <1>1 DEF Older
    <3>2. CASE k \in 1..n
      <4>1. next'[order'[k]] = next[order[k]]
        BY <3>2, <1>1, <1>2, <1>3, <1>4 DEF Node
      <4>2. next[order[k]] = Older(k)
        BY <3>2 DEF Linked, NextRight, n
      <4>3. k # 1 => order'[k - 1] = order[k - 1]
        BY <3>2, <1>1
      <4> QED BY <4>1, <4>2, <4>3 DEF Older
    <3> QED BY <3>1, <3>2, <1>1
  <2> QED BY <2>1, <2>2, <1>1 DEF NextRight
<1>9. PrevRight'
  <2>1. Newer(0)' = order'[1] /\ order'[1] = IF n = 0 THEN e ELSE order[1]
    BY <1>1 DEF Newer
  <2>2. prev'[queue] = IF n = 0 THEN e ELSE order[1]
    <3>1. CASE n = 0
      <4>1. next[queue] = queue
        BY <3>1, <1>1 DEF Linked, NextRight
      <4> QED BY <4>1, <3>1, <1>3, <1>6 DEF Node
    <3>2. CASE n # 0
      <4>1. next[queue] # queue
        BY <3>2, <1>1, <1>2, <1>3 DEF Linked, NextRight, n
      <4>2. prev[queue] = order[1]
        BY <3>2, <1>1 DEF Linked, PrevRight, Newer, n
      <4> QED BY <4>1, <4>2, <3>2, <1>3, <1>6 DEF Node
    <3> QED BY <3>1, <3>2
  <2>3. ASSUME NEW k \in 1..(n + 1) PROVE prev'[order'[k]] = Newer(k)'
    <3>1. CASE k = n + 1
      BY <3>1, <1>1, <1>6 DEF Newer, Node
    <3>2. CASE k = n /\ n # 0
      <4>1. next[queue] = order[n]
        BY <3>2, <1>1 DEF Linked, NextRight, n
      <4>2. prev'[order[n]] = e
        BY <4>1, <3>2, <1>1, <1>2, <1>6 DEF Node
      <4> QED BY <4>2, <3>2, <1>1 DEF Newer
    <3>3. CASE k \in 1..(n - 1)
      <4>1. order[k] # order[n] /\ next[queue] = order[n]
        BY <3>3, <1>1 DEF Linked, NoneTwice, NextRight, n
      <4>2. prev'[order[k]] = prev[order[k]]
        BY <4>1, <3>3, <1>1, <1>2, <1>6 DEF Node
      <4>3. prev[order[k]] = order[k + 1]
        BY <3>3, <1>1 DEF Linked, PrevRight, Newer, n
      <4> QED BY <4>2, <4>3, <3>3, <1>1 DEF Newer
    <3> QED BY <3>1, <3>2, <3>3, <1>1
  <2> QED BY <2>1, <2>2, <2>3, <1>1 DEF PrevRight
<1> QED BY <1>7, <1>8, <1>9 DEF Linked

\* The links depend on the list alone.
LEMMA LinkedFrame ==
  ASSUME Linked, UNCHANGED list PROVE Linked'
BY DEF Linked, list, NoneTwice, NextRight, PrevRight, Older, Newer

LEMMA LinkedStep == TypeOK /\ Linked /\ [Next]_qvars => Linked'
<1> SUFFICES ASSUME TypeOK, Linked, [Next]_qvars PROVE Linked'
  OBVIOUS
<1>1. ASSUME NEW e \in Entry, AddToQueue(e) PROVE Linked'
  BY <1>1, LinkedAdd
<1>2. CASE NewProcess
  <2>1. next' = [m \in Node |-> m] /\ prev' = [m \in Node |-> m] /\ order' = << >>
    BY <1>2 DEF NewProcess
  <2>2. Len(order') = 0 /\ 1..Len(order') = {}
    BY <2>1
  <2>3. next'[queue] = queue /\ prev'[queue] = queue
    BY <2>1 DEF Node
  <2> QED BY <2>1, <2>2, <2>3 DEF Linked, NoneTwice, NextRight, PrevRight, Newer
<1>3. CASE Loaded \/ BeginCycle \/ NextSeed \/ UNCHANGED qvars
  <2>1. UNCHANGED list
    BY <1>3 DEF Loaded, BeginCycle, NextSeed, qvars
  <2> QED BY <2>1, LinkedFrame
<1> QED BY <1>1, <1>2, <1>3 DEF Next

-----------------------------------------------------------------------------
(* The walk *)

LEMMA WalkStep == TypeOK /\ Linked /\ OnTheWalk /\ [Next]_qvars => OnTheWalk'
<1> SUFFICES ASSUME TypeOK, Linked, OnTheWalk, [Next]_qvars PROVE OnTheWalk'
  OBVIOUS
<1>0. Len(order) \in Nat /\ (order = << >> <=> Len(order) = 0)
  BY NoSeeds DEF TypeOK
<1>1. ASSUME NEW e \in Entry, AddToQueue(e) PROVE OnTheWalk'
  <2>1. Len(order') = Len(order) + 1 /\ \A k \in 1..Len(order) : order'[k] = order[k]
    BY <1>1, Appended DEF AddToQueue, TypeOK
  <2>2. UNCHANGED <<queue_cur, queue_tail, walk, begun, turns>>
    BY <1>1 DEF AddToQueue, cursor
  <2>3. CASE walk = "round"
    <3>1. begun + 1 - turns \in 1..Len(order) /\ 1 \in 1..Len(order)
      BY <2>3, <1>0 DEF OnTheWalk, TypeOK
    <3> QED BY <2>1, <2>2, <2>3, <3>1, <1>0 DEF OnTheWalk, TypeOK
  <2> QED BY <2>2, <2>3 DEF OnTheWalk
<1>2. CASE BeginCycle
  <2>1. CASE next[queue] = queue
    BY <1>2, <2>1 DEF BeginCycle, QueueHead, OnTheWalk
  <2>2. CASE next[queue] # queue
    <3>1. Len(order) # 0 /\ next[queue] = order[Len(order)]
      BY <2>2, <1>0 DEF Linked, NextRight
    <3>2. prev[queue] = order[1]
      BY <3>1, <1>0 DEF Linked, PrevRight, Newer
    <3> QED BY <1>2, <3>1, <3>2, <1>0
            DEF BeginCycle, QueueHead, QueueTail, list, OnTheWalk
  <2> QED BY <2>1, <2>2
<1>3. CASE NextSeed
  <2>1. CASE AtTail
    BY <1>3, <2>1 DEF NextSeed, OnTheWalk
  <2>2. CASE ~AtTail
    <3>1. /\ walk = "round" /\ UNCHANGED <<list, queue_tail, begun, walk>>
          /\ queue_cur' = next[queue_cur] /\ turns' = turns + 1
      BY <1>3, <2>2 DEF NextSeed, QueueNext
    <3>2. turns < begun
      <4> SUFFICES ASSUME turns = begun PROVE FALSE
        BY <3>1 DEF OnTheWalk, TypeOK
      <4>1. begun + 1 - turns = 1
        BY DEF TypeOK
      <4> QED BY <4>1, <3>1, <2>2 DEF OnTheWalk, AtTail
    <3>3. /\ begun + 1 - turns \in 2..Len(order)
          /\ (begun + 1 - turns) - 1 = begun + 1 - (turns + 1)
      BY <3>1, <3>2, <1>0 DEF OnTheWalk, TypeOK
    <3>4. next[order[begun + 1 - turns]] = order[begun + 1 - (turns + 1)]
      BY <3>3 DEF Linked, NextRight, Older
    <3> QED BY <3>1, <3>2, <3>4, <1>0 DEF OnTheWalk, TypeOK, list
  <2> QED BY <2>1, <2>2
<1>4. CASE Loaded \/ NewProcess
  BY <1>4 DEF Loaded, NewProcess, OnTheWalk
<1>5. CASE UNCHANGED qvars
  BY <1>5 DEF qvars, list, cursor, OnTheWalk
<1> QED BY <1>1, <1>2, <1>3, <1>4, <1>5 DEF Next

\* A walk that ends has reached the oldest seed, and taken every newer one.
LEMMA WalkEnds ==
  TypeOK /\ Linked /\ OnTheWalk /\ [Next]_qvars =>
    (walk = "round" /\ walk' = "cycle" => turns = begun)
<1> SUFFICES ASSUME TypeOK, Linked, OnTheWalk, [Next]_qvars, walk = "round", walk' = "cycle"
             PROVE  turns = begun
  OBVIOUS
<1>1. NextSeed /\ AtTail
  BY DEF Next, AddToQueue, cursor, Loaded, BeginCycle, NextSeed, NewProcess, qvars
<1>2. /\ turns \in 1..begun /\ begun \in Nat /\ begun <= Len(order) /\ Len(order) \in Nat
      /\ order[begun + 1 - turns] = order[1]
  BY <1>1, NoSeeds DEF OnTheWalk, AtTail, TypeOK
<1>3. begun + 1 - turns = 1
  <2>1. begun + 1 - turns \in 1..Len(order) /\ 1 \in 1..Len(order)
    BY <1>2
  <2> QED BY <2>1, <1>2 DEF Linked, NoneTwice
<1> QED BY <1>2, <1>3

-----------------------------------------------------------------------------
\* The variables keep their types.
THEOREM TypeCorrect == Spec => []TypeOK
BY TypeInit, TypeStep, PTL DEF Spec

\* add_to_queue keeps the list whole: for any number of seeds both directions
\* lead through all of them, newest first (utils.c:30).
THEOREM ListWhole == Spec => []Linked
<1>1. Init => Linked
  BY LinkedEmpty DEF Init, ListHead
<1> QED BY <1>1, TypeCorrect, LinkedStep, PTL DEF Spec

\* start_fuzzer's cursor is on the list, at the place its history says
\* (btfuzz.c:707, 776).
THEOREM WalkOnList == Spec => []OnTheWalk
<1>1. Init => OnTheWalk
  BY DEF Init, OnTheWalk
<1> QED BY <1>1, TypeCorrect, ListWhole, WalkStep, PTL DEF Spec

\* Every cycle takes all the seeds known at its start (btfuzz.c:775).
THEOREM CyclesComplete == Spec => CycleComplete
<1>1. TypeOK /\ Linked /\ OnTheWalk /\ [Next]_qvars =>
        [walk = "round" /\ walk' = "cycle" => turns = begun]_qvars
  BY WalkEnds
<1> QED BY <1>1, TypeCorrect, ListWhole, WalkOnList, PTL DEF Spec, CycleComplete

-----------------------------------------------------------------------------
(* The queue *)

\* Where start_fuzzer stands determines what it may do to the queue.
Place ==
  /\ at \in {"collect", "load"} => walk = "load"
  /\ at = "cycle" => walk = "cycle"
  /\ at \in {"exec", "scan", "save", "account", "rounded"} => walk = "round"

LEMMA MallocIsEntry == Malloc \subseteq Entry
BY DEF Malloc

LEMMA AddPathIsAdd ==
  ASSUME walk \in {"load", "round"}, NEW e \in Malloc, NEW f, AddPath(e, f)
  PROVE  /\ \E x \in Entry : AddToQueue(x)
         /\ [Next]_qvars /\ UNCHANGED walk
BY MallocIsEntry DEF AddPath, AddToQueue, Next, cursor

LEMMA QueueStep ==
  Place /\ [CampaignNext]_campaign => [Next]_qvars /\ Place'
<1> SUFFICES ASSUME Place, [CampaignNext]_campaign PROVE [Next]_qvars /\ Place'
  OBVIOUS
<1>1. CASE CollectInitCorpus
  BY <1>1 DEF CollectInitCorpus, Place, qvars, cursor
<1>2. CASE LoadCorpus
  BY <1>2, AddPathIsAdd DEF LoadCorpus, Place
<1>3. CASE EndLoad
  BY <1>3 DEF EndLoad, Loaded, Place, Next
<1>4. CASE StartCycle
  BY <1>4 DEF StartCycle, BeginCycle, Place, Next
<1>5. CASE RunOne
  BY <1>5 DEF RunOne, Place, qvars, cursor
<1>6. CASE ScanWord \/ NotInteresting \/ SaveSeed \/ Account \/ TimerExit
  <2>1. UNCHANGED qvars
    BY <1>6 DEF ScanWord, NotInteresting, SaveSeed, Account, TimerExit
  <2>2. UNCHANGED walk
    BY <2>1 DEF qvars, cursor
  <2>3. at \in {"scan", "save", "account", "rounded"}
    BY <1>6 DEF ScanWord, NotInteresting, SaveSeed, Account, TimerExit
  <2>4. at' \in {"scan", "account", "rounded", "exec", "exited"}
    BY <1>6 DEF ScanWord, NotInteresting, SaveSeed, Account, TimerExit
  <2> QED BY <2>1, <2>2, <2>3, <2>4 DEF Place
<1>7. CASE KeepSeed
  BY <1>7, AddPathIsAdd DEF KeepSeed, Place
<1>8. CASE NextRound
  BY <1>8 DEF NextRound, NextSeed, Place, Next
<1>9. CASE Restart
  BY <1>9 DEF Restart, NewProcess, Place, Next
<1>10. CASE UNCHANGED campaign
  BY <1>10 DEF campaign, qvars, cursor, Place
<1> QED BY <1>1, <1>2, <1>3, <1>4, <1>5, <1>6, <1>7, <1>8, <1>9, <1>10 DEF CampaignNext

LEMMA PlaceInit == CampaignInit => Init /\ Place
BY DEF CampaignInit, Init, Place

\* The main loop uses the queue as SeedQueue says (btfuzz.c:706 to 778).
THEOREM CampaignKeepsQueue == CampaignSpec => QueueKept
BY PlaceInit, QueueStep, PTL DEF CampaignSpec, Spec, QueueKept

\* So in a campaign, too, the list is whole and the cursor on it.
THEOREM CampaignQueue == CampaignSpec => [](TypeOK /\ Linked /\ OnTheWalk /\ Place)
BY CampaignKeepsQueue, TypeCorrect, ListWhole, WalkOnList, PlaceInit, QueueStep, PTL
   DEF CampaignSpec, QueueKept

-----------------------------------------------------------------------------
(* The coverage maps *)

MapTypes ==
  /\ at \in {"collect", "load", "cycle", "exec", "scan", "save", "account",
             "rounded", "exited", "aborted"}
  /\ trace_bits \in Map /\ virgin_bits \in Map /\ mine \in Map /\ seen \in Map
  /\ w \in 1..(NWords + 1) /\ ret \in 0..2
  /\ fault_count \in {0, 1}

\* Between the return of an execution and the end of its turn nothing touches
\* its trace, and its maps are merged unless it crashed.
TurnShape ==
  /\ at \in {"scan", "save", "account"} => trace_bits = mine
  /\ at \in {"scan", "save"} => fault_count = 0
  /\ at \in {"save", "account"} /\ fault_count = 0 => w = NWords + 1

HitsNewByte(v) == \E l \in Lane : mine[v][l] # {} /\ seen[v][l] = {}
AddsNothing(v) == \A l \in Lane : mine[v][l] \subseteq seen[v][l]

\* The loop invariant of has_new_bits.
RetSoFar ==
  at \in {"scan", "save", "account"} /\ fault_count = 0 =>
    /\ ret = 2 <=> \E v \in 1..(w - 1) : HitsNewByte(v)
    /\ ret = 0 <=> \A v \in 1..(w - 1) : AddsNothing(v)

CoverInv == MapTypes /\ TurnShape /\ RetSoFar /\ VirginLedger

LEMMA SizeTypes == NWords \in Nat \ {0} /\ Traces \subseteq Map /\ Bit # {}
BY CampaignAssumption

LEMMA MapTyped ==
  ASSUME NEW m \in Map, NEW v \in Words, NEW l \in Lane
  PROVE  m[v] \in [Lane -> SUBSET Bit] /\ m[v][l] \subseteq Bit
BY DEF Map

\* A map is given by its bytes.
LEMMA SameMap ==
  ASSUME NEW m \in Map, NEW n \in Map,
         \A v \in Words, l \in Lane : m[v][l] = n[v][l]
  PROVE  m = n
<1>1. ASSUME NEW v \in Words PROVE m[v] = n[v]
  BY DEF Map
<1> QED BY <1>1 DEF Map

LEMMA PlusMap ==
  ASSUME NEW m \in Map, NEW n \in Map
  PROVE  /\ Plus(m, n) \in Map
         /\ \A v \in Words, l \in Lane : Plus(m, n)[v][l] = m[v][l] \cup n[v][l]
<1>1. \A v \in Words : [l \in Lane |-> m[v][l] \cup n[v][l]] \in [Lane -> SUBSET Bit]
  BY MapTyped
<1> QED BY <1>1 DEF Plus, Map

LEMMA ConstantMaps == NoBits \in Map /\ AllBits \in Map
BY DEF NoBits, AllBits, Map

LEMMA FreshTrace ==
  ASSUME NEW t \in Map PROVE Plus(NoBits, t) = t
<1>1. \A v \in Words, l \in Lane : NoBits[v][l] = {}
  BY DEF NoBits
<1> DEFINE m == Plus(NoBits, t)
<1>2. m \in Map
  BY PlusMap, ConstantMaps
<1>3. ASSUME NEW v \in Words, NEW l \in Lane PROVE m[v][l] = t[v][l]
  <2>1. m[v][l] = NoBits[v][l] \cup t[v][l]
    BY PlusMap, ConstantMaps
  <2>2. NoBits[v][l] = {}
    BY <1>1
  <2> QED BY <2>1, <2>2
<1>4. m = t
  <2> HIDE DEF m
  <2> QED BY <1>2, <1>3, SameMap
<1> QED BY <1>4

\* What has_new_bits sees in a word is what the word adds.
LEMMA WordSeen ==
  ASSUME MapTypes, TurnShape, VirginLedger, at = "scan", w <= NWords
  PROVE  /\ w \in Words
         /\ AnyNew(trace_bits[w], virgin_bits[w]) <=> ~AddsNothing(w)
         /\ NewByte(trace_bits[w], virgin_bits[w]) <=> HitsNewByte(w)
         /\ HitsNewByte(w) => ~AddsNothing(w)
<1>1. w \in Words
  BY SizeTypes DEF MapTypes, Words
<1>2. ~Merged(w)
  BY <1>1 DEF Merged, Words
<1>3. \A l \in Lane : /\ virgin_bits[w][l] = Bit \ seen[w][l]
                      /\ trace_bits[w][l] = mine[w][l]
                      /\ mine[w][l] \subseteq Bit /\ seen[w][l] \subseteq Bit
  BY <1>1, <1>2, MapTyped DEF VirginLedger, TurnShape, MapTypes
<1>4. AnyNew(trace_bits[w], virgin_bits[w]) <=> ~AddsNothing(w)
  BY <1>3 DEF AnyNew, AddsNothing
<1>5. NewByte(trace_bits[w], virgin_bits[w]) <=> HitsNewByte(w)
  BY <1>3 DEF NewByte, HitsNewByte
<1> QED BY <1>1, <1>4, <1>5 DEF HitsNewByte, AddsNothing

\* One word of has_new_bits, whether it is skipped or merged.
LEMMA ScanKeeps ==
  ASSUME CoverInv, ScanWord PROVE CoverInv'
<1>1. /\ at = "scan" /\ at' = "scan" /\ w <= NWords /\ w' = w + 1 /\ fault_count = 0
      /\ UNCHANGED <<fault_count, trace_bits, mine, seen>>
  BY DEF ScanWord, history, CoverInv, TurnShape
<1>2. /\ w \in Words
      /\ AnyNew(trace_bits[w], virgin_bits[w]) <=> ~AddsNothing(w)
      /\ NewByte(trace_bits[w], virgin_bits[w]) <=> HitsNewByte(w)
      /\ HitsNewByte(w) => ~AddsNothing(w)
  BY <1>1, WordSeen DEF CoverInv
<1>3. ret' = IF AddsNothing(w) THEN ret
             ELSE IF ret = 2 \/ HitsNewByte(w) THEN 2 ELSE 1
  BY <1>2 DEF ScanWord, WordRet
<1>4. \A v \in Words, l \in Lane :
        virgin_bits'[v][l] = IF v = w /\ ~AddsNothing(w)
                               THEN virgin_bits[w][l] \ trace_bits[w][l]
                               ELSE virgin_bits[v][l]
  <2>1. CASE AddsNothing(w)
    BY <2>1, <1>2 DEF ScanWord
  <2>2. CASE ~AddsNothing(w)
    <3>1. virgin_bits' = [virgin_bits EXCEPT ![w] =
                            [l \in Lane |-> virgin_bits[w][l] \ trace_bits[w][l]]]
      BY <2>2, <1>2 DEF ScanWord
    <3> QED BY <3>1, <2>2, <1>2 DEF CoverInv, MapTypes, Map
  <2> QED BY <2>1, <2>2
<1>5. MapTypes'
  <2>1. virgin_bits' \in Map
    <3>1. CASE AddsNothing(w)
      BY <3>1, <1>2 DEF ScanWord, CoverInv, MapTypes
    <3>2. CASE ~AddsNothing(w)
      <4>1. [l \in Lane |-> virgin_bits[w][l] \ trace_bits[w][l]] \in [Lane -> SUBSET Bit]
        BY <1>2, MapTyped DEF CoverInv, MapTypes
      <4>2. virgin_bits' = [virgin_bits EXCEPT ![w] =
                              [l \in Lane |-> virgin_bits[w][l] \ trace_bits[w][l]]]
        BY <3>2, <1>2 DEF ScanWord
      <4> QED BY <4>1, <4>2 DEF CoverInv, MapTypes, Map
    <3> QED BY <3>1, <3>2
  <2>2. w' \in 1..(NWords + 1) /\ ret' \in 0..2
    BY <1>1, <1>3, SizeTypes DEF CoverInv, MapTypes
  <2> QED BY <1>1, <2>1, <2>2 DEF CoverInv, MapTypes
<1>6. TurnShape'
  BY <1>1 DEF CoverInv, TurnShape
<1>7. RetSoFar'
  <2>1. \A v : v \in 1..(w' - 1) <=> v \in 1..(w - 1) \/ v = w
    BY <1>1, <1>2 DEF Words
  <2>2. \A v \in Words : HitsNewByte(v)' = HitsNewByte(v) /\ AddsNothing(v)' = AddsNothing(v)
    BY <1>1 DEF HitsNewByte, AddsNothing
  <2>3. 1..(w - 1) \subseteq Words
    BY <1>2, SizeTypes DEF Words
  <2>4. /\ ret = 2 <=> \E v \in 1..(w - 1) : HitsNewByte(v)
        /\ ret = 0 <=> \A v \in 1..(w - 1) : AddsNothing(v)
    BY <1>1 DEF CoverInv, RetSoFar
  <2>5. ret' = 2 <=> \E v \in 1..(w' - 1) : HitsNewByte(v)'
    BY <2>1, <2>2, <2>3, <2>4, <1>2, <1>3
  <2>6. ret' = 0 <=> \A v \in 1..(w' - 1) : AddsNothing(v)'
    BY <2>1, <2>2, <2>3, <2>4, <1>2, <1>3
  <2> QED BY <2>5, <2>6 DEF RetSoFar
<1>8. VirginLedger'
  <2> SUFFICES ASSUME NEW v \in Words, NEW l \in Lane
               PROVE  virgin_bits'[v][l] =
                        Bit \ (seen'[v][l] \cup (IF Merged(v)' THEN mine'[v][l] ELSE {}))
    BY DEF VirginLedger
  <2>0. v \in Nat /\ w \in Nat
    BY <1>2 DEF Words
  <2>1. /\ virgin_bits[v][l] = Bit \ (seen[v][l] \cup (IF Merged(v) THEN mine[v][l] ELSE {}))
        /\ trace_bits = mine
    BY <1>1 DEF CoverInv, VirginLedger, TurnShape
  <2>2. Merged(v)' <=> v <= w
    BY <2>0, <1>1 DEF Merged
  <2>3. Merged(v) <=> v < w
    BY <2>0, <1>1 DEF Merged
  <2>4. CASE v = w
    <3>1. AddsNothing(w) => mine[w][l] \subseteq seen[w][l]
      BY DEF AddsNothing
    <3>2. Merged(v)' /\ ~Merged(v)
      BY <2>2, <2>3, <2>4, <2>0
    <3>3. virgin_bits[w][l] = Bit \ seen[w][l]
      BY <2>1, <2>4, <3>2
    <3>4. virgin_bits'[w][l] = Bit \ (seen[w][l] \cup mine[w][l])
      <4>1. CASE AddsNothing(w)
        BY <4>1, <3>1, <3>3, <1>2, <1>4
      <4>2. CASE ~AddsNothing(w)
        BY <4>2, <2>1, <3>3, <1>2, <1>4
      <4> QED BY <4>1, <4>2
    <3> QED BY <2>4, <3>2, <3>4, <1>1
  <2>5. CASE v # w
    <3>1. Merged(v)' <=> Merged(v)
      BY <2>2, <2>3, <2>5, <2>0
    <3> QED BY <2>1, <2>5, <3>1, <1>1, <1>4
  <2> QED BY <2>4, <2>5
<1> QED BY <1>5, <1>6, <1>7, <1>8 DEF CoverInv

\* The end of the scan changes what Merged says of no word.
LEMMA ScanEnds ==
  ASSUME CoverInv, at = "scan", w > NWords, UNCHANGED <<maps, history>>,
         at' \in {"save", "account"}
  PROVE  CoverInv'
<1>1. w = NWords + 1 /\ fault_count = 0
  BY SizeTypes DEF CoverInv, MapTypes, TurnShape
<1>2. UNCHANGED <<fault_count, trace_bits, virgin_bits, w, ret, mine, seen>>
  BY DEF maps, history
<1>3. \A v \in Words : Merged(v) /\ Merged(v)'
  BY <1>1, <1>2, SizeTypes DEF Merged, Words
<1>4. VirginLedger'
  BY <1>2, <1>3 DEF VirginLedger, CoverInv
<1> QED BY <1>1, <1>2, <1>4
        DEF CoverInv, MapTypes, TurnShape, RetSoFar, HitsNewByte, AddsNothing

\* Steps outside a turn keep the maps, which no execution is merged into.
LEMMA OutsideTurn ==
  ASSUME CoverInv, UNCHANGED <<maps, history>> \/ UNCHANGED <<maps, mine, seen>>,
         at \notin {"scan", "save", "account"},
         at' \in {"collect", "load", "cycle", "exec", "rounded", "exited", "aborted"}
  PROVE  CoverInv'
<1>1. UNCHANGED <<fault_count, trace_bits, virgin_bits, w, ret, mine, seen>>
  BY DEF maps, history
<1>2. \A v \in Words : ~Merged(v) /\ ~Merged(v)'
  BY DEF Merged
<1>3. VirginLedger'
  BY <1>1, <1>2 DEF VirginLedger, CoverInv
<1> QED BY <1>1, <1>3 DEF CoverInv, MapTypes, TurnShape, RetSoFar

LEMMA RunKeeps ==
  ASSUME CoverInv, RunOne PROVE CoverInv'
<1>1. PICK t \in Traces : mine' = t /\ trace_bits' = Plus(CleanTraceBits, t)
  BY DEF RunOne
<1>2. t \in Map /\ trace_bits' = t
  BY <1>1, SizeTypes, FreshTrace DEF CleanTraceBits
<1>3. /\ at = "exec" /\ w' = 1 /\ ret' = 0 /\ fault_count' \in {0, 1}
      /\ at' = IF fault_count' = 1 THEN "account" ELSE "scan"
      /\ UNCHANGED <<virgin_bits, seen>>
  BY DEF RunOne
<1>4. \A v \in Words : ~Merged(v) /\ ~Merged(v)'
  BY <1>3 DEF Merged, Words
<1>5. VirginLedger'
  BY <1>3, <1>4 DEF VirginLedger, CoverInv
<1>6. MapTypes' /\ TurnShape'
  BY <1>1, <1>2, <1>3, SizeTypes DEF CoverInv, MapTypes, TurnShape
<1>7. RetSoFar'
  <2>1. 1..(w' - 1) = {}
    BY <1>3
  <2> QED BY <2>1, <1>3 DEF RetSoFar
<1> QED BY <1>5, <1>6, <1>7 DEF CoverInv

LEMMA AccountKeeps ==
  ASSUME CoverInv, Account PROVE CoverInv'
<1>1. /\ at = "account" /\ at' \in {"rounded", "exec"}
      /\ UNCHANGED <<fault_count, trace_bits, virgin_bits, w, ret, mine>>
      /\ seen' = IF fault_count = 1 THEN seen ELSE Plus(seen, mine)
  BY DEF Account, maps
<1>2. seen' \in Map
  BY <1>1, PlusMap DEF CoverInv, MapTypes
<1>3. \A v \in Words : (Merged(v) <=> fault_count = 0) /\ ~Merged(v)'
  BY <1>1 DEF Merged
<1>4. \A v \in Words, l \in Lane :
        seen'[v][l] = seen[v][l] \cup (IF fault_count = 0 THEN mine[v][l] ELSE {})
  BY <1>1, PlusMap DEF CoverInv, MapTypes
<1>5. VirginLedger'
  BY <1>1, <1>3, <1>4 DEF VirginLedger, CoverInv
<1> QED BY <1>1, <1>2, <1>5 DEF CoverInv, MapTypes, TurnShape, RetSoFar

\* A process starts with a map nothing was seen in.
LEMMA FreshCover ==
  ASSUME fault_count = 0, trace_bits = NoBits, virgin_bits = AllBits, w = 1,
         ret = 0, mine = NoBits, seen = NoBits, at = "collect"
  PROVE  CoverInv
<1>1. \A v \in Words : ~Merged(v)
  BY DEF Merged
<1>2. VirginLedger
  BY <1>1 DEF VirginLedger, AllBits, NoBits
<1> QED BY <1>2, ConstantMaps, SizeTypes DEF CoverInv, MapTypes, TurnShape, RetSoFar

LEMMA RestartFresh ==
  ASSUME Restart PROVE CoverInv'
<1>1. /\ fault_count' = 0 /\ trace_bits' = NoBits /\ virgin_bits' = AllBits /\ w' = 1
      /\ ret' = 0 /\ mine' = NoBits /\ seen' = NoBits /\ at' = "collect"
  BY DEF Restart
<1>2. \A v \in Words : ~Merged(v)'
  BY <1>1 DEF Merged
<1>3. VirginLedger'
  BY <1>1, <1>2 DEF VirginLedger, AllBits, NoBits
<1> QED BY <1>1, <1>3, ConstantMaps, SizeTypes DEF CoverInv, MapTypes, TurnShape, RetSoFar

LEMMA CoverStep == CoverInv /\ [CampaignNext]_campaign => CoverInv'
<1> SUFFICES ASSUME CoverInv, [CampaignNext]_campaign PROVE CoverInv'
  OBVIOUS
<1>1. CASE CollectInitCorpus \/ LoadCorpus \/ EndLoad
  BY <1>1, OutsideTurn DEF CollectInitCorpus, LoadCorpus, EndLoad
<1>2. CASE StartCycle
  BY <1>2, OutsideTurn DEF StartCycle
<1>3. CASE RunOne
  BY <1>3, RunKeeps
<1>4. CASE ScanWord
  BY <1>4, ScanKeeps
<1>5. CASE NotInteresting \/ KeepSeed
  BY <1>5, ScanEnds DEF NotInteresting, KeepSeed
<1>6. CASE SaveSeed
  <2>1. /\ at = "save" /\ at' = "account"
        /\ UNCHANGED <<fault_count, trace_bits, virgin_bits, w, ret, mine, seen>>
    BY <1>6 DEF SaveSeed, maps, history
  <2>2. fault_count = 0
    BY <2>1 DEF CoverInv, TurnShape
  <2>3. \A v \in Words : Merged(v) /\ Merged(v)'
    BY <2>1, <2>2 DEF Merged
  <2>4. VirginLedger'
    BY <2>1, <2>3 DEF VirginLedger, CoverInv
  <2> QED BY <2>1, <2>2, <2>4
          DEF CoverInv, MapTypes, TurnShape, RetSoFar, HitsNewByte, AddsNothing
<1>7. CASE Account
  BY <1>7, AccountKeeps
<1>8. CASE TimerExit \/ NextRound
  BY <1>8, OutsideTurn DEF TimerExit, NextRound
<1>9. CASE Restart
  BY <1>9, RestartFresh
<1>10. CASE UNCHANGED campaign
  <2>1. UNCHANGED <<at, fault_count, trace_bits, virgin_bits, w, ret, mine, seen>>
    BY <1>10 DEF campaign, maps, history
  <2> QED BY <2>1 DEF CoverInv, MapTypes, TurnShape, RetSoFar, VirginLedger,
                      Merged, HitsNewByte, AddsNothing
<1> QED BY <1>1, <1>2, <1>3, <1>4, <1>5, <1>6, <1>7, <1>8, <1>9, <1>10 DEF CampaignNext

LEMMA CoverInit == CampaignInit => CoverInv
BY FreshCover DEF CampaignInit, FreshMaps

LEMMA CoverAlways == CampaignSpec => []CoverInv
BY CoverInit, CoverStep, PTL DEF CampaignSpec

\* The loop invariant at the end of the loop.
LEMMA NoveltyFollows == CoverInv => NoveltyExact
<1> SUFFICES ASSUME CoverInv,
                    \/ at = "scan" /\ w > NWords
                    \/ at \in {"save", "account"} /\ fault_count = 0
             PROVE  ret = Novelty
  BY DEF NoveltyExact
<1>1. fault_count = 0 /\ 1..(w - 1) = Words
  BY SizeTypes DEF CoverInv, MapTypes, TurnShape, Words
<1>2. /\ ret = 2 <=> \E v \in Words : HitsNewByte(v)
      /\ ret = 0 <=> \A v \in Words : AddsNothing(v)
      /\ ret \in 0..2
  BY <1>1 DEF CoverInv, RetSoFar, MapTypes
<1>3. (\A v \in Words : AddsNothing(v)) <=>
        ~ \E v \in Words, l \in Lane : mine[v][l] \ seen[v][l] # {}
  BY DEF AddsNothing
<1>4. (\E v \in Words : HitsNewByte(v)) <=>
        \E v \in Words, l \in Lane : mine[v][l] # {} /\ seen[v][l] = {}
  BY DEF HitsNewByte
<1> QED BY <1>2, <1>3, <1>4 DEF Novelty

\* virgin_bits is the ledger of the executions that did not crash (coverage.c:67).
THEOREM VirginKept == CampaignSpec => []VirginLedger
<1>1. CoverInv => VirginLedger
  BY DEF CoverInv
<1> QED BY <1>1, CoverAlways, PTL

\* has_new_bits judges every trace against all that came before it (coverage.c:51).
THEOREM NoveltyJudged == CampaignSpec => []NoveltyExact
BY NoveltyFollows, CoverAlways, PTL

-----------------------------------------------------------------------------
(* The logged coverage *)

Touched(m) == {b \in Bytes : m[b[1]][b[2]] # {}}
MaxInv == max_total_coverage = Cardinality(Touched(seen))

LEMMA BytesFinite == IsFiniteSet(Bytes)
<1>1. IsFiniteSet(Words) /\ IsFiniteSet(Lane)
  BY CampaignAssumption, FS_Interval DEF Words
<1> QED BY <1>1, FS_Product DEF Bytes

LEMMA SubsetCounts ==
  ASSUME NEW S \in SUBSET Bytes
  PROVE  IsFiniteSet(S) /\ Cardinality(S) \in Nat
BY BytesFinite, FS_Subset, FS_CardinalityType

LEMMA NothingTouched == Cardinality(Touched(NoBits)) = 0
<1>1. Touched(NoBits) = {}
  BY DEF Touched, NoBits, Bytes
<1> QED BY <1>1, FS_EmptySet

LEMMA MaxAccount ==
  ASSUME CoverInv, MaxInv, Account PROVE MaxInv'
<1>1. /\ at = "account" /\ UNCHANGED <<virgin_bits, mine>>
      /\ seen' = IF fault_count = 1 THEN seen ELSE Plus(seen, mine)
      /\ max_total_coverage' = MaxCoverage
  BY DEF Account, maps
<1>2. \A v \in Words : Merged(v) <=> fault_count = 0
  BY <1>1 DEF Merged
<1>3. ASSUME NEW v \in Words, NEW l \in Lane
      PROVE  /\ virgin_bits[v][l] # Bit <=> seen'[v][l] # {}
             /\ seen[v][l] # {} => seen'[v][l] # {}
  <2>1. virgin_bits[v][l] =
          Bit \ (seen[v][l] \cup (IF fault_count = 0 THEN mine[v][l] ELSE {}))
    BY <1>2 DEF CoverInv, VirginLedger
  <2>2. seen[v][l] \subseteq Bit /\ mine[v][l] \subseteq Bit
    BY MapTyped DEF CoverInv, MapTypes
  <2>3. CASE fault_count = 1
    <3>1. seen' = seen /\ virgin_bits[v][l] = Bit \ seen[v][l]
      BY <2>1, <2>3, <1>1
    <3> QED BY <3>1, <2>2
  <2>4. CASE fault_count = 0
    <3>1. /\ seen'[v][l] = seen[v][l] \cup mine[v][l]
          /\ virgin_bits[v][l] = Bit \ (seen[v][l] \cup mine[v][l])
      BY <2>1, <2>4, <1>1, PlusMap DEF CoverInv, MapTypes
    <3> QED BY <3>1, <2>2
  <2> QED BY <2>3, <2>4 DEF CoverInv, MapTypes
<1>4. TotalCoverage = Cardinality(Touched(seen'))
  <2>1. {b \in Bytes : virgin_bits[b[1]][b[2]] # Bit} = Touched(seen')
    BY <1>3 DEF Bytes, Touched
  <2> QED BY <2>1 DEF TotalCoverage
<1>5. Touched(seen) \subseteq Touched(seen')
  BY <1>3 DEF Bytes, Touched
<1>6. /\ Cardinality(Touched(seen)) \in Nat /\ Cardinality(Touched(seen')) \in Nat
      /\ Cardinality(Touched(seen)) <= Cardinality(Touched(seen'))
  <2>1. Touched(seen) \subseteq Bytes /\ Touched(seen') \subseteq Bytes
    BY DEF Touched
  <2> QED BY <2>1, <1>5, SubsetCounts, FS_Subset
<1>7. max_total_coverage' = Cardinality(Touched(seen'))
  BY <1>1, <1>4, <1>6 DEF MaxCoverage, MaxInv
<1> QED BY <1>7 DEF MaxInv, Touched

LEMMA MaxStep == CoverInv /\ MaxInv /\ [CampaignNext]_campaign => MaxInv'
<1> SUFFICES ASSUME CoverInv, MaxInv, [CampaignNext]_campaign PROVE MaxInv'
  OBVIOUS
<1>1. CASE Account
  BY <1>1, MaxAccount
<1>2. CASE Restart
  BY <1>2, NothingTouched DEF Restart, MaxInv, Touched
<1>3. CASE UNCHANGED <<max_total_coverage, seen>>
  BY <1>3 DEF MaxInv, Touched
<1>4. CASE LoadCorpus \/ KeepSeed
  BY <1>3, <1>4 DEF LoadCorpus, KeepSeed, AddPath, history
<1>5. CASE \/ CollectInitCorpus \/ EndLoad \/ StartCycle \/ RunOne \/ ScanWord
           \/ NotInteresting \/ SaveSeed \/ TimerExit \/ NextRound
           \/ UNCHANGED campaign
  BY <1>3, <1>5 DEF CollectInitCorpus, EndLoad, StartCycle, RunOne, ScanWord,
       NotInteresting, SaveSeed, TimerExit, NextRound, campaign, counters, history
<1> QED BY <1>1, <1>2, <1>4, <1>5 DEF CampaignNext

\* The maximum that is logged is the coverage of the executions that did not
\* crash, all of it (btfuzz.c:735).
THEOREM MaxLogged == CampaignSpec => []MaxIsOfSeen
<1>1. CampaignInit => MaxInv
  BY NothingTouched DEF CampaignInit, FreshCounters, MaxInv
<1>2. MaxInv => MaxIsOfSeen
  BY DEF MaxInv, MaxIsOfSeen, Touched
<1> QED BY <1>1, <1>2, CoverAlways, MaxStep, PTL DEF CampaignSpec

-----------------------------------------------------------------------------
(* The seed directory *)

OneFileEach ==
  \A j, k \in 1..Len(order) : fname[order[j]] = fname[order[k]] => j = k

Numbered == \A f \in seedfiles : f \in Name /\ f.num < Cardinality(seedfiles)

\* Queue and directory hold the same names once loading is over, except while
\* a new seed is being saved; and the numbers in the names are below their count.
DiskInv ==
  /\ IsFiniteSet(seedfiles) /\ Numbered
  /\ fname \in [Entry -> Name]
  /\ queued_paths = Len(order) /\ total_exec_times \in Nat
  /\ OneFileEach
  /\ IsFiniteSet(Queued) /\ Cardinality(Queued) = Len(order)
  /\ at = "collect" => order = << >>
  /\ at = "load" => Queued \subseteq seedfiles
  /\ at \notin {"collect", "load", "save"} => Queued = seedfiles
  /\ at = "save" => /\ order # << >>
                    /\ Newest \in Name /\ Newest.num = Cardinality(seedfiles)
                    /\ Newest \notin seedfiles
                    /\ Queued = seedfiles \cup {Newest}

LEMMA EmptyQueued == order = << >> => Queued = {} /\ OneFileEach
BY DEF Queued, OneFileEach

\* What add_to_queue does to the names in the queue.
LEMMA NameAdded ==
  ASSUME TypeOK, fname \in [Entry -> Name], NEW e \in Malloc, NEW f \in Name,
         AddPath(e, f)
  PROVE  /\ Len(order) \in Nat /\ Len(order') = Len(order) + 1
         /\ fname' \in [Entry -> Name]
         /\ \A k \in 1..Len(order) : fname'[order'[k]] = fname[order[k]]
         /\ fname'[order'[Len(order) + 1]] = f
         /\ order' # << >>
         /\ Queued' = Queued \cup {f}
<1>1. e \in Entry /\ ~IsListed(e) /\ order' = Append(order, e)
  BY MallocIsEntry DEF AddPath, AddToQueue
<1>2. /\ Len(order) \in Nat /\ Len(order') = Len(order) + 1
      /\ \A k \in 1..Len(order) : order'[k] = order[k]
      /\ order'[Len(order) + 1] = e /\ order' # << >>
  BY <1>1, Appended, NoSeeds DEF TypeOK
<1>3. fname' \in [Entry -> Name] /\ fname'[e] = f
      /\ \A x \in Entry : x # e => fname'[x] = fname[x]
  BY <1>1 DEF AddPath
<1>4. \A k \in 1..Len(order) : order[k] \in Entry /\ order[k] # e
  BY <1>1, ElementOfSeq DEF TypeOK, IsListed
<1>5. \A k \in 1..Len(order) : fname'[order'[k]] = fname[order[k]]
  BY <1>2, <1>3, <1>4
<1>6. Queued' = Queued \cup {f}
  <2>1. \A k : k \in 1..Len(order') <=> k \in 1..Len(order) \/ k = Len(order) + 1
    BY <1>2
  <2> QED BY <2>1, <1>2, <1>3, <1>5 DEF Queued
<1> QED BY <1>2, <1>3, <1>5, <1>6

LEMMA OneMore ==
  ASSUME TypeOK, DiskInv, NEW e \in Malloc, NEW f \in Name, f \notin Queued, AddPath(e, f)
  PROVE  /\ OneFileEach' /\ fname' \in [Entry -> Name]
         /\ IsFiniteSet(Queued') /\ Cardinality(Queued') = Len(order')
         /\ queued_paths' = Len(order') /\ UNCHANGED total_exec_times
         /\ Queued' = Queued \cup {f} /\ Newest' = f /\ order' # << >>
<1>1. /\ Len(order) \in Nat /\ Len(order') = Len(order) + 1
      /\ fname' \in [Entry -> Name]
      /\ \A k \in 1..Len(order) : fname'[order'[k]] = fname[order[k]]
      /\ fname'[order'[Len(order) + 1]] = f
      /\ order' # << >>
      /\ Queued' = Queued \cup {f}
  BY NameAdded DEF DiskInv
<1>2. \A k \in 1..Len(order) : fname[order[k]] # f
  BY DEF Queued
<1>3. OneFileEach'
  <2> SUFFICES ASSUME NEW j \in 1..(Len(order) + 1), NEW k \in 1..(Len(order) + 1),
                      fname'[order'[j]] = fname'[order'[k]]
               PROVE  j = k
    BY <1>1 DEF OneFileEach
  <2>1. CASE j \in 1..Len(order) /\ k \in 1..Len(order)
    BY <2>1, <1>1 DEF DiskInv, OneFileEach
  <2>2. CASE j = Len(order) + 1 \/ k = Len(order) + 1
    BY <2>2, <1>1, <1>2
  <2> QED BY <2>1, <2>2, <1>1
<1>4. IsFiniteSet(Queued') /\ Cardinality(Queued') = Cardinality(Queued) + 1
  BY <1>1, FS_AddElement DEF DiskInv
<1>5. queued_paths' = queued_paths + 1 /\ UNCHANGED total_exec_times
  BY DEF AddPath
<1>6. Newest' = f
  BY <1>1 DEF Newest
<1> QED BY <1>1, <1>3, <1>4, <1>5, <1>6 DEF DiskInv

\* The number of a new seed is larger than all numbers in the directory.
LEMMA KeepKeeps ==
  ASSUME TypeOK, DiskInv, KeepSeed PROVE DiskInv'
<1> DEFINE f == [cov |-> CorpusGetCoverage, exec |-> total_exec_times, num |-> queued_paths]
<1>1. /\ at = "scan" /\ at' = "save" /\ UNCHANGED seedfiles
      /\ \E e \in Malloc : AddPath(e, f)
  BY DEF KeepSeed, SeedNumber
<1>2. CorpusGetCoverage \in Nat
  BY SubsetCounts DEF CorpusGetCoverage
<1>3. queued_paths \in Nat /\ total_exec_times \in Nat
  BY NoSeeds DEF DiskInv, TypeOK
<1>4. f \in Name /\ f.num = queued_paths
  BY <1>2, <1>3 DEF Name
<1> HIDE DEF f
<1>5. Queued = seedfiles /\ f.num = Cardinality(seedfiles)
  BY <1>1, <1>4 DEF DiskInv
<1>6. f \notin seedfiles
  <2>1. \A g \in seedfiles : g.num < Cardinality(seedfiles)
    BY DEF DiskInv, Numbered
  <2> QED BY <2>1, <1>5, <1>3, <1>4
<1>7. PICK e \in Malloc : AddPath(e, f)
  BY <1>1
<1>8. /\ OneFileEach' /\ fname' \in [Entry -> Name]
      /\ IsFiniteSet(Queued') /\ Cardinality(Queued') = Len(order')
      /\ queued_paths' = Len(order') /\ UNCHANGED total_exec_times
      /\ Queued' = Queued \cup {f} /\ Newest' = f /\ order' # << >>
  BY <1>4, <1>5, <1>6, <1>7, OneMore
<1>9. IsFiniteSet(seedfiles') /\ Numbered'
  BY <1>1 DEF DiskInv, Numbered
<1> QED BY <1>1, <1>4, <1>5, <1>6, <1>8, <1>9 DEF DiskInv

LEMMA LoadKeeps ==
  ASSUME TypeOK, DiskInv, LoadCorpus PROVE DiskInv'
<1>1. /\ at = "load" /\ at' = "load" /\ UNCHANGED seedfiles
      /\ \E f \in seedfiles \ Queued, e \in Malloc : AddPath(e, f)
  BY DEF LoadCorpus
<1>2. PICK f \in seedfiles \ Queued, e \in Malloc : AddPath(e, f)
  BY <1>1
<1>3. f \in Name
  BY DEF DiskInv, Numbered
<1>4. /\ OneFileEach' /\ fname' \in [Entry -> Name]
      /\ IsFiniteSet(Queued') /\ Cardinality(Queued') = Len(order')
      /\ queued_paths' = Len(order') /\ UNCHANGED total_exec_times
      /\ Queued' = Queued \cup {f}
  BY <1>2, <1>3, OneMore
<1>5. IsFiniteSet(seedfiles') /\ Numbered'
  BY <1>1 DEF DiskInv, Numbered
<1>6. Queued' \subseteq seedfiles'
  BY <1>1, <1>4 DEF DiskInv
<1> QED BY <1>1, <1>4, <1>5, <1>6 DEF DiskInv

LEMMA SaveKeeps ==
  ASSUME TypeOK, DiskInv, SaveSeed PROVE DiskInv'
<1>1. /\ at = "save" /\ at' = "account" /\ seedfiles' = seedfiles \cup {Newest}
      /\ UNCHANGED <<order, fname, queued_paths, total_exec_times>>
  BY DEF SaveSeed, qvars, list, counters
<1>2. UNCHANGED <<Queued, Newest>>
  BY <1>1 DEF Queued, Newest
<1>3. IsFiniteSet(seedfiles') /\ Cardinality(seedfiles') = Cardinality(seedfiles) + 1
  BY <1>1, FS_AddElement DEF DiskInv
<1>4. Cardinality(seedfiles) \in Nat
  BY FS_CardinalityType DEF DiskInv
<1>5. Numbered'
  <2>1. Newest \in Name /\ Newest.num = Cardinality(seedfiles)
    BY <1>1 DEF DiskInv
  <2>2. \A f \in seedfiles : f \in Name /\ f.num \in Nat /\ f.num < Cardinality(seedfiles)
    BY DEF DiskInv, Numbered, Name
  <2> QED BY <2>1, <2>2, <1>1, <1>3, <1>4 DEF Numbered
<1>6. Queued' = seedfiles'
  BY <1>1, <1>2 DEF DiskInv
<1> QED BY <1>1, <1>2, <1>3, <1>5, <1>6 DEF DiskInv, OneFileEach

LEMMA InitName == InitCorpus \in Name /\ InitCorpus.num = 0
BY DEF InitCorpus, Name

LEMMA CollectKeeps ==
  ASSUME DiskInv, CollectInitCorpus PROVE DiskInv'
<1>1. /\ at = "collect" /\ at' = "load" /\ order = << >>
      /\ UNCHANGED <<order, fname, queued_paths, total_exec_times>>
      /\ seedfiles' = seedfiles \/ seedfiles' \in {{}, {InitCorpus}}
  BY DEF CollectInitCorpus, qvars, list, counters, DiskInv
<1>2. Queued' = {} /\ UNCHANGED Queued
  BY <1>1, EmptyQueued DEF Queued
<1>3. IsFiniteSet(seedfiles') /\ Numbered'
  <2>1. CASE seedfiles' = seedfiles
    BY <2>1 DEF DiskInv, Numbered
  <2>2. CASE seedfiles' = {}
    BY <2>2, FS_EmptySet DEF Numbered
  <2>3. CASE seedfiles' = {InitCorpus}
    <3>1. IsFiniteSet({InitCorpus}) /\ Cardinality({InitCorpus}) = 1
      BY FS_Singleton
    <3>2. \A f \in {InitCorpus} : f \in Name /\ f.num < 1
      BY InitName
    <3> QED BY <2>3, <3>1, <3>2 DEF Numbered
  <2> QED BY <1>1, <2>1, <2>2, <2>3
<1> QED BY <1>1, <1>2, <1>3 DEF DiskInv, OneFileEach

LEMMA DiskRestart ==
  ASSUME DiskInv, Restart PROVE DiskInv'
<1>1. /\ at' = "collect" /\ order' = << >> /\ UNCHANGED seedfiles
      /\ fname' = [e \in Entry |-> InitCorpus]
      /\ queued_paths' = 0 /\ total_exec_times' = 0
  BY DEF Restart, NewProcess
<1>2. Len(order') = 0 /\ 1..Len(order') = {}
  BY <1>1
<1>3. Queued' = {} /\ OneFileEach'
  BY <1>2 DEF Queued, OneFileEach
<1>4. IsFiniteSet(Queued') /\ Cardinality(Queued') = 0
  BY <1>3, FS_EmptySet
<1> QED BY <1>1, <1>2, <1>3, <1>4, InitName DEF DiskInv, Numbered

\* Steps that leave queue and directory alone and do not begin or end a save.
LEMMA DiskFrame ==
  ASSUME DiskInv, at' \notin {"collect", "load", "save"},
         \/ at \notin {"collect", "load", "save"}
         \/ seedfiles = Queued,
         UNCHANGED <<order, fname, seedfiles, queued_paths>>,
         total_exec_times' \in Nat
  PROVE  DiskInv'
<1>1. UNCHANGED Queued
  BY DEF Queued
<1> QED BY <1>1 DEF DiskInv, Numbered, OneFileEach

LEMMA DiskStep == TypeOK /\ DiskInv /\ [CampaignNext]_campaign => DiskInv'
<1> SUFFICES ASSUME TypeOK, DiskInv, [CampaignNext]_campaign PROVE DiskInv'
  OBVIOUS
<1>1. CASE CollectInitCorpus
  BY <1>1, CollectKeeps
<1>2. CASE LoadCorpus
  BY <1>2, LoadKeeps
<1>3. CASE EndLoad
  <2>1. /\ at' = "cycle" /\ seedfiles = Queued
        /\ UNCHANGED <<order, fname, seedfiles, queued_paths, total_exec_times>>
    BY <1>3 DEF EndLoad, Loaded, list, disk, counters, DiskInv
  <2> QED BY <2>1, DiskFrame DEF DiskInv
<1>4. CASE StartCycle
  <2>1. /\ at = "cycle" /\ at' \in {"exec", "aborted"}
        /\ UNCHANGED <<order, fname, seedfiles, queued_paths, total_exec_times>>
    BY <1>4 DEF StartCycle, BeginCycle, list, disk, counters
  <2> QED BY <2>1, DiskFrame DEF DiskInv
<1>5. CASE RunOne
  <2>1. /\ at = "exec" /\ at' \in {"account", "scan"}
        /\ UNCHANGED <<order, fname, seedfiles, queued_paths>>
        /\ total_exec_times' = total_exec_times + 1
    BY <1>5 DEF RunOne, qvars, list, disk
  <2>2. total_exec_times' \in Nat
    BY <2>1 DEF DiskInv
  <2> QED BY <2>1, <2>2, DiskFrame
<1>6. CASE ScanWord \/ NotInteresting \/ Account \/ TimerExit
  <2>1. /\ at \in {"scan", "account", "rounded"}
        /\ at' \in {"scan", "account", "rounded", "exec", "exited"}
        /\ UNCHANGED <<order, fname, seedfiles, queued_paths, total_exec_times>>
    BY <1>6 DEF ScanWord, NotInteresting, Account, TimerExit, qvars, list, disk, counters
  <2> QED BY <2>1, DiskFrame DEF DiskInv
<1>7. CASE KeepSeed
  BY <1>7, KeepKeeps
<1>8. CASE SaveSeed
  BY <1>8, SaveKeeps
<1>9. CASE NextRound
  <2>1. /\ at = "rounded" /\ at' \in {"exec", "cycle"}
        /\ UNCHANGED <<order, fname, seedfiles, queued_paths, total_exec_times>>
    BY <1>9 DEF NextRound, NextSeed, list, disk, counters
  <2> QED BY <2>1, DiskFrame DEF DiskInv
<1>10. CASE Restart
  BY <1>10, DiskRestart
<1>11. CASE UNCHANGED campaign
  <2>1. UNCHANGED <<at, order, fname, seedfiles, queued_paths, total_exec_times>>
    BY <1>11 DEF campaign, qvars, list, disk, counters
  <2>2. UNCHANGED <<Queued, Newest>>
    BY <2>1 DEF Queued, Newest
  <2> QED BY <2>1, <2>2 DEF DiskInv, Numbered, OneFileEach
<1> QED BY <1>1, <1>2, <1>3, <1>4, <1>5, <1>6, <1>7, <1>8, <1>9, <1>10, <1>11
        DEF CampaignNext

LEMMA DiskInit == CampaignInit => DiskInv
<1> SUFFICES ASSUME CampaignInit PROVE DiskInv
  OBVIOUS
<1>1. /\ at = "collect" /\ order = << >> /\ seedfiles = InitialFiles
      /\ fname = [e \in Entry |-> InitCorpus]
      /\ queued_paths = 0 /\ total_exec_times = 0
  BY DEF CampaignInit, Init, ListHead, FreshCounters
<1>2. Len(order) = 0
  BY <1>1
<1>3. Queued = {} /\ OneFileEach
  BY <1>1, EmptyQueued
<1>4. IsFiniteSet(Queued) /\ Cardinality(Queued) = 0
  BY <1>3, FS_EmptySet
<1>5. IsFiniteSet(seedfiles) /\ Numbered
  BY <1>1, CampaignAssumption DEF Numbered
<1> QED BY <1>1, <1>2, <1>3, <1>4, <1>5, InitName DEF DiskInv

LEMMA DiskAlways == CampaignSpec => []DiskInv
BY DiskInit, DiskStep, CampaignQueue, PTL DEF CampaignSpec

\* No seed ever replaces another, over any number of processes killed anywhere
\* (coverage.c:166).
THEOREM SeedsKept == CampaignSpec => []SeedNameFresh
<1>1. DiskInv => SeedNameFresh
  BY DEF DiskInv, SeedNameFresh
<1> QED BY <1>1, DiskAlways, PTL

\* Every seed in the queue is a file of its own on disk (btfuzz.c:728).
THEOREM QueueIsOnDisk == CampaignSpec => []QueueOnDisk
<1>1. TypeOK /\ DiskInv => QueueOnDisk
  <2> SUFFICES ASSUME TypeOK, DiskInv, NEW k \in 1..Len(order)
               PROVE  fname[order[k]] \in seedfiles \/ (at = "save" /\ k = Len(order))
    BY DEF QueueOnDisk, DiskInv, OneFileEach
  <2>1. fname[order[k]] \in Queued
    BY DEF Queued
  <2>2. CASE at # "save"
    <3>1. at = "collect" => 1..Len(order) = {}
      BY DEF DiskInv
    <3> QED BY <2>1, <2>2, <3>1 DEF DiskInv
  <2>3. CASE at = "save"
    <3>1. Len(order) \in 1..Len(order)
      BY NoSeeds DEF TypeOK
    <3> QED BY <2>1, <2>3, <3>1 DEF DiskInv, OneFileEach, Newest
  <2> QED BY <2>2, <2>3
<1> QED BY <1>1, DiskAlways, CampaignQueue, PTL

-----------------------------------------------------------------------------
(* The counters *)

\* Packets are counted by the end of the turn that recorded them; packet_count
\* is that of the last execution that had any.
CountInv ==
  /\ packet_count \in Nat /\ total_packet_count \in Nat
  /\ recorded \in Nat /\ recounted \in Nat /\ heard = packet_count
  /\ cur_coverage \in Nat /\ starts \in Nat
  /\ ith \in 0..(TimesPerRound - 1)
  /\ IF at \in {"scan", "save", "account"}
       THEN recorded + recounted = total_packet_count + packet_count
       ELSE recorded + recounted = total_packet_count

LEMMA RoundTypes == TimesPerRound \in Nat \ {0} /\ MaxPkts \in Nat
BY CampaignAssumption

LEMMA CountRun ==
  ASSUME CountInv, RunOne PROVE CountInv'
<1>1. PICK n \in 0..MaxPkts :
        /\ packet_count' = IF n = 0 THEN packet_count ELSE n
        /\ recorded' = recorded + n
        /\ heard' = IF n = 0 THEN heard ELSE n
        /\ recounted' = IF n = 0 THEN recounted + heard ELSE recounted
  BY DEF RunOne
<1>2. /\ at = "exec" /\ at' \in {"account", "scan"}
      /\ UNCHANGED <<total_packet_count, cur_coverage, starts, ith>>
  BY DEF RunOne
<1>3. n \in Nat
  BY RoundTypes
<1> QED BY <1>1, <1>2, <1>3 DEF CountInv

LEMMA CountAccount ==
  ASSUME CountInv, Account PROVE CountInv'
<1>1. /\ at = "account" /\ at' \in {"rounded", "exec"}
      /\ UNCHANGED <<packet_count, packets, starts>>
      /\ total_packet_count' = total_packet_count + packet_count
      /\ cur_coverage' \in Nat
  BY SubsetCounts DEF Account, PacketTotal, CorpusGetCoverage
<1>2. ith' \in 0..(TimesPerRound - 1)
  BY RoundTypes DEF Account, NextTurn, CountInv
<1> QED BY <1>1, <1>2 DEF CountInv, packets

LEMMA CountStep == CountInv /\ [CampaignNext]_campaign => CountInv'
<1> SUFFICES ASSUME CountInv, [CampaignNext]_campaign PROVE CountInv'
  OBVIOUS
<1> DEFINE kept == <<packet_count, total_packet_count, packets, cur_coverage, starts, ith>>
<1>1. CASE RunOne
  BY <1>1, CountRun
<1>2. CASE Account
  BY <1>2, CountAccount
<1>3. CASE Restart
  BY <1>3, RoundTypes DEF Restart, CountInv
<1>4. CASE LoadCorpus \/ KeepSeed
  <2>1. UNCHANGED kept
    BY <1>4 DEF LoadCorpus, KeepSeed, AddPath, history
  <2>2. \/ at = "load" /\ at' = "load"
        \/ at = "scan" /\ at' = "save"
    BY <1>4 DEF LoadCorpus, KeepSeed
  <2> QED BY <2>1, <2>2 DEF CountInv, packets
<1>5. CASE CollectInitCorpus \/ EndLoad \/ StartCycle \/ TimerExit \/ NextRound
  <2>1. UNCHANGED kept
    BY <1>5 DEF CollectInitCorpus, EndLoad, StartCycle, TimerExit, NextRound,
                counters, history
  <2>2. /\ at \in {"collect", "load", "cycle", "rounded"}
        /\ at' \in {"load", "cycle", "exec", "aborted", "exited"}
    BY <1>5 DEF CollectInitCorpus, EndLoad, StartCycle, TimerExit, NextRound
  <2> QED BY <2>1, <2>2 DEF CountInv, packets
<1>6. CASE ScanWord \/ NotInteresting \/ SaveSeed
  <2>1. UNCHANGED kept
    BY <1>6 DEF ScanWord, NotInteresting, SaveSeed, counters, history
  <2>2. at \in {"scan", "save"} /\ at' \in {"scan", "account"}
    BY <1>6 DEF ScanWord, NotInteresting, SaveSeed
  <2> QED BY <2>1, <2>2 DEF CountInv, packets
<1>7. CASE UNCHANGED campaign
  BY <1>7 DEF campaign, counters, history, packets, CountInv
<1> QED BY <1>1, <1>2, <1>3, <1>4, <1>5, <1>6, <1>7 DEF CampaignNext

LEMMA CountAlways == CampaignSpec => []CountInv
<1>1. CampaignInit => CountInv
  BY RoundTypes DEF CampaignInit, FreshCounters, CountInv
<1> QED BY <1>1, CountStep, PTL DEF CampaignSpec

\* total_packet_count (btfuzz.c:732) is the packets recorded and those counted
\* again for executions without one, and nothing else.
THEOREM PacketsCounted == CampaignSpec => []PacketsAccounted
<1>1. CountInv => PacketsAccounted
  BY DEF CountInv, PacketsAccounted
<1> QED BY <1>1, CountAlways, PTL

\* The variables of the campaign keep their types.
THEOREM CampaignTypes == CampaignSpec => []CampaignTypeOK
<1>1. TypeOK /\ CoverInv /\ MaxInv /\ DiskInv /\ CountInv => CampaignTypeOK
  <2> SUFFICES ASSUME TypeOK, CoverInv, MaxInv, DiskInv, CountInv PROVE CampaignTypeOK
    OBVIOUS
  <2>1. max_total_coverage \in Nat
    <3>1. Touched(seen) \subseteq Bytes
      BY DEF Touched
    <3> QED BY <3>1, SubsetCounts DEF MaxInv
  <2>2. seedfiles \subseteq Name /\ queued_paths \in Nat
    BY NoSeeds DEF DiskInv, Numbered, TypeOK
  <2> QED BY <2>1, <2>2 DEF CampaignTypeOK, CoverInv, MapTypes, DiskInv, CountInv
<1>2. CampaignSpec => []MaxInv
  <2>1. CampaignInit => MaxInv
    BY NothingTouched DEF CampaignInit, FreshCounters, MaxInv
  <2> QED BY <2>1, CoverAlways, MaxStep, PTL DEF CampaignSpec
<1> QED BY <1>1, <1>2, CampaignQueue, CoverAlways, DiskAlways, CountAlways, PTL
=============================================================================
