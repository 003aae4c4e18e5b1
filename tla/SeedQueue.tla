------------------------------ MODULE SeedQueue ------------------------------
(***************************************************************************)
(* The seed queue of the fuzzer and the walk start_fuzzer takes over it.   *)
(* The queue is the circular, doubly linked list of blueman-main/utils.c:  *)
(* next and prev are the two pointers of every node, queue is the node     *)
(* that LIST_HEAD(queue) defines and that belongs to no seed.  Seeds are   *)
(* added behind that node, so the list runs from the newest to the oldest. *)
(* start_fuzzer takes the first and the last seed once per cycle, and      *)
(* walks from one to the other while new seeds are added.                  *)
(***************************************************************************)
EXTENDS Naturals, Sequences

CONSTANTS Entry,   \* addresses malloc can return for a queue_entry
          queue    \* address of the list head

ASSUME SeedQueueAssumption == queue \notin Entry

VARIABLES next, prev,            \* struct list_head
          queue_cur, queue_tail, \* of start_fuzzer
          walk,                  \* where start_fuzzer stands
          order,                 \* history: the entries in the order added
          begun,                 \* history: how many there were when the cycle began
          turns                  \* history: seeds taken since then

list == <<next, prev, order>>
cursor == <<queue_cur, queue_tail, walk, begun, turns>>
qvars == <<list, cursor>>

Node == Entry \cup {queue}
IsListed(e) == \E k \in 1..Len(order) : order[k] = e

\* LIST_HEAD(queue); the pointers of an entry not yet allocated are anything,
\* and kept as they are
ListHead ==
  /\ next = [n \in Node |-> n]
  /\ prev = [n \in Node |-> n]
  /\ order = << >>

Init ==
  /\ ListHead
  /\ queue_cur = queue /\ queue_tail = queue   \* NULL until the first cycle
  /\ walk = "load" /\ begun = 0 /\ turns = 0

-----------------------------------------------------------------------------
ListAdd_bad(node, head) ==   \* head->next is read after it was written
  /\ next' = [next EXCEPT ![node] = node, ![head] = node]
  /\ prev' = [prev EXCEPT ![node] = head]

\* list_add
ListAdd(node, head) ==
  /\ next' = [next EXCEPT ![node] = next[head], ![head] = node]
  /\ prev' = [prev EXCEPT ![next[head]] = node, ![node] = head]

\* add_to_queue, with the entry malloc returned
AddToQueue(e) ==
  /\ ~IsListed(e)
  /\ ListAdd(e, queue)
  /\ order' = Append(order, e)
  /\ UNCHANGED cursor

\* The end of load_corpus_to_queue.
Loaded ==
  /\ walk = "load" /\ walk' = "cycle"
  /\ UNCHANGED <<list, queue_cur, queue_tail, begun, turns>>

QueueHead == next[queue]
QueueTail == prev[queue]

\* The first seed of a cycle.  In an empty list the head of the queue is taken
\* for a seed: its file name is whatever lies in front of it in memory, and the
\* fuzzer ends when it opens that.
BeginCycle ==
  /\ walk = "cycle"
  /\ queue_cur' = QueueHead /\ queue_tail' = QueueTail
  /\ begun' = Len(order) /\ turns' = 1
  /\ walk' = IF QueueHead = queue THEN "aborted" ELSE "round"
  /\ UNCHANGED list

QueueNext(q) == next[q]

AtTail_bad == queue_cur = queue            \* to the list head, as list_for_each
AtTail_bad2 == QueueNext(queue_cur) = QueueTail   \* one seed early
AtTail == queue_cur = queue_tail

\* The end of a round: the next seed, or the next cycle.
NextSeed ==
  /\ walk = "round"
  /\ IF AtTail
       THEN walk' = "cycle" /\ UNCHANGED <<queue_cur, turns>>
       ELSE /\ queue_cur' = QueueNext(queue_cur) /\ turns' = turns + 1
            /\ UNCHANGED walk
  /\ UNCHANGED <<list, queue_tail, begun>>

\* A new process: its memory is as the loader left it.
NewProcess ==
  /\ next' = [n \in Node |-> n]
  /\ prev' = [n \in Node |-> n]
  /\ order' = << >>
  /\ queue_cur' = queue /\ queue_tail' = queue
  /\ walk' = "load" /\ begun' = 0 /\ turns' = 0

\* Seeds are loaded at start, and kept while one is fuzzed.
Next ==
  \/ walk \in {"load", "round"} /\ \E e \in Entry : AddToQueue(e)
  \/ Loaded \/ BeginCycle \/ NextSeed
  \/ NewProcess

Spec == Init /\ [][Next]_qvars

\* Rounds end, and start_fuzzer goes on to the next seed.
FairSpec == Spec /\ WF_qvars(Loaded \/ BeginCycle \/ NextSeed)

-----------------------------------------------------------------------------
(* Properties *)

\* The types of the variables.
TypeOK ==
  /\ next \in [Node -> Node] /\ prev \in [Node -> Node]
  /\ queue_cur \in Node /\ queue_tail \in Node
  /\ walk \in {"load", "cycle", "round", "aborted"}
  /\ order \in Seq(Entry)
  /\ begun \in Nat /\ turns \in Nat

\* The neighbours of the k-th oldest seed, the list head standing at both ends.
Older(k) == IF k = 1 THEN queue ELSE order[k - 1]
Newer(k) == IF k = Len(order) THEN queue ELSE order[k + 1]

NoneTwice == \A j, k \in 1..Len(order) : order[j] = order[k] => j = k
NextRight == /\ next[queue] = IF order = << >> THEN queue ELSE order[Len(order)]
             /\ \A k \in 1..Len(order) : next[order[k]] = Older(k)
PrevRight == /\ prev[queue] = Newer(0)
             /\ \A k \in 1..Len(order) : prev[order[k]] = Newer(k)

\* However many seeds were added and in whatever phase, both directions of the
\* list lead through exactly the seeds that were added, newest first.
Linked == NoneTwice /\ NextRight /\ PrevRight

\* While seeds are added in front of it, the walk stays on the list: the turns-th
\* seed of a cycle is the turns-th newest of those there were when it began,
\* and never the list head.
OnTheWalk ==
  walk = "round" =>
    /\ turns \in 1..begun /\ begun <= Len(order)
    /\ queue_cur = order[begun + 1 - turns]
    /\ queue_tail = order[1]

\* A cycle fuzzes every seed known at its start before the next cycle begins,
\* and none that were added since (btfuzz.c:775, where the tail read at the
\* start of the cycle ends it).
CycleComplete ==
  [][walk = "round" /\ walk' = "cycle" => turns = begun]_qvars

\* As long as the process lives every seed gets its turn, again and again.
EverySeedFuzzed ==
  \A e \in Entry :
    IsListed(e) /\ walk = "cycle" ~> queue_cur = e \/ walk = "load"
=============================================================================
