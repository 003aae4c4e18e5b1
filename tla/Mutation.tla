------------------------------ MODULE Mutation ------------------------------
(***************************************************************************)
(* One packet of an execution on its way from the radio hook through the   *)
(* interceptor, which replaces it by that of the seed and mutates it, back *)
(* to the hook; and again in later executions, with what was recorded as   *)
(* the seed and another MAXLEN of the radio.  A packet is its length, its  *)
(* mark and where in BLE_pkt a mutator writes; contents are left out.      *)
(***************************************************************************)
EXTENDS Integers

CONSTANTS Builds,   \* the mutators to build the fuzzer with
          MaxLens,  \* what nhwra_get_MAXLEN may return
          Payloads, \* lengths of a payload, received or drawn
          Spots,    \* positions drawn, beside the last one
          Garbage,  \* lengths found in bytes that were overwritten
          MaxExecs  \* bound: executions

BLE_PKT_MAX_LEN == 255
Frame == 5                       \* 2 bytes of header, 3 of CRC
Least(a, b) == IF a < b THEN a ELSE b
Narrow(x) == x % 256             \* to uint8_t

ASSUME MutationAssumption ==
  /\ Builds \subseteq {"field", "random", "afl"}
  /\ MaxLens \subseteq Frame..BLE_PKT_MAX_LEN
  /\ Payloads \subseteq Nat /\ Spots \subseteq Nat /\ Garbage \subseteq Nat
  /\ MaxExecs \in Nat

\* Offsets in BLE_pkt (interceptor.h), which is packed.
LenField == 16..19
PktField == 24
LLPayload == PktField + 2
L2CAPPayload == LLPayload + 4

VARIABLES
  build, pc, execs,
  radio,                         \* MAXLEN, max_payload_len of the packet
  len, mutated,                  \* of the packet
  payload_len, old_payload_len, ret, \* of mutate_strategy
  layer,                         \* the mutator at work, or "none"
  area,                          \* the bytes handed to mutate_havoc
  touch,                         \* the bytes a primitive has just written
  given,                         \* bytes the hook wrote back, or AsReceived
  seed,                          \* the packet in the seed, given and radio then
  fresh,                         \* history: mutate_strategy ran on the packet
  spoilt                         \* history: its length was overwritten

packet == <<len, mutated, fresh, spoilt>>
strategy == <<payload_len, old_payload_len, ret, layer, area, touch>>
world == <<build, execs, radio, seed>>
mvars == <<pc, packet, strategy, world, given>>

AsReceived == -1
Nothing == [first |-> 0, last |-> -1]
Idle == /\ layer' = "none" /\ area' = Nothing /\ touch' = Nothing
        /\ payload_len' = 0 /\ old_payload_len' = 0 /\ ret' = 0

Init ==
  /\ build \in Builds /\ pc = "radio" /\ execs = 0
  /\ radio = BLE_PKT_MAX_LEN /\ len = Frame /\ mutated = 0
  /\ payload_len = 0 /\ old_payload_len = 0 /\ ret = 0
  /\ layer = "none" /\ area = Nothing /\ touch = Nothing
  /\ given = AsReceived /\ fresh = FALSE /\ spoilt = FALSE
  /\ seed = [len |-> Frame, mutated |-> 0, given |-> AsReceived,
             radio |-> BLE_PKT_MAX_LEN, spoilt |-> FALSE]  \* of the init run

\* hijack_packet_recorder, up to its message.  The peers have not agreed on
\* longer packets than the radio takes; from 255 bytes on it loops for ever.
Received ==
  /\ pc = "radio" /\ execs < MaxExecs /\ execs' = execs + 1
  /\ \E r \in MaxLens, p \in Payloads :
       /\ p <= r /\ p < BLE_PKT_MAX_LEN
       /\ radio' = r /\ len' = p + Frame /\ mutated' = 0
  /\ pc' = "replace" /\ fresh' = FALSE /\ spoilt' = FALSE /\ given' = AsReceived
  /\ UNCHANGED <<build, seed, strategy>>

CopyBlePkt_bad == len' = Least(seed.len, radio)   \* header and CRC forgotten
CopyBlePkt == len' = Least(seed.len, radio + Frame)

Replaced ==
  /\ pc = "replace" /\ pc' = "select"
  /\ IF seed.mutated = 1
       THEN CopyBlePkt /\ mutated' = 1 /\ spoilt' = seed.spoilt
       ELSE UNCHANGED <<len, mutated, spoilt>>
  /\ UNCHANGED <<world, fresh, strategy, given>>

\* mutate_pkt: not selected, or nothing to mutate
NotSelected ==
  /\ pc = "select" /\ pc' = "answer" /\ build \in {"field", "random"}
  /\ UNCHANGED <<packet, strategy, world, given>>

-----------------------------------------------------------------------------
(* mutate_strategy of the field-aware mutator *)

DrawnLength_bad == Payloads       \* the bound of the array alone
DrawnLength == {p \in Payloads : p <= radio}

FieldLength ==
  /\ pc = "select" /\ build = "field" /\ len # Frame
  /\ pc' = "layer" /\ fresh' = TRUE
  /\ \/ UNCHANGED <<len, spoilt>>
     \/ \E p \in DrawnLength : len' = p + Frame /\ spoilt' = FALSE
  /\ old_payload_len' = Narrow(len') /\ payload_len' = len' - Frame
  /\ UNCHANGED <<mutated, ret, layer, area, touch, world, given>>

\* Bytes a mutator has for its payload, and where it looks for them: the macros
\* of ATT_mutator and SM_mutator are given the structure, not its pkt field.
L2CAPRoom_bad == payload_len
L2CAPRoom == payload_len - 4

Room(m) == CASE m = "LL" -> payload_len
             [] m = "L2CAP" -> L2CAPRoom
             [] m \in {"ATT", "SM"} -> payload_len - 4 - 1

Base(m) == CASE m = "LL" -> LLPayload
             [] m = "L2CAP" -> L2CAPPayload
             [] m \in {"ATT", "SM"} -> 2 + 4 + 1

Handed(m, size) ==
  /\ layer' = m /\ area' = [first |-> Base(m), last |-> Base(m) + size - 1]
  /\ pc' = "havoc" /\ ret' = 1

NoMutator == pc' = "mark" /\ ret' = 0 /\ UNCHANGED <<layer, area, touch>>

Empty(m) ==   \* nothing of the payload to mutate
  /\ pc' = "mark" /\ ret' = (IF m \in {"ATT", "SM"} THEN 1 ELSE 0)
  /\ UNCHANGED <<layer, area, touch>>

\* "LL" is LL_data_mutator or LL_advertising_mutator; which layers a packet has
\* and the header bits they change are contents.
FieldLayer ==
  /\ pc = "layer"
  /\ \/ NoMutator
     \/ \E m \in {"LL", "L2CAP", "ATT", "SM"} : Room(m) <= 0 /\ Empty(m)
     \/ \E m \in {"LL", "ATT", "SM"} :
          /\ Room(m) > 0 /\ Handed(m, Room(m))
          /\ touch' \in {Nothing} \cup
                IF m = "LL" THEN {} ELSE {[first |-> Base(m) - 1, last |-> Base(m) - 1]}
     \/ \E p \in Payloads \cup {Room("L2CAP")} :    \* payload cut in length
          /\ Room("L2CAP") > 0 /\ p <= Room("L2CAP")
          /\ IF p = 0 THEN pc' = "mark" /\ ret' = 1 /\ UNCHANGED <<layer, area>>
                      ELSE Handed("L2CAP", p)
          /\ UNCHANGED touch
  /\ UNCHANGED <<packet, payload_len, old_payload_len, world, given>>

\* The primitives, on n bytes: bits from S on in one byte, N bits as bytes.
Position(n) == (Spots \cup {n - 1}) \cap 0..(n - 1)
Bits(n, S, N) ==
  IF N + S > 8 * n THEN {} ELSE {[first |-> S \div 8, last |-> S \div 8]}
Bytes(n, S, N) ==
  IF N + S > 8 * n THEN {}
                   ELSE {[first |-> S \div 8, last |-> S \div 8 + N \div 8 - 1]}

Size == area.last - area.first + 1

Written(t) ==
  /\ touch' = [first |-> area.first + t.first, last |-> area.first + t.last]
  /\ IF touch'.first..touch'.last \cap LenField # {}
       THEN len' \in Garbage /\ spoilt' = TRUE
       ELSE UNCHANGED <<len, spoilt>>

\* A round of mutate_havoc
FieldRound(n) ==
  \E b \in Position(n) :
    \/ Written([first |-> b, last |-> b])
    \/ \E o \in 0..7, N \in 1..8 : \E t \in Bits(n, 8 * b + o, N) : Written(t)
    \/ \E k \in {1, 2} : \E t \in Bytes(n, 8 * b, 8 * k) : Written(t)
    \/ \E k \in Payloads \cup {n - b} :
         /\ 0 < k /\ k <= n - b
         /\ \E t \in Bytes(n, 8 * b, Narrow(8 * k)) : Written(t)

\* of the loop of the random mutator
RandomRound(n) == \E b \in Position(n) : Written([first |-> b, last |-> b])

\* and of afl_mutate_havoc: bytes, words, double words; rand() % 8 draws no other case
AflRound(n) ==
  \E b \in Position(n), w \in {1, 2, 4} :
    b + w <= n /\ Written([first |-> b, last |-> b + w - 1])

Havoc ==
  /\ pc = "havoc"
  /\ \/ build = "field" /\ Size <= BLE_PKT_MAX_LEN /\ FieldRound(Size)
     \/ build = "random" /\ RandomRound(Size)
     \/ build = "afl" /\ AflRound(Size)
  /\ UNCHANGED <<pc, mutated, fresh, payload_len, old_payload_len, ret, layer, area,
                 world, given>>

HavocEnds ==
  /\ pc = "havoc" /\ pc' = "mark"
  /\ UNCHANGED <<packet, strategy, world, given>>

Marked ==   \* field-aware
  /\ pc = "mark" /\ build = "field" /\ pc' = "answer"
  /\ mutated' = IF ret # 0 \/ old_payload_len # len THEN 1 ELSE mutated
  /\ Idle
  /\ UNCHANGED <<len, fresh, spoilt, world, given>>

-----------------------------------------------------------------------------
(* The random and the AFL mutator *)

RandomLength ==
  /\ pc = "select" /\ build = "random" /\ len > Frame
  /\ \E p \in DrawnLength \cup {len - Frame} :   \* the old one: advertising
       /\ p > 0 /\ len' = p + Frame /\ payload_len' = p
       /\ area' = [first |-> LLPayload, last |-> LLPayload + p - 1]
  /\ pc' = "havoc" /\ layer' = "random" /\ ret' = 1 /\ fresh' = TRUE
  /\ UNCHANGED <<spoilt, mutated, old_payload_len, touch, world, given>>

AflLength ==
  /\ pc = "select" /\ build = "afl"
  /\ \E p \in DrawnLength :
       /\ len' = p + Frame /\ payload_len' = p
       /\ area' = [first |-> PktField, last |-> PktField + len' - 1]
  /\ pc' = "havoc" /\ layer' = "afl" /\ ret' = 1 /\ fresh' = TRUE /\ spoilt' = FALSE
  /\ UNCHANGED <<mutated, old_payload_len, touch, world, given>>

AflCut == Least(len, radio)

MarkedAlways ==
  /\ pc = "mark" /\ build \in {"random", "afl"} /\ pc' = "answer"
  /\ mutated' = 1 /\ len' = IF build = "afl" THEN AflCut ELSE len
  /\ Idle
  /\ UNCHANGED <<fresh, spoilt, world, given>>

-----------------------------------------------------------------------------
(* Back in the hook, and the packet as one of a seed *)

WriteBack == Least(radio, Narrow(len - Frame))

Answered ==
  /\ pc = "answer" /\ pc' = "written"
  /\ given' = IF mutated = 1 THEN WriteBack ELSE AsReceived
  /\ UNCHANGED <<packet, strategy, world>>

Kept ==
  /\ pc = "written" /\ pc' = "radio"
  /\ seed' \in {seed, [len |-> len, mutated |-> mutated, given |-> given,
                       radio |-> radio, spoilt |-> spoilt]}
  /\ UNCHANGED <<build, execs, radio, packet, strategy, given>>

Next ==
  \/ Received \/ Replaced \/ NotSelected \/ FieldLength \/ FieldLayer \/ Havoc
  \/ HavocEnds \/ Marked \/ RandomLength \/ AflLength \/ MarkedAlways
  \/ Answered \/ Kept

Spec == Init /\ [][Next]_mvars

-----------------------------------------------------------------------------
(* Properties *)

\* A packet of a seed that is not selected for mutation gives the target what it
\* gave when it was recorded, under the same MAXLEN: no shorter or longer one,
\* and no byte of the packet the radio received (copy_ble_pkt, the hook).
ReplayFaithful ==
  pc = "written" /\ ~fresh /\ ~seed.spoilt /\ radio = seed.radio =>
    given = seed.given /\ given <= len

\* Whatever MAXLEN a packet was recorded under, and whichever mutator drew its
\* length, the hook finds it within the radio's limit and in 8 bits.  Of a packet
\* whose length was drawn again and nothing else the hook leaves the target what
\* the radio received, while the record says that length: only up to 255.
NothingCut ==
  pc = "written" /\ ~spoilt =>
    /\ given # AsReceived => given = len - Frame
    /\ given = AsReceived /\ fresh => len <= 255

\* A primitive writes inside what the packet's length says is its payload; the
\* AFL mutator takes header and CRC for payload as well.
InPayload ==
  layer \in {"LL", "L2CAP", "random", "afl"} /\ touch # Nothing =>
    /\ touch.first >= (IF layer = "afl" THEN PktField ELSE LLPayload)
    /\ touch.last < (IF layer = "afl" THEN PktField + len ELSE LLPayload + payload_len)

-----------------------------------------------------------------------------
\* mutator_full_stack2.c:74, 79 and 96, 101, "mutate att opcode", "mutate att
\* parameters": what these mutators write is in the packet.
UpperLayerInPacket ==
  layer \in {"ATT", "SM"} /\ touch # Nothing => touch.first >= PktField
=============================================================================
