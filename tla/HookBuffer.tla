------------------------------ MODULE HookBuffer ------------------------------
(***************************************************************************)
(* The bytes of one packet: in the buffer of the radio, in the message the *)
(* hook makes of it (patch/bsim.patch), under the field-aware mutator,     *)
(* whose layers are told apart by these bytes, and back in the buffer; and *)
(* again in later executions, with what was recorded as the seed.          *)
(* Mutation has the lengths in full width and where the primitives write;  *)
(* here packets are short and it is told what each byte of them is.        *)
(*                                                                         *)
(* A byte is a pair: what it is, and its value if the code reads it, or    *)
(* else the execution it is from.  Byte 4 stands for the channel id, which *)
(* is bytes 4 and 5.  ATT_mutator and SM_mutator write before pkt[] here   *)
(* (see Mutation), at most up to the address.                              *)
(***************************************************************************)
EXTENDS Integers

CONSTANTS MaxLens,   \* what nhwra_get_MAXLEN may return
          Payloads,  \* lengths of a payload, received or drawn
          LLID, CID, \* link layer and channel ids, received or drawn
          MaxExecs   \* bound: executions

Frame == 5                       \* 2 bytes of header, 3 of CRC

ASSUME HookBufferAssumption ==
  /\ MaxLens \subseteq Frame..14 /\ Payloads \subseteq Nat
  /\ LLID \subseteq 0..3        \* 2: start of an L2CAP packet, 3: control
  /\ CID \subseteq Nat          \* 4: ATT, 6: SM
  /\ MaxExecs \in Nat

Pos == 0..18                     \* positions in pkt[] and in the buffer

VARIABLES
  controller,                    \* built without DO_NOT_FUZZ_CONTROLLER
  pc, execs,
  radio, address,                \* MAXLEN, and whether data or advertising
  buf,                           \* the buffer of the radio
  pkt, len, mutated,             \* of the message
  ret,                           \* of mutate_strategy
  seed,                          \* the packet of the seed, and the buffer then
  received, before,              \* history: buf, and pkt before mutate_strategy
  fresh                          \* history: mutate_strategy ran on the packet

packet == <<pkt, len, mutated>>
vars == <<controller, pc, execs, radio, address, buf, packet, ret, seed, received,
          before, fresh>>

Byte(kind, n) == <<kind, n>>
Value(b) == b[2]
Blank == [k \in Pos |-> Byte("none", 0)]

Init ==
  /\ controller \in BOOLEAN /\ pc = "radio" /\ execs = 0
  /\ radio = Frame /\ address = "data" /\ buf = Blank
  /\ pkt = Blank /\ len = Frame /\ mutated = 0 /\ ret = 0
  /\ seed = [pkt |-> Blank, len |-> Frame, mutated |-> 0, radio |-> Frame, buf |-> Blank]
  /\ received = Blank /\ before = Blank /\ fresh = FALSE

-----------------------------------------------------------------------------
(* hijack_packet_recorder, up to its message *)

\* header, payload, and the rest of the buffer; the stack beyond the copy is
\* whatever it is
OnAir(p, llid, cid, e) ==
  [k \in Pos |-> CASE k = 0 -> Byte("header", llid)
                   [] k = 1 -> Byte("length", p)
                   [] k = 4 -> Byte("cid", cid)
                   [] k < 2 + p -> Byte("air", e)
                   [] OTHER -> Byte("rest", e)]

Received ==
  /\ pc = "radio" /\ execs < MaxExecs /\ execs' = execs + 1
  /\ \E r \in MaxLens, p \in Payloads, llid \in LLID, cid \in CID :
       /\ p <= r
       /\ radio' = r /\ len' = p + Frame /\ mutated' = 0
       /\ buf' = OnAir(p, llid, cid, execs')
  /\ address' \in {"data", "advertising"}
  /\ pkt' = buf' /\ received' = buf' /\ before' = buf'
  /\ pc' = "replace" /\ fresh' = FALSE
  /\ UNCHANGED <<controller, ret, seed>>

-----------------------------------------------------------------------------
(* the interceptor: copy_ble_pkt, and mutate_pkt of mutator_full_stack2.c *)

Least(a, b) == IF a < b THEN a ELSE b

\* the bytes of the seed's packet that fit the radio
CopyBytes_bad(n) == pkt' = [k \in Pos |-> IF k < len THEN seed.pkt[k] ELSE pkt[k]]
CopyBytes(n) == pkt' = [k \in Pos |-> IF k < n THEN seed.pkt[k] ELSE pkt[k]]

Replaced ==
  /\ pc = "replace" /\ pc' = "select"
  /\ IF seed.mutated = 1
       THEN /\ len' = Least(seed.len, radio + Frame) /\ mutated' = 1
            /\ CopyBytes(len')
       ELSE UNCHANGED packet
  /\ before' = pkt'
  /\ UNCHANGED <<controller, execs, radio, address, buf, ret, seed, received, fresh>>

NotSelected ==
  /\ pc = "select" /\ pc' = "answer"
  /\ UNCHANGED <<controller, execs, radio, address, buf, packet, ret, seed, received,
                 before, fresh>>

FieldLength ==
  /\ pc = "select" /\ len # Frame
  /\ pc' = IF address = "data" THEN "data" ELSE "advertising"
  /\ len' \in {len} \cup {p + Frame : p \in {q \in Payloads : q <= radio}}
  /\ fresh' = TRUE
  /\ UNCHANGED <<controller, execs, radio, address, buf, pkt, mutated, ret, seed,
                 received, before>>

\* get_upper_layer_type_for_zephyr: the length it reads is the one in the
\* header, of before FieldLength
TopLayer ==
  CASE Value(pkt[0]) = 3 \/ Value(pkt[1]) < 4 -> "LL"
    [] Value(pkt[0]) # 2 -> "L2CAP"
    [] Value(pkt[4]) = 4 -> "ATT"
    [] Value(pkt[4]) = 6 -> "SM"
    [] OTHER -> "L2CAP"

\* which mutators mutate_strategy may draw
Drawn == CASE TopLayer = "LL" -> {"LL"}
           [] TopLayer = "L2CAP" -> {"LL", "L2CAP"}
           [] OTHER -> {"LL", "L2CAP", TopLayer}

PayloadLen == len - Frame

\* mutate_havoc on n bytes from first on: any of them, of which none and all
\* are enough here
Havoc(bytes, first, n) ==
  {bytes} \cup {[k \in Pos |-> IF k \notin first..(first + n - 1) THEN bytes[k]
                               ELSE IF k = 4 THEN Byte("cid", c) ELSE Byte("drawn", execs)]
                : c \in CID}

NewHeader(bytes) == {[bytes EXCEPT ![0] = Byte("header", l)] : l \in LLID}

Mutates(bytes) == pkt' \in bytes /\ ret' = 1
Nothing(r) == UNCHANGED pkt /\ ret' = r

\* LL_data_mutator and LL_advertising_mutator
LLMutator_bad ==
  IF PayloadLen <= 0 THEN pkt' \in NewHeader(pkt) /\ ret' = 0
  ELSE Mutates(UNION {Havoc(b, 2, PayloadLen) : b \in NewHeader(pkt)})
LLMutator ==
  IF PayloadLen <= 0 THEN Nothing(0)
  ELSE Mutates(UNION {Havoc(b, 2, PayloadLen) : b \in NewHeader(pkt)})

L2CAPRoom_bad == IF PayloadLen > 0 THEN 1 ELSE 0
L2CAPRoom == PayloadLen - 4

NewChannel(bytes) == {bytes} \cup {[bytes EXCEPT ![4] = Byte("cid", c)] : c \in CID}

L2CAPMutator ==
  IF L2CAPRoom <= 0 THEN Nothing(0)
  ELSE \/ Nothing(1)
       \/ \E n \in 1..L2CAPRoom : Mutates(UNION {Havoc(b, 6, n) : b \in NewChannel(pkt)})

DataLayer ==
  /\ pc = "data" /\ pc' = "mark"
  /\ \/ Nothing(0)
     \/ LLMutator
     \/ "L2CAP" \in Drawn /\ L2CAPMutator
     \/ TopLayer \in {"ATT", "SM"} /\ Nothing(1)
  /\ UNCHANGED <<controller, execs, radio, address, buf, len, mutated, seed, received,
                 before, fresh>>

AdvertisingLayer ==
  /\ pc = "advertising" /\ pc' = "mark"
  /\ IF controller THEN LLMutator ELSE Nothing(0)
  /\ UNCHANGED <<controller, execs, radio, address, buf, len, mutated, seed, received,
                 before, fresh>>

\* the length in the header, and the mark; the length kept in 8 bits to be
\* compared was taken after the draw and differs only above 255
Marked ==
  /\ pc = "mark" /\ pc' = "answer"
  /\ pkt' = IF address = "data" \/ controller
              THEN [pkt EXCEPT ![1] = Byte("length", PayloadLen)] ELSE pkt
  /\ mutated' = IF ret # 0 \/ len % 256 # len THEN 1 ELSE mutated
  /\ ret' = 0
  /\ UNCHANGED <<controller, execs, radio, address, buf, len, seed, received, before,
                 fresh>>

-----------------------------------------------------------------------------
(* hijack_packet_recorder after its answer, and the record as a seed *)

Given == Least(radio, PayloadLen % 256)

\* buf[0] and the payload; what is copied starts with the header of the packet
WriteBack ==
  [k \in Pos |-> IF k = 0 THEN Byte("length", Given)
                 ELSE IF k \in 2..(Given + 1) THEN pkt[k - 2] ELSE buf[k]]

Answered ==
  /\ pc = "answer" /\ pc' = "written"
  /\ buf' = IF mutated = 1 THEN WriteBack ELSE buf
  /\ UNCHANGED <<controller, execs, radio, address, packet, ret, seed, received,
                 before, fresh>>

\* what is left of the packet is not used again
Kept ==
  /\ pc = "written" /\ pc' = "radio"
  /\ seed' \in {seed, [pkt |-> pkt, len |-> len, mutated |-> mutated, radio |-> radio,
                       buf |-> buf]}
  /\ buf' = Blank /\ pkt' = Blank /\ len' = Frame /\ mutated' = 0
  /\ received' = Blank /\ before' = Blank /\ fresh' = FALSE
  /\ radio' = Frame /\ address' = "data"
  /\ UNCHANGED <<controller, execs, ret>>

Next ==
  \/ Received \/ Replaced \/ NotSelected \/ FieldLength \/ DataLayer
  \/ AdvertisingLayer \/ Marked \/ Answered \/ Kept

Spec == Init /\ [][Next]_vars

-----------------------------------------------------------------------------
(* Properties *)

\* What a seed's mutated packet gives the target is, byte for byte, what it
\* gave when it was recorded, if the radio takes it and it is not mutated
\* again: no byte of the packet it replaces, nor of the hook's stack.  The
\* length byte of the buffer is left out, which the hook does not write.
ReplayExact ==
  pc = "written" /\ seed.mutated = 1 /\ ~fresh /\ radio >= seed.radio =>
    \A k \in Pos \ {1} : k < seed.len - 3 => buf[k] = seed.buf[k]

\* A packet the mutator has not marked, which the hook then leaves alone, has
\* the bytes it was received with, but for the length in its header: no mutator
\* writes and says that it did not.
UnmarkedAsReceived ==
  pc = "answer" /\ mutated = 0 =>
    \A k \in Pos \ {1} : pkt[k] = received[k]

\* The layer is chosen by the length in the header, while the length of the
\* packet may have been drawn anew: no mutator writes beyond the latter for it.
WritesInPacket ==
  pc = "answer" /\ fresh =>
    \A k \in Pos : pkt[k] # before[k] => k < len - 3
=============================================================================
