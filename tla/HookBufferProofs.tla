-------------------------- MODULE HookBufferProofs --------------------------
(***************************************************************************)
(* The safety of HookBuffer, for every value of its constants.             *)
(***************************************************************************)
EXTENDS HookBuffer, TLAPS

Kind == {"none", "header", "length", "cid", "air", "rest", "drawn"}
Content == [Pos -> Kind \X Nat]
Bit == {0, 1}
Places == {"radio", "replace", "select", "data", "advertising", "mark", "answer", "written"}

\* A length is at most what fits the radio, and so fits 8 bits.
Types ==
  /\ controller \in BOOLEAN /\ pc \in Places /\ execs \in Nat
  /\ radio \in Frame..14 /\ len \in Frame..(radio + Frame)
  /\ mutated \in Bit /\ ret \in Bit /\ fresh \in BOOLEAN
  /\ buf \in Content /\ pkt \in Content /\ received \in Content /\ before \in Content
  /\ seed \in [pkt : Content, len : Frame..19, mutated : Bit, radio : Frame..14, buf : Content]

\* Where the mutator stands.
Course ==
  /\ pc \in {"data", "advertising", "mark"} => fresh
  /\ pc \in {"replace", "select"} => ~fresh
  /\ pc # "mark" => ret = 0
  /\ pc = "replace" => mutated = 0

\* What differs from the packet received, while it is not marked.
Unmarked ==
  /\ pc \in {"replace", "select", "data", "advertising"} /\ mutated = 0 => pkt = received
  /\ pc = "mark" /\ mutated = 0 /\ ret = 0 => pkt = received
  /\ UnmarkedAsReceived

\* What differs from the packet the mutator was given.
Within == \A k \in Pos : pkt[k] # before[k] => k < len - 3

Written ==
  /\ pc \in {"select", "data", "advertising"} => pkt = before
  /\ pc = "mark" \/ (pc = "answer" /\ fresh) => Within

\* The bytes of the buffer b that a marked packet p of length n gives.
Gives(p, n, b) ==
  \A k \in Pos \ {1} :
    k < n - 3 => b[k] = IF k = 0 THEN Byte("length", n - Frame) ELSE p[k - 2]

\* A seed gives what it gave, and the packet that replaces another is its own.
SameAsSeed == mutated = 1 /\ len = seed.len /\ \A k \in Pos : k < len => pkt[k] = seed.pkt[k]

Replay ==
  /\ seed.mutated = 1 => Gives(seed.pkt, seed.len, seed.buf) /\ seed.len <= seed.radio + Frame
  /\ pc = "written" /\ mutated = 1 => Gives(pkt, len, buf)
  /\ /\ pc \in {"select", "answer", "written"} /\ ~fresh
     /\ seed.mutated = 1 /\ radio >= seed.radio
     => SameAsSeed

IInv == Types /\ Course /\ Unmarked /\ Written /\ Replay

-----------------------------------------------------------------------------
(* Lemmas *)

LEMMA Bounds ==
  /\ MaxLens \subseteq Frame..14 /\ Payloads \subseteq Nat /\ LLID \subseteq Nat
  /\ CID \subseteq Nat /\ MaxExecs \in Nat
BY HookBufferAssumption DEF Frame

LEMMA ByteType ==
  ASSUME NEW kind \in Kind, NEW n \in Nat
  PROVE  Byte(kind, n) \in Kind \X Nat
BY DEF Byte

LEMMA BlankType == Blank \in Content
<1>1. Byte("none", 0) \in Kind \X Nat
  BY ByteType DEF Kind
<1> QED
  BY <1>1 DEF Blank, Content

LEMMA OnAirType ==
  ASSUME NEW p \in Nat, NEW l \in Nat, NEW c \in Nat, NEW e \in Nat
  PROVE  OnAir(p, l, c, e) \in Content
<1>1. /\ Byte("header", l) \in Kind \X Nat /\ Byte("length", p) \in Kind \X Nat
      /\ Byte("cid", c) \in Kind \X Nat /\ Byte("air", e) \in Kind \X Nat
      /\ Byte("rest", e) \in Kind \X Nat
  BY ByteType DEF Kind
<1> QED
  BY <1>1 DEF OnAir, Content

\* mutate_havoc leaves what is not in its area.
LEMMA HavocWithin ==
  ASSUME NEW b \in Content, NEW f \in Nat, NEW n \in Nat, NEW h \in Havoc(b, f, n), execs \in Nat
  PROVE  /\ h \in Content
         /\ \A k \in Pos : h[k] # b[k] => k \in f..(f + n - 1)
<1>1. \A c \in CID : Byte("cid", c) \in Kind \X Nat
  BY ByteType, Bounds DEF Kind
<1>2. Byte("drawn", execs) \in Kind \X Nat
  BY ByteType DEF Kind
<1>3. CASE h = b
  BY <1>3
<1>4. CASE h # b
  <2>1. PICK c \in CID : h = [k \in Pos |-> IF k \notin f..(f + n - 1) THEN b[k]
                                  ELSE IF k = 4 THEN Byte("cid", c) ELSE Byte("drawn", execs)]
    BY <1>4 DEF Havoc
  <2> QED
    BY <1>1, <1>2, <2>1 DEF Content
<1> QED
  BY <1>3, <1>4

LEMMA NewHeaderWithin ==
  ASSUME NEW b \in Content, NEW h \in NewHeader(b)
  PROVE  h \in Content /\ \A k \in Pos : h[k] # b[k] => k = 0
<1>1. PICK l \in LLID : h = [b EXCEPT ![0] = Byte("header", l)]
  BY DEF NewHeader
<1>2. Byte("header", l) \in Kind \X Nat
  BY ByteType, Bounds DEF Kind
<1> QED
  BY <1>1, <1>2 DEF Content

LEMMA NewChannelWithin ==
  ASSUME NEW b \in Content, NEW h \in NewChannel(b)
  PROVE  h \in Content /\ \A k \in Pos : h[k] # b[k] => k = 4
<1>1. CASE h = b
  BY <1>1
<1>2. CASE h # b
  <2>1. PICK c \in CID : h = [b EXCEPT ![4] = Byte("cid", c)]
    BY <1>2 DEF NewChannel
  <2>2. Byte("cid", c) \in Kind \X Nat
    BY ByteType, Bounds DEF Kind
  <2> QED
    BY <2>1, <2>2 DEF Content
<1> QED
  BY <1>1, <1>2

\* What a layer's mutator returns, and where it has written.
Outcome ==
  /\ pkt' \in Content /\ ret' \in Bit
  /\ ret' = 0 => pkt' = pkt
  /\ \A k \in Pos : pkt'[k] # pkt[k] => k < len - 3

LEMMA NothingOutcome ==
  ASSUME Types, NEW r \in Bit, Nothing(r)
  PROVE  Outcome
BY DEF Types, Nothing, Outcome

LEMMA LLOutcome ==
  ASSUME Types, LLMutator
  PROVE  Outcome
<1>0. len \in Nat /\ pkt \in Content /\ execs \in Nat
  BY DEF Types, Frame
<1>1. CASE PayloadLen <= 0
  <2>1. Nothing(0)
    BY <1>1 DEF LLMutator
  <2> QED
    BY <2>1, NothingOutcome DEF Bit
<1>2. CASE PayloadLen > 0
  <2>1. PayloadLen \in Nat /\ ~(PayloadLen <= 0)
    BY <1>0, <1>2 DEF PayloadLen, Frame
  <2>2. Mutates(UNION {Havoc(b, 2, PayloadLen) : b \in NewHeader(pkt)})
    BY <2>1 DEF LLMutator
  <2>3. ret' = 1 /\ pkt' \in UNION {Havoc(b, 2, PayloadLen) : b \in NewHeader(pkt)}
    BY <2>2 DEF Mutates
  <2>4. PICK b \in NewHeader(pkt) : pkt' \in Havoc(b, 2, PayloadLen)
    BY <2>3
  <2>5. b \in Content /\ \A k \in Pos : b[k] # pkt[k] => k = 0
    BY <1>0, NewHeaderWithin
  <2>6. pkt' \in Content /\ \A k \in Pos : pkt'[k] # b[k] => k \in 2..(2 + PayloadLen - 1)
    BY <1>0, <2>1, <2>4, <2>5, HavocWithin
  <2>7. \A k \in Pos : pkt'[k] # pkt[k] => k < len - 3
    BY <1>0, <2>1, <2>5, <2>6 DEF PayloadLen, Frame, Pos
  <2> QED
    BY <2>3, <2>6, <2>7 DEF Outcome, Bit
<1> QED
  BY <1>0, <1>1, <1>2 DEF PayloadLen, Frame

LEMMA L2CAPOutcome ==
  ASSUME Types, L2CAPMutator
  PROVE  Outcome
<1>0. len \in Nat /\ pkt \in Content /\ execs \in Nat
  BY DEF Types, Frame
<1>1. CASE Nothing(0)
  BY <1>1, NothingOutcome DEF Bit
<1>2. CASE Nothing(1)
  BY <1>2, NothingOutcome DEF Bit
<1>3. CASE ~Nothing(0) /\ ~Nothing(1)
  <2>1. L2CAPRoom > 0 /\ L2CAPRoom \in Nat
    BY <1>0, <1>3 DEF L2CAPMutator, L2CAPRoom, PayloadLen, Frame
  <2>2. PICK n \in 1..L2CAPRoom : Mutates(UNION {Havoc(b, 6, n) : b \in NewChannel(pkt)})
    BY <1>3, <2>1 DEF L2CAPMutator
  <2>3. ret' = 1 /\ pkt' \in UNION {Havoc(b, 6, n) : b \in NewChannel(pkt)}
    BY <2>2 DEF Mutates
  <2>4. PICK b \in NewChannel(pkt) : pkt' \in Havoc(b, 6, n)
    BY <2>3
  <2>5. b \in Content /\ \A k \in Pos : b[k] # pkt[k] => k = 4
    BY <1>0, NewChannelWithin
  <2>6. pkt' \in Content /\ \A k \in Pos : pkt'[k] # b[k] => k \in 6..(6 + n - 1)
    BY <1>0, <2>1, <2>4, <2>5, HavocWithin
  <2>7. \A k \in Pos : pkt'[k] # pkt[k] => k < len - 3
    BY <1>0, <2>1, <2>5, <2>6 DEF L2CAPRoom, PayloadLen, Frame, Pos
  <2> QED
    BY <2>3, <2>6, <2>7 DEF Outcome, Bit
<1> QED
  BY <1>1, <1>2, <1>3

-----------------------------------------------------------------------------
(* Every step keeps the invariant *)

LEMMA InitIInv == Init => IInv
<1> SUFFICES ASSUME Init PROVE IInv
  OBVIOUS
<1>1. Types
  <2>1. controller \in BOOLEAN /\ fresh \in BOOLEAN
    BY DEF Init
  <2>2. /\ pc \in Places /\ execs \in Nat /\ radio \in Frame..14 /\ len \in Frame..(radio + Frame)
        /\ mutated \in Bit /\ ret \in Bit
    BY DEF Init, Places, Bit, Frame
  <2>3. buf \in Content /\ pkt \in Content /\ received \in Content /\ before \in Content
    BY BlankType DEF Init
  <2>4. seed \in [pkt : Content, len : Frame..19, mutated : Bit, radio : Frame..14, buf : Content]
    BY BlankType DEF Init, Bit, Frame
  <2> QED
    BY <2>1, <2>2, <2>3, <2>4 DEF Types
<1>2. Course /\ Unmarked /\ Written /\ Replay
  BY DEF Init, Course, Unmarked, UnmarkedAsReceived, Written, Replay
<1> QED
  BY <1>1, <1>2 DEF IInv

LEMMA ReceivedIInv == IInv /\ Received => IInv'
<1> SUFFICES ASSUME IInv, Received PROVE IInv'
  OBVIOUS
<1> USE DEF IInv
<1>1. PICK r \in MaxLens, p \in Payloads, l \in LLID, c \in CID :
        p <= r /\ radio' = r /\ len' = p + Frame /\ mutated' = 0 /\ buf' = OnAir(p, l, c, execs')
  BY DEF Received
<1>2. execs' \in Nat /\ r \in Frame..14 /\ p \in Nat /\ l \in Nat /\ c \in Nat
  BY Bounds DEF Types, Received
<1>3. buf' \in Content /\ pkt' = buf' /\ received' = buf' /\ before' = buf'
  BY <1>1, <1>2, OnAirType DEF Received
<1>4. Types'
  <2>1. controller' \in BOOLEAN /\ fresh' \in BOOLEAN
    BY DEF Types, Received
  <2>2. /\ pc' \in Places /\ radio' \in Frame..14 /\ len' \in Frame..(radio' + Frame)
        /\ mutated' \in Bit /\ ret' \in Bit /\ seed' = seed
    BY <1>1, <1>2 DEF Types, Received, Places, Bit, Frame
  <2> QED
    BY <1>2, <1>3, <2>1, <2>2 DEF Types
<1>5. Course' /\ Unmarked' /\ Written'
  BY <1>1, <1>3 DEF Types, Course, Unmarked, UnmarkedAsReceived, Written, Received
<1>6. Replay'
  BY DEF Replay, Received, Gives
<1> QED
  BY <1>4, <1>5, <1>6

LEMMA ReplacedIInv == IInv /\ Replaced => IInv'
<1> SUFFICES ASSUME IInv, Replaced PROVE IInv'
  OBVIOUS
<1> USE DEF IInv
<1>1. /\ pc = "replace" /\ pc' = "select" /\ before' = pkt' /\ ~fresh /\ mutated = 0
      /\ UNCHANGED <<controller, execs, radio, address, buf, ret, seed, received, fresh>>
  BY DEF Replaced, Course
<1>2. CASE seed.mutated = 1
  <2>1. /\ len' = Least(seed.len, radio + Frame) /\ mutated' = 1
        /\ pkt' = [k \in Pos |-> IF k < len' THEN seed.pkt[k] ELSE pkt[k]]
    BY <1>2 DEF Replaced, CopyBytes
  <2>2. len' \in Frame..(radio + Frame) /\ len' <= seed.len
    BY <2>1 DEF Types, Least, Frame
  <2>3. pkt' \in Content
    BY <2>1 DEF Types, Content
  <2>4. Types'
    BY <1>1, <2>1, <2>2, <2>3 DEF Types, Places, Bit
  <2>5. Course' /\ Unmarked' /\ Written'
    BY <1>1, <2>1 DEF Course, Unmarked, UnmarkedAsReceived, Written
  <2>6. radio >= seed.radio => len' = seed.len
    BY <1>2, <2>1 DEF Types, Replay, Least, Frame
  <2>7. Replay'
    BY <1>1, <2>1, <2>6 DEF Replay, SameAsSeed, Gives
  <2> QED
    BY <2>4, <2>5, <2>7
<1>3. CASE seed.mutated # 1
  <2>1. UNCHANGED packet
    BY <1>3 DEF Replaced
  <2>2. Types' /\ Course' /\ Unmarked' /\ Written'
    BY <1>1, <2>1 DEF Types, Course, Unmarked, UnmarkedAsReceived, Written, packet, Places
  <2>3. Replay'
    BY <1>1, <1>3, <2>1 DEF Replay, packet
  <2> QED
    BY <2>2, <2>3
<1> QED
  BY <1>2, <1>3

LEMMA NotSelectedIInv == IInv /\ NotSelected => IInv'
<1> SUFFICES ASSUME IInv, NotSelected PROVE IInv'
  OBVIOUS
<1> USE DEF IInv
<1>1. /\ pc = "select" /\ pc' = "answer" /\ ~fresh
      /\ UNCHANGED <<controller, execs, radio, address, buf, packet, ret, seed, received,
                     before, fresh>>
  BY DEF NotSelected, Course
<1>2. Types' /\ Course' /\ Unmarked' /\ Written'
  BY <1>1 DEF Types, Course, Unmarked, UnmarkedAsReceived, Written, packet, Places
<1>3. Replay'
  BY <1>1 DEF Replay, packet, SameAsSeed, Gives
<1> QED
  BY <1>2, <1>3

LEMMA FieldLengthIInv == IInv /\ FieldLength => IInv'
<1> SUFFICES ASSUME IInv, FieldLength PROVE IInv'
  OBVIOUS
<1> USE DEF IInv
<1>1. /\ pc = "select" /\ pc' \in {"data", "advertising"} /\ fresh'
      /\ UNCHANGED <<controller, execs, radio, address, buf, pkt, mutated, ret, seed,
                     received, before>>
  BY DEF FieldLength
<1>2. len' \in Frame..(radio + Frame)
  BY Bounds DEF FieldLength, Types, Frame
<1>3. Types'
  BY <1>1, <1>2 DEF Types, Places, FieldLength
<1>4. Course' /\ Unmarked' /\ Written'
  BY <1>1 DEF Course, Unmarked, UnmarkedAsReceived, Written
<1>5. Replay'
  BY <1>1 DEF Replay, Gives
<1> QED
  BY <1>3, <1>4, <1>5

\* The steps of all layers.
LEMMA LayerIInv ==
  ASSUME IInv, pc \in {"data", "advertising"}, pc' = "mark", Outcome,
         UNCHANGED <<controller, execs, radio, address, buf, len, mutated, seed, received,
                     before, fresh>>
  PROVE  IInv'
<1> USE DEF IInv
<1>1. Types' /\ Course'
  BY DEF Types, Course, Outcome, Places
<1>2. Unmarked'
  BY DEF Unmarked, UnmarkedAsReceived, Outcome
<1>3. Written'
  BY DEF Written, Within, Outcome
<1>4. Replay'
  BY DEF Replay, Gives
<1> QED
  BY <1>1, <1>2, <1>3, <1>4

LEMMA DataLayerIInv == IInv /\ DataLayer => IInv'
<1> SUFFICES ASSUME IInv, DataLayer PROVE IInv'
  OBVIOUS
<1>1. Outcome
  BY NothingOutcome, LLOutcome, L2CAPOutcome DEF IInv, DataLayer, Bit
<1> QED
  BY <1>1, LayerIInv DEF DataLayer

LEMMA AdvertisingLayerIInv == IInv /\ AdvertisingLayer => IInv'
<1> SUFFICES ASSUME IInv, AdvertisingLayer PROVE IInv'
  OBVIOUS
<1>1. Outcome
  BY NothingOutcome, LLOutcome DEF IInv, AdvertisingLayer, Bit
<1> QED
  BY <1>1, LayerIInv DEF AdvertisingLayer

LEMMA MarkedIInv == IInv /\ Marked => IInv'
<1> SUFFICES ASSUME IInv, Marked PROVE IInv'
  OBVIOUS
<1> USE DEF IInv
<1>1. /\ pc = "mark" /\ pc' = "answer" /\ ret' = 0 /\ fresh
      /\ mutated' \in Bit /\ (mutated' = 0 => mutated = 0 /\ ret = 0)
      /\ UNCHANGED <<controller, execs, radio, address, buf, len, seed, received, before,
                     fresh>>
  BY DEF Marked, Course, Types, Bit
<1>2. PayloadLen \in Nat /\ 1 < len - 3
  BY DEF Types, PayloadLen, Frame
<1>3. pkt' \in Content /\ \A k \in Pos \ {1} : pkt'[k] = pkt[k]
  <2>1. Byte("length", PayloadLen) \in Kind \X Nat
    BY <1>2, ByteType DEF Kind
  <2>2. pkt' = pkt \/ pkt' = [pkt EXCEPT ![1] = Byte("length", PayloadLen)]
    BY DEF Marked
  <2> QED
    BY <2>1, <2>2 DEF Types, Content
<1>4. Types' /\ Course'
  BY <1>1, <1>3 DEF Types, Course, Places, Bit
<1>5. Unmarked'
  BY <1>1, <1>3 DEF Unmarked, UnmarkedAsReceived
<1>6. Written'
  BY <1>1, <1>2, <1>3 DEF Written, Within
<1>7. Replay'
  BY <1>1 DEF Replay, Gives
<1> QED
  BY <1>4, <1>5, <1>6, <1>7

LEMMA AnsweredIInv == IInv /\ Answered => IInv'
<1> SUFFICES ASSUME IInv, Answered PROVE IInv'
  OBVIOUS
<1> USE DEF IInv
<1>1. /\ pc = "answer" /\ pc' = "written"
      /\ UNCHANGED <<controller, execs, radio, address, packet, ret, seed, received, before,
                     fresh>>
  BY DEF Answered
<1>2. Given = len - Frame /\ Given \in Nat /\ Given <= 14
  BY DEF Types, Given, PayloadLen, Least, Frame
<1>3. WriteBack \in Content
  <2>1. Byte("length", Given) \in Kind \X Nat
    BY <1>2, ByteType DEF Kind
  <2>2. \A k \in Pos : k \in 2..(Given + 1) => k - 2 \in Pos
    BY <1>2 DEF Pos
  <2> QED
    BY <2>1, <2>2 DEF WriteBack, Types, Content
<1>4. Gives(pkt, len, WriteBack)
  BY <1>2 DEF Gives, WriteBack, Types, Pos, Frame
<1>5. Types' /\ Course' /\ Unmarked' /\ Written'
  BY <1>1, <1>3 DEF Answered, Types, Course, Unmarked, UnmarkedAsReceived, Written, packet,
                    Places
<1>6. Replay'
  BY <1>1, <1>4 DEF Answered, Replay, packet, SameAsSeed, Gives
<1> QED
  BY <1>5, <1>6

LEMMA KeptIInv == IInv /\ Kept => IInv'
<1> SUFFICES ASSUME IInv, Kept PROVE IInv'
  OBVIOUS
<1> USE DEF IInv
<1>1. /\ pc = "written" /\ pc' = "radio"
      /\ buf' = Blank /\ pkt' = Blank /\ len' = Frame /\ mutated' = 0
      /\ received' = Blank /\ before' = Blank /\ fresh' = FALSE
      /\ radio' = Frame /\ UNCHANGED <<controller, execs, ret>>
  BY DEF Kept
<1>2. seed' = seed \/ seed' = [pkt |-> pkt, len |-> len, mutated |-> mutated,
                               radio |-> radio, buf |-> buf]
  BY DEF Kept
<1>3. Types'
  <2>1. controller' \in BOOLEAN /\ fresh' \in BOOLEAN
    BY <1>1 DEF Types
  <2>2. /\ pc' \in Places /\ execs' \in Nat /\ radio' \in Frame..14
        /\ len' \in Frame..(radio' + Frame) /\ mutated' \in Bit /\ ret' \in Bit
    BY <1>1 DEF Types, Places, Bit, Frame
  <2>3. buf' \in Content /\ pkt' \in Content /\ received' \in Content /\ before' \in Content
    BY <1>1, BlankType
  <2>4. seed' \in [pkt : Content, len : Frame..19, mutated : Bit, radio : Frame..14, buf : Content]
    BY <1>2 DEF Types, Frame
  <2> QED
    BY <2>1, <2>2, <2>3, <2>4 DEF Types
<1>4. Course' /\ Unmarked' /\ Written'
  BY <1>1 DEF Course, Unmarked, UnmarkedAsReceived, Written
<1>5. Replay'
  BY <1>1, <1>2 DEF Replay, Types, Frame, Gives
<1> QED
  BY <1>3, <1>4, <1>5

LEMMA StutterIInv == IInv /\ UNCHANGED vars => IInv'
BY DEF vars, packet, IInv, Types, Course, Unmarked, UnmarkedAsReceived, Written, Within,
       Replay, SameAsSeed, Gives

\* The invariant holds in every behaviour of HookBuffer.
THEOREM Invariance == Spec => []IInv
<1>1. IInv /\ [Next]_vars => IInv'
  BY ReceivedIInv, ReplacedIInv, NotSelectedIInv, FieldLengthIInv, DataLayerIInv,
     AdvertisingLayerIInv, MarkedIInv, AnsweredIInv, KeptIInv, StutterIInv DEF Next
<1> QED
  BY InitIInv, <1>1, PTL DEF Spec

-----------------------------------------------------------------------------
(* Theorems *)

\* The mutated packet of a seed gives the target the bytes it gave when it was
\* recorded, under any MAXLEN that takes it: copy_ble_pkt and the hook.
THEOREM ReplaysAreExact == Spec => []ReplayExact
<1>1. IInv => ReplayExact
  BY DEF IInv, Types, Replay, SameAsSeed, Gives, ReplayExact, Pos, Frame
<1> QED
  BY Invariance, <1>1, PTL

\* What is not marked is as it was received, but for the length in the header.
THEOREM UnmarkedIsAsReceived == Spec => []UnmarkedAsReceived
<1>1. IInv => UnmarkedAsReceived
  BY DEF IInv, Unmarked
<1> QED
  BY Invariance, <1>1, PTL

\* Whatever layer the old length has led to, no mutator writes beyond the new.
THEOREM MutatorsWriteInPacket == Spec => []WritesInPacket
<1>1. IInv => WritesInPacket
  BY DEF IInv, Written, Within, WritesInPacket
<1> QED
  BY Invariance, <1>1, PTL
=============================================================================
