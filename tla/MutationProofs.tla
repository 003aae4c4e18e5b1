--------------------------- MODULE MutationProofs ---------------------------
(* Proofs about Mutation: lengths through copy, mutation and the hook. *)
EXTENDS Mutation, TLAPS

Seeds == [len : Nat, mutated : {0, 1}, given : Int, radio : Frame..BLE_PKT_MAX_LEN,
          spoilt : BOOLEAN]

Types ==
  /\ radio \in Frame..BLE_PKT_MAX_LEN
  /\ len \in Nat /\ mutated \in {0, 1} /\ given \in Int
  /\ fresh \in BOOLEAN /\ spoilt \in BOOLEAN
  /\ payload_len \in Int /\ seed \in Seeds

\* A length nobody wrote over is one the radio can carry.
Carried == ~spoilt => Frame <= len /\ len <= radio + Frame

\* What the hook made of a packet, when it was recorded and now.
SeedGiven ==
  /\ ~seed.spoilt => Frame <= seed.len /\ seed.len <= seed.radio + Frame
  /\ seed.mutated = 1 /\ ~seed.spoilt => seed.given = seed.len - Frame
  /\ seed.mutated = 0 => seed.given = AsReceived

Given ==
  pc = "written" => given = IF mutated = 1 THEN WriteBack ELSE AsReceived

\* An untouched packet is the one of the seed, or the one received.
Untouched ==
  /\ pc = "replace" => mutated = 0
  /\ pc \in {"layer", "havoc", "mark"} => fresh
  /\ pc \in {"select", "answer", "written"} /\ ~fresh =>
       /\ mutated = seed.mutated
       /\ seed.mutated = 1 => len = Least(seed.len, radio + Frame) /\ spoilt = seed.spoilt

LengthInv == Types /\ Carried /\ SeedGiven /\ Given /\ Untouched

LEMMA NarrowIsNat == ASSUME NEW x \in Int PROVE Narrow(x) \in 0..255
BY DEF Narrow

LEMMA NarrowSame == ASSUME NEW x \in 0..255 PROVE Narrow(x) = x
BY DEF Narrow

LEMMA Start == Init => LengthInv
<1> SUFFICES ASSUME Init PROVE LengthInv
  OBVIOUS
<1>1. /\ seed.len = 5 /\ seed.mutated = 0 /\ seed.given = -1 /\ ~seed.spoilt
      /\ seed.radio = 255 /\ seed \in Seeds
  BY DEF Init, Seeds, Frame, BLE_PKT_MAX_LEN, AsReceived
<1>2. /\ radio = 255 /\ len = 5 /\ mutated = 0 /\ given = -1 /\ payload_len = 0
      /\ fresh = FALSE /\ spoilt = FALSE /\ pc = "radio"
  BY DEF Init, Frame, BLE_PKT_MAX_LEN, AsReceived
<1>3. Types
  <2>1. radio \in Frame..BLE_PKT_MAX_LEN /\ len \in Nat /\ mutated \in {0, 1}
    BY <1>2 DEF Frame, BLE_PKT_MAX_LEN
  <2>2. given \in Int /\ payload_len \in Int
    BY <1>2
  <2>3. fresh \in BOOLEAN /\ spoilt \in BOOLEAN
    BY <1>2
  <2> QED BY <1>1, <2>1, <2>2, <2>3 DEF Types
<1>4. Carried /\ SeedGiven
  BY <1>1, <1>2 DEF Carried, SeedGiven, Frame, AsReceived
<1>5. Given /\ Untouched
  BY <1>2 DEF Given, Untouched
<1> QED BY <1>3, <1>4, <1>5 DEF LengthInv

\* A round may put other bytes into the length, and then says so.
LEMMA HavocWrites ==
  ASSUME Havoc
  PROVE  (len' \in Garbage /\ spoilt' = TRUE) \/ UNCHANGED <<len, spoilt>>
<1>1. (\E t : Written(t)) => (len' \in Garbage /\ spoilt' = TRUE) \/ UNCHANGED <<len, spoilt>>
  BY DEF Written
<1>2. CASE FieldRound(Size)
  <2>1. \E t : Written(t)
    BY <1>2 DEF FieldRound
  <2> QED BY <1>1, <2>1
<1>3. CASE RandomRound(Size) \/ AflRound(Size)
  <2>1. \E t : Written(t)
    BY <1>3 DEF RandomRound, AflRound
  <2> QED BY <1>1, <2>1
<1> QED BY <1>2, <1>3 DEF Havoc

LEMMA TypesKept == Types /\ [Next]_mvars => Types'
<1> SUFFICES ASSUME Types, [Next]_mvars PROVE Types'
  OBVIOUS
<1> USE DEF Types, packet, strategy, world
<1>1. CASE Received
  <2>1. PICK r \in MaxLens, p \in Payloads :
          radio' = r /\ len' = p + Frame /\ mutated' = 0
    BY <1>1 DEF Received
  <2>2. radio' \in Frame..BLE_PKT_MAX_LEN /\ len' \in Nat /\ mutated' \in {0, 1}
    BY <2>1, MutationAssumption DEF Frame
  <2>3. UNCHANGED <<seed, payload_len>> /\ fresh' = FALSE /\ spoilt' = FALSE
    BY <1>1 DEF Received
  <2>4. given' \in Int
    BY <1>1 DEF Received, AsReceived
  <2>5. fresh' \in BOOLEAN /\ spoilt' \in BOOLEAN
    BY <2>3
  <2> QED BY <2>2, <2>3, <2>4, <2>5
<1>2. CASE Replaced
  <2>1. seed.len \in Nat /\ seed.spoilt \in BOOLEAN
    BY DEF Seeds
  <2>2. UNCHANGED <<radio, seed, fresh, payload_len, given>>
    BY <1>2 DEF Replaced
  <2>3. CASE seed.mutated = 1
    <3>1. len' = Least(seed.len, radio + Frame) /\ mutated' = 1 /\ spoilt' = seed.spoilt
      BY <1>2, <2>3 DEF Replaced, CopyBlePkt
    <3>2. len' \in Nat
      BY <2>1, <3>1 DEF Least, Frame, BLE_PKT_MAX_LEN
    <3>3. mutated' \in {0, 1} /\ spoilt' \in BOOLEAN
      BY <2>1, <3>1
    <3> QED BY <2>2, <3>2, <3>3
  <2>4. CASE seed.mutated # 1
    BY <1>2, <2>2, <2>4 DEF Replaced
  <2> QED BY <2>3, <2>4
<1>3. CASE NotSelected \/ HavocEnds
  BY <1>3 DEF NotSelected, HavocEnds
<1>4. CASE FieldLength
  <2>1. len' \in Nat /\ spoilt' \in BOOLEAN
    <3>1. CASE UNCHANGED <<len, spoilt>>
      BY <3>1
    <3>2. CASE \E p \in DrawnLength : len' = p + Frame /\ spoilt' = FALSE
      <4>1. PICK p \in DrawnLength : len' = p + Frame /\ spoilt' = FALSE
        BY <3>2
      <4>2. p \in Nat
        BY <4>1, MutationAssumption DEF DrawnLength
      <4>3. len' \in Nat
        BY <4>1, <4>2 DEF Frame
      <4> QED BY <4>1, <4>3
    <3> QED BY <1>4, <3>1, <3>2 DEF FieldLength
  <2>2. payload_len' \in Int
    BY <1>4, <2>1 DEF FieldLength, Frame
  <2>3. UNCHANGED <<seed, radio, mutated, given>> /\ fresh' = TRUE
    BY <1>4 DEF FieldLength
  <2> QED BY <2>1, <2>2, <2>3
<1>5. CASE FieldLayer
  BY <1>5 DEF FieldLayer
<1>6. CASE Havoc
  <2>1. len' \in Nat /\ spoilt' \in BOOLEAN
    <3>1. CASE len' \in Garbage /\ spoilt' = TRUE
      BY <3>1, MutationAssumption
    <3>2. CASE UNCHANGED <<len, spoilt>>
      BY <3>2
    <3> QED BY <1>6, <3>1, <3>2, HavocWrites
  <2> QED BY <1>6, <2>1 DEF Havoc
<1>7. CASE Marked
  BY <1>7 DEF Marked, Idle
<1>8. CASE RandomLength
  <2>1. PICK p \in DrawnLength \cup {len - Frame} :
          p > 0 /\ len' = p + Frame /\ payload_len' = p
    BY <1>8 DEF RandomLength
  <2>2. p \in Int
    BY <2>1, MutationAssumption DEF DrawnLength, Frame
  <2>3. len' \in Nat /\ payload_len' \in Int
    BY <2>1, <2>2 DEF Frame
  <2>4. UNCHANGED <<seed, radio, mutated, given, spoilt>> /\ fresh' = TRUE
    BY <1>8 DEF RandomLength
  <2> QED BY <2>3, <2>4
<1>9. CASE AflLength
  <2>1. PICK p \in DrawnLength : len' = p + Frame /\ payload_len' = p
    BY <1>9 DEF AflLength
  <2>2. p \in Nat
    BY <2>1, MutationAssumption DEF DrawnLength
  <2>3. len' \in Nat /\ payload_len' \in Int
    BY <2>1, <2>2 DEF Frame
  <2>4. UNCHANGED <<seed, radio, mutated, given>> /\ fresh' = TRUE /\ spoilt' = FALSE
    BY <1>9 DEF AflLength
  <2>5. fresh' \in BOOLEAN /\ spoilt' \in BOOLEAN
    BY <2>4
  <2> QED BY <2>3, <2>4, <2>5
<1>10. CASE MarkedAlways
  BY <1>10 DEF MarkedAlways, Idle, AflCut, Least, Frame, BLE_PKT_MAX_LEN
<1>11. CASE Answered
  <2>1. given' \in Int
    BY <1>11, NarrowIsNat DEF Answered, WriteBack, Least, AsReceived, Frame
  <2> QED BY <1>11, <2>1 DEF Answered
<1>12. CASE Kept
  <2>1. seed' \in Seeds
    BY <1>12 DEF Kept, Seeds
  <2> QED BY <1>12, <2>1 DEF Kept
<1>13. CASE UNCHANGED mvars
  BY <1>13 DEF mvars
<1> QED
  BY <1>1, <1>2, <1>3, <1>4, <1>5, <1>6, <1>7, <1>8, <1>9, <1>10, <1>11, <1>12, <1>13
     DEF Next

LEMMA CarriedKept == Types /\ Carried /\ SeedGiven /\ [Next]_mvars => Carried'
<1> SUFFICES ASSUME Types, Carried, SeedGiven, [Next]_mvars PROVE Carried'
  OBVIOUS
<1> USE DEF packet, strategy, world, Frame, BLE_PKT_MAX_LEN
<1>1. CASE Received
  BY <1>1, MutationAssumption DEF Received, Carried
<1>2. CASE Replaced
  <2>1. radio' = radio /\ radio \in 5..255 /\ seed.len \in Nat
    BY <1>2 DEF Replaced, Types, Seeds
  <2>2. CASE seed.mutated = 1
    <3>1. len' = Least(seed.len, radio + Frame) /\ spoilt' = seed.spoilt
      BY <1>2, <2>2 DEF Replaced, CopyBlePkt
    <3> QED BY <2>1, <3>1 DEF Least, Carried, SeedGiven
  <2>3. CASE seed.mutated # 1
    BY <1>2, <2>1, <2>3 DEF Replaced, Carried
  <2> QED BY <2>2, <2>3
<1>3. CASE FieldLength
  <2>1. radio' = radio /\ radio \in Int
    BY <1>3 DEF FieldLength, Types
  <2>2. CASE UNCHANGED <<len, spoilt>>
    BY <2>1, <2>2 DEF Carried
  <2>3. CASE \E p \in DrawnLength : len' = p + Frame /\ spoilt' = FALSE
    <3>1. PICK p \in DrawnLength : len' = p + Frame
      BY <2>3
    <3>2. p \in Nat /\ p <= radio
      BY <3>1, MutationAssumption DEF DrawnLength
    <3> QED BY <2>1, <3>1, <3>2 DEF Carried
  <2> QED BY <1>3, <2>2, <2>3 DEF FieldLength
<1>4. CASE Havoc
  <2>1. radio' = radio
    BY <1>4 DEF Havoc
  <2> QED BY <1>4, <2>1, HavocWrites DEF Carried
<1>5. CASE RandomLength
  <2>1. PICK p \in DrawnLength \cup {len - Frame} : p > 0 /\ len' = p + Frame
    BY <1>5 DEF RandomLength
  <2>2. spoilt' = spoilt /\ radio' = radio /\ radio \in Int /\ len \in Int
    BY <1>5 DEF RandomLength, Types
  <2>3. ~spoilt => p \in Int /\ p <= radio
    BY <2>1, <2>2, MutationAssumption DEF DrawnLength, Carried
  <2> QED BY <2>1, <2>2, <2>3 DEF Carried
<1>6. CASE AflLength
  <2>1. PICK p \in DrawnLength : len' = p + Frame
    BY <1>6 DEF AflLength
  <2>2. p \in Nat /\ p <= radio /\ radio' = radio /\ radio \in Int
    BY <1>6, <2>1, MutationAssumption DEF DrawnLength, AflLength, Types
  <2> QED BY <2>1, <2>2 DEF Carried
<1>7. CASE MarkedAlways
  BY <1>7 DEF MarkedAlways, AflCut, Least, Carried, Types
<1>8. CASE NotSelected \/ FieldLayer \/ HavocEnds \/ Marked \/ Answered \/ Kept
  <2> UNCHANGED <<len, spoilt, radio>>
    BY <1>8 DEF NotSelected, FieldLayer, HavocEnds, Marked, Answered, Kept
  <2> QED BY DEF Carried
<1>9. CASE UNCHANGED mvars
  BY <1>9 DEF mvars, Carried
<1> QED BY <1>1, <1>2, <1>3, <1>4, <1>5, <1>6, <1>7, <1>8, <1>9 DEF Next

\* With a length the radio can carry, neither the 8 bits nor the limit cut.
LEMMA NothingToCut ==
  ASSUME Types, Carried, ~spoilt PROVE WriteBack = len - Frame
<1>1. len - Frame \in 0..255 /\ len - Frame <= radio
  BY DEF Types, Carried, Frame, BLE_PKT_MAX_LEN
<1>2. Narrow(len - Frame) = len - Frame
  BY <1>1, NarrowSame
<1> QED BY <1>1, <1>2 DEF WriteBack, Least, Types, Frame

LEMMA GivenKept ==
  Types /\ Carried /\ SeedGiven /\ Given /\ [Next]_mvars => SeedGiven' /\ Given'
<1> SUFFICES ASSUME Types, Carried, SeedGiven, Given, [Next]_mvars
             PROVE  SeedGiven' /\ Given'
  OBVIOUS
<1>1. CASE Kept
  <2>1. Given'
    BY <1>1 DEF Kept, Given
  <2>2. CASE seed' = seed
    BY <2>1, <2>2 DEF SeedGiven, AsReceived
  <2>3. CASE seed' = [len |-> len, mutated |-> mutated, given |-> given,
                      radio |-> radio, spoilt |-> spoilt]
    <3>1. pc = "written"
      BY <1>1 DEF Kept
    <3>2. mutated = 1 /\ ~spoilt => given = len - Frame
      BY <3>1, NothingToCut DEF Given
    <3>3. mutated = 0 => given = AsReceived
      BY <3>1 DEF Given
    <3> QED BY <2>1, <2>3, <3>2, <3>3 DEF SeedGiven, Carried, AsReceived
  <2> QED BY <1>1, <2>2, <2>3 DEF Kept
<1>2. CASE Answered
  <2>1. UNCHANGED <<seed, len, mutated, radio>>
    BY <1>2 DEF Answered, world, packet
  <2>2. given' = IF mutated = 1 THEN WriteBack ELSE AsReceived
    BY <1>2 DEF Answered
  <2>3. SeedGiven'
    BY <2>1 DEF SeedGiven, AsReceived
  <2>4. WriteBack' = WriteBack
    BY <2>1 DEF WriteBack, Least
  <2> QED BY <2>1, <2>2, <2>3, <2>4 DEF Given, AsReceived
<1>3. CASE ~Kept /\ ~Answered /\ Next
  <2> UNCHANGED seed /\ pc' # "written"
    BY <1>3 DEF Next, Received, Replaced, NotSelected, FieldLength, FieldLayer, Havoc,
         HavocEnds, Marked, RandomLength, AflLength, MarkedAlways, world, NoMutator,
         Empty, Handed
  <2> QED BY DEF SeedGiven, Given, AsReceived
<1>4. CASE UNCHANGED mvars
  BY <1>4 DEF mvars, packet, world, SeedGiven, Given, WriteBack, AsReceived
<1> QED BY <1>1, <1>2, <1>3, <1>4

LEMMA UntouchedKept == Types /\ Untouched /\ [Next]_mvars => Untouched'
<1> SUFFICES ASSUME Types, Untouched, [Next]_mvars PROVE Untouched'
  OBVIOUS
<1> USE DEF packet, world
<1>1. CASE Received \/ Kept
  BY <1>1 DEF Received, Kept, Untouched
<1>2. CASE Replaced
  <2>1. UNCHANGED <<seed, radio>> /\ pc = "replace" /\ pc' = "select"
    BY <1>2 DEF Replaced
  <2>2. seed.mutated \in {0, 1}
    BY DEF Types, Seeds
  <2>3. CASE seed.mutated = 1
    <3>1. len' = Least(seed.len, radio + Frame) /\ mutated' = 1 /\ spoilt' = seed.spoilt
      BY <1>2, <2>3 DEF Replaced, CopyBlePkt
    <3>2. Least(seed.len, radio + Frame)' = Least(seed.len, radio + Frame)
      BY <2>1 DEF Least
    <3> QED BY <2>1, <2>3, <3>1, <3>2 DEF Untouched
  <2>4. CASE seed.mutated = 0
    <3>1. mutated' = 0
      BY <1>2, <2>1, <2>4 DEF Replaced, Untouched
    <3> QED BY <2>1, <2>4, <3>1 DEF Untouched
  <2> QED BY <2>2, <2>3, <2>4
<1>3. CASE NotSelected \/ Answered
  BY <1>3 DEF NotSelected, Answered, Untouched, Least
<1>4. CASE FieldLength \/ RandomLength \/ AflLength
  BY <1>4 DEF FieldLength, RandomLength, AflLength, Untouched
<1>5. CASE FieldLayer \/ Havoc \/ HavocEnds \/ Marked \/ MarkedAlways
  <2>1. pc \in {"layer", "havoc", "mark"} /\ fresh' = fresh
    BY <1>5 DEF FieldLayer, Havoc, HavocEnds, Marked, MarkedAlways
  <2>2. pc' \notin {"replace", "select"}
    BY <1>5 DEF FieldLayer, Havoc, HavocEnds, Marked, MarkedAlways, NoMutator, Empty, Handed
  <2> QED BY <2>1, <2>2 DEF Untouched
<1>6. CASE UNCHANGED mvars
  BY <1>6 DEF mvars, Untouched, Least
<1> QED BY <1>1, <1>2, <1>3, <1>4, <1>5, <1>6 DEF Next

\* What mutate_strategy compares in 8 bits, and what it has not marked.
Unmarked ==
  /\ pc \in {"replace", "select"} => ~fresh
  /\ pc \in {"layer", "havoc", "mark"} /\ build = "field" /\ ~spoilt =>
       old_payload_len = Narrow(len)
  /\ pc \in {"answer", "written"} /\ fresh /\ ~spoilt /\ mutated = 0 => len <= 255

LEMMA UnmarkedKept == Types /\ Unmarked /\ [Next]_mvars => Unmarked'
<1> SUFFICES ASSUME Types, Unmarked, [Next]_mvars PROVE Unmarked'
  OBVIOUS
<1> USE DEF packet, world
<1>1. CASE Received \/ Replaced \/ Kept
  BY <1>1 DEF Received, Replaced, Kept, Unmarked
<1>2. CASE NotSelected \/ Answered
  BY <1>2 DEF NotSelected, Answered, Unmarked, strategy
<1>3. CASE FieldLength
  <2>1. Narrow(len)' = Narrow(len')
    BY DEF Narrow
  <2> QED BY <1>3, <2>1 DEF FieldLength, Unmarked
<1>4. CASE RandomLength \/ AflLength
  BY <1>4 DEF RandomLength, AflLength, Unmarked
<1>5. CASE FieldLayer \/ HavocEnds
  <2>1. /\ UNCHANGED <<build, len, spoilt, fresh, old_payload_len, mutated>>
        /\ pc \in {"layer", "havoc"} /\ pc' \in {"havoc", "mark"}
    BY <1>5 DEF FieldLayer, HavocEnds, NoMutator, Empty, Handed, strategy
  <2>2. Narrow(len)' = Narrow(len)
    BY <2>1 DEF Narrow
  <2> QED BY <2>1, <2>2 DEF Unmarked
<1>6. CASE Havoc
  <2>1. /\ UNCHANGED <<build, fresh, old_payload_len, mutated>> /\ pc = "havoc" /\ pc' = "havoc"
        /\ (len' \in Garbage /\ spoilt' = TRUE) \/ UNCHANGED <<len, spoilt>>
    BY <1>6, HavocWrites DEF Havoc
  <2>2. UNCHANGED len => Narrow(len)' = Narrow(len)
    BY DEF Narrow
  <2> QED BY <2>1, <2>2 DEF Unmarked
<1>7. CASE Marked
  <2>1. /\ UNCHANGED <<len, spoilt>> /\ pc = "mark" /\ pc' = "answer" /\ build = "field"
        /\ mutated' = 0 => old_payload_len = len
    BY <1>7 DEF Marked
  <2>2. len \in Nat /\ Narrow(len) \in 0..255
    BY NarrowIsNat DEF Types
  <2> QED BY <2>1, <2>2 DEF Unmarked
<1>8. CASE MarkedAlways
  BY <1>8 DEF MarkedAlways, Unmarked
<1>9. CASE UNCHANGED mvars
  BY <1>9 DEF mvars, strategy, Unmarked, Narrow
<1> QED BY <1>1, <1>2, <1>3, <1>4, <1>5, <1>6, <1>7, <1>8, <1>9 DEF Next

LEMMA LengthInvariance == Spec => []LengthInv
<1>1. LengthInv /\ [Next]_mvars => LengthInv'
  BY TypesKept, CarriedKept, GivenKept, UntouchedKept DEF LengthInv
<1> QED BY <1>1, Start, PTL DEF Spec

-----------------------------------------------------------------------------
(* Where the mutators write *)

Stretch(n) == {t \in [first : Int, last : Int] : 0 <= t.first /\ t.last < n}

LEMMA PositionIn ==
  ASSUME NEW n \in Nat, NEW b \in Position(n) PROVE b \in Nat /\ b < n
BY MutationAssumption DEF Position

LEMMA BitsInside ==
  ASSUME NEW n \in Nat, NEW S \in Nat, NEW N \in 1..8, NEW t \in Bits(n, S, N)
  PROVE  t \in Stretch(n)
<1>1. N + S <= 8 * n /\ t = [first |-> S \div 8, last |-> S \div 8]
  BY DEF Bits
<1>2. S \div 8 \in Int /\ 0 <= S \div 8 /\ S \div 8 < n
  BY <1>1
<1> QED BY <1>1, <1>2 DEF Stretch

LEMMA BytesInside ==
  ASSUME NEW n \in Nat, NEW b \in Nat, NEW N \in Nat, NEW t \in Bytes(n, 8 * b, N)
  PROVE  t \in Stretch(n)
<1>1. /\ N + 8 * b <= 8 * n
      /\ t = [first |-> (8 * b) \div 8, last |-> (8 * b) \div 8 + N \div 8 - 1]
  BY DEF Bytes
<1>2. (8 * b) \div 8 = b
  OBVIOUS
<1>3. N \div 8 \in Int /\ b + N \div 8 - 1 < n
  BY <1>1
<1> QED BY <1>1, <1>2, <1>3 DEF Stretch

LEMMA FieldRoundInside ==
  ASSUME NEW n \in Nat, FieldRound(n) PROVE \E t \in Stretch(n) : Written(t)
<1>1. PICK b \in Position(n) :
        \/ Written([first |-> b, last |-> b])
        \/ \E o \in 0..7, N \in 1..8 : \E t \in Bits(n, 8 * b + o, N) : Written(t)
        \/ \E k \in {1, 2} : \E t \in Bytes(n, 8 * b, 8 * k) : Written(t)
        \/ \E k \in Payloads \cup {n - b} :
             /\ 0 < k /\ k <= n - b
             /\ \E t \in Bytes(n, 8 * b, Narrow(8 * k)) : Written(t)
  BY DEF FieldRound
<1>2. b \in Nat /\ b < n
  BY PositionIn
<1>3. CASE Written([first |-> b, last |-> b])
  <2>1. [first |-> b, last |-> b] \in Stretch(n)
    BY <1>2 DEF Stretch
  <2> QED BY <1>3, <2>1
<1>4. CASE \E o \in 0..7, N \in 1..8 : \E t \in Bits(n, 8 * b + o, N) : Written(t)
  <2>1. PICK o \in 0..7, N \in 1..8 : \E t \in Bits(n, 8 * b + o, N) : Written(t)
    BY <1>4
  <2>2. 8 * b + o \in Nat
    BY <1>2
  <2> QED BY <2>1, <2>2, BitsInside
<1>5. CASE \E k \in {1, 2} : \E t \in Bytes(n, 8 * b, 8 * k) : Written(t)
  <2>1. PICK k \in {1, 2} : \E t \in Bytes(n, 8 * b, 8 * k) : Written(t)
    BY <1>5
  <2>2. 8 * k \in Nat
    OBVIOUS
  <2> QED BY <1>2, <2>1, <2>2, BytesInside
<1>6. CASE \E k \in Payloads \cup {n - b} :
             /\ 0 < k /\ k <= n - b
             /\ \E t \in Bytes(n, 8 * b, Narrow(8 * k)) : Written(t)
  <2>1. PICK k \in Payloads \cup {n - b} :
          \E t \in Bytes(n, 8 * b, Narrow(8 * k)) : Written(t)
    BY <1>6
  <2>2. k \in Int
    BY <1>2, MutationAssumption
  <2>3. Narrow(8 * k) \in Nat
    BY <2>2, NarrowIsNat
  <2> QED BY <1>2, <2>1, <2>3, BytesInside
<1> QED BY <1>1, <1>3, <1>4, <1>5, <1>6

LEMMA OtherRoundsInside ==
  ASSUME NEW n \in Nat, RandomRound(n) \/ AflRound(n)
  PROVE  \E t \in Stretch(n) : Written(t)
<1>1. CASE RandomRound(n)
  <2>1. PICK b \in Position(n) : Written([first |-> b, last |-> b])
    BY <1>1 DEF RandomRound
  <2>2. b \in Nat /\ b < n
    BY PositionIn
  <2>3. [first |-> b, last |-> b] \in Stretch(n)
    BY <2>2 DEF Stretch
  <2> QED BY <2>1, <2>3
<1>2. CASE AflRound(n)
  <2>1. PICK b \in Position(n), w \in {1, 2, 4} :
          b + w <= n /\ Written([first |-> b, last |-> b + w - 1])
    BY <1>2 DEF AflRound
  <2>2. b \in Nat
    BY PositionIn
  <2>3. [first |-> b, last |-> b + w - 1] \in Stretch(n)
    BY <2>1, <2>2 DEF Stretch
  <2> QED BY <2>1, <2>3
<1> QED BY <1>1, <1>2

\* What mutate_havoc is handed lies in the payload.
Areas ==
  /\ area \in [first : Int, last : Int] /\ area.first <= area.last
  /\ layer \in {"LL", "L2CAP", "random"} =>
       area.first >= LLPayload /\ area.last < LLPayload + payload_len
  /\ layer = "afl" => area.first >= PktField /\ area.last < PktField + len

Reach ==
  /\ pc = "havoc" => Areas
  /\ pc \notin {"havoc", "mark"} => layer = "none" /\ touch = Nothing

\* A round writes inside its area.
LEMMA HavocInside ==
  ASSUME Havoc, Areas
  PROVE  /\ touch' \in [first : Int, last : Int]
         /\ area.first <= touch'.first /\ touch'.last <= area.last
         /\ PktField <= area.first => UNCHANGED <<len, spoilt>>
<1>1. Size \in Nat /\ area.first \in Int /\ Size = area.last - area.first + 1
  BY DEF Areas, Size
<1>2. FieldRound(Size) \/ RandomRound(Size) \/ AflRound(Size)
  BY DEF Havoc
<1>3. PICK t \in Stretch(Size) : Written(t)
  BY <1>1, <1>2, FieldRoundInside, OtherRoundsInside
<1>4. t.first \in Int /\ t.last \in Int /\ 0 <= t.first /\ t.last < Size
  BY DEF Stretch
<1>5. touch' = [first |-> area.first + t.first, last |-> area.first + t.last]
  BY <1>3 DEF Written
<1>6. touch'.first = area.first + t.first /\ touch'.last = area.first + t.last
  BY <1>5
<1>7. touch' \in [first : Int, last : Int]
  BY <1>1, <1>4, <1>5
<1>8. ASSUME PktField <= area.first PROVE UNCHANGED <<len, spoilt>>
  <2>1. touch'.first..touch'.last \cap LenField = {}
    BY <1>1, <1>4, <1>6, <1>8 DEF PktField, LenField
  <2> QED BY <1>3, <2>1 DEF Written
<1> QED
  <2>1. area.last \in Int
    BY DEF Areas
  <2> QED BY <1>1, <1>4, <1>6, <1>7, <1>8, <2>1

LEMMA HandedInPayload ==
  ASSUME NEW m \in {"LL", "L2CAP", "ATT", "SM"}, NEW size \in Int, Handed(m, size),
         payload_len \in Int, 0 < size, size <= Room(m), payload_len' = payload_len
  PROVE  Areas'
<1>1. layer' = m /\ area' = [first |-> Base(m), last |-> Base(m) + size - 1]
  BY DEF Handed
<1>2. Base(m) \in Int /\ area' \in [first : Int, last : Int] /\ area'.first <= area'.last
  <2>1. Base(m) \in Int
    BY DEF Base, LLPayload, L2CAPPayload, PktField
  <2> QED BY <1>1, <2>1
<1>3. CASE m = "LL"
  <2>1. Base(m) = LLPayload /\ Room(m) = payload_len /\ LLPayload \in Int
    BY <1>3 DEF Base, Room, LLPayload, PktField
  <2> QED BY <1>1, <1>2, <1>3, <2>1 DEF Areas
<1>4. CASE m = "L2CAP"
  <2>1. Base(m) = LLPayload + 4 /\ Room(m) = payload_len - 4 /\ LLPayload \in Int
    BY <1>4 DEF Base, Room, L2CAPRoom, L2CAPPayload, LLPayload, PktField
  <2> QED BY <1>1, <1>2, <1>4, <2>1 DEF Areas
<1>5. CASE m \in {"ATT", "SM"}
  BY <1>1, <1>2, <1>5 DEF Areas
<1> QED BY <1>3, <1>4, <1>5

Writing == Types /\ Reach /\ InPayload

LEMMA WritingStart == Init => Writing
<1>1. Init => Types
  BY Start DEF LengthInv
<1>2. Init => Reach /\ InPayload
  BY DEF Init, Reach, InPayload
<1> QED BY <1>1, <1>2 DEF Writing

LEMMA WritingKept == Writing /\ [Next]_mvars => Reach' /\ InPayload'
<1> SUFFICES ASSUME Writing, [Next]_mvars PROVE Reach' /\ InPayload'
  OBVIOUS
<1> USE DEF packet, strategy, world
<1>1. CASE Received \/ Replaced \/ NotSelected \/ FieldLength \/ Answered \/ Kept
  <2>1. UNCHANGED <<layer, touch>> /\ pc' \notin {"havoc", "mark"} /\ pc \notin {"havoc", "mark"}
    BY <1>1 DEF Received, Replaced, NotSelected, FieldLength, Answered, Kept
  <2>2. layer = "none" /\ touch = Nothing
    BY <2>1 DEF Writing, Reach
  <2> QED BY <2>1, <2>2 DEF Reach, InPayload, Nothing
<1>2. CASE FieldLayer
  <2>1. layer = "none" /\ touch = Nothing /\ payload_len' = payload_len /\ payload_len \in Int
    BY <1>2 DEF FieldLayer, Writing, Reach, Types
  <2>2. CASE NoMutator \/ (\E m \in {"LL", "L2CAP", "ATT", "SM"} : Room(m) <= 0 /\ Empty(m))
    <3>1. pc' = "mark" /\ layer' = "none"
      BY <2>1, <2>2 DEF NoMutator, Empty
    <3> QED BY <3>1 DEF Reach, InPayload
  <2>3. CASE \E m \in {"LL", "ATT", "SM"} :
          /\ Room(m) > 0 /\ Handed(m, Room(m))
          /\ touch' \in {Nothing} \cup
                IF m = "LL" THEN {} ELSE {[first |-> Base(m) - 1, last |-> Base(m) - 1]}
    <3>1. PICK m \in {"LL", "ATT", "SM"} :
            /\ Room(m) > 0 /\ Handed(m, Room(m))
            /\ touch' \in {Nothing} \cup
                 IF m = "LL" THEN {} ELSE {[first |-> Base(m) - 1, last |-> Base(m) - 1]}
      BY <2>3
    <3>2. Room(m) \in Int
      BY <2>1 DEF Room
    <3>3. Areas'
      BY <2>1, <3>1, <3>2, HandedInPayload
    <3>4. layer' = m /\ pc' = "havoc"
      BY <3>1 DEF Handed
    <3> QED BY <3>1, <3>3, <3>4 DEF Reach, InPayload
  <2>4. CASE \E p \in Payloads \cup {Room("L2CAP")} :
          /\ Room("L2CAP") > 0 /\ p <= Room("L2CAP")
          /\ IF p = 0 THEN pc' = "mark" /\ ret' = 1 /\ UNCHANGED <<layer, area>>
                      ELSE Handed("L2CAP", p)
          /\ UNCHANGED touch
    <3>1. PICK p \in Payloads \cup {Room("L2CAP")} :
          /\ Room("L2CAP") > 0 /\ p <= Room("L2CAP")
          /\ IF p = 0 THEN pc' = "mark" /\ ret' = 1 /\ UNCHANGED <<layer, area>>
                      ELSE Handed("L2CAP", p)
          /\ UNCHANGED touch
      BY <2>4
    <3>2. CASE p = 0
      BY <2>1, <3>1, <3>2 DEF Reach, InPayload, Nothing
    <3>3. CASE p # 0
      <4>1. Room("L2CAP") \in Int
        BY <2>1 DEF Room, L2CAPRoom
      <4>2. p \in Int /\ 0 < p
        BY <3>1, <3>3, <4>1, MutationAssumption
      <4>3. Areas'
        BY <2>1, <3>1, <3>3, <4>2, HandedInPayload
      <4>4. pc' = "havoc" /\ touch' = Nothing
        BY <2>1, <3>1, <3>3 DEF Handed
      <4> QED BY <4>3, <4>4 DEF Reach, InPayload, Nothing
    <3> QED BY <3>2, <3>3
  <2> QED BY <1>2, <2>2, <2>3, <2>4 DEF FieldLayer
<1>3. CASE Havoc
  <2>1. pc = "havoc" /\ UNCHANGED <<pc, payload_len, layer, area>> /\ Areas
    BY <1>3 DEF Havoc, Writing, Reach
  <2>2. /\ touch' \in [first : Int, last : Int]
        /\ area.first <= touch'.first /\ touch'.last <= area.last
        /\ PktField <= area.first => UNCHANGED <<len, spoilt>>
    BY <1>3, <2>1, HavocInside
  <2>3. area.first \in Int /\ area.last \in Int /\ payload_len \in Int /\ len \in Int
    BY <2>1 DEF Areas, Writing, Types
  <2>4. touch'.first \in Int /\ touch'.last \in Int
    BY <2>2
  <2>5. layer = "afl" => len' = len
    BY <2>1, <2>2 DEF Areas
  <2>6. Areas'
    BY <2>1, <2>5 DEF Areas
  <2>7. InPayload'
    BY <2>1, <2>2, <2>3, <2>4, <2>5 DEF Areas, InPayload, PktField, LLPayload
  <2> QED BY <2>1, <2>6, <2>7 DEF Reach
<1>4. CASE HavocEnds
  BY <1>4 DEF HavocEnds, Writing, Reach, InPayload
<1>5. CASE Marked \/ MarkedAlways
  BY <1>5 DEF Marked, MarkedAlways, Idle, Reach, InPayload, Nothing
<1>6. CASE RandomLength
  <2>1. PICK p \in DrawnLength \cup {len - Frame} :
          /\ p > 0 /\ payload_len' = p
          /\ area' = [first |-> LLPayload, last |-> LLPayload + p - 1]
    BY <1>6 DEF RandomLength
  <2>2. pc' = "havoc" /\ layer' = "random" /\ touch' = touch /\ touch = Nothing
    BY <1>6 DEF RandomLength, Writing, Reach
  <2>3. p \in Int
    BY <2>1, MutationAssumption DEF DrawnLength, Frame, Writing, Types
  <2>4. Areas'
    BY <2>1, <2>2, <2>3 DEF Areas, LLPayload, PktField
  <2> QED BY <2>2, <2>4 DEF Reach, InPayload, Nothing
<1>7. CASE AflLength
  <2>1. PICK p \in DrawnLength :
          len' = p + Frame /\ area' = [first |-> PktField, last |-> PktField + len' - 1]
    BY <1>7 DEF AflLength
  <2>2. pc' = "havoc" /\ layer' = "afl" /\ touch' = touch /\ touch = Nothing
    BY <1>7 DEF AflLength, Writing, Reach
  <2>3. p \in Nat /\ len' \in Int /\ len' > 0
    BY <2>1, MutationAssumption DEF DrawnLength, Frame
  <2>4. Areas'
    BY <2>1, <2>2, <2>3 DEF Areas, PktField
  <2> QED BY <2>2, <2>4 DEF Reach, InPayload, Nothing
<1>8. CASE UNCHANGED mvars
  BY <1>8 DEF mvars, Writing, Reach, Areas, InPayload
<1> QED BY <1>1, <1>2, <1>3, <1>4, <1>5, <1>6, <1>7, <1>8 DEF Next

\* Every primitive of every mutator but those of ATT and SM writes inside the
\* packet's payload, for all positions, widths and lengths (mutate_strategy.c).
THEOREM WritesInPayload == Spec => []InPayload
<1>1. Writing /\ [Next]_mvars => Writing'
  BY WritingKept, TypesKept DEF Writing
<1>2. Writing => InPayload
  BY DEF Writing
<1> QED BY <1>1, <1>2, WritingStart, PTL DEF Spec

-----------------------------------------------------------------------------
\* The hook cuts no length that a mutator drew or a seed brought along, whatever
\* MAXLEN the seed was recorded under (copy_ble_pkt, hijack_packet_recorder); and
\* what is drawn but not delivered is a length of 8 bits (mutate_strategy).
THEOREM HookCutsNothing == Spec => []NothingCut
<1>1. LengthInv /\ Unmarked => NothingCut
  <2> SUFFICES ASSUME LengthInv, Unmarked, pc = "written", ~spoilt
               PROVE  /\ given # AsReceived => given = len - Frame
                      /\ given = AsReceived /\ fresh => len <= 255
    BY DEF NothingCut
  <2>1. given = IF mutated = 1 THEN WriteBack ELSE AsReceived
    BY DEF LengthInv, Given
  <2>2. WriteBack = len - Frame /\ len - Frame >= 0 /\ mutated \in {0, 1} /\ len \in Nat
    BY NothingToCut DEF LengthInv, Carried, Types, Frame
  <2>3. WriteBack # AsReceived
    BY <2>2 DEF AsReceived, Frame
  <2> QED BY <2>1, <2>2, <2>3 DEF Unmarked
<1>2. Init => Unmarked
  BY DEF Init, Unmarked
<1>3. LengthInv /\ Unmarked /\ [Next]_mvars => Unmarked'
  BY UnmarkedKept DEF LengthInv
<1> QED BY <1>1, <1>2, <1>3, LengthInvariance, PTL DEF Spec

\* A packet of a seed that is not mutated again gives the target what it gave
\* when it was recorded, through any number of executions and mutations before.
THEOREM ReplaysAreFaithful == Spec => []ReplayFaithful
<1>1. LengthInv => ReplayFaithful
  <2> SUFFICES ASSUME LengthInv, pc = "written", ~fresh, ~seed.spoilt, radio = seed.radio
               PROVE  given = seed.given /\ given <= len
    BY DEF ReplayFaithful
  <2>1. mutated = seed.mutated /\ given = IF mutated = 1 THEN WriteBack ELSE AsReceived
    BY DEF LengthInv, Untouched, Given
  <2>2. len \in Nat /\ seed \in Seeds /\ radio \in Frame..BLE_PKT_MAX_LEN
    BY DEF LengthInv, Types
  <2>3. CASE seed.mutated = 1
    <3>1. len = Least(seed.len, radio + Frame) /\ ~spoilt
      BY <2>3 DEF LengthInv, Untouched
    <3>2. seed.len <= seed.radio + Frame /\ seed.given = seed.len - Frame
      BY <2>3 DEF LengthInv, SeedGiven
    <3>3. len = seed.len
      BY <2>2, <3>1, <3>2 DEF Least, Seeds, Frame, BLE_PKT_MAX_LEN
    <3>4. given = len - Frame
      BY <2>1, <2>3, <3>1, NothingToCut DEF LengthInv
    <3> QED BY <2>2, <3>2, <3>3, <3>4 DEF Frame
  <2>4. CASE seed.mutated = 0
    BY <2>1, <2>2, <2>4 DEF LengthInv, SeedGiven, AsReceived
  <2> QED BY <2>2, <2>3, <2>4 DEF Seeds
<1> QED BY <1>1, LengthInvariance, PTL
=============================================================================
