---------------------------- MODULE OtcTestProofs ----------------------------
(***************************************************************************)
(* Theorems about the OTC test, for any number of rounds and of objects,   *)
(* whatever properties these have: the test and the completions of its     *)
(* requests stay in step, and an object is judged by its own metadata.     *)
(***************************************************************************)
EXTENDS OtcTest, TLAPS

\* Rounds that are left, and an object that was selected.
Reached ==
  /\ pc # "done" => i < Rounds
  /\ test_state # "SELECT_OBJ" \/ busy # "none" => selected \in Object

Inv == TypeOK /\ Reached /\ InStep

LEMMA InitInv == Init => Inv
<1> SUFFICES ASSUME Init PROVE Inv
  OBVIOUS
<1>1. 0 \in 0..Rounds /\ 0 \in 0..Objects /\ 0 < Rounds
  BY OtcTestAssumption
<1>2. {} \in SUBSET Prop /\ {} \subseteq Use
  OBVIOUS
<1>3. TypeOK
  BY <1>1, <1>2 DEF Init, TypeOK
<1> QED
  BY <1>1, <1>3 DEF Init, Inv, Reached, InStep

-----------------------------------------------------------------------------
(* The thread *)

LEMMA StartInv == Inv /\ Start => Inv'
BY DEF Start, client, Inv, TypeOK, Reached, InStep

LEMMA SelectIdInv == Inv /\ SelectId => Inv'
<1> SUFFICES ASSUME Inv, SelectId PROVE Inv'
  OBVIOUS
<1>1. selected' \in Object
  BY OtcTestAssumption DEF Inv, TypeOK, SelectId, Object
<1>2. Object \subseteq 0..Objects
  BY OtcTestAssumption DEF Object
<1> QED
  BY <1>1, <1>2 DEF SelectId, Inv, TypeOK, Reached, InStep

LEMMA ReadObjMetaInv == Inv /\ ReadObjMeta => Inv'
BY DEF ReadObjMeta, Inv, TypeOK, Reached, InStep

\* What a call that decides by props leaves alone, and what it remembers.
LEMMA RequestUsed ==
  ASSUME Inv, NEW prop \in Prop, NEW req, Request(prop, req), test_state # "SELECT_OBJ"
  PROVE  /\ used' \subseteq Use
         /\ UNCHANGED <<has, test_state, subscribed, first_selected, selected, props, meta,
                        before, failed>>
         /\ \/ busy = "none" /\ busy' = req /\ denied' = denied
            \/ busy' = busy /\ denied' = (denied \/ pc' # "done")
<1> DEFINE u == [object |-> selected, by |-> meta, before |-> before, failed |-> failed]
<1>1. u \in Use /\ used \subseteq Use
  BY DEF Inv, TypeOK, Reached, Use
<1>2. used' = used \cup {u}
  BY DEF Request
<1> HIDE DEF u
<1> QED
  BY <1>1, <1>2 DEF Request

LEMMA WriteObjInv == Inv /\ WriteObj => Inv'
<1> SUFFICES ASSUME Inv, WriteObj PROVE Inv'
  OBVIOUS
<1>1. pc = "write" /\ pc' = "read" /\ i' = i /\ test_state = "WRITE_OBJ" /\ Request("WRITE", "write")
  BY DEF WriteObj, Access
<1>2. /\ used' \subseteq Use
      /\ UNCHANGED <<has, test_state, subscribed, first_selected, selected, props, meta,
                     before, failed>>
      /\ \/ busy = "none" /\ busy' = "write" /\ denied' = denied
         \/ busy' = busy /\ denied' = (denied \/ pc' # "done")
  BY <1>1, RequestUsed DEF Prop
<1>3. TypeOK'
  BY <1>1, <1>2 DEF Inv, TypeOK
<1>4. Reached' /\ InStep'
  BY <1>1, <1>2 DEF Inv, Reached, InStep, TypeOK
<1> QED
  BY <1>3, <1>4 DEF Inv

LEMMA ReadObjInv == Inv /\ ReadObj => Inv'
<1> SUFFICES ASSUME Inv, ReadObj PROVE Inv'
  OBVIOUS
<1>1. /\ pc = "read" /\ pc' \in {"done", "select"} /\ i' = i + 1
      /\ test_state = "READ_OBJ" /\ Request("READ", "read")
      /\ i + 1 < Rounds \/ pc' = "done"
  BY OtcTestAssumption DEF ReadObj, Access, RoundsDone, Inv, TypeOK
<1>2. /\ used' \subseteq Use
      /\ UNCHANGED <<has, test_state, subscribed, first_selected, selected, props, meta,
                     before, failed>>
      /\ \/ busy = "none" /\ busy' = "read" /\ denied' = denied
         \/ busy' = busy /\ denied' = (denied \/ pc' # "done")
  BY <1>1, RequestUsed DEF Prop
<1>3. i' \in 0..Rounds
  BY <1>1, OtcTestAssumption DEF Inv, TypeOK, Reached
<1>4. TypeOK'
  BY <1>1, <1>2, <1>3 DEF Inv, TypeOK
<1>5. Reached'
  BY <1>1, <1>2 DEF Inv, Reached, TypeOK
<1>6. ~denied /\ busy \in {"none", "metadata"}
  BY <1>1 DEF Inv, InStep, TypeOK
<1>7. InStep'
  <2>1. CASE busy' = "read" /\ denied' = denied
    BY <1>1, <1>2, <1>6, <2>1 DEF InStep
  <2>2. CASE busy' = busy /\ denied' = (denied \/ pc' # "done")
    BY <1>1, <1>2, <1>6, <2>2 DEF InStep
  <2> QED
    BY <1>2, <2>1, <2>2
<1> QED
  BY <1>4, <1>5, <1>7 DEF Inv

-----------------------------------------------------------------------------
(* The callbacks *)

LEMMA CallbackInv == Inv /\ Callback => Inv'
<1> SUFFICES ASSUME Inv, Callback PROVE Inv'
  OBVIOUS
<1>1. CASE Subscribe
  BY <1>1 DEF Subscribe, thread, client, Inv, TypeOK, Reached, InStep
<1>2. CASE OnObjSelected
  <2>1. {} \in SUBSET Prop /\ 0 \in 0..Objects
    BY OtcTestAssumption
  <2> QED
    BY <1>2, <2>1 DEF OnObjSelected, Advance, thread, Inv, TypeOK, Reached, InStep
<1>3. CASE OnObjMetadataRead
  <2>1. selected \in Object /\ Object \subseteq 0..Objects /\ has[selected] \in SUBSET Prop
    BY <1>3, OtcTestAssumption DEF OnObjMetadataRead, Inv, TypeOK, Reached, Object
  <2> QED
    BY <1>3, <2>1 DEF OnObjMetadataRead, Advance, thread, Inv, TypeOK, Reached, InStep
<1>4. CASE OnObjDataWritten
  BY <1>4 DEF OnObjDataWritten, Advance, thread, Inv, TypeOK, Reached, InStep
<1>5. CASE OnObjDataRead
  BY <1>5 DEF OnObjDataRead, Advance, thread, Inv, TypeOK, Reached, InStep
<1> QED
  BY <1>1, <1>2, <1>3, <1>4, <1>5 DEF Callback

LEMMA NextInv == Inv /\ [Next]_vars => Inv'
<1> SUFFICES ASSUME Inv, [Next]_vars PROVE Inv'
  OBVIOUS
<1>1. CASE UNCHANGED vars
  BY <1>1 DEF vars, thread, client, Inv, TypeOK, Reached, InStep
<1>2. CASE Thread
  BY <1>2, StartInv, SelectIdInv, ReadObjMetaInv, WriteObjInv, ReadObjInv DEF Thread
<1>3. CASE Callback
  BY <1>3, CallbackInv
<1> QED
  BY <1>1, <1>2, <1>3 DEF Next

\* Types, rounds and step hold in every behaviour.
LEMMA SpecInv == Spec => []Inv
BY InitInv, NextInv, PTL DEF Spec

\* The variables of the test keep their types, and the loop its bound.
THEOREM TestTypes == Spec => []TypeOK
<1>1. Inv => TypeOK
  BY DEF Inv
<1> QED
  BY SpecInv, <1>1, PTL

\* Whatever request is under way, test_state is the one its callback moves on
\* from, but for the metadata on_obj_data_written asks for (InStep).
THEOREM TestInStep == Spec => []InStep
<1>1. Inv => InStep
  BY DEF Inv
<1> QED
  BY SpecInv, <1>1, PTL

-----------------------------------------------------------------------------
(* Metadata *)

\* What the client has until it is told of the object, and from the end of a
\* read of its metadata on.
Known ==
  /\ failed \/ busy = "select" \/ test_state = "READ_OBJ_META" => meta \in {0, before}
  /\ ~failed /\ test_state \in {"WRITE_OBJ", "READ_OBJ"} => meta = selected

Own == Known /\ OwnMetadata

LEMMA InitOwn == Init => Own
BY DEF Init, Own, Known, OwnMetadata

LEMMA UsedOwn ==
  ASSUME Own, NEW prop, NEW req, Request(prop, req), test_state \in {"WRITE_OBJ", "READ_OBJ"},
         req # "select"
  PROVE  Own'
<1> DEFINE u == [object |-> selected, by |-> meta, before |-> before, failed |-> failed]
<1>1. /\ used' = used \cup {u}
      /\ UNCHANGED <<test_state, selected, meta, before, failed>>
      /\ busy' \in {busy, req}
  BY DEF Request
<1>2. u.object = selected /\ u.by = meta /\ u.before = before /\ u.failed = failed
  OBVIOUS
<1> HIDE DEF u
<1>3. IF u.failed THEN u.by \in {0, u.before} ELSE u.by = u.object
  BY <1>2 DEF Own, Known
<1>4. Known'
  BY <1>1 DEF Own, Known
<1> QED
  BY <1>1, <1>3, <1>4 DEF Own, OwnMetadata

LEMMA NextOwn == Inv /\ Own /\ [Next]_vars => Own'
<1> SUFFICES ASSUME Inv, Own, [Next]_vars PROVE Own'
  OBVIOUS
<1>1. CASE UNCHANGED vars
  BY <1>1 DEF vars, thread, client, Own, Known, OwnMetadata
<1>2. CASE WriteObj \/ ReadObj
  BY <1>2, UsedOwn DEF WriteObj, ReadObj, Access
<1>3. CASE Start \/ SelectId \/ ReadObjMeta
  BY <1>3 DEF Start, SelectId, ReadObjMeta, client, Own, Known, OwnMetadata
<1>4. CASE Subscribe \/ OnObjDataWritten \/ OnObjDataRead
  BY <1>4 DEF Subscribe, OnObjDataWritten, OnObjDataRead, Advance, thread, client, Inv, InStep,
     TypeOK, Own, Known, OwnMetadata
<1>5. CASE OnObjSelected
  BY <1>5 DEF OnObjSelected, Advance, thread, Inv, InStep, TypeOK, Own, Known, OwnMetadata
<1>6. CASE OnObjMetadataRead
  <2>1. UNCHANGED <<used, selected, before>> /\ busy' = "none"
    BY <1>6 DEF OnObjMetadataRead, thread
  <2>2. \/ test_state = "READ_OBJ_META" /\ test_state' = "WRITE_OBJ"
        \/ test_state = "READ_OBJ" /\ test_state' = "READ_OBJ"
    BY <1>6 DEF OnObjMetadataRead, Advance, Inv, InStep
  <2>3. \/ meta' = selected /\ failed' = FALSE
        \/ meta' = meta /\ failed' = (failed \/ test_state = "READ_OBJ_META")
    BY <1>6 DEF OnObjMetadataRead
  <2>4. failed \in BOOLEAN
    BY DEF Inv, TypeOK
  <2>5. Known'
    BY <2>1, <2>2, <2>3, <2>4 DEF Own, Known
  <2> QED
    BY <2>1, <2>5 DEF Own, OwnMetadata
<1> QED
  BY <1>1, <1>2, <1>3, <1>4, <1>5, <1>6 DEF Next, Thread, Callback

\* An object is written and read by its own metadata; if they could not be read,
\* by what the client had at its selection, for its own turn only (OwnMetadata).
THEOREM JudgedByOwnMetadata == Spec => []OwnMetadata
<1>1. Own => OwnMetadata
  BY DEF Own
<1> QED
  BY SpecInv, InitOwn, NextOwn, <1>1, PTL DEF Spec

-----------------------------------------------------------------------------
(* What the thread waits for *)

\* Each call of the thread, and the state in which it goes on.
Turn == {<<"select", "SELECT_OBJ">>, <<"metadata", "READ_OBJ_META">>,
         <<"write", "WRITE_OBJ">>, <<"read", "READ_OBJ">>}

Cause == failed \/ has[selected] # Prop

\* Whenever no callback is to come, test_state is the one the thread waits for,
\* or the test has ended, or it stands still at an object that lacks a property
\* or whose metadata could not be read: the part of TestEnds about states.
NoLostTurn ==
  busy = "none" => \/ pc = "done"
                   \/ pc = "subscribe" /\ test_state = "SELECT_OBJ"
                   \/ <<pc, test_state>> \in Turn
                   \/ Stuck /\ Cause

\* What the client has of an earlier object allows reading or nothing at all:
\* that object was read, or the test had stopped there.
Stale ==
  /\ failed \/ test_state \in {"SELECT_OBJ", "READ_OBJ_META"} => props = {} \/ "READ" \in props
  /\ busy = "read" => "READ" \in props
  /\ ~failed /\ test_state \in {"WRITE_OBJ", "READ_OBJ"} => props = has[selected]
  /\ (test_state = "READ_OBJ" \/ busy = "write") /\ failed => props # {}

\* A call is denied for a cause.
Denied == /\ denied => Cause
          /\ denied /\ test_state = "READ_OBJ" => has[selected] # Prop

Lost == Stale /\ Denied /\ NoLostTurn

LEMMA InitLost == Init => Lost
BY DEF Init, Lost, Stale, Denied, NoLostTurn

LEMMA ThreadLost == Inv /\ Lost /\ (Start \/ SelectId \/ ReadObjMeta) => Lost'
<1> SUFFICES ASSUME Inv, Lost, Start \/ SelectId \/ ReadObjMeta PROVE Lost'
  OBVIOUS
<1>1. CASE Start
  BY <1>1 DEF Start, client, Lost, Stale, Denied, NoLostTurn, Turn, Cause, Stuck, Inv, InStep
<1>2. CASE SelectId
  BY <1>2 DEF SelectId, Lost, Stale, Denied, NoLostTurn, Inv, InStep
<1>3. CASE ReadObjMeta
  BY <1>3 DEF ReadObjMeta, Lost, Stale, Denied, NoLostTurn, Inv, InStep
<1> QED
  BY <1>1, <1>2, <1>3

LEMMA WriteLost == Inv /\ Lost /\ WriteObj => Lost'
<1> SUFFICES ASSUME Inv, Lost, WriteObj PROVE Lost'
  OBVIOUS
<1>1. /\ pc = "write" /\ pc' = "read" /\ test_state = "WRITE_OBJ"
      /\ UNCHANGED <<has, test_state, selected, props, failed>>
      /\ \/ "WRITE" \in props /\ busy' = "write" /\ denied' = denied
         \/ "WRITE" \notin props /\ busy' = busy /\ denied'
  BY DEF WriteObj, Access, Request
<1>2. ~denied
  BY <1>1 DEF Inv, InStep
<1>3. "WRITE" \notin props => Cause
  BY <1>1 DEF Lost, Stale, Cause, Prop
<1>4. Stale'
  BY <1>1 DEF Lost, Stale, Inv, InStep
<1>5. Denied'
  BY <1>1, <1>2, <1>3 DEF Denied, Cause
<1>6. NoLostTurn'
  BY <1>1, <1>3 DEF NoLostTurn, Stuck, Cause
<1> QED
  BY <1>4, <1>5, <1>6 DEF Lost

LEMMA ReadLost == Inv /\ Lost /\ ReadObj => Lost'
<1> SUFFICES ASSUME Inv, Lost, ReadObj PROVE Lost'
  OBVIOUS
<1>1. /\ pc = "read" /\ pc' \in {"done", "select"} /\ test_state = "READ_OBJ"
      /\ UNCHANGED <<has, test_state, selected, props, failed>>
      /\ \/ "READ" \in props /\ busy' = "read" /\ denied' = denied
         \/ "READ" \notin props /\ busy' = busy /\ denied' = (denied \/ pc' # "done")
  BY DEF ReadObj, Access, Request
<1>2. ~denied /\ busy \in {"none", "metadata"}
  BY <1>1 DEF Inv, InStep, TypeOK
<1>3. "READ" \notin props => ~failed /\ has[selected] # Prop
  BY <1>1 DEF Lost, Stale, Prop, Inv, TypeOK
<1>4. Stale'
  BY <1>1, <1>2 DEF Lost, Stale
<1>5. Denied'
  BY <1>1, <1>2, <1>3 DEF Denied, Cause
<1>6. NoLostTurn'
  BY <1>1, <1>3 DEF NoLostTurn, Stuck, Cause
<1> QED
  BY <1>4, <1>5, <1>6 DEF Lost

LEMMA MetadataLost == Inv /\ Lost /\ OnObjMetadataRead => Lost'
<1> SUFFICES ASSUME Inv, Lost, OnObjMetadataRead PROVE Lost'
  OBVIOUS
<1>1. /\ UNCHANGED <<has, pc, selected, denied>> /\ busy = "metadata" /\ busy' = "none"
      /\ \/ props' = has[selected] /\ failed' = FALSE
         \/ props' = props /\ failed' = (failed \/ test_state = "READ_OBJ_META")
  BY DEF OnObjMetadataRead, thread
<1>2. \/ test_state = "READ_OBJ_META" /\ test_state' = "WRITE_OBJ" /\ pc = "write" /\ ~denied
      \/ test_state = "READ_OBJ" /\ test_state' = "READ_OBJ"
            /\ (pc \in {"read", "done"} \/ (pc = "select" /\ denied))
  BY DEF OnObjMetadataRead, Advance, Inv, InStep
<1>3. failed \in BOOLEAN
  BY DEF Inv, TypeOK
<1>4. Stale'
  BY <1>1, <1>2, <1>3 DEF Lost, Stale
<1>5. Denied'
  BY <1>1, <1>2, <1>3 DEF Lost, Denied, Cause
<1>6. NoLostTurn'
  BY <1>1, <1>2, <1>5 DEF NoLostTurn, Stuck, Cause, Denied, Turn
<1> QED
  BY <1>4, <1>5, <1>6 DEF Lost

LEMMA NextLost == Inv /\ Lost /\ [Next]_vars => Lost'
<1> SUFFICES ASSUME Inv, Lost, [Next]_vars PROVE Lost'
  OBVIOUS
<1>1. CASE UNCHANGED vars
  BY <1>1 DEF vars, thread, client, Lost, Stale, Denied, NoLostTurn, Cause, Stuck
<1>2. CASE Start \/ SelectId \/ ReadObjMeta
  BY <1>2, ThreadLost
<1>3. CASE Subscribe
  BY <1>3 DEF Subscribe, thread, client, Lost, Stale, Denied, NoLostTurn, Cause, Stuck
<1>4. CASE OnObjSelected
  BY <1>4 DEF OnObjSelected, Advance, thread, Inv, InStep, Lost, Stale, Denied, NoLostTurn,
     Cause, Turn
<1>5. CASE OnObjDataWritten
  BY <1>5 DEF OnObjDataWritten, Advance, thread, Inv, InStep, Lost, Stale, Denied, NoLostTurn,
     Cause, Turn
<1>6. CASE OnObjDataRead
  BY <1>6 DEF OnObjDataRead, Advance, thread, Inv, InStep, Lost, Stale, Denied, NoLostTurn,
     Cause, Turn
<1> QED
  BY <1>1, <1>2, <1>3, <1>4, <1>5, <1>6, WriteLost, ReadLost, MetadataLost
  DEF Next, Thread, Callback

\* The thread never waits for a test_state that no callback is left to set
\* (k_cpu_idle loops of thread_test_entry), but at an object that lacks a
\* property or whose metadata could not be read.
THEOREM NoTurnIsLost == Spec => []NoLostTurn
<1>1. Lost => NoLostTurn
  BY DEF Lost
<1> QED
  BY SpecInv, InitLost, NextLost, <1>1, PTL DEF Spec
=============================================================================
