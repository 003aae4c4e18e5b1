------------------------------ MODULE OtcTest ------------------------------
(***************************************************************************)
(* The attacker sample central_otc as patch/zephyr.patch changes it: a     *)
(* thread that takes an object through select, read metadata, write and    *)
(* read, twice, and the callbacks of the Bluetooth thread that move        *)
(* test_state on.  They share test_state and the client's cur_object       *)
(* without a lock.  The thread has a lower priority than the callbacks,    *)
(* and k_cpu_idle waits for any interrupt, so it may look at any time but  *)
(* in the middle of a callback.                                            *)
(*                                                                         *)
(* The OTS client library is not in the repository and is modelled from    *)
(* how the sample uses it: a call returns an error while a request is      *)
(* under way, an accepted one is answered by one callback, and reading     *)
(* metadata may fail, which its callback is told.                          *)
(***************************************************************************)
EXTENDS Integers

CONSTANTS Rounds,   \* rounds of thread_test_entry
          Objects   \* objects on the server, selected in turn

ASSUME OtcTestAssumption == Rounds \in Nat \ {0} /\ Objects \in Nat \ {0}

Object == 1..Objects
Prop == {"WRITE", "READ"}

VARIABLES
  has,            \* the server: properties of each object, chosen at the start
  test_state, subscribed, first_selected,
  pc, i,          \* the thread: the call it is at, and its loop variable
  busy,           \* the request under way, or "none"
  selected,       \* the object selected last, 0 before the first
  props,          \* otc.cur_object.props
  meta,           \* history: the object props were read of, 0 if they are zero
  before, failed, \* history: meta when the object was selected; its own
                  \* metadata could not be read since
  used,           \* history: each object that props decided on, and by whose
                  \* metadata it was decided
  denied          \* history: a call returned 0 without a request, and it was
                  \* not the last of the test

thread == <<pc, i, used, denied>>
client == <<busy, selected, props, meta, before, failed>>
Use == [object : Object, by : 0..Objects, before : 0..Objects, failed : BOOLEAN]
vars == <<has, test_state, subscribed, first_selected, thread, client>>

Init ==
  /\ has \in [Object -> SUBSET Prop]
  /\ test_state = "SELECT_OBJ" /\ subscribed = FALSE /\ first_selected = FALSE
  /\ pc = "subscribe" /\ i = 0 /\ used = {} /\ denied = FALSE
  /\ busy = "none" /\ selected = 0 /\ props = {} /\ meta = 0
  /\ before = 0 /\ failed = FALSE

-----------------------------------------------------------------------------
(* The thread.  Its calls return -1 in another state than their own and the   *)
(* error of a call that was refused; it then makes them again.                *)

Start ==
  /\ pc = "subscribe" /\ subscribed /\ pc' = "select"
  /\ UNCHANGED <<has, test_state, subscribed, first_selected, i, used, denied, client>>

SelectId ==
  /\ pc = "select" /\ test_state = "SELECT_OBJ" /\ busy = "none"
  /\ busy' = "select" /\ pc' = "metadata"
  /\ selected' = IF first_selected /\ selected < Objects THEN selected + 1 ELSE 1
  /\ first_selected' = TRUE /\ before' = meta /\ failed' = FALSE
  /\ UNCHANGED <<has, test_state, subscribed, i, used, denied, props, meta>>

ReadObjMeta ==
  /\ pc = "metadata" /\ test_state = "READ_OBJ_META" /\ busy = "none"
  /\ busy' = "metadata" /\ pc' = "write"
  /\ UNCHANGED <<has, test_state, subscribed, first_selected, i, used, denied,
                 selected, props, meta, before, failed>>

\* test_write_obj and test_read_obj: an object that lacks the property makes
\* them return 0 all the same
Request(prop, req) ==
  /\ used' = used \cup {[object |-> selected, by |-> meta, before |-> before, failed |-> failed]}
  /\ \/ prop \in props /\ busy = "none" /\ busy' = req /\ UNCHANGED denied
     \/ prop \notin props /\ denied' = (denied \/ pc' # "done") /\ UNCHANGED busy
  /\ UNCHANGED <<has, test_state, subscribed, first_selected, selected, props, meta, before, failed>>

Access_bad(here, state, prop, req) == pc = here /\ Request(prop, req)
Access(here, state, prop, req) == pc = here /\ test_state = state /\ Request(prop, req)

WriteObj ==
  /\ pc' = "read" /\ UNCHANGED i
  /\ Access("write", "WRITE_OBJ", "WRITE", "write")

RoundsDone == i + 1 >= Rounds

ReadObj ==
  /\ i' = i + 1 /\ pc' = IF RoundsDone THEN "done" ELSE "select"
  /\ Access("read", "READ_OBJ", "READ", "read")

-----------------------------------------------------------------------------
(* The callbacks of the Bluetooth thread *)

\* subscribe_func, once discovery is complete
Subscribe ==
  /\ ~subscribed /\ subscribed' = TRUE
  /\ UNCHANGED <<has, test_state, first_selected, thread, client>>

Advance_bad(from, to) == test_state' = to
Advance(from, to) == test_state' = IF test_state = from THEN to ELSE test_state

\* the library may or may not forget what it knew of the object before
OnObjSelected ==
  /\ busy = "select" /\ busy' = "none"
  /\ Advance("SELECT_OBJ", "READ_OBJ_META")
  /\ \/ props' = {} /\ meta' = 0
     \/ UNCHANGED <<props, meta>>
  /\ UNCHANGED <<has, subscribed, first_selected, thread, selected, before, failed>>

OnObjMetadataRead ==
  /\ busy = "metadata" /\ busy' = "none"
  /\ Advance("READ_OBJ_META", "WRITE_OBJ")
  /\ \/ props' = has[selected] /\ meta' = selected /\ failed' = FALSE
     \/ failed' = (failed \/ test_state = "READ_OBJ_META") /\ UNCHANGED <<props, meta>>
  /\ UNCHANGED <<has, subscribed, first_selected, thread, selected, before>>

\* asks for the metadata again before it moves on, which may be refused
OnObjDataWritten_bad ==
  /\ busy = "write" /\ busy' = "metadata"
  /\ Advance("WRITE_OBJ", "READ_OBJ_META")
  /\ UNCHANGED <<has, subscribed, first_selected, thread, selected, props, meta, before, failed>>
OnObjDataWritten ==
  /\ busy = "write" /\ busy' \in {"metadata", "none"}
  /\ Advance("WRITE_OBJ", "READ_OBJ")
  /\ UNCHANGED <<has, subscribed, first_selected, thread, selected, props, meta, before, failed>>

\* the call with is_complete; the ones before it change nothing here
OnObjDataRead ==
  /\ busy = "read" /\ busy' = "none"
  /\ Advance("READ_OBJ", "SELECT_OBJ")
  /\ UNCHANGED <<has, subscribed, first_selected, thread, selected, props, meta, before, failed>>

-----------------------------------------------------------------------------
Thread == Start \/ SelectId \/ ReadObjMeta \/ WriteObj \/ ReadObj
Callback == Subscribe \/ OnObjSelected \/ OnObjMetadataRead \/ OnObjDataWritten \/ OnObjDataRead

Next == Thread \/ Callback

Spec == Init /\ [][Next]_vars

\* Interrupts keep coming, and the library answers what it has accepted.
FairSpec == Spec /\ WF_vars(Thread) /\ WF_vars(Callback)

-----------------------------------------------------------------------------
(* Properties *)

\* The types of the variables.
TypeOK ==
  /\ has \in [Object -> SUBSET Prop] /\ props \in SUBSET Prop
  /\ test_state \in {"SELECT_OBJ", "READ_OBJ_META", "WRITE_OBJ", "READ_OBJ"}
  /\ subscribed \in BOOLEAN /\ first_selected \in BOOLEAN
  /\ failed \in BOOLEAN /\ denied \in BOOLEAN
  /\ pc \in {"subscribe", "select", "metadata", "write", "read", "done"} /\ i \in 0..Rounds
  /\ busy \in {"none", "select", "metadata", "write", "read"}
  /\ selected \in 0..Objects /\ meta \in 0..Objects /\ before \in 0..Objects
  /\ used \subseteq Use

\* Whatever request is under way, test_state is the one its callback moves on
\* from, so no completion is lost, but for the metadata on_obj_data_written
\* asks for again: their completion comes in READ_OBJ and must not count as
\* that of the next object's metadata.  After a call that returned 0 without a
\* request the thread waits for a state that no request under way leads to.
InStep ==
  /\ busy = "select" => test_state = "SELECT_OBJ" /\ pc = "metadata"
  /\ busy = "metadata" => \/ test_state = "READ_OBJ_META" /\ pc = "write"
                          \/ test_state = "READ_OBJ" /\ pc \in {"read", "done"}
                          \/ test_state = "READ_OBJ" /\ pc = "select" /\ denied
  /\ busy = "write" => test_state = "WRITE_OBJ" /\ pc = "read"
  /\ busy = "read" => test_state = "READ_OBJ" /\ pc \in {"select", "done"}
  /\ denied => /\ busy \in {"none", "metadata"}
               /\ <<pc, test_state>> \in {<<"read", "WRITE_OBJ">>, <<"select", "READ_OBJ">>}

\* Whether an object is written and read is decided by its own properties.  If
\* its metadata could not be read, of which on_obj_metadata_read is told before
\* it moves test_state on all the same, by what the client had when the object
\* was selected, or by nothing, and that for its own turn only.
OwnMetadata ==
  \A u \in used : IF u.failed THEN u.by \in {0, u.before} ELSE u.by = u.object

\* Nothing is under way and the thread waits for a state nobody will set.
Stuck ==
  /\ busy = "none"
  /\ <<pc, test_state>> \in {<<"read", "WRITE_OBJ">>, <<"select", "READ_OBJ">>}

\* The test comes to its end, or it stands still for good at an object that
\* lacks a property or whose metadata could not be read: the call returned 0
\* without a request (zephyr.patch:199 and :227) and the next one waits for the
\* callback of that request.
TestEnds == <>(pc = "done") \/ <>[](Stuck /\ (failed \/ has[selected] # Prop))
=============================================================================
