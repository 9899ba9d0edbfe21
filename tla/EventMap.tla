------------------------------ MODULE EventMap ------------------------------
(***************************************************************************)
(* How an event set's events are mapped to hardware counters               *)
(* (papi_internal.c over the perf_event component): the list of events a   *)
(* caller sees, the array of native events they share, and the counters    *)
(* the component has opened.  A preset stands for several native events,   *)
(* and native events are shared by the events of a set; an event finds its *)
(* counters through its positions, which every change of the array moves.  *)
(*                                                                         *)
(* A set is a record                                                       *)
(*    assigned  ESI->CmpIdx is set: an event was added or tried            *)
(*    events    EventInfoArray: the codes and their positions              *)
(*    native    NativeInfoArray, all of it, the stale tail included        *)
(*    count     NativeCount                                                *)
(*    open      the native events perf_event has opened, by position       *)
(* A value is the sequence of native events it was computed from, which is *)
(* all that tells a right number from a wrong one.  NoNative and position  *)
(* 0 stand for the code's -1; positions count from 1.                      *)
(***************************************************************************)
EXTENDS Integers, Sequences, FiniteSets, SequencesExt, FiniteSetsExt

CONSTANTS
  Sets,         \* the event sets of a thread, all of one component
  NoSet,        \* no event set
  Natives,      \* native events
  NoNative,     \* no native event
  Presets,      \* presets, a function to the sequences of their native events
  NumCounters,  \* native events the hardware can count at once
  MaxNatives,   \* num_mpx_cntrs, the size of every array
  Faults,       \* the system calls that may fail
  Offered,      \* the events the program may name
  AnyOrder      \* FALSE: the program removes the event it added last

FaultKinds == {"add", "reopen", "remove", "start", "read", "stop"}

ASSUME SetsAssumption     == NoSet \notin Sets
ASSUME NativesAssumption  == NoNative \notin Natives
ASSUME PresetsAssumption  ==
  /\ DOMAIN Presets \cap Natives = {}
  /\ \A p \in DOMAIN Presets : Presets[p] \in Seq(Natives)
ASSUME CountersAssumption ==
  /\ NumCounters \in Nat \ {0}
  /\ MaxNatives \in Nat /\ MaxNatives >= NumCounters
ASSUME FaultsAssumption   == Faults \subseteq FaultKinds
ASSUME OrderAssumption    == AnyOrder \in BOOLEAN

Events == Natives \cup DOMAIN Presets

ASSUME OfferedAssumption  == Offered \subseteq Events

(* The native events of an event; a preset this platform lacks has none. *)
NativesOf(c) == IF c \in Natives THEN <<c>> ELSE Presets[c]

Slots == 1 .. MaxNatives
Free  == [event |-> NoNative, code |-> NoNative, pos |-> 0, owners |-> 0]

EmptySet ==
  [assigned |-> FALSE, events |-> <<>>, native |-> [i \in Slots |-> Free],
   count |-> 0, open |-> <<>>]

CodesOf(e) == [i \in DOMAIN e.events |-> e.events[i].code]

(* An outcome of a library call; "context" says it fetched the thread's    *)
(* context, which notes whose event set used it last.                      *)
Outcome(ret, e, context) == [ret |-> ret, e |-> e, context |-> context]

-----------------------------------------------------------------------------
(***************************************************************************)
(* perf_event: _pe_update_control_state.                                   *)
(***************************************************************************)

(* Mutation of UpdateControlState: the counters already open are kept. *)
UpdateAppends(e, kind) ==
  {[ok |-> TRUE,
    e  |-> [e EXCEPT !.open = @ \o [i \in 1 .. e.count - Len(@) |->
                                      e.native[Len(@) + i].code]]]}

(* Everything is closed, then the native events are opened again by their  *)
(* codes, in order, each at the position of its slot.  When they do not    *)
(* fit, or the kernel refuses one, all of them stay closed.                *)
UpdateControlState(e, kind) ==
  LET placed == [e EXCEPT !.native = [i \in Slots |->
                   IF i <= e.count THEN [e.native[i] EXCEPT !.pos = i]
                                   ELSE e.native[i]]]
      fits   == e.count <= NumCounters
  IN {[ok |-> ok, e |-> [placed EXCEPT !.open =
          IF ok THEN [i \in 1 .. e.count |-> e.native[i].code] ELSE <<>>]] :
        ok \in {ok \in BOOLEAN :
                  IF ok THEN fits
                  ELSE ~fits \/ (kind \in Faults /\ e.count > 0)}}

-----------------------------------------------------------------------------
(***************************************************************************)
(* Adding an event.                                                        *)
(***************************************************************************)

(* event_already_in_eventset: the slots in use that hold native event n. *)
Holding(e, n) ==
  {i \in 1 .. e.count : e.native[i].event = n /\ e.native[i].code = n}

(* Mutation of AddNative: the position of a shared native event is lost. *)
AddNativeLosesShared(a, n) ==
  LET hit == Holding(a.e, n)
      i   == a.e.count + 1
  IN IF a.full THEN a
     ELSE IF hit # {}
       THEN [a EXCEPT !.e.native[Min(hit)].owners = @ + 1, !.done = @ + 1]
     ELSE IF a.e.count = MaxNatives THEN [a EXCEPT !.full = TRUE]
     ELSE [a EXCEPT !.e.native[i] = [event |-> n, code |-> n,
                                     pos |-> @.pos, owners |-> 1],
                    !.e.count = i, !.pos = Append(@, 0),
                    !.done = @ + 1, !.new = TRUE]

(* One turn of the loop of add_native_events.  "done" counts the native    *)
(* events taken care of before the array was found full.                   *)
AddNative(a, n) ==
  LET hit == Holding(a.e, n)
      i   == a.e.count + 1
  IN IF a.full THEN a
     ELSE IF hit # {}
       THEN [a EXCEPT !.e.native[Min(hit)].owners = @ + 1,
                      !.pos  = Append(@, a.e.native[Min(hit)].pos),
                      !.done = @ + 1]
     ELSE IF a.e.count = MaxNatives THEN [a EXCEPT !.full = TRUE]
     ELSE [a EXCEPT !.e.native[i] = [event |-> n, code |-> n,
                                     pos |-> @.pos, owners |-> 1],
                    !.e.count = i, !.pos = Append(@, 0),
                    !.done = @ + 1, !.new = TRUE]

(* Mutation of FailClean: a native event others own is dropped as well. *)
FailCleanAll(e, n) ==
  LET hit == {i \in Slots : e.native[i].code = n}
  IN IF hit = {} THEN e
     ELSE [e EXCEPT !.native[Min(hit)] = Free, !.count = @ - 1]

(* add_native_fail_clean walks the whole array and looks at codes only. *)
FailClean(e, n) ==
  LET hit == {i \in Slots : e.native[i].code = n}
  IN IF hit = {} THEN e
     ELSE IF e.native[Min(hit)].owners = 1
       THEN [e EXCEPT !.native[Min(hit)] = Free, !.count = @ - 1]
       ELSE [e EXCEPT !.native[Min(hit)].owners = @ - 1]

(* _papi_hwi_map_events_to_native.  A native event that is not found ends  *)
(* the walk; what is not found keeps the position it had.                  *)
MapEvents(e) ==
  LET hits(c, n) == IF c \in Natives THEN Holding(e, n)
                    ELSE {i \in 1 .. e.count : e.native[i].code = n}
      lost == {i \in DOMAIN e.events :
                 LET c == e.events[i].code IN c \in Natives /\ hits(c, c) = {}}
      mapped(v) == [k \in DOMAIN v.pos |->
                      LET hit == hits(v.code, NativesOf(v.code)[k])
                      IN IF hit = {} THEN v.pos[k] ELSE e.native[Min(hit)].pos]
  IN [e EXCEPT !.events = [i \in DOMAIN e.events |->
        IF \E j \in lost : j <= i THEN e.events[i]
        ELSE [e.events[i] EXCEPT !.pos = mapped(e.events[i])]]]

(* Mutation of Listed: the positions are left as add_native_events set them. *)
ListedUnmapped(e, c, pos) ==
  [e EXCEPT !.events = Append(@, [code |-> c, pos |-> pos])]

Listed(e, c, pos) ==
  MapEvents([e EXCEPT !.events = Append(@, [code |-> c, pos |-> pos])])

(* PAPI_add_event of a stopped set: _papi_hwi_add_event, add_native_events. *)
AddEvent(e0, c) ==
  LET e == [e0 EXCEPT !.assigned = TRUE]
      a == FoldLeft(AddNative,
                    [e |-> e, pos |-> <<>>, done |-> 0, new |-> FALSE,
                     full |-> FALSE], NativesOf(c))
  IN IF Contains(CodesOf(e), c) \/ Len(e.events) = MaxNatives
       THEN {Outcome("ECNFLCT", e, FALSE)}
     ELSE IF NativesOf(c) = <<>> THEN {Outcome("ENOEVNT", e, FALSE)}
     ELSE IF a.full
       THEN {Outcome("ECOUNT",
                     FoldLeft(FailClean, a.e, SubSeq(NativesOf(c), 1, a.done)),
                     FALSE)}
     ELSE IF ~a.new THEN {Outcome("OK", Listed(a.e, c, a.pos), FALSE)}
     ELSE UNION {IF u.ok THEN {Outcome("OK", Listed(u.e, c, a.pos), TRUE)}
                 ELSE {Outcome("ECNFLCT", r.e, TRUE) :
                         r \in UpdateControlState(
                                 FoldLeft(FailClean, u.e, NativesOf(c)),
                                 "reopen")} :
                   u \in UpdateControlState(a.e, "add")}

-----------------------------------------------------------------------------
(***************************************************************************)
(* Removing an event.                                                      *)
(***************************************************************************)

(* One turn of the loop that takes the event out of the owners; "zero"     *)
(* counts the native events left without one.                              *)
Release(r, n) ==
  LET hit == Holding(r.e, n)
      j   == Min(hit)
  IN IF hit = {} THEN r
     ELSE [r EXCEPT !.e.native[j].owners = @ - 1,
                    !.zero = IF r.e.native[j].owners = 1 THEN @ + 1 ELSE @]

(* One turn of the compaction in remove_native_events: the last native     *)
(* event in use is moved to the free slot i.  Its ni_papi_code is not.     *)
Compact(e, i) ==
  LET live == {j \in i + 1 .. e.count : e.native[j].event # NoNative
                                        /\ e.native[j].owners # 0}
      j    == Max(live)
  IN IF e.native[i].event = NoNative \/ e.native[i].owners # 0 THEN e
     ELSE IF live = {}
       THEN [e EXCEPT !.native[i].event = NoNative, !.native[i].pos = 0]
     ELSE [e EXCEPT !.native[i] = [e.native[j] EXCEPT !.code = e.native[i].code],
                    !.native[j] = [Free EXCEPT !.code = e.native[j].code]]

(* PAPI_remove_event of a stopped set: _papi_hwi_remove_event and          *)
(* remove_native_events.  When the counters cannot be opened again the     *)
(* event stays in the list, though its native events are gone.             *)
RemoveEvent(e, c) ==
  LET r         == FoldLeft(Release, [e |-> e, zero |-> 0], NativesOf(c))
      compacted == [FoldLeft(Compact, r.e, [i \in 1 .. e.count |-> i])
                      EXCEPT !.count = @ - r.zero]
      thisindex == Min({i \in DOMAIN e.events : e.events[i].code = c})
      unlisted(d) == [d EXCEPT !.events = RemoveAt(@, thisindex)]
  IN IF ~Contains(CodesOf(e), c) THEN {Outcome("EINVAL", e, FALSE)}
     ELSE IF r.zero = 0 THEN {Outcome("OK", unlisted(r.e), FALSE)}
     ELSE {IF u.ok THEN Outcome("OK", unlisted(u.e), TRUE)
           ELSE Outcome("ECNFLCT", u.e, TRUE) :
             u \in UpdateControlState(compacted, "remove")}

-----------------------------------------------------------------------------
(***************************************************************************)
(* Reading: _papi_hwi_read hands out the counters by position.  An event   *)
(* without a first position is skipped: the caller's array is not written. *)
(***************************************************************************)
Values(e) ==
  [i \in DOMAIN e.events |->
     LET pos == e.events[i].pos
     IN IF pos[1] = 0 THEN <<>>
        ELSE [k \in DOMAIN pos |-> IF pos[k] \in DOMAIN e.open
                                     THEN e.open[pos[k]] ELSE NoNative]]
=============================================================================
