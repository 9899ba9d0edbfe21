------------------------------ MODULE EventSet ------------------------------
(***************************************************************************)
(* The event set of PAPI's low-level interface (papi.c, papi_internal.c),  *)
(* as the high-level interface uses it: one set per thread, not attached,  *)
(* not multiplexed, no overflow handler and no profiling.                  *)
(*                                                                         *)
(* An event set is a record                                                *)
(*    events   the codes in the set, in the order they were added          *)
(*    running  PAPI_RUNNING is set in ESI->state                           *)
(*    count    units of work the hardware has seen since PAPI_start; when  *)
(*             the set is stopped, what sw_stop holds                      *)
(* A counter value is the pair [code, n]: keeping the code beside the      *)
(* number makes a value that is delivered in another event's place visible.*)
(*                                                                         *)
(* Every function of the library is an operator that returns the set of    *)
(* outcomes the call can have, records [ret, es, values].                  *)
(***************************************************************************)
EXTENDS Integers, Sequences, FiniteSets

CONSTANTS
  Codes,        \* event codes a caller may name
  Countable,    \* the codes this platform can count
  NumCounters,  \* hardware counters
  Faults        \* the hardware or system calls that may fail

FaultKinds == {"init", "add", "start", "stop", "read", "reset"}

ASSUME CodesAssumption    == Countable \subseteq Codes
ASSUME CountersAssumption == NumCounters \in Nat \ {0}
ASSUME FaultsAssumption   == Faults \subseteq FaultKinds

(***************************************************************************)
(* Return codes.  "partial" is the positive index PAPI_add_events returns  *)
(* when an event other than the first one cannot be added.                 *)
(***************************************************************************)
Errors == {"EINVAL", "EISRUN", "ENOTRUN", "ENOEVNT", "ECNFLCT", "ESYS", "partial"}
Returns == Errors \cup {"OK"}

EventSets == [events : Seq(Codes), running : BOOLEAN, count : Nat]
Values    == Seq([code : Codes, n : Nat])

EmptyEventSet == [events |-> <<>>, running |-> FALSE, count |-> 0]

Outcome(ret, es, values) == [ret |-> ret, es |-> es, values |-> values]

(* What a hardware call that may fail adds to a function's outcomes. *)
Failing(kind, es) == IF kind \in Faults THEN {Outcome("ESYS", es, <<>>)} ELSE {}

(* The counters as the hardware reports them, one value per event added. *)
Reading(es) ==
  [i \in 1 .. Len(es.events) |-> [code |-> es.events[i], n |-> es.count]]

-----------------------------------------------------------------------------
(***************************************************************************)
(* The functions.                                                          *)
(***************************************************************************)

(* The i-th of the codes evs finds an available event, is not in the set   *)
(* yet, and there is a counter for it.                                     *)
Addable(es, evs, i) ==
  /\ evs[i] \in Countable
  /\ \A j \in 1 .. Len(es.events) : es.events[j] # evs[i]
  /\ \A j \in 1 .. i - 1 : evs[j] # evs[i]
  /\ Len(es.events) + i <= NumCounters

AddError(evs, i) ==
  IF evs[i] \notin Countable THEN "ENOEVNT" ELSE "ECNFLCT"

(* PAPI_add_event on evs[1], evs[2], ... up to the first call that fails,  *)
(* the k-th: the events before it stay in the set.  k = Len(evs) + 1 when  *)
(* every call succeeds.                                                    *)
AddFailsAt(es, evs) ==
  {k \in 1 .. Len(evs) + 1 :
     /\ \A j \in 1 .. k - 1 : Addable(es, evs, j)
     /\ k <= Len(evs) => ("add" \in Faults \/ ~Addable(es, evs, k))}

AddEach(es, evs) ==
  IF es.running THEN {Outcome("EISRUN", es, <<>>)}
  ELSE {Outcome(IF k > Len(evs) THEN "OK"
                ELSE IF Addable(es, evs, k) THEN "ESYS" ELSE AddError(evs, k),
                [es EXCEPT !.events = @ \o SubSeq(evs, 1, k - 1)],
                <<>>) : k \in AddFailsAt(es, evs)}

(* PAPI_add_events: the same loop, which reports a late failure as the     *)
(* (positive) number of events it did add.                                 *)
AddEvents(es, evs) ==
  {IF o.ret # "OK" /\ o.es # es THEN [o EXCEPT !.ret = "partial"] ELSE o :
     o \in AddEach(es, evs)}

(* PAPI_start.  The perf_event component clears the counters first.        *)
Start(es) ==
  IF es.running THEN {Outcome("EISRUN", es, <<>>)}
  ELSE IF es.events = <<>> THEN {Outcome("EINVAL", es, <<>>)}
  ELSE {Outcome("OK", [es EXCEPT !.running = TRUE, !.count = 0], <<>>)}
       \cup Failing("start", es)

(* PAPI_stop.  When reading or stopping the hardware fails the set keeps   *)
(* its PAPI_RUNNING state.  It copies one value for EVERY event in the     *)
(* set, whatever the size of the caller's array.                           *)
Stop(es) ==
  IF ~es.running THEN {Outcome("ENOTRUN", es, <<>>)}
  ELSE {Outcome("OK", [es EXCEPT !.running = FALSE], Reading(es))}
       \cup Failing("stop", es)

(* PAPI_read. *)
Read(es) ==
  {Outcome("OK", es, Reading(es))}
  \cup (IF es.running THEN Failing("read", es) ELSE {})

(* PAPI_reset. *)
Reset(es) ==
  {Outcome("OK", [es EXCEPT !.count = 0], <<>>)}
  \cup (IF es.running THEN Failing("reset", es) ELSE {})

(* Mutation of ReadThenReset: PAPI_reset is forgotten. *)
ReadOnly(es) == Read(es)

(* PAPI_accum: read, add to the caller's values, reset.                    *)
(* PAPI_read followed by PAPI_reset has the same effect on the set; the    *)
(* two differ in what the caller's array holds afterwards.                 *)
ReadThenReset(es) ==
  UNION {IF r.ret = "OK"
           THEN {Outcome(z.ret, z.es, r.values) : z \in Reset(es)}
           ELSE {r} : r \in Read(es)}

(* PAPI_cleanup_eventset; both callers in papi_hl.c ignore its result. *)
Cleanup(es) == IF es.running THEN es ELSE [es EXCEPT !.events = <<>>, !.count = 0]

(* The program computes: a running set counts the work. *)
Work(es) == IF es.running THEN [es EXCEPT !.count = @ + 1] ELSE es
=============================================================================
