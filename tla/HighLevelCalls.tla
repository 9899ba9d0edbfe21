---------------------------- MODULE HighLevelCalls --------------------------
(***************************************************************************)
(* A program that calls PAPI's high-level interface in any order, with     *)
(* right and wrong arguments, and computes between the calls.              *)
(***************************************************************************)
EXTENDS HighLevel

CONSTANTS
  Requests,    \* the event arrays passed to PAPI_start_counters
  Lengths,     \* the array lengths passed with a values array
  EpcChoices,  \* the event argument of PAPI_epc
  MaxWork      \* bound on the work done while the counters run

ASSUME CallsAssumption ==
  /\ Requests \subseteq Seq(Codes)
  /\ Lengths \subseteq Nat
  /\ EpcChoices \subseteq Codes \cup {NoEvent}
  /\ MaxWork \in Nat

VARIABLES
  hl,         \* the library
  reply,      \* the last call: its name, events, return code and results
  work,       \* history: work since the measurement in progress began
  delivered   \* history: the part of it whose counts have been delivered

vars == <<hl, reply, work, delivered>>

Calls == {"none", "num", "start", "read", "accum", "stop", "rate"}

Replies == [call : Calls, request : Seq(Codes), ret : Returns,
            values : Values, ins : Nat, time : Nat]

TypeOK ==
  /\ hl \in Library
  /\ reply \in Replies
  /\ work \in Nat
  /\ delivered \in Nat

Init ==
  /\ hl = InitialLibrary
  /\ reply = [call |-> "none", request |-> <<>>, ret |-> "OK",
              values |-> <<>>, ins |-> 0, time |-> 0]
  /\ work = 0
  /\ delivered = 0

(* The call returns with outcome o. *)
Return(call, request, o) ==
  /\ hl' = o.hl
  /\ reply' = [call |-> call, request |-> request, ret |-> o.ret,
               values |-> o.values, ins |-> o.ins, time |-> o.time]

(* A call that can neither begin, deliver nor end a measurement, and one   *)
(* that failed, leave the history alone.                                   *)
HistoryKept(o) == o.ret # "OK" /\ UNCHANGED <<work, delivered>>

HistoryReset(o) == o.ret = "OK" /\ work' = 0 /\ delivered' = 0

HistoryDelivered(o) == o.ret = "OK" /\ work' = work /\ delivered' = work

CallNumCounters ==
  \E o \in NumCountersCall(hl) :
    Return("num", <<>>, o) /\ UNCHANGED <<work, delivered>>

CallStart ==
  \E evs \in Requests : \E o \in StartCounters(hl, evs) :
    Return("start", evs, o) /\ (HistoryKept(o) \/ HistoryReset(o))

CallRead ==
  \E len \in Lengths : \E o \in ReadCounters(hl, len) :
    Return("read", <<>>, o) /\ (HistoryKept(o) \/ HistoryDelivered(o))

CallAccum ==
  \E len \in Lengths : \E o \in AccumCounters(hl, len) :
    Return("accum", <<>>, o) /\ (HistoryKept(o) \/ HistoryDelivered(o))

CallStop ==
  \E len \in Lengths : \E o \in StopCounters(hl, len) :
    Return("stop", <<>>, o) /\ (HistoryKept(o) \/ HistoryReset(o))

(* The first successful rate call begins a measurement, a later one        *)
(* delivers its counts.                                                    *)
Rate(mode, event) ==
  \E evs \in RateRequests(hl, mode, event) : \E o \in RateCall(hl, mode, evs) :
    /\ Return("rate", evs, o)
    /\ \/ HistoryKept(o)
       \/ hl.running = "STOP" /\ HistoryReset(o)
       \/ hl.running # "STOP" /\ HistoryDelivered(o)

CallRate ==
  \/ \E mode \in RateModes \ {"EPC"} : Rate(mode, NoEvent)
  \/ \E event \in EpcChoices : Rate("EPC", event)

Compute ==
  /\ work < MaxWork /\ hl.es.count < MaxWork
  /\ hl' = WorkDone(hl)
  /\ work' = IF hl.running = "STOP" THEN work ELSE work + 1
  /\ UNCHANGED <<reply, delivered>>

Next ==
  \/ CallNumCounters \/ CallStart \/ CallRead \/ CallAccum
  \/ CallStop \/ CallRate \/ Compute

Spec == Init /\ [][Next]_vars

-----------------------------------------------------------------------------
(***************************************************************************)
(* Properties.                                                             *)
(***************************************************************************)

(* When no interface owns the counters (HL_STOP) the event set is empty    *)
(* and does not run: whatever sequence of calls, wrong ones included, came *)
(* before, the next measurement starts from a clean set.  It is what       *)
(* PAPI_start_counters and _hl_rate_calls rely on when they add their      *)
(* events to the set without looking at it.                                *)
QuietWhenStopped ==
  hl.running = "STOP" => ~hl.es.running /\ hl.es.events = <<>>

(* While a measurement is in progress the hardware runs, and no work is    *)
(* lost or counted twice across reads, resets and the stop/start pair of   *)
(* the rate calls: what was delivered and what the counters hold add up to *)
(* the work done; for a rate call the total and the real time cover the    *)
(* same interval.                                                          *)
Conservation ==
  hl.running # "STOP" =>
    /\ hl.es.running
    /\ delivered + hl.es.count = work
    /\ hl.running \in RateModes => hl.totalIns = delivered /\ hl.age = work

(* The length of the values array local to each rate function. *)
RateArray(mode) ==
  CASE mode \in {"FLIP", "FLOP"} -> 1
    [] mode = "IPC"              -> 2
    [] mode = "EPC"              -> 3

(* PAPI_stop copies a value for every event in the set, however long the   *)
(* array is it copies to: the set must hold no more events than num_evts,  *)
(* the length the caller's array was checked against, or, for a rate call, *)
(* than the local array of the call.                                       *)
ArrayFits ==
  /\ hl.running = "START" => Len(hl.es.events) = hl.numEvts
  /\ hl.running \in RateModes => Len(hl.es.events) <= RateArray(hl.running)

(* A call that returns an error does not disturb the measurement in        *)
(* progress: an attempt to start another one, a rate call of another kind, *)
(* a short array or a failed read leave its events and counts alone.       *)
ErrorsAreHarmless ==
  [][hl.running # "STOP" /\ reply' # reply /\ reply'.ret # "OK"
       => hl'.running = hl.running /\ hl'.es = hl.es]_vars

(* papi_hl.c implements the measurement device of Meter.tla. *)
MeterOfCalls ==
  INSTANCE Meter WITH session <- [mode |-> hl.running,
                                  events |-> hl.es.events,
                                  work |-> work,
                                  delivered |-> delivered]

ImplementsMeter == MeterOfCalls!MeterSpec

(* After PAPI_stop_counters reports that the counters are stopped, or that *)
(* they were not running, no counter runs (papi_hl.c, the comments of the  *)
(* rate calls: "A call to PAPI_stop_counters() will stop the counters from *)
(* running and then calls such as PAPI_start_counters() or other rate      *)
(* calls can safely be used").                                             *)
StopStops ==
  reply.call = "stop" /\ reply.ret \in {"OK", "ENOTRUN"} => ~hl.es.running

(* PAPI_start_counters "starts counting the events named in the *events    *)
(* array".                                                                 *)
StartCountsRequest ==
  [][reply' # reply /\ reply'.call = "start" /\ reply'.ret = "OK"
       => hl'.es.events = reply'.request]_vars
=============================================================================
