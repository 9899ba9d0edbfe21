--------------------------------- MODULE Glue -------------------------------
(***************************************************************************)
(* pbdPAPI's C glue (src/*.c) and the R functions that wrap one call of it *)
(* (papi.start, papi.stop, papi.avail.lookup, the first and last lines of  *)
(* papi.flops and its siblings), over PAPI's high-level interface.         *)
(*                                                                         *)
(* Each operator returns the set of ways the R function can end, records   *)
(*    ok      it returned; FALSE: it raised an R error                     *)
(*    hl      the library afterwards                                       *)
(*    values  what it returned: entries [name, code, n], name being the    *)
(*            name R shows and code the event the number was counted for   *)
(***************************************************************************)
EXTENDS HighLevel

CONSTANTS
  Names,     \* event names a caller may write; a known one is its code
  Uninit     \* TRUE: the word a *_on function leaves unset may read as -1

ASSUME NamesAssumption  == Codes \subseteq Names
ASSUME UninitAssumption == Uninit \in BOOLEAN

Ended(ok, s, values) == [ok |-> ok, hl |-> s, values |-> values]
Raised(s)            == Ended(FALSE, s, <<>>)

Known(evs) == \A i \in 1 .. Len(evs) : evs[i] \in Codes

(* papi.event.init and papi.event.init.light drop repeated events: what is *)
(* left are the first occurrences, in their order.                         *)
FirstOccurrences(evs) ==
  {i \in 1 .. Len(evs) : \A j \in 1 .. i - 1 : evs[j] # evs[i]}

Unique(evs) ==
  LET first == FirstOccurrences(evs)
      before(i) == Cardinality({j \in first : j < i})
  IN [k \in 1 .. Cardinality(first) |->
        evs[CHOOSE i \in first : before(i) = k - 1]]

(* papi.check.ncounters(n): the states it can return with; it raises an    *)
(* error in the others.                                                    *)
EnoughCounters(s, n) ==
  {Ended(c.ret = "OK" /\ n <= NumCounters, c.hl, <<>>) : c \in NumCountersCall(s)}

(* papi.avail.lookup: the table made when the package was loaded lists     *)
(* what the platform counts.                                               *)
Available(evs) == \A i \in 1 .. Len(evs) : evs[i] \in Countable

-----------------------------------------------------------------------------
(* papi.start(events).  For an unknown name papi_event_counter_init        *)
(* returns its message instead of codes, and papi_event_counter_on raises  *)
(* an error before it reaches PAPI.                                        *)
PapiStart(s, evs) ==
  UNION {IF ~c.ok \/ ~Known(evs) THEN {Raised(c.hl)}
         ELSE {Ended(o.ret = "OK", o.hl, <<>>) :
                 o \in StartCounters(c.hl, Unique(evs))} :
           c \in EnoughCounters(s, Len(evs))}

(* The list papi_event_counter_off makes: the i-th number PAPI stored      *)
(* under the i-th requested name; where PAPI stored nothing the number is  *)
(* whatever malloc returned (NoEvent).                                     *)
NamedValues(evs, values) ==
  [i \in 1 .. Len(evs) |->
     IF i <= Len(values)
       THEN [name |-> evs[i], code |-> values[i].code, n |-> values[i].n]
       ELSE [name |-> evs[i], code |-> NoEvent, n |-> 0]]

(* papi.stop(events).  With an unknown name papi_event_counter_off stops   *)
(* the counters, if one value is enough for them, before it raises.        *)
PapiStop(s, evs) ==
  IF ~Known(evs)
    THEN {Raised(o.hl) : o \in StopCounters(s, 1)}
    ELSE {IF o.ret = "OK" THEN Ended(TRUE, o.hl, NamedValues(Unique(evs), o.values))
          ELSE Raised(o.hl) : o \in StopCounters(s, Len(Unique(evs)))}

-----------------------------------------------------------------------------
(* The functions papi_flips_on, papi_flops_on, papi_utilization_on and     *)
(* papi_epc_on, after papi.check.ncounters(3L).  Except for utilization    *)
(* the success value is never stored: R may read -1 and raise an error     *)
(* although the counters have started.  The check has initialized the      *)
(* library, so PAPI_epc finds the event it asks for.                       *)
RateOn(s, mode, event) ==
  UNION {IF ~c.ok THEN {Raised(c.hl)}
         ELSE UNION {{Ended(o.ret = "OK", o.hl, <<>>)}
                     \cup (IF Uninit /\ mode # "IPC" THEN {Raised(o.hl)} ELSE {}) :
                       o \in RateCall(c.hl, mode, RateEvents(mode, event))} :
           c \in EnoughCounters(s, 3)}

(* The values of a rate call, 0 where PAPI stored none. *)
ValueAt(values, i) ==
  IF i <= Len(values) THEN values[i] ELSE [code |-> NoEvent, n |-> 0]

(* The count of a rate call's result and, for papi_epc_off, the three      *)
(* numbers after it in the list, under the names it gives them.            *)
RateList(mode, o) ==
  LET entry(name, v) == [name |-> name, code |-> v.code, n |-> v.n]
      count == [code |-> ValueAt(o.values, 1).code, n |-> o.ins]
  IN CASE mode = "FLIP" -> <<entry("flpins", count)>>
       [] mode = "FLOP" -> <<entry("flpops", count)>>
       [] mode = "IPC"  -> <<entry("ins", count)>>
       [] mode = "EPC"  -> <<entry("ref", count),
                             entry("core", [code |-> "rate", n |-> 0]),
                             entry("evt", ValueAt(o.values, 3)),
                             entry("epc", ValueAt(o.values, 2))>>

(* The length papi_*_off passes to PAPI_stop_counters. *)
StopLength(mode) == IF mode \in {"FLIP", "FLOP"} THEN 3 ELSE 1

(* Mutation of RateOff: PAPI_stop_counters is forgotten. *)
RateOffRunning(s, mode, event) ==
  {Ended(o.ret = "OK", o.hl, IF o.ret = "OK" THEN RateList(mode, o) ELSE <<>>) :
     o \in RateCall(s, mode, RateEvents(mode, event))}

(* papi_flips_off, papi_flops_off, papi_utilization_off, papi_epc_off: a   *)
(* rate call for the totals, then PAPI_stop_counters, whose result is      *)
(* ignored.                                                                *)
RateOff(s, mode, event) ==
  UNION {{Ended(o.ret = "OK", p.hl,
                IF o.ret = "OK" THEN RateList(mode, o) ELSE <<>>) :
            p \in StopCounters(o.hl, StopLength(mode))} :
          o \in RateCall(s, mode, RateEvents(mode, event))}

(* Mutation of Corrected: without max. *)
CorrectedUnclamped(values, b) ==
  [i \in 1 .. Len(values) |-> [values[i] EXCEPT !.n = @ - b[i].n]]

(* max(ret[[i]] - b[[i]], 0), the correction by the burn-in's result. *)
Corrected(values, b) ==
  [i \in 1 .. Len(values) |->
     [values[i] EXCEPT !.n = IF @ > b[i].n THEN @ - b[i].n ELSE 0]]
=============================================================================
