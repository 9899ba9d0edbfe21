------------------------------ MODULE HighLevel -----------------------------
(***************************************************************************)
(* PAPI's high-level interface (papi_hl.c): the per-thread HighLevelInfo   *)
(* over one event set, and a program that calls its functions in any order *)
(* with any arguments.                                                     *)
(*                                                                         *)
(* Library state, the record hl:                                           *)
(*    ready     the library is initialised and the HighLevelInfo allocated *)
(*    running   which interface owns the counters: the HL_* constants      *)
(*    numEvts   num_evts, set by PAPI_start_counters only                  *)
(*    totalIns  total_ins, the running total of the rate calls             *)
(*    age       work since initial_real_time was taken (the clock is the   *)
(*              work the program has done)                                 *)
(*    es        the event set                                              *)
(*                                                                         *)
(* Each function is again an operator from the state to its possible       *)
(* replies, so that the modules that model pbdPAPI can call it.            *)
(***************************************************************************)
EXTENDS EventSet

CONSTANTS
  NoEvent,      \* event code 0: "use the default" in PAPI_epc
  FpIns, FpOps, TotIns, TotCyc, RefCyc   \* the preset events of the rate calls

ASSUME PresetsAssumption ==
  /\ {FpIns, FpOps, TotIns, TotCyc, RefCyc} \subseteq Codes
  /\ NoEvent \notin Codes

RateModes == {"FLIP", "FLOP", "IPC", "EPC"}
Modes     == {"STOP", "START"} \cup RateModes

Library == [ready : BOOLEAN, running : Modes, numEvts : Nat,
            totalIns : Nat, age : Nat, es : EventSets]

InitialLibrary == [ready |-> FALSE, running |-> "STOP", numEvts |-> 0,
                   totalIns |-> 0, age |-> 0, es |-> EmptyEventSet]

(* What a call returns: its code, the values it stores, and for a rate     *)
(* call the count and the real time since the first call.                  *)
Reply(ret, s, values, ins, time) ==
  [ret |-> ret, hl |-> s, values |-> values, ins |-> ins, time |-> time]

Returning(ret, s) == Reply(ret, s, <<>>, 0, 0)

(* _internal_check_state: the first call initialises the library. *)
CheckFails(s) ==
  IF "init" \in Faults /\ ~s.ready THEN {Returning("ESYS", s)} ELSE {}

CheckState(s) == [s EXCEPT !.ready = TRUE]

(* Mutations of CleanedUp: num_evts is set to -1, as the event set's       *)
(* handle is; PAPI_cleanup_eventset is forgotten.                          *)
CleanedUpToMinusOne(s, es) ==
  [s EXCEPT !.running = "STOP", !.numEvts = -1, !.totalIns = 0, !.age = 0,
            !.es = Cleanup(es)]

CleanedUpDirty(s, es) ==
  [s EXCEPT !.running = "STOP", !.numEvts = 0, !.totalIns = 0, !.age = 0, !.es = es]

(* _internal_cleanup_hl_info, with the PAPI_cleanup_eventset after it. *)
CleanedUp(s, es) ==
  [s EXCEPT !.running = "STOP", !.numEvts = 0, !.totalIns = 0, !.age = 0,
            !.es = Cleanup(es)]

-----------------------------------------------------------------------------
(***************************************************************************)
(* PAPI_num_counters, PAPI_start_counters, PAPI_read_counters,             *)
(* PAPI_accum_counters and PAPI_stop_counters.                             *)
(***************************************************************************)

NumCountersCall(s) == CheckFails(s) \cup {Returning("OK", CheckState(s))}

(* Mutation of StartLoaded: num_evts is not stored. *)
StartLoadedUncounted(s, es, n) ==
  {Returning(b.ret,
     IF b.ret = "OK" THEN [s EXCEPT !.running = "START", !.es = b.es]
                     ELSE [s EXCEPT !.es = b.es]) : b \in Start(es)}

(* After the events are in the set: start it. *)
StartLoaded(s, es, n) ==
  {Returning(b.ret,
     IF b.ret = "OK"
       THEN [s EXCEPT !.running = "START", !.numEvts = n, !.es = b.es]
       ELSE [s EXCEPT !.es = b.es]) : b \in Start(es)}

StartChecked(s, evs) ==
  IF s.running # "STOP" THEN {Returning("EINVAL", s)}
  ELSE UNION {CASE a.ret = "OK"     -> StartLoaded(s, a.es, Len(evs))
                [] a.ret = "EISRUN" -> {Returning("EISRUN", s)}
                [] OTHER            -> {Returning(a.ret, CleanedUp(s, a.es))} :
                a \in AddEach(s.es, evs)}

StartCounters(s, evs) ==
  IF evs = <<>> THEN {Returning("EINVAL", s)}
  ELSE CheckFails(s) \cup StartChecked(CheckState(s), evs)

(* PAPI_read_counters.  PAPI_accum_counters has the same effect: values is *)
(* then what it adds to the caller's array.                                *)
ReadChecked(s, len) ==
  IF s.running # "START" \/ len < s.numEvts THEN {Returning("EINVAL", s)}
  ELSE {Reply(r.ret, [s EXCEPT !.es = r.es], r.values, 0, 0) :
          r \in ReadThenReset(s.es)}

ReadCounters(s, len) == CheckFails(s) \cup ReadChecked(CheckState(s), len)

AccumCounters(s, len) ==
  IF len = 0 THEN {Returning("EINVAL", s)} ELSE ReadCounters(s, len)

(* The caller's array is only written in mode START: a rate mode stops     *)
(* into a local array.                                                     *)
StopChecked(s, len) ==
  CASE s.running = "STOP" -> {Returning("ENOTRUN", s)}
    [] s.running = "START" /\ len < s.numEvts -> {Returning("EINVAL", s)}
    [] OTHER ->
         {IF p.ret = "OK"
            THEN Reply("OK", CleanedUp(s, p.es),
                       IF s.running = "START" THEN p.values ELSE <<>>, 0, 0)
            ELSE Returning(p.ret, [s EXCEPT !.es = p.es]) : p \in Stop(s.es)}

StopCounters(s, len) == CheckFails(s) \cup StopChecked(CheckState(s), len)

-----------------------------------------------------------------------------
(***************************************************************************)
(* The rate calls PAPI_flips, PAPI_flops, PAPI_ipc and PAPI_epc.           *)
(***************************************************************************)

(* The first call of a measurement: set up the events and start them. *)
RateStart(s, es, mode) ==
  {Returning(b.ret,
     [s EXCEPT !.running = IF b.ret = "OK" THEN mode ELSE @,
               !.totalIns = 0, !.age = 0, !.es = b.es]) : b \in Start(es)}

RateBegin(s, mode, evs) ==
  UNION {IF a.ret = "OK" THEN RateStart(s, a.es, mode)
         ELSE {Returning(a.ret, CleanedUp(s, a.es))} : a \in AddEvents(s.es, evs)}

(* Mutation of RateRestart: the total is the last interval's count. *)
RateRestartForgetful(s, p) ==
  {IF b.ret = "OK"
     THEN Reply("OK", [s EXCEPT !.totalIns = p.values[1].n, !.es = b.es],
                p.values, p.values[1].n, s.age)
     ELSE Returning(b.ret, [s EXCEPT !.running = "STOP", !.es = b.es]) :
       b \in Start(p.es)}

(* A later call: stop, report the totals, start again. *)
RateRestart(s, p) ==
  LET total == s.totalIns + p.values[1].n IN
  {IF b.ret = "OK"
     THEN Reply("OK", [s EXCEPT !.totalIns = total, !.es = b.es],
                p.values, total, s.age)
     ELSE Returning(b.ret, [s EXCEPT !.running = "STOP", !.totalIns = total,
                                     !.es = b.es]) : b \in Start(p.es)}

RateReport(s) ==
  UNION {IF p.ret = "OK" THEN RateRestart(s, p)
         ELSE {Returning(p.ret, [s EXCEPT !.running = "STOP", !.es = p.es])} :
           p \in Stop(s.es)}

(* Mutation of RateChecked: another mode is not refused. *)
RateCheckedAny(s, mode, evs) ==
  IF s.running = mode THEN RateReport(s) ELSE RateBegin(s, mode, evs)

RateChecked(s, mode, evs) ==
  CASE s.running = "STOP" -> RateBegin(s, mode, evs)
    [] s.running = mode   -> RateReport(s)
    [] OTHER              -> {Returning("EINVAL", s)}

RateCall(s, mode, evs) ==
  CheckFails(s) \cup RateChecked(CheckState(s), mode, evs)

(* The events PAPI_flips, PAPI_flops, PAPI_ipc and PAPI_epc hand to        *)
(* _hl_rate_calls.  PAPI_epc leaves out PAPI_REF_CYC when the library does *)
(* not know such an event.                                                 *)
EpcPair(event) == <<IF event = NoEvent THEN TotIns ELSE event, TotCyc>>

EpcEvents(event) ==
  EpcPair(event) \o (IF RefCyc \in Countable THEN <<RefCyc>> ELSE <<>>)

RateEvents(mode, event) ==
  CASE mode = "FLIP" -> <<FpIns>>
    [] mode = "FLOP" -> <<FpOps>>
    [] mode = "IPC"  -> <<TotIns, TotCyc>>
    [] mode = "EPC"  -> EpcEvents(event)

(* It asks before the state is checked, and a library that the program has *)
(* not initialized knows no event yet.                                     *)
RateRequests(s, mode, event) ==
  {RateEvents(mode, event)}
  \cup (IF mode = "EPC" /\ ~s.ready THEN {EpcPair(event)} ELSE {})

-----------------------------------------------------------------------------
(* The program computes: the counters and the clock advance. *)
WorkDone(s) ==
  [s EXCEPT !.es = Work(@),
            !.age = IF s.running \in RateModes THEN @ + 1 ELSE @]
=============================================================================
