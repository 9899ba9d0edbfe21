------------------------------- MODULE Session ------------------------------
(***************************************************************************)
(* An R session that profiles expressions: system.event, system.flips,     *)
(* system.flops, system.utilization (mode IPC) and system.epc, called from *)
(* the top level or from inside one another's expressions, among them      *)
(* errors, caught or not, interrupts, and bare papi.start and papi.stop.   *)
(*                                                                         *)
(* The interpreter is one thread; its call stack is the state that tests   *)
(* of single calls never see.  A frame is one active call of a profiler:   *)
(*    fn      the function: "event" or the rate mode it uses               *)
(*    evs     its events argument                                          *)
(*    burnin  its burnin argument                                          *)
(*    null    it is the burn-in call of the frame below it, whose          *)
(*            expression is NULL                                           *)
(*    pc      where it is: probe (papi.start), unprobe (papi.stop) and     *)
(*            burnin (the recursive call), start, eval, stop               *)
(*    b       the burn-in's result                                         *)
(*    err     the error tryCatch has caught                                *)
(*    mine    history: work done while its expression was evaluated        *)
(*                                                                         *)
(* The profiler itself costs one unit of work between starting the         *)
(* counters and stopping them: what burn-in is there to take away.         *)
(***************************************************************************)
EXTENDS Glue

CONSTANTS
  Profilers,      \* the profiling functions the session uses
  EventRequests,  \* the events arguments it passes
  EpcRequests,    \* the event argument of system.epc
  Happens,        \* what else may happen in it
  MaxDepth,       \* bound on the depth of nested calls
  MaxWork         \* bound on the work done while the counters run

(* error, other: an expression raises a simpleError, or an error of        *)
(* another class; catch: an expression catches an error of a call in it;   *)
(* interrupt: the user interrupts; nest: an expression profiles another;   *)
(* direct: papi.start and papi.stop at the top level.                      *)
Occurrences == {"error", "other", "catch", "interrupt", "nest", "direct"}

ASSUME SessionAssumption ==
  /\ Profilers \subseteq {"event"} \cup RateModes
  /\ EventRequests \subseteq Seq(Names)
  /\ EpcRequests \subseteq Names
  /\ Happens \subseteq Occurrences
  /\ MaxDepth \in Nat
  /\ MaxWork \in Nat

VARIABLES
  hl,     \* PAPI
  stack,  \* the active calls, the innermost last
  last    \* the result a call has just returned to the session

vars == <<hl, stack, last>>

ResultNames == Names \cup {"flpins", "flpops", "ins", "ref", "core", "evt", "epc"}

Results == Seq([name : ResultNames, code : Codes \cup {NoEvent, "rate"}, n : Nat])

Frames == [fn : {"event"} \cup RateModes, evs : Seq(Names),
           burnin : BOOLEAN, null : BOOLEAN,
           pc : {"probe", "unprobe", "burnin", "start", "eval", "stop"},
           b : Results, err : {"none", "error", "other"}, mine : Nat]

NoResult == [fn |-> "none", evs |-> <<>>, burnin |-> FALSE, mine |-> 0,
             values |-> <<>>]

TypeOK ==
  /\ hl \in Library
  /\ stack \in Seq(Frames)
  /\ last \in [fn : {"none", "event", "stop"} \cup RateModes, evs : Seq(Names),
               burnin : BOOLEAN, mine : Nat, values : Results]

Init == hl = InitialLibrary /\ stack = <<>> /\ last = NoResult

-----------------------------------------------------------------------------
(* The calls.                                                              *)

Top   == stack[Len(stack)]
Below == SubSeq(stack, 1, Len(stack) - 1)

At(pc)   == stack # <<>> /\ Top.pc = pc
Goto(pc) == [stack EXCEPT ![Len(stack)].pc = pc]

(* The session's own code is what runs: its top level, or the expression   *)
(* of the innermost call.                                                  *)
UserTurn == stack = <<>> \/ (At("eval") /\ ~Top.null)

AfterProbe(burnin) == IF burnin THEN "burnin" ELSE "start"

(* Mutation of NewFrame: system.event does not probe. *)
NewFrameUnprobed(fn, evs, burnin, null) ==
  [fn |-> fn, evs |-> evs, burnin |-> burnin, null |-> null,
   pc |-> AfterProbe(burnin), b |-> <<>>, err |-> "none", mine |-> 0]

NewFrame(fn, evs, burnin, null) ==
  [fn |-> fn, evs |-> evs, burnin |-> burnin, null |-> null,
   pc |-> IF fn = "event" THEN "probe" ELSE AfterProbe(burnin),
   b |-> <<>>, err |-> "none", mine |-> 0]

(* A unit of work is done: it belongs to every expression being evaluated. *)
Charged(frames) ==
  [i \in 1 .. Len(frames) |->
     IF frames[i].pc = "eval" THEN [frames[i] EXCEPT !.mine = @ + 1] ELSE frames[i]]

(* What papi.avail.lookup is asked before the counters are started. *)
LookedUp(f) ==
  CASE f.fn \in {"event", "EPC"} -> f.evs
    [] f.fn = "FLIP"             -> <<FpIns>>
    [] f.fn = "FLOP"             -> <<FpOps, TotCyc>>
    [] f.fn = "IPC"              -> <<TotIns, TotCyc>>

RateEvent(f) == IF f.fn = "EPC" THEN f.evs[1] ELSE NoEvent

Begins(f) == IF f.fn = "event" THEN PapiStart(hl, f.evs)
             ELSE RateOn(hl, f.fn, RateEvent(f))
Ends(f)   == IF f.fn = "event" THEN PapiStop(hl, f.evs)
             ELSE RateOff(hl, f.fn, RateEvent(f))

(* An error or an interrupt unwinds the calls above frame k.  system.event *)
(* evaluates its expression in tryCatch(error=) and goes on to stop the    *)
(* counters; the other functions do not catch.  An expression may catch    *)
(* the error of a call it makes.                                           *)
(* Mutation of TryCatches: tryCatch(simpleError=). *)
TryCatchesSimple(f, kind) == f.fn = "event" /\ f.pc = "eval" /\ kind = "error"

TryCatches(f, kind) == f.fn = "event" /\ f.pc = "eval" /\ kind # "interrupt"

UserCatches(f, kind) ==
  "catch" \in Happens /\ f.pc = "eval" /\ ~f.null /\ kind # "interrupt"

Throw(kind, frames) ==
  \E k \in 0 .. Len(frames) :
    /\ \A i \in k + 1 .. Len(frames) : ~TryCatches(frames[i], kind)
    /\ \/ k = 0 /\ stack' = <<>>
       \/ k > 0 /\ UserCatches(frames[k], kind) /\ stack' = SubSeq(frames, 1, k)
       \/ /\ k > 0 /\ TryCatches(frames[k], kind)
          /\ stack' = [SubSeq(frames, 1, k) EXCEPT ![k].pc = "stop",
                                                    ![k].err = kind]

(* A call into the glue ends with outcome o: on to pc, or an R error. *)
Proceed(o, pc) ==
  /\ hl' = o.hl
  /\ \/ o.ok /\ stack' = Goto(pc)
     \/ ~o.ok /\ Throw("error", Below)
  /\ last' = NoResult

-----------------------------------------------------------------------------
(* The profilers, step by step.                                            *)

(* Mutation of Unprobe: the papi.stop of the probe is missing. *)
UnprobeSkipped == /\ At("unprobe")
                  /\ Proceed(Ended(TRUE, hl, <<>>), AfterProbe(Top.burnin))

(* system.event first starts and stops the counters for nothing. *)
Probe   == At("probe") /\ \E o \in PapiStart(hl, Top.evs) : Proceed(o, "unprobe")
Unprobe == At("unprobe") /\ \E o \in PapiStop(hl, Top.evs) :
                              Proceed(o, AfterProbe(Top.burnin))

(* b <- system.xyz(burnin=FALSE), with no expression. *)
BurnIn ==
  /\ At("burnin")
  /\ stack' = Append(Goto("start"), NewFrame(Top.fn, Top.evs, FALSE, TRUE))
  /\ last' = NoResult
  /\ UNCHANGED hl

BeginMeasuring ==
  /\ At("start")
  /\ last' = NoResult
  /\ \/ /\ ~Available(LookedUp(Top))
        /\ Throw("error", Below)
        /\ UNCHANGED hl
     \/ /\ Available(LookedUp(Top))
        /\ \E o \in Begins(Top) :
             \/ /\ o.ok
                /\ hl' = WorkDone(o.hl)
                /\ stack' = Append(Charged(Below), [Top EXCEPT !.pc = "eval"])
             \/ /\ ~o.ok
                /\ hl' = o.hl
                /\ Throw("error", Below)

(* The expression's value has been computed. *)
Finish ==
  /\ At("eval")
  /\ stack' = Goto("stop")
  /\ last' = NoResult
  /\ UNCHANGED hl

(* The burn-in's result goes to its caller, any other to the session. *)
ReturnValues(values) ==
  \/ /\ Top.null
     /\ stack' = [Below EXCEPT ![Len(Below)].b = values]
     /\ last' = NoResult
  \/ /\ ~Top.null
     /\ stack' = Below
     /\ last' = [fn |-> Top.fn, evs |-> Top.evs, burnin |-> Top.burnin,
                 mine |-> Top.mine, values |-> values]

(* Only a simpleError is raised again; another error is forgotten. *)
EndMeasuring ==
  /\ At("stop")
  /\ \E o \in Ends(Top) :
       /\ hl' = o.hl
       /\ \/ /\ o.ok /\ Top.err # "error"
             /\ ReturnValues(IF Top.burnin THEN Corrected(o.values, Top.b)
                                            ELSE o.values)
          \/ /\ ~o.ok \/ Top.err = "error"
             /\ Throw("error", Below)
             /\ last' = NoResult

-----------------------------------------------------------------------------
(* The session.                                                            *)

Bounded == /\ hl.totalIns + hl.es.count < MaxWork
           /\ \A i \in 1 .. Len(stack) : stack[i].mine < MaxWork

Arguments(fn) == CASE fn = "event" -> EventRequests
                   [] fn = "EPC"   -> {<<e>> : e \in EpcRequests}
                   [] OTHER        -> {<<>>}

Profile ==
  /\ UserTurn
  /\ stack # <<>> => "nest" \in Happens /\ Len(stack) < MaxDepth
  /\ \E fn \in Profilers : \E evs \in Arguments(fn), burnin \in BOOLEAN :
       /\ Bounded \/ (stack = <<>> /\ fn = "event")
       /\ stack' = Append(stack, NewFrame(fn, evs, burnin, FALSE))
  /\ last' = NoResult
  /\ UNCHANGED hl

RaiseError ==
  /\ stack # <<>> /\ UserTurn
  /\ \E kind \in Happens \cap {"error", "other"} : Throw(kind, stack)
  /\ last' = NoResult
  /\ UNCHANGED hl

(* R polls for interrupts wherever it evaluates. *)
Interrupt ==
  /\ stack # <<>> /\ "interrupt" \in Happens
  /\ Throw("interrupt", stack)
  /\ last' = NoResult
  /\ UNCHANGED hl

Compute ==
  /\ UserTurn /\ Bounded
  /\ hl' = WorkDone(hl)
  /\ stack' = Charged(stack)
  /\ last' = NoResult

StartDirectly ==
  /\ stack = <<>> /\ "direct" \in Happens
  /\ \E evs \in EventRequests : \E o \in PapiStart(hl, evs) : hl' = o.hl
  /\ last' = NoResult
  /\ UNCHANGED stack

StopDirectly ==
  /\ stack = <<>> /\ "direct" \in Happens
  /\ \E evs \in EventRequests : \E o \in PapiStop(hl, evs) :
       /\ hl' = o.hl
       /\ last' = IF o.ok THEN [NoResult EXCEPT !.fn = "stop", !.evs = evs,
                                                !.values = o.values]
                  ELSE NoResult
  /\ UNCHANGED stack

ProfilerStep == Probe \/ Unprobe \/ BurnIn \/ BeginMeasuring \/ EndMeasuring

Next ==
  \/ ProfilerStep \/ Finish
  \/ Profile \/ RaiseError \/ Interrupt \/ Compute \/ StartDirectly \/ StopDirectly

Spec == Init /\ [][Next]_vars

(* The interpreter keeps running the profilers' code, and an expression    *)
(* that is evaluated again and again does not run forever every time.      *)
FairSpec == Spec /\ WF_vars(ProfilerStep) /\ SF_vars(Finish)

-----------------------------------------------------------------------------
(* Properties.                                                             *)

(* What a measurement without correction counts besides the expression. *)
Overhead == IF last.burnin THEN 0 ELSE 1

(* When system.event returns, it returns one value for each event that was *)
(* asked for, in order and under its own name, and the value is the work   *)
(* of this very expression: with burn-in without, otherwise with the       *)
(* profiler's own.  This whatever came before: rate measurements an error  *)
(* has left running, interrupted calls, counters started by hand, and      *)
(* hardware calls that failed at any point (the probe at its beginning     *)
(* flushes what they left in the event set).                               *)
EventFaithful ==
  last.fn = "event" =>
    last.values = [i \in 1 .. Len(Unique(last.evs)) |->
                     [name |-> Unique(last.evs)[i], code |-> Unique(last.evs)[i],
                      n |-> last.mine + Overhead]]

(* The calls that have started the counters and not yet stopped them. *)
Holding == {i \in 1 .. Len(stack) : stack[i].pc \in {"unprobe", "eval", "stop"}}

(* The counters run exactly while one call of system.event holds them;     *)
(* nesting, errors on every level and failed starts never lose or share    *)
(* them, and between calls they are free.  (For sessions that use          *)
(* system.event only and are not interrupted.)                             *)
OneOwner == Cardinality(Holding) = IF hl.running = "STOP" THEN 0 ELSE 1

(* Counters that were started are stopped again. *)
CountersComeBack == hl.running # "STOP" ~> hl.running = "STOP"

(* The name of the count in a rate function's result. *)
RateLabel == [FLIP |-> "flpins", FLOP |-> "flpops", IPC |-> "ins"]

(* The same promise for the rate functions: the count system.flips,        *)
(* system.flops and system.utilization return is the expression's, of the  *)
(* event the function is about ("This function measures the evaluation of  *)
(* the provided expression", R/flops.r).                                   *)
RateFaithful ==
  last.fn \in DOMAIN RateLabel =>
    last.values = <<[name |-> RateLabel[last.fn],
                     code |-> RateEvents(last.fn, NoEvent)[1],
                     n |-> last.mine + Overhead]>>

(* No call is active: the next one finds the counters free (ChangeLog:     *)
(* "Fixed bug that made it impossible to profile after errors sometimes"). *)
CountersReleased == stack = <<>> => hl.running = "STOP"

(* A value papi.stop returns was counted for the event whose name it has   *)
(* ("The results of the requested PAPI events are returned, in a named     *)
(* list", R/papi_event.r).                                                 *)
StopLabels ==
  last.fn = "stop" =>
    \A i \in 1 .. Len(last.values) : last.values[i].name = last.values[i].code

(* The entries of system.epc's list are what R/epc.r says they are: evt    *)
(* the requested event, core the cycles, ref the reference cycles.         *)
EpcNames ==
  last.fn = "EPC" =>
    \A i \in 1 .. Len(last.values) :
      /\ last.values[i].name = "evt"  => last.values[i].code = last.evs[1]
      /\ last.values[i].name = "core" => last.values[i].code = TotCyc
      /\ last.values[i].name = "ref"  => last.values[i].code = RefCyc

(* When a profiler gives up because "PAPI failed to initialize hardware    *)
(* counters" (R/flops.r), it has not started them.                         *)
FailedStartStartsNothing ==
  [][At("start") /\ Len(stack') < Len(stack) => hl'.running = hl.running]_vars
=============================================================================
