---------------------------- MODULE HighLevelProofs -------------------------
(***************************************************************************)
(* Theorems about papi_hl.c, for every platform (event codes, counters),   *)
(* every kind of fault and every program that calls it: the invariants and *)
(* the refinement of the measurement device.                               *)
(***************************************************************************)
EXTENDS HighLevelCalls, LibraryProofs

(***************************************************************************)
(* The invariant of the program and the library.  Conservation is not      *)
(* inductive by itself: a rate call reads values[1] of what PAPI_stop      *)
(* delivers, so a measurement in progress must have an event to count.     *)
(***************************************************************************)

IInv == TypeOK /\ Measured(hl) /\ Conservation

LEMMA ReturnType ==
  ASSUME NEW call \in Calls, NEW request \in Seq(Codes), NEW o \in LibraryReplies,
         Return(call, request, o), work' \in Nat, delivered' \in Nat
  PROVE  TypeOK' /\ hl' = o.hl
<1>1. /\ o.ret \in Returns /\ o.hl \in Library /\ o.values \in Values
      /\ o.ins \in Nat /\ o.time \in Nat
  BY DEF LibraryReplies
<1>2. hl' \in Library /\ hl' = o.hl
  BY <1>1 DEF Return
<1>3. reply' \in Replies
  BY <1>1 DEF Return, Replies
<1> QED
  BY <1>2, <1>3 DEF TypeOK

(* A call that keeps the measurement keeps the invariant. *)
LEMMA KeptKeeps ==
  ASSUME IInv, Kept(hl, hl'), hl' \in Library, UNCHANGED <<work, delivered>>
  PROVE  Measured(hl)' /\ Conservation'
BY DEF IInv, Kept, Measured, Conservation

LEMMA StoppedKeeps ==
  ASSUME hl'.running = "STOP"
  PROVE  Measured(hl)' /\ Conservation'
BY DEF Measured, Conservation

(* So does a delivery by PAPI_read_counters or PAPI_accum_counters. *)
LEMMA DeliveryKeeps ==
  ASSUME IInv, hl.running = "START", Delivers(hl, hl'),
         work' = work, delivered' = work
  PROVE  Measured(hl)' /\ Conservation'
BY DEF IInv, TypeOK, Delivers, Measured, Conservation, RateModes

LEMMA InitIInv == Init => IInv
<1> SUFFICES ASSUME Init PROVE IInv
  OBVIOUS
<1>1. <<>> \in Seq(Codes) /\ <<>> \in Values /\ "OK" \in Returns /\ "none" \in Calls
  BY EmptyValues DEF Returns, Calls
<1>2. EmptyEventSet \in EventSets
  BY <1>1 DEF EmptyEventSet, EventSets
<1>3. InitialLibrary \in Library /\ InitialLibrary.running = "STOP"
  BY <1>2 DEF InitialLibrary, Library, Modes
<1>4. reply \in Replies
  BY <1>1 DEF Init, Replies
<1> QED
  BY <1>3, <1>4 DEF Init, IInv, TypeOK, Measured, Conservation

LEMMA NumCountersStep == IInv /\ CallNumCounters => IInv'
<1> SUFFICES ASSUME IInv, CallNumCounters PROVE IInv'
  OBVIOUS
<1>1. PICK o \in NumCountersCall(hl) :
        Return("num", <<>>, o) /\ UNCHANGED <<work, delivered>>
  BY DEF CallNumCounters
<1>2. hl \in Library /\ work \in Nat /\ delivered \in Nat
  BY DEF IInv, TypeOK
<1>3. o \in LibraryReplies /\ Kept(hl, o.hl)
  BY <1>1, <1>2, NumCountersFacts
<1>4. TypeOK' /\ hl' = o.hl
  <2>1. "num" \in Calls /\ <<>> \in Seq(Codes)
    BY DEF Calls
  <2> QED
    BY <1>1, <1>2, <1>3, <2>1, ReturnType
<1>5. hl' \in Library
  BY <1>4 DEF TypeOK
<1> QED
  BY <1>1, <1>3, <1>4, <1>5, KeptKeeps DEF IInv

LEMMA StartStep == IInv /\ CallStart => IInv'
<1> SUFFICES ASSUME IInv, CallStart PROVE IInv'
  OBVIOUS
<1>1. PICK evs \in Requests : \E o \in StartCounters(hl, evs) :
        Return("start", evs, o) /\ (HistoryKept(o) \/ HistoryReset(o))
  BY DEF CallStart
<1>2. PICK o \in StartCounters(hl, evs) :
        Return("start", evs, o) /\ (HistoryKept(o) \/ HistoryReset(o))
  BY <1>1
<1>3. /\ hl \in Library /\ work \in Nat /\ delivered \in Nat
      /\ evs \in Seq(Codes) /\ "start" \in Calls
  BY CallsAssumption DEF IInv, TypeOK, Calls
<1>4. o \in LibraryReplies
  BY <1>2, <1>3, StartCountersFacts
<1>5. work' \in Nat /\ delivered' \in Nat
  BY <1>2, <1>3 DEF HistoryKept, HistoryReset
<1>6. TypeOK' /\ hl' = o.hl /\ hl' \in Library
  <2>1. TypeOK' /\ hl' = o.hl
    BY <1>2, <1>3, <1>4, <1>5, ReturnType
  <2> QED
    BY <2>1 DEF TypeOK
<1>7. CASE o.ret = "OK"
  <2>1. /\ o.hl.running = "START" /\ o.hl.es.running /\ o.hl.es.count = 0
        /\ o.hl.es.events # <<>>
    BY <1>2, <1>3, <1>7, StartCountersFacts
  <2>2. work' = 0 /\ delivered' = 0
    BY <1>2, <1>7 DEF HistoryKept, HistoryReset
  <2> QED
    BY <1>6, <2>1, <2>2 DEF IInv, Measured, Conservation, RateModes
<1>8. CASE o.ret # "OK"
  <2>1. UNCHANGED <<work, delivered>>
    BY <1>2, <1>8 DEF HistoryKept, HistoryReset
  <2>2. CASE hl.running # "STOP"
    <3>1. Kept(hl, o.hl)
      BY <1>2, <1>3, <1>8, <2>2, StartCountersFacts
    <3> QED
      BY <1>6, <2>1, <3>1, KeptKeeps DEF IInv
  <2>3. CASE hl.running = "STOP"
    <3>1. o.hl.running = "STOP"
      BY <1>2, <1>3, <1>8, <2>3, StartCountersFacts
    <3> QED
      BY <1>6, <3>1, StoppedKeeps DEF IInv
  <2> QED
    BY <2>2, <2>3
<1> QED
  BY <1>7, <1>8

(* One step for both functions: they differ in their null checks only. *)
LEMMA ReadOutcomeStep ==
  ASSUME IInv, NEW call \in {"read", "accum"}, NEW o \in LibraryReplies,
         Return(call, <<>>, o), HistoryKept(o) \/ HistoryDelivered(o),
         o.ret = "OK" => hl.running = "START" /\ Delivers(hl, o.hl),
         o.ret # "OK" => Kept(hl, o.hl)
  PROVE  IInv'
<1>1. work \in Nat /\ delivered \in Nat
  BY DEF IInv, TypeOK
<1>2. work' \in Nat /\ delivered' \in Nat
  BY <1>1 DEF HistoryKept, HistoryDelivered
<1>3. TypeOK' /\ hl' = o.hl /\ hl' \in Library
  <2>1. call \in Calls /\ <<>> \in Seq(Codes)
    BY DEF Calls
  <2>2. TypeOK' /\ hl' = o.hl
    BY <1>2, <2>1, ReturnType
  <2> QED
    BY <2>2 DEF TypeOK
<1>4. CASE o.ret = "OK"
  <2>1. work' = work /\ delivered' = work
    BY <1>4 DEF HistoryKept, HistoryDelivered
  <2> QED
    BY <1>3, <1>4, <2>1, DeliveryKeeps DEF IInv
<1>5. CASE o.ret # "OK"
  <2>1. UNCHANGED <<work, delivered>>
    BY <1>5 DEF HistoryKept, HistoryDelivered
  <2> QED
    BY <1>3, <1>5, <2>1, KeptKeeps DEF IInv
<1> QED
  BY <1>4, <1>5

LEMMA ReadStep == IInv /\ CallRead => IInv'
<1> SUFFICES ASSUME IInv, CallRead PROVE IInv'
  OBVIOUS
<1>1. PICK len \in Lengths : \E o \in ReadCounters(hl, len) :
        Return("read", <<>>, o) /\ (HistoryKept(o) \/ HistoryDelivered(o))
  BY DEF CallRead
<1>2. PICK o \in ReadCounters(hl, len) :
        Return("read", <<>>, o) /\ (HistoryKept(o) \/ HistoryDelivered(o))
  BY <1>1
<1>3. hl \in Library /\ len \in Nat
  BY CallsAssumption DEF IInv, TypeOK
<1>4. o \in LibraryReplies
  BY <1>2, <1>3, ReadCountersFacts
<1>5. /\ o.ret = "OK" => hl.running = "START" /\ Delivers(hl, o.hl)
      /\ o.ret # "OK" => Kept(hl, o.hl)
  BY <1>2, <1>3, ReadCountersFacts
<1> QED
  BY <1>2, <1>4, <1>5, ReadOutcomeStep

LEMMA AccumStep == IInv /\ CallAccum => IInv'
<1> SUFFICES ASSUME IInv, CallAccum PROVE IInv'
  OBVIOUS
<1>1. PICK len \in Lengths : \E o \in AccumCounters(hl, len) :
        Return("accum", <<>>, o) /\ (HistoryKept(o) \/ HistoryDelivered(o))
  BY DEF CallAccum
<1>2. PICK o \in AccumCounters(hl, len) :
        Return("accum", <<>>, o) /\ (HistoryKept(o) \/ HistoryDelivered(o))
  BY <1>1
<1>3. hl \in Library /\ len \in Nat
  BY CallsAssumption DEF IInv, TypeOK
<1>4. o \in LibraryReplies
  BY <1>2, <1>3, AccumCountersFacts
<1>5. /\ o.ret = "OK" => hl.running = "START" /\ Delivers(hl, o.hl)
      /\ o.ret # "OK" => Kept(hl, o.hl)
  BY <1>2, <1>3, AccumCountersFacts
<1> QED
  BY <1>2, <1>4, <1>5, ReadOutcomeStep

LEMMA StopStep == IInv /\ CallStop => IInv'
<1> SUFFICES ASSUME IInv, CallStop PROVE IInv'
  OBVIOUS
<1>1. PICK len \in Lengths : \E o \in StopCounters(hl, len) :
        Return("stop", <<>>, o) /\ (HistoryKept(o) \/ HistoryReset(o))
  BY DEF CallStop
<1>2. PICK o \in StopCounters(hl, len) :
        Return("stop", <<>>, o) /\ (HistoryKept(o) \/ HistoryReset(o))
  BY <1>1
<1>3. hl \in Library /\ len \in Nat /\ work \in Nat /\ delivered \in Nat
  BY CallsAssumption DEF IInv, TypeOK
<1>4. o \in LibraryReplies
  BY <1>2, <1>3, StopCountersFacts
<1>5. /\ o.ret = "OK" => o.hl.running = "STOP"
      /\ o.ret # "OK" => Kept(hl, o.hl)
  BY <1>2, <1>3, StopCountersFacts
<1>6. TypeOK' /\ hl' = o.hl /\ hl' \in Library
  <2>1. "stop" \in Calls /\ <<>> \in Seq(Codes)
    BY DEF Calls
  <2>2. work' \in Nat /\ delivered' \in Nat
    BY <1>2, <1>3 DEF HistoryKept, HistoryReset
  <2>3. TypeOK' /\ hl' = o.hl
    BY <1>2, <1>4, <2>1, <2>2, ReturnType
  <2> QED
    BY <2>3 DEF TypeOK
<1>7. CASE o.ret = "OK"
  BY <1>5, <1>6, <1>7, StoppedKeeps DEF IInv
<1>8. CASE o.ret # "OK"
  <2>1. UNCHANGED <<work, delivered>>
    BY <1>2, <1>8 DEF HistoryKept, HistoryReset
  <2> QED
    BY <1>5, <1>6, <1>8, <2>1, KeptKeeps DEF IInv
<1> QED
  BY <1>7, <1>8

LEMMA RateOutcomeStep ==
  ASSUME IInv, NEW mode \in RateModes, NEW event \in Codes \cup {NoEvent},
         Rate(mode, event)
  PROVE  IInv'
<1>0. PICK evs \in RateRequests(hl, mode, event) : \E o \in RateCall(hl, mode, evs) :
        /\ Return("rate", evs, o)
        /\ \/ HistoryKept(o)
           \/ hl.running = "STOP" /\ HistoryReset(o)
           \/ hl.running # "STOP" /\ HistoryDelivered(o)
  BY DEF Rate
<1>1. evs \in Seq(Codes)
  BY RateRequestsType
<1>2. PICK o \in RateCall(hl, mode, evs) :
        /\ Return("rate", evs, o)
        /\ \/ HistoryKept(o)
           \/ hl.running = "STOP" /\ HistoryReset(o)
           \/ hl.running # "STOP" /\ HistoryDelivered(o)
  BY <1>0
<1>3. hl \in Library /\ Measured(hl) /\ work \in Nat /\ delivered \in Nat
  BY DEF IInv, TypeOK
<1>4. o \in LibraryReplies
  BY <1>1, <1>2, <1>3, RateCallFacts
<1>5. TypeOK' /\ hl' = o.hl /\ hl' \in Library
  <2>1. "rate" \in Calls
    BY DEF Calls
  <2>2. work' \in Nat /\ delivered' \in Nat
    BY <1>2, <1>3 DEF HistoryKept, HistoryReset, HistoryDelivered
  <2>3. TypeOK' /\ hl' = o.hl
    BY <1>1, <1>2, <1>4, <2>1, <2>2, ReturnType
  <2> QED
    BY <2>3 DEF TypeOK
<1>6. CASE o.ret = "OK" /\ hl.running = "STOP"
  <2>1. /\ o.hl.totalIns = 0 /\ o.hl.age = 0
        /\ o.hl.es.running /\ o.hl.es.count = 0
        /\ o.hl.es.events # <<>>
    BY <1>1, <1>2, <1>3, <1>6, RateCallFacts
  <2>2. work' = 0 /\ delivered' = 0
    BY <1>2, <1>6 DEF HistoryKept, HistoryReset, HistoryDelivered
  <2> QED
    BY <1>5, <2>1, <2>2 DEF IInv, Measured, Conservation
<1>7. CASE o.ret = "OK" /\ hl.running # "STOP"
  <2>1. /\ hl.running = mode /\ o.hl.running = mode /\ o.hl.age = hl.age
        /\ o.hl.totalIns = hl.totalIns + hl.es.count
        /\ o.hl.es.running /\ o.hl.es.count = 0
        /\ o.hl.es.events = hl.es.events
    BY <1>1, <1>2, <1>3, <1>7, RateCallFacts
  <2>2. work' = work /\ delivered' = work
    BY <1>2, <1>7 DEF HistoryKept, HistoryReset, HistoryDelivered
  <2>3. /\ delivered + hl.es.count = work
        /\ hl.totalIns = delivered /\ hl.age = work
    BY <1>7, <2>1 DEF IInv, Conservation
  <2>4. hl.es.events # <<>>
    BY <1>3, <1>7 DEF Measured
  <2> QED
    BY <1>3, <1>5, <2>1, <2>2, <2>3, <2>4 DEF IInv, Measured, Conservation
<1>8. CASE o.ret # "OK"
  <2>1. UNCHANGED <<work, delivered>>
    BY <1>2, <1>8 DEF HistoryKept, HistoryReset, HistoryDelivered
  <2>2. Kept(hl, o.hl) \/ o.hl.running = "STOP"
    BY <1>1, <1>2, <1>3, <1>8, RateCallFacts
  <2>3. CASE Kept(hl, o.hl)
    BY <1>5, <2>1, <2>3, KeptKeeps DEF IInv
  <2>4. CASE o.hl.running = "STOP"
    BY <1>5, <2>4, StoppedKeeps DEF IInv
  <2> QED
    BY <2>2, <2>3, <2>4
<1> QED
  BY <1>6, <1>7, <1>8

LEMMA RateStep == IInv /\ CallRate => IInv'
<1> SUFFICES ASSUME IInv, CallRate PROVE IInv'
  OBVIOUS
<1>1. CASE \E mode \in RateModes \ {"EPC"} : Rate(mode, NoEvent)
  BY <1>1, RateOutcomeStep
<1>2. CASE \E event \in EpcChoices : Rate("EPC", event)
  <2>1. PICK event \in EpcChoices : Rate("EPC", event)
    BY <1>2
  <2>2. "EPC" \in RateModes /\ event \in Codes \cup {NoEvent}
    BY <2>1, CallsAssumption DEF RateModes
  <2> QED
    BY <2>1, <2>2, RateOutcomeStep
<1> QED
  BY <1>1, <1>2 DEF CallRate

LEMMA ComputeStep == IInv /\ Compute => IInv'
<1> SUFFICES ASSUME IInv, Compute PROVE IInv'
  OBVIOUS
<1>1. hl \in Library /\ work \in Nat /\ delivered \in Nat /\ hl.es \in EventSets
  BY DEF IInv, TypeOK, Library
<1>2. /\ hl' \in Library
      /\ hl'.running = hl.running /\ hl'.totalIns = hl.totalIns
      /\ hl'.age = IF hl.running \in RateModes THEN hl.age + 1 ELSE hl.age
      /\ hl'.es = Work(hl.es)
  BY <1>1, WorkDoneFacts DEF Compute
<1>3. /\ Work(hl.es).events = hl.es.events
      /\ Work(hl.es).running = hl.es.running
  BY <1>1, WorkFacts
<1>4. hl.es.running => Work(hl.es).count = hl.es.count + 1
  BY <1>1, WorkFacts
<1>5. TypeOK'
  BY <1>1, <1>2 DEF IInv, TypeOK, Compute
<1>6. CASE hl.running = "STOP"
  BY <1>2, <1>5, <1>6, StoppedKeeps DEF IInv
<1>7. CASE hl.running # "STOP"
  <2>1. /\ hl.es.running /\ hl.es.events # <<>>
        /\ delivered + hl.es.count = work
        /\ hl.running \in RateModes => hl.totalIns = delivered /\ hl.age = work
    BY <1>7 DEF IInv, Measured, Conservation
  <2>2. work' = work + 1 /\ delivered' = delivered
    BY <1>7 DEF Compute
  <2>3. hl.es.count \in Nat
    BY <1>1 DEF EventSets
  <2> QED
    BY <1>1, <1>2, <1>3, <1>4, <1>5, <2>1, <2>2, <2>3 DEF IInv, Measured, Conservation
<1> QED
  BY <1>6, <1>7

LEMMA NextIInv == IInv /\ [Next]_vars => IInv'
<1> SUFFICES ASSUME IInv, [Next]_vars PROVE IInv'
  OBVIOUS
<1>1. CASE UNCHANGED vars
  BY <1>1 DEF IInv, TypeOK, Measured, Conservation, vars
<1>2. CASE Next
  BY <1>2, NumCountersStep, StartStep, ReadStep, AccumStep, StopStep, RateStep,
     ComputeStep DEF Next
<1> QED
  BY <1>1, <1>2

LEMMA InvariantHolds == Spec => []IInv
BY InitIInv, NextIInv, PTL DEF Spec

(* The library's state and everything its functions return is well typed,  *)
(* whatever the platform and the faults.                                   *)
THEOREM TypeCorrect == Spec => []TypeOK
<1>1. IInv => TypeOK
  BY DEF IInv
<1> QED
  BY <1>1, InvariantHolds, PTL

(* No work is lost or counted twice in a measurement, whatever the program *)
(* calls and whatever call to the hardware fails.                          *)
THEOREM CountsAreConserved == Spec => []Conservation
<1>1. IInv => Conservation
  BY DEF IInv
<1> QED
  BY <1>1, InvariantHolds, PTL

-----------------------------------------------------------------------------
(***************************************************************************)
(* When PAPI_start and PAPI_stop do not fail, papi_hl.c implements the     *)
(* meter.  The refinement needs QuietWhenStopped: a measurement counts the *)
(* events asked for because the set it adds them to is empty.              *)
(***************************************************************************)

QInv == IInv /\ QuietWhenStopped /\ ArrayFits

(* A failed call keeps the measurement in progress. *)
HarmlessStep ==
  hl.running # "STOP" /\ reply'.ret # "OK"
    => hl'.running = hl.running /\ hl'.es = hl.es

CallEffect ==
  QuietWhenStopped' /\ ArrayFits' /\ HarmlessStep /\ MeterOfCalls!MeterNext

LEMMA DeliveredIsReading ==
  ASSUME IInv, hl.running # "STOP"
  PROVE  MeterOfCalls!Delivered = Reading(hl.es)
<1>1. hl.es.count = work - delivered
  BY DEF IInv, TypeOK, Conservation, Library, EventSets
<1> QED
  BY <1>1 DEF MeterOfCalls!Delivered, MeterOfCalls!Pending, Reading

(* The events of a rate call fit into its array. *)
LEMMA RateEventsFit ==
  ASSUME NEW mode \in RateModes, NEW event \in Codes \cup {NoEvent}
  PROVE  Len(RateEvents(mode, event)) <= RateArray(mode)
<1>1. {TotIns, TotCyc, RefCyc} \subseteq Codes
  BY PresetsAssumption
<1>2. CASE mode = "FLIP" \/ mode = "FLOP" \/ mode = "IPC"
  BY <1>2 DEF RateEvents, RateArray
<1>3. CASE mode = "EPC"
  <2> DEFINE first == IF event = NoEvent THEN TotIns ELSE event
             last  == IF RefCyc \in Countable THEN <<RefCyc>> ELSE <<>>
  <2>1. first \in Codes
    BY <1>1
  <2> HIDE DEF first
  <2>2. <<first, TotCyc>> \in Seq(Codes) /\ Len(<<first, TotCyc>>) = 2
    BY <1>1, <2>1
  <2>3. last \in Seq(Codes) /\ Len(last) <= 1
    BY <1>1
  <2> HIDE DEF last
  <2>4. Len(<<first, TotCyc>> \o last) = 2 + Len(last) /\ Len(last) \in Nat
    BY <2>2, <2>3, ConcatProperties, LenProperties
  <2>5. RateEvents(mode, event) = <<first, TotCyc>> \o last
    BY <1>3 DEF RateEvents, EpcEvents, EpcPair, first, last
  <2>6. RateArray(mode) = 3
    BY <1>3 DEF RateArray
  <2> QED
    BY <2>3, <2>4, <2>5, <2>6
<1> QED
  BY <1>2, <1>3 DEF RateModes

LEMMA RateRequestsFit ==
  ASSUME NEW mode \in RateModes, NEW event \in Codes \cup {NoEvent},
         NEW evs \in RateRequests(hl, mode, event)
  PROVE  Len(evs) <= RateArray(mode)
<1>1. CASE evs = RateEvents(mode, event)
  BY <1>1, RateEventsFit
<1>2. CASE mode = "EPC" /\ evs = EpcPair(event)
  <2>1. Len(EpcPair(event)) = 2
    BY DEF EpcPair
  <2> QED
    BY <1>2, <2>1 DEF RateArray
<1> QED
  BY <1>1, <1>2 DEF RateRequests

(* The case of every call that changes nothing. *)
LEMMA KeptEffect ==
  ASSUME QInv, Kept(hl, hl'), UNCHANGED <<work, delivered>>,
         reply'.ret # "OK" \/ reply'.call = "num"
  PROVE  CallEffect
<1>1. QuietWhenStopped' /\ ArrayFits' /\ HarmlessStep
  BY DEF QInv, Kept, QuietWhenStopped, ArrayFits, HarmlessStep
<1>2. MeterOfCalls!Refuse
  BY DEF Kept, MeterOfCalls!Refuse
<1> QED
  BY <1>1, <1>2 DEF CallEffect, MeterOfCalls!MeterNext

(* The case of every call that fails without a measurement in progress. *)
LEMMA FailedEffect ==
  ASSUME QInv, hl.running = "STOP", hl'.running = "STOP", Quiet(hl'),
         UNCHANGED <<work, delivered>>, reply'.ret # "OK"
  PROVE  CallEffect
<1>1. QuietWhenStopped' /\ ArrayFits' /\ HarmlessStep
  BY DEF Quiet, QuietWhenStopped, ArrayFits, RateModes, HarmlessStep
<1>2. hl.es.events = <<>> /\ hl'.es.events = <<>>
  BY DEF QInv, QuietWhenStopped, Quiet
<1>3. MeterOfCalls!Refuse
  BY <1>2 DEF MeterOfCalls!Refuse
<1> QED
  BY <1>1, <1>3 DEF CallEffect, MeterOfCalls!MeterNext

(* The case of a call that begins a measurement of the events in request. *)
LEMMA BeginEffect ==
  ASSUME QInv, NEW request \in Seq(Codes), request # <<>>, hl.running = "STOP",
         reply'.ret = "OK", reply'.request = request,
         hl'.es.events = hl.es.events \o request,
         work' = 0, delivered' = 0,
         \/ /\ reply'.call = "start" /\ hl'.running = "START"
            /\ hl'.numEvts = Len(request)
         \/ /\ reply'.call = "rate" /\ hl'.running \in RateModes
            /\ Len(request) <= RateArray(hl'.running)
  PROVE  CallEffect
<1>1. <<>> \o request = request
  BY ConcatEmptySeq
<1>2. hl'.es.events = request
  BY <1>1 DEF QInv, QuietWhenStopped
<1>3. /\ hl'.running # "STOP"
      /\ hl'.running = "START" => hl'.numEvts = Len(request)
      /\ hl'.running \in RateModes => Len(request) <= RateArray(hl'.running)
  BY DEF RateModes
<1>4. QuietWhenStopped' /\ ArrayFits' /\ HarmlessStep
  BY <1>2, <1>3 DEF QuietWhenStopped, ArrayFits, HarmlessStep
<1>5. MeterOfCalls!Begin
  BY <1>2 DEF MeterOfCalls!Begin, MeterOfCalls!Measuring
<1> QED
  BY <1>4, <1>5 DEF CallEffect, MeterOfCalls!MeterNext

LEMMA StartEffect ==
  ASSUME QInv, CallStart, "start" \notin Faults
  PROVE  CallEffect
<1>1. PICK evs \in Requests : \E o \in StartCounters(hl, evs) :
        Return("start", evs, o) /\ (HistoryKept(o) \/ HistoryReset(o))
  BY DEF CallStart
<1>2. PICK o \in StartCounters(hl, evs) :
        Return("start", evs, o) /\ (HistoryKept(o) \/ HistoryReset(o))
  BY <1>1
<1>3. hl \in Library /\ evs \in Seq(Codes)
  BY CallsAssumption DEF QInv, IInv, TypeOK
<1>4. /\ hl' = o.hl /\ reply'.ret = o.ret
      /\ reply'.call = "start" /\ reply'.request = evs
  BY <1>2 DEF Return
<1>5. CASE o.ret = "OK"
  <2>1. /\ hl.running = "STOP" /\ o.hl.running = "START"
        /\ o.hl.es.events = hl.es.events \o evs
        /\ evs # <<>> /\ o.hl.numEvts = Len(evs)
    BY <1>2, <1>3, <1>5, StartCountersFacts
  <2>2. work' = 0 /\ delivered' = 0
    BY <1>2, <1>5 DEF HistoryKept, HistoryReset
  <2> QED
    BY <1>3, <1>4, <1>5, <2>1, <2>2, BeginEffect
<1>6. CASE o.ret # "OK"
  <2>1. UNCHANGED <<work, delivered>>
    BY <1>2, <1>6 DEF HistoryKept, HistoryReset
  <2>2. CASE hl.running # "STOP"
    <3>1. Kept(hl, o.hl)
      BY <1>2, <1>3, <1>6, <2>2, StartCountersFacts
    <3> QED
      BY <1>4, <1>6, <2>1, <3>1, KeptEffect
  <2>3. CASE hl.running = "STOP"
    <3>1. Quiet(hl)
      BY DEF QInv, QuietWhenStopped, Quiet
    <3>2. o.hl.running = "STOP"
      BY <1>2, <1>3, <1>6, <2>3, StartCountersFacts
    <3>3. Quiet(o.hl)
      BY <1>2, <1>3, <1>6, <3>1, StartCountersFacts
    <3> QED
      BY <1>4, <1>6, <2>1, <2>3, <3>2, <3>3, FailedEffect
  <2> QED
    BY <2>2, <2>3
<1> QED
  BY <1>5, <1>6

LEMMA ReadOutcomeEffect ==
  ASSUME QInv, NEW call \in {"read", "accum"}, NEW o \in LibraryReplies,
         Return(call, <<>>, o), HistoryKept(o) \/ HistoryDelivered(o),
         o.ret = "OK" => /\ hl.running = "START" /\ o.values = Reading(hl.es)
                         /\ Delivers(hl, o.hl),
         o.ret # "OK" => Kept(hl, o.hl)
  PROVE  CallEffect
<1>1. /\ hl' = o.hl /\ reply'.ret = o.ret /\ reply'.call = call
      /\ reply'.values = o.values
  BY DEF Return
<1>2. CASE o.ret = "OK"
  <2>1. work' = work /\ delivered' = work
    BY <1>2 DEF HistoryKept, HistoryDelivered
  <2>2. hl.running = "START" /\ Delivers(hl, hl') /\ reply'.values = Reading(hl.es)
    BY <1>1, <1>2
  <2>3. QuietWhenStopped' /\ ArrayFits' /\ HarmlessStep
    BY <1>1, <1>2, <2>2 DEF QInv, Delivers, QuietWhenStopped, ArrayFits, HarmlessStep
  <2>4. reply'.values = MeterOfCalls!Delivered
    BY <2>2, DeliveredIsReading DEF QInv
  <2>5. hl'.running = hl.running /\ hl'.es.events = hl.es.events
    BY <2>2 DEF Delivers
  <2>6. MeterOfCalls!Read
    BY <1>1, <1>2, <2>1, <2>2, <2>4, <2>5 DEF MeterOfCalls!Read
  <2> QED
    BY <2>3, <2>6 DEF CallEffect, MeterOfCalls!MeterNext
<1>3. CASE o.ret # "OK"
  <2>1. UNCHANGED <<work, delivered>>
    BY <1>3 DEF HistoryKept, HistoryDelivered
  <2> QED
    BY <1>1, <1>3, <2>1, KeptEffect
<1> QED
  BY <1>2, <1>3

LEMMA ReadEffect ==
  ASSUME QInv, CallRead
  PROVE  CallEffect
<1>1. PICK len \in Lengths : \E o \in ReadCounters(hl, len) :
        Return("read", <<>>, o) /\ (HistoryKept(o) \/ HistoryDelivered(o))
  BY DEF CallRead
<1>2. PICK o \in ReadCounters(hl, len) :
        Return("read", <<>>, o) /\ (HistoryKept(o) \/ HistoryDelivered(o))
  BY <1>1
<1>3. hl \in Library /\ len \in Nat
  BY CallsAssumption DEF QInv, IInv, TypeOK
<1>4. o \in LibraryReplies
  BY <1>2, <1>3, ReadCountersFacts
<1>5. /\ o.ret = "OK" => /\ hl.running = "START" /\ o.values = Reading(hl.es)
                         /\ Delivers(hl, o.hl)
      /\ o.ret # "OK" => Kept(hl, o.hl)
  BY <1>2, <1>3, ReadCountersFacts
<1> QED
  BY <1>2, <1>4, <1>5, ReadOutcomeEffect

LEMMA AccumEffect ==
  ASSUME QInv, CallAccum
  PROVE  CallEffect
<1>1. PICK len \in Lengths : \E o \in AccumCounters(hl, len) :
        Return("accum", <<>>, o) /\ (HistoryKept(o) \/ HistoryDelivered(o))
  BY DEF CallAccum
<1>2. PICK o \in AccumCounters(hl, len) :
        Return("accum", <<>>, o) /\ (HistoryKept(o) \/ HistoryDelivered(o))
  BY <1>1
<1>3. hl \in Library /\ len \in Nat
  BY CallsAssumption DEF QInv, IInv, TypeOK
<1>4. o \in LibraryReplies
  BY <1>2, <1>3, AccumCountersFacts
<1>5. /\ o.ret = "OK" => /\ hl.running = "START" /\ o.values = Reading(hl.es)
                         /\ Delivers(hl, o.hl)
      /\ o.ret # "OK" => Kept(hl, o.hl)
  BY <1>2, <1>3, AccumCountersFacts
<1> QED
  BY <1>2, <1>4, <1>5, ReadOutcomeEffect

LEMMA StopEffect ==
  ASSUME QInv, CallStop
  PROVE  CallEffect
<1>1. PICK len \in Lengths : \E o \in StopCounters(hl, len) :
        Return("stop", <<>>, o) /\ (HistoryKept(o) \/ HistoryReset(o))
  BY DEF CallStop
<1>2. PICK o \in StopCounters(hl, len) :
        Return("stop", <<>>, o) /\ (HistoryKept(o) \/ HistoryReset(o))
  BY <1>1
<1>3. hl \in Library /\ len \in Nat
  BY CallsAssumption DEF QInv, IInv, TypeOK
<1>4. /\ hl' = o.hl /\ reply'.ret = o.ret /\ reply'.call = "stop"
      /\ reply'.values = o.values
  BY <1>2 DEF Return
<1>5. CASE o.ret = "OK"
  <2>1. /\ hl.running # "STOP" /\ hl'.running = "STOP" /\ Quiet(hl')
        /\ reply'.values = IF hl.running = "START" THEN Reading(hl.es) ELSE <<>>
    BY <1>2, <1>3, <1>4, <1>5, StopCountersFacts
  <2>2. work' = 0 /\ delivered' = 0
    BY <1>2, <1>5 DEF HistoryKept, HistoryReset
  <2>3. QuietWhenStopped' /\ ArrayFits' /\ HarmlessStep
    BY <1>4, <1>5, <2>1 DEF Quiet, QuietWhenStopped, ArrayFits, RateModes, HarmlessStep
  <2>4. MeterOfCalls!Delivered = Reading(hl.es)
    BY <2>1, DeliveredIsReading DEF QInv
  <2>5. hl'.es.events = <<>>
    BY <2>1 DEF Quiet
  <2>6. MeterOfCalls!End
    BY <1>4, <1>5, <2>1, <2>2, <2>4, <2>5
       DEF MeterOfCalls!End, MeterOfCalls!Measuring, MeterOfCalls!Idle
  <2> QED
    BY <2>3, <2>6 DEF CallEffect, MeterOfCalls!MeterNext
<1>6. CASE o.ret # "OK"
  <2>1. UNCHANGED <<work, delivered>>
    BY <1>2, <1>6 DEF HistoryKept, HistoryReset
  <2>2. Kept(hl, o.hl)
    BY <1>2, <1>3, <1>6, StopCountersFacts
  <2> QED
    BY <1>4, <1>6, <2>1, <2>2, KeptEffect
<1> QED
  BY <1>5, <1>6

LEMMA RateOutcomeEffect ==
  ASSUME QInv, "start" \notin Faults, "stop" \notin Faults,
         NEW mode \in RateModes, NEW event \in Codes \cup {NoEvent},
         Rate(mode, event)
  PROVE  CallEffect
<1>0. PICK evs \in RateRequests(hl, mode, event) : \E o \in RateCall(hl, mode, evs) :
        /\ Return("rate", evs, o)
        /\ \/ HistoryKept(o)
           \/ hl.running = "STOP" /\ HistoryReset(o)
           \/ hl.running # "STOP" /\ HistoryDelivered(o)
  BY DEF Rate
<1>1. evs \in Seq(Codes) /\ evs # <<>>
  BY RateRequestsType
<1>2. PICK o \in RateCall(hl, mode, evs) :
        /\ Return("rate", evs, o)
        /\ \/ HistoryKept(o)
           \/ hl.running = "STOP" /\ HistoryReset(o)
           \/ hl.running # "STOP" /\ HistoryDelivered(o)
  BY <1>0
<1>3. hl \in Library /\ Measured(hl)
  BY DEF QInv, IInv, TypeOK
<1>4. /\ hl' = o.hl /\ reply'.ret = o.ret /\ reply'.call = "rate"
      /\ reply'.request = evs /\ reply'.values = o.values
      /\ reply'.ins = o.ins /\ reply'.time = o.time
  BY <1>2 DEF Return
<1>5. CASE o.ret = "OK" /\ hl.running = "STOP"
  <2>1. o.hl.running = mode /\ o.hl.es.events = hl.es.events \o evs
    BY <1>1, <1>2, <1>3, <1>5, RateCallFacts
  <2>2. work' = 0 /\ delivered' = 0
    BY <1>2, <1>5 DEF HistoryKept, HistoryReset, HistoryDelivered
  <2>3. Len(evs) <= RateArray(mode)
    BY RateRequestsFit
  <2> QED
    BY <1>1, <1>4, <1>5, <2>1, <2>2, <2>3, BeginEffect
<1>6. CASE o.ret = "OK" /\ hl.running # "STOP"
  <2>1. /\ hl.running = mode /\ o.hl.running = mode
        /\ o.hl.es.events = hl.es.events
        /\ o.values = Reading(hl.es)
        /\ o.ins = hl.totalIns + hl.es.count /\ o.time = hl.age
    BY <1>1, <1>2, <1>3, <1>6, RateCallFacts
  <2>2. work' = work /\ delivered' = work
    BY <1>2, <1>6 DEF HistoryKept, HistoryReset, HistoryDelivered
  <2>3. /\ delivered + hl.es.count = work
        /\ hl.totalIns = delivered /\ hl.age = work
    BY <1>6, <2>1 DEF QInv, IInv, Conservation
  <2>4. mode # "STOP" /\ mode # "START"
    BY DEF RateModes
  <2>5. QuietWhenStopped' /\ ArrayFits' /\ HarmlessStep
    BY <1>4, <1>6, <2>1, <2>4 DEF QInv, QuietWhenStopped, ArrayFits, HarmlessStep
  <2>6. MeterOfCalls!Delivered = Reading(hl.es)
    BY <1>6, DeliveredIsReading DEF QInv
  <2>7. MeterOfCalls!Report
    BY <1>4, <1>6, <2>1, <2>2, <2>3, <2>6 DEF MeterOfCalls!Report
  <2> QED
    BY <2>5, <2>7 DEF CallEffect, MeterOfCalls!MeterNext
<1>7. CASE o.ret # "OK"
  <2>1. UNCHANGED <<work, delivered>>
    BY <1>2, <1>7 DEF HistoryKept, HistoryReset, HistoryDelivered
  <2>2. \/ Kept(hl, o.hl)
        \/ /\ hl.running = "STOP" /\ o.hl.running = "STOP"
           /\ Quiet(hl) /\ evs # <<>> => Quiet(o.hl)
    BY <1>1, <1>2, <1>3, <1>7, RateCallFacts
  <2>3. CASE Kept(hl, o.hl)
    BY <1>4, <1>7, <2>1, <2>3, KeptEffect
  <2>4. CASE /\ hl.running = "STOP" /\ o.hl.running = "STOP"
             /\ Quiet(hl) /\ evs # <<>> => Quiet(o.hl)
    <3>1. Quiet(hl)
      BY DEF QInv, QuietWhenStopped, Quiet
    <3> QED
      BY <1>1, <1>4, <1>7, <2>1, <2>4, <3>1, FailedEffect
  <2> QED
    BY <2>2, <2>3, <2>4
<1> QED
  BY <1>5, <1>6, <1>7

LEMMA RateEffect ==
  ASSUME QInv, CallRate, "start" \notin Faults, "stop" \notin Faults
  PROVE  CallEffect
<1>1. CASE \E mode \in RateModes \ {"EPC"} : Rate(mode, NoEvent)
  BY <1>1, RateOutcomeEffect
<1>2. CASE \E event \in EpcChoices : Rate("EPC", event)
  <2>1. PICK event \in EpcChoices : Rate("EPC", event)
    BY <1>2
  <2>2. "EPC" \in RateModes /\ event \in Codes \cup {NoEvent}
    BY <2>1, CallsAssumption DEF RateModes
  <2> QED
    BY <2>1, <2>2, RateOutcomeEffect
<1> QED
  BY <1>1, <1>2 DEF CallRate

LEMMA NumCountersEffect ==
  ASSUME QInv, CallNumCounters
  PROVE  CallEffect
<1>1. PICK o \in NumCountersCall(hl) :
        Return("num", <<>>, o) /\ UNCHANGED <<work, delivered>>
  BY DEF CallNumCounters
<1>2. Kept(hl, o.hl)
  BY <1>1, NumCountersFacts DEF QInv, IInv, TypeOK
<1>3. hl' = o.hl /\ reply'.call = "num"
  BY <1>1 DEF Return
<1> QED
  BY <1>1, <1>2, <1>3, KeptEffect

LEMMA ComputeEffect ==
  ASSUME QInv, Compute
  PROVE  QuietWhenStopped' /\ ArrayFits' /\ MeterOfCalls!MeterNext
<1>1. hl \in Library /\ hl.es \in EventSets
  BY DEF QInv, IInv, TypeOK, Library
<1>2. /\ hl'.running = hl.running /\ hl'.numEvts = hl.numEvts
      /\ hl'.es = Work(hl.es)
  BY <1>1, WorkDoneFacts DEF Compute
<1>3. /\ hl'.es.events = hl.es.events
      /\ hl'.es.running = hl.es.running
  BY <1>1, <1>2, WorkFacts
<1>4. QuietWhenStopped' /\ ArrayFits'
  BY <1>2, <1>3 DEF QInv, QuietWhenStopped, ArrayFits
<1>5. MeterOfCalls!Compute
  BY <1>2, <1>3 DEF Compute, MeterOfCalls!Compute, MeterOfCalls!Measuring
<1> QED
  BY <1>4, <1>5 DEF MeterOfCalls!MeterNext

(* One step from a state of the invariant. *)
LEMMA NextQInv ==
  ASSUME QInv, [Next]_vars, "start" \notin Faults, "stop" \notin Faults
  PROVE  /\ QInv'
         /\ [MeterOfCalls!MeterNext]_(MeterOfCalls!meterVars)
         /\ reply' # reply => HarmlessStep
<1>1. IInv'
  BY NextIInv DEF QInv
<1>2. CASE UNCHANGED vars
  <2>1. QuietWhenStopped' /\ ArrayFits'
    BY <1>2 DEF QInv, QuietWhenStopped, ArrayFits, vars
  <2>2. UNCHANGED MeterOfCalls!meterVars /\ reply' = reply
    BY <1>2 DEF MeterOfCalls!meterVars, vars
  <2> QED
    BY <1>1, <2>1, <2>2 DEF QInv
<1>3. CASE Compute
  BY <1>1, <1>3, ComputeEffect DEF QInv, Compute
<1>4. CASE Next /\ ~Compute
  <2>1. CallEffect
    BY <1>4, NumCountersEffect, StartEffect, ReadEffect, AccumEffect, StopEffect,
       RateEffect DEF Next
  <2> QED
    BY <1>1, <2>1 DEF CallEffect, QInv
<1> QED
  BY <1>2, <1>3, <1>4

LEMMA InitQInv == Init => QInv /\ MeterOfCalls!MeterInit
<1> SUFFICES ASSUME Init PROVE QInv /\ MeterOfCalls!MeterInit
  OBVIOUS
<1>1. IInv
  BY InitIInv
<1>2. QuietWhenStopped /\ ArrayFits
  BY DEF Init, InitialLibrary, EmptyEventSet, QuietWhenStopped, ArrayFits, RateModes
<1>3. MeterOfCalls!MeterInit
  BY DEF Init, InitialLibrary, EmptyEventSet, MeterOfCalls!MeterInit, MeterOfCalls!Idle
<1> QED
  BY <1>1, <1>2, <1>3 DEF QInv

(* Without a failing PAPI_start or PAPI_stop every measurement begins from *)
(* an empty, stopped event set.                                            *)
THEOREM AlwaysQuietWhenStopped ==
  ASSUME "start" \notin Faults, "stop" \notin Faults
  PROVE  Spec => []QuietWhenStopped
<1>1. QInv => QuietWhenStopped
  BY DEF QInv
<1> QED
  BY <1>1, InitQInv, NextQInv, PTL DEF Spec

(* ... the array the caller's length was checked against holds a value for *)
(* every event ...                                                         *)
THEOREM ArraysAlwaysFit ==
  ASSUME "start" \notin Faults, "stop" \notin Faults
  PROVE  Spec => []ArrayFits
<1>1. QInv => ArrayFits
  BY DEF QInv
<1> QED
  BY <1>1, InitQInv, NextQInv, PTL DEF Spec

(* ... no error return disturbs the measurement in progress ...            *)
THEOREM ErrorsNeverDisturb ==
  ASSUME "start" \notin Faults, "stop" \notin Faults
  PROVE  Spec => ErrorsAreHarmless
<1>1. QInv /\ [Next]_vars =>
        [hl.running # "STOP" /\ reply' # reply /\ reply'.ret # "OK"
           => hl'.running = hl.running /\ hl'.es = hl.es]_vars
  BY NextQInv DEF HarmlessStep
<1> QED
  BY <1>1, InitQInv, NextQInv, PTL DEF Spec, ErrorsAreHarmless

(* ... and the high-level interface implements the meter.                  *)
THEOREM HighLevelImplementsMeter ==
  ASSUME "start" \notin Faults, "stop" \notin Faults
  PROVE  Spec => ImplementsMeter
BY InitQInv, NextQInv, PTL DEF Spec, ImplementsMeter, MeterOfCalls!MeterSpec
=============================================================================
