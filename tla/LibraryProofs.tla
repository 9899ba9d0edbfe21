---------------------------- MODULE LibraryProofs ---------------------------
(***************************************************************************)
(* What each function of the event set, and then each function of          *)
(* papi_hl.c, does to a well-formed state, for every platform (event       *)
(* codes, counters) and every kind of fault: one lemma per function.       *)
(***************************************************************************)
EXTENDS HighLevel, SequenceTheorems, TLAPS

-----------------------------------------------------------------------------
(***************************************************************************)
(* The event set.                                                          *)
(***************************************************************************)

EventSetOutcomes == [ret : Returns, es : EventSets, values : Values]

LEMMA EmptyValues == <<>> \in Values
BY DEF Values

(* The hardware's reading is one value per event. *)
LEMMA ReadingType ==
  ASSUME NEW es \in EventSets
  PROVE  /\ Reading(es) \in Values
         /\ Len(Reading(es)) = Len(es.events)
         /\ es.events # <<>> => 1 \in 1 .. Len(Reading(es))
<1>1. es.events \in Seq(Codes) /\ es.count \in Nat
  BY DEF EventSets
<1>2. Len(es.events) \in Nat /\ \A i \in 1 .. Len(es.events) : es.events[i] \in Codes
  BY <1>1
<1>3. Reading(es) \in [1 .. Len(es.events) -> [code : Codes, n : Nat]]
  BY <1>1, <1>2 DEF Reading
<1> DEFINE r == Reading(es)
<1>4. r \in Seq([code : Codes, n : Nat])
  BY <1>1, <1>2, <1>3 DEF Reading
<1>6. Len(r) \in Nat /\ 1 .. Len(r) = 1 .. Len(es.events)
  <2>1. Len(r) \in Nat /\ DOMAIN r = 1 .. Len(r)
    BY <1>4, LenProperties
  <2>2. DOMAIN r = 1 .. Len(es.events)
    BY <1>3
  <2> QED
    BY <2>1, <2>2
<1>7. Len(r) = Len(es.events)
  BY <1>2, <1>6
<1>5. es.events # <<>> => 1 <= Len(es.events)
  BY <1>1
<1> QED
  BY <1>2, <1>4, <1>5, <1>7 DEF Values

(* Every value of a reading is the work since the counters were zeroed. *)
LEMMA ReadingFirst ==
  ASSUME NEW es \in EventSets, es.events # <<>>
  PROVE  Reading(es)[1].n = es.count
<1>1. Len(es.events) \in Nat \ {0}
  BY EmptySeq DEF EventSets
<1> QED
  BY <1>1 DEF Reading

(* Adding events appends a prefix of the request, the whole request when   *)
(* the result is "OK"; a running set is refused and left alone.            *)
LEMMA AddEachFacts ==
  ASSUME NEW es \in EventSets, NEW evs \in Seq(Codes), NEW o \in AddEach(es, evs)
  PROVE  /\ o \in EventSetOutcomes
         /\ o.es.running = es.running
         /\ es.running => o.ret = "EISRUN" /\ o.es = es
         /\ o.ret = "EISRUN" => o.es = es /\ es.running
         /\ o.ret = "OK" => ~es.running /\ o.es.events = es.events \o evs
         /\ o.values = <<>>
<1>1. CASE es.running
  <2>1. o = Outcome("EISRUN", es, <<>>)
    BY <1>1 DEF AddEach
  <2>2. <<>> \in Values
    BY DEF Values
  <2> QED
    BY <1>1, <2>1, <2>2 DEF Outcome, EventSetOutcomes, Returns, Errors
<1>2. CASE ~es.running
  <2>1. PICK k \in AddFailsAt(es, evs) :
          o = Outcome(IF k > Len(evs) THEN "OK"
                      ELSE IF Addable(es, evs, k) THEN "ESYS" ELSE AddError(evs, k),
                      [es EXCEPT !.events = @ \o SubSeq(evs, 1, k - 1)],
                      <<>>)
    BY <1>2 DEF AddEach
  <2>2. k \in 1 .. Len(evs) + 1 /\ Len(evs) \in Nat
    BY <2>1 DEF AddFailsAt
  <2>3. SubSeq(evs, 1, k - 1) \in Seq(Codes)
    BY <2>2, SubSeqProperties
  <2>4. k > Len(evs) => SubSeq(evs, 1, k - 1) = evs
    BY <2>2, SubSeqFull
  <2>5. es.events \o SubSeq(evs, 1, k - 1) \in Seq(Codes)
    BY <2>3 DEF EventSets
  <2>6. o.es = [es EXCEPT !.events = es.events \o SubSeq(evs, 1, k - 1)]
    BY <2>1 DEF Outcome
  <2>7. o.es \in EventSets /\ o.es.running = es.running
        /\ o.es.events = es.events \o SubSeq(evs, 1, k - 1)
    BY <2>5, <2>6 DEF EventSets
  <2>8. o.ret \in {"OK", "ESYS", "ENOEVNT", "ECNFLCT"} /\ (o.ret = "OK" => k > Len(evs))
    BY <2>1 DEF Outcome, AddError
  <2>9. o.values = <<>> /\ <<>> \in Values
    BY <2>1 DEF Outcome, Values
  <2>10. o = [ret |-> o.ret, es |-> o.es, values |-> o.values]
    BY <2>1 DEF Outcome
  <2>11. o \in EventSetOutcomes
    BY <2>7, <2>8, <2>9, <2>10 DEF EventSetOutcomes, Returns, Errors
  <2> QED
    BY <1>2, <2>4, <2>7, <2>8, <2>9, <2>11
<1>3. es.running \in BOOLEAN
  BY DEF EventSets
<1> QED
  BY <1>1, <1>2, <1>3

(* PAPI_add_events returns "partial" where the loop stopped late, and      *)
(* "OK" only when the whole request was added.                             *)
LEMMA AddEventsFacts ==
  ASSUME NEW es \in EventSets, NEW evs \in Seq(Codes), NEW o \in AddEvents(es, evs)
  PROVE  /\ o \in EventSetOutcomes
         /\ o.es.running = es.running
         /\ es.running => o.ret = "EISRUN" /\ o.es = es
         /\ o.ret = "OK" => ~es.running /\ o.es.events = es.events \o evs
         /\ o.values = <<>>
<1>1. PICK a \in AddEach(es, evs) :
        o = IF a.ret # "OK" /\ a.es # es THEN [a EXCEPT !.ret = "partial"] ELSE a
  BY DEF AddEvents
<1>2. /\ a \in EventSetOutcomes
      /\ a.es.running = es.running
      /\ es.running => a.ret = "EISRUN" /\ a.es = es
      /\ a.ret = "OK" => ~es.running /\ a.es.events = es.events \o evs
      /\ a.values = <<>>
  BY AddEachFacts
<1>3. CASE a.ret # "OK" /\ a.es # es
  <2>1. o = [a EXCEPT !.ret = "partial"]
    BY <1>1, <1>3
  <2>2. o \in EventSetOutcomes /\ o.ret = "partial" /\ o.es = a.es /\ o.values = a.values
    BY <1>2, <2>1 DEF EventSetOutcomes, Returns, Errors
  <2> QED
    BY <1>2, <1>3, <2>2
<1>4. CASE ~(a.ret # "OK" /\ a.es # es)
  BY <1>1, <1>2, <1>4
<1> QED
  BY <1>3, <1>4

(* PAPI_start starts a stopped, non-empty set from zero or leaves it as it *)
(* was.                                                                    *)
LEMMA StartFacts ==
  ASSUME NEW es \in EventSets, NEW o \in Start(es)
  PROVE  /\ o \in EventSetOutcomes
         /\ o.es.events = es.events
         /\ o.ret = "OK" => /\ ~es.running /\ es.events # <<>>
                            /\ o.es.running /\ o.es.count = 0
         /\ o.ret # "OK" => o.es = es
         /\ o.values = <<>>
<1>1. <<>> \in Values
  BY EmptyValues
<1>2. \/ o = Outcome("OK", [es EXCEPT !.running = TRUE, !.count = 0], <<>>)
         /\ ~es.running /\ es.events # <<>>
      \/ \E e \in {"EISRUN", "EINVAL", "ESYS"} : o = Outcome(e, es, <<>>)
  BY DEF Start, Failing
<1>3. CASE \E e \in {"EISRUN", "EINVAL", "ESYS"} : o = Outcome(e, es, <<>>)
  BY <1>1, <1>3 DEF Outcome, EventSetOutcomes, Returns, Errors
<1>4. CASE /\ o = Outcome("OK", [es EXCEPT !.running = TRUE, !.count = 0], <<>>)
           /\ ~es.running /\ es.events # <<>>
  <2>1. [es EXCEPT !.running = TRUE, !.count = 0] \in EventSets
    BY DEF EventSets
  <2> QED
    BY <1>1, <1>4, <2>1 DEF Outcome, EventSetOutcomes, EventSets, Returns
<1> QED
  BY <1>2, <1>3, <1>4

(* Without a start fault, a stopped set with events in it starts. *)
LEMMA StartSucceeds ==
  ASSUME NEW es \in EventSets, NEW o \in Start(es), "start" \notin Faults,
         ~es.running, es.events # <<>>
  PROVE  o.ret = "OK"
BY DEF Start, Failing, Outcome

(* PAPI_stop delivers what the counters hold, or leaves them running. *)
LEMMA StopFacts ==
  ASSUME NEW es \in EventSets, NEW o \in Stop(es)
  PROVE  /\ o \in EventSetOutcomes
         /\ o.es.events = es.events
         /\ o.es.count = es.count
         /\ o.ret = "OK" => es.running /\ ~o.es.running /\ o.values = Reading(es)
         /\ o.ret # "OK" => o.es = es
         /\ "stop" \notin Faults /\ es.running => o.ret = "OK"
<1>1. <<>> \in Values /\ Reading(es) \in Values
  BY ReadingType, EmptyValues
<1>2. CASE ~es.running
  BY <1>1, <1>2 DEF Stop, Outcome, EventSetOutcomes, EventSets, Returns, Errors
<1>3. CASE es.running
  <2>1. \/ o = Outcome("OK", [es EXCEPT !.running = FALSE], Reading(es))
        \/ "stop" \in Faults /\ o = Outcome("ESYS", es, <<>>)
    BY <1>3 DEF Stop, Failing
  <2>2. CASE o = Outcome("OK", [es EXCEPT !.running = FALSE], Reading(es))
    <3>1. [es EXCEPT !.running = FALSE] \in EventSets
      BY DEF EventSets
    <3> QED
      BY <1>1, <1>3, <2>2, <3>1 DEF Outcome, EventSetOutcomes, EventSets, Returns
  <2>3. CASE "stop" \in Faults /\ o = Outcome("ESYS", es, <<>>)
    BY <1>1, <1>3, <2>3 DEF Outcome, EventSetOutcomes, Returns, Errors
  <2> QED
    BY <2>1, <2>2, <2>3
<1> QED
  BY <1>2, <1>3

(* Reading and resetting a running set keeps it running; the counts are    *)
(* zeroed exactly when the pair of calls succeeds.                         *)
LEMMA ReadThenResetFacts ==
  ASSUME NEW es \in EventSets, NEW o \in ReadThenReset(es)
  PROVE  /\ o \in EventSetOutcomes
         /\ o.es.events = es.events
         /\ o.es.running = es.running
         /\ o.ret = "OK" => o.es.count = 0 /\ o.values = Reading(es)
         /\ o.ret # "OK" => o.es = es
<1>1. <<>> \in Values /\ Reading(es) \in Values
  BY ReadingType, EmptyValues
<1>2. PICK r \in Read(es) :
        o \in IF r.ret = "OK" THEN {Outcome(z.ret, z.es, r.values) : z \in Reset(es)}
              ELSE {r}
  BY DEF ReadThenReset
<1>3. \/ r = Outcome("OK", es, Reading(es))
      \/ r = Outcome("ESYS", es, <<>>)
  BY <1>2 DEF Read, Failing
<1>4. CASE r = Outcome("ESYS", es, <<>>)
  BY <1>1, <1>2, <1>4 DEF Outcome, EventSetOutcomes, EventSets, Returns, Errors
<1>5. CASE r = Outcome("OK", es, Reading(es))
  <2>1. r.ret = "OK" /\ r.values = Reading(es)
    BY <1>5 DEF Outcome
  <2>2. PICK z \in Reset(es) : o = Outcome(z.ret, z.es, Reading(es))
    BY <1>2, <2>1
  <2>3. \/ z = Outcome("OK", [es EXCEPT !.count = 0], <<>>)
        \/ z = Outcome("ESYS", es, <<>>)
    BY <2>2 DEF Reset, Failing
  <2> QED
    BY <1>1, <2>2, <2>3 DEF Outcome, EventSetOutcomes, EventSets, Returns, Errors
<1> QED
  BY <1>3, <1>4, <1>5

(* PAPI_cleanup_eventset empties a stopped set and leaves a running one. *)
LEMMA CleanupFacts ==
  ASSUME NEW es \in EventSets
  PROVE  /\ Cleanup(es) \in EventSets
         /\ Cleanup(es).running = es.running
         /\ ~es.running => Cleanup(es).events = <<>>
<1>1. <<>> \in Seq(Codes)
  OBVIOUS
<1>2. CASE es.running
  BY <1>2 DEF Cleanup
<1>3. CASE ~es.running
  BY <1>1, <1>3 DEF Cleanup, EventSets
<1> QED
  BY <1>2, <1>3

(* Work advances the counters of a running set and nothing else. *)
LEMMA WorkFacts ==
  ASSUME NEW es \in EventSets
  PROVE  /\ Work(es) \in EventSets
         /\ Work(es).events = es.events
         /\ Work(es).running = es.running
         /\ es.running => Work(es).count = es.count + 1
BY DEF Work, EventSets

-----------------------------------------------------------------------------
(***************************************************************************)
(* The high-level interface.                                               *)
(***************************************************************************)

LibraryReplies ==
  [ret : Returns, hl : Library, values : Values, ins : Nat, time : Nat]

(* The part of the invariant that speaks of the library alone. *)
Measured(s) == s.running # "STOP" => s.es.running /\ s.es.events # <<>>

Quiet(s) == s.running = "STOP" => ~s.es.running /\ s.es.events = <<>>

(* The two states differ in ready only. *)
Kept(s, t) ==
  /\ t.running = s.running /\ t.numEvts = s.numEvts
  /\ t.totalIns = s.totalIns /\ t.age = s.age /\ t.es = s.es

LEMMA ReturningType ==
  ASSUME NEW ret \in Returns, NEW s \in Library
  PROVE  Returning(ret, s) \in LibraryReplies
BY EmptyValues DEF Returning, Reply, LibraryReplies

LEMMA ReplyType ==
  ASSUME NEW ret \in Returns, NEW s \in Library, NEW values \in Values,
         NEW ins \in Nat, NEW time \in Nat
  PROVE  Reply(ret, s, values, ins, time) \in LibraryReplies
BY DEF Reply, LibraryReplies

LEMMA ReplyFields ==
  ASSUME NEW ret, NEW s, NEW values, NEW ins, NEW time
  PROVE  /\ Reply(ret, s, values, ins, time).ret = ret
         /\ Reply(ret, s, values, ins, time).hl = s
         /\ Reply(ret, s, values, ins, time).values = values
         /\ Reply(ret, s, values, ins, time).ins = ins
         /\ Reply(ret, s, values, ins, time).time = time
BY DEF Reply

LEMMA ReturningFields ==
  ASSUME NEW ret, NEW s
  PROVE  /\ Returning(ret, s).ret = ret
         /\ Returning(ret, s).hl = s
         /\ Returning(ret, s).values = <<>>
BY DEF Returning, Reply

LEMMA ReturningFacts ==
  ASSUME NEW ret \in Returns, NEW s \in Library, NEW o, o = Returning(ret, s)
  PROVE  /\ o \in LibraryReplies
         /\ o.ret = ret /\ o.hl = s /\ o.values = <<>>
BY ReturningType, ReturningFields

LEMMA CheckFacts ==
  ASSUME NEW s \in Library
  PROVE  /\ CheckState(s) \in Library /\ Kept(s, CheckState(s))
         /\ \A o \in CheckFails(s) : /\ o = Returning("ESYS", s)
                                     /\ o \in LibraryReplies
                                     /\ o.ret = "ESYS" /\ o.hl = s
                                     /\ Kept(s, o.hl)
<1>1. \A o \in CheckFails(s) : o = Returning("ESYS", s)
  BY DEF CheckFails
<1>2. "ESYS" \in Returns
  BY DEF Returns, Errors
<1>3. Kept(s, s)
  BY DEF Kept, Library
<1>4. CheckState(s) \in Library /\ Kept(s, CheckState(s))
  BY DEF CheckState, Kept, Library
<1> QED
  BY <1>1, <1>2, <1>3, <1>4, ReturningType, ReturningFields

LEMMA CleanedUpFacts ==
  ASSUME NEW s \in Library, NEW es \in EventSets
  PROVE  /\ CleanedUp(s, es) \in Library
         /\ CleanedUp(s, es).running = "STOP"
         /\ CleanedUp(s, es).es = Cleanup(es)
         /\ ~es.running => Quiet(CleanedUp(s, es))
<1>1. Cleanup(es) \in EventSets /\ (~es.running => Cleanup(es).events = <<>>)
      /\ Cleanup(es).running = es.running
  BY CleanupFacts
<1> QED
  BY <1>1 DEF CleanedUp, Library, Modes, RateModes, Quiet

(* PAPI_start_counters begins a measurement of the requested events after  *)
(* whatever the set still holds, or fails; only a failed PAPI_start leaves *)
(* events behind in the set.                                               *)
LEMMA StartCheckedFacts ==
  ASSUME NEW s \in Library, NEW evs \in Seq(Codes), NEW o \in StartChecked(s, evs)
  PROVE  /\ o \in LibraryReplies
         /\ o.ret = "OK" =>
              /\ s.running = "STOP" /\ o.hl.running = "START"
              /\ o.hl.es.running /\ o.hl.es.count = 0
              /\ o.hl.es.events = s.es.events \o evs
              /\ o.hl.es.events # <<>>
              /\ o.hl.numEvts = Len(evs)
         /\ o.ret # "OK" /\ s.running # "STOP" => o.hl = s
         /\ o.ret # "OK" /\ s.running = "STOP" => o.hl.running = "STOP"
         /\ o.ret # "OK" /\ Quiet(s) /\ "start" \notin Faults /\ evs # <<>> => Quiet(o.hl)
<1>1. s.es \in EventSets /\ Len(evs) \in Nat
  BY DEF Library
<1>2. CASE s.running # "STOP"
  <2>1. o = Returning("EINVAL", s)
    BY <1>2 DEF StartChecked
  <2>2. "EINVAL" \in Returns
    BY DEF Returns, Errors
  <2>3. o \in LibraryReplies /\ o.ret = "EINVAL" /\ o.hl = s
    BY <2>1, <2>2, ReturningFacts
  <2> QED
    BY <1>2, <2>3 DEF Quiet
<1>3. CASE s.running = "STOP"
  <2>1. PICK a \in AddEach(s.es, evs) :
          o \in CASE a.ret = "OK"     -> StartLoaded(s, a.es, Len(evs))
                  [] a.ret = "EISRUN" -> {Returning("EISRUN", s)}
                  [] OTHER            -> {Returning(a.ret, CleanedUp(s, a.es))}
    BY <1>3 DEF StartChecked
  <2>2. /\ a.ret = "EISRUN" => a.es = s.es /\ s.es.running
        /\ a.ret = "OK" => ~s.es.running /\ a.es.events = s.es.events \o evs
        /\ a.es.running = s.es.running
    <3>1. a.ret = "EISRUN" => a.es = s.es /\ s.es.running
      BY <1>1, <2>1, AddEachFacts
    <3>2. a.ret = "OK" => ~s.es.running /\ a.es.events = s.es.events \o evs
      BY <1>1, <2>1, AddEachFacts
    <3>3. a.es.running = s.es.running
      BY <1>1, <2>1, AddEachFacts
    <3> QED
      BY <3>1, <3>2, <3>3
  <2>6. a.es \in EventSets /\ a.ret \in Returns
    <3>1. a \in EventSetOutcomes
      BY <1>1, <2>1, AddEachFacts
    <3> QED
      BY <3>1 DEF EventSetOutcomes
  <2>3. CASE a.ret = "OK"
    <3>1. PICK b \in Start(a.es) :
            o = Returning(b.ret,
                  IF b.ret = "OK"
                    THEN [s EXCEPT !.running = "START", !.numEvts = Len(evs), !.es = b.es]
                    ELSE [s EXCEPT !.es = b.es])
      BY <2>1, <2>3 DEF StartLoaded
    <3>2. /\ b \in EventSetOutcomes /\ b.es \in EventSets /\ b.ret \in Returns
          /\ b.es.events = a.es.events
          /\ b.ret = "OK" => ~a.es.running /\ a.es.events # <<>>
                              /\ b.es.running /\ b.es.count = 0
      BY <2>6, <3>1, StartFacts DEF EventSetOutcomes
    <3>3. CASE b.ret = "OK"
      <4>1. o = Returning("OK", [s EXCEPT !.running = "START", !.numEvts = Len(evs),
                                          !.es = b.es])
        BY <3>1, <3>3
      <4>2. [s EXCEPT !.running = "START", !.numEvts = Len(evs), !.es = b.es] \in Library
        BY <1>1, <3>2 DEF Library, Modes
      <4>3. o \in LibraryReplies /\ o.ret = "OK"
            /\ o.hl = [s EXCEPT !.running = "START", !.numEvts = Len(evs), !.es = b.es]
        BY <3>2, <3>3, <4>1, <4>2, ReturningFacts
      <4>4. o.hl.running = "START" /\ o.hl.numEvts = Len(evs) /\ o.hl.es = b.es
        BY <4>3 DEF Library
      <4> QED
        BY <1>3, <2>2, <2>3, <3>2, <3>3, <4>3, <4>4
    <3>4. CASE b.ret # "OK"
      <4> DEFINE t == [s EXCEPT !.es = b.es]
      <4>1. o = Returning(b.ret, t)
        BY <3>1, <3>4
      <4>2. t \in Library /\ t.running = "STOP"
        BY <1>3, <3>2 DEF Library
      <4>3. o \in LibraryReplies /\ o.ret = b.ret /\ o.hl = t
        <5> HIDE DEF t
        <5> QED
          BY <3>2, <4>1, <4>2, ReturningFacts
      <4>4. ASSUME Quiet(s), "start" \notin Faults, evs # <<>>
            PROVE  FALSE
        <5>1. s.es.events = <<>>
          BY <1>3, <4>4 DEF Quiet
        <5>2. <<>> \o evs = evs
          BY ConcatEmptySeq
        <5>3. a.es.events # <<>> /\ ~a.es.running
          BY <2>2, <2>3, <4>4, <5>1, <5>2
        <5> QED
          BY <2>6, <3>1, <3>4, <4>4, <5>3, StartSucceeds
      <4> QED
        BY <1>3, <3>4, <4>2, <4>3, <4>4
    <3> QED
      BY <3>3, <3>4
  <2>4. CASE a.ret = "EISRUN"
    <3>1. o = Returning("EISRUN", s)
      BY <2>1, <2>4
    <3> QED
      BY <1>3, <2>2, <2>4, <2>6, <3>1, ReturningFacts DEF Quiet
  <2>5. CASE a.ret # "OK" /\ a.ret # "EISRUN"
    <3>1. o = Returning(a.ret, CleanedUp(s, a.es))
      BY <2>1, <2>5
    <3>2. o \in LibraryReplies /\ o.ret = a.ret /\ o.hl = CleanedUp(s, a.es)
      BY <2>6, <3>1, CleanedUpFacts, ReturningFacts
    <3>3. Quiet(s) => ~a.es.running
      BY <1>3, <2>2 DEF Quiet
    <3> QED
      BY <1>3, <2>5, <2>6, <3>2, <3>3, CleanedUpFacts
  <2> QED
    BY <2>3, <2>4, <2>5
<1> QED
  BY <1>2, <1>3

(* PAPI_stop_counters ends the measurement, with the counts in mode START, *)
(* or changes nothing.                                                     *)
LEMMA StopCheckedFacts ==
  ASSUME NEW s \in Library, NEW len \in Nat, NEW o \in StopChecked(s, len)
  PROVE  /\ o \in LibraryReplies
         /\ o.ret = "OK" =>
              /\ s.running # "STOP" /\ s.es.running
              /\ o.hl.running = "STOP" /\ Quiet(o.hl)
              /\ o.values = IF s.running = "START" THEN Reading(s.es) ELSE <<>>
         /\ o.ret # "OK" => o.hl = s
<1>1. s.es \in EventSets
  BY DEF Library
<1>2. CASE s.running = "STOP" \/ (s.running = "START" /\ len < s.numEvts)
  <2>1. PICK ret \in {"ENOTRUN", "EINVAL"} : o = Returning(ret, s)
    BY <1>2 DEF StopChecked
  <2>2. ret \in Returns /\ ret # "OK"
    BY DEF Returns, Errors
  <2> QED
    BY <2>1, <2>2, ReturningFacts
<1>3. CASE s.running # "STOP" /\ ~(s.running = "START" /\ len < s.numEvts)
  <2>1. PICK p \in Stop(s.es) :
          o = IF p.ret = "OK"
                THEN Reply("OK", CleanedUp(s, p.es),
                           IF s.running = "START" THEN p.values ELSE <<>>, 0, 0)
                ELSE Returning(p.ret, [s EXCEPT !.es = p.es])
    BY <1>3 DEF StopChecked
  <2>2. p \in EventSetOutcomes
    BY <1>1, <2>1, StopFacts
  <2>3. p.es \in EventSets /\ p.ret \in Returns /\ p.values \in Values
    BY <2>2 DEF EventSetOutcomes
  <2>4. CASE p.ret = "OK"
    <3> DEFINE t == CleanedUp(s, p.es)
               v == IF s.running = "START" THEN p.values ELSE <<>>
    <3>1. o = Reply("OK", t, v, 0, 0)
      BY <2>1, <2>4
    <3>2. s.es.running /\ ~p.es.running /\ p.values = Reading(s.es)
      BY <1>1, <2>1, <2>4, StopFacts
    <3>3. t \in Library /\ t.running = "STOP" /\ Quiet(t)
      BY <2>3, <3>2, CleanedUpFacts
    <3>4. v \in Values
      BY <2>3, EmptyValues
    <3> HIDE DEF t
    <3>5. o \in LibraryReplies /\ o.ret = "OK" /\ o.hl = t /\ o.values = v
      <4> HIDE DEF v
      <4>1. "OK" \in Returns /\ 0 \in Nat
        BY DEF Returns
      <4> QED
        BY <3>1, <3>3, <3>4, <4>1, ReplyType, ReplyFields
    <3> QED
      BY <1>3, <3>2, <3>3, <3>5
  <2>5. CASE p.ret # "OK"
    <3>1. p.es = s.es
      BY <1>1, <2>1, <2>5, StopFacts
    <3>2. [s EXCEPT !.es = p.es] = s
      BY <3>1 DEF Library
    <3>3. o = Returning(p.ret, s)
      BY <2>1, <2>5, <3>2
    <3> QED
      BY <2>3, <2>5, <3>3, ReturningFacts
  <2> QED
    BY <2>4, <2>5
<1> QED
  BY <1>2, <1>3

(* Reading zeroes the counts and changes nothing else. *)
Delivers(s, t) ==
  /\ t.running = s.running /\ t.numEvts = s.numEvts
  /\ t.totalIns = s.totalIns /\ t.age = s.age
  /\ t.es.running = s.es.running /\ t.es.events = s.es.events /\ t.es.count = 0

(* PAPI_read_counters and PAPI_accum_counters deliver the counts and zero  *)
(* them, or change nothing.                                                *)
LEMMA ReadCheckedFacts ==
  ASSUME NEW s \in Library, NEW len \in Nat, NEW o \in ReadChecked(s, len)
  PROVE  /\ o \in LibraryReplies
         /\ o.ret = "OK" => /\ s.running = "START" /\ o.values = Reading(s.es)
                            /\ Delivers(s, o.hl)
         /\ o.ret # "OK" => o.hl = s
<1>1. s.es \in EventSets
  BY DEF Library
<1>2. CASE s.running # "START" \/ len < s.numEvts
  <2>1. o = Returning("EINVAL", s)
    BY <1>2 DEF ReadChecked
  <2>2. "EINVAL" \in Returns
    BY DEF Returns, Errors
  <2>3. o \in LibraryReplies /\ o.ret = "EINVAL" /\ o.hl = s
    BY <2>1, <2>2, ReturningFacts
  <2> QED
    BY <2>3
<1>3. CASE ~(s.running # "START" \/ len < s.numEvts)
  <2>1. PICK r \in ReadThenReset(s.es) :
          o = Reply(r.ret, [s EXCEPT !.es = r.es], r.values, 0, 0)
    BY <1>3 DEF ReadChecked
  <2>2. r \in EventSetOutcomes
    BY <1>1, <2>1, ReadThenResetFacts
  <2>3. r.es \in EventSets /\ r.ret \in Returns /\ r.values \in Values
    BY <2>2 DEF EventSetOutcomes
  <2> DEFINE t == [s EXCEPT !.es = r.es]
  <2>4. /\ t \in Library /\ t.es = r.es
        /\ t.running = s.running /\ t.numEvts = s.numEvts
        /\ t.totalIns = s.totalIns /\ t.age = s.age
    BY <2>3 DEF Library
  <2>5. o \in LibraryReplies /\ o.ret = r.ret /\ o.hl = t /\ o.values = r.values
    <3>1. o = Reply(r.ret, t, r.values, 0, 0)
      BY <2>1
    <3> HIDE DEF t
    <3> QED
      BY <2>3, <2>4, <3>1, ReplyType, ReplyFields
  <2>6. r.ret = "OK" => r.es.count = 0 /\ r.values = Reading(s.es)
    BY <1>1, <2>1, ReadThenResetFacts
  <2>7. r.es.running = s.es.running /\ r.es.events = s.es.events
    BY <1>1, <2>1, ReadThenResetFacts
  <2>8. r.ret # "OK" => t = s
    <3>1. r.ret # "OK" => r.es = s.es
      BY <1>1, <2>1, ReadThenResetFacts
    <3> QED
      BY <3>1 DEF Library
  <2> HIDE DEF t
  <2> QED
    BY <1>3, <2>3, <2>4, <2>5, <2>6, <2>7, <2>8 DEF Delivers
<1> QED
  BY <1>2, <1>3

(* The first rate call begins a measurement after whatever the set still   *)
(* holds, or fails with the counters stopped.                              *)
LEMMA RateBeginFacts ==
  ASSUME NEW s \in Library, s.running = "STOP", NEW mode \in RateModes,
         NEW evs \in Seq(Codes), NEW o \in RateBegin(s, mode, evs)
  PROVE  /\ o \in LibraryReplies
         /\ o.ret = "OK" =>
              /\ o.hl.running = mode /\ o.hl.totalIns = 0 /\ o.hl.age = 0
              /\ o.hl.es.running /\ o.hl.es.count = 0
              /\ o.hl.es.events = s.es.events \o evs
              /\ o.hl.es.events # <<>>
         /\ o.ret # "OK" => o.hl.running = "STOP"
         /\ o.ret # "OK" /\ Quiet(s) /\ "start" \notin Faults /\ evs # <<>> => Quiet(o.hl)
<1>1. s.es \in EventSets
  BY DEF Library
<1>2. PICK a \in AddEvents(s.es, evs) :
        o \in IF a.ret = "OK" THEN RateStart(s, a.es, mode)
              ELSE {Returning(a.ret, CleanedUp(s, a.es))}
  BY DEF RateBegin
<1>3. a.es \in EventSets /\ a.ret \in Returns
  <2>1. a \in EventSetOutcomes
    BY <1>1, <1>2, AddEventsFacts
  <2> QED
    BY <2>1 DEF EventSetOutcomes
<1>4. /\ a.es.running = s.es.running
      /\ a.ret = "OK" => ~s.es.running /\ a.es.events = s.es.events \o evs
  <2>1. PICK es \in EventSets : es = s.es
    BY <1>1
  <2>2. a \in AddEvents(es, evs)
    BY <1>2, <2>1
  <2>3. /\ a.es.running = es.running
        /\ a.ret = "OK" => ~es.running /\ a.es.events = es.events \o evs
    BY ONLY <2>2, es \in EventSets, evs \in Seq(Codes), AddEventsFacts
  <2> QED
    BY <2>1, <2>3
<1>5. CASE a.ret # "OK"
  <2>1. o = Returning(a.ret, CleanedUp(s, a.es))
    BY <1>2, <1>5
  <2>2. CleanedUp(s, a.es) \in Library /\ CleanedUp(s, a.es).running = "STOP"
    BY <1>3, CleanedUpFacts
  <2>3. o \in LibraryReplies /\ o.ret = a.ret /\ o.hl = CleanedUp(s, a.es)
    BY <1>3, <2>1, <2>2, ReturningFacts
  <2>4. Quiet(s) => Quiet(CleanedUp(s, a.es))
    <3>1. Quiet(s) => ~a.es.running
      BY <1>4 DEF Quiet
    <3> QED
      BY <1>3, <3>1, CleanedUpFacts
  <2> QED
    BY <1>5, <2>2, <2>3, <2>4
<1>6. CASE a.ret = "OK"
  <2>1. PICK b \in Start(a.es) :
          o = Returning(b.ret,
                [s EXCEPT !.running = IF b.ret = "OK" THEN mode ELSE @,
                          !.totalIns = 0, !.age = 0, !.es = b.es])
    BY <1>2, <1>6 DEF RateStart
  <2>2. b.es \in EventSets /\ b.ret \in Returns
    <3>1. b \in EventSetOutcomes
      BY <1>3, <2>1, StartFacts
    <3> QED
      BY <3>1 DEF EventSetOutcomes
  <2>3. b.es.events = a.es.events
    BY <1>3, <2>1, StartFacts
  <2>4. b.ret = "OK" => a.es.events # <<>> /\ b.es.running /\ b.es.count = 0
    BY <1>3, <2>1, StartFacts
  <2> DEFINE t == [s EXCEPT !.running = IF b.ret = "OK" THEN mode ELSE @,
                            !.totalIns = 0, !.age = 0, !.es = b.es]
  <2>5. /\ t \in Library
        /\ t.running = IF b.ret = "OK" THEN mode ELSE "STOP"
        /\ t.totalIns = 0 /\ t.age = 0 /\ t.es = b.es
    BY <2>2 DEF Library, Modes
  <2>6. o \in LibraryReplies /\ o.ret = b.ret /\ o.hl = t
    <3>1. o = Returning(b.ret, t)
      BY <2>1
    <3> HIDE DEF t
    <3> QED
      BY <2>2, <2>5, <3>1, ReturningFacts
  <2> HIDE DEF t
  <2>7. ASSUME b.ret # "OK", Quiet(s), "start" \notin Faults, evs # <<>>
        PROVE  FALSE
    <3>1. s.es.events = <<>> /\ <<>> \o evs = evs
      BY <2>7, ConcatEmptySeq DEF Quiet
    <3>2. a.es.events # <<>> /\ ~a.es.running
      BY <1>4, <1>6, <2>7, <3>1
    <3> QED
      BY <1>3, <2>1, <2>7, <3>2, StartSucceeds
  <2>8. CASE b.ret = "OK"
    BY <1>4, <1>6, <2>3, <2>4, <2>5, <2>6, <2>8
  <2>9. CASE b.ret # "OK"
    BY <2>5, <2>6, <2>7, <2>9
  <2> QED
    BY <2>8, <2>9
<1> QED
  BY <1>5, <1>6

(* A later rate call reports the totals and starts again from zero; if it  *)
(* fails, a call to the hardware failed.                                   *)
LEMMA RateReportFacts ==
  ASSUME NEW s \in Library, s.running \in RateModes, Measured(s), NEW o \in RateReport(s)
  PROVE  /\ o \in LibraryReplies
         /\ o.ret = "OK" =>
              /\ o.hl.running = s.running /\ o.hl.age = s.age
              /\ o.hl.totalIns = s.totalIns + s.es.count
              /\ o.hl.es.running /\ o.hl.es.count = 0
              /\ o.hl.es.events = s.es.events
              /\ o.values = Reading(s.es)
              /\ o.ins = s.totalIns + s.es.count /\ o.time = s.age
         /\ o.ret # "OK" => /\ o.hl.running = "STOP"
                            /\ "start" \in Faults \/ "stop" \in Faults
<1>1. s.es \in EventSets /\ s.es.running /\ s.es.events # <<>>
  BY DEF Library, Measured, RateModes
<1>2. PICK p \in Stop(s.es) :
        o \in IF p.ret = "OK" THEN RateRestart(s, p)
              ELSE {Returning(p.ret, [s EXCEPT !.running = "STOP", !.es = p.es])}
  BY DEF RateReport
<1>3. p.es \in EventSets /\ p.ret \in Returns /\ p.values \in Values
  <2>1. p \in EventSetOutcomes
    BY <1>1, <1>2, StopFacts
  <2> QED
    BY <2>1 DEF EventSetOutcomes
<1>4. CASE p.ret # "OK"
  <2> DEFINE t == [s EXCEPT !.running = "STOP", !.es = p.es]
  <2>1. o = Returning(p.ret, t)
    BY <1>2, <1>4
  <2>2. t \in Library /\ t.running = "STOP"
    BY <1>3 DEF Library, Modes
  <2>3. o \in LibraryReplies /\ o.ret = p.ret /\ o.hl = t
    <3> HIDE DEF t
    <3> QED
      BY <1>3, <2>1, <2>2, ReturningFacts
  <2>4. "stop" \in Faults
    BY <1>1, <1>2, <1>4, StopFacts
  <2> HIDE DEF t
  <2> QED
    BY <1>4, <2>2, <2>3, <2>4
<1>5. CASE p.ret = "OK"
  <2>1. ~p.es.running /\ p.values = Reading(s.es)
    BY <1>1, <1>2, <1>5, StopFacts
  <2>2. p.es.events = s.es.events
    BY <1>1, <1>2, StopFacts
  <2>3. p.values[1].n = s.es.count
    BY <1>1, <2>1, ReadingFirst
  <2> DEFINE total == s.totalIns + s.es.count
  <2>4. total \in Nat /\ s.age \in Nat
    BY <1>1 DEF Library, EventSets
  <2>5. PICK b \in Start(p.es) :
          o = IF b.ret = "OK"
                THEN Reply("OK", [s EXCEPT !.totalIns = total, !.es = b.es],
                           p.values, total, s.age)
                ELSE Returning(b.ret, [s EXCEPT !.running = "STOP", !.totalIns = total,
                                                !.es = b.es])
    BY <1>2, <1>5, <2>3 DEF RateRestart
  <2>6. b.es \in EventSets /\ b.ret \in Returns
    <3>1. b \in EventSetOutcomes
      BY <1>3, <2>5, StartFacts
    <3> QED
      BY <3>1 DEF EventSetOutcomes
  <2>7. b.es.events = s.es.events
    BY <1>3, <2>2, <2>5, StartFacts
  <2>8. CASE b.ret = "OK"
    <3> DEFINE t == [s EXCEPT !.totalIns = total, !.es = b.es]
    <3>1. b.es.running /\ b.es.count = 0
      BY <1>3, <2>5, <2>8, StartFacts
    <3>2. /\ t \in Library
          /\ t.running = s.running /\ t.age = s.age /\ t.totalIns = total /\ t.es = b.es
      BY <2>4, <2>6 DEF Library
    <3>3. o = Reply("OK", t, p.values, total, s.age)
      BY <2>5, <2>8
    <3>4. /\ o \in LibraryReplies /\ o.ret = "OK" /\ o.hl = t
          /\ o.values = p.values /\ o.ins = total /\ o.time = s.age
      <4> HIDE DEF t, total
      <4>1. "OK" \in Returns
        BY DEF Returns
      <4> QED
        BY <1>3, <2>4, <3>2, <3>3, <4>1, ReplyType, ReplyFields, SMTT(30)
    <3> HIDE DEF t
    <3> QED
      BY <2>1, <2>7, <3>1, <3>2, <3>4
  <2>9. CASE b.ret # "OK"
    <3> DEFINE t == [s EXCEPT !.running = "STOP", !.totalIns = total, !.es = b.es]
    <3>1. t \in Library /\ t.running = "STOP"
      BY <2>4, <2>6 DEF Library, Modes
    <3>2. o = Returning(b.ret, t)
      BY <2>5, <2>9
    <3>3. o \in LibraryReplies /\ o.ret = b.ret /\ o.hl = t
      <4> HIDE DEF t
      <4> QED
        BY <2>6, <3>1, <3>2, ReturningFacts
    <3>4. "start" \in Faults
      <4>1. p.es.events # <<>>
        BY <1>1, <2>2
      <4> QED
        BY <1>3, <2>1, <2>5, <2>9, <4>1, StartSucceeds
    <3> HIDE DEF t
    <3> QED
      BY <2>9, <3>1, <3>3, <3>4
  <2> QED
    BY <2>8, <2>9
<1> QED
  BY <1>4, <1>5

-----------------------------------------------------------------------------
(***************************************************************************)
(* The functions as the program calls them, with the initialisation of the *)
(* library before them.                                                    *)
(***************************************************************************)

LEMMA NumCountersFacts ==
  ASSUME NEW s \in Library, NEW o \in NumCountersCall(s)
  PROVE  o \in LibraryReplies /\ Kept(s, o.hl)
<1>1. CASE o \in CheckFails(s)
  BY <1>1, CheckFacts
<1>2. CASE o = Returning("OK", CheckState(s))
  <2>1. CheckState(s) \in Library /\ Kept(s, CheckState(s)) /\ "OK" \in Returns
    BY CheckFacts DEF Returns
  <2> QED
    BY <1>2, <2>1, ReturningFacts
<1> QED
  BY <1>1, <1>2 DEF NumCountersCall

LEMMA StartCountersFacts ==
  ASSUME NEW s \in Library, NEW evs \in Seq(Codes), NEW o \in StartCounters(s, evs)
  PROVE  /\ o \in LibraryReplies
         /\ o.ret = "OK" =>
              /\ s.running = "STOP" /\ o.hl.running = "START"
              /\ o.hl.es.running /\ o.hl.es.count = 0
              /\ o.hl.es.events = s.es.events \o evs
              /\ o.hl.es.events # <<>> /\ evs # <<>>
              /\ o.hl.numEvts = Len(evs)
         /\ o.ret # "OK" /\ s.running # "STOP" => Kept(s, o.hl)
         /\ o.ret # "OK" /\ s.running = "STOP" => o.hl.running = "STOP"
         /\ o.ret # "OK" /\ Quiet(s) /\ "start" \notin Faults => Quiet(o.hl)
<1> DEFINE c == CheckState(s)
<1>1. c \in Library /\ Kept(s, c)
  BY CheckFacts
<1>2. c.running = s.running /\ c.es = s.es /\ (Quiet(s) => Quiet(c))
  BY <1>1 DEF Kept, Quiet
<1>3. CASE o = Returning("EINVAL", s) \/ o \in CheckFails(s)
  <2>1. PICK ret \in {"EINVAL", "ESYS"} : o = Returning(ret, s)
    BY <1>3, CheckFacts
  <2>2. ret \in Returns /\ ret # "OK"
    BY DEF Returns, Errors
  <2>3. o \in LibraryReplies /\ o.ret # "OK" /\ o.hl = s
    BY <2>1, <2>2, ReturningFacts
  <2> QED
    BY <2>3 DEF Kept
<1>4. CASE evs # <<>> /\ o \in StartChecked(c, evs)
  <2> HIDE DEF c
  <2>1. o \in LibraryReplies
    BY <1>1, <1>4, StartCheckedFacts
  <2>2. o.ret = "OK" =>
          /\ c.running = "STOP" /\ o.hl.running = "START"
          /\ o.hl.es.running /\ o.hl.es.count = 0
          /\ o.hl.es.events = c.es.events \o evs
          /\ o.hl.es.events # <<>>
          /\ o.hl.numEvts = Len(evs)
    BY <1>1, <1>4, StartCheckedFacts
  <2>3. /\ o.ret # "OK" /\ c.running # "STOP" => o.hl = c
        /\ o.ret # "OK" /\ c.running = "STOP" => o.hl.running = "STOP"
    BY <1>1, <1>4, StartCheckedFacts
  <2>4. o.ret # "OK" /\ Quiet(c) /\ "start" \notin Faults => Quiet(o.hl)
    BY <1>1, <1>4, StartCheckedFacts
  <2> QED
    BY <1>1, <1>2, <1>4, <2>1, <2>2, <2>3, <2>4
<1> QED
  BY <1>3, <1>4 DEF StartCounters

LEMMA StopCountersFacts ==
  ASSUME NEW s \in Library, NEW len \in Nat, NEW o \in StopCounters(s, len)
  PROVE  /\ o \in LibraryReplies
         /\ o.ret = "OK" =>
              /\ s.running # "STOP" /\ s.es.running
              /\ o.hl.running = "STOP" /\ Quiet(o.hl)
              /\ o.values = IF s.running = "START" THEN Reading(s.es) ELSE <<>>
         /\ o.ret # "OK" => Kept(s, o.hl)
<1> DEFINE c == CheckState(s)
<1>1. c \in Library /\ Kept(s, c)
  BY CheckFacts
<1>2. c.running = s.running /\ c.es = s.es
  BY <1>1 DEF Kept
<1>3. CASE o \in CheckFails(s)
  <2>1. o \in LibraryReplies /\ o.ret = "ESYS" /\ Kept(s, o.hl)
    BY <1>3, CheckFacts
  <2> QED
    BY <2>1
<1>4. CASE o \in StopChecked(c, len)
  <2> HIDE DEF c
  <2>1. o \in LibraryReplies
    BY <1>1, <1>4, StopCheckedFacts
  <2>2. o.ret = "OK" =>
          /\ c.running # "STOP" /\ c.es.running
          /\ o.hl.running = "STOP" /\ Quiet(o.hl)
          /\ o.values = IF c.running = "START" THEN Reading(c.es) ELSE <<>>
    BY <1>1, <1>4, StopCheckedFacts
  <2>3. o.ret # "OK" => o.hl = c
    BY <1>1, <1>4, StopCheckedFacts
  <2> QED
    BY <1>1, <1>2, <2>1, <2>2, <2>3
<1> QED
  BY <1>3, <1>4 DEF StopCounters

LEMMA ReadCountersFacts ==
  ASSUME NEW s \in Library, NEW len \in Nat, NEW o \in ReadCounters(s, len)
  PROVE  /\ o \in LibraryReplies
         /\ o.ret = "OK" => /\ s.running = "START" /\ o.values = Reading(s.es)
                            /\ Delivers(s, o.hl)
         /\ o.ret # "OK" => Kept(s, o.hl)
<1> DEFINE c == CheckState(s)
<1>1. c \in Library /\ Kept(s, c)
  BY CheckFacts
<1>2. c.running = s.running /\ c.es = s.es
  BY <1>1 DEF Kept
<1>3. CASE o \in CheckFails(s)
  <2>1. o \in LibraryReplies /\ o.ret = "ESYS" /\ Kept(s, o.hl)
    BY <1>3, CheckFacts
  <2> QED
    BY <2>1
<1>4. CASE o \in ReadChecked(c, len)
  <2> HIDE DEF c
  <2>1. /\ o \in LibraryReplies
        /\ o.ret = "OK" => /\ c.running = "START" /\ o.values = Reading(c.es)
                           /\ Delivers(c, o.hl)
        /\ o.ret # "OK" => o.hl = c
    BY <1>1, <1>4, ReadCheckedFacts
  <2>2. o.ret = "OK" => Delivers(s, o.hl)
    BY <1>1, <2>1 DEF Delivers, Kept
  <2> QED
    BY <1>1, <1>2, <2>1, <2>2
<1> QED
  BY <1>3, <1>4 DEF ReadCounters

LEMMA AccumCountersFacts ==
  ASSUME NEW s \in Library, NEW len \in Nat, NEW o \in AccumCounters(s, len)
  PROVE  /\ o \in LibraryReplies
         /\ o.ret = "OK" => /\ s.running = "START" /\ o.values = Reading(s.es)
                            /\ Delivers(s, o.hl)
         /\ o.ret # "OK" => Kept(s, o.hl)
<1>1. CASE o = Returning("EINVAL", s)
  <2>1. "EINVAL" \in Returns /\ Kept(s, s)
    BY DEF Returns, Errors, Kept
  <2>2. o \in LibraryReplies /\ o.ret = "EINVAL" /\ Kept(s, o.hl)
    BY <1>1, <2>1, ReturningFacts
  <2> QED
    BY <2>2
<1>2. CASE o \in ReadCounters(s, len)
  BY <1>2, ReadCountersFacts
<1> QED
  BY <1>1, <1>2 DEF AccumCounters

LEMMA RateCallFacts ==
  ASSUME NEW s \in Library, Measured(s), NEW mode \in RateModes,
         NEW evs \in Seq(Codes), NEW o \in RateCall(s, mode, evs)
  PROVE  /\ o \in LibraryReplies
         /\ o.ret = "OK" /\ s.running = "STOP" =>
              /\ o.hl.running = mode /\ o.hl.totalIns = 0 /\ o.hl.age = 0
              /\ o.hl.es.running /\ o.hl.es.count = 0
              /\ o.hl.es.events = s.es.events \o evs
              /\ o.hl.es.events # <<>>
         /\ o.ret = "OK" /\ s.running # "STOP" =>
              /\ s.running = mode /\ o.hl.running = mode /\ o.hl.age = s.age
              /\ o.hl.totalIns = s.totalIns + s.es.count
              /\ o.hl.es.running /\ o.hl.es.count = 0
              /\ o.hl.es.events = s.es.events
              /\ o.values = Reading(s.es)
              /\ o.ins = s.totalIns + s.es.count /\ o.time = s.age
         /\ o.ret # "OK" =>
              \/ Kept(s, o.hl)
              \/ o.hl.running = "STOP"
         /\ o.ret # "OK" /\ "start" \notin Faults /\ "stop" \notin Faults =>
              \/ Kept(s, o.hl)
              \/ /\ s.running = "STOP" /\ o.hl.running = "STOP"
                 /\ Quiet(s) /\ evs # <<>> => Quiet(o.hl)
<1> DEFINE c == CheckState(s)
<1>1. c \in Library /\ Kept(s, c)
  BY CheckFacts
<1>2. /\ c.running = s.running /\ c.es = s.es
      /\ c.totalIns = s.totalIns /\ c.age = s.age
  BY <1>1 DEF Kept
<1>3. Measured(c) /\ (Quiet(s) => Quiet(c))
  BY <1>2 DEF Measured, Quiet
<1>4. CASE o \in CheckFails(s)
  <2>1. o \in LibraryReplies /\ o.ret = "ESYS" /\ Kept(s, o.hl)
    BY <1>4, CheckFacts
  <2> QED
    BY <2>1
<1>5. CASE o \in RateChecked(c, mode, evs)
  <2> HIDE DEF c
  <2>1. CASE c.running = "STOP"
    <3>1. o \in RateBegin(c, mode, evs)
      BY <1>5, <2>1 DEF RateChecked, RateModes
    <3>2. o \in LibraryReplies
      BY <1>1, <2>1, <3>1, RateBeginFacts
    <3>3. o.ret = "OK" =>
            /\ o.hl.running = mode /\ o.hl.totalIns = 0 /\ o.hl.age = 0
            /\ o.hl.es.running /\ o.hl.es.count = 0
            /\ o.hl.es.events = c.es.events \o evs
            /\ o.hl.es.events # <<>>
      BY <1>1, <2>1, <3>1, RateBeginFacts
    <3>4. o.ret # "OK" => o.hl.running = "STOP"
      BY <1>1, <2>1, <3>1, RateBeginFacts
    <3>5. o.ret # "OK" /\ Quiet(c) /\ "start" \notin Faults /\ evs # <<>> => Quiet(o.hl)
      BY <1>1, <2>1, <3>1, RateBeginFacts
    <3> QED
      BY <1>2, <1>3, <2>1, <3>2, <3>3, <3>4, <3>5
  <2>2. CASE c.running = mode
    <3>1. o \in RateReport(c) /\ c.running \in RateModes /\ c.running # "STOP"
      BY <1>5, <2>2 DEF RateChecked, RateModes
    <3>2. o \in LibraryReplies
      BY <1>1, <1>3, <3>1, RateReportFacts
    <3>3. o.ret = "OK" =>
            /\ o.hl.running = c.running /\ o.hl.age = c.age
            /\ o.hl.totalIns = c.totalIns + c.es.count
            /\ o.hl.es.running /\ o.hl.es.count = 0
            /\ o.hl.es.events = c.es.events
            /\ o.values = Reading(c.es)
            /\ o.ins = c.totalIns + c.es.count /\ o.time = c.age
      BY <1>1, <1>3, <3>1, RateReportFacts
    <3>4. o.ret # "OK" => /\ o.hl.running = "STOP"
                          /\ "start" \in Faults \/ "stop" \in Faults
      BY <1>1, <1>3, <3>1, RateReportFacts
    <3> QED
      BY <1>2, <2>2, <3>1, <3>2, <3>3, <3>4
  <2>3. CASE c.running # "STOP" /\ c.running # mode
    <3>1. o = Returning("EINVAL", c) /\ "EINVAL" \in Returns
      BY <1>5, <2>3 DEF RateChecked, Returns, Errors
    <3>2. o \in LibraryReplies /\ o.ret = "EINVAL" /\ o.hl = c
      BY <1>1, <3>1, ReturningFacts
    <3> QED
      BY <1>1, <3>2
  <2> QED
    BY <2>1, <2>2, <2>3
<1> QED
  BY <1>4, <1>5 DEF RateCall

LEMMA RateEventsType ==
  ASSUME NEW mode \in RateModes, NEW event \in Codes \cup {NoEvent}
  PROVE  RateEvents(mode, event) \in Seq(Codes) /\ RateEvents(mode, event) # <<>>
<1>1. {FpIns, FpOps, TotIns, TotCyc, RefCyc} \subseteq Codes
  BY PresetsAssumption
<1>2. CASE mode = "FLIP" \/ mode = "FLOP" \/ mode = "IPC"
  BY <1>1, <1>2 DEF RateEvents
<1>3. CASE mode = "EPC"
  <2> DEFINE first == IF event = NoEvent THEN TotIns ELSE event
             last  == IF RefCyc \in Countable THEN <<RefCyc>> ELSE <<>>
  <2>1. first \in Codes
    BY <1>1
  <2> HIDE DEF first
  <2>2. <<first, TotCyc>> \in Seq(Codes) /\ Len(<<first, TotCyc>>) = 2
    BY <1>1, <2>1
  <2>3. last \in Seq(Codes)
    BY <1>1
  <2> HIDE DEF last
  <2>4. <<first, TotCyc>> \o last \in Seq(Codes)
        /\ Len(<<first, TotCyc>> \o last) = 2 + Len(last) /\ Len(last) \in Nat
    BY <2>2, <2>3, ConcatProperties, LenProperties
  <2>5. Len(<<>>) = 0
    BY EmptySeq
  <2>6. <<first, TotCyc>> \o last # <<>>
    BY <2>4, <2>5
  <2>7. RateEvents(mode, event) = <<first, TotCyc>> \o last
    BY <1>3 DEF RateEvents, EpcEvents, EpcPair, first, last
  <2> QED
    BY <2>4, <2>6, <2>7
<1> QED
  BY <1>2, <1>3 DEF RateModes

LEMMA RateRequestsType ==
  ASSUME NEW s, NEW mode \in RateModes, NEW event \in Codes \cup {NoEvent},
         NEW evs \in RateRequests(s, mode, event)
  PROVE  evs \in Seq(Codes) /\ evs # <<>>
<1>1. CASE evs = RateEvents(mode, event)
  BY <1>1, RateEventsType
<1>2. CASE evs = EpcPair(event)
  <2> DEFINE first == IF event = NoEvent THEN TotIns ELSE event
  <2>1. first \in Codes /\ TotCyc \in Codes
    BY PresetsAssumption
  <2> HIDE DEF first
  <2>2. <<first, TotCyc>> \in Seq(Codes) /\ <<first, TotCyc>> # <<>>
    BY <2>1
  <2> QED
    BY <1>2, <2>2 DEF EpcPair, first
<1> QED
  BY <1>1, <1>2 DEF RateRequests

LEMMA WorkDoneFacts ==
  ASSUME NEW s \in Library
  PROVE  /\ WorkDone(s) \in Library
         /\ WorkDone(s).running = s.running /\ WorkDone(s).numEvts = s.numEvts
         /\ WorkDone(s).totalIns = s.totalIns
         /\ WorkDone(s).age = IF s.running \in RateModes THEN s.age + 1 ELSE s.age
         /\ WorkDone(s).es = Work(s.es)
<1>1. Work(s.es) \in EventSets
  BY WorkFacts DEF Library
<1> DEFINE a == IF s.running \in RateModes THEN s.age + 1 ELSE s.age
<1>2. a \in Nat
  BY DEF Library
<1>3. WorkDone(s) = [s EXCEPT !.es = Work(s.es), !.age = a]
  BY DEF WorkDone
<1> HIDE DEF a
<1>4. /\ WorkDone(s) \in Library
      /\ WorkDone(s).running = s.running /\ WorkDone(s).numEvts = s.numEvts
      /\ WorkDone(s).totalIns = s.totalIns
      /\ WorkDone(s).age = a /\ WorkDone(s).es = Work(s.es)
  BY <1>1, <1>2, <1>3 DEF Library
<1> QED
  BY <1>4 DEF a
=============================================================================
