----------------------------- MODULE SessionProofs --------------------------
(***************************************************************************)
(* Theorems about R sessions, for every platform, every kind of fault and  *)
(* every nesting of the profilers: what a call of system.event returns is  *)
(* always the work of its own expression.                                  *)
(***************************************************************************)
EXTENDS Session, GlueProofs

-----------------------------------------------------------------------------
(***************************************************************************)
(* The inductive invariant.                                                *)
(***************************************************************************)

(* The number of entries in the result of f. *)
ResultLength(f) == CASE f.fn = "event" -> Len(Unique(f.evs))
                     [] f.fn = "EPC"   -> 4
                     [] f.fn \in {"FLIP", "FLOP", "IPC"} -> 1

(* The burn-in of f is done: its result has an entry for each entry of f's *)
(* own result; for system.event each is the work of a profiler.            *)
BurntIn(f) ==
  /\ Len(f.b) = ResultLength(f)
  /\ f.fn = "event" => \A i \in 1 .. Len(f.b) : f.b[i].n = 1

FrameOK(f) ==
  /\ f.fn = "EPC" => f.evs # <<>>
  /\ f.fn = "EPC" /\ f.pc \in {"eval", "stop"} => f.evs[1] \in Codes
  /\ f.pc \notin {"eval", "stop"} => f.mine = 0
  /\ f.pc = "burnin" => f.burnin
  /\ f.null => ~f.burnin /\ f.mine = 0
  /\ f.burnin /\ f.pc \in {"eval", "stop"} => BurntIn(f)

FramesOK(st) == \A i \in 1 .. Len(st) : FrameOK(st[i])

(* Only the innermost call is at work: the others wait for the value of    *)
(* their expression, or for their burn-in.                                 *)
Waits(st) ==
  \A i \in 1 .. Len(st) - 1 :
    \/ st[i].pc = "eval"
    \/ /\ st[i].pc = "start" /\ st[i].burnin /\ i + 1 = Len(st)
       /\ st[i + 1].null /\ st[i + 1].fn = st[i].fn /\ st[i + 1].evs = st[i].evs

NullsOnTop(st) ==
  \A i \in 1 .. Len(st) :
    st[i].null => i = Len(st) /\ i > 1 /\ st[i - 1].pc = "start"

Measures(f) == f.fn = "event" /\ f.pc \in {"eval", "stop"}

(* A call of system.event that measures has the counters: they count its   *)
(* events since it started them, and no call made from its expression has  *)
(* got past its start.                                                     *)
Serves(s, st) ==
  \A i \in 1 .. Len(st) :
    Measures(st[i]) =>
      /\ s.running = "START"
      /\ s.es.events = Unique(st[i].evs)
      /\ s.es.count = st[i].mine + 1
      /\ \A j \in i + 1 .. Len(st) : st[j].pc \in {"probe", "burnin", "start"}

(* The probe has flushed the event set, and the burn-in is done. *)
Prepared(s, st) ==
  st # <<>> =>
    /\ st[Len(st)].fn = "event" /\ st[Len(st)].pc \in {"burnin", "start"} =>
         s.running = "STOP" /\ Quiet(s)
    /\ st[Len(st)].burnin /\ st[Len(st)].pc = "start" => BurntIn(st[Len(st)])

Nested(s, st) ==
  /\ FramesOK(st)
  /\ Waits(st)
  /\ NullsOnTop(st)
  /\ Serves(s, st)

StackInv(s, st) == Nested(s, st) /\ Prepared(s, st)

IInv == TypeOK /\ Measured(hl) /\ StackInv(hl, stack)

-----------------------------------------------------------------------------
(***************************************************************************)
(* The results of the calls.                                               *)
(***************************************************************************)

Entries == [name : ResultNames, code : Codes \cup {NoEvent, "rate"}, n : Nat]

LEMMA NamedValuesType ==
  ASSUME NEW evs \in Seq(Names), Known(evs), NEW values \in Values
  PROVE  /\ NamedValues(Unique(evs), values) \in Results
         /\ Len(NamedValues(Unique(evs), values)) = Len(Unique(evs))
<1> DEFINE E == [name : Codes, code : Codes \cup {NoEvent}, n : Nat]
<1>1. Unique(evs) \in Seq(Codes)
  BY KnownUnique
<1>2. NamedValues(Unique(evs), values) \in Seq(E)
  BY <1>1, NamedValuesFacts
<1>3. E \subseteq Entries
  BY NamesAssumption DEF Entries, ResultNames
<1>4. NamedValues(Unique(evs), values) \in Seq(Entries)
  <2> HIDE DEF E
  <2> QED
    BY <1>2, <1>3, SeqMonotonic
<1> QED
  BY <1>1, <1>4, NamedValuesFacts DEF Results, Entries

LEMMA RateListType ==
  ASSUME NEW mode \in RateModes, NEW r \in LibraryReplies
  PROVE  /\ RateList(mode, r) \in Results
         /\ Len(RateList(mode, r)) = IF mode = "EPC" THEN 4 ELSE 1
<1> DEFINE v(i) == ValueAt(r.values, i)
<1>1. ASSUME NEW i \in {1, 2, 3}
      PROVE  v(i).code \in Codes \cup {NoEvent} /\ v(i).n \in Nat
  <2>1. r.values \in Seq([code : Codes, n : Nat])
    BY DEF LibraryReplies, Values
  <2>2. CASE i <= Len(r.values)
    <3>1. i \in 1 .. Len(r.values)
      BY <2>1, <2>2, LenProperties
    <3>2. r.values[i] \in [code : Codes, n : Nat]
      BY <2>1, <3>1, ElementOfSeq
    <3> QED
      BY <2>2, <3>2 DEF ValueAt
  <2>3. CASE ~(i <= Len(r.values))
    BY <2>3 DEF ValueAt
  <2> QED
    BY <2>2, <2>3
<1>2. r.ins \in Nat
  BY DEF LibraryReplies
<1> DEFINE e(name) == [name |-> name, code |-> v(1).code, n |-> r.ins]
           core    == [name |-> "core", code |-> "rate", n |-> 0]
           evt     == [name |-> "evt", code |-> v(3).code, n |-> v(3).n]
           epc     == [name |-> "epc", code |-> v(2).code, n |-> v(2).n]
<1>3. /\ \A name \in {"flpins", "flpops", "ins", "ref"} : e(name) \in Entries
      /\ core \in Entries /\ evt \in Entries /\ epc \in Entries
  <2> HIDE DEF v
  <2> QED
    BY <1>1, <1>2 DEF Entries, ResultNames
<1>4. /\ mode = "FLIP" => RateList(mode, r) = <<e("flpins")>>
      /\ mode = "FLOP" => RateList(mode, r) = <<e("flpops")>>
      /\ mode = "IPC"  => RateList(mode, r) = <<e("ins")>>
      /\ mode = "EPC"  => RateList(mode, r) = <<e("ref"), core, evt, epc>>
  BY DEF RateList
<1> HIDE DEF e, core, evt, epc
<1>5. CASE mode # "EPC"
  <2>1. PICK name \in {"flpins", "flpops", "ins"} : RateList(mode, r) = <<e(name)>>
    BY <1>4, <1>5 DEF RateModes
  <2>2. e(name) \in Entries
    BY <1>3
  <2> HIDE DEF Entries
  <2> QED
    BY <1>5, <2>1, <2>2 DEF Results, Entries
<1>6. CASE mode = "EPC"
  <2>1. e("ref") \in Entries /\ core \in Entries /\ evt \in Entries /\ epc \in Entries
    BY <1>3
  <2>2. RateList(mode, r) = <<e("ref"), core, evt, epc>>
    BY <1>4, <1>6
  <2>3. Results = Seq(Entries)
    BY DEF Results, Entries
  <2> HIDE DEF Entries
  <2>4. <<e("ref"), core, evt, epc>> \in Seq(Entries)
        /\ Len(<<e("ref"), core, evt, epc>>) = 4
    BY <2>1
  <2> QED
    BY <1>6, <2>2, <2>3, <2>4
<1> QED
  BY <1>5, <1>6

(* The correction keeps the entries and their order. *)
LEMMA CorrectedFacts ==
  ASSUME NEW values \in Results, NEW b \in Results, Len(b) = Len(values)
  PROVE  /\ Corrected(values, b) \in Results
         /\ Len(Corrected(values, b)) = Len(values)
<1> DEFINE c(i) == [values[i] EXCEPT !.n = IF values[i].n > b[i].n
                                             THEN values[i].n - b[i].n ELSE 0]
<1>1. Len(values) \in Nat /\ values \in Seq(Entries) /\ b \in Seq(Entries)
  BY LenProperties DEF Results, Entries
<1>2. ASSUME NEW i \in 1 .. Len(values) PROVE c(i) \in Entries
  <2>1. values[i] \in Entries /\ b[i] \in Entries
    BY <1>1, ElementOfSeq
  <2> QED
    BY <2>1 DEF Entries
<1>3. Corrected(values, b) = [i \in 1 .. Len(values) |-> c(i)]
  BY DEF Corrected
<1> HIDE DEF c
<1>4. Corrected(values, b) \in [1 .. Len(values) -> Entries]
  BY <1>2, <1>3
<1>5. Corrected(values, b) \in Seq(Entries)
  BY <1>1, <1>4, SeqDef
<1>6. Len(Corrected(values, b)) = Len(values)
  BY <1>1, <1>4, <1>5, LenProperties
<1> QED
  BY <1>5, <1>6 DEF Results, Entries

LEMMA FrameFields ==
  ASSUME NEW f \in Frames
  PROVE  /\ f.fn \in {"event"} \cup RateModes /\ f.evs \in Seq(Names)
         /\ f.burnin \in BOOLEAN /\ f.null \in BOOLEAN
         /\ f.pc \in {"probe", "unprobe", "burnin", "start", "eval", "stop"}
         /\ f.b \in Results /\ f.err \in {"none", "error", "other"} /\ f.mine \in Nat
         /\ f.fn # "event" => f.fn \in RateModes
BY DEF Frames

LEMMA RateEventType ==
  ASSUME NEW f \in Frames, f.fn = "EPC" => f.evs[1] \in Codes
  PROVE  RateEvent(f) \in Codes \cup {NoEvent}
BY DEF RateEvent

(* What papi.avail.lookup lets through. *)
LEMMA AvailableEpc ==
  ASSUME NEW f \in Frames, FrameOK(f), Available(LookedUp(f)), f.fn = "EPC"
  PROVE  f.evs[1] \in Codes
<1>1. f.evs \in Seq(Names) /\ f.evs # <<>>
  BY DEF Frames, FrameOK
<1>2. Len(f.evs) \in Nat /\ Len(f.evs) # 0
  BY <1>1, EmptySeq
<1>3. 1 \in 1 .. Len(f.evs)
  BY <1>2
<1>4. LookedUp(f) = f.evs
  BY DEF LookedUp
<1>5. f.evs[1] \in Countable
  BY <1>3, <1>4 DEF Available
<1> QED
  BY <1>5, CodesAssumption

LEMMA BeginsFacts ==
  ASSUME hl \in Library, Measured(hl), NEW f \in Frames,
         f.fn = "EPC" => f.evs[1] \in Codes, NEW o \in Begins(f)
  PROVE  /\ o.hl \in Library /\ Measured(o.hl)
         /\ hl.running = "START" => ~o.ok /\ o.hl.running = hl.running /\ o.hl.es = hl.es
         /\ f.fn = "event" /\ o.ok =>
              /\ hl.running = "STOP" /\ o.hl.running = "START" /\ o.hl.es.count = 0
              /\ o.hl.es.events = hl.es.events \o Unique(f.evs)
<1>1. f.evs \in Seq(Names)
  BY FrameFields
<1>2. CASE f.fn = "event"
  <2> DEFINE evs == f.evs
  <2>1. evs \in Seq(Names) /\ o \in PapiStart(hl, evs)
    BY <1>1, <1>2 DEF Begins
  <2> HIDE DEF evs
  <2>2. /\ o.hl \in Library /\ Measured(o.hl)
        /\ hl.running # "STOP" => ~o.ok /\ o.hl.running = hl.running /\ o.hl.es = hl.es
    BY <2>1, PapiStartFacts
  <2>3. o.ok => /\ hl.running = "STOP" /\ o.hl.running = "START" /\ o.hl.es.count = 0
                /\ o.hl.es.events = hl.es.events \o Unique(evs)
    BY <2>1, PapiStartFacts
  <2> QED
    BY <1>2, <2>2, <2>3 DEF evs
<1>3. CASE f.fn # "event"
  <2>1. o \in RateOn(hl, f.fn, RateEvent(f))
    BY <1>3 DEF Begins
  <2>2. f.fn \in RateModes /\ f.fn # "START"
    BY <1>3, FrameFields DEF RateModes
  <2>3. RateEvent(f) \in Codes \cup {NoEvent}
    BY RateEventType
  <2>4. o.hl \in Library /\ Measured(o.hl)
    BY <2>1, <2>2, <2>3, RateOnFacts
  <2>5. hl.running # "STOP" /\ hl.running # f.fn =>
          ~o.ok /\ o.hl.running = hl.running /\ o.hl.es = hl.es
    BY <2>1, <2>2, <2>3, RateOnFacts
  <2> QED
    BY <1>3, <2>2, <2>4, <2>5
<1> QED
  BY <1>2, <1>3

LEMMA EndsFacts ==
  ASSUME hl \in Library, Measured(hl), NEW f \in Frames,
         f.fn = "EPC" => f.evs[1] \in Codes, NEW o \in Ends(f)
  PROVE  /\ o.hl \in Library /\ Measured(o.hl)
         /\ o.ok => o.values \in Results /\ Len(o.values) = ResultLength(f)
         /\ f.fn = "event" /\ o.ok =>
              /\ o.hl.running = "STOP" /\ Quiet(o.hl)
              /\ hl.running = "START" =>
                   o.values = NamedValues(Unique(f.evs), Reading(hl.es))
<1>1. f.evs \in Seq(Names)
  BY FrameFields
<1>2. CASE f.fn = "event"
  <2>1. o \in PapiStop(hl, f.evs)
    BY <1>2 DEF Ends
  <2>2. o.hl \in Library /\ Measured(o.hl)
    BY <1>1, <2>1, PapiStopFacts
  <2> DEFINE v == IF hl.running = "START" THEN Reading(hl.es) ELSE <<>>
  <2>3. o.ok => /\ Known(f.evs) /\ o.hl.running = "STOP" /\ Quiet(o.hl)
                /\ o.values = NamedValues(Unique(f.evs), v)
    BY <1>1, <2>1, PapiStopFacts
  <2>4. v \in Values
    BY EmptyValues, ReadingType DEF Library
  <2>5. ResultLength(f) = Len(Unique(f.evs))
    BY <1>2 DEF ResultLength
  <2>6. o.ok => o.values \in Results /\ Len(o.values) = ResultLength(f)
    <3> HIDE DEF v
    <3> QED
      BY <1>1, <2>3, <2>4, <2>5, NamedValuesType
  <2> QED
    BY <1>2, <2>2, <2>3, <2>6
<1>3. CASE f.fn # "event"
  <2>1. o \in RateOff(hl, f.fn, RateEvent(f))
    BY <1>3 DEF Ends
  <2>2. f.fn \in RateModes
    BY <1>3, FrameFields
  <2>3. RateEvent(f) \in Codes \cup {NoEvent}
    BY RateEventType
  <2>4. o.hl \in Library /\ Measured(o.hl)
    BY <2>1, <2>2, <2>3, RateOffFacts
  <2>5. o.ok => \E r \in LibraryReplies : o.values = RateList(f.fn, r)
    BY <2>1, <2>2, <2>3, RateOffFacts
  <2>6. ResultLength(f) = IF f.fn = "EPC" THEN 4 ELSE 1
    BY <1>3, <2>2 DEF ResultLength, RateModes
  <2> QED
    BY <1>3, <2>2, <2>4, <2>5, <2>6, RateListType
<1> QED
  BY <1>2, <1>3

-----------------------------------------------------------------------------
(***************************************************************************)
(* The stack.                                                              *)
(***************************************************************************)

LEMMA TopFacts ==
  ASSUME NEW st \in Seq(Frames)
  PROVE  /\ Len(st) \in Nat
         /\ st # <<>> => Len(st) \in Nat \ {0} /\ Len(st) \in 1 .. Len(st)
                         /\ st[Len(st)] \in Frames
         /\ st = <<>> => Len(st) = 0
         /\ \A i \in 1 .. Len(st) : st[i] \in Frames
<1>1. Len(st) \in Nat /\ \A i \in 1 .. Len(st) : st[i] \in Frames
  BY LenProperties, ElementOfSeq
<1>2. st # <<>> => Len(st) # 0
  BY EmptySeq
<1>3. st = <<>> => Len(st) = 0
  BY EmptySeq
<1> QED
  BY <1>1, <1>2, <1>3

LEMMA BelowFacts ==
  ASSUME NEW st \in Seq(Frames), NEW k \in 0 .. Len(st)
  PROVE  /\ SubSeq(st, 1, k) \in Seq(Frames)
         /\ Len(SubSeq(st, 1, k)) = k
         /\ \A i \in 1 .. k : SubSeq(st, 1, k)[i] = st[i]
<1>1. Len(st) \in Nat /\ \A i \in 1 .. k : st[i] \in Frames
  BY TopFacts
<1> QED
  BY <1>1, SubSeqProperties

(* f, and in g the top call of st, gone on to pc. *)
GoneTo(f, pc)    == [f EXCEPT !.pc = pc]
Moved(st, pc, g) == g = [st EXCEPT ![Len(st)].pc = pc]

LEMMA GotoFacts ==
  ASSUME NEW st \in Seq(Frames), st # <<>>,
         NEW pc \in {"probe", "unprobe", "burnin", "start", "eval", "stop"},
         NEW g, Moved(st, pc, g)
  PROVE  /\ g \in Seq(Frames)
         /\ Len(g) = Len(st)
         /\ \A i \in 1 .. Len(st) - 1 : g[i] = st[i]
         /\ g[Len(st)] = GoneTo(st[Len(st)], pc)
<1>1. Len(st) \in 1 .. Len(st) /\ st[Len(st)] \in Frames /\ Len(st) \in Nat
  BY TopFacts
<1> DEFINE f == [st[Len(st)] EXCEPT !.pc = pc]
<1>2. f \in Frames
  BY <1>1 DEF Frames
<1>3. g = [st EXCEPT ![Len(st)] = f]
  BY DEF Moved
<1> HIDE DEF f, GoneTo
<1>4. g \in Seq(Frames) /\ Len(g) = Len(st)
      /\ \A j \in 1 .. Len(st) : g[j] = IF j = Len(st) THEN f ELSE st[j]
  BY <1>1, <1>2, <1>3, ExceptSeq
<1>5. g[Len(st)] = f
  BY <1>1, <1>4
<1> QED
  BY <1>1, <1>4, <1>5 DEF f, GoneTo

LEMMA ChargedFacts ==
  ASSUME NEW st \in Seq(Frames)
  PROVE  /\ Charged(st) \in Seq(Frames)
         /\ Len(Charged(st)) = Len(st)
         /\ \A i \in 1 .. Len(st) :
              Charged(st)[i] = IF st[i].pc = "eval"
                                 THEN [st[i] EXCEPT !.mine = st[i].mine + 1] ELSE st[i]
<1> DEFINE c(i) == IF st[i].pc = "eval" THEN [st[i] EXCEPT !.mine = @ + 1] ELSE st[i]
<1>1. Len(st) \in Nat /\ \A i \in 1 .. Len(st) : st[i] \in Frames
  BY TopFacts
<1>2. ASSUME NEW i \in 1 .. Len(st) PROVE c(i) \in Frames
  <2>1. st[i] \in Frames
    BY <1>1
  <2> DEFINE m == st[i].mine + 1
  <2>2. m \in Nat
    BY <2>1, FrameFields
  <2>3. [st[i] EXCEPT !.mine = m] \in Frames
    <3> HIDE DEF m
    <3> QED
      BY <2>1, <2>2 DEF Frames
  <2> QED
    BY <2>1, <2>3
<1>3. Charged(st) = [i \in 1 .. Len(st) |-> c(i)]
  BY DEF Charged
<1>4. \A i \in 1 .. Len(st) : Charged(st)[i] = c(i)
  BY <1>3
<1> HIDE DEF c
<1>5. Charged(st) \in [1 .. Len(st) -> Frames]
  BY <1>2, <1>3
<1>6. Charged(st) \in Seq(Frames)
  BY <1>1, <1>5, SeqDef
<1>7. Len(Charged(st)) = Len(st)
  BY <1>1, <1>5, <1>6, LenProperties
<1> QED
  BY <1>4, <1>6, <1>7 DEF c

(* An error or an interrupt leaves the calls up to the k-th, the one that  *)
(* catches it, whose expression was being evaluated.                       *)
Unwound(frames, kind, k, st) ==
  /\ st \in Seq(Frames) /\ Len(st) = k
  /\ \A i \in 1 .. k - 1 : st[i] = frames[i]
  /\ k > 0 =>
       /\ frames[k].pc = "eval" /\ kind # "interrupt"
       /\ \/ st[k] = frames[k] /\ ~frames[k].null
          \/ /\ frames[k].fn = "event"
             /\ st[k] = [frames[k] EXCEPT !.pc = "stop", !.err = kind]
  /\ \A i \in k + 1 .. Len(frames) : ~TryCatches(frames[i], kind)

LEMMA ThrowFacts ==
  ASSUME NEW frames \in Seq(Frames), NEW kind \in {"error", "other", "interrupt"},
         Throw(kind, frames)
  PROVE  \E k \in 0 .. Len(frames) : Unwound(frames, kind, k, stack')
<1>1. PICK k \in 0 .. Len(frames) :
        /\ \A i \in k + 1 .. Len(frames) : ~TryCatches(frames[i], kind)
        /\ \/ k = 0 /\ stack' = <<>>
           \/ k > 0 /\ UserCatches(frames[k], kind) /\ stack' = SubSeq(frames, 1, k)
           \/ /\ k > 0 /\ TryCatches(frames[k], kind)
              /\ stack' = [SubSeq(frames, 1, k) EXCEPT ![k].pc = "stop", ![k].err = kind]
  BY DEF Throw
<1> DEFINE s == SubSeq(frames, 1, k)
<1>2. /\ s \in Seq(Frames)
      /\ Len(s) = k
      /\ \A i \in 1 .. k : s[i] = frames[i]
  BY BelowFacts
<1>k. k \in Nat /\ Len(frames) \in Nat /\ k <= Len(frames)
  BY TopFacts
<1> SUFFICES Unwound(frames, kind, k, stack')
  OBVIOUS
<1>u. \/ k = 0 /\ stack' = <<>>
      \/ k > 0 /\ UserCatches(frames[k], kind) /\ stack' = s
      \/ /\ k > 0 /\ TryCatches(frames[k], kind)
         /\ stack' = [s EXCEPT ![k].pc = "stop", ![k].err = kind]
  BY <1>1
<1> HIDE DEF s
<1>3. CASE k = 0 /\ stack' = <<>>
  <2>1. stack' \in Seq(Frames) /\ Len(stack') = 0
    BY <1>3, EmptySeq
  <2> QED
    BY <1>1, <1>3, <2>1 DEF Unwound
<1>4. CASE k > 0 /\ UserCatches(frames[k], kind) /\ stack' = s
  <2>1. frames[k].pc = "eval" /\ kind # "interrupt" /\ ~frames[k].null
    BY <1>4 DEF UserCatches
  <2>2. s[k] = frames[k] /\ \A i \in 1 .. k - 1 : s[i] = frames[i]
    BY <1>k, <1>2, <1>4
  <2>3. stack' = s
    BY <1>4
  <2> QED
    BY <1>1, <1>2, <2>1, <2>2, <2>3 DEF Unwound
<1>5. CASE /\ k > 0 /\ TryCatches(frames[k], kind)
           /\ stack' = [s EXCEPT ![k].pc = "stop", ![k].err = kind]
  <2> DEFINE f == [frames[k] EXCEPT !.pc = "stop", !.err = kind]
  <2>1. frames[k].pc = "eval" /\ kind # "interrupt" /\ frames[k].fn = "event"
    BY <1>5 DEF TryCatches
  <2>2. k \in 1 .. Len(s) /\ frames[k] \in Frames /\ s[k] = frames[k]
    BY <1>k, <1>2, <1>5, TopFacts
  <2>3. f \in Frames
    BY <2>1, <2>2 DEF Frames
  <2>4. stack' = [s EXCEPT ![k] = f]
    BY <1>2, <1>5, <2>2
  <2> HIDE DEF f
  <2>5. stack' \in Seq(Frames) /\ Len(stack') = Len(s)
        /\ \A j \in 1 .. Len(s) : stack'[j] = IF j = k THEN f ELSE s[j]
    BY <1>2, <2>2, <2>3, <2>4, ExceptSeq
  <2>6. Len(stack') = k /\ stack'[k] = f /\ \A i \in 1 .. k - 1 : stack'[i] = frames[i]
    BY <1>k, <1>2, <2>2, <2>5
  <2> QED
    BY <1>1, <2>1, <2>5, <2>6 DEF f, Unwound
<1> QED
  BY <1>u, <1>3, <1>4, <1>5

-----------------------------------------------------------------------------
(***************************************************************************)
(* How the invariant of the stack follows the calls.                       *)
(***************************************************************************)

(* f and g are the same call, which has got further. *)
SameCall(f, g) ==
  /\ g.fn = f.fn /\ g.evs = f.evs /\ g.burnin = f.burnin
  /\ g.null = f.null /\ g.b = f.b

LEMMA FrameAdvances ==
  ASSUME NEW f \in Frames, NEW g \in Frames, FrameOK(f), SameCall(f, g),
         f.pc \in {"eval", "stop"}, g.pc \in {"eval", "stop"}, f.null => g.mine = 0
  PROVE  FrameOK(g)
BY DEF FrameOK, SameCall, BurntIn, ResultLength

LEMMA FrameStarts ==
  ASSUME NEW f \in Frames, NEW g \in Frames, FrameOK(f), SameCall(f, g),
         f.pc \notin {"eval", "stop"}, g.pc \notin {"eval", "stop"},
         g.mine = f.mine, g.pc = "burnin" => f.burnin
  PROVE  FrameOK(g)
BY DEF FrameOK, SameCall

(* The outer calls of st; all of them unless the top one is a burn-in. *)
Outer(st, frames) ==
  /\ frames \in Seq(Frames) /\ Len(frames) <= Len(st)
  /\ \A i \in 1 .. Len(frames) : frames[i] = st[i]
  /\ Len(frames) = Len(st) => st = <<>> \/ ~st[Len(st)].null

(* The library changes at most if no call measures. *)
Spares(s, t, frames) ==
  \/ t.running = s.running /\ t.es = s.es
  \/ \A i \in 1 .. Len(frames) : ~Measures(frames[i])

(* Unwinding: the calls that remain, t being the library then. *)
LEMMA UnwoundKeeps ==
  ASSUME NEW s, NEW t, NEW st \in Seq(Frames), StackInv(s, st),
         NEW frames, Outer(st, frames), Spares(s, t, frames),
         NEW kind \in {"error", "other", "interrupt"},
         NEW k \in 0 .. Len(frames), NEW st2, Unwound(frames, kind, k, st2)
  PROVE  StackInv(t, st2) /\ st2 \in Seq(Frames)
<1>a. /\ frames \in Seq(Frames) /\ Len(frames) <= Len(st)
      /\ \A i \in 1 .. Len(frames) : frames[i] = st[i]
      /\ Len(frames) = Len(st) => st = <<>> \/ ~st[Len(st)].null
  BY DEF Outer
<1>b. \/ t.running = s.running /\ t.es = s.es
      \/ \A i \in 1 .. Len(frames) : ~Measures(st[i])
  BY <1>a DEF Spares
<1> USE <1>a, <1>b
<1>1. /\ Len(st) \in Nat /\ Len(frames) \in Nat /\ k \in Nat
      /\ k <= Len(frames) /\ k <= Len(st)
      /\ \A i \in 1 .. Len(st) : st[i] \in Frames
  BY TopFacts
<1>2. /\ st2 \in Seq(Frames) /\ Len(st2) = k
      /\ \A i \in 1 .. k - 1 : st2[i] = st[i]
  BY <1>1 DEF Unwound
<1>3. k > 0 => /\ st[k].pc = "eval" /\ st2[k] \in Frames
               /\ SameCall(st[k], st2[k]) /\ st2[k].mine = st[k].mine
               /\ st2[k].pc \in {"eval", "stop"} /\ ~st2[k].null
  <2> SUFFICES ASSUME k > 0
               PROVE  /\ st[k].pc = "eval" /\ st2[k] \in Frames
                      /\ SameCall(st[k], st2[k]) /\ st2[k].mine = st[k].mine
                      /\ st2[k].pc \in {"eval", "stop"} /\ ~st2[k].null
    OBVIOUS
  <2>1. /\ frames[k] = st[k] /\ st[k] \in Frames
        /\ st[k].pc = "eval"
        /\ \/ st2[k] = st[k] /\ ~st[k].null
           \/ st[k].fn = "event" /\ st2[k] = [st[k] EXCEPT !.pc = "stop", !.err = kind]
    <3>1. k \in 1 .. Len(frames) /\ k \in 1 .. Len(st) /\ k > 0
      BY <1>1
    <3>2. frames[k] = st[k] /\ st[k] \in Frames
      BY <1>1, <3>1
    <3>3. /\ frames[k].pc = "eval"
          /\ \/ st2[k] = frames[k] /\ ~frames[k].null
             \/ /\ frames[k].fn = "event"
                /\ st2[k] = [frames[k] EXCEPT !.pc = "stop", !.err = kind]
      BY <3>1 DEF Unwound
    <3> QED
      BY <3>2, <3>3
  <2>2. ~st[k].null
    <3>1. st[k].null => k = Len(st)
      BY <1>1 DEF StackInv, Nested, NullsOnTop
    <3>2. k = Len(st) => st # <<>> /\ Len(frames) = Len(st)
      BY <1>1, TopFacts
    <3> QED
      BY <3>1, <3>2
  <2>3. st2[k] \in Frames
    BY <1>1, <1>2, TopFacts
  <2> QED
    BY <2>1, <2>2, <2>3 DEF SameCall, Frames
<1>4. FramesOK(st2)
  <2> SUFFICES ASSUME NEW i \in 1 .. k PROVE FrameOK(st2[i])
    BY <1>2 DEF FramesOK
  <2>1. FrameOK(st[i]) /\ st[i] \in Frames
    BY <1>1 DEF StackInv, Nested, FramesOK
  <2>2. CASE i < k
    BY <1>1, <1>2, <2>1, <2>2
  <2>3. CASE i = k
    <3>1. st[k].null => st2[k].mine = 0
      BY <1>1, <1>3, <2>1, <2>3 DEF FrameOK
    <3> QED
      BY <1>1, <1>3, <2>1, <2>3, <3>1, FrameAdvances
  <2> QED
    BY <1>1, <2>2, <2>3
<1>5. Waits(st2)
  <2> SUFFICES ASSUME NEW i \in 1 .. k - 1 PROVE st2[i].pc = "eval"
    BY <1>2 DEF Waits
  <2>1. i \in 1 .. Len(st) - 1 /\ i + 1 \in 1 .. Len(st) /\ st2[i] = st[i] /\ k > 0
    BY <1>1, <1>2
  <2>2. CASE st[i].pc = "eval"
    BY <2>1, <2>2
  <2>3. CASE i + 1 = Len(st) /\ st[i + 1].null
    <3>1. k = Len(st)
      BY <1>1, <2>3
    <3>2. st[k].null
      BY <2>3, <3>1
    <3> QED
      BY <1>3, <2>1, <3>2 DEF SameCall
  <2> QED
    BY <2>1, <2>2, <2>3 DEF StackInv, Nested, Waits
<1>6. NullsOnTop(st2)
  <2> SUFFICES ASSUME NEW i \in 1 .. k PROVE ~st2[i].null
    BY <1>2 DEF NullsOnTop
  <2>1. CASE i < k
    <3>1. st2[i] = st[i] /\ i \in 1 .. Len(st) /\ i # Len(st)
      BY <1>1, <1>2, <2>1
    <3> QED
      BY <3>1 DEF StackInv, Nested, NullsOnTop
  <2>2. CASE i = k
    BY <1>1, <1>3, <2>2
  <2> QED
    BY <1>1, <2>1, <2>2
<1>7. Serves(t, st2)
  <2> SUFFICES ASSUME NEW i \in 1 .. k, Measures(st2[i])
               PROVE  /\ t.running = "START"
                      /\ t.es.events = Unique(st2[i].evs)
                      /\ t.es.count = st2[i].mine + 1
                      /\ \A j \in i + 1 .. k : st2[j].pc \in {"probe", "burnin", "start"}
    BY <1>2 DEF Serves
  <2>1. i \in 1 .. Len(st) /\ i \in 1 .. Len(frames) /\ k > 0
    BY <1>1
  <2>2. CASE i < k
    <3>1. Measures(st[i])
      BY <1>1, <1>2, <2>2
    <3>2. k \in i + 1 .. Len(st)
      BY <1>1, <2>2
    <3>3. st[k].pc \in {"probe", "burnin", "start"}
      BY <2>1, <3>1, <3>2 DEF StackInv, Nested, Serves
    <3> QED
      BY <1>3, <2>1, <3>3
  <2>3. CASE i = k
    <3>1. Measures(st[k]) /\ st2[k].evs = st[k].evs /\ st2[k].mine = st[k].mine
      BY <1>3, <2>1, <2>3 DEF Measures, SameCall
    <3>2. s.running = "START" /\ s.es.events = Unique(st[k].evs) /\ s.es.count = st[k].mine + 1
      BY <2>1, <2>3, <3>1 DEF StackInv, Nested, Serves
    <3>3. t.running = s.running /\ t.es = s.es
      BY <2>1, <2>3, <3>1
    <3>4. \A j \in i + 1 .. k : FALSE
      BY <1>1, <2>3
    <3> QED
      BY <2>3, <3>1, <3>2, <3>3, <3>4
  <2> QED
    BY <1>1, <2>2, <2>3
<1>8. Prepared(t, st2)
  <2>1. st2 # <<>> => st2[Len(st2)].pc \in {"eval", "stop"}
    BY <1>1, <1>2, <1>3, TopFacts
  <2> QED
    BY <2>1 DEF Prepared
<1> QED
  BY <1>2, <1>4, <1>5, <1>6, <1>7, <1>8 DEF StackInv, Nested

(* The calls below the top advance by work at most, the top call goes on:  *)
(* either no other call measures, or the library is the same and the top   *)
(* call has not started.                                                   *)
LEMMA AdvanceKeeps ==
  ASSUME NEW s, NEW t, NEW st \in Seq(Frames), NEW st2 \in Seq(Frames),
         NEW n \in Nat, n # 0, Len(st) = n, Len(st2) = n, Nested(s, st),
         \A i \in 1 .. n : SameCall(st[i], st2[i]),
         \A i \in 1 .. n - 1 :
           /\ st2[i].pc = st[i].pc
           /\ st[i].pc # "eval" => st2[i].mine = st[i].mine
           /\ Measures(st[i]) =>
                /\ t.running = s.running /\ t.es = s.es /\ st2[i].mine = st[i].mine
                /\ st2[n].pc \in {"probe", "burnin", "start"},
         FrameOK(st2[n]),
         Measures(st2[n]) =>
           /\ t.running = "START"
           /\ t.es.events = Unique(st2[n].evs)
           /\ t.es.count = st2[n].mine + 1
  PROVE  Nested(t, st2)
<1>1. \A i \in 1 .. n : st[i] \in Frames /\ st2[i] \in Frames
  BY TopFacts
<1>2. FramesOK(st2)
  <2> SUFFICES ASSUME NEW i \in 1 .. n, i # n PROVE FrameOK(st2[i])
    BY DEF FramesOK
  <2>0. i \in 1 .. n - 1
    OBVIOUS
  <2>1. FrameOK(st[i]) /\ st[i] \in Frames /\ st2[i] \in Frames /\ ~st[i].null
    BY <1>1 DEF Nested, FramesOK, NullsOnTop
  <2>2. SameCall(st[i], st2[i]) /\ st2[i].pc = st[i].pc
        /\ (st[i].pc # "eval" => st2[i].mine = st[i].mine)
    BY <2>0
  <2>3. CASE st[i].pc \in {"eval", "stop"}
    BY <2>1, <2>2, <2>3, FrameAdvances
  <2>4. CASE st[i].pc \notin {"eval", "stop"}
    <3>1. st2[i].pc = "burnin" => st[i].burnin
      BY <2>1, <2>2 DEF FrameOK
    <3> QED
      BY <2>1, <2>2, <2>4, <3>1, FrameStarts
  <2> QED
    BY <2>3, <2>4
<1>3. Waits(st2)
  <2> SUFFICES ASSUME NEW i \in 1 .. n - 1
               PROVE  \/ st2[i].pc = "eval"
                      \/ /\ st2[i].pc = "start" /\ st2[i].burnin /\ i + 1 = n
                         /\ st2[i + 1].null /\ st2[i + 1].fn = st2[i].fn
                         /\ st2[i + 1].evs = st2[i].evs
    BY DEF Waits
  <2>1. i \in 1 .. n /\ i + 1 \in 1 .. n
    OBVIOUS
  <2>2. SameCall(st[i], st2[i]) /\ SameCall(st[i + 1], st2[i + 1]) /\ st2[i].pc = st[i].pc
    BY <2>1
  <2>3. \/ st[i].pc = "eval"
        \/ /\ st[i].pc = "start" /\ st[i].burnin /\ i + 1 = n
           /\ st[i + 1].null /\ st[i + 1].fn = st[i].fn
           /\ st[i + 1].evs = st[i].evs
    BY DEF Nested, Waits
  <2> QED
    BY <2>2, <2>3 DEF SameCall
<1>4. NullsOnTop(st2)
  <2> SUFFICES ASSUME NEW i \in 1 .. n, st2[i].null
               PROVE  i = n /\ i > 1 /\ st2[i - 1].pc = "start"
    BY DEF NullsOnTop
  <2>1. st[i].null
    BY DEF SameCall
  <2>2. i = n /\ i > 1 /\ st[i - 1].pc = "start"
    BY <2>1 DEF Nested, NullsOnTop
  <2>3. i - 1 \in 1 .. n - 1
    BY <2>2
  <2> QED
    BY <2>2, <2>3
<1>5. Serves(t, st2)
  <2> SUFFICES ASSUME NEW i \in 1 .. n, Measures(st2[i])
               PROVE  /\ t.running = "START"
                      /\ t.es.events = Unique(st2[i].evs)
                      /\ t.es.count = st2[i].mine + 1
                      /\ \A j \in i + 1 .. n : st2[j].pc \in {"probe", "burnin", "start"}
    BY DEF Serves
  <2>1. CASE i = n
    <3>1. \A j \in i + 1 .. n : FALSE
      BY <2>1
    <3> QED
      BY <2>1, <3>1
  <2>2. CASE i # n
    <3>1. i \in 1 .. n - 1
      BY <2>2
    <3>2. SameCall(st[i], st2[i]) /\ st2[i].pc = st[i].pc
      BY <3>1
    <3>3. Measures(st[i])
      BY <3>2 DEF Measures, SameCall
    <3>4. /\ t.running = s.running /\ t.es = s.es /\ st2[i].mine = st[i].mine
          /\ st2[n].pc \in {"probe", "burnin", "start"}
      BY <3>1, <3>3
    <3>5. /\ s.running = "START"
          /\ s.es.events = Unique(st[i].evs)
          /\ s.es.count = st[i].mine + 1
          /\ \A j \in i + 1 .. n : st[j].pc \in {"probe", "burnin", "start"}
      BY <3>3 DEF Nested, Serves
    <3>6. ASSUME NEW j \in i + 1 .. n
          PROVE  st2[j].pc \in {"probe", "burnin", "start"}
      <4>1. CASE j = n
        BY <3>4, <4>1
      <4>2. CASE j # n
        <5>1. j \in 1 .. n - 1
          BY <4>2
        <5>2. st2[j].pc = st[j].pc
          BY <5>1
        <5> QED
          BY <3>5, <5>2
      <4> QED
        BY <4>1, <4>2
    <3>7. st2[i].evs = st[i].evs
      BY <3>2 DEF SameCall
    <3> QED
      BY <3>4, <3>5, <3>6, <3>7
  <2> QED
    BY <2>1, <2>2
<1> QED
  BY <1>2, <1>3, <1>4, <1>5 DEF Nested

(* A call is made: from an expression, or as the burn-in of another call.  *)
LEMMA PushKeeps ==
  ASSUME NEW s, NEW st \in Seq(Frames), Nested(s, st), NEW f \in Frames, FrameOK(f),
         f.pc \in {"probe", "burnin", "start"},
         st # <<>> => ~st[Len(st)].null,
         \/ st = <<>> /\ ~f.null
         \/ st # <<>> /\ st[Len(st)].pc = "eval" /\ ~f.null
         \/ /\ st # <<>> /\ st[Len(st)].pc = "start" /\ st[Len(st)].burnin
            /\ f.null /\ f.fn = st[Len(st)].fn /\ f.evs = st[Len(st)].evs
  PROVE  Nested(s, Append(st, f))
<1> DEFINE n   == Len(st)
           st2 == Append(st, f)
<1>1. /\ n \in Nat /\ (st # <<>> <=> n > 0)
      /\ st2 \in Seq(Frames) /\ Len(st2) = n + 1
      /\ \A i \in 1 .. n : st2[i] = st[i]
      /\ st2[n + 1] = f
  BY TopFacts, AppendProperties
<1>2. \A i \in 1 .. n : ~st[i].null
  <2> SUFFICES ASSUME NEW i \in 1 .. n, st[i].null PROVE FALSE
    OBVIOUS
  <2>1. i = n
    BY DEF Nested, NullsOnTop
  <2> QED
    BY <1>1, <2>1
<1>n. \/ n = 0 /\ ~f.null
      \/ n > 0 /\ st[n].pc = "eval" /\ ~f.null
      \/ /\ n > 0 /\ st[n].pc = "start" /\ st[n].burnin
         /\ f.null /\ f.fn = st[n].fn /\ f.evs = st[n].evs
  BY <1>1
<1>o. /\ \A i \in 1 .. n : FrameOK(st[i])
      /\ \A i \in 1 .. n - 1 :
           \/ st[i].pc = "eval"
           \/ i + 1 = n /\ st[i + 1].null
      /\ \A i \in 1 .. n : Measures(st[i]) =>
           /\ s.running = "START"
           /\ s.es.events = Unique(st[i].evs)
           /\ s.es.count = st[i].mine + 1
           /\ \A j \in i + 1 .. n : st[j].pc \in {"probe", "burnin", "start"}
  BY DEF Nested, FramesOK, Waits, Serves
<1> HIDE DEF n, st2
<1>3. FramesOK(st2)
  <2> SUFFICES ASSUME NEW i \in 1 .. n + 1 PROVE FrameOK(st2[i])
    BY <1>1 DEF FramesOK
  <2> QED
    BY <1>1, <1>o
<1>4. Waits(st2)
  <2> SUFFICES ASSUME NEW i \in 1 .. n
               PROVE  \/ st2[i].pc = "eval"
                      \/ /\ st2[i].pc = "start" /\ st2[i].burnin /\ i + 1 = n + 1
                         /\ st2[i + 1].null /\ st2[i + 1].fn = st2[i].fn
                         /\ st2[i + 1].evs = st2[i].evs
    BY <1>1 DEF Waits
  <2>1. CASE i = n
    BY <1>1, <1>n, <2>1
  <2>2. CASE i # n
    <3>1. i \in 1 .. n - 1 /\ i + 1 \in 1 .. n
      BY <1>1, <2>2
    <3>2. st[i].pc = "eval"
      BY <1>2, <1>o, <3>1
    <3> QED
      BY <1>1, <3>2
  <2> QED
    BY <2>1, <2>2
<1>5. NullsOnTop(st2)
  <2> SUFFICES ASSUME NEW i \in 1 .. n + 1, st2[i].null
               PROVE  i = n + 1 /\ i > 1 /\ st2[i - 1].pc = "start"
    BY <1>1 DEF NullsOnTop
  <2>1. i = n + 1
    BY <1>1, <1>2
  <2>2. f.null
    BY <1>1, <2>1
  <2>3. n > 0 /\ st[n].pc = "start"
    BY <1>n, <2>2
  <2>4. n \in 1 .. n /\ i - 1 = n
    BY <1>1, <2>1, <2>3
  <2> QED
    BY <1>1, <2>1, <2>3, <2>4
<1>6. Serves(s, st2)
  <2> SUFFICES ASSUME NEW i \in 1 .. n + 1, Measures(st2[i])
               PROVE  /\ s.running = "START"
                      /\ s.es.events = Unique(st2[i].evs)
                      /\ s.es.count = st2[i].mine + 1
                      /\ \A j \in i + 1 .. n + 1 : st2[j].pc \in {"probe", "burnin", "start"}
    BY <1>1 DEF Serves
  <2>1. i # n + 1
    BY <1>1 DEF Measures
  <2>2. i \in 1 .. n /\ st2[i] = st[i] /\ Measures(st[i])
    BY <1>1, <2>1
  <2>3. ASSUME NEW j \in i + 1 .. n + 1 PROVE st2[j].pc \in {"probe", "burnin", "start"}
    <3>1. CASE j = n + 1
      BY <1>1, <3>1
    <3>2. CASE j # n + 1
      <4>1. j \in i + 1 .. n /\ j \in 1 .. n
        BY <1>1, <2>2, <3>2
      <4> QED
        BY <1>1, <1>o, <2>2, <4>1
    <3> QED
      BY <3>1, <3>2
  <2> QED
    BY <1>o, <2>2, <2>3
<1> QED
  BY <1>3, <1>4, <1>5, <1>6 DEF Nested, st2

(* When call top returns, its caller f goes on as g, with the result if    *)
(* top was the burn-in.                                                    *)
Resumes(top, f, g) ==
  \/ ~top.null /\ g = f
  \/ top.null /\ \E values \in Results : g = [f EXCEPT !.b = values]

(* st2 is what is left when the n-th call, the top one of st, has returned *)
(* and none below it measures.                                             *)
Popped(n, st, st2) ==
  /\ st \in Seq(Frames) /\ st2 \in Seq(Frames)
  /\ n \in Nat /\ n # 0 /\ Len(st) = n /\ Len(st2) = n - 1
  /\ \A i \in 1 .. n - 1 : ~Measures(st[i])
  /\ \A i \in 1 .. n - 2 : st2[i] = st[i]
  /\ n > 1 => Resumes(st[n], st[n - 1], st2[n - 1])

LEMMA PopKeeps ==
  ASSUME NEW s, NEW t, NEW st, NEW st2, NEW n, Nested(s, st), Popped(n, st, st2)
  PROVE  /\ Nested(t, st2)
         /\ n > 1 =>
              /\ ~st[n].null => st2[n - 1].pc = "eval"
              /\ st[n].null =>
                   /\ st2[n - 1].pc = "start" /\ st2[n - 1].burnin
                   /\ st[n].fn = st2[n - 1].fn /\ st[n].evs = st2[n - 1].evs
<1>p. /\ st \in Seq(Frames) /\ st2 \in Seq(Frames)
      /\ n \in Nat /\ n # 0 /\ Len(st) = n /\ Len(st2) = n - 1
      /\ \A i \in 1 .. n - 1 : ~Measures(st[i])
      /\ \A i \in 1 .. n - 2 : st2[i] = st[i]
      /\ n > 1 => Resumes(st[n], st[n - 1], st2[n - 1])
  BY DEF Popped
<1> USE <1>p
<1>1. /\ \A i \in 1 .. n : st[i] \in Frames
      /\ \A i \in 1 .. n - 1 : st2[i] \in Frames
  BY TopFacts
<1>2. \A i \in 1 .. n - 1 : ~st[i].null /\ FrameOK(st[i])
  BY DEF Nested, NullsOnTop, FramesOK
<1>3. \A i \in 1 .. n - 2 : st[i].pc = "eval"
  <2> SUFFICES ASSUME NEW i \in 1 .. n - 2, st[i].pc # "eval" PROVE FALSE
    OBVIOUS
  <2>1. i \in 1 .. n - 1
    OBVIOUS
  <2>2. i + 1 = n
    BY <2>1 DEF Nested, Waits
  <2> QED
    BY <2>2
<1>4. n > 1 => \/ st[n - 1].pc = "eval" /\ ~st[n].null
               \/ /\ st[n - 1].pc = "start" /\ st[n - 1].burnin /\ st[n].null
                  /\ st[n].fn = st[n - 1].fn /\ st[n].evs = st[n - 1].evs
  <2> SUFFICES ASSUME n > 1
               PROVE  \/ st[n - 1].pc = "eval" /\ ~st[n].null
                      \/ /\ st[n - 1].pc = "start" /\ st[n - 1].burnin /\ st[n].null
                         /\ st[n].fn = st[n - 1].fn /\ st[n].evs = st[n - 1].evs
    OBVIOUS
  <2>1. n - 1 \in 1 .. n - 1 /\ n \in 1 .. n /\ (n - 1) + 1 = n
    OBVIOUS
  <2>2. st[n].null => st[n - 1].pc = "start"
    BY <2>1 DEF Nested, NullsOnTop
  <2>3. \/ st[n - 1].pc = "eval"
        \/ /\ st[n - 1].pc = "start" /\ st[n - 1].burnin
           /\ st[(n - 1) + 1].null /\ st[(n - 1) + 1].fn = st[n - 1].fn
           /\ st[(n - 1) + 1].evs = st[n - 1].evs
    BY <2>1 DEF Nested, Waits
  <2> QED
    BY <2>1, <2>2, <2>3
<1>5. n > 1 =>
        /\ st2[n - 1].fn = st[n - 1].fn /\ st2[n - 1].evs = st[n - 1].evs
        /\ st2[n - 1].burnin = st[n - 1].burnin /\ st2[n - 1].null = st[n - 1].null
        /\ st2[n - 1].pc = st[n - 1].pc /\ st2[n - 1].mine = st[n - 1].mine
        /\ ~st[n].null => st2[n - 1] = st[n - 1]
  <2> SUFFICES ASSUME n > 1
               PROVE  /\ st2[n - 1].fn = st[n - 1].fn /\ st2[n - 1].evs = st[n - 1].evs
                      /\ st2[n - 1].burnin = st[n - 1].burnin /\ st2[n - 1].null = st[n - 1].null
                      /\ st2[n - 1].pc = st[n - 1].pc /\ st2[n - 1].mine = st[n - 1].mine
                      /\ ~st[n].null => st2[n - 1] = st[n - 1]
    OBVIOUS
  <2>1. st[n - 1] \in Frames
    BY <1>1
  <2> QED
    BY <2>1 DEF Frames, Resumes
<1>6. FramesOK(st2)
  <2> SUFFICES ASSUME NEW i \in 1 .. n - 1 PROVE FrameOK(st2[i])
    BY DEF FramesOK
  <2>1. CASE i # n - 1
    BY <1>2, <2>1
  <2>2. CASE i = n - 1 /\ st[n - 1].pc = "eval"
    BY <1>2, <1>4, <1>5, <2>2
  <2>3. CASE i = n - 1 /\ st[n - 1].pc = "start"
    BY <1>2, <1>5, <2>3 DEF FrameOK
  <2> QED
    BY <1>4, <2>1, <2>2, <2>3
<1>7. Waits(st2)
  BY <1>3 DEF Waits
<1>8. NullsOnTop(st2)
  <2>1. \A i \in 1 .. n - 1 : ~st2[i].null
    BY <1>2, <1>5
  <2> QED
    BY <2>1 DEF NullsOnTop
<1>9. Serves(t, st2)
  <2>1. \A i \in 1 .. n - 1 : ~Measures(st2[i])
    BY <1>5 DEF Measures
  <2> QED
    BY <2>1 DEF Serves
<1> QED
  BY <1>4, <1>5, <1>6, <1>7, <1>8, <1>9 DEF Nested

-----------------------------------------------------------------------------
(***************************************************************************)
(* The steps.                                                              *)
(***************************************************************************)

LEMMA IInvFacts ==
  ASSUME IInv
  PROVE  /\ hl \in Library /\ Measured(hl) /\ stack \in Seq(Frames)
         /\ Nested(hl, stack) /\ Prepared(hl, stack) /\ Len(stack) \in Nat
         /\ stack # <<>> =>
              /\ Len(stack) # 0 /\ Len(stack) \in 1 .. Len(stack)
              /\ Top = stack[Len(stack)] /\ Top \in Frames /\ FrameOK(Top)
<1>1. hl \in Library /\ Measured(hl) /\ stack \in Seq(Frames)
      /\ Nested(hl, stack) /\ Prepared(hl, stack)
  BY DEF IInv, TypeOK, StackInv
<1>2. stack # <<>> => Len(stack) \in 1 .. Len(stack) /\ stack[Len(stack)] \in Frames
  BY <1>1, TopFacts
<1>3. FramesOK(stack)
  BY <1>1 DEF Nested
<1> QED
  BY <1>1, <1>2, <1>3, TopFacts DEF Top, FramesOK

(* Who measures has the counters. *)
LEMMA Measuring ==
  ASSUME IInv, NEW i \in 1 .. Len(stack), Measures(stack[i])
  PROVE  /\ hl.running = "START"
         /\ hl.es.events = Unique(stack[i].evs)
         /\ hl.es.count = stack[i].mine + 1
         /\ i = Len(stack) \/ Top.pc \in {"probe", "burnin", "start"}
<1>1. Serves(hl, stack) /\ Len(stack) \in Nat
  BY IInvFacts DEF Nested
<1>2. i = Len(stack) \/ Len(stack) \in i + 1 .. Len(stack)
  BY <1>1
<1> QED
  BY <1>1, <1>2 DEF Serves, Top

LEMMA NoResultType ==
  /\ NoResult \in [fn : {"none", "event", "stop"} \cup RateModes, evs : Seq(Names),
                   burnin : BOOLEAN, mine : Nat, values : Results]
  /\ NoResult.fn = "none"
BY DEF NoResult, Results

(* An error or an interrupt, raised in frames: what is left of the stack   *)
(* while the library became t.                                             *)
LEMMA ThrowKeeps ==
  ASSUME IInv, NEW k \in Nat, k <= Len(stack), NEW frames, frames = SubSeq(stack, 1, k),
         k = Len(stack) => stack = <<>> \/ ~Top.null,
         NEW kind \in {"error", "other", "interrupt"}, Throw(kind, frames),
         last' = NoResult, hl' \in Library, Measured(hl'),
         \/ hl'.running = hl.running /\ hl'.es = hl.es
         \/ \A i \in 1 .. k : ~Measures(stack[i])
  PROVE  IInv'
<1>1. /\ stack \in Seq(Frames) /\ StackInv(hl, stack) /\ Len(stack) \in Nat
      /\ k \in 0 .. Len(stack)
  BY IInvFacts DEF StackInv
<1>2. /\ frames \in Seq(Frames) /\ Len(frames) = k
      /\ \A i \in 1 .. k : frames[i] = stack[i]
  BY <1>1, BelowFacts
<1>3. PICK m \in 0 .. Len(frames) : Unwound(frames, kind, m, stack')
  BY <1>2, ThrowFacts
<1>4. Outer(stack, frames)
  BY <1>1, <1>2 DEF Outer, Top
<1>5. Spares(hl, hl', frames)
  BY <1>2 DEF Spares
<1>6. ASSUME NEW st2, Unwound(frames, kind, m, st2)
      PROVE  StackInv(hl', st2) /\ st2 \in Seq(Frames)
  BY <1>1, <1>4, <1>5, <1>6, UnwoundKeeps
<1>7. StackInv(hl', stack') /\ stack' \in Seq(Frames)
  BY <1>3, <1>6
<1> QED
  BY <1>7, NoResultType DEF IInv, TypeOK

(* The same for an error raised by the top call itself. *)
LEMMA FailureKeeps ==
  ASSUME IInv, stack # <<>>, Throw("error", Below),
         last' = NoResult, hl' \in Library, Measured(hl'),
         \/ hl'.running = hl.running /\ hl'.es = hl.es
         \/ \A i \in 1 .. Len(stack) - 1 : ~Measures(stack[i])
  PROVE  IInv'
<1> DEFINE k == Len(stack) - 1
<1>1. k \in Nat /\ k <= Len(stack) /\ k # Len(stack) /\ Below = SubSeq(stack, 1, k)
  BY IInvFacts DEF Below
<1>2. \/ hl'.running = hl.running /\ hl'.es = hl.es
      \/ \A i \in 1 .. k : ~Measures(stack[i])
  OBVIOUS
<1> HIDE DEF k
<1> QED
  BY <1>1, <1>2, ThrowKeeps

LEMMA InitIInv == Init => IInv
<1> SUFFICES ASSUME Init PROVE IInv
  OBVIOUS
<1>1. EmptyEventSet \in EventSets
  BY DEF EmptyEventSet, EventSets
<1>2. InitialLibrary \in Library /\ InitialLibrary.running = "STOP"
  BY <1>1 DEF InitialLibrary, Library, Modes
<1>3. stack = <<>> /\ stack \in Seq(Frames) /\ Len(stack) = 0
  BY EmptySeq DEF Init
<1>4. StackInv(hl, stack)
  BY <1>3 DEF StackInv, Nested, FramesOK, Waits, NullsOnTop, Serves, Prepared
<1> QED
  BY <1>2, <1>3, <1>4, NoResultType DEF Init, IInv, TypeOK, Measured

(* The top call goes on to pc while the library becomes t. *)
LEMMA GotoKeeps ==
  ASSUME IInv, stack # <<>>,
         NEW pc \in {"probe", "unprobe", "burnin", "start", "eval", "stop"},
         NEW t, NEW g, g = Goto(pc),
         \A i \in 1 .. Len(stack) - 1 : Measures(stack[i]) =>
           t.running = hl.running /\ t.es = hl.es /\ pc \in {"probe", "burnin", "start"},
         FrameOK(GoneTo(Top, pc)),
         Top.fn = "event" /\ pc \in {"eval", "stop"} =>
           Measures(Top) /\ t.running = hl.running /\ t.es = hl.es
  PROVE  /\ Nested(t, g) /\ g \in Seq(Frames) /\ Len(g) = Len(stack)
         /\ g[Len(g)] = GoneTo(Top, pc)
<1> DEFINE n == Len(stack)
<1>1. /\ stack \in Seq(Frames) /\ Nested(hl, stack) /\ n \in Nat /\ n # 0
      /\ Top = stack[n] /\ Top \in Frames
  BY IInvFacts
<1>g. Moved(stack, pc, g)
  BY DEF Goto, Moved
<1>2. /\ g \in Seq(Frames) /\ Len(g) = n
      /\ \A i \in 1 .. n - 1 : g[i] = stack[i]
      /\ g[n] = GoneTo(Top, pc)
  BY <1>1, <1>g, GotoFacts
<1>3. SameCall(Top, g[n]) /\ g[n].pc = pc /\ g[n].mine = Top.mine
  BY <1>1, <1>2 DEF SameCall, Frames, GoneTo
<1>4. Measures(g[n]) => t.running = "START" /\ t.es.events = Unique(g[n].evs)
                        /\ t.es.count = g[n].mine + 1
  <2> SUFFICES ASSUME Measures(g[n])
               PROVE  t.running = "START" /\ t.es.events = Unique(g[n].evs)
                      /\ t.es.count = g[n].mine + 1
    OBVIOUS
  <2>1. Measures(Top) /\ t.running = hl.running /\ t.es = hl.es
    BY <1>3 DEF Measures, SameCall
  <2>2. n \in 1 .. Len(stack)
    BY <1>1
  <2>3. hl.running = "START" /\ hl.es.events = Unique(Top.evs) /\ hl.es.count = Top.mine + 1
    BY <1>1, <2>1, <2>2, Measuring
  <2> QED
    BY <1>3, <2>1, <2>3 DEF SameCall
<1>5. \A i \in 1 .. n : SameCall(stack[i], g[i])
  <2> SUFFICES ASSUME NEW i \in 1 .. n PROVE SameCall(stack[i], g[i])
    OBVIOUS
  <2>1. CASE i = n
    BY <1>1, <1>3, <2>1
  <2>2. CASE i # n
    <3>1. i \in 1 .. n - 1
      BY <1>1, <2>2
    <3> QED
      BY <1>2, <3>1 DEF SameCall
  <2> QED
    BY <2>1, <2>2
<1>6. \A i \in 1 .. n - 1 :
        /\ g[i].pc = stack[i].pc
        /\ stack[i].pc # "eval" => g[i].mine = stack[i].mine
        /\ Measures(stack[i]) =>
             /\ t.running = hl.running /\ t.es = hl.es /\ g[i].mine = stack[i].mine
             /\ g[n].pc \in {"probe", "burnin", "start"}
  BY <1>2, <1>3
<1>7. FrameOK(g[n]) /\ Len(stack) = n
  BY <1>2
<1> HIDE DEF n
<1>8. Nested(t, g)
  BY ONLY <1>1, <1>2, <1>4, <1>5, <1>6, <1>7, AdvanceKeeps
<1> QED
  BY <1>2, <1>7, <1>8

LEMMA ProbeStep == IInv /\ Probe => IInv'
<1> SUFFICES ASSUME IInv, Probe PROVE IInv'
  OBVIOUS
<1>1. stack # <<>> /\ Top.pc = "probe"
  BY DEF Probe, At
<1>2. PICK o \in PapiStart(hl, Top.evs) : Proceed(o, "unprobe")
  BY DEF Probe
<1>3. /\ hl \in Library /\ Measured(hl) /\ Top \in Frames /\ FrameOK(Top)
      /\ Top.evs \in Seq(Names)
  BY <1>1, IInvFacts, FrameFields
<1>4. /\ o.hl \in Library /\ Measured(o.hl)
      /\ hl.running # "STOP" => ~o.ok /\ o.hl.running = hl.running /\ o.hl.es = hl.es
  BY <1>2, <1>3, PapiStartFacts
<1>5. hl' = o.hl /\ last' = NoResult
  BY <1>2 DEF Proceed
<1>6. hl.running = "STOP" => \A i \in 1 .. Len(stack) : ~Measures(stack[i])
  BY Measuring
<1>7. CASE ~o.ok /\ Throw("error", Below)
  <2>1. \/ hl'.running = hl.running /\ hl'.es = hl.es
        \/ \A i \in 1 .. Len(stack) - 1 : ~Measures(stack[i])
    BY <1>4, <1>5, <1>6, IInvFacts
  <2> QED
    BY <1>1, <1>4, <1>5, <1>7, <2>1, FailureKeeps
<1>8. CASE o.ok /\ stack' = Goto("unprobe")
  <2>1. \A i \in 1 .. Len(stack) - 1 : ~Measures(stack[i])
    BY <1>4, <1>6, <1>8, IInvFacts
  <2> DEFINE f == GoneTo(Top, "unprobe")
  <2>f. f \in Frames /\ SameCall(Top, f) /\ f.mine = Top.mine /\ f.pc = "unprobe"
    BY <1>3 DEF Frames, SameCall, GoneTo
  <2>2. FrameOK(f)
    <3> HIDE DEF f
    <3> QED
      BY <1>1, <1>3, <2>f, FrameStarts
  <2>3. ASSUME NEW g, g = Goto("unprobe")
        PROVE  StackInv(o.hl, g) /\ g \in Seq(Frames)
    <3>1. /\ Nested(o.hl, g) /\ g \in Seq(Frames) /\ Len(g) = Len(stack)
          /\ g[Len(g)] = f
      BY <1>1, <2>1, <2>2, <2>3, GotoKeeps
    <3> HIDE DEF f
    <3>2. Prepared(o.hl, g)
      BY <2>f, <3>1 DEF Prepared
    <3> QED
      BY <3>1, <3>2 DEF StackInv
  <2> QED
    BY <1>4, <1>5, <1>8, <2>3, NoResultType DEF IInv, TypeOK
<1> QED
  BY <1>2, <1>7, <1>8 DEF Proceed

LEMMA UnprobeStep == IInv /\ Unprobe => IInv'
<1> SUFFICES ASSUME IInv, Unprobe PROVE IInv'
  OBVIOUS
<1> DEFINE pc == AfterProbe(Top.burnin)
<1>1. stack # <<>> /\ Top.pc = "unprobe"
  BY DEF Unprobe, At
<1>2. PICK o \in PapiStop(hl, Top.evs) : Proceed(o, pc)
  BY DEF Unprobe
<1>3. /\ hl \in Library /\ Measured(hl) /\ Top \in Frames /\ FrameOK(Top)
      /\ Top.evs \in Seq(Names)
  BY <1>1, IInvFacts, FrameFields
<1>4. /\ o.hl \in Library /\ Measured(o.hl)
      /\ o.ok => o.hl.running = "STOP" /\ Quiet(o.hl)
  BY <1>2, <1>3, PapiStopFacts
<1>5. hl' = o.hl /\ last' = NoResult
  BY <1>2 DEF Proceed
<1>6. pc \in {"burnin", "start"} /\ (pc = "burnin" <=> Top.burnin)
  BY DEF AfterProbe
<1>7. \A i \in 1 .. Len(stack) - 1 : ~Measures(stack[i])
  <2> SUFFICES ASSUME NEW i \in 1 .. Len(stack) - 1, Measures(stack[i]) PROVE FALSE
    OBVIOUS
  <2>1. i \in 1 .. Len(stack) /\ i # Len(stack)
    BY IInvFacts
  <2> QED
    BY <1>1, <2>1, Measuring
<1> HIDE DEF pc
<1>8. CASE ~o.ok /\ Throw("error", Below)
  BY <1>1, <1>4, <1>5, <1>7, <1>8, FailureKeeps
<1>9. CASE o.ok /\ stack' = Goto(pc)
  <2> DEFINE f == GoneTo(Top, pc)
  <2>1. f \in Frames /\ SameCall(Top, f) /\ f.mine = Top.mine /\ f.pc = pc
        /\ f.burnin = Top.burnin
    BY <1>3, <1>6 DEF Frames, SameCall, GoneTo
  <2>2. FrameOK(f)
    <3> HIDE DEF f
    <3> QED
      BY <1>1, <1>3, <1>6, <2>1, FrameStarts
  <2>3. ASSUME NEW g, g = Goto(pc)
        PROVE  StackInv(o.hl, g) /\ g \in Seq(Frames)
    <3>1. /\ Nested(o.hl, g) /\ g \in Seq(Frames) /\ Len(g) = Len(stack)
          /\ g[Len(g)] = f
      BY <1>1, <1>6, <1>7, <2>2, <2>3, GotoKeeps
    <3> HIDE DEF f
    <3>2. Prepared(o.hl, g)
      BY <1>4, <1>6, <1>9, <2>1, <3>1 DEF Prepared
    <3> QED
      BY <3>1, <3>2 DEF StackInv
  <2> QED
    BY <1>4, <1>5, <1>9, <2>3, NoResultType DEF IInv, TypeOK
<1> QED
  BY <1>2, <1>8, <1>9 DEF Proceed

LEMMA NewFrameFacts ==
  ASSUME NEW fn \in {"event"} \cup RateModes, NEW evs \in Seq(Names),
         NEW burnin \in BOOLEAN, NEW null \in BOOLEAN,
         fn = "EPC" => evs # <<>>, null => ~burnin,
         NEW f, f = NewFrame(fn, evs, burnin, null)
  PROVE  /\ f \in Frames /\ FrameOK(f)
         /\ f.fn = fn /\ f.evs = evs /\ f.burnin = burnin /\ f.null = null
         /\ f.pc \in {"probe", "burnin", "start"}
         /\ fn = "event" => f.pc = "probe"
         /\ f.pc = "start" => ~burnin
<1> DEFINE pc == IF fn = "event" THEN "probe" ELSE AfterProbe(burnin)
<1>1. /\ pc \in {"probe", "burnin", "start"}
      /\ fn = "event" => pc = "probe"
      /\ pc = "start" => ~burnin
      /\ pc = "burnin" => burnin
  BY DEF AfterProbe
<1>2. f = [fn |-> fn, evs |-> evs, burnin |-> burnin, null |-> null,
           pc |-> pc, b |-> <<>>, err |-> "none", mine |-> 0]
  BY DEF NewFrame
<1> HIDE DEF pc
<1>3. f \in Frames
  <2>1. <<>> \in Results
    BY DEF Results
  <2> QED
    BY <1>1, <1>2, <2>1 DEF Frames
<1>4. /\ f.fn = fn /\ f.evs = evs /\ f.burnin = burnin /\ f.null = null
      /\ f.pc = pc /\ f.mine = 0
  BY <1>2
<1>5. FrameOK(f)
  BY <1>1, <1>4 DEF FrameOK
<1> QED
  BY <1>1, <1>3, <1>4, <1>5

LEMMA BurnInStep == IInv /\ BurnIn => IInv'
<1> SUFFICES ASSUME IInv, BurnIn PROVE IInv'
  OBVIOUS
<1> DEFINE f == NewFrame(Top.fn, Top.evs, FALSE, TRUE)
           h == GoneTo(Top, "start")
<1>1. stack # <<>> /\ Top.pc = "burnin" /\ hl' = hl /\ last' = NoResult
  BY DEF BurnIn, At
<1>2. hl \in Library /\ Measured(hl) /\ Top \in Frames /\ FrameOK(Top)
  BY <1>1, IInvFacts
<1>3. Top.burnin /\ ~Top.null /\ (Top.fn = "EPC" => Top.evs # <<>>)
  BY <1>1, <1>2 DEF FrameOK
<1>4. /\ f \in Frames /\ FrameOK(f)
      /\ f.fn = Top.fn /\ f.evs = Top.evs /\ f.burnin = FALSE /\ f.null = TRUE
      /\ f.pc \in {"probe", "burnin", "start"}
      /\ f.fn = "event" => f.pc = "probe"
  <2> DEFINE pc == IF Top.fn = "event" THEN "probe" ELSE "start"
  <2>1. f = [fn |-> Top.fn, evs |-> Top.evs, burnin |-> FALSE, null |-> TRUE,
             pc |-> pc, b |-> <<>>, err |-> "none", mine |-> 0]
    BY DEF NewFrame, AfterProbe
  <2>2. pc \in {"probe", "burnin", "start"} /\ (Top.fn = "event" => pc = "probe")
        /\ pc # "burnin"
    OBVIOUS
  <2>3. <<>> \in Results
    BY DEF Results
  <2> HIDE DEF f, pc
  <2>4. f \in Frames
    BY <1>2, <2>1, <2>2, <2>3, FrameFields DEF Frames
  <2>5. /\ f.fn = Top.fn /\ f.evs = Top.evs /\ f.burnin = FALSE /\ f.null = TRUE
        /\ f.pc = pc /\ f.mine = 0
    BY <2>1
  <2>6. FrameOK(f)
    BY <1>3, <2>2, <2>5 DEF FrameOK
  <2> QED
    BY <2>2, <2>4, <2>5, <2>6
<1>5. h \in Frames /\ SameCall(Top, h) /\ h.mine = Top.mine /\ h.pc = "start"
      /\ h.fn = Top.fn /\ h.evs = Top.evs /\ h.burnin = Top.burnin /\ h.null = Top.null
  BY <1>2 DEF Frames, SameCall, GoneTo
<1>6. FrameOK(h)
  <2> HIDE DEF h
  <2> QED
    BY <1>1, <1>2, <1>5, FrameStarts
<1>7. ASSUME NEW g, g = Goto("start")
      PROVE  /\ StackInv(hl, Append(g, f)) /\ Append(g, f) \in Seq(Frames)
  <2>1. Nested(hl, g) /\ g \in Seq(Frames) /\ Len(g) = Len(stack) /\ g[Len(g)] = h
    <3> HIDE DEF f
    <3> QED
      BY <1>1, <1>6, <1>7, GotoKeeps
  <2>2. g # <<>>
    BY <1>1, <2>1, IInvFacts, EmptySeq
  <2> HIDE DEF f, h
  <2>3. Nested(hl, Append(g, f))
    BY <1>3, <1>4, <1>5, <2>1, <2>2, PushKeeps
  <2>4. /\ Append(g, f) \in Seq(Frames) /\ Append(g, f)[Len(Append(g, f))] = f
    BY <1>4, <2>1, AppendProperties
  <2>5. Prepared(hl, Append(g, f))
    BY <1>4, <2>4 DEF Prepared
  <2> QED
    BY <2>3, <2>4, <2>5 DEF StackInv
<1>8. stack' = Append(Goto("start"), f)
  BY DEF BurnIn
<1> HIDE DEF f, h
<1>9. StackInv(hl, stack') /\ stack' \in Seq(Frames)
  BY <1>7, <1>8
<1> QED
  BY <1>1, <1>2, <1>9, NoResultType DEF IInv, TypeOK

(* The expression's first unit of work is the profiler's own. *)
LEMMA StartedFacts ==
  ASSUME NEW s \in Library, s.running # "STOP", Measured(s)
  PROVE  /\ WorkDone(s) \in Library /\ Measured(WorkDone(s))
         /\ WorkDone(s).running = s.running
         /\ WorkDone(s).es.events = s.es.events
         /\ WorkDone(s).es.count = s.es.count + 1
BY WorkDoneFacts, WorkFacts DEF Measured, Library

LEMMA EvaluationKeeps ==
  ASSUME IInv, stack # <<>>, Top.pc = "start", NEW t,
         Top.fn = "EPC" => Top.evs[1] \in Codes,
         \A i \in 1 .. Len(stack) : ~Measures(stack[i]),
         Top.fn = "event" =>
           t.running = "START" /\ t.es.events = Unique(Top.evs) /\ t.es.count = 1,
         NEW st2, st2 = Append(Charged(Below), GoneTo(Top, "eval"))
  PROVE  StackInv(t, st2) /\ st2 \in Seq(Frames)
<1> DEFINE n  == Len(stack)
           ch == Charged(Below)
           f  == GoneTo(Top, "eval")
<1>1. /\ stack \in Seq(Frames) /\ Nested(hl, stack) /\ Prepared(hl, stack)
      /\ n \in Nat /\ n # 0 /\ n - 1 \in 0 .. n
      /\ Top = stack[n] /\ Top \in Frames /\ FrameOK(Top)
  BY IInvFacts
<1>2. /\ Below \in Seq(Frames) /\ Len(Below) = n - 1
      /\ \A i \in 1 .. n - 1 : Below[i] = stack[i]
  BY <1>1, BelowFacts DEF Below
<1>3. /\ ch \in Seq(Frames) /\ Len(ch) = n - 1
      /\ \A i \in 1 .. n - 1 :
           ch[i] = IF stack[i].pc = "eval"
                     THEN [stack[i] EXCEPT !.mine = stack[i].mine + 1] ELSE stack[i]
  BY <1>2, ChargedFacts
<1>4. f \in Frames /\ SameCall(Top, f) /\ f.mine = Top.mine /\ f.pc = "eval"
      /\ f.b = Top.b /\ f.fn = Top.fn /\ f.evs = Top.evs
      /\ f.burnin = Top.burnin /\ f.null = Top.null
  BY <1>1 DEF Frames, SameCall, GoneTo
<1>5. Top.mine = 0 /\ (Top.burnin => BurntIn(Top))
  BY <1>1, IInvFacts DEF FrameOK, Prepared
<1> HIDE DEF f, ch
<1>6. FrameOK(f)
  <2>1. ResultLength(f) = ResultLength(Top)
    BY <1>4 DEF ResultLength
  <2>2. Top.burnin => BurntIn(f)
    BY <1>4, <1>5, <2>1 DEF BurntIn
  <2> QED
    BY <1>1, <1>4, <1>5, <2>2 DEF FrameOK
<1>7. /\ st2 \in Seq(Frames) /\ Len(st2) = n
      /\ \A i \in 1 .. n - 1 : st2[i] = ch[i]
      /\ st2[n] = f
  <2>1. st2 = Append(ch, f)
    BY DEF ch, f
  <2> QED
    <3>1. n \in Nat /\ ch \in Seq(Frames) /\ Len(ch) = n - 1 /\ f \in Frames
      BY <1>1, <1>3, <1>4
    <3>2. /\ Append(ch, f) \in Seq(Frames) /\ Len(Append(ch, f)) = Len(ch) + 1
          /\ \A i \in 1 .. Len(ch) : Append(ch, f)[i] = ch[i]
          /\ Append(ch, f)[Len(ch) + 1] = f
      BY ONLY <3>1, AppendProperties
    <3>3. Len(ch) + 1 = n
      BY <3>1
    <3> HIDE DEF n
    <3> QED
      BY ONLY <2>1, <3>1, <3>2, <3>3
<1>8. ASSUME NEW i \in 1 .. n - 1
      PROVE  /\ SameCall(stack[i], st2[i]) /\ st2[i].pc = stack[i].pc
             /\ stack[i].pc # "eval" => st2[i].mine = stack[i].mine
  <2>1. stack[i] \in Frames
    BY <1>1, TopFacts
  <2>2. st2[i] = IF stack[i].pc = "eval"
                   THEN [stack[i] EXCEPT !.mine = stack[i].mine + 1] ELSE stack[i]
    BY <1>3, <1>7
  <2> QED
    BY <2>1, <2>2 DEF SameCall, Frames
<1>9. \A i \in 1 .. n : SameCall(stack[i], st2[i])
  <2> SUFFICES ASSUME NEW i \in 1 .. n PROVE SameCall(stack[i], st2[i])
    OBVIOUS
  <2>1. CASE i = n
    BY <1>1, <1>4, <1>7, <2>1
  <2>2. CASE i # n
    <3>1. i \in 1 .. n - 1
      BY <1>1, <2>2
    <3> QED
      BY <1>8, <3>1
  <2> QED
    BY <2>1, <2>2
<1>10. Measures(st2[n]) =>
         t.running = "START" /\ t.es.events = Unique(st2[n].evs)
         /\ t.es.count = st2[n].mine + 1
  BY <1>4, <1>5, <1>7 DEF Measures
<1>11. \A i \in 1 .. n - 1 :
         /\ st2[i].pc = stack[i].pc
         /\ stack[i].pc # "eval" => st2[i].mine = stack[i].mine
         /\ Measures(stack[i]) =>
              /\ t.running = hl.running /\ t.es = hl.es /\ st2[i].mine = stack[i].mine
              /\ st2[n].pc \in {"probe", "burnin", "start"}
  <2>1. \A i \in 1 .. n - 1 : ~Measures(stack[i])
    BY <1>1
  <2> QED
    BY ONLY <1>8, <2>1
<1>12. FrameOK(st2[n]) /\ Len(stack) = n
  BY <1>6, <1>7
<1> HIDE DEF n
<1>13. Nested(t, st2)
  BY ONLY <1>1, <1>7, <1>9, <1>10, <1>11, <1>12, AdvanceKeeps
<1>14. Prepared(t, st2)
  BY <1>4, <1>7 DEF Prepared
<1> QED
  BY <1>7, <1>13, <1>14 DEF StackInv

LEMMA BeginMeasuringStep == IInv /\ BeginMeasuring => IInv'
<1> SUFFICES ASSUME IInv, BeginMeasuring PROVE IInv'
  OBVIOUS
<1>1. stack # <<>> /\ Top.pc = "start" /\ last' = NoResult
  BY DEF BeginMeasuring, At
<1>2. /\ hl \in Library /\ Measured(hl) /\ Top \in Frames /\ FrameOK(Top)
      /\ Top.evs \in Seq(Names) /\ Prepared(hl, stack) /\ Top = stack[Len(stack)]
  BY <1>1, IInvFacts, FrameFields
<1>3. CASE Throw("error", Below) /\ hl' = hl
  BY <1>1, <1>2, <1>3, FailureKeeps
<1>4. ASSUME Available(LookedUp(Top)), NEW o \in Begins(Top),
             \/ o.ok /\ hl' = WorkDone(o.hl)
                /\ stack' = Append(Charged(Below), GoneTo(Top, "eval"))
             \/ ~o.ok /\ hl' = o.hl /\ Throw("error", Below)
      PROVE  IInv'
  <2>1. Top.fn = "EPC" => Top.evs[1] \in Codes
    BY <1>2, <1>4, AvailableEpc
  <2>2. /\ o.hl \in Library /\ Measured(o.hl)
        /\ hl.running = "START" => ~o.ok /\ o.hl.running = hl.running /\ o.hl.es = hl.es
        /\ Top.fn = "event" /\ o.ok =>
             /\ hl.running = "STOP" /\ o.hl.running = "START" /\ o.hl.es.count = 0
             /\ o.hl.es.events = hl.es.events \o Unique(Top.evs)
    BY <1>2, <1>4, <2>1, BeginsFacts
  <2>3. hl.running # "START" => \A i \in 1 .. Len(stack) : ~Measures(stack[i])
    BY Measuring
  <2>4. CASE ~o.ok /\ hl' = o.hl /\ Throw("error", Below)
    <3>1. \/ hl'.running = hl.running /\ hl'.es = hl.es
          \/ \A i \in 1 .. Len(stack) - 1 : ~Measures(stack[i])
      BY <2>2, <2>3, <2>4, IInvFacts
    <3> QED
      BY <1>1, <2>2, <2>4, <3>1, FailureKeeps
  <2>5. CASE o.ok /\ hl' = WorkDone(o.hl)
             /\ stack' = Append(Charged(Below), GoneTo(Top, "eval"))
    <3> DEFINE t == WorkDone(o.hl)
    <3>1. Top.fn = "event" => hl.es.events = <<>>
      BY <1>1, <1>2 DEF Prepared, Quiet
    <3>2. Top.fn = "event" => o.hl.es.events = Unique(Top.evs)
      <4> DEFINE u == Unique(Top.evs)
      <4>1. u \in Seq(Names)
        BY <1>2, UniqueType
      <4>2. Top.fn = "event" => o.hl.es.events = hl.es.events \o u
        BY <2>2, <2>5
      <4> HIDE DEF u
      <4>3. <<>> \o u = u
        BY <4>1, ConcatEmptySeq
      <4>4. Top.fn = "event" => o.hl.es.events = u
        BY <3>1, <4>2, <4>3
      <4> QED
        BY <4>4 DEF u
    <3>3. o.hl.running # "STOP" =>
            /\ t \in Library /\ Measured(t) /\ t.running = o.hl.running
            /\ t.es.events = o.hl.es.events /\ t.es.count = o.hl.es.count + 1
      BY <2>2, StartedFacts
    <3>4. t \in Library /\ Measured(t)
      <4>1. t \in Library /\ t.running = o.hl.running
        BY <2>2, WorkDoneFacts
      <4> QED
        BY <3>3, <4>1 DEF Measured
    <3>5. Top.fn = "event" =>
            t.running = "START" /\ t.es.events = Unique(Top.evs) /\ t.es.count = 1
      <4> HIDE DEF t
      <4> QED
        BY <2>2, <2>5, <3>2, <3>3
    <3>6. \A i \in 1 .. Len(stack) : ~Measures(stack[i])
      BY <2>2, <2>3, <2>5
    <3>7. ASSUME NEW st2, st2 = Append(Charged(Below), GoneTo(Top, "eval"))
          PROVE  StackInv(t, st2) /\ st2 \in Seq(Frames)
      <4> HIDE DEF t
      <4> QED
        BY <1>1, <2>1, <3>5, <3>6, <3>7, EvaluationKeeps
    <3>8. StackInv(t, stack') /\ stack' \in Seq(Frames) /\ hl' = t
      BY <2>5, <3>7
    <3> HIDE DEF t
    <3> QED
      BY <1>1, <3>4, <3>8, NoResultType DEF IInv, TypeOK
  <2> QED
    BY <1>4, <2>4, <2>5
<1> QED
  BY <1>3, <1>4 DEF BeginMeasuring, GoneTo

(* The outer calls do not measure while the top call is past its start. *)
LEMMA OthersWait ==
  ASSUME IInv, stack # <<>>, Top.pc \in {"unprobe", "eval", "stop"}
  PROVE  \A i \in 1 .. Len(stack) - 1 : ~Measures(stack[i])
<1> SUFFICES ASSUME NEW i \in 1 .. Len(stack) - 1, Measures(stack[i]) PROVE FALSE
  OBVIOUS
<1>1. i \in 1 .. Len(stack) /\ i # Len(stack)
  BY IInvFacts
<1> QED
  BY <1>1, Measuring

LEMMA FinishStep == IInv /\ Finish => IInv'
<1> SUFFICES ASSUME IInv, Finish PROVE IInv'
  OBVIOUS
<1> DEFINE f == GoneTo(Top, "stop")
<1>1. /\ stack # <<>> /\ Top.pc = "eval" /\ hl' = hl /\ last' = NoResult
      /\ stack' = Goto("stop")
  BY DEF Finish, At
<1>2. hl \in Library /\ Measured(hl) /\ Top \in Frames /\ FrameOK(Top)
  BY <1>1, IInvFacts
<1>3. \A i \in 1 .. Len(stack) - 1 : ~Measures(stack[i])
  BY <1>1, OthersWait
<1>4. f \in Frames /\ SameCall(Top, f) /\ f.mine = Top.mine /\ f.pc = "stop"
  BY <1>2 DEF Frames, SameCall, GoneTo
<1>5. FrameOK(f)
  <2>1. Top.null => Top.mine = 0
    BY <1>2 DEF FrameOK
  <2> HIDE DEF f
  <2> QED
    BY <1>1, <1>2, <1>4, <2>1, FrameAdvances
<1>6. Top.fn = "event" => Measures(Top)
  BY <1>1 DEF Measures
<1>7. ASSUME NEW g, g = Goto("stop")
      PROVE  StackInv(hl, g) /\ g \in Seq(Frames)
  <2>1. Nested(hl, g) /\ g \in Seq(Frames) /\ Len(g) = Len(stack) /\ g[Len(g)] = f
    BY <1>1, <1>3, <1>5, <1>6, <1>7, GotoKeeps
  <2> HIDE DEF f
  <2>2. Prepared(hl, g)
    BY <1>4, <2>1 DEF Prepared
  <2> QED
    BY <2>1, <2>2 DEF StackInv
<1> QED
  BY <1>1, <1>2, <1>7, NoResultType DEF IInv, TypeOK

LEMMA EmptyStack ==
  ASSUME NEW t
  PROVE  StackInv(t, <<>>) /\ <<>> \in Seq(Frames)
<1>1. Len(<<>>) = 0 /\ <<>> \in Seq(Frames)
  BY EmptySeq
<1> DEFINE e == <<>>
<1>2. e = <<>> /\ Len(e) = 0
  BY <1>1
<1> HIDE DEF e
<1>3. StackInv(t, e)
  BY <1>2 DEF StackInv, Nested, FramesOK, Waits, NullsOnTop, Serves, Prepared
<1> QED
  BY <1>1, <1>3 DEF e

LEMMA NewCall ==
  ASSUME NEW fn \in Profilers, NEW evs \in Arguments(fn), NEW burnin \in BOOLEAN
  PROVE  /\ NewFrame(fn, evs, burnin, FALSE) \in Frames
         /\ FrameOK(NewFrame(fn, evs, burnin, FALSE))
         /\ NewFrame(fn, evs, burnin, FALSE).null = FALSE
         /\ NewFrame(fn, evs, burnin, FALSE).pc \in {"probe", "burnin", "start"}
         /\ NewFrame(fn, evs, burnin, FALSE).fn = "event" =>
              NewFrame(fn, evs, burnin, FALSE).pc = "probe"
         /\ NewFrame(fn, evs, burnin, FALSE).pc = "start" =>
              ~NewFrame(fn, evs, burnin, FALSE).burnin
<1>1. fn \in {"event"} \cup RateModes
  BY SessionAssumption
<1>2. evs \in Seq(Names) /\ (fn = "EPC" => evs # <<>>)
  <2>1. CASE fn = "event"
    BY <2>1, SessionAssumption DEF Arguments
  <2>2. CASE fn = "EPC"
    <3>1. PICK e \in EpcRequests : evs = <<e>>
      BY <2>2 DEF Arguments
    <3>2. e \in Names
      BY SessionAssumption
    <3>3. <<e>> \in Seq(Names) /\ <<e>> # <<>>
      BY <3>2
    <3> QED
      BY <3>1, <3>3
  <2>3. CASE fn \notin {"event", "EPC"}
    <3>1. Arguments(fn) = {<<>>}
      BY <2>3 DEF Arguments
    <3>2. evs = <<>> /\ <<>> \in Seq(Names)
      BY <3>1
    <3> QED
      BY <2>3, <3>2
  <2> QED
    BY <2>1, <2>2, <2>3
<1>3. <<>> \in Results
  BY DEF Results
<1> DEFINE pc == IF fn = "event" THEN "probe" ELSE AfterProbe(burnin)
           f  == NewFrame(fn, evs, burnin, FALSE)
<1>4. f = [fn |-> fn, evs |-> evs, burnin |-> burnin, null |-> FALSE,
           pc |-> pc, b |-> <<>>, err |-> "none", mine |-> 0]
  BY DEF NewFrame
<1>5. /\ pc \in {"probe", "burnin", "start"}
      /\ fn = "event" => pc = "probe"
      /\ pc = "start" => ~burnin
      /\ pc = "burnin" => burnin
  BY DEF AfterProbe
<1> HIDE DEF f, pc
<1>6. f \in Frames
  BY <1>1, <1>2, <1>3, <1>4, <1>5 DEF Frames
<1>7. /\ f.fn = fn /\ f.evs = evs /\ f.burnin = burnin /\ f.null = FALSE
      /\ f.pc = pc /\ f.mine = 0
  BY <1>4
<1>8. FrameOK(f)
  BY <1>2, <1>5, <1>7 DEF FrameOK
<1>9. /\ f \in Frames /\ FrameOK(f) /\ f.null = FALSE
      /\ f.pc \in {"probe", "burnin", "start"}
      /\ f.fn = "event" => f.pc = "probe"
      /\ f.pc = "start" => ~f.burnin
  BY <1>5, <1>6, <1>7, <1>8
<1> QED
  BY <1>9 DEF f

LEMMA ProfileStep == IInv /\ Profile => IInv'
<1> SUFFICES ASSUME IInv, Profile PROVE IInv'
  OBVIOUS
<1>1. hl' = hl /\ last' = NoResult /\ (stack = <<>> \/ (At("eval") /\ ~Top.null))
  BY DEF Profile, UserTurn
<1>p. PICK fn \in Profilers : \E evs \in Arguments(fn), burnin \in BOOLEAN :
        stack' = Append(stack, NewFrame(fn, evs, burnin, FALSE))
  BY DEF Profile
<1>2. PICK evs \in Arguments(fn), burnin \in BOOLEAN :
        stack' = Append(stack, NewFrame(fn, evs, burnin, FALSE))
  BY <1>p
<1> DEFINE f == NewFrame(fn, evs, burnin, FALSE)
<1>3. /\ f \in Frames /\ FrameOK(f) /\ f.null = FALSE
      /\ f.pc \in {"probe", "burnin", "start"}
      /\ f.fn = "event" => f.pc = "probe"
      /\ f.pc = "start" => ~f.burnin
  BY NewCall
<1>4. /\ hl \in Library /\ Measured(hl) /\ stack \in Seq(Frames) /\ Nested(hl, stack)
      /\ stack # <<>> => stack[Len(stack)].pc = "eval" /\ ~stack[Len(stack)].null
  BY <1>1, IInvFacts DEF At
<1>5. stack' = Append(stack, f)
  BY <1>2
<1> HIDE DEF f
<1>6. Nested(hl, Append(stack, f))
  BY <1>3, <1>4, PushKeeps
<1>7. Append(stack, f) \in Seq(Frames) /\ Append(stack, f)[Len(Append(stack, f))] = f
  BY <1>3, <1>4, AppendProperties
<1>8. Prepared(hl, Append(stack, f))
  BY <1>3, <1>7 DEF Prepared
<1> QED
  BY <1>1, <1>4, <1>5, <1>6, <1>7, <1>8, NoResultType DEF IInv, TypeOK, StackInv

LEMMA RaiseErrorStep == IInv /\ RaiseError => IInv'
<1> SUFFICES ASSUME IInv, RaiseError PROVE IInv'
  OBVIOUS
<1> DEFINE k == Len(stack)
<1>1. stack # <<>> /\ ~Top.null /\ hl' = hl /\ last' = NoResult
  BY DEF RaiseError, UserTurn
<1>2. PICK kind \in {"error", "other"} : Throw(kind, stack)
  BY DEF RaiseError
<1>3. hl \in Library /\ Measured(hl) /\ stack \in Seq(Frames) /\ k \in Nat /\ k <= Len(stack)
  BY IInvFacts
<1>4. stack = SubSeq(stack, 1, k)
  BY <1>3, SubSeqFull
<1>5. kind \in {"error", "other", "interrupt"}
  BY <1>2
<1>6. hl'.running = hl.running /\ hl'.es = hl.es /\ hl' \in Library /\ Measured(hl')
  BY <1>1, <1>3
<1> HIDE DEF k
<1> QED
  BY <1>1, <1>2, <1>3, <1>4, <1>5, <1>6, ThrowKeeps

LEMMA InterruptStep == IInv /\ Interrupt => IInv'
<1> SUFFICES ASSUME IInv, Interrupt PROVE IInv'
  OBVIOUS
<1>1. hl' = hl /\ last' = NoResult /\ Throw("interrupt", stack)
  BY DEF Interrupt
<1>2. hl \in Library /\ Measured(hl) /\ stack \in Seq(Frames)
  BY IInvFacts
<1>3. PICK k \in 0 .. Len(stack) : Unwound(stack, "interrupt", k, stack')
  BY <1>1, <1>2, ThrowFacts
<1>4. stack' \in Seq(Frames) /\ Len(stack') = 0
  BY <1>2, <1>3, TopFacts DEF Unwound
<1>5. stack' = <<>>
  BY <1>4, EmptySeq
<1>6. StackInv(hl, stack')
  BY <1>5, EmptyStack
<1> QED
  BY <1>1, <1>2, <1>4, <1>6, NoResultType DEF IInv, TypeOK

LEMMA ComputeStep == IInv /\ Compute => IInv'
<1> SUFFICES ASSUME IInv, Compute PROVE IInv'
  OBVIOUS
<1> DEFINE n == Len(stack)
           t == WorkDone(hl)
<1>1. /\ hl' = t /\ stack' = Charged(stack) /\ last' = NoResult
      /\ stack = <<>> \/ (Top.pc = "eval" /\ ~Top.null)
  BY DEF Compute, UserTurn, At
<1>2. hl \in Library /\ Measured(hl) /\ stack \in Seq(Frames) /\ Nested(hl, stack) /\ n \in Nat
  BY IInvFacts
<1>3. /\ t \in Library /\ Measured(t) /\ t.running = hl.running
      /\ hl.running # "STOP" => t.es.events = hl.es.events /\ t.es.count = hl.es.count + 1
  <2>1. t \in Library /\ t.running = hl.running
    BY <1>2, WorkDoneFacts
  <2> QED
    BY <1>2, <2>1, StartedFacts DEF Measured
<1>4. /\ stack' \in Seq(Frames) /\ Len(stack') = n
      /\ \A i \in 1 .. n :
           stack'[i] = IF stack[i].pc = "eval"
                         THEN [stack[i] EXCEPT !.mine = stack[i].mine + 1] ELSE stack[i]
  BY <1>1, <1>2, ChargedFacts
<1>5. CASE stack = <<>>
  <2>1. stack' = <<>>
    BY <1>2, <1>4, <1>5, EmptySeq
  <2>2. StackInv(t, stack')
    BY <2>1, EmptyStack
  <2> QED
    BY <1>1, <1>3, <1>4, <2>2, NoResultType DEF IInv, TypeOK
<1>6. CASE stack # <<>>
  <2>1. /\ n # 0 /\ n \in 1 .. n /\ Top = stack[n] /\ Top \in Frames /\ FrameOK(Top)
        /\ Top.pc = "eval" /\ ~Top.null
    BY <1>1, <1>6, IInvFacts
  <2>2. \A i \in 1 .. n - 1 : ~Measures(stack[i])
    BY <1>6, <2>1, OthersWait
  <2>3. ASSUME NEW i \in 1 .. n
        PROVE  /\ SameCall(stack[i], stack'[i]) /\ stack'[i].pc = stack[i].pc
               /\ stack[i].pc # "eval" => stack'[i].mine = stack[i].mine
               /\ stack[i].pc = "eval" => stack'[i].mine = stack[i].mine + 1
    <3>1. stack[i] \in Frames
      BY <1>2, TopFacts
    <3>2. stack'[i] = IF stack[i].pc = "eval"
                        THEN [stack[i] EXCEPT !.mine = stack[i].mine + 1] ELSE stack[i]
      BY <1>4
    <3> QED
      BY <3>1, <3>2 DEF SameCall, Frames
  <2>4. FrameOK(stack'[n])
    <3>1. stack'[n] \in Frames /\ SameCall(Top, stack'[n]) /\ stack'[n].pc = "eval"
      BY <1>4, <2>1, <2>3, TopFacts
    <3> QED
      BY <2>1, <3>1, FrameAdvances
  <2>5. Measures(stack'[n]) =>
          /\ t.running = "START" /\ t.es.events = Unique(stack'[n].evs)
          /\ t.es.count = stack'[n].mine + 1
    <3> SUFFICES ASSUME Measures(stack'[n])
                 PROVE  /\ t.running = "START" /\ t.es.events = Unique(stack'[n].evs)
                        /\ t.es.count = stack'[n].mine + 1
      OBVIOUS
    <3>1. Measures(Top) /\ stack'[n].evs = Top.evs /\ stack'[n].mine = Top.mine + 1
      BY <2>1, <2>3 DEF Measures, SameCall
    <3>2. /\ hl.running = "START" /\ hl.es.events = Unique(Top.evs)
          /\ hl.es.count = Top.mine + 1
      BY <2>1, <3>1, Measuring
    <3> HIDE DEF t
    <3> QED
      BY <1>3, <3>1, <3>2
  <2>6. \A i \in 1 .. n - 1 :
          /\ stack'[i].pc = stack[i].pc
          /\ stack[i].pc # "eval" => stack'[i].mine = stack[i].mine
          /\ Measures(stack[i]) =>
               /\ t.running = hl.running /\ t.es = hl.es /\ stack'[i].mine = stack[i].mine
               /\ stack'[n].pc \in {"probe", "burnin", "start"}
    <3>1. \A i \in 1 .. n - 1 : i \in 1 .. n
      BY <1>2
    <3> QED
      BY ONLY <2>2, <2>3, <3>1
  <2>7. \A i \in 1 .. n : SameCall(stack[i], stack'[i])
    BY <2>3
  <2>8. Len(stack) = n
    OBVIOUS
  <2>9. stack'[n].pc = "eval"
    BY <2>1, <2>3
  <2> HIDE DEF n, t
  <2>10. Nested(t, stack')
    BY ONLY <1>2, <1>4, <2>1, <2>4, <2>5, <2>6, <2>7, <2>8, AdvanceKeeps
  <2>11. Prepared(t, stack')
    BY <1>4, <2>9 DEF Prepared
  <2> QED
    BY <1>1, <1>3, <1>4, <2>10, <2>11, NoResultType DEF IInv, TypeOK, StackInv
<1> QED
  BY <1>5, <1>6

LEMMA StartDirectlyStep == IInv /\ StartDirectly => IInv'
<1> SUFFICES ASSUME IInv, StartDirectly PROVE IInv'
  OBVIOUS
<1>1. /\ stack' = <<>> /\ last' = NoResult
      /\ \E evs \in EventRequests : \E o \in PapiStart(hl, evs) : hl' = o.hl
  BY DEF StartDirectly
<1>2. PICK evs \in EventRequests : \E o \in PapiStart(hl, evs) : hl' = o.hl
  BY <1>1
<1>3. PICK o \in PapiStart(hl, evs) : hl' = o.hl
  BY <1>2
<1>4. evs \in Seq(Names) /\ hl \in Library /\ Measured(hl)
  BY SessionAssumption, IInvFacts
<1>5. hl' \in Library /\ Measured(hl')
  BY <1>3, <1>4, PapiStartFacts
<1>6. StackInv(hl', stack') /\ stack' \in Seq(Frames)
  BY <1>1, EmptyStack
<1> QED
  BY <1>1, <1>5, <1>6, NoResultType DEF IInv, TypeOK

LEMMA StopDirectlyStep == IInv /\ StopDirectly => IInv'
<1> SUFFICES ASSUME IInv, StopDirectly PROVE IInv'
  OBVIOUS
<1>1. /\ stack' = <<>>
      /\ \E evs \in EventRequests : \E o \in PapiStop(hl, evs) :
           /\ hl' = o.hl
           /\ last' = IF o.ok THEN [NoResult EXCEPT !.fn = "stop", !.evs = evs,
                                                    !.values = o.values]
                      ELSE NoResult
  BY DEF StopDirectly
<1>2. PICK evs \in EventRequests : \E o \in PapiStop(hl, evs) :
           /\ hl' = o.hl
           /\ last' = IF o.ok THEN [NoResult EXCEPT !.fn = "stop", !.evs = evs,
                                                    !.values = o.values]
                      ELSE NoResult
  BY <1>1
<1>3. PICK o \in PapiStop(hl, evs) :
           /\ hl' = o.hl
           /\ last' = IF o.ok THEN [NoResult EXCEPT !.fn = "stop", !.evs = evs,
                                                    !.values = o.values]
                      ELSE NoResult
  BY <1>2
<1>4. evs \in Seq(Names) /\ hl \in Library /\ Measured(hl)
  BY SessionAssumption, IInvFacts
<1> DEFINE v == IF hl.running = "START" THEN Reading(hl.es) ELSE <<>>
<1>5. /\ hl' \in Library /\ Measured(hl')
      /\ o.ok => Known(evs) /\ o.values = NamedValues(Unique(evs), v)
  BY <1>3, <1>4, PapiStopFacts
<1>6. v \in Values
  BY <1>4, EmptyValues, ReadingType DEF Library
<1>7. StackInv(hl', stack') /\ stack' \in Seq(Frames)
  BY <1>1, EmptyStack
<1>8. o.ok => o.values \in Results
  <2> HIDE DEF v
  <2> QED
    BY <1>4, <1>5, <1>6, NamedValuesType
<1> DEFINE R == [fn : {"none", "event", "stop"} \cup RateModes, evs : Seq(Names),
                 burnin : BOOLEAN, mine : Nat, values : Results]
<1>9. last' \in R
  <2>1. CASE o.ok
    <3>1. last' = [fn |-> "stop", evs |-> evs, burnin |-> FALSE, mine |-> 0,
                   values |-> o.values]
      BY <1>3, <2>1 DEF NoResult
    <3> QED
      BY <1>4, <1>8, <2>1, <3>1
  <2>2. CASE ~o.ok
    BY <1>3, <2>2, NoResultType
  <2> QED
    BY <2>1, <2>2
<1> QED
  BY <1>5, <1>7, <1>9 DEF IInv, TypeOK

(* What papi.stop returns to a call of system.event: one value per event,  *)
(* of the expression and the profiler's own.                               *)
EventValues(f) ==
  [i \in 1 .. Len(Unique(f.evs)) |->
     [name |-> Unique(f.evs)[i], code |-> Unique(f.evs)[i], n |-> f.mine + 1]]

LEMMA EndingFacts ==
  ASSUME IInv, stack # <<>>, Top.pc = "stop", NEW o \in Ends(Top)
  PROVE  /\ o.hl \in Library /\ Measured(o.hl)
         /\ o.ok => o.values \in Results /\ Len(o.values) = ResultLength(Top)
         /\ Top.fn = "event" /\ o.ok =>
              o.hl.running = "STOP" /\ Quiet(o.hl) /\ o.values = EventValues(Top)
         /\ Top.burnin => BurntIn(Top)
<1>1. /\ hl \in Library /\ Measured(hl) /\ Top \in Frames /\ FrameOK(Top)
      /\ Len(stack) \in 1 .. Len(stack) /\ Top = stack[Len(stack)]
  BY IInvFacts
<1>2. (Top.fn = "EPC" => Top.evs[1] \in Codes) /\ (Top.burnin => BurntIn(Top))
  BY <1>1 DEF FrameOK
<1>3. /\ o.hl \in Library /\ Measured(o.hl)
      /\ o.ok => o.values \in Results /\ Len(o.values) = ResultLength(Top)
      /\ Top.fn = "event" /\ o.ok =>
           /\ o.hl.running = "STOP" /\ Quiet(o.hl)
           /\ hl.running = "START" =>
                o.values = NamedValues(Unique(Top.evs), Reading(hl.es))
  BY <1>1, <1>2, EndsFacts
<1>4. ASSUME Top.fn = "event", o.ok PROVE o.values = EventValues(Top)
  <2>1. Measures(Top)
    BY <1>4 DEF Measures
  <2>2. /\ hl.running = "START" /\ hl.es.events = Unique(Top.evs)
        /\ hl.es.count = Top.mine + 1
    BY <1>1, <2>1, Measuring
  <2>3. o.values = NamedValues(hl.es.events, Reading(hl.es))
    BY <1>3, <1>4, <2>2
  <2>4. hl.es \in EventSets
    BY <1>1 DEF Library
  <2>5. o.values = [i \in 1 .. Len(hl.es.events) |->
                      [name |-> hl.es.events[i], code |-> hl.es.events[i],
                       n |-> hl.es.count]]
    BY <2>3, <2>4, NamedReading
  <2> QED
    BY <2>2, <2>5 DEF EventValues
<1> QED
  BY <1>2, <1>3, <1>4

LEMMA ReturnedType ==
  ASSUME IInv, stack # <<>>, Top.pc = "stop", NEW o \in Ends(Top), o.ok,
         NEW values,
         values = IF Top.burnin THEN Corrected(o.values, Top.b) ELSE o.values
  PROVE  values \in Results /\ Len(values) = ResultLength(Top)
<1>1. /\ o.values \in Results /\ Len(o.values) = ResultLength(Top)
      /\ Top.burnin => Len(Top.b) = ResultLength(Top)
  BY EndingFacts DEF BurntIn
<1>2. Top.b \in Results
  BY IInvFacts DEF Frames
<1>3. CASE Top.burnin
  <2> DEFINE b == Top.b
             v == o.values
  <2>1. v \in Results /\ b \in Results /\ Len(b) = Len(v)
    BY <1>1, <1>2, <1>3
  <2> HIDE DEF b, v
  <2>2. Corrected(v, b) \in Results /\ Len(Corrected(v, b)) = Len(v)
    BY <2>1, CorrectedFacts
  <2> QED
    BY <1>1, <1>3, <2>2 DEF b, v
<1>4. CASE ~Top.burnin
  BY <1>1, <1>4
<1> QED
  BY <1>3, <1>4

LEMMA ReturnKeeps ==
  ASSUME IInv, stack # <<>>, Top.pc = "stop", NEW o \in Ends(Top), o.ok,
         NEW values,
         values = IF Top.burnin THEN Corrected(o.values, Top.b) ELSE o.values,
         NEW st2,
         \/ Top.null /\ st2 = [Below EXCEPT ![Len(Below)].b = values]
         \/ ~Top.null /\ st2 = Below
  PROVE  StackInv(o.hl, st2) /\ st2 \in Seq(Frames)
<1> DEFINE n == Len(stack)
<1>1. /\ stack \in Seq(Frames) /\ Nested(hl, stack)
      /\ n \in Nat /\ n # 0 /\ n \in 1 .. n /\ n - 1 \in 0 .. n
      /\ Top = stack[n] /\ Top \in Frames /\ FrameOK(Top)
  BY IInvFacts
<1>2. /\ Below \in Seq(Frames) /\ Len(Below) = n - 1
      /\ \A i \in 1 .. n - 1 : Below[i] = stack[i]
  BY <1>1, BelowFacts DEF Below
<1>3. \A i \in 1 .. n - 1 : ~Measures(stack[i])
  BY OthersWait
<1>4. values \in Results /\ Len(values) = ResultLength(Top)
  BY ReturnedType
<1>5. CASE Top.null
  <2> DEFINE f == [Below[n - 1] EXCEPT !.b = values]
  <2>1. n > 1 /\ n - 1 \in 1 .. n - 1
    <3>1. n > 1
      BY <1>1, <1>5 DEF Nested, NullsOnTop
    <3> QED
      BY <1>1, <3>1
  <2>2. Below[n - 1] \in Frames /\ Below[n - 1] = stack[n - 1]
    BY <1>2, <2>1, TopFacts
  <2>3. f \in Frames /\ f.b = values /\ f.fn = stack[n - 1].fn
        /\ f.evs = stack[n - 1].evs /\ f = [stack[n - 1] EXCEPT !.b = values]
    BY <1>4, <2>2 DEF Frames
  <2>4. st2 = [Below EXCEPT ![n - 1] = f]
    BY <1>2, <1>5
  <2> HIDE DEF f
  <2>5. /\ st2 \in Seq(Frames) /\ Len(st2) = n - 1
        /\ \A j \in 1 .. n - 1 : st2[j] = IF j = n - 1 THEN f ELSE Below[j]
    BY <1>2, <2>1, <2>3, <2>4, ExceptSeq
  <2>6. /\ st2[n - 1] = f /\ \A i \in 1 .. n - 2 : st2[i] = stack[i]
    BY <1>1, <1>2, <2>1, <2>5, SMTT(30)
  <2>7. /\ Nested(o.hl, st2)
        /\ stack[n].null =>
             /\ st2[n - 1].pc = "start" /\ st2[n - 1].burnin
             /\ stack[n].fn = st2[n - 1].fn /\ stack[n].evs = st2[n - 1].evs
    <3>1. Len(stack) = n /\ stack[n].null
      BY <1>1, <1>5
    <3>2. n > 1 => Resumes(stack[n], stack[n - 1], st2[n - 1])
      BY <1>4, <2>3, <2>6, <3>1 DEF Resumes
    <3> HIDE DEF n
    <3> QED
      <4>0. Nested(hl, stack) /\ n > 1 /\ stack[n].null
        BY <1>1, <2>1, <3>1
      <4>1. Popped(n, stack, st2)
        BY ONLY <1>1, <1>3, <2>1, <2>5, <2>6, <3>1, <3>2 DEF Popped
      <4> QED
        BY ONLY <4>0, <4>1, PopKeeps
  <2>8. BurntIn(f)
    <3>1. ResultLength(f) = ResultLength(Top)
      BY <1>1, <1>5, <2>6, <2>7 DEF ResultLength
    <3>2. ASSUME f.fn = "event", NEW i \in 1 .. Len(f.b) PROVE f.b[i].n = 1
      <4>1. Top.fn = "event" /\ ~Top.burnin /\ Top.mine = 0
        BY <1>1, <1>5, <2>6, <2>7, <3>2 DEF FrameOK
      <4>2. values = EventValues(Top)
        BY <4>1, EndingFacts
      <4>3. i \in 1 .. Len(Unique(Top.evs))
        BY <1>4, <2>3, <3>2, <4>1 DEF ResultLength
      <4>4. EventValues(Top)[i].n = Top.mine + 1
        BY <4>3 DEF EventValues
      <4> QED
        BY <2>3, <4>1, <4>2, <4>4
    <3> QED
      BY <1>4, <2>3, <3>1, <3>2 DEF BurntIn
  <2>9. Top.fn = "event" => o.hl.running = "STOP" /\ Quiet(o.hl)
    BY EndingFacts
  <2>10. Prepared(o.hl, st2)
    <3>1. st2[Len(st2)] = f /\ f.fn = Top.fn
      BY <1>1, <1>5, <2>5, <2>6, <2>7
    <3> QED
      BY <2>8, <2>9, <3>1 DEF Prepared
  <2> QED
    BY <2>5, <2>7, <2>10 DEF StackInv
<1>6. CASE ~Top.null
  <2>1. /\ st2 \in Seq(Frames) /\ Len(st2) = n - 1
        /\ \A i \in 1 .. n - 1 : st2[i] = stack[i]
    BY <1>2, <1>6
  <2>2. /\ \A i \in 1 .. n - 2 : st2[i] = stack[i]
        /\ n > 1 => st2[n - 1] = stack[n - 1]
    BY <1>1, <2>1
  <2>3. /\ Nested(o.hl, st2)
        /\ n > 1 => st2[n - 1].pc = "eval"
    <3>1. Len(stack) = n /\ ~stack[n].null
          /\ (n > 1 => Resumes(stack[n], stack[n - 1], st2[n - 1]))
      BY <1>1, <1>6, <2>2 DEF Resumes
    <3> HIDE DEF n
    <3> QED
      <4>1. Popped(n, stack, st2)
        BY ONLY <1>1, <1>3, <2>1, <2>2, <3>1 DEF Popped
      <4>2. Nested(o.hl, st2)
        BY ONLY <1>1, <4>1, PopKeeps
      <4>3. ASSUME n > 1 PROVE st2[n - 1].pc = "eval"
        <5>1. n - 1 \in 1 .. n - 1 /\ (n - 1) + 1 = n
          BY <1>1, <4>3
        <5>2. stack[n - 1].pc = "eval" \/ stack[(n - 1) + 1].null
          BY <1>1, <3>1, <5>1 DEF Nested, Waits
        <5> QED
          BY <2>2, <3>1, <4>3, <5>1, <5>2
      <4> QED
        BY <4>2, <4>3
  <2>4. Prepared(o.hl, st2)
    <3>1. st2 # <<>> => n > 1
      BY <1>1, <2>1, EmptySeq
    <3> QED
      BY <2>1, <2>3, <3>1 DEF Prepared
  <2> QED
    BY <2>1, <2>3, <2>4 DEF StackInv
<1> QED
  BY <1>5, <1>6

LEMMA EndMeasuringStep == IInv /\ EndMeasuring => IInv'
<1> SUFFICES ASSUME IInv, EndMeasuring PROVE IInv'
  OBVIOUS
<1>1. stack # <<>> /\ Top.pc = "stop"
  BY DEF EndMeasuring, At
<1>2. PICK o \in Ends(Top) :
        /\ hl' = o.hl
        /\ \/ /\ o.ok
              /\ ReturnValues(IF Top.burnin THEN Corrected(o.values, Top.b)
                                             ELSE o.values)
           \/ Throw("error", Below) /\ last' = NoResult
  BY DEF EndMeasuring
<1>3. o.hl \in Library /\ Measured(o.hl) /\ Top \in Frames
  BY <1>1, EndingFacts, IInvFacts
<1>4. CASE Throw("error", Below) /\ last' = NoResult
  <2>1. \A i \in 1 .. Len(stack) - 1 : ~Measures(stack[i])
    BY <1>1, OthersWait
  <2> QED
    BY <1>1, <1>2, <1>3, <1>4, <2>1, FailureKeeps
<1> DEFINE values == IF Top.burnin THEN Corrected(o.values, Top.b) ELSE o.values
<1>5. CASE o.ok /\ ReturnValues(values)
  <2>1. values \in Results
    BY <1>1, <1>5, ReturnedType
  <2>2. \/ Top.null /\ stack' = [Below EXCEPT ![Len(Below)].b = values]
        \/ ~Top.null /\ stack' = Below
    BY <1>5 DEF ReturnValues
  <2>3. ASSUME NEW st2,
               \/ Top.null /\ st2 = [Below EXCEPT ![Len(Below)].b = values]
               \/ ~Top.null /\ st2 = Below
        PROVE  StackInv(o.hl, st2) /\ st2 \in Seq(Frames)
    BY <1>1, <1>5, <2>3, ReturnKeeps
  <2> HIDE DEF values
  <2>4. StackInv(o.hl, stack') /\ stack' \in Seq(Frames)
    BY <2>2, <2>3
  <2>5. last' \in [fn : {"none", "event", "stop"} \cup RateModes, evs : Seq(Names),
                   burnin : BOOLEAN, mine : Nat, values : Results]
    <3>1. CASE last' = NoResult
      BY <3>1, NoResultType
    <3>2. CASE last' = [fn |-> Top.fn, evs |-> Top.evs, burnin |-> Top.burnin,
                        mine |-> Top.mine, values |-> values]
      <4>1. /\ Top.fn \in {"none", "event", "stop"} \cup RateModes
            /\ Top.evs \in Seq(Names) /\ Top.burnin \in BOOLEAN /\ Top.mine \in Nat
        BY <1>3, FrameFields
      <4> QED
        BY <2>1, <3>2, <4>1
    <3> QED
      BY <1>5, <3>1, <3>2 DEF ReturnValues
  <2> QED
    BY <1>2, <1>3, <2>4, <2>5 DEF IInv, TypeOK
<1> QED
  BY <1>2, <1>4, <1>5

LEMMA StepIInv == IInv /\ [Next]_vars => IInv'
<1> SUFFICES ASSUME IInv, [Next]_vars PROVE IInv'
  OBVIOUS
<1>1. CASE Probe
  BY <1>1, ProbeStep
<1>2. CASE Unprobe
  BY <1>2, UnprobeStep
<1>3. CASE BurnIn
  BY <1>3, BurnInStep
<1>4. CASE BeginMeasuring
  BY <1>4, BeginMeasuringStep
<1>5. CASE EndMeasuring
  BY <1>5, EndMeasuringStep
<1>6. CASE Finish
  BY <1>6, FinishStep
<1>7. CASE Profile
  BY <1>7, ProfileStep
<1>8. CASE RaiseError
  BY <1>8, RaiseErrorStep
<1>9. CASE Interrupt
  BY <1>9, InterruptStep
<1>10. CASE Compute
  BY <1>10, ComputeStep
<1>11. CASE StartDirectly
  BY <1>11, StartDirectlyStep
<1>12. CASE StopDirectly
  BY <1>12, StopDirectlyStep
<1>13. CASE UNCHANGED vars
  BY <1>13 DEF vars, IInv, TypeOK
<1> QED
  BY <1>1, <1>2, <1>3, <1>4, <1>5, <1>6, <1>7, <1>8, <1>9, <1>10, <1>11, <1>12, <1>13
  DEF Next, ProfilerStep

(* The correction takes the profiler's own unit of work away. *)
LEMMA CorrectedValues ==
  ASSUME NEW f \in Frames, f.burnin, BurntIn(f), f.fn = "event",
         EventValues(f) \in Results
  PROVE  Corrected(EventValues(f), f.b) =
           [i \in 1 .. Len(Unique(f.evs)) |->
              [name |-> Unique(f.evs)[i], code |-> Unique(f.evs)[i], n |-> f.mine]]
<1> DEFINE u == Unique(f.evs)
           v == EventValues(f)
           w == [i \in 1 .. Len(u) |-> [name |-> u[i], code |-> u[i], n |-> f.mine]]
<1>1. Len(f.b) = Len(u) /\ \A i \in 1 .. Len(f.b) : f.b[i].n = 1
  BY DEF BurntIn, ResultLength
<1>2. f.mine \in Nat /\ f.evs \in Seq(Names)
  BY FrameFields
<1>3. u \in Seq(Names) /\ Len(u) \in Nat
  BY <1>2, UniqueType, LenProperties
<1>4. v = [i \in 1 .. Len(u) |-> [name |-> u[i], code |-> u[i], n |-> f.mine + 1]]
  BY DEF EventValues
<1> HIDE DEF v, u
<1>5. Len(v) = Len(u)
  <2>1. v \in Seq(Entries)
    BY DEF v, Results, Entries
  <2>2. DOMAIN v = 1 .. Len(v) /\ Len(v) \in Nat /\ DOMAIN v = 1 .. Len(u)
    BY <1>4, <2>1, LenProperties
  <2> QED
    BY <1>3, <2>2
<1>6. ASSUME NEW i \in 1 .. Len(u)
      PROVE  [v[i] EXCEPT !.n = IF v[i].n > f.b[i].n THEN v[i].n - f.b[i].n ELSE 0]
               = [name |-> u[i], code |-> u[i], n |-> f.mine]
  <2>1. v[i] = [name |-> u[i], code |-> u[i], n |-> f.mine + 1] /\ f.b[i].n = 1
    BY <1>1, <1>4
  <2>2. (IF v[i].n > f.b[i].n THEN v[i].n - f.b[i].n ELSE 0) = f.mine
    BY <1>2, <2>1
  <2> QED
    BY <2>1, <2>2
<1>7. Corrected(v, f.b) =
        [i \in 1 .. Len(u) |->
           [v[i] EXCEPT !.n = IF v[i].n > f.b[i].n THEN v[i].n - f.b[i].n ELSE 0]]
  BY <1>5 DEF Corrected
<1>8. Corrected(v, f.b) = w
  BY <1>6, <1>7
<1> QED
  BY <1>8 DEF u, v

LEMMA FaithfulReturn == IInv /\ EndMeasuring => EventFaithful'
<1> SUFFICES ASSUME IInv, EndMeasuring, last'.fn = "event"
             PROVE  last'.values =
                      [i \in 1 .. Len(Unique(last'.evs)) |->
                         [name |-> Unique(last'.evs)[i], code |-> Unique(last'.evs)[i],
                          n |-> last'.mine + Overhead']]
  BY DEF EventFaithful
<1>1. stack # <<>> /\ Top.pc = "stop"
  BY DEF EndMeasuring, At
<1>2. PICK o \in Ends(Top) :
        \/ /\ o.ok
           /\ ReturnValues(IF Top.burnin THEN Corrected(o.values, Top.b)
                                          ELSE o.values)
        \/ last' = NoResult
  BY DEF EndMeasuring
<1> DEFINE values == IF Top.burnin THEN Corrected(o.values, Top.b) ELSE o.values
<1>3. /\ o.ok
      /\ last' = [fn |-> Top.fn, evs |-> Top.evs, burnin |-> Top.burnin,
                  mine |-> Top.mine, values |-> values]
  <2>1. last' # NoResult
    BY NoResultType
  <2> QED
    BY <1>2, <2>1 DEF ReturnValues
<1>4. /\ Top.fn = "event" /\ Top \in Frames /\ o.values = EventValues(Top)
      /\ o.values \in Results /\ (Top.burnin => BurntIn(Top))
  <2>1. Top.fn = "event" /\ Top \in Frames
    BY <1>1, <1>3, IInvFacts
  <2> QED
    BY <1>1, <1>3, <2>1, EndingFacts
<1>5. CASE Top.burnin
  <2>1. values = [i \in 1 .. Len(Unique(Top.evs)) |->
                    [name |-> Unique(Top.evs)[i], code |-> Unique(Top.evs)[i],
                     n |-> Top.mine]]
    BY <1>4, <1>5, CorrectedValues
  <2>2. Overhead' = 0 /\ Top.mine \in Nat
    BY <1>3, <1>4, <1>5, FrameFields DEF Overhead
  <2> HIDE DEF values
  <2>3. last'.mine + Overhead' = Top.mine /\ last'.values = values /\ last'.evs = Top.evs
    BY <1>3, <2>2
  <2> QED
    BY <2>1, <2>3
<1>6. CASE ~Top.burnin
  <2>1. values = EventValues(Top)
    BY <1>4, <1>6
  <2>2. Overhead' = 1
    BY <1>3, <1>6 DEF Overhead
  <2> HIDE DEF values
  <2>3. last'.mine + Overhead' = Top.mine + 1 /\ last'.values = values /\ last'.evs = Top.evs
    BY <1>3, <2>2
  <2> QED
    BY <2>1, <2>3 DEF EventValues
<1> QED
  BY <1>5, <1>6

LEMMA StepFaithful == IInv /\ EventFaithful /\ [Next]_vars => EventFaithful'
<1> SUFFICES ASSUME IInv, EventFaithful, [Next]_vars PROVE EventFaithful'
  OBVIOUS
<1>1. CASE EndMeasuring
  BY <1>1, FaithfulReturn
<1>2. CASE UNCHANGED vars
  BY <1>2 DEF vars, EventFaithful, Overhead
<1>3. CASE StopDirectly
  <2>1. last'.fn # "event"
    BY <1>3, NoResultType DEF StopDirectly, NoResult
  <2> QED
    BY <2>1 DEF EventFaithful
<1>4. CASE \/ Probe \/ Unprobe \/ BurnIn \/ BeginMeasuring \/ Finish \/ Profile
           \/ RaiseError \/ Interrupt \/ Compute \/ StartDirectly
  <2>1. last' = NoResult
    BY <1>4 DEF Probe, Unprobe, Proceed, BurnIn, BeginMeasuring, Finish, Profile,
                RaiseError, Interrupt, Compute, StartDirectly
  <2> QED
    BY <2>1, NoResultType DEF EventFaithful
<1> QED
  BY <1>1, <1>2, <1>3, <1>4 DEF Next, ProfilerStep

-----------------------------------------------------------------------------
(***************************************************************************)
(* The theorems.                                                           *)
(***************************************************************************)

(* The invariant: the calls on the stack wait for one another, and the     *)
(* counters serve the innermost call of system.event that measures.        *)
THEOREM SessionInvariant == Spec => []IInv
<1>1. Init => IInv
  BY InitIInv
<1>2. IInv /\ [Next]_vars => IInv'
  BY StepIInv
<1> QED
  BY <1>1, <1>2, PTL DEF Spec

(* The profilers keep the state well-formed: whatever an R session does,   *)
(* the library, the stack of calls and the values returned have the types  *)
(* of the model (the counts stay natural numbers: Corrected never goes     *)
(* below 0).                                                               *)
THEOREM SessionTypeCorrect == Spec => []TypeOK
<1>1. IInv => TypeOK
  BY DEF IInv
<1> QED
  BY <1>1, SessionInvariant, PTL

(* system.event (R/papi_event.r) always returns the counts of its own      *)
(* expression, one per event under the event's name: for every platform,   *)
(* every list of events, every nesting of the profilers, every error and   *)
(* interrupt, and whatever hardware call fails.                            *)
THEOREM SessionEventFaithful == Spec => []EventFaithful
<1>1. Init => EventFaithful
  BY NoResultType DEF Init, EventFaithful
<1>2. IInv /\ EventFaithful /\ [Next]_vars => EventFaithful'
  BY StepFaithful
<1> QED
  BY <1>1, <1>2, SessionInvariant, PTL DEF Spec
=============================================================================
