------------------------------ MODULE GlueProofs ----------------------------
(***************************************************************************)
(* What each call of pbdPAPI's glue does to the library and what it        *)
(* returns, for every platform, every kind of fault and all arguments.     *)
(***************************************************************************)
EXTENDS Glue, LibraryProofs, FiniteSetTheorems, WellFoundedInduction

-----------------------------------------------------------------------------
(***************************************************************************)
(* papi.event.init: dropping repeated events.                              *)
(***************************************************************************)

LEMMA LeastNatural ==
  ASSUME NEW T, T \subseteq Nat, T # {}
  PROVE  \E x \in T : \A y \in T : x <= y
<1> DEFINE R == {ss \in Nat \X Nat : ss[1] < ss[2]}
<1>1. IsWellFoundedOn(R, Nat)
  BY NatLessThanWellFounded DEF OpToRel
<1>2. PICK x \in T : \A y \in T : <<y, x>> \notin R
  <2> HIDE DEF R
  <2> QED
    BY <1>1, WFMin
<1>3. \A y \in T : ~(y < x)
  BY <1>2
<1> QED
  BY <1>3

LEMMA GreatestNatural ==
  ASSUME NEW n \in Nat, NEW T, T \subseteq 1 .. n, T # {}
  PROVE  \E x \in T : \A y \in T : y <= x
<1> DEFINE U == {k \in Nat : n - k \in T}
<1>1. U \subseteq Nat /\ U # {}
  <2>1. PICK t \in T : TRUE
    OBVIOUS
  <2>2. n - t \in U
    BY <2>1
  <2> QED
    BY <2>2
<1>2. PICK k \in U : \A l \in U : k <= l
  <2> HIDE DEF U
  <2> QED
    BY <1>1, LeastNatural
<1>3. ASSUME NEW y \in T PROVE y <= n - k
  <2>1. n - y \in Nat /\ n - (n - y) = y
    OBVIOUS
  <2>2. n - y \in U
    BY <2>1
  <2>3. k <= n - y /\ k \in Nat
    BY <1>2, <2>2
  <2> QED
    BY <2>3
<1> QED
  BY <1>2, <1>3

(* The members of a finite set of indices are numbered without a gap. *)
Before(F, i) == {j \in F : j < i}

LEMMA RankExists ==
  ASSUME NEW n \in Nat, NEW F, F \subseteq 1 .. n, NEW k \in Nat,
         k < Cardinality(F)
  PROVE  \E i \in F : Cardinality(Before(F, i)) = k
<1> DEFINE before(i) == {j \in F : j < i}
           G == {i \in F : Cardinality(before(i)) >= k}
<1>0. \A i \in F : i \in Nat
  OBVIOUS
<1>1. IsFiniteSet(F) /\ Cardinality(F) \in Nat
  <2>1. IsFiniteSet(1 .. n)
    BY FS_Interval
  <2>2. IsFiniteSet(F)
    BY <2>1, FS_Subset
  <2> QED
    BY <2>2, FS_CardinalityType
<1>2. \A i \in F : IsFiniteSet(before(i)) /\ Cardinality(before(i)) \in Nat
  <2> SUFFICES ASSUME NEW i \in F
               PROVE  IsFiniteSet(before(i)) /\ Cardinality(before(i)) \in Nat
    OBVIOUS
  <2>1. before(i) \in SUBSET F
    OBVIOUS
  <2>2. IsFiniteSet(before(i))
    BY <1>1, <2>1, FS_Subset
  <2> QED
    BY <2>2, FS_CardinalityType
<1>3. G # {}
  <2>1. F # {}
    BY <1>1, FS_EmptySet
  <2>2. PICK m \in F : \A y \in F : y <= m
    BY <2>1, GreatestNatural
  <2>3. before(m) = F \ {m}
    <3>1. \A y \in F : y < m <=> y # m
      BY <1>0, <2>2
    <3> QED
      BY <3>1
  <2>4. Cardinality(F \ {m}) = Cardinality(F) - 1
    BY <1>1, <2>2, FS_RemoveElement
  <2>5. Cardinality(before(m)) >= k
    BY <1>1, <2>3, <2>4
  <2> QED
    BY <2>2, <2>5
<1>4. PICK m \in G : \A y \in G : m <= y
  <2>1. G \subseteq Nat
    BY <1>0
  <2> HIDE DEF G
  <2> QED
    BY <1>3, <2>1, LeastNatural
<1>5. m \in F /\ Cardinality(before(m)) >= k
  BY <1>4
<1>6. before(m) = {} => Cardinality(before(m)) = k
  <2>0. SUFFICES ASSUME before(m) = {} PROVE Cardinality(before(m)) = k
    OBVIOUS
  <2>1. Cardinality(before(m)) = 0
    BY <2>0, FS_EmptySet
  <2> HIDE DEF before
  <2> QED
    BY <1>5, <2>1
<1>7. ASSUME before(m) # {} PROVE Cardinality(before(m)) = k
  <2>1. before(m) \subseteq 1 .. n
    OBVIOUS
  <2>2. PICK p \in before(m) : \A y \in before(m) : y <= p
    <3> HIDE DEF before
    <3> QED
      BY <1>7, <2>1, GreatestNatural
  <2>3. p \in F /\ p < m /\ before(p) = before(m) \ {p}
    <3>1. p \in F /\ p < m
      BY <2>2
    <3>2. \A y \in F : y < p <=> y < m /\ y # p
      <4>1. ASSUME NEW y \in F, y < m, y # p PROVE y < p
        BY <1>0, <2>2, <3>1, <4>1
      <4> QED
        BY <1>0, <1>5, <3>1, <4>1
    <3> QED
      BY <3>1, <3>2
  <2>4. Cardinality(before(m) \ {p}) = Cardinality(before(m)) - 1
    BY <1>2, <1>5, <2>2, FS_RemoveElement
  <2>5. p \notin G
    BY <1>4, <2>3
  <2>6. ~(Cardinality(before(p)) >= k)
    BY <2>3, <2>5
  <2> QED
    BY <1>2, <1>5, <2>3, <2>4, <2>6
<1>8. Cardinality(before(m)) = k
  BY <1>6, <1>7
<1>9. before(m) = Before(F, m)
  BY DEF Before
<1> QED
  BY <1>5, <1>8, <1>9

(* What papi.event.init leaves are events of the request. *)
LEMMA UniqueType ==
  ASSUME NEW S, NEW evs \in Seq(S)
  PROVE  Unique(evs) \in Seq(S)
<1> DEFINE first == FirstOccurrences(evs)
           before(i) == Cardinality({j \in first : j < i})
           pick(k) == CHOOSE i \in first : before(i) = k - 1
           n == Cardinality(first)
<1>1. Len(evs) \in Nat /\ \A i \in 1 .. Len(evs) : evs[i] \in S
  BY LenProperties, ElementOfSeq
<1>2. first \subseteq 1 .. Len(evs)
  BY DEF FirstOccurrences
<1>3. n \in Nat
  <2>1. IsFiniteSet(1 .. Len(evs))
    BY <1>1, FS_Interval
  <2>2. IsFiniteSet(first)
    BY <1>2, <2>1, FS_Subset
  <2> QED
    BY <2>2, FS_CardinalityType
<1>4. \A k \in 1 .. n : evs[pick(k)] \in S
  <2> SUFFICES ASSUME NEW k \in 1 .. n PROVE evs[pick(k)] \in S
    OBVIOUS
  <2> DEFINE l == k - 1
  <2>1. l \in Nat /\ l < Cardinality(first)
    BY <1>3
  <2> HIDE DEF first, l
  <2>2. PICK i \in first : Cardinality(Before(first, i)) = l
    BY <1>1, <1>2, <2>1, RankExists
  <2>3. before(i) = k - 1
    BY <2>2 DEF l, Before
  <2>4. pick(k) \in first
    BY <2>3
  <2> HIDE DEF pick
  <2> QED
    BY <1>1, <1>2, <2>4
<1>5. Unique(evs) = [k \in 1 .. n |-> evs[pick(k)]]
  BY DEF Unique
<1> HIDE DEF pick, n
<1>6. Unique(evs) \in [1 .. n -> S]
  BY <1>4, <1>5
<1> QED
  BY <1>3, <1>6, SeqDef

-----------------------------------------------------------------------------
(***************************************************************************)
(* _internal_check_state: once initialised, the library stays initialised, *)
(* and a call that succeeds has initialised it.                            *)
(***************************************************************************)

LEMMA StartCheckedReady ==
  ASSUME NEW s \in Library, s.ready, NEW evs, NEW o \in StartChecked(s, evs)
  PROVE  o.hl.ready
<1>1. CASE s.running # "STOP"
  BY <1>1 DEF StartChecked, Returning, Reply
<1>2. CASE s.running = "STOP"
  <2>1. PICK a \in AddEach(s.es, evs) :
          o \in CASE a.ret = "OK"     -> StartLoaded(s, a.es, Len(evs))
                  [] a.ret = "EISRUN" -> {Returning("EISRUN", s)}
                  [] OTHER            -> {Returning(a.ret, CleanedUp(s, a.es))}
    BY <1>2 DEF StartChecked
  <2>2. CASE a.ret = "OK"
    <3>1. PICK b \in Start(a.es) :
            o = Returning(b.ret,
                  IF b.ret = "OK"
                    THEN [s EXCEPT !.running = "START", !.numEvts = Len(evs), !.es = b.es]
                    ELSE [s EXCEPT !.es = b.es])
      BY <2>1, <2>2 DEF StartLoaded
    <3> QED
      BY <3>1 DEF Library, Returning, Reply
  <2>3. CASE a.ret = "EISRUN"
    BY <2>1, <2>3 DEF Returning, Reply
  <2>4. CASE a.ret # "OK" /\ a.ret # "EISRUN"
    <3>1. o = Returning(a.ret, CleanedUp(s, a.es))
      BY <2>1, <2>4
    <3> QED
      BY <3>1 DEF Returning, Reply, CleanedUp, Library
  <2> QED
    BY <2>2, <2>3, <2>4
<1> QED
  BY <1>1, <1>2

LEMMA StartCountersReady ==
  ASSUME NEW s \in Library, NEW evs, NEW o \in StartCounters(s, evs)
  PROVE  (s.ready \/ o.ret = "OK") => o.hl.ready
<1>1. CheckState(s) \in Library /\ CheckState(s).ready
  BY CheckFacts DEF CheckState, Library
<1>2. CASE o = Returning("EINVAL", s) \/ o \in CheckFails(s)
  <2>1. PICK ret \in {"EINVAL", "ESYS"} : o = Returning(ret, s)
    BY <1>2, CheckFacts
  <2>2. o.ret # "OK" /\ o.hl = s
    BY <2>1, ReturningFields
  <2> QED
    BY <2>2
<1>3. CASE o \in StartChecked(CheckState(s), evs)
  BY <1>1, <1>3, StartCheckedReady
<1> QED
  BY <1>2, <1>3 DEF StartCounters

LEMMA StopCheckedReady ==
  ASSUME NEW s \in Library, s.ready, NEW len, NEW o \in StopChecked(s, len)
  PROVE  o.hl.ready
<1>1. CASE s.running = "STOP" \/ (s.running = "START" /\ len < s.numEvts)
  BY <1>1 DEF StopChecked, Returning, Reply
<1>2. CASE s.running # "STOP" /\ ~(s.running = "START" /\ len < s.numEvts)
  <2>1. PICK p \in Stop(s.es) :
          o = IF p.ret = "OK"
                THEN Reply("OK", CleanedUp(s, p.es),
                           IF s.running = "START" THEN p.values ELSE <<>>, 0, 0)
                ELSE Returning(p.ret, [s EXCEPT !.es = p.es])
    BY <1>2 DEF StopChecked
  <2>2. CASE p.ret = "OK"
    <3>1. o.hl = CleanedUp(s, p.es)
      BY <2>1, <2>2 DEF Reply
    <3> QED
      BY <3>1 DEF CleanedUp, Library
  <2>3. CASE p.ret # "OK"
    <3>1. o.hl = [s EXCEPT !.es = p.es]
      BY <2>1, <2>3, ReturningFields
    <3> QED
      BY <3>1 DEF Library
  <2> QED
    BY <2>2, <2>3
<1> QED
  BY <1>1, <1>2

LEMMA StopCountersReady ==
  ASSUME NEW s \in Library, NEW len, NEW o \in StopCounters(s, len)
  PROVE  (s.ready \/ o.ret = "OK") => o.hl.ready
<1>1. CheckState(s) \in Library /\ CheckState(s).ready
  BY CheckFacts DEF CheckState, Library
<1>2. CASE o \in CheckFails(s)
  BY <1>2, CheckFacts
<1>3. CASE o \in StopChecked(CheckState(s), len)
  BY <1>1, <1>3, StopCheckedReady
<1> QED
  BY <1>2, <1>3 DEF StopCounters

(* Nothing but a failing hardware call keeps PAPI_stop_counters from       *)
(* stopping counters that run, when the array is long enough.              *)
LEMMA StopCountersSucceeds ==
  ASSUME NEW s \in Library, s.ready, s.running # "STOP", s.es.running,
         NEW len \in Nat, s.running = "START" => s.numEvts <= len,
         "stop" \notin Faults, NEW o \in StopCounters(s, len)
  PROVE  o.ret = "OK"
<1> DEFINE c == CheckState(s)
<1>1. c \in Library /\ Kept(s, c)
  BY CheckFacts
<1>2. c.running = s.running /\ c.es = s.es /\ c.numEvts = s.numEvts
  BY <1>1 DEF Kept
<1>3. o \in StopChecked(c, len)
  BY DEF StopCounters, CheckFails
<1> HIDE DEF c
<1>4. ~(c.running = "START" /\ len < c.numEvts) /\ c.running # "STOP"
  BY <1>1, <1>2 DEF Library
<1>5. PICK p \in Stop(c.es) :
        o = IF p.ret = "OK"
              THEN Reply("OK", CleanedUp(c, p.es),
                         IF c.running = "START" THEN p.values ELSE <<>>, 0, 0)
              ELSE Returning(p.ret, [c EXCEPT !.es = p.es])
  BY <1>3, <1>4 DEF StopChecked
<1>6. c.es \in EventSets /\ c.es.running
  BY <1>1, <1>2 DEF Library
<1>7. p.ret = "OK"
  BY <1>5, <1>6, StopFacts
<1> QED
  BY <1>5, <1>7, ReplyFields
(* The rate calls. *)
LEMMA RateCheckedReady ==
  ASSUME NEW s \in Library, s.ready, NEW mode, NEW evs, NEW o \in RateChecked(s, mode, evs)
  PROVE  o.hl.ready
<1>1. CASE o \in RateBegin(s, mode, evs)
  <2>1. PICK a \in AddEvents(s.es, evs) :
          o \in IF a.ret = "OK" THEN RateStart(s, a.es, mode)
                ELSE {Returning(a.ret, CleanedUp(s, a.es))}
    BY <1>1 DEF RateBegin
  <2>2. CASE a.ret # "OK"
    <3>1. o.hl = CleanedUp(s, a.es)
      BY <2>1, <2>2, ReturningFields
    <3> QED
      BY <3>1 DEF CleanedUp, Library
  <2>3. CASE a.ret = "OK"
    <3>1. PICK b \in Start(a.es) :
            o = Returning(b.ret,
                  [s EXCEPT !.running = IF b.ret = "OK" THEN mode ELSE @,
                            !.totalIns = 0, !.age = 0, !.es = b.es])
      BY <2>1, <2>3 DEF RateStart
    <3> QED
      BY <3>1 DEF Returning, Reply, Library
  <2> QED
    BY <2>2, <2>3
<1>2. CASE o \in RateReport(s)
  <2>1. PICK p \in Stop(s.es) :
          o \in IF p.ret = "OK" THEN RateRestart(s, p)
                ELSE {Returning(p.ret, [s EXCEPT !.running = "STOP", !.es = p.es])}
    BY <1>2 DEF RateReport
  <2>2. CASE p.ret # "OK"
    <3>1. o.hl = [s EXCEPT !.running = "STOP", !.es = p.es]
      BY <2>1, <2>2, ReturningFields
    <3> QED
      BY <3>1 DEF Library
  <2>3. CASE p.ret = "OK"
    <3> DEFINE total == s.totalIns + p.values[1].n
    <3>1. PICK b \in Start(p.es) :
            o = IF b.ret = "OK"
                  THEN Reply("OK", [s EXCEPT !.totalIns = total, !.es = b.es],
                             p.values, total, s.age)
                  ELSE Returning(b.ret, [s EXCEPT !.running = "STOP", !.totalIns = total,
                                                  !.es = b.es])
      BY <2>1, <2>3 DEF RateRestart
    <3> HIDE DEF total
    <3>2. \/ o.hl = [s EXCEPT !.totalIns = total, !.es = b.es]
          \/ o.hl = [s EXCEPT !.running = "STOP", !.totalIns = total, !.es = b.es]
      BY <3>1, ReplyFields, ReturningFields
    <3> QED
      BY <3>2 DEF Library
  <2> QED
    BY <2>2, <2>3
<1>3. CASE o = Returning("EINVAL", s)
  BY <1>3, ReturningFields
<1> QED
  BY <1>1, <1>2, <1>3 DEF RateChecked

LEMMA RateCallReady ==
  ASSUME NEW s \in Library, NEW mode, NEW evs, NEW o \in RateCall(s, mode, evs)
  PROVE  (s.ready \/ o.ret = "OK") => o.hl.ready
<1>1. CheckState(s) \in Library /\ CheckState(s).ready
  BY CheckFacts DEF CheckState, Library
<1>2. CASE o \in CheckFails(s)
  BY <1>2, CheckFacts
<1>3. CASE o \in RateChecked(CheckState(s), mode, evs)
  BY <1>1, <1>3, RateCheckedReady
<1> QED
  BY <1>2, <1>3 DEF RateCall

(* A rate call is refused while another interface measures. *)
LEMMA RateCallRefused ==
  ASSUME NEW s \in Library, NEW mode, s.running # "STOP", s.running # mode,
         NEW evs, NEW o \in RateCall(s, mode, evs)
  PROVE  o.ret # "OK" /\ Kept(s, o.hl)
<1> DEFINE c == CheckState(s)
<1>1. c \in Library /\ Kept(s, c)
  BY CheckFacts
<1>2. c.running = s.running
  BY <1>1 DEF Kept
<1>3. CASE o \in CheckFails(s)
  <2>1. o.ret = "ESYS" /\ Kept(s, o.hl)
    BY <1>3, CheckFacts
  <2> QED
    BY <2>1
<1>4. CASE o \in RateChecked(c, mode, evs)
  <2> HIDE DEF c
  <2>1. o = Returning("EINVAL", c)
    BY <1>2, <1>4 DEF RateChecked
  <2>2. o.ret = "EINVAL" /\ o.hl = c
    BY <2>1, ReturningFields
  <2> QED
    BY <1>1, <2>2
<1> QED
  BY <1>3, <1>4 DEF RateCall

(* Nothing but a failing hardware call keeps a later rate call of a        *)
(* measurement from delivering.                                            *)
LEMMA RateCallSucceeds ==
  ASSUME NEW s \in Library, Measured(s), s.ready, s.running \in RateModes,
         "start" \notin Faults, "stop" \notin Faults,
         NEW evs, NEW o \in RateCall(s, s.running, evs)
  PROVE  o.ret = "OK"
<1> DEFINE c == CheckState(s)
<1>1. c \in Library /\ Kept(s, c)
  BY CheckFacts
<1>2. Measured(c) /\ c.running = s.running
  BY <1>1 DEF Measured, Kept
<1>3. o \in RateChecked(c, s.running, evs)
  BY DEF RateCall, CheckFails
<1> HIDE DEF c
<1>4. c.running # "STOP" /\ c.running \in RateModes
  BY <1>2 DEF RateModes
<1>5. o \in RateReport(c)
  BY <1>2, <1>3, <1>4 DEF RateChecked
<1> QED
  BY <1>1, <1>2, <1>4, <1>5, RateReportFacts

-----------------------------------------------------------------------------
(***************************************************************************)
(* papi.start and papi.stop.                                               *)
(***************************************************************************)

LEMMA KeptFacts ==
  ASSUME NEW s \in Library, NEW t \in Library, Kept(s, t)
  PROVE  /\ Measured(s) => Measured(t)
         /\ Quiet(s) => Quiet(t)
         /\ t.running = s.running /\ t.es = s.es /\ t.numEvts = s.numEvts
BY DEF Kept, Measured, Quiet

LEMMA EnoughCountersFacts ==
  ASSUME NEW s \in Library, NEW n, NEW c \in EnoughCounters(s, n)
  PROVE  /\ c.hl \in Library /\ Kept(s, c.hl)
         /\ (s.ready \/ c.ok) => c.hl.ready
<1>1. PICK d \in NumCountersCall(s) :
        c = Ended(d.ret = "OK" /\ n <= NumCounters, d.hl, <<>>)
  BY DEF EnoughCounters
<1>2. d \in LibraryReplies /\ Kept(s, d.hl)
  BY <1>1, NumCountersFacts
<1>3. (s.ready \/ d.ret = "OK") => d.hl.ready
  <2>1. CASE d \in CheckFails(s)
    BY <2>1, CheckFacts
  <2>2. CASE d = Returning("OK", CheckState(s))
    BY <2>2, ReturningFields DEF CheckState, Library
  <2> QED
    BY <1>1, <2>1, <2>2 DEF NumCountersCall
<1>4. c.hl = d.hl /\ (c.ok => d.ret = "OK")
  BY <1>1 DEF Ended
<1> QED
  BY <1>2, <1>3, <1>4 DEF LibraryReplies

LEMMA KnownUnique ==
  ASSUME NEW evs \in Seq(Names), Known(evs)
  PROVE  evs \in Seq(Codes) /\ Unique(evs) \in Seq(Codes) /\ Len(Unique(evs)) \in Nat
<1>1. Len(evs) \in Nat /\ evs \in [1 .. Len(evs) -> Names]
  BY LenProperties
<1>2. evs \in [1 .. Len(evs) -> Codes]
  BY <1>1 DEF Known
<1>3. evs \in Seq(Codes)
  BY <1>1, <1>2, SeqDef
<1>4. Unique(evs) \in Seq(Codes)
  BY <1>3, UniqueType
<1> QED
  BY <1>3, <1>4, LenProperties

(* papi.start begins to measure the distinct requested events, or leaves   *)
(* what is being measured alone.                                           *)
LEMMA PapiStartFacts ==
  ASSUME NEW s \in Library, Measured(s), NEW evs \in Seq(Names),
         NEW o \in PapiStart(s, evs)
  PROVE  /\ o.hl \in Library /\ Measured(o.hl)
         /\ o.ok => /\ Known(evs) /\ s.running = "STOP"
                    /\ o.hl.running = "START" /\ o.hl.es.count = 0
                    /\ o.hl.es.events = s.es.events \o Unique(evs)
                    /\ o.hl.numEvts = Len(Unique(evs))
                    /\ o.hl.ready
         /\ s.running # "STOP" =>
              ~o.ok /\ o.hl.running = s.running /\ o.hl.es = s.es
              /\ o.hl.numEvts = s.numEvts
         /\ ~o.ok => o.hl.running = s.running
         /\ ~o.ok /\ Quiet(s) /\ "start" \notin Faults => Quiet(o.hl)
         /\ s.ready => o.hl.ready
<1>1. PICK c \in EnoughCounters(s, Len(evs)) :
        o \in IF ~c.ok \/ ~Known(evs) THEN {Raised(c.hl)}
              ELSE {Ended(r.ret = "OK", r.hl, <<>>) :
                      r \in StartCounters(c.hl, Unique(evs))}
  BY DEF PapiStart
<1>2. c.hl \in Library /\ Kept(s, c.hl) /\ ((s.ready \/ c.ok) => c.hl.ready)
  BY <1>1, EnoughCountersFacts
<1>3. /\ Measured(c.hl) /\ (Quiet(s) => Quiet(c.hl))
      /\ c.hl.running = s.running /\ c.hl.es = s.es /\ c.hl.numEvts = s.numEvts
  BY <1>2, KeptFacts
<1>4. CASE ~c.ok \/ ~Known(evs)
  <2>1. o = Raised(c.hl)
    BY <1>1, <1>4
  <2>2. ~o.ok /\ o.hl = c.hl
    BY <2>1 DEF Raised, Ended
  <2> QED
    BY <1>2, <1>3, <2>2
<1>5. CASE c.ok /\ Known(evs)
  <2>1. PICK r \in StartCounters(c.hl, Unique(evs)) : o = Ended(r.ret = "OK", r.hl, <<>>)
    BY <1>1, <1>5
  <2>2. (o.ok <=> r.ret = "OK") /\ o.hl = r.hl
    BY <2>1 DEF Ended
  <2>3. Unique(evs) \in Seq(Codes)
    BY <1>5, KnownUnique
  <2>4. r \in LibraryReplies
    BY <1>2, <2>1, <2>3, StartCountersFacts
  <2>5. r.hl \in Library /\ r.hl.ready
    BY <1>2, <1>5, <2>1, <2>4, StartCountersReady DEF LibraryReplies
  <2>6. CASE r.ret = "OK"
    <3>1. /\ c.hl.running = "STOP" /\ r.hl.running = "START"
          /\ r.hl.es.running /\ r.hl.es.count = 0
          /\ r.hl.es.events = c.hl.es.events \o Unique(evs)
          /\ r.hl.es.events # <<>>
          /\ r.hl.numEvts = Len(Unique(evs))
      <4> DEFINE t == c.hl
                 u == Unique(evs)
      <4>1. t \in Library /\ u \in Seq(Codes) /\ r \in StartCounters(t, u)
        BY <1>2, <2>1, <2>3
      <4> HIDE DEF t, u
      <4>2. /\ t.running = "STOP" /\ r.hl.running = "START"
            /\ r.hl.es.running /\ r.hl.es.count = 0
            /\ r.hl.es.events = t.es.events \o u
            /\ r.hl.es.events # <<>>
            /\ r.hl.numEvts = Len(u)
        BY <2>6, <4>1, StartCountersFacts
      <4> QED
        BY <4>2 DEF t, u
    <3> QED
      BY <1>3, <1>5, <2>2, <2>5, <2>6, <3>1 DEF Measured
  <2>7. CASE r.ret # "OK"
    <3>1. /\ c.hl.running # "STOP" => Kept(c.hl, r.hl)
          /\ c.hl.running = "STOP" => r.hl.running = "STOP"
          /\ Quiet(c.hl) /\ "start" \notin Faults => Quiet(r.hl)
      BY <1>2, <2>1, <2>3, <2>7, StartCountersFacts
    <3>2. Measured(r.hl)
      BY <1>2, <1>3, <2>5, <3>1, KeptFacts DEF Measured
    <3>3. c.hl.running # "STOP" => /\ r.hl.running = s.running /\ r.hl.es = s.es
                                   /\ r.hl.numEvts = s.numEvts
      BY <1>2, <1>3, <2>5, <3>1, KeptFacts
    <3> QED
      BY <1>2, <1>3, <2>2, <2>5, <2>7, <3>1, <3>2, <3>3
  <2> QED
    BY <2>6, <2>7
<1> QED
  BY <1>4, <1>5

(* papi.stop stops the counters and returns their numbers under the names  *)
(* of its argument, or raises an error; after an unknown name it may have  *)
(* stopped them all the same.                                              *)
LEMMA PapiStopFacts ==
  ASSUME NEW s \in Library, Measured(s), NEW evs \in Seq(Names),
         NEW o \in PapiStop(s, evs)
  PROVE  /\ o.hl \in Library /\ Measured(o.hl)
         /\ o.ok => /\ Known(evs) /\ s.running # "STOP"
                    /\ o.hl.running = "STOP" /\ Quiet(o.hl)
                    /\ o.values =
                         NamedValues(Unique(evs),
                                     IF s.running = "START" THEN Reading(s.es) ELSE <<>>)
         /\ Kept(s, o.hl) \/ (o.hl.running = "STOP" /\ Quiet(o.hl))
         /\ s.ready => o.hl.ready
<1>1. PICK n \in Nat : \E r \in StopCounters(s, n) :
        \/ ~Known(evs) /\ o = Raised(r.hl)
        \/ Known(evs) /\ r.ret = "OK" /\ o = Ended(TRUE, r.hl, NamedValues(Unique(evs), r.values))
        \/ Known(evs) /\ r.ret # "OK" /\ o = Raised(r.hl)
  <2>1. CASE ~Known(evs)
    BY <2>1 DEF PapiStop
  <2>2. CASE Known(evs)
    <3>1. Len(Unique(evs)) \in Nat
      BY <2>2, KnownUnique
    <3> QED
      BY <2>2, <3>1 DEF PapiStop
  <2> QED
    BY <2>1, <2>2
<1>2. PICK r \in StopCounters(s, n) :
        \/ ~Known(evs) /\ o = Raised(r.hl)
        \/ Known(evs) /\ r.ret = "OK" /\ o = Ended(TRUE, r.hl, NamedValues(Unique(evs), r.values))
        \/ Known(evs) /\ r.ret # "OK" /\ o = Raised(r.hl)
  BY <1>1
<1>3. /\ o.hl = r.hl
      /\ o.ok => Known(evs) /\ r.ret = "OK" /\ o.values = NamedValues(Unique(evs), r.values)
  BY <1>2 DEF Ended, Raised
<1>4. r \in LibraryReplies
  BY <1>1, <1>2, StopCountersFacts
<1>5. r.hl \in Library /\ (s.ready => r.hl.ready)
  BY <1>2, <1>4, StopCountersReady DEF LibraryReplies
<1>6. CASE r.ret = "OK"
  <2>1. /\ s.running # "STOP"
        /\ r.hl.running = "STOP" /\ Quiet(r.hl)
        /\ r.values = IF s.running = "START" THEN Reading(s.es) ELSE <<>>
    BY <1>1, <1>2, <1>6, StopCountersFacts
  <2> QED
    BY <1>3, <1>5, <2>1 DEF Measured
<1>7. CASE r.ret # "OK"
  <2>1. Kept(s, r.hl)
    BY <1>1, <1>2, <1>7, StopCountersFacts
  <2>2. Measured(r.hl)
    BY <1>5, <2>1, KeptFacts
  <2> QED
    BY <1>3, <1>5, <1>7, <2>1, <2>2
<1> QED
  BY <1>6, <1>7

(* papi.stop succeeds with the events papi.start was given. *)
LEMMA PapiStopSucceeds ==
  ASSUME NEW s \in Library, Measured(s), s.ready, s.running = "START",
         NEW evs \in Seq(Names), Known(evs), s.numEvts = Len(Unique(evs)),
         "stop" \notin Faults, NEW o \in PapiStop(s, evs)
  PROVE  o.ok
<1> DEFINE n == Len(Unique(evs))
<1>1. n \in Nat
  BY KnownUnique
<1>2. PICK r \in StopCounters(s, n) :
        o = IF r.ret = "OK" THEN Ended(TRUE, r.hl, NamedValues(Unique(evs), r.values))
            ELSE Raised(r.hl)
  BY DEF PapiStop
<1>3. s.es.running /\ s.running # "STOP" /\ s.numEvts <= n
  BY <1>1 DEF Measured
<1> HIDE DEF n
<1>4. r.ret = "OK"
  BY <1>1, <1>2, <1>3, StopCountersSucceeds
<1> QED
  BY <1>2, <1>4 DEF Ended

(* The list has an entry for every name. *)
LEMMA NamedValuesFacts ==
  ASSUME NEW evs \in Seq(Codes), NEW values \in Values
  PROVE  /\ Len(NamedValues(evs, values)) = Len(evs)
         /\ NamedValues(evs, values) \in Seq([name : Codes, code : Codes \cup {NoEvent}, n : Nat])
<1> DEFINE entry(i) ==
     IF i <= Len(values)
       THEN [name |-> evs[i], code |-> values[i].code, n |-> values[i].n]
       ELSE [name |-> evs[i], code |-> NoEvent, n |-> 0]
    E == [name : Codes, code : Codes \cup {NoEvent}, n : Nat]
<1>1. Len(evs) \in Nat /\ Len(values) \in Nat
  BY LenProperties DEF Values
<1>2. ASSUME NEW i \in 1 .. Len(evs) PROVE entry(i) \in E
  <2>1. evs[i] \in Codes
    BY ElementOfSeq
  <2>2. CASE i <= Len(values)
    <3>1. i \in 1 .. Len(values)
      BY <1>1, <2>2
    <3>2. values[i] \in [code : Codes, n : Nat]
      BY <3>1, ElementOfSeq DEF Values
    <3> QED
      BY <2>1, <2>2, <3>2
  <2>3. CASE ~(i <= Len(values))
    BY <2>1, <2>3
  <2> QED
    BY <2>2, <2>3
<1>3. NamedValues(evs, values) = [i \in 1 .. Len(evs) |-> entry(i)]
  BY DEF NamedValues
<1> HIDE DEF entry, E
<1>4. NamedValues(evs, values) \in [1 .. Len(evs) -> E]
  BY <1>2, <1>3
<1>5. NamedValues(evs, values) \in Seq(E)
  BY <1>1, <1>4, SeqDef
<1>6. Len(NamedValues(evs, values)) = Len(evs)
  BY <1>1, <1>4, <1>5, LenProperties
<1> QED
  BY <1>5, <1>6 DEF E

(* With what the hardware reports for just these events every name has its *)
(* own number.                                                             *)
LEMMA NamedReading ==
  ASSUME NEW es \in EventSets
  PROVE  NamedValues(es.events, Reading(es)) =
           [i \in 1 .. Len(es.events) |->
              [name |-> es.events[i], code |-> es.events[i], n |-> es.count]]
<1>1. es.events \in Seq(Codes) /\ Len(es.events) \in Nat
  BY LenProperties DEF EventSets
<1>2. Len(Reading(es)) = Len(es.events)
  BY ReadingType
<1>3. ASSUME NEW i \in 1 .. Len(es.events)
      PROVE  /\ i <= Len(Reading(es))
             /\ Reading(es)[i].code = es.events[i] /\ Reading(es)[i].n = es.count
  BY <1>1, <1>2 DEF Reading
<1> QED
  BY <1>1, <1>3 DEF NamedValues

-----------------------------------------------------------------------------
(***************************************************************************)
(* The functions papi_*_on and papi_*_off.                                 *)
(***************************************************************************)

LEMMA RateOnFacts ==
  ASSUME NEW s \in Library, Measured(s), NEW mode \in RateModes,
         NEW event \in Codes \cup {NoEvent}, NEW o \in RateOn(s, mode, event)
  PROVE  /\ o.hl \in Library /\ Measured(o.hl)
         /\ s.running # "STOP" /\ s.running # mode =>
              ~o.ok /\ o.hl.running = s.running /\ o.hl.es = s.es
         /\ s.ready => o.hl.ready
         /\ o.ok => o.hl.ready
         /\ o.ok /\ s.running = "STOP" =>
              /\ o.hl.running = mode /\ o.hl.totalIns = 0 /\ o.hl.es.count = 0
              /\ o.hl.es.events = s.es.events \o RateEvents(mode, event)
         /\ ~o.ok /\ s.running = "STOP" /\ Quiet(s)
              /\ "start" \notin Faults /\ "stop" \notin Faults /\ ~Uninit =>
              o.hl.running = "STOP" /\ Quiet(o.hl)
<1> DEFINE evs == RateEvents(mode, event)
<1>0. evs \in Seq(Codes) /\ evs # <<>>
  BY RateEventsType
<1>1. PICK c \in EnoughCounters(s, 3) :
        o \in IF ~c.ok THEN {Raised(c.hl)}
              ELSE UNION {{Ended(r.ret = "OK", r.hl, <<>>)}
                          \cup (IF Uninit /\ mode # "IPC" THEN {Raised(r.hl)} ELSE {}) :
                            r \in RateCall(c.hl, mode, evs)}
  BY DEF RateOn
<1> HIDE DEF evs
<1>2. c.hl \in Library /\ Kept(s, c.hl) /\ ((s.ready \/ c.ok) => c.hl.ready)
  BY <1>1, EnoughCountersFacts
<1>3. /\ Measured(c.hl) /\ (Quiet(s) => Quiet(c.hl))
      /\ c.hl.running = s.running /\ c.hl.es = s.es
  BY <1>2, KeptFacts
<1>4. CASE ~c.ok
  <2>1. o = Raised(c.hl)
    BY <1>1, <1>4
  <2>2. ~o.ok /\ o.hl = c.hl
    BY <2>1 DEF Raised, Ended
  <2> QED
    BY <1>2, <1>3, <2>2
<1>5. CASE c.ok
  <2>1. PICK r \in RateCall(c.hl, mode, evs) :
          \/ o = Ended(r.ret = "OK", r.hl, <<>>)
          \/ Uninit /\ o = Raised(r.hl)
    BY <1>1, <1>5
  <2>2. o.hl = r.hl /\ (o.ok => r.ret = "OK") /\ (~Uninit /\ r.ret = "OK" => o.ok)
    <3>1. CASE o = Ended(r.ret = "OK", r.hl, <<>>)
      BY <3>1 DEF Ended
    <3>2. CASE Uninit /\ o = Raised(r.hl)
      <4>1. o.hl = r.hl /\ ~o.ok
        BY <3>2 DEF Ended, Raised
      <4> QED
        BY <3>2, <4>1
    <3> QED
      BY <2>1, <3>1, <3>2
  <2> DEFINE t == c.hl
  <2>3. t \in Library /\ Measured(t) /\ t.ready /\ r \in RateCall(t, mode, evs)
        /\ t.running = s.running /\ t.es = s.es /\ (Quiet(s) => Quiet(t))
    BY <1>2, <1>3, <1>5, <2>1
  <2> HIDE DEF t
  <2>4. r \in LibraryReplies
    BY <1>0, <2>3, RateCallFacts
  <2>5. r.hl \in Library /\ r.hl.ready
    BY <2>3, <2>4, RateCallReady DEF LibraryReplies
  <2>6. CASE t.running # "STOP" /\ t.running # mode
    <3>1. r.ret # "OK" /\ Kept(t, r.hl)
      BY <2>3, <2>6, RateCallRefused
    <3>2. Measured(r.hl) /\ r.hl.running = t.running /\ r.hl.es = t.es
      BY <2>3, <2>5, <3>1, KeptFacts
    <3> QED
      BY <2>2, <2>3, <2>5, <2>6, <3>1, <3>2
  <2>7. CASE t.running = "STOP"
    <3>1. r.ret = "OK" =>
            /\ r.hl.running = mode /\ r.hl.totalIns = 0
            /\ r.hl.es.running /\ r.hl.es.count = 0
            /\ r.hl.es.events = t.es.events \o evs
            /\ r.hl.es.events # <<>>
      <4>1. t \in Library /\ Measured(t) /\ evs \in Seq(Codes) /\ r \in RateCall(t, mode, evs)
        BY <1>0, <2>3
      <4> QED
        BY <2>7, <4>1, RateCallFacts
    <3>2. r.ret # "OK" => Kept(t, r.hl) \/ r.hl.running = "STOP"
      BY <1>0, <2>3, RateCallFacts
    <3>3. r.ret # "OK" /\ "start" \notin Faults /\ "stop" \notin Faults =>
            Kept(t, r.hl) \/ (r.hl.running = "STOP" /\ (Quiet(t) => Quiet(r.hl)))
      BY <1>0, <2>3, RateCallFacts
    <3>4. Measured(r.hl)
      BY <2>3, <2>5, <2>7, <3>1, <3>2, KeptFacts DEF Measured
    <3>5. Kept(t, r.hl) => (Quiet(t) => Quiet(r.hl)) /\ r.hl.running = "STOP"
      BY <2>3, <2>5, <2>7, KeptFacts
    <3> QED
      BY <2>2, <2>3, <2>5, <2>7, <3>1, <3>3, <3>4, <3>5 DEF evs
  <2>8. CASE t.running = mode /\ t.running # "STOP"
    <3>1. r.ret = "OK" => r.hl.es.running /\ r.hl.es.events = t.es.events
      BY <1>0, <2>3, <2>8, RateCallFacts
    <3>2. r.ret # "OK" => Kept(t, r.hl) \/ r.hl.running = "STOP"
      BY <1>0, <2>3, RateCallFacts
    <3>3. t.es.events # <<>>
      BY <2>3, <2>8 DEF Measured
    <3>4. Measured(r.hl)
      BY <2>3, <2>5, <3>1, <3>2, <3>3, KeptFacts DEF Measured
    <3> QED
      BY <2>2, <2>3, <2>5, <2>8, <3>4
  <2> QED
    BY <2>6, <2>7, <2>8
<1> QED
  BY <1>4, <1>5

LEMMA RateOffFacts ==
  ASSUME NEW s \in Library, Measured(s), NEW mode \in RateModes,
         NEW event \in Codes \cup {NoEvent}, NEW o \in RateOff(s, mode, event)
  PROVE  /\ o.hl \in Library /\ Measured(o.hl)
         /\ s.ready => o.hl.ready
         /\ o.ok => \E r \in LibraryReplies :
              /\ o.values = RateList(mode, r)
              /\ s.running = mode =>
                   r.values = Reading(s.es) /\ r.ins = s.totalIns + s.es.count
         /\ s.running = mode /\ s.ready /\ "start" \notin Faults /\ "stop" \notin Faults =>
              o.ok /\ o.hl.running = "STOP" /\ Quiet(o.hl)
<1> DEFINE evs == RateEvents(mode, event)
           n   == StopLength(mode)
<1>0. evs \in Seq(Codes) /\ n \in Nat /\ mode # "STOP" /\ mode # "START"
  BY RateEventsType DEF StopLength, RateModes
<1>1. PICK r \in RateCall(s, mode, evs) : \E p \in StopCounters(r.hl, n) :
        o = Ended(r.ret = "OK", p.hl, IF r.ret = "OK" THEN RateList(mode, r) ELSE <<>>)
  BY DEF RateOff
<1>2. PICK p \in StopCounters(r.hl, n) :
        o = Ended(r.ret = "OK", p.hl, IF r.ret = "OK" THEN RateList(mode, r) ELSE <<>>)
  BY <1>1
<1> HIDE DEF evs, n
<1>3. /\ o.hl = p.hl /\ (o.ok <=> r.ret = "OK")
      /\ r.ret = "OK" => o.values = RateList(mode, r)
  BY <1>2 DEF Ended
<1>4. r \in LibraryReplies
  BY <1>0, <1>1, RateCallFacts
<1>5. r.hl \in Library
  BY <1>4 DEF LibraryReplies
<1> DEFINE t == r.hl
<1>6. t \in Library /\ p \in StopCounters(t, n) /\ (s.ready => t.ready)
  BY <1>1, <1>2, <1>5, RateCallReady
<1>7. /\ r.ret = "OK" /\ s.running = "STOP" => t.es.running /\ t.es.events # <<>>
      /\ r.ret = "OK" /\ s.running # "STOP" =>
           t.es.running /\ t.es.events = s.es.events /\ t.running = mode
           /\ r.values = Reading(s.es) /\ r.ins = s.totalIns + s.es.count
  BY <1>0, <1>1, RateCallFacts
<1>8. r.ret # "OK" => Kept(s, t) \/ t.running = "STOP"
  BY <1>0, <1>1, RateCallFacts
<1> HIDE DEF t
<1>9. Measured(t)
  BY <1>6, <1>7, <1>8, KeptFacts DEF Measured
<1>10. p \in LibraryReplies
  BY <1>0, <1>6, StopCountersFacts
<1>11. p.hl \in Library /\ (t.ready => p.hl.ready)
  BY <1>6, <1>10, StopCountersReady DEF LibraryReplies
<1>12. /\ p.ret = "OK" => p.hl.running = "STOP" /\ Quiet(p.hl)
       /\ p.ret # "OK" => Kept(t, p.hl)
  BY <1>0, <1>6, StopCountersFacts
<1>13. Measured(p.hl)
  BY <1>6, <1>9, <1>11, <1>12, KeptFacts DEF Measured
<1>14. ASSUME s.running = mode, s.ready, "start" \notin Faults, "stop" \notin Faults
       PROVE  o.ok /\ o.hl.running = "STOP" /\ Quiet(o.hl)
  <2>1. r.ret = "OK"
    BY <1>1, <1>14, RateCallSucceeds
  <2>2. t.es.running /\ t.running = mode /\ t.ready
    BY <1>0, <1>6, <1>7, <1>14, <2>1
  <2>3. p.ret = "OK"
    BY <1>0, <1>6, <1>14, <2>2, StopCountersSucceeds
  <2> QED
    BY <1>3, <1>12, <2>1, <2>3
<1>15. o.ok => \E q \in LibraryReplies :
                 /\ o.values = RateList(mode, q)
                 /\ s.running = mode =>
                      q.values = Reading(s.es) /\ q.ins = s.totalIns + s.es.count
  BY <1>0, <1>3, <1>4, <1>7
<1> QED
  BY <1>3, <1>6, <1>11, <1>13, <1>14, <1>15
=============================================================================
