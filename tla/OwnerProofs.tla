----------------------------- MODULE OwnerProofs ----------------------------
(***************************************************************************)
(* Who has the counters: theorems about sessions that keep to what the     *)
(* package's documentation shows.  Sessions that use system.event only,    *)
(* with errors on every level, never lose or share the counters; sessions  *)
(* that measure one expression after another get from the rate functions   *)
(* the counts of these very expressions.                                   *)
(***************************************************************************)
EXTENDS SessionProofs

-----------------------------------------------------------------------------
(***************************************************************************)
(* Sessions of system.event: the invariant.                                *)
(***************************************************************************)

(* No other profiler, no interrupt, no bare papi.start and papi.stop, and  *)
(* the hardware stops when it is told to.                                  *)
EventsOnly ==
  /\ Profilers \subseteq {"event"}
  /\ "interrupt" \notin Happens /\ "direct" \notin Happens
  /\ "stop" \notin Faults

(* A call that has started the counters and not yet stopped them. *)
Holds(f) == f.pc \in {"unprobe", "eval", "stop"}

(* Call k has the counters, and its papi.stop will fit them. *)
OwnedBy(s, st, k) ==
  /\ Known(st[k].evs) /\ s.numEvts = Len(Unique(st[k].evs))
  /\ \A i \in 1 .. Len(st) : Holds(st[i]) <=> i = k

Owners(s, st) ==
  /\ \A i \in 1 .. Len(st) : st[i].fn = "event"
  /\ \/ s.running = "STOP" /\ \A i \in 1 .. Len(st) : ~Holds(st[i])
     \/ /\ s.running = "START" /\ s.ready
        /\ \E k \in 1 .. Len(st) : OwnedBy(s, st, k)

(* What the owner relies on is the same in s and in t. *)
Agree(s, t) ==
  /\ t.running = s.running
  /\ s.running # "STOP" => t.numEvts = s.numEvts /\ (s.ready => t.ready)

(* f and g are the same call, and both or none have the counters. *)
Alike(f, g) == g.fn = f.fn /\ g.evs = f.evs /\ (Holds(g) <=> Holds(f))

LEMMA OwnersKeep ==
  ASSUME NEW s, NEW t, NEW st \in Seq(Frames), NEW st2 \in Seq(Frames),
         Owners(s, st), Agree(s, t), Len(st2) = Len(st),
         \A i \in 1 .. Len(st) : Alike(st[i], st2[i])
  PROVE  Owners(t, st2)
<1>1. \A i \in 1 .. Len(st2) : st2[i].fn = "event"
  BY DEF Owners, Alike
<1>2. CASE s.running = "STOP" /\ \A i \in 1 .. Len(st) : ~Holds(st[i])
  BY <1>1, <1>2 DEF Owners, Alike, Agree
<1>3. CASE /\ s.running = "START" /\ s.ready
           /\ \E k \in 1 .. Len(st) : OwnedBy(s, st, k)
  <2>1. PICK k \in 1 .. Len(st) : OwnedBy(s, st, k)
    BY <1>3
  <2>2. t.running = "START" /\ t.ready /\ t.numEvts = s.numEvts
    BY <1>3 DEF Agree
  <2>3. st2[k].evs = st[k].evs /\ k \in 1 .. Len(st2)
    BY DEF Alike
  <2>4. \A i \in 1 .. Len(st2) : Holds(st2[i]) <=> i = k
    BY <2>1 DEF OwnedBy, Alike
  <2>5. OwnedBy(t, st2, k)
    BY <2>1, <2>2, <2>3, <2>4 DEF OwnedBy
  <2> QED
    BY <1>1, <2>2, <2>3, <2>5 DEF Owners
<1> QED
  BY <1>2, <1>3 DEF Owners

(* The owner is on top exactly when the top call holds. *)
LEMMA OwnersFacts ==
  ASSUME NEW s, NEW st \in Seq(Frames), Owners(s, st), st # <<>>
  PROVE  /\ Holds(st[Len(st)]) =>
              /\ s.running = "START" /\ s.ready /\ Known(st[Len(st)].evs)
              /\ s.numEvts = Len(Unique(st[Len(st)].evs))
              /\ \A i \in 1 .. Len(st) - 1 : ~Holds(st[i])
         /\ s.running = "STOP" => \A i \in 1 .. Len(st) : ~Holds(st[i])
         /\ st[Len(st)].fn = "event"
<1> DEFINE n == Len(st)
<1>1. n \in Nat /\ n \in 1 .. n
  BY TopFacts
<1>2. \A k \in 1 .. n : OwnedBy(s, st, k) => \A i \in 1 .. n : Holds(st[i]) <=> i = k
  BY DEF OwnedBy
<1>3. ASSUME Holds(st[n])
      PROVE  /\ s.running = "START" /\ s.ready
             /\ Known(st[n].evs) /\ s.numEvts = Len(Unique(st[n].evs))
             /\ \A i \in 1 .. n - 1 : ~Holds(st[i])
  <2>1. PICK k \in 1 .. n : s.running = "START" /\ s.ready /\ OwnedBy(s, st, k)
    BY <1>1, <1>3 DEF Owners
  <2>2. k = n
    BY <1>1, <1>2, <1>3, <2>1
  <2>3. \A i \in 1 .. n - 1 : i \in 1 .. n /\ i # n
    BY <1>1
  <2>4. \A i \in 1 .. n - 1 : ~Holds(st[i])
    BY <1>2, <2>1, <2>2, <2>3
  <2> QED
    BY <2>1, <2>2, <2>4 DEF OwnedBy
<1>4. s.running = "STOP" => \A i \in 1 .. n : ~Holds(st[i])
  BY DEF Owners
<1> QED
  BY <1>1, <1>3, <1>4 DEF Owners

(* Call f ends: it has released the counters, or never had them. *)
Leaves(s, t, f) ==
  \/ ~Holds(f) /\ Agree(s, t)
  \/ Holds(f) /\ t.running = "STOP"

LEMMA OwnersBelow ==
  ASSUME NEW s, NEW t, NEW st \in Seq(Frames), Owners(s, st), st # <<>>,
         Leaves(s, t, st[Len(st)])
  PROVE  /\ Owners(t, SubSeq(st, 1, Len(st) - 1))
         /\ SubSeq(st, 1, Len(st) - 1) \in Seq(Frames)
<1> DEFINE n == Len(st)
           b == SubSeq(st, 1, n - 1)
<1>l. \/ ~Holds(st[n]) /\ Agree(s, t)
      \/ Holds(st[n]) /\ t.running = "STOP"
  BY DEF Leaves
<1> USE <1>l
<1>1. /\ n \in Nat /\ n \in 1 .. n /\ n - 1 \in 0 .. n /\ n - 1 \in Nat
      /\ \A i \in 1 .. n - 1 : i \in 1 .. n /\ i # n
  BY TopFacts
<1>2. /\ b \in Seq(Frames) /\ Len(b) = n - 1
      /\ \A i \in 1 .. n - 1 : b[i] = st[i]
  BY <1>1, BelowFacts
<1>3. \A i \in 1 .. Len(b) : b[i].fn = "event"
  BY <1>1, <1>2 DEF Owners
<1>4. CASE t.running = "STOP" /\ \A i \in 1 .. n - 1 : ~Holds(st[i])
  BY <1>2, <1>3, <1>4 DEF Owners
<1>5. CASE ~Holds(st[n]) /\ Agree(s, t) /\ t.running # "STOP"
  <2>1. PICK k \in 1 .. n : s.running = "START" /\ s.ready /\ OwnedBy(s, st, k)
    BY <1>5 DEF Owners, Agree
  <2>2. k \in 1 .. n - 1
    BY <1>1, <1>5, <2>1 DEF OwnedBy
  <2>3. OwnedBy(t, b, k)
    BY <1>1, <1>2, <1>5, <2>1, <2>2 DEF OwnedBy, Agree
  <2> QED
    BY <1>2, <1>3, <1>5, <2>1, <2>2, <2>3 DEF Owners, Agree
<1>6. t.running = "STOP" => \A i \in 1 .. n - 1 : ~Holds(st[i])
  <2>1. CASE Holds(st[n])
    BY <2>1, OwnersFacts
  <2>2. CASE ~Holds(st[n])
    <3>1. t.running = "STOP" => \A i \in 1 .. n : ~Holds(st[i])
      BY <2>2, OwnersFacts DEF Agree
    <3> QED
      BY <1>1, <3>1
  <2> QED
    BY <2>1, <2>2
<1> QED
  BY <1>2, <1>4, <1>5, <1>6

(* An error does not unwind the owner: tryCatch keeps it. *)
LEMMA OwnersUnwound ==
  ASSUME NEW t, NEW frames \in Seq(Frames), Owners(t, frames),
         \A i \in 1 .. Len(frames) : Holds(frames[i]) => frames[i].pc = "eval",
         NEW kind \in {"error", "other"},
         NEW m \in 0 .. Len(frames), NEW st2, Unwound(frames, kind, m, st2)
  PROVE  Owners(t, st2)
<1>1. /\ st2 \in Seq(Frames) /\ Len(st2) = m /\ m \in Nat /\ Len(frames) \in Nat
      /\ \A i \in 1 .. m - 1 : st2[i] = frames[i]
      /\ \A i \in m + 1 .. Len(frames) : ~TryCatches(frames[i], kind)
      /\ m > 0 => m \in 1 .. Len(frames)
  BY TopFacts DEF Unwound
<1>2. m > 0 => /\ frames[m].pc = "eval" /\ Holds(frames[m])
               /\ st2[m].fn = frames[m].fn /\ st2[m].evs = frames[m].evs
               /\ Holds(st2[m])
  <2> SUFFICES ASSUME m > 0
               PROVE  /\ frames[m].pc = "eval" /\ Holds(frames[m])
                      /\ st2[m].fn = frames[m].fn /\ st2[m].evs = frames[m].evs
                      /\ Holds(st2[m])
    OBVIOUS
  <2>1. frames[m] \in Frames
    BY <1>1, TopFacts
  <2>2. /\ frames[m].pc = "eval"
        /\ \/ st2[m] = frames[m]
           \/ st2[m] = [frames[m] EXCEPT !.pc = "stop", !.err = kind]
    BY DEF Unwound
  <2> QED
    BY <2>1, <2>2 DEF Holds, Frames
<1>3. \A i \in 1 .. m : st2[i].fn = "event"
  <2> SUFFICES ASSUME NEW i \in 1 .. m PROVE st2[i].fn = "event"
    OBVIOUS
  <2>1. i \in 1 .. Len(frames) /\ (i = m \/ i \in 1 .. m - 1)
    BY <1>1
  <2> QED
    BY <1>1, <1>2, <2>1 DEF Owners
<1>4. CASE t.running = "STOP" /\ \A i \in 1 .. Len(frames) : ~Holds(frames[i])
  <2>1. m = 0
    BY <1>1, <1>2, <1>4
  <2> QED
    BY <1>1, <1>3, <1>4, <2>1 DEF Owners
<1>5. CASE /\ t.running = "START" /\ t.ready
           /\ \E k \in 1 .. Len(frames) : OwnedBy(t, frames, k)
  <2>1. PICK k \in 1 .. Len(frames) : OwnedBy(t, frames, k)
    BY <1>5
  <2>2. Holds(frames[k]) /\ frames[k].pc = "eval" /\ frames[k].fn = "event"
    BY <2>1 DEF OwnedBy, Owners
  <2>3. TryCatches(frames[k], kind)
    BY <2>2 DEF TryCatches
  <2>4. k = m
    <3>1. k <= m
      BY <1>1, <2>3
    <3>2. m > 0 => m = k
      BY <1>1, <1>2, <2>1 DEF OwnedBy
    <3> QED
      BY <1>1, <3>1, <3>2
  <2>5. \A i \in 1 .. m : Holds(st2[i]) <=> i = k
    <3> SUFFICES ASSUME NEW i \in 1 .. m PROVE Holds(st2[i]) <=> i = k
      OBVIOUS
    <3>1. i \in 1 .. Len(frames) /\ (i = m \/ (i \in 1 .. m - 1 /\ i # m))
      BY <1>1
    <3>2. Holds(frames[i]) <=> i = k
      BY <2>1, <3>1 DEF OwnedBy
    <3> QED
      BY <1>1, <1>2, <2>4, <3>1, <3>2
  <2>6. OwnedBy(t, st2, k)
    BY <1>1, <1>2, <2>1, <2>4, <2>5 DEF OwnedBy
  <2>7. k \in 1 .. Len(st2)
    BY <1>1, <2>4
  <2> QED
    BY <1>1, <1>3, <1>5, <2>6, <2>7 DEF Owners
<1> QED
  BY <1>4, <1>5 DEF Owners

-----------------------------------------------------------------------------
(***************************************************************************)
(* Sessions of system.event: the steps.                                    *)
(***************************************************************************)

LEMMA BelowOwners ==
  ASSUME IInv, Owners(hl, stack), stack # <<>>, NEW t,
         Leaves(hl, t, Top)
  PROVE  /\ Owners(t, Below) /\ Below \in Seq(Frames)
         /\ \A i \in 1 .. Len(Below) : Holds(Below[i]) => Below[i].pc = "eval"
<1> DEFINE n == Len(stack)
<1>1. /\ stack \in Seq(Frames) /\ Nested(hl, stack) /\ n \in Nat /\ n # 0
      /\ n - 1 \in 0 .. n /\ Top = stack[n] /\ Below = SubSeq(stack, 1, n - 1)
  BY IInvFacts DEF Below
<1>2. Owners(t, Below) /\ Below \in Seq(Frames)
  BY <1>1, OwnersBelow
<1>3. Len(Below) = n - 1 /\ \A i \in 1 .. n - 1 : Below[i] = stack[i]
  BY <1>1, BelowFacts
<1>4. \A i \in 1 .. n - 1 : stack[i].pc \in {"eval", "start"}
  BY <1>1 DEF Nested, Waits
<1>5. \A i \in 1 .. Len(Below) : Holds(Below[i]) => Below[i].pc = "eval"
  BY <1>3, <1>4 DEF Holds
<1> QED
  BY <1>2, <1>5

LEMMA FailureOwners ==
  ASSUME IInv, Owners(hl, stack), stack # <<>>, Throw("error", Below),
         Leaves(hl, hl', Top)
  PROVE  Owners(hl', stack')
<1>1. /\ Owners(hl', Below) /\ Below \in Seq(Frames)
      /\ \A i \in 1 .. Len(Below) : Holds(Below[i]) => Below[i].pc = "eval"
  BY BelowOwners
<1>2. PICK m \in 0 .. Len(Below) : Unwound(Below, "error", m, stack')
  BY <1>1, ThrowFacts
<1> QED
  BY <1>1, <1>2, OwnersUnwound

(* The top call goes on to pc; the calls below it stay as they are. *)
LEMMA MovedFacts ==
  ASSUME IInv, stack # <<>>,
         NEW pc \in {"probe", "unprobe", "burnin", "start", "eval", "stop"},
         NEW g, Moved(stack, pc, g)
  PROVE  /\ g \in Seq(Frames) /\ Len(g) = Len(stack)
         /\ \A i \in 1 .. Len(stack) - 1 : g[i] = stack[i]
         /\ g[Len(stack)].pc = pc /\ g[Len(stack)].fn = Top.fn
         /\ g[Len(stack)].evs = Top.evs
<1>1. /\ stack \in Seq(Frames) /\ Top = stack[Len(stack)] /\ Top \in Frames
  BY IInvFacts
<1>2. /\ g \in Seq(Frames) /\ Len(g) = Len(stack)
      /\ \A i \in 1 .. Len(stack) - 1 : g[i] = stack[i]
      /\ g[Len(stack)] = GoneTo(Top, pc)
  BY <1>1, GotoFacts
<1>3. /\ GoneTo(Top, pc).pc = pc /\ GoneTo(Top, pc).fn = Top.fn
      /\ GoneTo(Top, pc).evs = Top.evs
  BY <1>1 DEF GoneTo, Frames
<1> QED
  BY <1>2, <1>3

LEMMA ProbeOwners ==
  ASSUME IInv, Owners(hl, stack), Probe
  PROVE  Owners(hl', stack')
<1> DEFINE n == Len(stack)
<1>1. /\ stack # <<>> /\ Top.pc = "probe" /\ ~Holds(Top)
  BY DEF Probe, At, Holds
<1>2. PICK o \in PapiStart(hl, Top.evs) : Proceed(o, "unprobe")
  BY DEF Probe
<1>3. /\ hl \in Library /\ Measured(hl) /\ stack \in Seq(Frames)
      /\ Top \in Frames /\ Top.evs \in Seq(Names) /\ Top = stack[n]
      /\ n \in Nat /\ n \in 1 .. n
  BY <1>1, IInvFacts, FrameFields
<1>4. hl' = o.hl
  BY <1>2 DEF Proceed
<1>5. CASE ~o.ok /\ Throw("error", Below)
  <2>1. Leaves(hl, hl', Top)
    BY <1>1, <1>2, <1>3, <1>4, <1>5, PapiStartFacts DEF Agree, Leaves
  <2> QED
    BY <1>1, <1>5, <2>1, FailureOwners
<1>6. CASE o.ok /\ stack' = Goto("unprobe")
  <2>1. /\ Known(Top.evs) /\ hl.running = "STOP" /\ o.hl.running = "START"
        /\ o.hl.numEvts = Len(Unique(Top.evs)) /\ o.hl.ready
    BY <1>2, <1>3, <1>6, PapiStartFacts
  <2>2. Moved(stack, "unprobe", stack')
    BY <1>6 DEF Moved, Goto
  <2>3. /\ stack' \in Seq(Frames) /\ Len(stack') = n
        /\ \A i \in 1 .. n - 1 : stack'[i] = stack[i]
        /\ stack'[n].pc = "unprobe" /\ stack'[n].fn = Top.fn /\ stack'[n].evs = Top.evs
    BY <1>1, <2>2, MovedFacts
  <2>4. \A i \in 1 .. n : ~Holds(stack[i]) /\ stack[i].fn = "event"
    BY <2>1 DEF Owners
  <2>5. \A i \in 1 .. n : stack'[i].fn = "event" /\ (Holds(stack'[i]) <=> i = n)
    <3> SUFFICES ASSUME NEW i \in 1 .. n
                 PROVE  stack'[i].fn = "event" /\ (Holds(stack'[i]) <=> i = n)
      OBVIOUS
    <3>1. CASE i = n
      BY <1>3, <2>3, <2>4, <3>1 DEF Holds
    <3>2. CASE i # n
      <4>1. i \in 1 .. n - 1
        BY <1>3, <3>2
      <4> QED
        BY <2>3, <2>4, <3>2, <4>1
    <3> QED
      BY <3>1, <3>2
  <2>6. OwnedBy(o.hl, stack', n)
    BY <2>1, <2>3, <2>5 DEF OwnedBy
  <2> QED
    BY <1>3, <1>4, <2>1, <2>3, <2>5, <2>6 DEF Owners
<1> QED
  BY <1>2, <1>5, <1>6 DEF Proceed

(* papi.stop succeeds for the call that has the counters. *)
LEMMA OwnerStops ==
  ASSUME IInv, Owners(hl, stack), EventsOnly, stack # <<>>, Holds(Top),
         NEW o \in PapiStop(hl, Top.evs)
  PROVE  o.ok /\ o.hl.running = "STOP"
<1>1. /\ hl \in Library /\ Measured(hl) /\ stack \in Seq(Frames) /\ Top = stack[Len(stack)]
      /\ Top \in Frames /\ Top.evs \in Seq(Names)
  BY IInvFacts, FrameFields
<1>2. /\ hl.running = "START" /\ hl.ready /\ Known(Top.evs)
      /\ hl.numEvts = Len(Unique(Top.evs))
  BY <1>1, OwnersFacts
<1>3. o.ok
  BY <1>1, <1>2, PapiStopSucceeds DEF EventsOnly
<1> QED
  BY <1>1, <1>3, PapiStopFacts

LEMMA UnprobeOwners ==
  ASSUME IInv, Owners(hl, stack), EventsOnly, Unprobe
  PROVE  Owners(hl', stack')
<1> DEFINE n == Len(stack)
           pc == AfterProbe(Top.burnin)
<1>1. stack # <<>> /\ Top.pc = "unprobe" /\ Holds(Top)
  BY DEF Unprobe, At, Holds
<1>2. PICK o \in PapiStop(hl, Top.evs) : Proceed(o, pc)
  BY DEF Unprobe
<1>3. o.ok /\ o.hl.running = "STOP"
  BY <1>1, <1>2, OwnerStops
<1>4. stack' = Goto(pc) /\ hl' = o.hl /\ pc \in {"burnin", "start"}
  BY <1>2, <1>3 DEF Proceed, AfterProbe
<1> HIDE DEF pc
<1>5. Moved(stack, pc, stack')
  BY <1>4 DEF Moved, Goto
<1>6. /\ stack' \in Seq(Frames) /\ Len(stack') = n
      /\ \A i \in 1 .. n - 1 : stack'[i] = stack[i]
      /\ stack'[n].pc = pc /\ stack'[n].fn = Top.fn
  BY <1>1, <1>4, <1>5, MovedFacts
<1>7. stack \in Seq(Frames) /\ Top = stack[n] /\ n \in Nat
  BY <1>1, IInvFacts
<1>8. Top.fn = "event" /\ \A i \in 1 .. n - 1 : ~Holds(stack[i])
  BY <1>1, <1>7, OwnersFacts
<1>9. \A i \in 1 .. n : stack'[i].fn = "event" /\ ~Holds(stack'[i])
  <2> SUFFICES ASSUME NEW i \in 1 .. n PROVE stack'[i].fn = "event" /\ ~Holds(stack'[i])
    OBVIOUS
  <2>1. CASE i = n
    BY <1>4, <1>6, <1>8, <2>1 DEF Holds
  <2>2. CASE i # n
    <3>1. i \in 1 .. n - 1 /\ stack[i].fn = "event"
      BY <1>7, <2>2 DEF Owners
    <3> QED
      BY <1>6, <1>8, <3>1
  <2> QED
    BY <2>1, <2>2
<1> QED
  BY <1>3, <1>4, <1>6, <1>9 DEF Owners

LEMMA AppendOwners ==
  ASSUME NEW s, NEW st \in Seq(Frames), Owners(s, st), NEW f \in Frames,
         f.fn = "event", ~Holds(f)
  PROVE  Owners(s, Append(st, f))
<1> DEFINE n   == Len(st)
           st2 == Append(st, f)
<1>1. /\ n \in Nat /\ Len(st2) = n + 1
      /\ \A i \in 1 .. n : st2[i] = st[i]
      /\ st2[n + 1] = f
  BY TopFacts, AppendProperties
<1> HIDE DEF st2
<1>2. \A i \in 1 .. n + 1 : i \in 1 .. n \/ i = n + 1
  BY <1>1
<1>3. \A i \in 1 .. n + 1 : st2[i].fn = "event"
  BY <1>1, <1>2 DEF Owners
<1>4. CASE s.running = "STOP" /\ \A i \in 1 .. n : ~Holds(st[i])
  BY <1>1, <1>2, <1>3, <1>4 DEF Owners, st2
<1>5. CASE /\ s.running = "START" /\ s.ready
           /\ \E k \in 1 .. n : OwnedBy(s, st, k)
  <2>1. PICK k \in 1 .. n : OwnedBy(s, st, k)
    BY <1>5
  <2>2. k \in 1 .. n + 1 /\ k # n + 1
    BY <1>1
  <2>3. \A i \in 1 .. n + 1 : Holds(st2[i]) <=> i = k
    BY <1>1, <1>2, <2>1, <2>2 DEF OwnedBy
  <2>4. OwnedBy(s, st2, k)
    BY <1>1, <2>1, <2>3 DEF OwnedBy
  <2> QED
    BY <1>1, <1>3, <1>5, <2>2, <2>4 DEF Owners, st2
<1> QED
  BY <1>4, <1>5 DEF Owners

LEMMA MovedOwners ==
  ASSUME IInv, Owners(hl, stack), stack # <<>>,
         NEW pc \in {"probe", "unprobe", "burnin", "start", "eval", "stop"},
         pc \in {"unprobe", "eval", "stop"} <=> Holds(Top),
         NEW g, Moved(stack, pc, g)
  PROVE  Owners(hl, g) /\ g \in Seq(Frames)
<1> DEFINE n == Len(stack)
<1>1. stack \in Seq(Frames) /\ Top = stack[n] /\ n \in Nat
  BY IInvFacts
<1>2. /\ g \in Seq(Frames) /\ Len(g) = n
      /\ \A i \in 1 .. n - 1 : g[i] = stack[i]
      /\ g[n].pc = pc /\ g[n].fn = Top.fn /\ g[n].evs = Top.evs
  BY MovedFacts
<1>3. \A i \in 1 .. n : Alike(stack[i], g[i])
  <2> SUFFICES ASSUME NEW i \in 1 .. n PROVE Alike(stack[i], g[i])
    OBVIOUS
  <2>1. CASE i = n
    BY <1>1, <1>2, <2>1 DEF Alike, Holds
  <2>2. CASE i # n
    <3>1. i \in 1 .. n - 1
      BY <1>1, <2>2
    <3> QED
      BY <1>2, <3>1 DEF Alike
  <2> QED
    BY <2>1, <2>2
<1>4. Agree(hl, hl)
  BY DEF Agree
<1> QED
  BY <1>1, <1>2, <1>3, <1>4, OwnersKeep

LEMMA BurnInOwners ==
  ASSUME IInv, Owners(hl, stack), BurnIn
  PROVE  Owners(hl', stack')
<1> DEFINE g == Goto("start")
           f == NewFrame(Top.fn, Top.evs, FALSE, TRUE)
<1>1. /\ stack # <<>> /\ Top.pc = "burnin" /\ ~Holds(Top) /\ hl' = hl
      /\ stack' = Append(g, f)
  BY DEF BurnIn, At, Holds
<1>2. stack \in Seq(Frames) /\ Top = stack[Len(stack)] /\ Top \in Frames
  BY <1>1, IInvFacts
<1>3. Top.fn = "event"
  BY <1>1, <1>2, OwnersFacts
<1>4. f.fn = "event" /\ f.pc = "probe" /\ ~Holds(f)
  BY <1>3 DEF NewFrame, Holds
<1>5. f \in Frames
  <2>1. <<>> \in Results
    BY DEF Results
  <2>2. f = [fn |-> "event", evs |-> Top.evs, burnin |-> FALSE, null |-> TRUE,
             pc |-> "probe", b |-> <<>>, err |-> "none", mine |-> 0]
    BY <1>3 DEF NewFrame
  <2> HIDE DEF f
  <2> QED
    BY <1>2, <2>1, <2>2, FrameFields DEF Frames
<1>6. Moved(stack, "start", g)
  BY DEF Moved, Goto
<1> HIDE DEF g, f
<1>7. Owners(hl, g) /\ g \in Seq(Frames)
  <2> DEFINE pc == "start"
  <2>1. /\ pc \in {"probe", "unprobe", "burnin", "start", "eval", "stop"}
        /\ pc \in {"unprobe", "eval", "stop"} <=> Holds(Top)
        /\ Moved(stack, pc, g)
    BY <1>1, <1>6
  <2> HIDE DEF pc
  <2> QED
    BY <1>1, <2>1, MovedOwners
<1>8. Owners(hl, Append(g, f))
  BY <1>4, <1>5, <1>7, AppendOwners
<1> QED
  BY <1>1, <1>8

LEMMA FinishOwners ==
  ASSUME IInv, Owners(hl, stack), Finish
  PROVE  Owners(hl', stack')
<1>1. /\ stack # <<>> /\ Holds(Top) /\ hl' = hl /\ Moved(stack, "stop", stack')
  BY DEF Finish, At, Holds, Moved, Goto
<1> DEFINE pc == "stop"
<1>2. /\ pc \in {"probe", "unprobe", "burnin", "start", "eval", "stop"}
      /\ pc \in {"unprobe", "eval", "stop"} <=> Holds(Top)
      /\ Moved(stack, pc, stack')
  BY <1>1
<1> HIDE DEF pc
<1> QED
  BY <1>1, <1>2, MovedOwners

LEMMA ProfileOwners ==
  ASSUME IInv, Owners(hl, stack), EventsOnly, Profile
  PROVE  Owners(hl', stack')
<1>1. PICK fn \in Profilers : \E evs \in Arguments(fn), burnin \in BOOLEAN :
        stack' = Append(stack, NewFrame(fn, evs, burnin, FALSE))
  BY DEF Profile
<1>2. PICK evs \in Arguments(fn), burnin \in BOOLEAN :
        stack' = Append(stack, NewFrame(fn, evs, burnin, FALSE))
  BY <1>1
<1> DEFINE f == NewFrame(fn, evs, burnin, FALSE)
<1>3. f \in Frames
  BY NewCall
<1>4. f.fn = "event" /\ ~Holds(f)
  BY DEF EventsOnly, NewFrame, Holds
<1>5. hl' = hl /\ stack \in Seq(Frames) /\ stack' = Append(stack, f)
  BY <1>2, IInvFacts DEF Profile
<1> HIDE DEF f
<1> QED
  BY <1>3, <1>4, <1>5, AppendOwners

LEMMA RaiseErrorOwners ==
  ASSUME IInv, Owners(hl, stack), RaiseError
  PROVE  Owners(hl', stack')
<1>1. stack # <<>> /\ Top.pc = "eval" /\ hl' = hl
  BY DEF RaiseError, UserTurn, At
<1>2. PICK kind \in {"error", "other"} : Throw(kind, stack)
  BY DEF RaiseError
<1>3. /\ stack \in Seq(Frames) /\ Nested(hl, stack) /\ Top = stack[Len(stack)]
      /\ Len(stack) \in Nat
  BY <1>1, IInvFacts
<1>4. \A i \in 1 .. Len(stack) : Holds(stack[i]) => stack[i].pc = "eval"
  <2> SUFFICES ASSUME NEW i \in 1 .. Len(stack), Holds(stack[i])
               PROVE  stack[i].pc = "eval"
    OBVIOUS
  <2>1. CASE i = Len(stack)
    BY <1>1, <1>3, <2>1
  <2>2. CASE i # Len(stack)
    <3>1. i \in 1 .. Len(stack) - 1
      BY <1>3, <2>2
    <3>2. stack[i].pc \in {"eval", "start"}
      BY <1>3, <3>1 DEF Nested, Waits
    <3> QED
      BY <3>2 DEF Holds
  <2> QED
    BY <2>1, <2>2
<1>5. PICK m \in 0 .. Len(stack) : Unwound(stack, kind, m, stack')
  BY <1>2, <1>3, ThrowFacts
<1> QED
  BY <1>1, <1>2, <1>3, <1>4, <1>5, OwnersUnwound

LEMMA WorkAgrees ==
  ASSUME NEW s \in Library
  PROVE  Agree(s, WorkDone(s)) /\ (WorkDone(s).ready <=> s.ready)
<1>1. WorkDone(s).running = s.running /\ WorkDone(s).numEvts = s.numEvts
  BY WorkDoneFacts
<1>2. WorkDone(s).ready = s.ready
  BY DEF WorkDone, Library
<1> QED
  BY <1>1, <1>2 DEF Agree

LEMMA ComputeOwners ==
  ASSUME IInv, Owners(hl, stack), Compute
  PROVE  Owners(hl', stack')
<1>1. hl' = WorkDone(hl) /\ stack' = Charged(stack)
  BY DEF Compute
<1>2. hl \in Library /\ stack \in Seq(Frames)
  BY IInvFacts
<1>3. Agree(hl, hl')
  BY <1>1, <1>2, WorkAgrees
<1>4. /\ stack' \in Seq(Frames) /\ Len(stack') = Len(stack)
      /\ \A i \in 1 .. Len(stack) :
           stack'[i] = IF stack[i].pc = "eval"
                         THEN [stack[i] EXCEPT !.mine = stack[i].mine + 1] ELSE stack[i]
  BY <1>1, <1>2, ChargedFacts
<1>5. \A i \in 1 .. Len(stack) : Alike(stack[i], stack'[i])
  <2> SUFFICES ASSUME NEW i \in 1 .. Len(stack) PROVE Alike(stack[i], stack'[i])
    OBVIOUS
  <2>1. stack[i] \in Frames
    BY <1>2, TopFacts
  <2>2. stack'[i] = IF stack[i].pc = "eval"
                      THEN [stack[i] EXCEPT !.mine = stack[i].mine + 1] ELSE stack[i]
    BY <1>4
  <2> QED
    BY <2>1, <2>2 DEF Alike, Holds, Frames
<1> QED
  BY <1>2, <1>3, <1>4, <1>5, OwnersKeep

LEMMA BeginMeasuringOwners ==
  ASSUME IInv, Owners(hl, stack), BeginMeasuring
  PROVE  Owners(hl', stack')
<1> DEFINE n == Len(stack)
<1>1. stack # <<>> /\ Top.pc = "start" /\ ~Holds(Top)
  BY DEF BeginMeasuring, At, Holds
<1>2. /\ hl \in Library /\ Measured(hl) /\ stack \in Seq(Frames) /\ Prepared(hl, stack)
      /\ Top = stack[n] /\ Top \in Frames /\ Top.evs \in Seq(Names)
      /\ n \in Nat /\ n # 0 /\ n - 1 \in 0 .. n
  BY <1>1, IInvFacts, FrameFields
<1>3. Top.fn = "event" /\ hl.running = "STOP" /\ \A i \in 1 .. n : ~Holds(stack[i])
  <2>1. Top.fn = "event"
    BY <1>1, <1>2, OwnersFacts
  <2>2. hl.running = "STOP"
    BY <1>1, <1>2, <2>1 DEF Prepared
  <2> QED
    BY <1>1, <1>2, <2>1, <2>2, OwnersFacts
<1>4. CASE Throw("error", Below) /\ hl' = hl
  <2>1. Leaves(hl, hl', Top)
    BY <1>1, <1>4 DEF Leaves, Agree
  <2> QED
    BY <1>1, <1>4, <2>1, FailureOwners
<1>5. ASSUME NEW o \in Begins(Top),
             \/ /\ o.ok /\ hl' = WorkDone(o.hl)
                /\ stack' = Append(Charged(Below), GoneTo(Top, "eval"))
             \/ ~o.ok /\ hl' = o.hl /\ Throw("error", Below)
      PROVE  Owners(hl', stack')
  <2>1. o \in PapiStart(hl, Top.evs)
    BY <1>3 DEF Begins
  <2>2. /\ o.hl \in Library
        /\ o.ok => /\ Known(Top.evs) /\ o.hl.running = "START"
                   /\ o.hl.numEvts = Len(Unique(Top.evs)) /\ o.hl.ready
        /\ ~o.ok => o.hl.running = hl.running
    BY <1>2, <2>1, PapiStartFacts
  <2>3. CASE ~o.ok /\ hl' = o.hl /\ Throw("error", Below)
    <3>1. Leaves(hl, hl', Top)
      BY <1>1, <1>3, <2>2, <2>3 DEF Leaves, Agree
    <3> QED
      BY <1>1, <2>3, <3>1, FailureOwners
  <2>4. CASE /\ o.ok /\ hl' = WorkDone(o.hl)
             /\ stack' = Append(Charged(Below), GoneTo(Top, "eval"))
    <3> DEFINE ch == Charged(Below)
               f  == GoneTo(Top, "eval")
    <3>1. /\ hl'.running = "START" /\ hl'.ready
          /\ hl'.numEvts = Len(Unique(Top.evs)) /\ Known(Top.evs)
      BY <2>2, <2>4, WorkAgrees DEF Agree
    <3>2. /\ Below \in Seq(Frames) /\ Len(Below) = n - 1
          /\ \A i \in 1 .. n - 1 : Below[i] = stack[i]
      BY <1>2, BelowFacts DEF Below
    <3>3. /\ ch \in Seq(Frames) /\ Len(ch) = n - 1
          /\ \A i \in 1 .. n - 1 :
               ch[i] = IF stack[i].pc = "eval"
                         THEN [stack[i] EXCEPT !.mine = stack[i].mine + 1] ELSE stack[i]
      BY <3>2, ChargedFacts
    <3>4. \A i \in 1 .. n - 1 : ch[i].fn = "event" /\ ~Holds(ch[i])
      <4> SUFFICES ASSUME NEW i \in 1 .. n - 1 PROVE ch[i].fn = "event" /\ ~Holds(ch[i])
        OBVIOUS
      <4>1. i \in 1 .. n /\ ~Holds(stack[i]) /\ stack[i].fn = "event"
        BY <1>2, <1>3 DEF Owners
      <4>2. ch[i] = stack[i]
        BY <3>3, <4>1 DEF Holds
      <4> QED
        BY <4>1, <4>2
    <3>5. f \in Frames /\ f.fn = "event" /\ Holds(f) /\ f.evs = Top.evs
      BY <1>2, <1>3 DEF GoneTo, Frames, Holds
    <3>6. /\ stack' = Append(ch, f)
      BY <2>4
    <3> HIDE DEF ch, f
    <3>7. /\ Len(stack') = n /\ \A i \in 1 .. n - 1 : stack'[i] = ch[i]
          /\ stack'[n] = f
      <4>1. /\ Len(Append(ch, f)) = Len(ch) + 1
            /\ \A i \in 1 .. Len(ch) : Append(ch, f)[i] = ch[i]
            /\ Append(ch, f)[Len(ch) + 1] = f
        BY ONLY <3>3, <3>5, AppendProperties
      <4>2. Len(ch) + 1 = n
        BY <1>2, <3>3
      <4> QED
        BY ONLY <3>3, <3>6, <4>1, <4>2
    <3>8. \A i \in 1 .. n : stack'[i].fn = "event" /\ (Holds(stack'[i]) <=> i = n)
      <4> SUFFICES ASSUME NEW i \in 1 .. n
                   PROVE  stack'[i].fn = "event" /\ (Holds(stack'[i]) <=> i = n)
        OBVIOUS
      <4>1. CASE i = n
        BY <3>5, <3>7, <4>1
      <4>2. CASE i # n
        <5>1. i \in 1 .. n - 1
          BY <1>2, <4>2
        <5> QED
          BY <3>4, <3>7, <4>2, <5>1
      <4> QED
        BY <4>1, <4>2
    <3>9. OwnedBy(hl', stack', n)
      BY <3>1, <3>5, <3>7, <3>8 DEF OwnedBy
    <3>10. n \in 1 .. Len(stack')
      BY <1>2, <3>7
    <3> QED
      BY <3>1, <3>7, <3>8, <3>9, <3>10 DEF Owners
  <2> QED
    BY <1>5, <2>3, <2>4
<1> QED
  BY <1>4, <1>5 DEF BeginMeasuring, GoneTo

LEMMA EndMeasuringOwners ==
  ASSUME IInv, Owners(hl, stack), EventsOnly, EndMeasuring
  PROVE  Owners(hl', stack')
<1>1. stack # <<>> /\ Top.pc = "stop" /\ Holds(Top)
  BY DEF EndMeasuring, At, Holds
<1>2. PICK o \in Ends(Top) :
        /\ hl' = o.hl
        /\ \/ /\ o.ok
              /\ ReturnValues(IF Top.burnin THEN Corrected(o.values, Top.b)
                                             ELSE o.values)
           \/ Throw("error", Below)
  BY DEF EndMeasuring
<1>3. stack \in Seq(Frames) /\ Top = stack[Len(stack)] /\ Nested(hl, stack)
  BY <1>1, IInvFacts
<1>4. Top.fn = "event"
  BY <1>1, <1>3, OwnersFacts
<1>5. o \in PapiStop(hl, Top.evs)
  BY <1>4 DEF Ends
<1>6. hl'.running = "STOP" /\ Leaves(hl, hl', Top)
  BY <1>1, <1>2, <1>5, OwnerStops DEF Leaves
<1>7. CASE Throw("error", Below)
  BY <1>1, <1>6, <1>7, FailureOwners
<1> DEFINE values == IF Top.burnin THEN Corrected(o.values, Top.b) ELSE o.values
<1>8. CASE o.ok /\ ReturnValues(values)
  <2>1. Owners(hl', Below) /\ Below \in Seq(Frames)
    BY <1>1, <1>6, BelowOwners
  <2>2. values \in Results
    BY <1>1, <1>8, ReturnedType
  <2>3. \/ ~Top.null /\ stack' = Below
        \/ Top.null /\ stack' = [Below EXCEPT ![Len(Below)].b = values]
    BY <1>8 DEF ReturnValues
  <2> HIDE DEF values
  <2>4. CASE ~Top.null /\ stack' = Below
    BY <2>1, <2>4
  <2>5. CASE Top.null /\ stack' = [Below EXCEPT ![Len(Below)].b = values]
    <3> DEFINE k == Len(Below)
               f == [Below[k] EXCEPT !.b = values]
    <3>1. Below # <<>>
      <4>1. Len(stack) > 1 /\ Len(Below) = Len(stack) - 1
        <5>1. Len(stack) \in 1 .. Len(stack) /\ Len(stack) - 1 \in 0 .. Len(stack)
          BY <1>1, IInvFacts
        <5> QED
          BY <1>3, <2>5, <5>1, BelowFacts DEF Nested, NullsOnTop, Below
      <4> QED
        BY <4>1, EmptySeq
    <3>2. k \in 1 .. k /\ Below[k] \in Frames
      BY <2>1, <3>1, TopFacts
    <3>3. f \in Frames /\ Alike(Below[k], f)
      BY <2>2, <3>2 DEF Frames, Alike, Holds
    <3>4. stack' = [Below EXCEPT ![k] = f]
      BY <2>5
    <3> HIDE DEF f
    <3>5. /\ stack' \in Seq(Frames) /\ Len(stack') = k
          /\ \A j \in 1 .. k : stack'[j] = IF j = k THEN f ELSE Below[j]
      BY <2>1, <3>2, <3>3, <3>4, ExceptSeq
    <3>6. \A j \in 1 .. k : Alike(Below[j], stack'[j])
      BY <3>3, <3>5 DEF Alike
    <3>7. Agree(hl', hl')
      BY DEF Agree
    <3> QED
      BY <2>1, <3>5, <3>6, <3>7, OwnersKeep
  <2> QED
    BY <2>3, <2>4, <2>5
<1> QED
  BY <1>2, <1>7, <1>8

LEMMA StepOwners ==
  EventsOnly /\ IInv /\ Owners(hl, stack) /\ [Next]_vars => Owners(hl', stack')
<1> SUFFICES ASSUME EventsOnly, IInv, Owners(hl, stack), [Next]_vars
             PROVE  Owners(hl', stack')
  OBVIOUS
<1>1. CASE Probe
  BY <1>1, ProbeOwners
<1>2. CASE Unprobe
  BY <1>2, UnprobeOwners
<1>3. CASE BurnIn
  BY <1>3, BurnInOwners
<1>4. CASE BeginMeasuring
  BY <1>4, BeginMeasuringOwners
<1>5. CASE EndMeasuring
  BY <1>5, EndMeasuringOwners
<1>6. CASE Finish
  BY <1>6, FinishOwners
<1>7. CASE Profile
  BY <1>7, ProfileOwners
<1>8. CASE RaiseError
  BY <1>8, RaiseErrorOwners
<1>9. CASE Interrupt \/ StartDirectly \/ StopDirectly
  BY <1>9 DEF Interrupt, StartDirectly, StopDirectly, EventsOnly
<1>10. CASE Compute
  BY <1>10, ComputeOwners
<1>11. CASE UNCHANGED vars
  BY <1>11 DEF vars
<1> QED
  BY <1>1, <1>2, <1>3, <1>4, <1>5, <1>6, <1>7, <1>8, <1>9, <1>10, <1>11
  DEF Next, ProfilerStep

LEMMA OwnersAreOne == IInv /\ Owners(hl, stack) => OneOwner
<1> SUFFICES ASSUME IInv, Owners(hl, stack) PROVE OneOwner
  OBVIOUS
<1>1. \A i \in 1 .. Len(stack) : i \in Holding <=> Holds(stack[i])
  BY DEF Holding, Holds
<1>2. CASE hl.running = "STOP" /\ \A i \in 1 .. Len(stack) : ~Holds(stack[i])
  <2>1. Holding = {}
    BY <1>1, <1>2 DEF Holding
  <2> QED
    BY <1>2, <2>1, FS_EmptySet DEF OneOwner
<1>3. CASE hl.running = "START" /\ \E k \in 1 .. Len(stack) : OwnedBy(hl, stack, k)
  <2>1. PICK k \in 1 .. Len(stack) : OwnedBy(hl, stack, k)
    BY <1>3
  <2>2. Holding = {k}
    BY <1>1, <2>1 DEF OwnedBy, Holding
  <2> QED
    BY <1>3, <2>2, FS_Singleton DEF OneOwner
<1> QED
  BY <1>2, <1>3 DEF Owners

(* In sessions that use system.event only, where no interrupt comes and    *)
(* the hardware stops when it is told to, the counters run exactly while   *)
(* one call of system.event (R/papi_event.r) has them: tryCatch stops them *)
(* whatever the expression raises, a start that fails leaves them free,    *)
(* and a nested call is refused without taking them away.                  *)
THEOREM SessionOneOwner == ASSUME EventsOnly PROVE Spec => []OneOwner
<1>1. Init => Owners(hl, stack)
  <2>1. Len(<<>>) = 0
    BY EmptySeq
  <2> QED
    BY <2>1 DEF Init, InitialLibrary, Owners
<1>2. IInv /\ Owners(hl, stack) /\ [Next]_vars => Owners(hl, stack)'
  BY StepOwners
<1>3. IInv /\ Owners(hl, stack) => OneOwner
  BY OwnersAreOne
<1> QED
  BY <1>1, <1>2, <1>3, SessionInvariant, PTL DEF Spec

-----------------------------------------------------------------------------
(***************************************************************************)
(* One measurement after another: the invariant.                           *)
(***************************************************************************)

(* No expression fails, nests or is interrupted; the hardware starts and   *)
(* stops when it is told to; the success value of the rate functions, that *)
(* nothing stores, happens to be read as success.  Counters may be started *)
(* and stopped by hand in between.                                         *)
Uneventful ==
  /\ {"error", "other", "nest", "interrupt"} \cap Happens = {}
  /\ "start" \notin Faults /\ "stop" \notin Faults
  /\ ~Uninit

(* No profiler has the counters: they are free, or papi.start has them. *)
Spare(s) == s.running \in {"STOP", "START"} /\ Quiet(s)

(* The counters serve call f, which holds them. *)
Serving(s, f) ==
  /\ s.ready
  /\ f.fn = "event" =>
       s.running = "START" /\ Known(f.evs) /\ s.numEvts = Len(Unique(f.evs))
  /\ f.fn # "event" =>
       /\ s.running = f.fn /\ s.totalIns = 0 /\ s.es.count = f.mine + 1
       /\ s.es.events = RateEvents(f.fn, RateEvent(f))

(* The result of f is the profiler's own unit of work. *)
RateBurntIn(f) ==
  f.fn \in {"FLIP", "FLOP", "IPC"} =>
    f.b = <<[name |-> RateLabel[f.fn], code |-> RateEvents(f.fn, NoEvent)[1], n |-> 1]>>

(* What the top call f needs. *)
Sound(s, f) ==
  /\ Holds(f) => Serving(s, f)
  /\ ~Holds(f) => Spare(s)
  /\ f.burnin /\ f.pc \in {"start", "eval", "stop"} => RateBurntIn(f)
  /\ f.pc \in {"probe", "unprobe"} => f.fn = "event"

(* Only the top call is at work; without one nobody has the counters. *)
Sole(s, st) ==
  /\ \A i \in 1 .. Len(st) - 1 : st[i].pc = "start"
  /\ st # <<>> => Sound(s, st[Len(st)])
  /\ st = <<>> => Spare(s)

LEMMA SoleEmpty ==
  ASSUME NEW t, Spare(t)
  PROVE  Sole(t, <<>>)
<1> DEFINE e == <<>>
<1>1. e = <<>> /\ Len(e) = 0
  BY EmptySeq
<1> HIDE DEF e
<1>2. Sole(t, e)
  BY <1>1 DEF Sole
<1> QED
  BY <1>2 DEF e

LEMMA SoleFacts ==
  ASSUME IInv, Sole(hl, stack), stack # <<>>
  PROVE  /\ Sound(hl, Top)
         /\ \A i \in 1 .. Len(stack) - 1 : stack[i].pc = "start"
BY DEF Sole, Top

(* Without errors in expressions nobody catches the error of a call. *)
LEMMA ThrowClears ==
  ASSUME IInv, Sole(hl, stack), stack # <<>>, Throw("error", Below),
         Spare(hl')
  PROVE  Sole(hl', stack')
<1> DEFINE n == Len(stack)
<1>1. /\ stack \in Seq(Frames) /\ n \in Nat /\ n # 0 /\ n - 1 \in 0 .. n
  BY IInvFacts
<1>2. /\ Below \in Seq(Frames) /\ Len(Below) = n - 1
      /\ \A i \in 1 .. n - 1 : Below[i] = stack[i]
  BY <1>1, BelowFacts DEF Below
<1>3. PICK m \in 0 .. Len(Below) : Unwound(Below, "error", m, stack')
  BY <1>2, ThrowFacts
<1>4. \A i \in 1 .. n - 1 : Below[i].pc = "start"
  BY <1>2, SoleFacts
<1>5. m = 0
  <2> SUFFICES ASSUME m # 0 PROVE FALSE
    OBVIOUS
  <2>1. m > 0 /\ m \in 1 .. n - 1
    BY <1>1, <1>2
  <2>2. Below[m].pc = "eval"
    BY <1>3, <2>1 DEF Unwound
  <2> QED
    BY <1>4, <2>1, <2>2
<1>6. stack' \in Seq(Frames) /\ Len(stack') = 0
  BY <1>3, <1>5 DEF Unwound
<1>7. stack' = <<>>
  BY <1>6, EmptySeq
<1>8. ASSUME NEW t, Spare(t) PROVE Sole(t, stack')
  BY <1>7, <1>8, SoleEmpty
<1> QED
  BY <1>8

(* f goes on as g, in the same library. *)
LEMMA ServingGoesOn ==
  ASSUME NEW s, NEW f, NEW g, Serving(s, f), SameCall(f, g), g.mine = f.mine
  PROVE  Serving(s, g)
BY DEF Serving, SameCall, RateEvent

LEMMA MovedSole ==
  ASSUME IInv, Sole(hl, stack), stack # <<>>, NEW t,
         NEW pc \in {"probe", "unprobe", "burnin", "start", "eval", "stop"},
         NEW g, Moved(stack, pc, g),
         Sound(t, GoneTo(Top, pc))
  PROVE  Sole(t, g)
<1> DEFINE n == Len(stack)
<1>1. /\ stack \in Seq(Frames) /\ Top = stack[n] /\ Top \in Frames
      /\ n \in Nat /\ n # 0
  BY IInvFacts
<1>2. /\ g \in Seq(Frames) /\ Len(g) = n
      /\ \A i \in 1 .. n - 1 : g[i] = stack[i]
      /\ g[n] = GoneTo(Top, pc)
  BY <1>1, GotoFacts
<1>3. g # <<>>
  BY <1>1, <1>2, EmptySeq
<1>4. \A i \in 1 .. n - 1 : stack[i].pc = "start"
  BY SoleFacts
<1> QED
  BY <1>2, <1>3, <1>4 DEF Sole

LEMMA GoneToFacts ==
  ASSUME NEW f \in Frames,
         NEW pc \in {"probe", "unprobe", "burnin", "start", "eval", "stop"}
  PROVE  /\ GoneTo(f, pc) \in Frames /\ SameCall(f, GoneTo(f, pc))
         /\ GoneTo(f, pc).mine = f.mine /\ GoneTo(f, pc).pc = pc
         /\ GoneTo(f, pc).fn = f.fn /\ GoneTo(f, pc).burnin = f.burnin
BY DEF GoneTo, SameCall, Frames

(* A call whose papi.start succeeded is served. *)
LEMMA EventServing ==
  ASSUME NEW s, NEW f, f.fn = "event", s.ready, s.running = "START",
         Known(f.evs), s.numEvts = Len(Unique(f.evs))
  PROVE  Serving(s, f)
BY DEF Serving

LEMMA SoleStops ==
  ASSUME Uneventful, IInv, stack # <<>>, Serving(hl, Top), Top.fn = "event",
         NEW o \in PapiStop(hl, Top.evs)
  PROVE  o.ok /\ o.hl.running = "STOP" /\ Quiet(o.hl)
<1>1. hl \in Library /\ Measured(hl) /\ Top \in Frames /\ Top.evs \in Seq(Names)
  BY IInvFacts, FrameFields
<1>2. o.ok
  BY <1>1, PapiStopSucceeds DEF Serving, Uneventful
<1> QED
  BY <1>1, <1>2, PapiStopFacts

-----------------------------------------------------------------------------
(***************************************************************************)
(* One measurement after another: the steps.                               *)
(***************************************************************************)

LEMMA ProbeSole ==
  ASSUME Uneventful, IInv, Sole(hl, stack), Probe
  PROVE  Sole(hl', stack')
<1> DEFINE f == GoneTo(Top, "unprobe")
<1>1. stack # <<>> /\ Top.pc = "probe"
  BY DEF Probe, At
<1>2. PICK o \in PapiStart(hl, Top.evs) : Proceed(o, "unprobe")
  BY DEF Probe
<1>3. /\ hl \in Library /\ Measured(hl) /\ Top \in Frames /\ Top.evs \in Seq(Names)
  BY <1>1, IInvFacts, FrameFields
<1>4. Spare(hl) /\ Top.fn = "event"
  BY <1>1, SoleFacts DEF Sound, Holds
<1>5. hl' = o.hl
  BY <1>2 DEF Proceed
<1>6. CASE ~o.ok /\ Throw("error", Below)
  <2>1. o.hl.running = hl.running /\ Quiet(o.hl)
    BY <1>2, <1>3, <1>4, <1>6, PapiStartFacts DEF Uneventful, Spare
  <2>2. Spare(o.hl)
    BY <1>4, <2>1 DEF Spare
  <2> QED
    BY <1>1, <1>5, <1>6, <2>2, ThrowClears
<1>7. CASE o.ok /\ stack' = Goto("unprobe")
  <2>1. /\ Known(Top.evs) /\ o.hl.running = "START" /\ o.hl.ready
        /\ o.hl.numEvts = Len(Unique(Top.evs))
    BY <1>2, <1>3, <1>7, PapiStartFacts
  <2>2. /\ f.fn = "event" /\ f.evs = Top.evs /\ f.pc = "unprobe"
    BY <1>3, <1>4 DEF GoneTo, Frames
  <2>3. Moved(stack, "unprobe", stack')
    BY <1>7 DEF Moved, Goto
  <2> HIDE DEF f
  <2>4. Sound(o.hl, f)
    BY <2>1, <2>2, EventServing DEF Sound, Holds
  <2>5. Sole(o.hl, stack')
    BY <1>1, <2>3, <2>4, MovedSole DEF f
  <2> QED
    BY <1>5, <2>5
<1> QED
  BY <1>2, <1>6, <1>7 DEF Proceed

LEMMA UnprobeSole ==
  ASSUME Uneventful, IInv, Sole(hl, stack), Unprobe
  PROVE  Sole(hl', stack')
<1> DEFINE pc == AfterProbe(Top.burnin)
           f  == GoneTo(Top, pc)
<1>1. stack # <<>> /\ Top.pc = "unprobe"
  BY DEF Unprobe, At
<1>2. PICK o \in PapiStop(hl, Top.evs) : Proceed(o, pc)
  BY DEF Unprobe
<1>3. Serving(hl, Top) /\ Top.fn = "event" /\ Top \in Frames
  BY <1>1, SoleFacts, IInvFacts DEF Sound, Holds
<1>4. o.ok /\ o.hl.running = "STOP" /\ Quiet(o.hl)
  BY <1>1, <1>2, <1>3, SoleStops
<1>5. stack' = Goto(pc) /\ hl' = o.hl
  BY <1>2, <1>4 DEF Proceed
<1>6. pc \in {"burnin", "start"} /\ (pc = "start" => ~Top.burnin)
  BY DEF AfterProbe
<1> HIDE DEF pc
<1>7. f.pc = pc /\ f.burnin = Top.burnin
  BY <1>3, <1>6, GoneToFacts
<1>8. Moved(stack, pc, stack')
  BY <1>5 DEF Moved, Goto
<1> HIDE DEF f
<1>9. Sound(o.hl, f)
  BY <1>4, <1>6, <1>7 DEF Sound, Holds, Spare
<1>10. pc \in {"probe", "unprobe", "burnin", "start", "eval", "stop"}
  BY <1>6
<1>11. Sole(o.hl, stack')
  BY <1>1, <1>8, <1>9, <1>10, MovedSole DEF f
<1> QED
  BY <1>5, <1>11

LEMMA FinishSole ==
  ASSUME IInv, Sole(hl, stack), Finish
  PROVE  Sole(hl', stack')
<1> DEFINE f == GoneTo(Top, "stop")
<1>1. stack # <<>> /\ Top.pc = "eval" /\ hl' = hl /\ stack' = Goto("stop")
  BY DEF Finish, At
<1>2. Top \in Frames /\ Sound(hl, Top)
  BY <1>1, IInvFacts, SoleFacts
<1>3. /\ SameCall(Top, f) /\ f.mine = Top.mine /\ f.pc = "stop"
      /\ f.fn = Top.fn /\ f.burnin = Top.burnin /\ f.b = Top.b
  BY <1>2 DEF GoneTo, SameCall, Frames
<1> HIDE DEF f
<1>4. Serving(hl, f)
  BY <1>1, <1>2, <1>3, ServingGoesOn DEF Sound, Holds
<1>5. Sound(hl, f)
  BY <1>1, <1>2, <1>3, <1>4 DEF Sound, Holds, RateBurntIn
<1>6. Moved(stack, "stop", stack')
  BY <1>1 DEF Moved, Goto
<1>7. Sole(hl, stack')
  BY <1>1, <1>5, <1>6, MovedSole DEF f
<1> QED
  BY <1>1, <1>7

LEMMA PushedSole ==
  ASSUME NEW t, NEW st \in Seq(Frames), NEW f \in Frames,
         \A i \in 1 .. Len(st) : st[i].pc = "start", Sound(t, f)
  PROVE  Sole(t, Append(st, f))
<1> DEFINE n   == Len(st)
           st2 == Append(st, f)
<1>1. /\ n \in Nat /\ Len(st2) = n + 1 /\ st2 \in Seq(Frames)
      /\ \A i \in 1 .. n : st2[i] = st[i]
      /\ st2[n + 1] = f
  BY TopFacts, AppendProperties
<1> HIDE DEF st2
<1>2. \A i \in 1 .. Len(st2) - 1 : st2[i].pc = "start"
  BY <1>1
<1>3. st2[Len(st2)] = f
  BY <1>1
<1>4. st2 # <<>>
  BY <1>1, EmptySeq
<1>5. Sole(t, st2)
  BY <1>2, <1>3, <1>4 DEF Sole
<1> QED
  BY <1>5 DEF st2

LEMMA BurnInSole ==
  ASSUME IInv, Sole(hl, stack), BurnIn
  PROVE  Sole(hl', stack')
<1> DEFINE n == Len(stack)
           g == Goto("start")
           f == NewFrame(Top.fn, Top.evs, FALSE, TRUE)
<1>1. /\ stack # <<>> /\ Top.pc = "burnin" /\ ~Holds(Top) /\ hl' = hl
      /\ stack' = Append(g, f)
  BY DEF BurnIn, At, Holds
<1>2. /\ stack \in Seq(Frames) /\ Top = stack[n] /\ Top \in Frames
      /\ Top.fn \in {"event"} \cup RateModes /\ Top.evs \in Seq(Names)
      /\ n \in Nat
  BY <1>1, IInvFacts, FrameFields
<1>3. Spare(hl)
  BY <1>1, SoleFacts DEF Sound
<1>4. /\ f \in Frames /\ f.burnin = FALSE /\ f.pc \in {"probe", "start"}
      /\ f.pc = "probe" => f.fn = "event"
  <2> DEFINE pc == IF Top.fn = "event" THEN "probe" ELSE "start"
  <2>1. f = [fn |-> Top.fn, evs |-> Top.evs, burnin |-> FALSE, null |-> TRUE,
             pc |-> pc, b |-> <<>>, err |-> "none", mine |-> 0]
    BY DEF NewFrame, AfterProbe
  <2>2. pc \in {"probe", "start"} /\ (pc = "probe" => Top.fn = "event")
    OBVIOUS
  <2>3. <<>> \in Results
    BY DEF Results
  <2> HIDE DEF f, pc
  <2> QED
    BY <1>2, <2>1, <2>2, <2>3 DEF Frames
<1>5. Moved(stack, "start", g)
  BY DEF Moved, Goto
<1> HIDE DEF g, f
<1>6. /\ g \in Seq(Frames) /\ Len(g) = n
      /\ \A i \in 1 .. n - 1 : g[i] = stack[i]
      /\ g[n].pc = "start"
  <2> DEFINE pc == "start"
  <2>1. /\ pc \in {"probe", "unprobe", "burnin", "start", "eval", "stop"}
        /\ Moved(stack, pc, g)
    BY <1>5
  <2> HIDE DEF pc
  <2>2. /\ g \in Seq(Frames) /\ Len(g) = n
        /\ \A i \in 1 .. n - 1 : g[i] = stack[i]
        /\ g[n].pc = pc
    BY <1>1, <2>1, MovedFacts
  <2> QED
    BY <2>2 DEF pc
<1>7. \A i \in 1 .. n - 1 : stack[i].pc = "start"
  BY <1>1, SoleFacts
<1>8. \A i \in 1 .. Len(g) : g[i].pc = "start"
  <2> SUFFICES ASSUME NEW i \in 1 .. n PROVE g[i].pc = "start"
    BY <1>6
  <2>1. i = n \/ i \in 1 .. n - 1
    BY <1>2
  <2> QED
    BY <1>6, <1>7, <2>1
<1>9. Sound(hl, f)
  BY <1>3, <1>4 DEF Sound, Holds
<1>10. Sole(hl, Append(g, f))
  BY <1>4, <1>6, <1>8, <1>9, PushedSole
<1> QED
  BY <1>1, <1>10

LEMMA ProfileSole ==
  ASSUME Uneventful, IInv, Sole(hl, stack), Profile
  PROVE  Sole(hl', stack')
<1>1. PICK fn \in Profilers : \E evs \in Arguments(fn), burnin \in BOOLEAN :
        stack' = Append(stack, NewFrame(fn, evs, burnin, FALSE))
  BY DEF Profile
<1>2. PICK evs \in Arguments(fn), burnin \in BOOLEAN :
        stack' = Append(stack, NewFrame(fn, evs, burnin, FALSE))
  BY <1>1
<1> DEFINE f == NewFrame(fn, evs, burnin, FALSE)
<1>3. /\ stack = <<>> /\ hl' = hl /\ stack' = Append(stack, f)
  BY <1>2 DEF Profile, Uneventful
<1>4. Spare(hl)
  BY <1>3 DEF Sole
<1>5. /\ f \in Frames /\ f.pc \in {"probe", "burnin", "start"}
      /\ f.pc = "start" => ~f.burnin
  BY NewCall
<1>6. f.pc = "probe" => f.fn = "event"
  BY DEF NewFrame, AfterProbe
<1> HIDE DEF f
<1>7. Sound(hl, f)
  BY <1>4, <1>5, <1>6 DEF Sound, Holds
<1>8. stack \in Seq(Frames) /\ \A i \in 1 .. Len(stack) : FALSE
  BY <1>3, IInvFacts, EmptySeq
<1>9. Sole(hl, Append(stack, f))
  BY <1>5, <1>7, <1>8, PushedSole
<1> QED
  BY <1>3, <1>9

LEMMA ChargedSole ==
  ASSUME NEW st \in Seq(Frames), \A i \in 1 .. Len(st) : st[i].pc = "start"
  PROVE  \A i \in 1 .. Len(Charged(st)) : Charged(st)[i].pc = "start"
BY ChargedFacts

(* Work done in the expression of a call that is served. *)
LEMMA WorkServes ==
  ASSUME NEW s \in Library, Measured(s), NEW f \in Frames, NEW g,
         Serving(s, f), g.fn = f.fn, g.evs = f.evs, g.mine = f.mine + 1
  PROVE  Serving(WorkDone(s), g)
<1>1. /\ WorkDone(s).running = s.running /\ WorkDone(s).numEvts = s.numEvts
      /\ WorkDone(s).totalIns = s.totalIns /\ WorkDone(s).ready
  BY WorkDoneFacts, WorkAgrees DEF Serving
<1>2. CASE f.fn = "event"
  BY <1>1, <1>2 DEF Serving
<1>3. CASE f.fn # "event"
  <2>1. f.fn \in RateModes
    BY <1>3, FrameFields
  <2>2. s.running # "STOP"
    BY <1>3, <2>1 DEF Serving, RateModes
  <2>3. WorkDone(s).es.events = s.es.events /\ WorkDone(s).es.count = s.es.count + 1
    BY <2>2, StartedFacts
  <2> QED
    BY <1>1, <1>3, <2>3 DEF Serving, RateEvent
<1> QED
  BY <1>2, <1>3

LEMMA ComputeSole ==
  ASSUME Uneventful, IInv, Sole(hl, stack), Compute
  PROVE  Sole(hl', stack')
<1> DEFINE n == Len(stack)
<1>1. /\ hl' = WorkDone(hl) /\ stack' = Charged(stack)
      /\ stack = <<>> \/ Top.pc = "eval"
  BY DEF Compute, UserTurn, At
<1>2. hl \in Library /\ Measured(hl) /\ stack \in Seq(Frames)
  BY IInvFacts
<1>3. /\ stack' \in Seq(Frames) /\ Len(stack') = n
      /\ \A i \in 1 .. n :
           stack'[i] = IF stack[i].pc = "eval"
                         THEN [stack[i] EXCEPT !.mine = stack[i].mine + 1] ELSE stack[i]
  BY <1>1, <1>2, ChargedFacts
<1>4. CASE stack = <<>>
  <2>1. Spare(hl)
    BY <1>4 DEF Sole
  <2>2. hl'.running = hl.running /\ (hl.running = "STOP" => hl'.es = hl.es)
    BY <1>1, <1>2, <2>1, WorkDoneFacts DEF Work, Quiet, Spare
  <2>3. Spare(hl')
    BY <2>1, <2>2 DEF Quiet, Spare
  <2>4. stack' = <<>>
    BY <1>3, <1>4, EmptySeq
  <2>5. ASSUME NEW t, Spare(t) PROVE Sole(t, stack')
    BY <2>4, <2>5, SoleEmpty
  <2> QED
    BY <2>3, <2>5
<1>5. CASE stack # <<>>
  <2>1. /\ n \in Nat /\ n \in 1 .. n /\ n # 0 /\ Top = stack[n] /\ Top \in Frames
        /\ Top.pc = "eval"
    BY <1>1, <1>5, IInvFacts
  <2>2. Sound(hl, Top) /\ \A i \in 1 .. n - 1 : stack[i].pc = "start"
    BY <1>5, SoleFacts
  <2>3. \A i \in 1 .. n - 1 : stack'[i] = stack[i]
    <3> SUFFICES ASSUME NEW i \in 1 .. n - 1 PROVE stack'[i] = stack[i]
      OBVIOUS
    <3>1. i \in 1 .. n /\ stack[i].pc # "eval"
      BY <2>1, <2>2
    <3> QED
      BY <1>3, <3>1
  <2> DEFINE f == stack'[n]
  <2>4. /\ f.fn = Top.fn /\ f.evs = Top.evs /\ f.mine = Top.mine + 1
        /\ f.pc = "eval" /\ f.burnin = Top.burnin /\ f.b = Top.b
    BY <1>3, <2>1 DEF Frames
  <2>5. stack' # <<>> /\ stack'[Len(stack')] = f
    BY <1>3, <2>1, EmptySeq
  <2> HIDE DEF f
  <2>6. Serving(WorkDone(hl), f)
    BY <1>2, <2>1, <2>2, <2>4, WorkServes DEF Sound, Holds
  <2>7. Sound(hl', f)
    BY <1>1, <2>1, <2>2, <2>4, <2>6 DEF Sound, Holds, RateBurntIn
  <2> QED
    BY <1>3, <2>2, <2>3, <2>5, <2>7 DEF Sole
<1> QED
  BY <1>4, <1>5

(* Started counters serve the call that started them. *)
LEMMA RateServing ==
  ASSUME NEW s \in Library, Measured(s), NEW f \in Frames, NEW g,
         f.fn # "event", f.mine = 0, s.ready, s.running = f.fn, s.totalIns = 0,
         s.es.count = 0, s.es.events = RateEvents(f.fn, RateEvent(f)),
         SameCall(f, g), g.mine = f.mine
  PROVE  Serving(WorkDone(s), g)
<1>1. g.fn # "event" /\ g.fn = f.fn /\ g.mine = 0 /\ RateEvent(g) = RateEvent(f)
  BY DEF SameCall, RateEvent
<1>2. s.running # "STOP"
  BY FrameFields DEF RateModes
<1>3. /\ WorkDone(s).running = f.fn /\ WorkDone(s).totalIns = 0 /\ WorkDone(s).ready
      /\ WorkDone(s).es.events = s.es.events /\ WorkDone(s).es.count = 1
  BY <1>2, WorkDoneFacts, WorkAgrees, StartedFacts
<1> QED
  BY <1>1, <1>3 DEF Serving

LEMMA BeginServes ==
  ASSUME Uneventful, IInv, stack # <<>>, Top.pc = "start", Quiet(hl),
         hl.running = "STOP", Available(LookedUp(Top)), NEW o \in Begins(Top)
  PROVE  /\ o.ok => Serving(WorkDone(o.hl), GoneTo(Top, "eval"))
         /\ ~o.ok => o.hl.running = "STOP" /\ Quiet(o.hl)
<1> DEFINE f == GoneTo(Top, "eval")
<1>1. /\ hl \in Library /\ Measured(hl) /\ Top \in Frames /\ FrameOK(Top)
      /\ Top.evs \in Seq(Names) /\ Top.mine = 0
  BY IInvFacts, FrameFields DEF FrameOK
<1>2. Top.fn = "EPC" => Top.evs[1] \in Codes
  BY <1>1, AvailableEpc
<1>3. /\ SameCall(Top, f) /\ f.mine = Top.mine /\ f.fn = Top.fn /\ f.evs = Top.evs
  BY <1>1 DEF GoneTo, SameCall, Frames
<1> HIDE DEF f
<1>4. CASE Top.fn = "event"
  <2>1. o \in PapiStart(hl, Top.evs)
    BY <1>4 DEF Begins
  <2>2. /\ o.ok => /\ Known(Top.evs) /\ o.hl.running = "START" /\ o.hl.ready
                   /\ o.hl.numEvts = Len(Unique(Top.evs))
        /\ ~o.ok => o.hl.running = "STOP"
        /\ ~o.ok => Quiet(o.hl)
        /\ o.hl \in Library
    BY <1>1, <2>1, PapiStartFacts DEF Uneventful
  <2>3. ASSUME o.ok PROVE Serving(WorkDone(o.hl), f)
    <3>1. /\ WorkDone(o.hl).running = "START" /\ WorkDone(o.hl).ready
          /\ WorkDone(o.hl).numEvts = Len(Unique(f.evs))
      BY <1>3, <2>2, <2>3, WorkDoneFacts, WorkAgrees
    <3> QED
      BY <1>3, <1>4, <2>2, <2>3, <3>1, EventServing
  <2> QED
    BY <2>2, <2>3 DEF f
<1>5. CASE Top.fn # "event"
  <2> DEFINE e  == RateEvent(Top)
             es == RateEvents(Top.fn, e)
  <2>1. o \in RateOn(hl, Top.fn, e) /\ Top.fn \in RateModes /\ e \in Codes \cup {NoEvent}
    BY <1>1, <1>2, <1>5, FrameFields, RateEventType DEF Begins
  <2>2. /\ o.hl \in Library /\ Measured(o.hl)
        /\ o.ok => /\ o.hl.ready /\ o.hl.running = Top.fn /\ o.hl.totalIns = 0
                   /\ o.hl.es.count = 0 /\ o.hl.es.events = hl.es.events \o es
        /\ ~o.ok => o.hl.running = "STOP" /\ Quiet(o.hl)
    <3> DEFINE m == Top.fn
    <3>1. m \in RateModes /\ e \in Codes \cup {NoEvent} /\ o \in RateOn(hl, m, e)
      BY <2>1
    <3>2. es = RateEvents(m, e)
      OBVIOUS
    <3> HIDE DEF e, m, es
    <3>3. /\ o.hl \in Library /\ Measured(o.hl)
          /\ o.ok => /\ o.hl.ready /\ o.hl.running = m /\ o.hl.totalIns = 0
                     /\ o.hl.es.count = 0
                     /\ o.hl.es.events = hl.es.events \o RateEvents(m, e)
      BY <1>1, <3>1, RateOnFacts
    <3>4. ~o.ok => o.hl.running = "STOP" /\ Quiet(o.hl)
      BY <1>1, <3>1, RateOnFacts DEF Uneventful
    <3> QED
      BY <3>2, <3>3, <3>4 DEF m
  <2>3. es \in Seq(Codes)
    <3> HIDE DEF e
    <3> QED
      BY <2>1, RateEventsType
  <2>4. hl.es.events = <<>>
    BY DEF Quiet
  <2>5. <<>> \o es = es
    <3> HIDE DEF es
    <3> QED
      BY <2>3, ConcatEmptySeq
  <2>6. ASSUME o.ok PROVE Serving(WorkDone(o.hl), f)
    <3>1. o.hl.es.events = es
      <4> HIDE DEF es
      <4> QED
        BY <2>2, <2>4, <2>5, <2>6
    <3> QED
      BY <1>1, <1>3, <1>5, <2>2, <2>6, <3>1, RateServing
  <2> QED
    BY <2>2, <2>6 DEF f
<1> QED
  BY <1>4, <1>5

(* papi.start has the counters: nobody else can begin. *)
LEMMA BeginRefused ==
  ASSUME IInv, stack # <<>>, Top.pc = "start", hl.running = "START",
         Available(LookedUp(Top)), NEW o \in Begins(Top)
  PROVE  ~o.ok /\ o.hl.running = "START"
<1> DEFINE m == Top.fn
           e == RateEvent(Top)
<1>1. /\ hl \in Library /\ Measured(hl) /\ Top \in Frames /\ FrameOK(Top)
      /\ Top.evs \in Seq(Names)
  BY IInvFacts, FrameFields
<1>2. Top.fn = "EPC" => Top.evs[1] \in Codes
  BY <1>1, AvailableEpc
<1>3. Top.fn # "event"
  BY IInvFacts DEF Prepared
<1>4. m \in RateModes /\ e \in Codes \cup {NoEvent} /\ o \in RateOn(hl, m, e)
  BY <1>1, <1>2, <1>3, FrameFields, RateEventType DEF Begins
<1>5. "START" \notin RateModes
  BY DEF RateModes
<1> HIDE DEF m, e
<1> QED
  BY <1>1, <1>4, <1>5, RateOnFacts

LEMMA BeginMeasuringSole ==
  ASSUME Uneventful, IInv, Sole(hl, stack), BeginMeasuring
  PROVE  Sole(hl', stack')
<1> DEFINE n == Len(stack)
           f == GoneTo(Top, "eval")
<1>1. stack # <<>> /\ Top.pc = "start" /\ ~Holds(Top)
  BY DEF BeginMeasuring, At, Holds
<1>2. /\ stack \in Seq(Frames) /\ Top \in Frames /\ n \in Nat /\ n # 0
      /\ n - 1 \in 0 .. n
  BY <1>1, IInvFacts
<1>3. /\ Spare(hl) /\ Sound(hl, Top)
      /\ \A i \in 1 .. n - 1 : stack[i].pc = "start"
  BY <1>1, SoleFacts DEF Sound
<1>4. CASE Throw("error", Below) /\ hl' = hl
  <2>1. Spare(hl')
    BY <1>3, <1>4
  <2> QED
    BY <1>1, <1>4, <2>1, ThrowClears
<1>5. ASSUME Available(LookedUp(Top)), NEW o \in Begins(Top),
             \/ /\ o.ok /\ hl' = WorkDone(o.hl)
                /\ stack' = Append(Charged(Below), f)
             \/ ~o.ok /\ hl' = o.hl /\ Throw("error", Below)
      PROVE  Sole(hl', stack')
  <2>1. /\ o.ok => Serving(WorkDone(o.hl), f)
        /\ ~o.ok => Spare(o.hl)
    <3>1. CASE hl.running = "STOP"
      BY <1>1, <1>3, <1>5, <3>1, BeginServes DEF Spare
    <3>2. CASE hl.running = "START"
      <4>1. ~o.ok /\ o.hl.running = "START"
        BY <1>1, <1>5, <3>2, BeginRefused
      <4> QED
        BY <4>1 DEF Spare, Quiet
    <3> QED
      BY <1>3, <3>1, <3>2 DEF Spare
  <2>2. CASE ~o.ok /\ hl' = o.hl /\ Throw("error", Below)
    <3>1. Spare(hl')
      BY <2>1, <2>2
    <3> QED
      BY <1>1, <2>2, <3>1, ThrowClears
  <2>3. CASE /\ o.ok /\ hl' = WorkDone(o.hl)
             /\ stack' = Append(Charged(Below), f)
    <3> DEFINE ch == Charged(Below)
               t  == WorkDone(o.hl)
    <3>1. Below \in Seq(Frames) /\ Len(Below) = n - 1
          /\ \A i \in 1 .. n - 1 : Below[i] = stack[i]
      BY <1>2, BelowFacts DEF Below
    <3>2. \A i \in 1 .. Len(Below) : Below[i].pc = "start"
      BY <1>3, <3>1
    <3>3. ch \in Seq(Frames) /\ \A i \in 1 .. Len(ch) : ch[i].pc = "start"
      BY <3>1, <3>2, ChargedFacts, ChargedSole
    <3>4. /\ f \in Frames /\ f.pc = "eval" /\ f.fn = Top.fn /\ f.burnin = Top.burnin
          /\ f.b = Top.b
      BY <1>2 DEF GoneTo, Frames
    <3> HIDE DEF f, ch, t
    <3>5. Sound(t, f)
      BY <1>1, <1>3, <2>1, <2>3, <3>4 DEF Sound, Holds, RateBurntIn, t
    <3>6. Sole(t, Append(ch, f))
      BY <3>3, <3>4, <3>5, PushedSole
    <3> QED
      BY <2>3, <3>6 DEF ch, t
  <2> QED
    BY <1>5, <2>2, <2>3
<1> QED
  BY <1>4, <1>5 DEF BeginMeasuring, GoneTo

(* What a rate function's own stop returns. *)
RateValues(f, n) ==
  <<[name |-> RateLabel[f.fn], code |-> RateEvents(f.fn, NoEvent)[1], n |-> n]>>

LEMMA RateListFacts ==
  ASSUME NEW mode \in {"FLIP", "FLOP", "IPC"}, NEW r,
         NEW es \in EventSets, es.events = RateEvents(mode, NoEvent),
         r.values = Reading(es)
  PROVE  RateList(mode, r) =
           <<[name |-> RateLabel[mode], code |-> RateEvents(mode, NoEvent)[1],
              n |-> r.ins]>>
<1> DEFINE evs == RateEvents(mode, NoEvent)
<1>1. evs \in Seq(Codes) /\ evs # <<>>
  BY RateEventsType DEF RateModes
<1> HIDE DEF evs
<1>2. Len(evs) \in Nat /\ Len(evs) # 0
  BY <1>1, LenProperties, EmptySeq
<1>3. 1 \in 1 .. Len(evs)
  BY <1>2
<1>4. Reading(es) = [i \in 1 .. Len(evs) |-> [code |-> evs[i], n |-> es.count]]
  BY DEF Reading, evs
<1>5. Len(Reading(es)) = Len(evs)
  BY ReadingType DEF evs
<1>6. ValueAt(r.values, 1).code = evs[1]
  BY <1>2, <1>3, <1>4, <1>5 DEF ValueAt
<1>7. RateList(mode, r) = <<[name |-> RateLabel[mode], code |-> evs[1], n |-> r.ins]>>
  BY <1>6 DEF RateList, RateLabel
<1> QED
  BY <1>7 DEF evs

LEMMA RateEnds ==
  ASSUME Uneventful, IInv, stack # <<>>, Top.pc = "stop", Serving(hl, Top),
         Top.fn # "event", NEW o \in Ends(Top)
  PROVE  /\ o.ok /\ o.hl.running = "STOP" /\ Quiet(o.hl)
         /\ Top.fn \in {"FLIP", "FLOP", "IPC"} => o.values = RateValues(Top, Top.mine + 1)
<1> DEFINE m == Top.fn
           e == RateEvent(Top)
<1>1. /\ hl \in Library /\ Measured(hl) /\ Top \in Frames /\ FrameOK(Top)
      /\ hl.es \in EventSets /\ Top.mine \in Nat
  BY IInvFacts, FrameFields DEF Library
<1>2. Top.fn = "EPC" => Top.evs[1] \in Codes
  BY <1>1 DEF FrameOK
<1>3. m \in RateModes /\ e \in Codes \cup {NoEvent} /\ o \in RateOff(hl, m, e)
  BY <1>1, <1>2, FrameFields, RateEventType DEF Ends
<1>4. /\ hl.ready /\ hl.running = m /\ hl.totalIns = 0 /\ hl.es.count = Top.mine + 1
      /\ hl.es.events = RateEvents(m, e)
  BY DEF Serving
<1>5. m \in {"FLIP", "FLOP", "IPC"} => e = NoEvent
  BY DEF RateEvent
<1>6. RateValues(Top, Top.mine + 1) =
        <<[name |-> RateLabel[m], code |-> RateEvents(m, NoEvent)[1],
           n |-> Top.mine + 1]>>
  BY DEF RateValues
<1> HIDE DEF m, e
<1>7. o.ok /\ o.hl.running = "STOP" /\ Quiet(o.hl)
  BY <1>1, <1>3, <1>4, RateOffFacts DEF Uneventful
<1>8. PICK r \in LibraryReplies :
        o.values = RateList(m, r) /\ r.values = Reading(hl.es)
        /\ r.ins = hl.totalIns + hl.es.count
  BY <1>1, <1>3, <1>4, <1>7, RateOffFacts
<1>9. r.ins = Top.mine + 1
  BY <1>1, <1>4, <1>8
<1>10. m \in {"FLIP", "FLOP", "IPC"} => o.values = RateValues(Top, Top.mine + 1)
  <2> SUFFICES ASSUME m \in {"FLIP", "FLOP", "IPC"}
               PROVE  o.values = RateValues(Top, Top.mine + 1)
    OBVIOUS
  <2>1. hl.es \in EventSets /\ hl.es.events = RateEvents(m, NoEvent)
        /\ r.values = Reading(hl.es)
    BY <1>1, <1>4, <1>5, <1>8
  <2>2. RateList(m, r) =
          <<[name |-> RateLabel[m], code |-> RateEvents(m, NoEvent)[1], n |-> r.ins]>>
    BY <2>1, RateListFacts
  <2> QED
    BY <1>6, <1>8, <1>9, <2>2
<1> QED
  BY <1>7, <1>10 DEF m

(* A measurement that ends leaves the counters free. *)
LEMMA EndSole ==
  ASSUME Uneventful, IInv, Sole(hl, stack), stack # <<>>, Top.pc = "stop",
         NEW o \in Ends(Top)
  PROVE  /\ o.ok /\ o.hl.running = "STOP" /\ Quiet(o.hl)
         /\ Top.fn \in {"FLIP", "FLOP", "IPC"} => o.values = RateValues(Top, Top.mine + 1)
<1>1. Serving(hl, Top)
  BY SoleFacts DEF Sound, Holds
<1>2. CASE Top.fn = "event"
  <2>1. o \in PapiStop(hl, Top.evs)
    BY <1>2 DEF Ends
  <2> QED
    BY <1>1, <1>2, <2>1, SoleStops
<1>3. CASE Top.fn # "event"
  BY <1>1, <1>3, RateEnds
<1> QED
  BY <1>2, <1>3

(* Max(n + 1 - 1, 0) = n. *)
LEMMA CorrectedOne ==
  ASSUME NEW name, NEW code, NEW n \in Nat, NEW v, NEW b,
         v = <<[name |-> name, code |-> code, n |-> n + 1]>>,
         b = <<[name |-> name, code |-> code, n |-> 1]>>
  PROVE  Corrected(v, b) = <<[name |-> name, code |-> code, n |-> n]>>
<1>1. Len(v) = 1 /\ v[1] = [name |-> name, code |-> code, n |-> n + 1] /\ b[1].n = 1
  OBVIOUS
<1>2. [v[1] EXCEPT !.n = IF v[1].n > b[1].n THEN v[1].n - b[1].n ELSE 0]
        = [name |-> name, code |-> code, n |-> n]
  BY <1>1
<1>3. \A i \in 1 .. 1 : i = 1
  OBVIOUS
<1>4. Corrected(v, b) = [i \in 1 .. 1 |-> [name |-> name, code |-> code, n |-> n]]
  BY <1>1, <1>2, <1>3 DEF Corrected
<1> QED
  BY <1>4

LEMMA RateReturn ==
  ASSUME Uneventful, IInv, Sole(hl, stack), stack # <<>>, Top.pc = "stop",
         Top.fn \in {"FLIP", "FLOP", "IPC"}, NEW o \in Ends(Top), NEW values,
         values = IF Top.burnin THEN Corrected(o.values, Top.b) ELSE o.values
  PROVE  values = RateValues(Top, Top.mine + IF Top.burnin THEN 0 ELSE 1)
<1>1. o.values = RateValues(Top, Top.mine + 1) /\ Top \in Frames /\ Top.mine \in Nat
  BY EndSole, IInvFacts, FrameFields
<1>2. CASE Top.burnin
  <2>1. RateBurntIn(Top)
    BY <1>2, SoleFacts DEF Sound
  <2>2. Top.b = <<[name |-> RateLabel[Top.fn], code |-> RateEvents(Top.fn, NoEvent)[1],
                   n |-> 1]>>
    BY <2>1 DEF RateBurntIn
  <2>3. values = Corrected(o.values, Top.b)
    BY <1>2
  <2>4. Corrected(o.values, Top.b) = RateValues(Top, Top.mine)
    BY <1>1, <2>2, CorrectedOne, SMTT(60) DEF RateValues
  <2> QED
    BY <1>1, <1>2, <2>3, <2>4
<1>3. CASE ~Top.burnin
  BY <1>1, <1>3
<1> QED
  BY <1>2, <1>3

LEMMA EndMeasuringSole ==
  ASSUME Uneventful, IInv, Sole(hl, stack), EndMeasuring
  PROVE  Sole(hl', stack')
<1> DEFINE n == Len(stack)
<1>1. stack # <<>> /\ Top.pc = "stop"
  BY DEF EndMeasuring, At
<1>2. PICK o \in Ends(Top) :
        /\ hl' = o.hl
        /\ \/ ReturnValues(IF Top.burnin THEN Corrected(o.values, Top.b)
                                         ELSE o.values)
           \/ Throw("error", Below)
  BY DEF EndMeasuring
<1>3. o.ok /\ Spare(hl')
  BY <1>1, <1>2, EndSole DEF Spare
<1>4. /\ stack \in Seq(Frames) /\ Top = stack[n] /\ Top \in Frames /\ FrameOK(Top)
      /\ n \in Nat /\ n # 0 /\ n \in 1 .. n /\ n - 1 \in 0 .. n /\ Nested(hl, stack)
  BY <1>1, IInvFacts
<1>5. /\ Below \in Seq(Frames) /\ Len(Below) = n - 1
      /\ \A i \in 1 .. n - 1 : Below[i] = stack[i]
  BY <1>4, BelowFacts DEF Below
<1>6. \A i \in 1 .. n - 1 : stack[i].pc = "start"
  BY <1>1, SoleFacts
<1>7. CASE Throw("error", Below)
  BY <1>1, <1>3, <1>7, ThrowClears
<1> DEFINE values == IF Top.burnin THEN Corrected(o.values, Top.b) ELSE o.values
<1>8. CASE ReturnValues(values)
  <2>1. \/ ~Top.null /\ stack' = Below
        \/ Top.null /\ stack' = [Below EXCEPT ![Len(Below)].b = values]
    BY <1>8 DEF ReturnValues
  <2>2. values \in Results
    BY <1>1, <1>3, ReturnedType
  <2>3. Top.fn \in {"FLIP", "FLOP", "IPC"} =>
          values = RateValues(Top, Top.mine + IF Top.burnin THEN 0 ELSE 1)
    <3>1. ASSUME NEW v, v = values, Top.fn \in {"FLIP", "FLOP", "IPC"}
          PROVE  v = RateValues(Top, Top.mine + IF Top.burnin THEN 0 ELSE 1)
      BY <1>1, <3>1, RateReturn
    <3> HIDE DEF values
    <3> QED
      BY <3>1
  <2> HIDE DEF values
  <2>4. n # 1 => /\ n - 1 \in 1 .. n - 1
                 /\ stack[n - 1].burnin /\ Top.null /\ Top.fn = stack[n - 1].fn
    <3> SUFFICES ASSUME n # 1
                 PROVE  /\ n - 1 \in 1 .. n - 1
                        /\ stack[n - 1].burnin /\ Top.null /\ Top.fn = stack[n - 1].fn
      OBVIOUS
    <3>1. n - 1 \in 1 .. n - 1 /\ (n - 1) + 1 = n
      <4>1. n \in Nat /\ n # 0
        BY <1>4
      <4> HIDE DEF n
      <4> QED
        BY <4>1
    <3>2. stack[n - 1].pc = "start"
      BY <1>6, <3>1
    <3>3. /\ stack[n - 1].burnin
          /\ stack[(n - 1) + 1].null /\ stack[(n - 1) + 1].fn = stack[n - 1].fn
      BY <1>4, <3>1, <3>2 DEF Nested, Waits
    <3> QED
      BY <1>4, <3>1, <3>3
  <2>5. CASE ~Top.null /\ stack' = Below
    <3>1. n = 1 /\ Len(Below) = 0
      BY <1>4, <1>5, <2>4, <2>5
    <3>2. stack' = <<>>
      BY <1>5, <2>5, <3>1, EmptySeq
    <3>3. ASSUME NEW t, Spare(t) PROVE Sole(t, stack')
      BY <3>2, <3>3, SoleEmpty
    <3> QED
      BY <1>3, <3>3
  <2>6. CASE Top.null /\ stack' = [Below EXCEPT ![Len(Below)].b = values]
    <3> DEFINE k == n - 1
               c == stack[k]
               f == [c EXCEPT !.b = values]
    <3>1. n # 1
      <4>1. n > 1 /\ n \in Nat
        BY <1>4, <2>6 DEF Nested, NullsOnTop
      <4> HIDE DEF n
      <4> QED
        BY <4>1
    <3>2. k \in 1 .. k /\ c.burnin /\ Top.fn = c.fn /\ c.pc = "start" /\ c \in Frames
      <4>1. k \in 1 .. k /\ c.burnin /\ Top.fn = c.fn
        BY <2>4, <3>1
      <4>2. Below[k] = c /\ c.pc = "start"
        BY <1>5, <1>6, <4>1
      <4>3. Below[k] \in Frames
        BY <1>5, <4>1, ElementOfSeq
      <4> QED
        BY <4>1, <4>2, <4>3
    <3>3. /\ f \in Frames /\ f.pc = "start" /\ f.fn = c.fn /\ f.b = values
          /\ f.burnin = c.burnin
      BY <2>2, <3>2 DEF Frames
    <3>4. stack' = [Below EXCEPT ![k] = f]
      BY <1>5, <2>6, <3>2
    <3> HIDE DEF f
    <3>5. /\ stack' \in Seq(Frames) /\ Len(stack') = k
          /\ \A j \in 1 .. k : stack'[j] = IF j = k THEN f ELSE Below[j]
      BY <1>5, <3>2, <3>3, <3>4, ExceptSeq
    <3>6. RateBurntIn(f)
      <4> SUFFICES ASSUME f.fn \in {"FLIP", "FLOP", "IPC"} PROVE RateBurntIn(f)
        BY DEF RateBurntIn
      <4>1. Top.fn = f.fn /\ Top.mine = 0 /\ ~Top.burnin
        BY <1>4, <2>6, <3>2, <3>3 DEF FrameOK
      <4>2. values = RateValues(Top, 1)
        BY <2>3, <4>1
      <4> QED
        BY <3>3, <4>1, <4>2 DEF RateBurntIn, RateValues
    <3>7. Sound(hl', f)
      BY <1>3, <3>3, <3>6 DEF Sound, Holds
    <3>8. \A j \in 1 .. Len(stack') - 1 : stack'[j].pc = "start"
      <4> SUFFICES ASSUME NEW j \in 1 .. k - 1 PROVE stack'[j].pc = "start"
        BY <3>5
      <4>1. j \in 1 .. k /\ j # k
        BY <1>4
      <4> QED
        BY <1>5, <1>6, <3>5, <4>1
    <3>9. stack' # <<>> /\ stack'[Len(stack')] = f
      BY <3>2, <3>5, EmptySeq
    <3>10. ASSUME NEW t, Sound(t, f) PROVE Sole(t, stack')
      BY <3>8, <3>9, <3>10 DEF Sole
    <3> QED
      BY <3>7, <3>10
  <2> QED
    BY <2>1, <2>5, <2>6
<1> QED
  BY <1>2, <1>7, <1>8

(* Counters started and stopped by hand. *)
LEMMA DirectSole ==
  ASSUME Uneventful, IInv, Sole(hl, stack), StartDirectly \/ StopDirectly
  PROVE  Sole(hl', stack')
<1>1. stack = <<>> /\ stack' = <<>> /\ hl \in Library /\ Measured(hl)
  BY IInvFacts DEF StartDirectly, StopDirectly
<1>2. Spare(hl)
  BY <1>1 DEF Sole
<1>3. Spare(hl')
  <2>1. CASE StartDirectly
    <3>1. PICK evs \in Seq(Names) : \E o \in PapiStart(hl, evs) : hl' = o.hl
      BY <2>1, SessionAssumption DEF StartDirectly
    <3>2. PICK o \in PapiStart(hl, evs) : hl' = o.hl
      BY <3>1
    <3>3. /\ o.ok => o.hl.running = "START"
          /\ ~o.ok => o.hl.running = hl.running /\ Quiet(o.hl)
      BY <1>1, <1>2, <3>2, PapiStartFacts DEF Uneventful, Spare
    <3> QED
      BY <1>2, <3>2, <3>3 DEF Spare, Quiet
  <2>2. CASE StopDirectly
    <3>1. PICK evs \in Seq(Names) : \E o \in PapiStop(hl, evs) : hl' = o.hl
      BY <2>2, SessionAssumption DEF StopDirectly
    <3>2. PICK o \in PapiStop(hl, evs) : hl' = o.hl
      BY <3>1
    <3>3. Kept(hl, o.hl) \/ (o.hl.running = "STOP" /\ Quiet(o.hl))
      BY <1>1, <3>2, PapiStopFacts
    <3> QED
      BY <1>2, <3>2, <3>3 DEF Spare, Quiet, Kept
  <2> QED
    BY <2>1, <2>2
<1>4. ASSUME NEW t, Spare(t) PROVE Sole(t, stack')
  BY <1>1, <1>4, SoleEmpty
<1> QED
  BY <1>3, <1>4

LEMMA StepSole ==
  Uneventful /\ IInv /\ Sole(hl, stack) /\ [Next]_vars => Sole(hl', stack')
<1> SUFFICES ASSUME Uneventful, IInv, Sole(hl, stack), [Next]_vars
             PROVE  Sole(hl', stack')
  OBVIOUS
<1>1. CASE Probe
  BY <1>1, ProbeSole
<1>2. CASE Unprobe
  BY <1>2, UnprobeSole
<1>3. CASE BurnIn
  BY <1>3, BurnInSole
<1>4. CASE BeginMeasuring
  BY <1>4, BeginMeasuringSole
<1>5. CASE EndMeasuring
  BY <1>5, EndMeasuringSole
<1>6. CASE Finish
  BY <1>6, FinishSole
<1>7. CASE Profile
  BY <1>7, ProfileSole
<1>8. CASE RaiseError \/ Interrupt
  BY <1>8 DEF RaiseError, Interrupt, Uneventful
<1>9. CASE Compute
  BY <1>9, ComputeSole
<1>10. CASE StartDirectly \/ StopDirectly
  BY <1>10, DirectSole
<1>11. CASE UNCHANGED vars
  BY <1>11 DEF vars
<1> QED
  BY <1>1, <1>2, <1>3, <1>4, <1>5, <1>6, <1>7, <1>8, <1>9, <1>10, <1>11
  DEF Next, ProfilerStep

LEMMA RateFaithfulReturn ==
  ASSUME Uneventful, IInv, Sole(hl, stack), EndMeasuring
  PROVE  RateFaithful'
<1>0. DOMAIN RateLabel = {"FLIP", "FLOP", "IPC"}
  BY DEF RateLabel
<1> SUFFICES ASSUME last'.fn \in {"FLIP", "FLOP", "IPC"}
             PROVE  last'.values =
                      <<[name |-> RateLabel[last'.fn],
                         code |-> RateEvents(last'.fn, NoEvent)[1],
                         n |-> last'.mine + Overhead']>>
  BY <1>0 DEF RateFaithful
<1>1. stack # <<>> /\ Top.pc = "stop"
  BY DEF EndMeasuring, At
<1>2. PICK o \in Ends(Top) :
        \/ ReturnValues(IF Top.burnin THEN Corrected(o.values, Top.b)
                                      ELSE o.values)
        \/ last' = NoResult
  BY DEF EndMeasuring
<1> DEFINE values == IF Top.burnin THEN Corrected(o.values, Top.b) ELSE o.values
<1>3. last' = [fn |-> Top.fn, evs |-> Top.evs, burnin |-> Top.burnin,
               mine |-> Top.mine, values |-> values]
  <2>1. last' # NoResult
    BY NoResultType
  <2> QED
    BY <1>2, <2>1 DEF ReturnValues
<1>4. Top.fn \in {"FLIP", "FLOP", "IPC"}
  BY <1>3
<1>5. values = RateValues(Top, Top.mine + IF Top.burnin THEN 0 ELSE 1)
  BY <1>1, <1>4, RateReturn
<1> HIDE DEF values
<1>6. Overhead' = IF Top.burnin THEN 0 ELSE 1
  BY <1>3 DEF Overhead
<1> QED
  BY <1>3, <1>5, <1>6 DEF RateValues

LEMMA StepRateFaithful ==
  Uneventful /\ IInv /\ Sole(hl, stack) /\ RateFaithful /\ [Next]_vars => RateFaithful'
<1> SUFFICES ASSUME Uneventful, IInv, Sole(hl, stack), RateFaithful, [Next]_vars
             PROVE  RateFaithful'
  OBVIOUS
<1>1. CASE EndMeasuring
  BY <1>1, RateFaithfulReturn
<1>2. CASE UNCHANGED vars
  BY <1>2 DEF vars, RateFaithful, Overhead
<1>3. CASE StopDirectly
  <2>1. last'.fn \notin DOMAIN RateLabel
    BY <1>3, NoResultType DEF StopDirectly, NoResult, RateLabel
  <2> QED
    BY <2>1 DEF RateFaithful
<1>4. CASE \/ Probe \/ Unprobe \/ BurnIn \/ BeginMeasuring \/ Finish \/ Profile
           \/ RaiseError \/ Interrupt \/ Compute \/ StartDirectly
  <2>1. last' = NoResult
    BY <1>4 DEF Probe, Unprobe, Proceed, BurnIn, BeginMeasuring, Finish, Profile,
                RaiseError, Interrupt, Compute, StartDirectly
  <2> QED
    BY <2>1, NoResultType DEF RateFaithful, RateLabel
<1> QED
  BY <1>1, <1>2, <1>3, <1>4 DEF Next, ProfilerStep

(* In a session that profiles one expression after another, none of which  *)
(* fails, perhaps with papi.start and papi.stop by hand in between, with   *)
(* hardware that starts and stops when it is told to, the count that       *)
(* system.flips, system.flops and system.utilization return (R/flips.r,    *)
(* R/flops.r, R/utilization.r) is the expression's own: the first rate     *)
(* call, the one that reports (papi_hl.c, _rate_calls) and the             *)
(* PAPI_stop_counters of the glue leave nothing to the next measurement,   *)
(* and the burn-in takes exactly the profiler's own work away.  Any other  *)
(* call may fail: papi.check.ncounters, PAPI_read and the rest.            *)
THEOREM SessionRateFaithful == ASSUME Uneventful PROVE Spec => []RateFaithful
<1>1. Init => Sole(hl, stack)
  <2> SUFFICES ASSUME Init PROVE Sole(hl, stack)
    OBVIOUS
  <2>1. stack = <<>> /\ hl.running = "STOP" /\ Quiet(hl)
    BY DEF Init, InitialLibrary, Quiet, EmptyEventSet
  <2>2. ASSUME NEW t, Spare(t) PROVE Sole(t, stack)
    BY <2>1, <2>2, SoleEmpty
  <2> QED
    BY <2>1, <2>2 DEF Spare
<1>2. IInv /\ Sole(hl, stack) /\ [Next]_vars => Sole(hl, stack)'
  BY StepSole
<1>3. Init => RateFaithful
  BY NoResultType DEF Init, RateFaithful, RateLabel
<1>4. IInv /\ Sole(hl, stack) /\ RateFaithful /\ [Next]_vars => RateFaithful'
  BY StepRateFaithful
<1> QED
  BY <1>1, <1>2, <1>3, <1>4, SessionInvariant, PTL DEF Spec
=============================================================================
