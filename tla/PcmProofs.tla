------------------------------ MODULE PcmProofs ------------------------------
(***************************************************************************)
(* Theorems about the sessions of Pcm, for any number of sessions and of   *)
(* cores.  The invariant IInv adds to the properties what makes them       *)
(* inductive: whoever holds the lock is alone, the cores behind the one    *)
(* that is programmed are done, and the count vouches for the cores.       *)
(***************************************************************************)
EXTENDS Pcm, TLAPS, FiniteSetTheorems

States == Initializing \cup {"off", "ready", "measuring", "failed"}

Session == [pc : States, tries : 0 .. 2, core : Cores]

(* While the lock is taken only its owner is counted, which programs; on   *)
(* Windows the owner is alive as well.                                     *)
OwnerAlone ==
  lock # NoProc =>
    /\ \A q \in Counted : q = lock /\ session[q].pc = "programming"
    /\ setting.platform = "windows" => session[lock].pc = "programming"

(* Sessions that initialize one by one: there is one at most, and while it *)
(* resets the cores no instance is counted.                                *)
OneByOne ==
  setting.serial =>
    /\ \A p, q \in Procs : session[p].pc \in Initializing
                           /\ session[q].pc \in Initializing => p = q
    /\ \A p \in Procs : session[p].pc = "reset" => instances = 0

(* Then the cores behind the one that is programmed are done, and a count  *)
(* above zero, when the lock is free, vouches for all of them.             *)
CountVouches ==
  setting.serial =>
    /\ \A p \in Procs, c \in Cores :
         session[p].pc = "programming" /\ c < session[p].core => pmu[c] = "pcm"
    /\ instances > 0 /\ lock = NoProc => \A c \in Cores : pmu[c] = "pcm"

IInv == TypeOK /\ InstancesCovered /\ OwnerAlone /\ OneByOne /\ CountVouches

-----------------------------------------------------------------------------
(* The cores are numbered from 1, so there is one. *)
LEMMA CoreNumbers ==
  /\ 1 \in Cores /\ NumCores \in Cores /\ NumCores \in Nat
  /\ \A c \in Cores : c \in Nat /\ (c < NumCores => c + 1 \in Cores)
                       /\ (c >= NumCores => c = NumCores)
BY CoresAssumption DEF Cores

(* The sessions that are counted are finitely many. *)
LEMMA CountedFinite ==
  /\ IsFiniteSet(Counted) /\ Cardinality(Counted) \in Nat
  /\ Cardinality(Counted) <= Cardinality(Procs)
  /\ Cardinality(Procs) \in Nat
  /\ Cardinality(Counted) = 0 => Counted = {}
<1>1. Counted \subseteq Procs BY DEF Counted
<1>2. IsFiniteSet(Procs) BY ProcsAssumption
<1>3. IsFiniteSet(Counted) BY <1>1, <1>2, FS_Subset
<1>4. Cardinality(Counted) <= Cardinality(Procs) BY <1>1, <1>2, FS_Subset
<1> QED BY <1>2, <1>3, <1>4, FS_CardinalityType, FS_EmptySet

(* A set of sessions with at most one member more or less. *)
LEMMA SetSizes ==
  ASSUME NEW S \in SUBSET Procs, NEW p \in Procs
  PROVE  /\ Cardinality({p}) = 1
         /\ p \notin S => Cardinality(S \cup {p}) = Cardinality(S) + 1
         /\ Cardinality(S \ {p}) <= Cardinality(S)
         /\ Cardinality(S \cup {p}) <= Cardinality(Procs)
         /\ Cardinality({}) = 0
<1>1. IsFiniteSet(Procs) BY ProcsAssumption
<1>2. IsFiniteSet(S) BY <1>1, FS_Subset
<1>3. S \ {p} \subseteq S /\ S \cup {p} \subseteq Procs OBVIOUS
<1>4. Cardinality({p}) = 1 BY FS_Singleton
<1>5. p \notin S => Cardinality(S \cup {p}) = Cardinality(S) + 1
  BY <1>2, FS_AddElement
<1>6. Cardinality(S \ {p}) <= Cardinality(S) BY <1>2, <1>3, FS_Subset
<1>7. Cardinality(S \cup {p}) <= Cardinality(Procs) BY <1>1, <1>3, FS_Subset
<1> QED BY <1>4, <1>5, <1>6, <1>7, FS_EmptySet

(* A step that changes one session only: who is counted before and after. *)
LEMMA CountedStep ==
  ASSUME NEW p \in Procs,
         \A q \in Procs \ {p} : session'[q] = session[q]
  PROVE  LET counts(s) == s.pc \in {"programming", "ready", "measuring"}
         IN Counted' = IF counts(session'[p]) THEN Counted \cup {p}
                       ELSE Counted \ {p}
BY DEF Counted

-----------------------------------------------------------------------------
(***************************************************************************)
(* What the steps do to the session that takes them.                       *)
(***************************************************************************)

(* The step changes session p only, to s. *)
Becomes(p, s) == session' = [session EXCEPT ![p] = s]

At(p, pc) == session[p].pc = pc

LEMMA InitializingSteps ==
  ASSUME NEW p \in Procs
  PROVE  /\ Begin(p)  => Becomes(p, [session[p] EXCEPT !.pc = "want", !.tries = 1])
         /\ Refuse(p) => Becomes(p, [session[p] EXCEPT !.pc = "failed", !.core = 1])
         /\ Join(p)   => Becomes(p, [session[p] EXCEPT !.pc = "ready", !.core = 1])
         /\ Busy(p)   => \E to \in {"reset", "failed"} :
                           Becomes(p, [session[p] EXCEPT !.pc = to, !.core = 1])
         /\ Take(p)   => Becomes(p, [session[p] EXCEPT !.pc = "programming", !.core = 1])
         /\ Program(p) =>
              Becomes(p, IF session[p].core < NumCores
                           THEN [session[p] EXCEPT !.core = @ + 1]
                           ELSE [session[p] EXCEPT !.pc = "ready", !.core = 1])
         /\ ResetPMU(p) =>
              Becomes(p, IF session[p].core < NumCores
                           THEN [session[p] EXCEPT !.core = @ + 1]
                           ELSE [session[p] EXCEPT !.pc = "want", !.core = 1,
                                                   !.tries = 2])
<1>1. Begin(p) => Becomes(p, [session[p] EXCEPT !.pc = "want", !.tries = 1])
  BY Zenon DEF Begin, Becomes
<1>2. \A pc : Goto(p, pc) => Becomes(p, [session[p] EXCEPT !.pc = pc, !.core = 1])
  BY Zenon DEF Goto, Becomes
<1>3. Busy(p) => \E to \in {"reset", "failed"} : Goto(p, to)
  BY Zenon DEF Busy
<1>4. Program(p) =>
        Becomes(p, IF session[p].core < NumCores
                     THEN [session[p] EXCEPT !.core = @ + 1]
                     ELSE [session[p] EXCEPT !.pc = "ready", !.core = 1])
  BY <1>2, Zenon DEF Program, Becomes
<1>5. ResetPMU(p) =>
        Becomes(p, IF session[p].core < NumCores
                     THEN [session[p] EXCEPT !.core = @ + 1]
                     ELSE [session[p] EXCEPT !.pc = "want", !.core = 1, !.tries = 2])
  BY Zenon DEF ResetPMU, Becomes
<1> QED BY <1>1, <1>2, <1>3, <1>4, <1>5, Zenon DEF Refuse, Join, Take

LEMMA MeasuringSteps ==
  ASSUME NEW p \in Procs
  PROVE  /\ StartCounters(p) => \E pc \in {"measuring", "ready"} :
                                   Becomes(p, [session[p] EXCEPT !.pc = pc])
         /\ StopCounters(p) => Becomes(p, [session[p] EXCEPT !.pc = "ready"])
         /\ Quit(p) => Becomes(p, Off)
BY Zenon DEF StartCounters, StopCounters, Quit, Becomes

(* Only session p changes, and these are its fields afterwards. *)
Changed(p, pc, core) ==
  /\ session' \in [Procs -> Session]
  /\ \A q \in Procs \ {p} : session'[q] = session[q]
  /\ session'[p].pc = pc /\ session'[p].core = core

(* A session that becomes one of the right type. *)
LEMMA BecomesChanged ==
  ASSUME session \in [Procs -> Session], NEW p \in Procs, NEW s \in Session,
         Becomes(p, s)
  PROVE  Changed(p, s.pc, s.core)
<1>1. session' \in [Procs -> Session] /\ session'[p] = s
  BY DEF Becomes
<1>2. \A q \in Procs \ {p} : session'[q] = session[q]
  BY DEF Becomes
<1> QED BY <1>1, <1>2, Zenon DEF Changed

(* A session that begins its first or its second attempt has its type. *)
LEMMA WantTyped ==
  ASSUME NEW r \in Session, NEW core \in Cores, NEW tries \in {1, 2}
  PROVE  LET s == [r EXCEPT !.pc = "want", !.core = core, !.tries = tries]
         IN /\ s \in Session /\ s.pc = "want" /\ s.core = core
<1>1. tries \in 0 .. 2 /\ "want" \in States
  BY DEF States, Initializing
<1> QED BY <1>1 DEF Session

LEMMA BeginTyped ==
  ASSUME NEW r \in Session
  PROVE  LET s == [r EXCEPT !.pc = "want", !.tries = 1]
         IN /\ s \in Session /\ s.pc = "want" /\ s.core = r.core
<1>1. 1 \in 0 .. 2 /\ "want" \in States
  BY DEF States, Initializing
<1> QED BY <1>1 DEF Session

(* The same of every step. *)
LEMMA InitializingChanges ==
  ASSUME session \in [Procs -> Session], NEW p \in Procs
  PROVE  LET from == session[p]
             To(pc, core) == Changed(p, pc, core)
         IN /\ Begin(p)  => To("want", from.core)
            /\ Refuse(p) => To("failed", 1)
            /\ Join(p)   => To("ready", 1)
            /\ Busy(p)   => To("reset", 1) \/ To("failed", 1)
            /\ Take(p)   => To("programming", 1)
            /\ Program(p) => IF from.core < NumCores
                               THEN To("programming", from.core + 1)
                               ELSE To("ready", 1)
            /\ ResetPMU(p) => IF from.core < NumCores
                                THEN To("reset", from.core + 1)
                                ELSE To("want", 1)
<1> DEFINE from == session[p]
           To(pc, core) == Changed(p, pc, core)
<1>0. from \in Session
  OBVIOUS
<1>1. ASSUME NEW pc \in States, NEW core \in Cores,
             Becomes(p, [from EXCEPT !.pc = pc, !.core = core])
      PROVE  To(pc, core)
  <2> DEFINE s == [from EXCEPT !.pc = pc, !.core = core]
  <2>1. s \in Session /\ s.pc = pc /\ s.core = core
    BY <1>0 DEF Session
  <2>2. Becomes(p, s)
    BY <1>1
  <2> HIDE DEF s, from
  <2> QED BY <2>1, <2>2, BecomesChanged DEF from
<1>2. {"want", "failed", "ready", "reset", "programming"} \subseteq States
  BY DEF States, Initializing
<1>3. Begin(p) => To("want", from.core)
  <2> DEFINE s == [from EXCEPT !.pc = "want", !.tries = 1]
  <2>1. s \in Session /\ s.pc = "want" /\ s.core = from.core
    BY <1>0, BeginTyped
  <2>2. Begin(p) => Becomes(p, s)
    BY InitializingSteps
  <2> HIDE DEF s
  <2> QED BY <2>1, <2>2, BecomesChanged
<1>4. ASSUME NEW core \in Cores, Becomes(p, [from EXCEPT !.core = core])
      PROVE  To(from.pc, core)
  <2> DEFINE s == [from EXCEPT !.core = core]
  <2>1. s \in Session /\ s.pc = from.pc /\ s.core = core
    BY <1>0 DEF Session
  <2>2. Becomes(p, s)
    BY <1>4
  <2> HIDE DEF s
  <2> QED BY <2>1, <2>2, BecomesChanged
<1>5. ASSUME Becomes(p, [from EXCEPT !.pc = "want", !.core = 1, !.tries = 2])
      PROVE  To("want", 1)
  <2> DEFINE s == [from EXCEPT !.pc = "want", !.core = 1, !.tries = 2]
  <2>0. 1 \in Cores
    BY CoreNumbers
  <2>1. s \in Session /\ s.pc = "want" /\ s.core = 1
    BY <1>0, <2>0, WantTyped
  <2>2. Becomes(p, s)
    BY <1>5
  <2> HIDE DEF s
  <2> QED BY <2>1, <2>2, BecomesChanged
<1>6. from.core \in Cores /\ 1 \in Cores
      /\ (from.core < NumCores => from.core + 1 \in Cores)
  BY <1>0, CoreNumbers DEF Session
<1>7. (Program(p) => from.pc = "programming") /\ (ResetPMU(p) => from.pc = "reset")
  BY DEF Program, ResetPMU
<1>8. Refuse(p) => To("failed", 1)
  BY <1>1, <1>2, <1>6, InitializingSteps, Zenon
<1>9. Join(p) => To("ready", 1)
  BY <1>1, <1>2, <1>6, InitializingSteps, Zenon
<1>10. Busy(p) => To("reset", 1) \/ To("failed", 1)
  <2>1. SUFFICES ASSUME Busy(p) PROVE To("reset", 1) \/ To("failed", 1)
    OBVIOUS
  <2>2. PICK to \in {"reset", "failed"} :
          Becomes(p, [from EXCEPT !.pc = to, !.core = 1])
    BY <2>1, InitializingSteps, Zenon
  <2> QED BY <2>2, <1>1, <1>2, <1>6, Zenon
<1>11. Take(p) => To("programming", 1)
  BY <1>1, <1>2, <1>6, InitializingSteps, Zenon
<1>12. Program(p) => IF from.core < NumCores THEN To("programming", from.core + 1)
                                             ELSE To("ready", 1)
  BY <1>1, <1>2, <1>4, <1>6, <1>7, InitializingSteps, Zenon
<1>13. ResetPMU(p) => IF from.core < NumCores THEN To("reset", from.core + 1)
                                              ELSE To("want", 1)
  BY <1>4, <1>5, <1>6, <1>7, InitializingSteps, Zenon
<1> QED BY <1>3, <1>8, <1>9, <1>10, <1>11, <1>12, <1>13, Zenon

LEMMA MeasuringChanges ==
  ASSUME session \in [Procs -> Session], NEW p \in Procs
  PROVE  LET from == session[p]
         IN /\ StartCounters(p) => \E pc \in {"measuring", "ready"} :
                                      Changed(p, pc, from.core)
            /\ StopCounters(p) => Changed(p, "ready", from.core)
            /\ Quit(p) => Changed(p, "off", 1)
<1> DEFINE from == session[p]
<1>0. from \in Session
  OBVIOUS
<1>1. ASSUME NEW pc \in {"measuring", "ready"}, Becomes(p, [from EXCEPT !.pc = pc])
      PROVE  Changed(p, pc, from.core)
  <2> DEFINE s == [from EXCEPT !.pc = pc]
  <2>1. s \in Session /\ s.pc = pc /\ s.core = from.core
    BY <1>0 DEF Session, States
  <2>2. Becomes(p, s)
    BY <1>1
  <2> HIDE DEF s
  <2> QED BY <2>1, <2>2, BecomesChanged
<1>2. StartCounters(p) => \E pc \in {"measuring", "ready"} : Changed(p, pc, from.core)
  BY <1>1, MeasuringSteps, Zenon
<1>3. StopCounters(p) => Changed(p, "ready", from.core)
  BY <1>1, MeasuringSteps, Zenon
<1>4. Quit(p) => Changed(p, "off", 1)
  <2>1. Off \in Session /\ Off.pc = "off" /\ Off.core = 1
    BY CoreNumbers DEF Off, Session, States
  <2>2. Quit(p) => Becomes(p, Off)
    BY MeasuringSteps
  <2> QED BY <2>1, <2>2, BecomesChanged
<1> QED BY <1>2, <1>3, <1>4, Zenon

-----------------------------------------------------------------------------
(***************************************************************************)
(* Every step keeps every conjunct of the invariant.                       *)
(***************************************************************************)

(* A step of a session between two measurements, in one, or out of one. *)
Measure(p) == StartCounters(p) \/ StopCounters(p)

LEMMA MeasureChanges ==
  ASSUME session \in [Procs -> Session], NEW p \in Procs, Measure(p)
  PROVE  /\ UNCHANGED <<setting, lock, instances, pmu>>
         /\ session[p].pc \in {"ready", "measuring"}
         /\ \E pc \in {"ready", "measuring"} : \E core :
              Changed(p, pc, core)
<1>1. UNCHANGED <<setting, lock, instances, pmu>>
      /\ session[p].pc \in {"ready", "measuring"}
  BY DEF Measure, StartCounters, StopCounters
<1>2. \E pc \in {"ready", "measuring"} : \E core :
        Changed(p, pc, core)
  BY MeasuringChanges, Zenon DEF Measure
<1> QED BY <1>1, <1>2

(* The steps, one by one. *)
LEMMA Steps ==
  ASSUME [Next]_vars
  PROVE  \/ \E p \in Procs : \/ Begin(p) \/ Refuse(p) \/ Join(p) \/ Busy(p)
                             \/ Take(p) \/ Program(p) \/ ResetPMU(p)
                             \/ Measure(p) \/ Quit(p)
         \/ ForeignUse \/ ForeignDone \/ UNCHANGED vars
BY Zenon DEF Next, Attempt, Measure

LEMMA TypeStep == TypeOK /\ [Next]_vars => TypeOK'
<1> SUFFICES ASSUME TypeOK, [Next]_vars PROVE TypeOK'
  OBVIOUS
<1>a. session \in [Procs -> Session]
  BY DEF TypeOK, Session, States
<1>b. ASSUME NEW p \in Procs, NEW pc, NEW core,
             Changed(p, pc, core), pc = "programming" => lock' = p,
             \A q \in Procs \ {p} : session[q].pc = "programming" => lock' = lock,
             setting' = setting, lock' \in Procs \cup {NoProc},
             instances' \in 0 .. MaxInstances,
             pmu' \in [Cores -> {"idle", "pcm", "foreign"}]
      PROVE  TypeOK'
  <2>1. \A q \in Procs : session'[q].pc = "programming" => lock' = q
    BY <1>b DEF Changed, TypeOK
  <2>2. session' \in [Procs -> Session] /\ setting' \in Settings
    BY <1>b DEF Changed, TypeOK
  <2> QED BY <2>1, <2>2, <1>b DEF TypeOK, Session, States
<1>1. ASSUME NEW p \in Procs, Begin(p) PROVE TypeOK'
  <2>1. UNCHANGED <<setting, lock, instances, pmu>>
    BY <1>1 DEF Begin
  <2> QED BY <1>1, <1>a, <1>b, <2>1, InitializingChanges DEF TypeOK
<1>2. ASSUME NEW p \in Procs, Refuse(p) \/ Busy(p) PROVE TypeOK'
  <2>1. UNCHANGED <<setting, lock, instances, pmu>>
    BY <1>2 DEF Refuse, Busy
  <2> QED BY <1>2, <1>a, <1>b, <2>1, InitializingChanges DEF TypeOK
<1>3. ASSUME NEW p \in Procs, Join(p) PROVE TypeOK'
  <2>1. UNCHANGED <<setting, lock, pmu>>
        /\ instances' = IF instances < MaxInstances THEN instances + 1 ELSE instances
    BY <1>3 DEF Join
  <2>2. instances' \in 0 .. MaxInstances
    BY <2>1, InstancesAssumption DEF TypeOK
  <2> QED BY <1>3, <1>a, <1>b, <2>1, <2>2, InitializingChanges DEF TypeOK
<1>4. ASSUME NEW p \in Procs, Take(p) PROVE TypeOK'
  <2>1. UNCHANGED <<setting, pmu>> /\ lock = NoProc /\ lock' = p /\ instances' = 1
    BY <1>4 DEF Take
  <2>2. 1 \in 0 .. MaxInstances
    BY InstancesAssumption
  <2>3. \A q \in Procs : session[q].pc # "programming"
    BY <2>1, ProcsAssumption DEF TypeOK
  <2> QED BY <1>4, <1>a, <1>b, <2>1, <2>2, <2>3, InitializingChanges DEF TypeOK
<1>5. ASSUME NEW p \in Procs, Program(p) PROVE TypeOK'
  <2>1. /\ UNCHANGED <<setting, instances>>
        /\ session[p].pc = "programming"
        /\ pmu' = [pmu EXCEPT ![session[p].core] = "pcm"]
        /\ IF session[p].core < NumCores THEN UNCHANGED lock ELSE lock' = NoProc
    BY <1>5 DEF Program
  <2>2. lock = p /\ \A q \in Procs \ {p} : session[q].pc # "programming"
    BY <2>1 DEF TypeOK
  <2>3. pmu' \in [Cores -> {"idle", "pcm", "foreign"}]
    BY <2>1 DEF TypeOK
  <2>4. CASE session[p].core < NumCores
    <3>1. Changed(p, "programming", session[p].core + 1)
      BY <1>5, <1>a, <2>4, InitializingChanges
    <3> QED BY <3>1, <1>b, <2>1, <2>2, <2>3, <2>4 DEF TypeOK
  <2>5. CASE ~(session[p].core < NumCores)
    <3>1. Changed(p, "ready", 1)
      BY <1>5, <1>a, <2>5, InitializingChanges
    <3> QED BY <3>1, <1>b, <2>1, <2>2, <2>3, <2>5 DEF TypeOK
  <2> QED BY <2>4, <2>5
<1>6. ASSUME NEW p \in Procs, ResetPMU(p) PROVE TypeOK'
  <2>1. UNCHANGED <<setting, lock, instances>>
        /\ pmu' = [pmu EXCEPT ![session[p].core] = "idle"]
    BY <1>6 DEF ResetPMU
  <2>2. pmu' \in [Cores -> {"idle", "pcm", "foreign"}]
    BY <2>1 DEF TypeOK
  <2>3. PICK pc \in {"reset", "want"} : \E core :
          Changed(p, pc, core)
    BY <1>6, <1>a, InitializingChanges, Zenon
  <2> QED BY <1>b, <2>1, <2>2, <2>3 DEF TypeOK
<1>7. ASSUME NEW p \in Procs, Measure(p) PROVE TypeOK'
  BY <1>7, <1>a, <1>b, MeasureChanges DEF TypeOK
<1>8. ASSUME NEW p \in Procs, Quit(p) PROVE TypeOK'
  <2>1. /\ UNCHANGED <<setting, pmu>>
        /\ lock' \in {lock, NoProc} /\ (lock # p => lock' = lock)
        /\ instances' \in {instances, 0}
    BY <1>8 DEF Quit
  <2>2. \A q \in Procs \ {p} : session[q].pc = "programming" => lock = q
    BY DEF TypeOK
  <2>3. instances' \in 0 .. MaxInstances
    BY <2>1, InstancesAssumption DEF TypeOK
  <2> QED BY <1>8, <1>a, <1>b, <2>1, <2>2, <2>3, MeasuringChanges DEF TypeOK
<1>9. CASE ForeignUse \/ ForeignDone
  BY <1>9 DEF ForeignUse, ForeignDone, TypeOK
<1>10. CASE UNCHANGED vars
  BY <1>10 DEF vars, TypeOK
<1> QED BY <1>1, <1>2, <1>3, <1>4, <1>5, <1>6, <1>7, <1>8, <1>9, <1>10, Steps, Zenon

(* The count covers the counted after every step. *)
LEMMA CoveredStep ==
  TypeOK /\ InstancesCovered /\ [Next]_vars => InstancesCovered'
<1> SUFFICES ASSUME TypeOK, InstancesCovered, [Next]_vars PROVE InstancesCovered'
  OBVIOUS
<1>a. session \in [Procs -> Session] /\ instances \in Nat
  BY DEF TypeOK, Session, States
<1>b. ASSUME Counted' = Counted, UNCHANGED <<setting, instances>>
      PROVE  InstancesCovered'
  BY <1>b DEF InstancesCovered
<1>c. ASSUME NEW p \in Procs, NEW pc, NEW core,
             Changed(p, pc, core)
      PROVE  Counted' = IF pc \in {"programming", "ready", "measuring"}
                          THEN Counted \cup {p} ELSE Counted \ {p}
  BY <1>c, CountedStep DEF Changed
<1>d. ASSUME NEW p \in Procs,
             session[p].pc \notin {"programming", "ready", "measuring"}
      PROVE  p \notin Counted
  BY <1>d DEF Counted
<1>e. ASSUME NEW p \in Procs,
             session[p].pc \in {"programming", "ready", "measuring"}
      PROVE  p \in Counted
  BY <1>e DEF Counted
<1>1. ASSUME NEW p \in Procs, Begin(p) PROVE InstancesCovered'
  <2>1. UNCHANGED <<setting, instances>> /\ p \notin Counted
    BY <1>1, <1>d DEF Begin
  <2> QED BY <1>1, <1>a, <1>b, <1>c, <2>1, InitializingChanges
<1>2. ASSUME NEW p \in Procs, Refuse(p) \/ Busy(p) PROVE InstancesCovered'
  <2>1. UNCHANGED <<setting, instances>> /\ p \notin Counted
    BY <1>2, <1>d DEF Refuse, Busy
  <2> QED BY <1>2, <1>a, <1>b, <1>c, <2>1, InitializingChanges
<1>3. ASSUME NEW p \in Procs, Join(p) PROVE InstancesCovered'
  <2>1. /\ UNCHANGED setting /\ instances > 0 /\ p \notin Counted
        /\ instances' = IF instances < MaxInstances THEN instances + 1 ELSE instances
    BY <1>3, <1>d DEF Join
  <2>2. Counted' = Counted \cup {p}
    BY <1>3, <1>a, <1>c, InitializingChanges
  <2>3. Counted \in SUBSET Procs
    BY DEF Counted
  <2>4. Cardinality(Counted') = Cardinality(Counted) + 1
        /\ Cardinality(Counted') <= Cardinality(Procs)
    BY <2>1, <2>2, <2>3, SetSizes
  <2>5. Cardinality(Counted') <= instances'
    BY <1>a, <2>1, <2>4, CountedFinite, InstancesAssumption DEF InstancesCovered, TypeOK
  <2> QED BY <2>2, <2>5 DEF InstancesCovered
<1>4. ASSUME NEW p \in Procs, Take(p) PROVE InstancesCovered'
  <2>1. UNCHANGED setting /\ instances = 0 /\ instances' = 1
    BY <1>4 DEF Take
  <2>2. Counted = {}
    BY <2>1, CountedFinite DEF InstancesCovered
  <2>3. Counted' = {p}
    BY <1>4, <1>a, <1>c, <2>2, InitializingChanges
  <2>4. Cardinality(Counted') = 1 /\ Counted' # {}
    BY <2>3, FS_Singleton
  <2> QED BY <2>1, <2>4 DEF InstancesCovered
<1>5. ASSUME NEW p \in Procs, Program(p) PROVE InstancesCovered'
  <2>1. UNCHANGED <<setting, instances>> /\ p \in Counted
    BY <1>5, <1>e DEF Program
  <2>2. \E pc \in {"programming", "ready"} : \E core :
          Changed(p, pc, core)
    BY <1>5, <1>a, InitializingChanges, Zenon
  <2> QED BY <1>b, <1>c, <2>1, <2>2
<1>6. ASSUME NEW p \in Procs, ResetPMU(p) PROVE InstancesCovered'
  <2>1. UNCHANGED <<setting, instances>> /\ p \notin Counted
    BY <1>6, <1>d DEF ResetPMU
  <2>2. \E pc \in {"reset", "want"} : \E core :
          Changed(p, pc, core)
    BY <1>6, <1>a, InitializingChanges, Zenon
  <2> QED BY <1>b, <1>c, <2>1, <2>2
<1>7. ASSUME NEW p \in Procs, Measure(p) PROVE InstancesCovered'
  BY <1>7, <1>a, <1>b, <1>c, <1>e, MeasureChanges
<1>8. ASSUME NEW p \in Procs, Quit(p) PROVE InstancesCovered'
  <2>1. /\ UNCHANGED setting
        /\ instances' = IF Counted \subseteq {p} /\ ~Survives(p) THEN 0 ELSE instances
    BY <1>8 DEF Quit
  <2>2. Counted' = Counted \ {p}
    BY <1>8, <1>a, <1>c, MeasuringChanges
  <2>3. Counted \in SUBSET Procs
    BY DEF Counted
  <2>4. Cardinality(Counted') <= Cardinality(Counted) /\ Cardinality(Counted') \in Nat
    BY <2>2, <2>3, SetSizes, FS_Subset, FS_CardinalityType, CountedFinite
  <2>5. CASE Counted \subseteq {p} /\ ~Survives(p)
    <3>1. Counted' = {}
      BY <2>2, <2>5
    <3> QED BY <2>1, <2>5, <3>1, FS_EmptySet DEF InstancesCovered
  <2>6. CASE ~(Counted \subseteq {p} /\ ~Survives(p))
    <3>1. Cardinality(Counted') <= instances'
      BY <1>a, <2>1, <2>4, <2>6, CountedFinite DEF InstancesCovered
    <3>2. setting.platform = "windows" => Counted' # {}
      BY <2>2, <2>6 DEF Survives
    <3> QED BY <2>1, <3>1, <3>2 DEF InstancesCovered
  <2> QED BY <2>5, <2>6
<1>9. CASE ForeignUse \/ ForeignDone \/ UNCHANGED vars
  <2>1. UNCHANGED <<setting, instances, session>>
    BY <1>9 DEF ForeignUse, ForeignDone, vars
  <2> QED BY <1>b, <2>1 DEF Counted
<1> QED BY <1>1, <1>2, <1>3, <1>4, <1>5, <1>6, <1>7, <1>8, <1>9, Steps, Zenon

(* Whoever takes the lock counts alone, and keeps counting alone. *)
LEMMA OwnerStep ==
  TypeOK /\ InstancesCovered /\ OwnerAlone /\ [Next]_vars => OwnerAlone'
<1> SUFFICES ASSUME TypeOK, InstancesCovered, OwnerAlone, [Next]_vars
             PROVE  OwnerAlone'
  OBVIOUS
<1>a. session \in [Procs -> Session] /\ lock \in Procs \cup {NoProc}
  BY DEF TypeOK, Session, States
<1>b. ASSUME lock' = NoProc PROVE OwnerAlone'
  BY <1>b DEF OwnerAlone
<1>c. ASSUME NEW p \in Procs, NEW pc, NEW core,
             Changed(p, pc, core),
             session[p].pc \notin {"programming", "ready", "measuring"},
             pc \notin {"programming", "ready", "measuring"},
             UNCHANGED <<setting, lock>>
      PROVE  OwnerAlone'
  <2>1. Counted' = Counted /\ p \notin Counted
    BY <1>c, CountedStep DEF Changed, Counted
  <2>2. \A q \in Procs \ {p} : session'[q] = session[q]
    BY <1>c DEF Changed
  <2>3. Counted \subseteq Procs
    BY DEF Counted
  <2>4. ASSUME lock # NoProc, NEW q \in Counted
        PROVE  q = lock /\ session'[q].pc = "programming"
    BY <2>1, <2>2, <2>3, <2>4 DEF OwnerAlone
  <2>5. lock # NoProc /\ setting.platform = "windows" =>
          session'[lock].pc = "programming"
    BY <1>a, <1>c, <2>2 DEF OwnerAlone
  <2> QED BY <1>c, <2>1, <2>4, <2>5 DEF OwnerAlone
<1>1. ASSUME NEW p \in Procs, Begin(p) PROVE OwnerAlone'
  <2>1. UNCHANGED <<setting, lock>> /\ session[p].pc \in {"off", "failed"}
    BY <1>1 DEF Begin
  <2> QED BY <1>1, <1>a, <1>c, <2>1, InitializingChanges
<1>2. ASSUME NEW p \in Procs, Refuse(p) \/ Busy(p) \/ Join(p) PROVE OwnerAlone'
  BY <1>2, <1>b DEF Refuse, Busy, Join
<1>3. ASSUME NEW p \in Procs, Take(p) PROVE OwnerAlone'
  <2>1. lock' = p /\ instances = 0
    BY <1>3 DEF Take
  <2>2. Counted = {}
    BY <2>1, CountedFinite DEF InstancesCovered
  <2>3. Changed(p, "programming", 1)
    BY <1>3, <1>a, InitializingChanges
  <2>4. Counted' = {p} /\ session'[p].pc = "programming"
    BY <2>2, <2>3, CountedStep DEF Changed
  <2> QED BY <2>1, <2>4 DEF OwnerAlone
<1>4. ASSUME NEW p \in Procs, Program(p) PROVE OwnerAlone'
  <2>1. session[p].pc = "programming" /\ lock = p /\ UNCHANGED setting
    BY <1>4 DEF Program, TypeOK
  <2>2. CASE session[p].core < NumCores
    <3>1. Changed(p, "programming", session[p].core + 1)
      BY <1>4, <1>a, <2>2, InitializingChanges
    <3>2. lock' = p
      BY <1>4, <2>1, <2>2 DEF Program
    <3>3. Counted' = Counted /\ session'[p].pc = "programming"
      BY <2>1, <3>1, CountedStep DEF Changed, Counted
    <3>4. p # NoProc
      BY ProcsAssumption
    <3> QED BY <2>1, <3>2, <3>3, <3>4 DEF OwnerAlone
  <2>3. CASE ~(session[p].core < NumCores)
    <3>1. lock' = NoProc
      BY <1>4, <2>3 DEF Program
    <3> QED BY <3>1, <1>b
  <2> QED BY <2>2, <2>3
<1>5. ASSUME NEW p \in Procs, ResetPMU(p) PROVE OwnerAlone'
  <2>1. UNCHANGED <<setting, lock>> /\ session[p].pc = "reset"
    BY <1>5 DEF ResetPMU
  <2>2. \E pc \in {"reset", "want"} : \E core :
          Changed(p, pc, core)
    BY <1>5, <1>a, InitializingChanges, Zenon
  <2> QED BY <1>c, <2>1, <2>2
<1>6. ASSUME NEW p \in Procs, Measure(p) PROVE OwnerAlone'
  <2>1. UNCHANGED lock /\ session[p].pc \in {"ready", "measuring"}
    BY <1>6, <1>a, MeasureChanges
  <2>2. p \in Counted /\ session[p].pc # "programming"
    BY <2>1 DEF Counted
  <2> QED BY <2>1, <2>2, <1>b DEF OwnerAlone
<1>7. ASSUME NEW p \in Procs, Quit(p) PROVE OwnerAlone'
  <2>1. /\ UNCHANGED setting
        /\ lock' = IF lock = p /\ ~Survives(p) THEN NoProc ELSE lock
    BY <1>7 DEF Quit
  <2>2. Changed(p, "off", 1)
    BY <1>7, <1>a, MeasuringChanges
  <2>3. Counted' = Counted \ {p} /\ \A q \in Procs \ {p} : session'[q] = session[q]
    BY <2>2, CountedStep DEF Changed
  <2>4. CASE lock = NoProc
    BY <1>b, <2>1, <2>4
  <2>5. CASE lock = p
    BY <1>b, <2>1, <2>3, <2>5 DEF OwnerAlone, Survives
  <2>6. CASE lock \in Procs \ {p}
    <3>1. lock' = lock /\ session'[lock] = session[lock]
      BY <2>1, <2>3, <2>6
    <3>2. lock # NoProc
      BY <2>6, ProcsAssumption
    <3> QED BY <2>1, <2>3, <3>1, <3>2 DEF OwnerAlone
  <2> QED BY <1>a, <2>4, <2>5, <2>6
<1>8. CASE ForeignUse \/ ForeignDone \/ UNCHANGED vars
  <2>1. UNCHANGED <<setting, lock, session>>
    BY <1>8 DEF ForeignUse, ForeignDone, vars
  <2> QED BY <2>1 DEF OwnerAlone, Counted
<1> QED BY <1>1, <1>2, <1>3, <1>4, <1>5, <1>6, <1>7, <1>8, Steps, Zenon

(* Sessions that begin one by one stay one by one. *)
LEMMA OneByOneStep ==
  TypeOK /\ OneByOne /\ [Next]_vars => OneByOne'
<1> SUFFICES ASSUME TypeOK, OneByOne, [Next]_vars PROVE OneByOne'
  OBVIOUS
<1>a. session \in [Procs -> Session]
  BY DEF TypeOK, Session, States
<1>b. ASSUME NEW p \in Procs, NEW pc, NEW core,
             Changed(p, pc, core), setting' = setting,
             instances' = instances \/ instances' = 0
             \/ session[p].pc \in Initializing,
             pc = "reset" => instances' = 0,
             setting.serial /\ pc \in Initializing =>
               \A q \in Procs \ {p} : session[q].pc \notin Initializing
      PROVE  OneByOne'
  <2>1. \A q \in Procs \ {p} : session'[q] = session[q]
    BY <1>b DEF Changed
  <2>2. session'[p].pc = pc
    BY <1>b DEF Changed
  <2>3. ASSUME setting.serial, NEW q \in Procs, NEW r \in Procs,
               session'[q].pc \in Initializing, session'[r].pc \in Initializing
        PROVE  q = r
    BY <1>b, <2>1, <2>2, <2>3 DEF OneByOne
  <2>4. ASSUME setting.serial, NEW q \in Procs, session'[q].pc = "reset"
        PROVE  instances' = 0
    <3>1. CASE q = p
      BY <1>b, <2>2, <2>4, <3>1
    <3>2. CASE q # p
      <4>1. session[q].pc = "reset" /\ session[q].pc \in Initializing
        BY <2>1, <2>4, <3>2 DEF Initializing
      <4>2. session[p].pc \notin Initializing
        BY <2>4, <3>2, <4>1 DEF OneByOne
      <4> QED BY <1>b, <2>4, <4>1, <4>2 DEF OneByOne
    <3> QED BY <3>1, <3>2
  <2> QED BY <1>b, <2>3, <2>4 DEF OneByOne
<1>c. ASSUME NEW p \in Procs, session[p].pc \in Initializing, setting.serial
      PROVE  \A q \in Procs \ {p} : session[q].pc \notin Initializing
  BY <1>c DEF OneByOne
<1>1. ASSUME NEW p \in Procs, Begin(p) PROVE OneByOne'
  <2>1. /\ UNCHANGED <<setting, instances>>
        /\ setting.serial => \A q \in Procs : session[q].pc \notin Initializing
    BY <1>1 DEF Begin
  <2> QED BY <1>1, <1>a, <1>b, <2>1, InitializingChanges
<1>2. ASSUME NEW p \in Procs, Refuse(p) \/ Join(p) \/ Busy(p) \/ Take(p)
      PROVE  OneByOne'
  <2>1. /\ UNCHANGED setting /\ session[p].pc \in Initializing
        /\ Busy(p) => instances' = 0
    BY <1>2 DEF Refuse, Join, Busy, Take, Initializing
  <2>2. PICK pc, core :
          Changed(p, pc, core) /\ (pc = "reset" => instances' = 0)
    BY <1>2, <1>a, <2>1, InitializingChanges
  <2> QED BY <1>b, <1>c, <2>1, <2>2
<1>3. ASSUME NEW p \in Procs, Program(p) PROVE OneByOne'
  <2>1. UNCHANGED <<setting, instances>> /\ session[p].pc \in Initializing
    BY <1>3 DEF Program, Initializing
  <2>2. \E pc \in {"programming", "ready"} : \E core :
          Changed(p, pc, core)
    BY <1>3, <1>a, InitializingChanges, Zenon
  <2> QED BY <1>b, <1>c, <2>1, <2>2
<1>4. ASSUME NEW p \in Procs, ResetPMU(p) PROVE OneByOne'
  <2>1. UNCHANGED <<setting, instances>> /\ session[p].pc = "reset"
        /\ session[p].pc \in Initializing
    BY <1>4 DEF ResetPMU, Initializing
  <2>2. setting.serial => instances = 0
    BY <2>1 DEF OneByOne
  <2>3. PICK pc \in {"reset", "want"} : \E core :
          Changed(p, pc, core)
    BY <1>4, <1>a, InitializingChanges, Zenon
  <2>4. CASE setting.serial
    BY <1>b, <1>c, <2>1, <2>2, <2>3, <2>4
  <2>5. CASE ~setting.serial
    BY <2>1, <2>5 DEF OneByOne
  <2> QED BY <2>4, <2>5
<1>5. ASSUME NEW p \in Procs, Measure(p) PROVE OneByOne'
  <2>1. \A pc \in {"ready", "measuring"} : pc \notin Initializing /\ pc # "reset"
    BY DEF Initializing
  <2> QED BY <1>5, <1>a, <1>b, <2>1, MeasureChanges
<1>6. ASSUME NEW p \in Procs, Quit(p) PROVE OneByOne'
  <2>1. UNCHANGED setting /\ instances' \in {instances, 0}
        /\ "off" \notin Initializing
    BY <1>6 DEF Quit, Initializing
  <2> QED BY <1>6, <1>a, <1>b, <2>1, MeasuringChanges
<1>7. CASE ForeignUse \/ ForeignDone \/ UNCHANGED vars
  <2>1. UNCHANGED <<setting, instances, session>>
    BY <1>7 DEF ForeignUse, ForeignDone, vars
  <2> QED BY <2>1 DEF OneByOne
<1> QED BY <1>1, <1>2, <1>3, <1>4, <1>5, <1>6, <1>7, Steps, Zenon

(* The count keeps vouching for the cores. *)
LEMMA VouchesStep == IInv /\ [Next]_vars => CountVouches'
<1> SUFFICES ASSUME IInv, [Next]_vars PROVE CountVouches'
  OBVIOUS
<1>a. /\ session \in [Procs -> Session] /\ lock \in Procs \cup {NoProc}
      /\ pmu \in [Cores -> {"idle", "pcm", "foreign"}]
      /\ instances \in Nat
      /\ \A q \in Procs : session[q].pc = "programming" => lock = q
      /\ \A q \in Procs : session[q].core \in Cores
  BY DEF IInv, TypeOK, Session, States
<1>b. ASSUME NEW p \in Procs, NEW pc, NEW core,
             Changed(p, pc, core), UNCHANGED <<setting, pmu>>,
             pc # "programming",
             setting.serial /\ instances' > 0 /\ lock' = NoProc =>
               instances > 0 /\ lock = NoProc
      PROVE  CountVouches'
  BY <1>b DEF IInv, CountVouches, Changed
<1>1. ASSUME NEW p \in Procs, Begin(p) PROVE CountVouches'
  <2>1. UNCHANGED <<setting, lock, instances, pmu>>
    BY <1>1 DEF Begin
  <2> QED BY <1>1, <1>a, <1>b, <2>1, InitializingChanges
<1>2. ASSUME NEW p \in Procs, Refuse(p) \/ Busy(p) PROVE CountVouches'
  <2>1. UNCHANGED <<setting, lock, instances, pmu>>
    BY <1>2 DEF Refuse, Busy
  <2> QED BY <1>2, <1>a, <1>b, <2>1, InitializingChanges
<1>3. ASSUME NEW p \in Procs, Join(p) PROVE CountVouches'
  <2>1. UNCHANGED <<setting, lock, pmu>> /\ instances > 0
    BY <1>3 DEF Join
  <2> QED BY <1>3, <1>a, <1>b, <2>1, InitializingChanges
<1>4. ASSUME NEW p \in Procs, Take(p) PROVE CountVouches'
  <2>1. UNCHANGED <<setting, pmu>> /\ lock' = p /\ lock' # NoProc
    BY <1>4, ProcsAssumption DEF Take
  <2>2. Changed(p, "programming", 1)
    BY <1>4, <1>a, InitializingChanges
  <2>3. \A c \in Cores : ~(c < 1)
    BY DEF Cores
  <2>4. session'[p].core = 1 /\ \A q \in Procs \ {p} : session'[q] = session[q]
    BY <2>2 DEF Changed
  <2> QED BY <2>1, <2>3, <2>4 DEF IInv, CountVouches
<1>5. ASSUME NEW p \in Procs, Program(p) PROVE CountVouches'
  <2>1. /\ UNCHANGED <<setting, instances>> /\ session[p].pc = "programming"
        /\ pmu' = [pmu EXCEPT ![session[p].core] = "pcm"]
    BY <1>5 DEF Program
  <2>2. \A q \in Procs \ {p} : session[q].pc # "programming"
    BY <1>a, <2>1
  <2>3. pmu'[session[p].core] = "pcm"
        /\ \A c \in Cores : pmu[c] = "pcm" => pmu'[c] = "pcm"
    BY <1>a, <2>1
  <2>4. setting.serial =>
          \A c \in Cores : c <= session[p].core => pmu'[c] = "pcm"
    <3>1. ASSUME setting.serial, NEW c \in Cores, c <= session[p].core
          PROVE  pmu'[c] = "pcm"
      <4>1. CASE c = session[p].core
        BY <2>3, <4>1
      <4>2. CASE c < session[p].core
        BY <2>1, <2>3, <3>1, <4>2 DEF IInv, CountVouches
      <4> QED BY <1>a, <3>1, <4>1, <4>2 DEF Cores
    <3> QED BY <3>1
  <2>5. CASE session[p].core < NumCores
    <3>1. Changed(p, "programming", session[p].core + 1)
      BY <1>5, <1>a, <2>5, InitializingChanges
    <3>2. lock' # NoProc
      BY <1>5, <1>a, <2>1, <2>5, ProcsAssumption DEF Program
    <3>3. \A q \in Procs, c \in Cores :
            session'[q].pc = "programming" /\ c < session'[q].core =>
              q = p /\ c <= session[p].core
      BY <1>a, <2>2, <3>1 DEF Changed, Cores
    <3> QED BY <2>1, <2>4, <3>2, <3>3 DEF CountVouches
  <2>6. CASE ~(session[p].core < NumCores)
    <3>1. Changed(p, "ready", 1)
      BY <1>5, <1>a, <2>6, InitializingChanges
    <3>2. \A q \in Procs : session'[q].pc # "programming"
      BY <2>2, <3>1 DEF Changed
    <3>3. \A c \in Cores : c <= session[p].core
      BY <1>a, <2>6, CoresAssumption DEF Cores
    <3> QED BY <2>1, <2>4, <3>2, <3>3 DEF CountVouches
  <2> QED BY <2>5, <2>6
<1>6. ASSUME NEW p \in Procs, ResetPMU(p) PROVE CountVouches'
  <2>1. UNCHANGED <<setting, lock, instances>> /\ session[p].pc = "reset"
    BY <1>6 DEF ResetPMU
  <2>2. setting.serial =>
          instances = 0 /\ \A q \in Procs : session[q].pc # "programming"
    BY <2>1 DEF IInv, OneByOne, Initializing
  <2>3. PICK pc \in {"reset", "want"} : \E core :
          Changed(p, pc, core)
    BY <1>6, <1>a, InitializingChanges, Zenon
  <2>4. setting.serial => \A q \in Procs : session'[q].pc # "programming"
    BY <2>2, <2>3 DEF Changed
  <2> QED BY <2>1, <2>2, <2>4 DEF CountVouches
<1>7. ASSUME NEW p \in Procs, Measure(p) PROVE CountVouches'
  BY <1>7, <1>a, <1>b, MeasureChanges
<1>8. ASSUME NEW p \in Procs, Quit(p) PROVE CountVouches'
  <2>1. /\ UNCHANGED <<setting, pmu>>
        /\ lock' = IF lock = p /\ ~Survives(p) THEN NoProc ELSE lock
        /\ instances' = IF Counted \subseteq {p} /\ ~Survives(p) THEN 0 ELSE instances
    BY <1>8 DEF Quit
  <2>2. lock = p => Counted \subseteq {p}
    BY ProcsAssumption DEF IInv, OwnerAlone
  <2>3. instances' > 0 /\ lock' = NoProc => instances > 0 /\ lock = NoProc
    BY <1>a, <2>1, <2>2
  <2> QED BY <1>8, <1>a, <1>b, <2>1, <2>3, MeasuringChanges
<1>9. CASE ForeignUse
  <2>1. UNCHANGED <<setting, lock, instances, session>>
        /\ \A c \in Cores : pmu[c] = "idle"
    BY <1>9 DEF ForeignUse, PMUinUse
  <2>2. \E c \in Cores : TRUE
    BY CoreNumbers
  <2> QED BY <2>1, <2>2 DEF IInv, CountVouches
<1>10. CASE ForeignDone
  <2>1. UNCHANGED <<setting, lock, instances, session>>
        /\ \A c \in Cores : pmu[c] = "pcm" => pmu'[c] = "pcm"
    BY <1>10 DEF ForeignDone
  <2> QED BY <2>1 DEF IInv, CountVouches
<1>11. CASE UNCHANGED vars
  BY <1>11 DEF vars, IInv, CountVouches
<1> QED BY <1>1, <1>2, <1>3, <1>4, <1>5, <1>6, <1>7, <1>8, <1>9, <1>10, <1>11,
           Steps, Zenon

-----------------------------------------------------------------------------
(* The machine starts with no session, no lock taken and nobody counted. *)
LEMMA InitHolds == Init => IInv
<1> SUFFICES ASSUME Init PROVE IInv
  OBVIOUS
<1>1. \A p \in Procs : session[p] = Off
  BY DEF Init
<1>2. Off.pc = "off"
  BY DEF Off
<1>3. TypeOK
  <2>1. session \in [Procs -> Session]
    BY CoreNumbers DEF Init, Off, Session, States
  <2>2. 0 \in 0 .. MaxInstances
    BY InstancesAssumption
  <2> QED BY <1>1, <1>2, <2>1, <2>2 DEF Init, TypeOK, Session, States
<1>4. Counted = {} /\ Cardinality(Counted) = 0
  BY <1>1, <1>2, FS_EmptySet DEF Counted
<1>5. InstancesCovered
  BY <1>4 DEF InstancesCovered, Init
<1>6. OwnerAlone
  BY DEF OwnerAlone, Init
<1>7. OneByOne
  BY <1>1, <1>2 DEF OneByOne, Initializing
<1>8. CountVouches
  BY <1>1, <1>2 DEF CountVouches, Init
<1> QED BY <1>3, <1>5, <1>6, <1>7, <1>8 DEF IInv

LEMMA IInvStep == IInv /\ [Next]_vars => IInv'
BY TypeStep, CoveredStep, OwnerStep, OneByOneStep, VouchesStep, Zenon DEF IInv

(* A session that is ready is counted, so the lock is free and the count   *)
(* above zero: it vouches for the cores.                                   *)
LEMMA ReadyIsVouched == IInv => ProgrammedWhenSerial
<1> SUFFICES ASSUME IInv, setting.serial, NEW p \in Procs, NEW c \in Cores,
                    session[p].pc \in {"ready", "measuring"}
             PROVE  pmu[c] = "pcm"
  BY DEF ProgrammedWhenSerial
<1>1. p \in Counted /\ session[p].pc # "programming"
  BY DEF Counted
<1>2. lock = NoProc
  BY <1>1 DEF IInv, OwnerAlone
<1>3. instances > 0
  <2>1. Cardinality(Counted) # 0
    BY <1>1, CountedFinite
  <2> QED BY <2>1, CountedFinite DEF IInv, InstancesCovered, TypeOK
<1> QED BY <1>2, <1>3 DEF IInv, CountVouches

(* The variables have their types, and a session that programs the cores   *)
(* holds the system-wide lock.                                             *)
THEOREM PcmTyped == Spec => []TypeOK
<1>1. IInv => TypeOK
  BY DEF IInv
<1>2. Init => IInv
  BY InitHolds
<1> QED BY <1>1, <1>2, IInvStep, PTL DEF Spec

(* The count of instances covers the sessions that rely on the counters,   *)
(* and on Windows no count outlives them, whatever dies when.              *)
THEOREM CountCovers == Spec => []InstancesCovered
<1>1. IInv => InstancesCovered
  BY DEF IInv
<1>2. Init => IInv
  BY InitHolds
<1> QED BY <1>1, <1>2, IInvStep, PTL DEF Spec

(* Sessions that initialize one at a time, however many they are and       *)
(* whatever dies when: each that is ready finds every core programmed.     *)
THEOREM SerialSessionsProgrammed == Spec => []ProgrammedWhenSerial
<1>1. Init => IInv
  BY InitHolds
<1> QED BY <1>1, IInvStep, ReadyIsVouched, PTL DEF Spec

(* A free lock and a count above zero, be it one that only dead sessions   *)
(* have left, mean that every core is programmed.                          *)
THEOREM CountBelieved == Spec => []CountBelievable
<1>1. IInv => CountBelievable
  BY DEF IInv, CountVouches, CountBelievable
<1>2. Init => IInv
  BY InitHolds
<1> QED BY <1>1, <1>2, IInvStep, PTL DEF Spec
=============================================================================
