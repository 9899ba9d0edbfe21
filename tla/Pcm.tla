--------------------------------- MODULE Pcm ---------------------------------
(***************************************************************************)
(* R sessions that measure through the Intel PCM shim (libcipcm) instead   *)
(* of PAPI.  Every session programs the counters of the whole machine,     *)
(* under a system-wide lock and a system-wide count of instances: the      *)
(* first one programs all cores, the others find them programmed.  A PMU   *)
(* in use when the count says nobody uses it is reset, outside the lock,   *)
(* and programmed at the second attempt.  No session ever undoes any of    *)
(* this: the shim does not call PCM::cleanup.                              *)
(*                                                                         *)
(* Where the lock and the count live differs.  On Windows they are kernel  *)
(* objects: the lock is let go when its owner dies, and the count is gone  *)
(* with the last process that holds a handle of it.  Elsewhere they are    *)
(* named semaphores (on OS X the driver of the MSRs keeps the count),      *)
(* which survive their processes.                                          *)
(***************************************************************************)
EXTENDS Integers, FiniteSets

CONSTANTS
  Procs,         \* R sessions
  NoProc,        \* no session
  NumCores,
  Denied,        \* sessions without access to the MSRs or to the count
  MaxInstances,  \* bound: the count of instances stops there
  Settings       \* where the sessions run: platform, one at a time or not

Platforms == {"windows", "posix"}

ASSUME ProcsAssumption     == NoProc \notin Procs /\ IsFiniteSet(Procs)
ASSUME CoresAssumption     == NumCores \in Nat \ {0}
ASSUME DeniedAssumption    == Denied \subseteq Procs
ASSUME InstancesAssumption ==
  MaxInstances \in Nat /\ MaxInstances >= Cardinality(Procs) /\ MaxInstances > 1
ASSUME SettingsAssumption  ==
  Settings \subseteq [platform : Platforms, serial : BOOLEAN]

VARIABLES
  setting,    \* one of Settings; serial: the sessions initialize one by one
  lock,       \* SystemWideLock
  instances,  \* the count of instances
  pmu,        \* who has programmed each core: "idle", "pcm" or "foreign"
  session     \* the sessions

vars == <<setting, lock, instances, pmu, session>>

Cores == 1 .. NumCores

(*  pc     off, want (wants the lock), programming, reset, failed, ready,   *)
(*         or measuring, when ipcm_val points to an array                   *)
(*  tries  calls of PCM::program by this ipcm_init                          *)
(*  core   the core that is programmed or reset next                        *)
Off == [pc |-> "off", tries |-> 0, core |-> 1]

Initializing == {"want", "programming", "reset"}

(* The sessions that hold a handle of the count. *)
Counted == {p \in Procs : session[p].pc \in {"programming", "ready", "measuring"}}

Init ==
  /\ setting \in Settings
  /\ lock = NoProc
  /\ instances = 0
  /\ pmu = [c \in Cores |-> "idle"]
  /\ session = [p \in Procs |-> Off]

Goto(p, pc) == session' = [session EXCEPT ![p].pc = pc, ![p].core = 1]

-----------------------------------------------------------------------------
(***************************************************************************)
(* ipcm_init: one call of PCM::program, or two with a reset between.       *)
(***************************************************************************)

(* PAPI_library_init, called by papi_init while PAPI is not initialized.   *)
Begin(p) ==
  /\ session[p].pc \in {"off", "failed"}
  /\ setting.serial => \A q \in Procs : session[q].pc \notin Initializing
  /\ session' = [session EXCEPT ![p].pc = "want", ![p].tries = 1]
  /\ UNCHANGED <<setting, lock, instances, pmu>>

(* What program does with the lock in its hands and before it touches a    *)
(* core is one step: nothing another session does can come between.        *)

(* program fails before it has counted itself. *)
Refuse(p) ==
  /\ session[p].pc = "want" /\ lock = NoProc /\ p \in Denied
  /\ Goto(p, "failed")
  /\ UNCHANGED <<setting, lock, instances, pmu>>

(* Another instance exists: the cores are taken to be programmed.  The     *)
(* bound on the count hides nothing: past 1 no value is told from another. *)
Join(p) ==
  /\ session[p].pc = "want" /\ lock = NoProc /\ p \notin Denied
  /\ instances > 0
  /\ instances' = IF instances < MaxInstances THEN instances + 1 ELSE instances
  /\ Goto(p, "ready")
  /\ UNCHANGED <<setting, lock, pmu>>

PMUinUse == \E c \in Cores : pmu[c] # "idle"

(* Mutation of Busy: it does not take itself off the count. *)
BusyKeepsCount(p) ==
  /\ session[p].pc = "want" /\ lock = NoProc /\ p \notin Denied
  /\ instances = 0 /\ PMUinUse
  /\ instances' = 1
  /\ Goto(p, IF session[p].tries = 1 THEN "reset" ELSE "failed")
  /\ UNCHANGED <<setting, lock, pmu>>

(* The first instance finds the PMU in use: it takes itself off the count  *)
(* and resets the cores, the first time; then it gives up.                 *)
Busy(p) ==
  /\ session[p].pc = "want" /\ lock = NoProc /\ p \notin Denied
  /\ instances = 0 /\ PMUinUse
  /\ Goto(p, IF session[p].tries = 1 THEN "reset" ELSE "failed")
  /\ UNCHANGED <<setting, lock, instances, pmu>>

(* The first instance finds the PMU idle and programs it under the lock.   *)
Take(p) ==
  /\ session[p].pc = "want" /\ lock = NoProc /\ p \notin Denied
  /\ instances = 0 /\ ~PMUinUse
  /\ lock' = p
  /\ instances' = 1
  /\ Goto(p, "programming")
  /\ UNCHANGED <<setting, pmu>>

(* Mutation of Program: the lock is let go with the last core still to do. *)
ProgramShort(p) ==
  LET core == session[p].core
  IN /\ session[p].pc = "programming"
     /\ pmu' = [pmu EXCEPT ![core] = "pcm"]
     /\ IF core + 1 < NumCores
          THEN session' = [session EXCEPT ![p].core = core + 1] /\ UNCHANGED lock
          ELSE Goto(p, "ready") /\ lock' = NoProc
     /\ UNCHANGED <<setting, instances>>

(* Mutation of Program: one core too many. *)
ProgramPast(p) ==
  LET core == session[p].core
  IN /\ session[p].pc = "programming"
     /\ pmu' = [pmu EXCEPT ![core] = "pcm"]
     /\ IF core <= NumCores
          THEN session' = [session EXCEPT ![p].core = core + 1] /\ UNCHANGED lock
          ELSE Goto(p, "ready") /\ lock' = NoProc
     /\ UNCHANGED <<setting, instances>>

(* Mutation of Program: the lock is kept. *)
ProgramKeepsLock(p) ==
  LET core == session[p].core
  IN /\ session[p].pc = "programming"
     /\ pmu' = [pmu EXCEPT ![core] = "pcm"]
     /\ IF core < NumCores THEN session' = [session EXCEPT ![p].core = core + 1]
                           ELSE Goto(p, "ready")
     /\ UNCHANGED <<setting, lock, instances>>

(* The loop over the cores. *)
Program(p) ==
  LET core == session[p].core
  IN /\ session[p].pc = "programming"
     /\ pmu' = [pmu EXCEPT ![core] = "pcm"]
     /\ IF core < NumCores
          THEN session' = [session EXCEPT ![p].core = core + 1] /\ UNCHANGED lock
          ELSE Goto(p, "ready") /\ lock' = NoProc
     /\ UNCHANGED <<setting, instances>>

(* resetPMU, which takes no lock, and after the last core the second call  *)
(* of program.  Whoever programmed the core loses it.                      *)
ResetPMU(p) ==
  LET core == session[p].core
  IN /\ session[p].pc = "reset"
     /\ pmu' = [pmu EXCEPT ![core] = "idle"]
     /\ session' = IF core < NumCores
                     THEN [session EXCEPT ![p].core = core + 1]
                     ELSE [session EXCEPT ![p].pc = "want", ![p].core = 1,
                                          ![p].tries = 2]
     /\ UNCHANGED <<setting, lock, instances>>

-----------------------------------------------------------------------------
(***************************************************************************)
(* The shim's PAPI calls.                                                  *)
(***************************************************************************)

(* PAPI_start_counters: a new array, also while there is one, of a         *)
(* measurement that was interrupted or in which this one is nested.  When  *)
(* there is no memory for it, ipcm_val is NULL afterwards.                 *)
StartCounters(p) ==
  /\ session[p].pc \in {"ready", "measuring"}
  /\ \E pc \in {"measuring", "ready"} : session' = [session EXCEPT ![p].pc = pc]
  /\ UNCHANGED <<setting, lock, instances, pmu>>

(* PAPI_stop_counters: the array is read and freed.  It is read to the     *)
(* length the stop is called with, whatever it was made for.  What lies    *)
(* behind its end, and what an array that is NULL leads to, is not         *)
(* modelled: the session goes on, as here, or dies, as in Quit.            *)
StopCounters(p) ==
  /\ session[p].pc = "measuring"
  /\ session' = [session EXCEPT ![p].pc = "ready"]
  /\ UNCHANGED <<setting, lock, instances, pmu>>

-----------------------------------------------------------------------------
(***************************************************************************)
(* The end of a session, at any moment, and the rest of the machine.       *)
(***************************************************************************)

(* Mutation of Survives: nobody inherits a lock whose owner is dead. *)
SurvivesAlways(p) == TRUE

(* The lock and the count survive session p. *)
Survives(p) == setting.platform = "posix"

Quit(p) ==
  /\ session[p].pc # "off"
  /\ session' = [session EXCEPT ![p] = Off]
  /\ lock' = IF lock = p /\ ~Survives(p) THEN NoProc ELSE lock
  /\ instances' = IF Counted \subseteq {p} /\ ~Survives(p) THEN 0 ELSE instances
  /\ UNCHANGED <<setting, pmu>>

(* Another program keeps to the rules for sharing the PMU: it programs     *)
(* cores that are idle, and clears what it still has when it is done.      *)
ForeignUse ==
  /\ ~PMUinUse
  /\ pmu' = [c \in Cores |-> "foreign"]
  /\ UNCHANGED <<setting, lock, instances, session>>

ForeignDone ==
  /\ \E c \in Cores : pmu[c] = "foreign"
  /\ pmu' = [c \in Cores |-> IF pmu[c] = "foreign" THEN "idle" ELSE pmu[c]]
  /\ UNCHANGED <<setting, lock, instances, session>>

Attempt(p) == Refuse(p) \/ Join(p) \/ Busy(p) \/ Take(p)

Next ==
  \/ \E p \in Procs :
       \/ Begin(p) \/ Attempt(p) \/ Program(p) \/ ResetPMU(p)
       \/ StartCounters(p) \/ StopCounters(p) \/ Quit(p)
  \/ ForeignUse \/ ForeignDone

(* A session that runs goes on with its initialization, and whoever waits  *)
(* for the system-wide lock gets it if it is free again and again: both    *)
(* kinds of lock keep a queue of those who wait.                           *)
Fairness ==
  \A p \in Procs : /\ WF_vars(Program(p)) /\ WF_vars(ResetPMU(p))
                   /\ SF_vars(Attempt(p))

Spec == Init /\ [][Next]_vars /\ Fairness

-----------------------------------------------------------------------------
(***************************************************************************)
(* Properties.                                                             *)
(***************************************************************************)

(* Every variable has its type, and the lock is held by who programs. *)
TypeOK ==
  /\ setting \in Settings
  /\ lock \in Procs \cup {NoProc}
  /\ instances \in 0 .. MaxInstances
  /\ pmu \in [Cores -> {"idle", "pcm", "foreign"}]
  /\ session \in [Procs ->
       [pc : Initializing \cup {"off", "ready", "measuring", "failed"},
        tries : 0 .. 2, core : Cores]]
  /\ \A p \in Procs : session[p].pc = "programming" => lock = p

(* The count of instances never falls behind the sessions that rely on the *)
(* counters, so none of them is taken for absent; and on Windows it does   *)
(* not outlive the last of them, so a new session never believes the dead. *)
InstancesCovered ==
  /\ Cardinality(Counted) <= instances
  /\ setting.platform = "windows" /\ Counted = {} => instances = 0

(* A session whose initialization succeeded, and so every measurement,     *)
(* finds all cores programmed, whatever died or was reset before it, when  *)
(* no two sessions initialize at the same time.                            *)
ProgrammedWhenSerial ==
  setting.serial =>
    \A p \in Procs, c \in Cores :
      session[p].pc \in {"ready", "measuring"} => pmu[c] = "pcm"

(* The same of any sessions, as program takes it for granted when it finds *)
(* another instance.                                                       *)
ReadyMeansProgrammed ==
  \A p \in Procs, c \in Cores :
    session[p].pc \in {"ready", "measuring"} => pmu[c] = "pcm"

(* Whoever finds the lock free and the count above zero may believe what   *)
(* program then takes for granted, that the cores are programmed: also     *)
(* when none of the sessions that were counted is alive, and one of them   *)
(* died while it programmed or reset the cores.  Of sessions that          *)
(* initialize one by one.                                                  *)
CountBelievable ==
  setting.serial /\ instances > 0 /\ lock = NoProc =>
    \A c \in Cores : pmu[c] = "pcm"

(* An initialization ends, though others come, go and die in the middle of *)
(* theirs; on Windows, where the lock of a dead session is let go.         *)
InitEnds ==
  \A p \in Procs :
    setting.platform = "windows" /\ session[p].pc \in Initializing
      ~> session[p].pc \in {"off", "ready", "measuring", "failed"}
=============================================================================
