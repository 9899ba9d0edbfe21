# pbdPAPI in TLA+

pbdPAPI is an R package that measures R expressions with hardware counters. R
functions (`R/*.r`) call a thin C glue (`src/*.c`), which calls the high-level
interface of the bundled PAPI 5.4.3 (`src/papi-5.4.3/src/papi_hl.c`), which keeps
one event set of PAPI's low-level interface (`papi.c`). On Windows and OS X the
same glue is linked to a shim over Intel PCM (`src/libcipcm`) instead.

The layers a measurement goes through are small and sequential. What is hard there is
that each trusts the state the one below was left in: by an earlier call that failed
half-way, by an expression that raised an error, by a profiler nested in a profiler.
`EventSet`, `HighLevel`, `Glue` and `Session` put these layers on top of one another
and look at all such histories; `EventMap` goes one layer down, to the counters of the
kernel. Two parts are concurrent: the sessions of a machine that share its counters
through Intel PCM (`Pcm`), and the threads in PAPI's list of threads (`ThreadList`).

Paths below are relative to the package's root.

## Inventory

| component | state | operations | must be true |
|---|---|---|---|
| PAPI event sets (`papi.c`, `papi_internal.c`) | events, `PAPI_RUNNING`, counts | add, start, stop, read, reset, accum, cleanup | a running set is never changed; a failed addition keeps the earlier events |
| native events of a set (`papi_internal.c`, `components/perf_event`) | the array of native events with their owners, the positions of each event in it, the open counters, the context shared by the sets of a thread | add, remove, start, stop, read, cleanup | each event reads its own counters; owners are users, whatever failed half-way |
| PAPI threads (`threads.c`, `threads.h`) | the circular list of descriptors and its head, the thread-local pointers, `THREADS_LOCK`, the owner of each event set | initialize, register, unregister, list, shut down | the list is a circle of exactly the registered threads; no pointer to a freed descriptor; event sets go with their thread |
| PAPI high-level interface (`papi_hl.c`) | per-thread `HighLevelInfo`: owner, `num_evts`, `total_ins`, first time | `PAPI_num_counters`, `_start_`, `_read_`, `_accum_`, `_stop_counters`, `PAPI_flips`, `_flops`, `_ipc`, `_epc` | one measurement at a time; no work lost or counted twice; errors harmless; arrays long enough; stopped means clean |
| C glue (`events.c`, `flops.c`, `flips.c`, `epc.c`, `utilization.c`, `check.c`, `setret.c`, `papi_error.c`) | none of its own | one `.Call` each | numbers under the right names; failures reported |
| R profilers (`papi_event.r`, `flops.r`, `flips.r`, `utilization.r`, `epc.r`) | R's call stack | `papi.start`, `papi.stop`, `system.event`, `.flips`, `.flops`, `.utilization`, `.epc` | the result is the expression's; the counters come back |
| event table (`counter_avail.r`, `avail.c`, `zzz.r`, `init.c`) | the table in `.__pbdPAPIEnv` | load, look up | agrees with the library that is loaded |
| front ends (`cache.r`, `idle.r`, `characterize.r`, `ipcm.r`) | none | options to event vectors, then `system.event` | valid, distinct, enough counters |
| Intel PCM shim (`libcipcm/*.cpp`) | `ipcm_val`, `global_is_init` | initialize, start, stop | the same contract as PAPI's |
| Intel PCM 2.6 (`cpucounters.cpp`) | of the whole machine: who programmed each core, the count of instances, the lock | program, reset | whoever is told "programmed" measures on programmed cores, also by a count the dead have left behind |
| benchmarks, printing, hardware info | none | loops over `system.event`, output | not modelled |
| vendored PAPI (rest), build files | | | not modelled |

Interaction within a session is by direct calls on one thread; `HighLevelInfo` and the
event set are the only state that outlives a call. The one kind of callback is R's lazy
evaluation: a profiler evaluates its `expr` argument between starting and
stopping the counters, and the expression may call any function of the package,
raise an error or be interrupted. The hard behaviours there are long sequences of calls,
nesting, non-local exits and partial failure. With Intel PCM the sessions of a machine
interact through a system-wide lock, a count and the counters themselves, and a session
may die between any two steps. Threads interact through one circular list, whose
every write is visible alone. `PROJECT.json` lists the hazards one by one
under `hazards`, each at its line and with the properties that would catch it.

## Modules

    EventSet  <-  HighLevel  <-  HighLevelCalls  --refines-->  Meter
                     ^
                    Glue  <-  Session

    EventMap  <-  EventMapCalls  --every call does what-->  EventSet  says
    ThreadList  --refines-->  Registry
    Pcm

The proof modules follow the same layers:

    LibraryProofs  <-  HighLevelProofs
         ^
    GlueProofs  <-  SessionProofs  <-  OwnerProofs

    EventMapProofs       PcmProofs       ThreadListProofs

* **EventSet** - one PAPI event set. Every library function is an operator from the
  set to its possible outcomes `[ret, es, values]`, because C functions are called
  from more than one place. `Faults` names the hardware or system calls that may
  fail (`init add start stop read reset`); each failure is a separate outcome. A
  counter value is a pair `[code, n]`: `n` counts units of work, and the code kept
  beside it shows when a number is delivered in another event's place. All the
  events of a set see the same work. As in `PAPI_stop`, reading copies one value
  for *every* event in the set.
* **HighLevel** - `papi_hl.c` over it: the record `hl` is `HighLevelInfo` (`running`,
  `num_evts`, `total_ins`, the age of the measurement for `initial_real_time`), the
  library's readiness and the event set. One operator per function; helpers
  follow the code's own division (`CheckState`, `CleanedUp`, `RateBegin`,
  `RateReport`). Arguments that are NULL are left out, wrong lengths are not.
* **HighLevelCalls** - a program that calls these functions in any order with right
  and wrong arguments: one action per function, and `Compute` for the work in
  between. `reply` is the last return. `work` and `delivered` are history variables
  used by the properties and the refinement mapping only.
* **Meter** - what the interface promises, in terms of a session and replies: at most
  one measurement, on the requested events, each unit of work delivered once,
  in the order of the request, and failing calls change nothing.
* **Glue** - the C glue with the R functions that wrap one call of it, as operators to
  the ways the R function can end (value or R error). It has the parts that matter:
  duplicates removed, unknown names, the counter check, the label given to each
  number, the values left unset, the ignored result of `PAPI_stop_counters`, and the
  subtraction of the burn-in. `Uninit` says whether the integer that
  `papi_flops_on`, `papi_flips_on` and `papi_epc_on` leave uninitialised may read as
  an error.
* **Session** - an R session: a stack of active profiler calls, each with its program
  counter through the R function (`probe`, `unprobe`, `burnin`, `start`, `eval`,
  `stop`). The burn-in is a recursive call, hence a frame. `Throw` is R's unwinding:
  `system.event` catches errors of its expression and goes on, the other functions
  do not; user code may catch; interrupts are caught by nobody. `Happens` scopes
  what a run allows (`error`, `other`: an error that is not a `simpleError`,
  `catch`, `interrupt`, `nest`, `direct`: `papi.start`/`papi.stop` at the top level).
  Between start and stop the profiler itself costs one unit of work, which is what
  the burn-in is there to subtract; `mine` counts the expression's own work.
* **EventMap** - what is behind an event of a set: the list `EventInfoArray` (`events`,
  with the positions of each event), `NativeInfoArray` (`native`, the stale tail behind
  `NativeCount` included, because `add_native_fail_clean` looks there), and the counters
  `_pe_update_control_state` has opened (`open`). Presets stand for several native
  events, which the events of a set share. The loops of the code are folds
  (`AddNative`, `FailClean`, `Release`, `Compact`). A value read is the sequence of native
  events it was computed from, so that a number from the wrong counter is visible.
* **EventMapCalls** - a thread with several event sets: the six calls in any order,
  `running_eventset` (`running`) and `from_esi` (`from`: whose set used the context
  last). `AnyOrder` says whether events are removed in any order or only the last one.
  `Faults` are here the system calls that may fail (`add reopen remove start read
  stop`). `ImplementsEventSet` compares every call with the operators of `EventSet`.
* **Pcm** - sessions, each with the place it is at in `ipcm_init`, or whether `ipcm_val` points
  to an array; `lock`, `instances` and `pmu` belong to the machine. `Attempt` is
  `PCM::program` up to the loop over the cores, all under the lock; `Program` and
  `ResetPMU` are one core each. `Quit` ends a session anywhere, by `q()` or by a crash: the
  shim calls no `PCM::cleanup`. `setting.platform` says where lock and count live, and so
  what a dead session leaves behind: kernel objects of Windows go with their last
  handle, named semaphores of Linux and OS X stay (on OS X the count is kept by the driver of
  the MSRs, which outlives its clients as well). `ForeignUse` is another program at
  the counters.
* **ThreadList** - descriptors are addresses in `heap`, handed out again once freed. Every
  write to the list, to its head and to a thread-local pointer is a step. `Acquire` skips
  the lock until a thread id function is set, as `_papi_hwi_lock` does. `Rooms` are the
  lengths of the arrays given to `PAPI_list_threads`, 0 for none. `Casts` are the ids a thread
  may be looked up by once its own has been cut to an `int`: of another thread, of
  nobody, or 0, which stands for the thread-local pointer. `Rules` names
  what is asked of the program: `init`, that threads call the library after
  `PAPI_thread_init` (`papi.c:481` asks for it) and that this is called by the thread that
  has called `PAPI_library_init` (the code takes it for granted); `shutdown`, that `PAPI_shutdown` comes after
  the other threads have unregistered (no document asks for it). Library
  initialization and shutdown are one step each: in the runs nobody else is in a call
  that could tell.
* **Registry** - what the list stands for: a set of registered threads, and an answer to
  `PAPI_list_threads` that was true at one moment of the call: their number, or as many of
  them as the array has room for, each once, and how many that are. A thread is registered
  from the moment its descriptor leads the list until it is cut out of it.
* **MCHighLevel**, **MCSession**, **MCEventMap**, **MCPcm**, **MCThreadList** - small instances
  for TLC.
* **LibraryProofs**, **GlueProofs** - one lemma for each operator of `EventSet` and
  `HighLevel`, and of `Glue`: what its outcomes establish and leave alone.
  **HighLevelProofs**, **SessionProofs**, **OwnerProofs**, **EventMapProofs**,
  **PcmProofs**, **ThreadListProofs** - the inductive invariants and the theorems.

The operators whose comment begins with "Mutation of" are variants with a
plausible bug; replacing the original by its variant makes a run fail, which shows
that the property it is listed with in `PROJECT.json` depends on that code.

## What the runs check

| run | bounds | shows |
|---|---|---|
| `highlevel_sound` | 2 counters, a platform without `PAPI_REF_CYC`; arrays of 0-3 events incl. a duplicate, an unavailable one and one too many; lengths 0-2; work 3; faults `init add read reset` | `QuietWhenStopped`, `Conservation`, `ArrayFits`, `ErrorsAreHarmless`, `ImplementsMeter` |
| `highlevel_startfault` | as above, one fault | finding 1 |
| `session_any` | all profilers, five event vectors (one, two, duplicate, unavailable, misspelt), depth 2, work 3, all occurrences, faults `init add start stop`, `Uninit` | `EventFaithful`: **when** `system.event` returns, its values are its expression's, whatever happened before |
| `session_events` | `system.event` only, depth 3, work 3, `error other catch nest`, faults `init add start`, with fairness | `OneOwner`, `CountersComeBack` |
| `session_sequential` | all profilers one after another, `catch direct`, faults `init add`, work 4 | `RateFaithful` when nothing goes wrong in an expression |
| `session_aftererror` | the least that shows it | finding 2 |
| `eventmap_lifo` | two sets; 4 native events on 2 counters in arrays of 3, two presets that share one of them, one without native events; every fault but `remove` | `OwnersAreUsers`, `CountersServeEvents`, `ImplementsEventSet` when events are removed in the reverse order |
| `eventmap_remove` | one set, two native events, no faults | finding 3 |
| `pcm_sessions` | 3 sessions, one without access, 2 cores, both platforms, sessions that initialize one by one or together | `InstancesCovered`, `ProgrammedWhenSerial`, `CountBelievable`, `InitEnds` |
| `pcm_race` | 2 sessions, 2 cores, Windows | finding 4 |
| `threadlist_orderly` | 3 threads (one with an id that is too long), 3 addresses, one event set, 2 threads that list, without an array or with one of length 2 | `ListIntact`, `TLSLive`, `WalkersSafe`, `SetsGoWithTheirThread`, `LockHolderGoesOn`, `ImplementsRegistry` |
| `threadlist_shutdown` | 2 threads, 2 addresses | finding 5 |

The bounds are small because nothing in the code depends on a number being large:
two events tell positions apart, three overrun the counters of the smaller
platform, three units of work separate "lost", "once" and "twice" across two
deliveries, depth 2 has a call and the call it is nested in (the burn-in's frame
comes on top of the bound), depth 3 has one in the middle. `MaxWork` bounds the work
counted by a measurement or belonging to an expression; `Session` also refuses to begin
a call at the bound, except `system.event` at the top level, so that a session of
`system.event` calls never ends.

In `eventmap_lifo` two counters make the third native event one too many for the hardware
and arrays of three make the fourth one too many for the list, so both ways an addition
fails half-way occur, with and without a shared native event. In `pcm_sessions` two cores
give a state in which half of them are programmed; three sessions are one that programs,
one that joins and one that fails or resets between them. `MaxInstances` stops the count at
3: only 0 and more than 0 are told apart. In `threadlist_orderly` three descriptors are
the three cases of insertion and both of removal, and every address is used again; an array
of two is too short, long enough and too long for the lists that occur.
`threadlist_shutdown` leaks addresses until none is left, so it does not check deadlock.
Symmetry: event sets (`eventmap_*`), addresses and the threads with ids of the same kind
(`threadlist_*`) are interchangeable; only safety is checked under it.

Fairness (`FairSpec`, used by `session_events`): weak fairness of the profilers' own
steps, since the interpreter runs them without waiting for anything, and strong
fairness of `Finish`, which says that a profiled expression that is evaluated over and
over does not run forever each time. Nothing is assumed of errors, of nesting or of
which call comes next. In `Pcm` (`pcm_sessions`): weak fairness of `Program` and
`ResetPMU`, loops that wait for nothing, and strong fairness of `Attempt`, since the mutex
of Windows and the semaphores elsewhere serve those who wait in turn. Nothing is assumed of
sessions starting, measuring or dying. `LockHolderGoesOn` is the safety part of "the list's
lock always comes back"; it needs no fairness.

### What `EventFaithful` rests on

`system.event` starts and stops the counters once before it measures
(`R/papi_event.r:135`). If anything is running, this probe raises an error, so no
measurement is made on top of another. If a failed start has left events in the set,
the probe measures the mixture and its stop cleans the set. Without the probe the
property fails (mutation `NewFrameUnprobed`). The rate functions have no such probe.

### What the lower layers rest on

* `CountersServeEvents` holds although positions are only computed when an event is added:
  every path that opens counters again does so in the order of the array, whose prefix does
  not move when the last event goes. Removing another event moves it (finding 3).
* A preset whose addition fails gives back the native events it shares
  (`add_native_fail_clean` looks at owners first); without that, an event in the set loses
  its counter (mutation `FailCleanAll`).
* `ProgrammedWhenSerial`: PCM trusts the count of instances alone when it says that the
  cores are programmed. That is right after any death, because the cores stay programmed
  when the session that programmed them dies, and whoever dies before the last
  core holds the lock: on Windows the next session finds a PMU in use and the count gone,
  and resets it; elsewhere nobody ever gets the lock again.
* The list of threads is right only as long as the lock is not skipped (`init`).

### Findings

Shown by a run:

1. `papi_hl.c:148` - a failed `PAPI_start` leaves its events in the set; the next
   measurement counts them too (`StartCountsRequest`).
2. `R/flops.r:9` and its siblings - an error in the expression leaves the counters
   running (`CountersReleased`); the next `system.flops` then subtracts the stale total.
3. `papi_internal.c:1549` - removing an event that was not added last leaves others on the
   wrong counter: the code of the native event is not moved with it, and the events are not
   mapped again (`CountersServeEvents`). The package itself never removes events.
4. `cwrap.cpp:192` - busy counters are reset outside the lock, so a session may lose the
   counters it has just been told are programmed (`ReadyMeansProgrammed`).
5. `threads.c:515` - `PAPI_shutdown` leaves the other threads with pointers to freed
   descriptors (`TLSLive`).

Stated in the modules, and not what the code does; each takes one short trace, so they have no
run of their own:

6. `papi_hl.c:458` - a `PAPI_stop` that fails in a rate call marks the interface stopped
   while the hardware runs; no later call can stop it (`StopStops` in `HighLevelCalls`).
7. `src/events.c:100` - `papi.stop` labels the numbers by its own argument (`StopLabels`
   in `Session`).
8. `src/epc.c:85` - four entries of `system.epc` carry each other's names (`EpcNames`).
9. `src/flops.c:27` - the success value is never stored (`FailedStartStartsNothing`).

Seen while modelling: starting counters that are started
returns `PAPI_EINVAL` (`papi_hl.c:605`), where the comment at line 563 promises
`PAPI_EISRUN`; with `nest` in `Happens`, `system.flops` inside the expression of
`system.flops` stops the outer measurement, which then returns zero (`src/flops.c:40`);
`system.cpuormem` takes a `burnin` argument and ignores it (`R/characterize.r:35`); a failed
`ipcm_init` leaves `cout` and `cerr` on streams that are gone (`cwrap.cpp:183`); the
event sets of a thread whose id does not fit an `int` outlive it (`threads.h:92`), or those of
another thread go with it; given an array that is too short, `PAPI_list_threads` returns its
length (`threads.c:574`), where its comment says "output specifies the number of threads"
(`papi.c:272`), so the caller cannot tell that threads are missing; a `PAPI_stop_counters` of the shim
with a longer array than its start reads past the end (`fake_papi.cpp:121`).

## What is proved

`HighLevelProofs` proves, with TLAPS, for every set of events, number of counters and
sequence of calls:

| theorem | assumption | states |
|---|---|---|
| `TypeCorrect` | none | `Spec => []TypeOK` |
| `CountsAreConserved` | none | `Spec => []Conservation` |
| `AlwaysQuietWhenStopped` | `PAPI_start`, `PAPI_stop` do not fail | `Spec => []QuietWhenStopped` |
| `ArraysAlwaysFit` | same | `Spec => []ArrayFits` |
| `ErrorsNeverDisturb` | same | `Spec => ErrorsAreHarmless` |
| `HighLevelImplementsMeter` | same | `Spec => ImplementsMeter` |

The assumption cannot be dropped: findings 1 and 6 break the promises with just one of
the two faults. The other
assumptions are those of the constants, which TLC evaluates in every run.

The argument. `Conservation` is not inductive: a rate call reads `values[0]`, so its
total is only right if the set of a measurement in progress has an event. `IInv` adds
`Measured(hl)` (someone owns the counters => the set runs and is not empty). For
every operator of `HighLevel` a lemma (`StartCheckedFacts`, `RateReportFacts`, ...)
states what each of its outcomes leaves unchanged and what it establishes; the step
lemmas (`StartStep`, `RateStep`, ...) then need those facts only, never the operators'
definitions. The four conditional theorems share a second invariant `QInv`
(`IInv /\ QuietWhenStopped /\ ArrayFits`): a measurement begins on an empty
set, so that its events are exactly the request, which gives both the refinement
(`Begin` in `Meter`) and the length of the arrays. `CallEffect` bundles what one call does to
`QInv` and which `Meter` step it is, with one lemma per call.

`PcmProofs` proves, for any finite number of sessions, any number of cores and both
platforms:

| theorem | states |
|---|---|
| `PcmTyped` | `Spec => []TypeOK`, with "whoever programs holds the lock" |
| `CountCovers` | `Spec => []InstancesCovered` |
| `SerialSessionsProgrammed` | `Spec => []ProgrammedWhenSerial` |
| `CountBelieved` | `Spec => []CountBelievable` |

The assumptions are those of the constants: finitely many sessions, at least one core, and a
bound on the count no smaller than the number of sessions and above 1.

The argument. `TypeOK` and `InstancesCovered` are inductive together (a count at its bound still
covers all sessions, `SetSizes`).
`ProgrammedWhenSerial` is not: it looks at the cores only once a session is ready. `IInv` adds
what leads there. `OwnerAlone`: while the lock is taken, its owner alone is counted, because
only a session that found the count at zero takes it and nobody joins before it lets go; on
Windows the owner is alive too. `OneByOne`: among sessions that initialize one at a time,
nobody resets the cores while the count is above zero. `CountVouches`: the cores behind the
one being programmed are done, and a count above zero with the lock free means that all are, which is
`CountBelievable`.
A session that is ready is counted, so `OwnerAlone` says the lock is free,
`InstancesCovered` that the count is above zero, and `CountVouches` the rest
(`ReadyIsVouched`). `InitializingChanges` and `MeasuringChanges` say once what each step does to
the session that takes it; the step lemmas use nothing else of the record updates.

`SessionProofs` and `OwnerProofs` prove, for any table of events, number of counters, depth
of nesting and bound on the work:

| theorem | assumption | states |
|---|---|---|
| `SessionTypeCorrect` | none | `Spec => []TypeOK` |
| `SessionEventFaithful` | none | `Spec => []EventFaithful` |
| `SessionOneOwner` | `EventsOnly` | `Spec => []OneOwner` |
| `SessionRateFaithful` | `Uneventful` | `Spec => []RateFaithful` |

`EventsOnly`: `system.event` is the only profiler called, there are no interrupts and no bare
`papi.start` and `papi.stop`, and `PAPI_stop` does not fail. Errors on every level, errors that
are swallowed, nesting and failing starts remain. `Uneventful`: expressions do not fail,
nest or get interrupted, `PAPI_start` and `PAPI_stop` do not fail, and the success value that
is never stored does not read as an error; `papi.start` and `papi.stop` by hand remain, and
failures of every other call. None of these conditions can be dropped: with any one of them
lifted, TLC finds a counterexample at the bounds of `session_events` (`OneOwner`) or
`session_sequential` (`RateFaithful`; for nesting at depth 2). Findings 1, 2, 6 and 9 are
behind most of them.

The argument. `EventFaithful` speaks of a call that has returned; what makes it inductive is a
statement about the whole stack while the calls are active. `IInv` is the type, `Measured` (from
the layer below), and for the stack `Nested` and `Prepared`. `FramesOK`: a frame that has
passed its burn-in has a burn-in result of the right length, one unit of work in each entry.
`Waits` and `NullsOnTop`: only the innermost call is at work; every other waits for its
expression, or for the burn-in right above it. `Serves`: while a call of
`system.event` is between its start and its stop, the set counts exactly its events,
`count` is the work of its expression plus the profiler's unit, **and every call made from its
expression is still at its probe, its burn-in or its start**. That last part is why a nested
profiler, of whatever kind, cannot disturb it: whatever it starts returns an error while
the counters are taken. `Prepared`: after the probe the set is empty, whatever the
probe found. `AdvanceKeeps`, `PushKeeps` and `PopKeeps` say what the frame that moves has
to establish so that `Nested` goes on; the step lemmas use those.

`OneOwner` needs more: that *somebody* on the stack holds running counters, and that its
`papi.stop` will succeed. `Owners` says that the holder is unique, has only known events, and
`num_evts` is the number of its distinct events, so that the stop finds an array of the right
length; an error that unwinds the holder's frame therefore always releases them.
`RateFaithful` has no probe to rely on; `Sole` says instead that nothing but one measurement is
ever active: either the top frame holds the counters, `total_ins` is zero and the count
is the expression's work plus one, or the counters are `Spare`: stopped with an empty set,
or started by hand, in which case no profiler can begin.

`ThreadListProofs` proves, for any number of threads and any finite set of addresses:

| theorem | states |
|---|---|
| `ThreadListTypeCorrect` | `Spec => []TypeOK` |
| `ThreadListTLSLive` | `Spec => []TLSLive` |
| `ThreadListIntact` | `Spec => []ListIntact` |
| `ThreadListWalkersSafe` | `Spec => []WalkersSafe` |
| `ThreadListSetsGo` | `Spec => []SetsGoWithTheirThread` |
| `ThreadListImplements` | `Spec => ImplementsRegistry` |

All assume `Orderly`: the program keeps the rules `init` and `shutdown`. Finding 5 is what
happens without the second; without the first the lock is skipped. (`TypeOK` includes that a
listing counts no more threads than there are descriptors, which is not a matter of types: it
needs that the walk around the list ends, and so the shape of the list.) Addresses are finite
because a machine has finitely many; the count of a listing would otherwise have no number.

The argument. `Mutex`: the lock is held by exactly the thread that is at one of the places
`Inside`. `Owned` and `Placed`: every live descriptor is `Mine` of exactly one thread, either
its thread-local pointer or, while it registers, the descriptor in its hand. `Ring` is the set of
descriptors of the threads that are between the two writes that put them in the list and
take them out. The list itself is `Circle(heap, Ring)`: the `next` pointers stay within
the ring, no two are equal, and **no smaller non-empty set is closed under `next`**. The last part
replaces induction along the list: it says that the ring is *one* circle, survives
insertion (`CircleInsert`) and removal (`CircleRemove`) by set reasoning alone, and makes what
can be reached from any member (`Orbit`, defined as the least closed set) all of it
(`OrbitCircle`). `Headed` lists the moments at which the head is not in the ring: the first
insertion, the removal of the head. `Walking`: somebody who lists has seen a set of
descriptors that is closed but for the one he stands on, so that when the next is the head, the
set is closed and hence the ring. `SetsInv` adds the owners of the event sets. For the
refinement, `KnownRing` says that the registered threads of `Registry` are the threads in the
ring, and `WalkLists` that a walk that ends has met no thread twice, and has met them all unless
its array is full; every other step is mapped to a
step of one thread or to a stutter.

`EventMapProofs` proves, for any number of sets, of counters and of slots, any mapping of
presets to native events and any sequence of calls:

| theorem | states |
|---|---|
| `EventMapTypeCorrect` | `Spec => []TypeOK` |
| `EventMapOwners` | `Spec => []OwnersAreUsers` |
| `EventMapCountersServe` | `Spec => []CountersServeEvents` |
| `EventMapImplements` | `Spec => ImplementsEventSet` |

All assume its `Orderly`: what is removed is the event added last, and the counters can be opened
again after a removal. Every other fault, on every path, remains. The first half
cannot be dropped: finding 3 is what happens without it. The second half is the
hazard at `papi_internal.c:1584`, an event that stays in the list when its native events are
gone. pbdPAPI itself removes no events one by one, so both hold of the calls it makes.

The argument. `Sound` says of one set what all of this needs. `Dense`: the slots in use hold each
native event once, with as many owners as the list has uses of it (`UseCount`), and those
behind have none. `Placed` and `Opened`: positions are slot numbers, and whatever counters are
open are the slots in order. `Listing`: an event's positions are the slots of
its native events. `Stacked` is the strengthening that is not in any property: **a slot
never belongs to a later event than a slot behind it**. It holds because new native events are
put behind the others, and it is why the removal of the last event only cuts off the end of
the array (`Cut`), so that the compaction has nothing to move and the positions of the events
that stay remain true although nobody looks them up again.

The loops over native events and slots are folds over arrays of any length, and the
library's induction theorems take an operator, which the prover cannot instantiate.
`FoldExists` and `FoldGoes` turn a loop into the sequence of the states it goes through
(`Goes`), and `Inductive` is induction over its turns with the claim given as the *set* of the
turns it holds after, from the order of the naturals being well-founded (`NatLessThanWellFounded`, `WFMin`). What each
loop has done after k turns is then one definition, with one lemma per turn: `Adding`
(`add_native_events`), `Remains` (`add_native_fail_clean`), `Released` and `Compacting`
(`remove_native_events`). They share one account of the owners: `Plus(u, s, j, k)` is u with the
uses of the turns j to k of a loop over `s` added. Additions run it forwards from `UseCount`; a
failed one runs it backwards to where it began, which is why what remains is the array as it was
(`add_native_fail_clean` gives back each of exactly the native events that were added). A preset
that names a native event twice is covered: it has two owners for it.

`AddOutcomes` and `RemoveOutcomes` say that every outcome leaves a sound set with the list it was
meant to have; `AddCallKeeps`, `RemoveCallKeeps`, `StartKeeps` and the others add what `EventSet`
allows; `InvStep` puts them together for the six calls, for the invariant and the refinement at
once.

Only model-checked:

* Liveness: `CountersComeBack`, `InitEnds`. `LockHolderGoesOn`, which is about `ENABLED`. The
  prover has no rules for either.
* What the conditions of the theorems exclude: the findings are counterexamples, found
  by TLC, as are the mutations.

## Plan

Done: all modules above, and the proofs of every safety property the passing runs check but
`LockHolderGoesOn`. Open: what should hold after a removal that fails (no document says), and
theorems without the conditions above once the code is repaired: the first half of `Orderly`
in `EventMapProofs` would go with a compaction that moves the code of the native event and maps
the events again.

## Not modelled

* The components of PAPI besides perf_event, and in it multiplexing, overflow, profiling,
  attaching and domains: pbdPAPI does not use them. Hardware counters are abstracted to
  units of work (`EventSet`) or to the native events they count (`EventMap`). Postfix
  formulas of derived events: a value there is only the counters it came from.
* Of the threads, attached ones (`PAPI_attach` makes descriptors nobody owns),
  thread-specific storage and signals. `PAPI_shutdown` is never called by the package.
* Of the shim, `PCM::cleanup`, which runs only from a console handler on Windows, the contents
  and the length of `ipcm_val` (`PAPI_stop_counters` reads what it is asked for, also from an
  array of another length or from NULL, which a nested measurement leaves behind), and
  the decoding of the counters.
* Front ends (`cache.r`, `idle.r`, `characterize.r`, `ipcm.r`), the event table
  (`zzz.r`, `avail.c`) beyond the verdict of `papi.avail.lookup`, benchmarks, printing and
  hardware information: tables of strings without state that a call could leave wrong.
  `counters.c` is not part of the interface.
* Wording of messages and floating-point rates (`mflops`, `ipc`, `utilization`): no property
  is about them. R's protection stack.
