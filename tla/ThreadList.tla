----------------------------- MODULE ThreadList -----------------------------
(***************************************************************************)
(* The threads PAPI knows (threads.c): a circular list of descriptors that *)
(* every thread changes under THREADS_LOCK, with a head that moves to      *)
(* whatever was inserted or looked up last; a thread-local pointer of each *)
(* thread to its own descriptor; and the event sets, which point to the    *)
(* descriptor of the thread that created them.  The lock is skipped until  *)
(* PAPI_thread_init has taken effect.                                      *)
(*                                                                         *)
(* Every write to the list is a step of its own.  A descriptor is a        *)
(* address that the allocator may hand out again once it is freed.         *)
(***************************************************************************)
EXTENDS Integers, FiniteSets

CONSTANTS
  Threads,
  NoThread,  \* nobody; the id in a descriptor that was cleared
  Pid,       \* the id every thread has before PAPI_thread_init
  Descs,     \* addresses of descriptors
  NoDesc,    \* NULL
  Sets,      \* slots of the global event set map
  Listers,   \* bound: the threads that call PAPI_list_threads
  Rooms,     \* bound: the lengths of the arrays they give it, 0 for none
  Fits,      \* threads whose id survives its conversion to an int
  Rules      \* the rules the program keeps to, a subset of RuleNames

ASSUME ThreadsAssumption == {NoThread, Pid} \cap Threads = {} /\ NoThread # Pid
ASSUME DescsAssumption   == NoDesc \notin Descs /\ IsFiniteSet(Descs)
ASSUME FitsAssumption    == Fits \subseteq Threads
ASSUME RoomsAssumption   == Rooms \subseteq Nat

(* "init": threads call the library once PAPI_thread_init has succeeded,   *)
(* which the manual asks for, and the thread that has called               *)
(* PAPI_library_init calls it, which the code does not look at.            *)
(* "shutdown": PAPI_shutdown is called when the other threads have         *)
(* unregistered, which it does not ask for.                                *)
RuleNames == {"init", "shutdown"}
ASSUME RulesAssumption == Rules \subseteq RuleNames

VARIABLES
  level,     \* init_level: "none", "inited" or "threads"
  threaded,  \* _papi_hwi_thread_id_fn is set
  lock,      \* THREADS_LOCK
  head,      \* _papi_hwi_thread_head
  heap,      \* the descriptors
  tls,       \* _papi_hwi_my_thread of each thread
  sets,      \* the event sets
  call,      \* the call each thread is in
  listed     \* the answer to the last PAPI_list_threads

vars == <<level, threaded, lock, head, heap, tls, sets, call, listed>>

Cleared == [live |-> FALSE, id |-> NoThread, next |-> NoDesc]
NoSet   == [master |-> NoDesc, by |-> NoThread]

(*  pc     where the thread is                                             *)
(*  desc   the descriptor it inserts, looks for, or stands on              *)
(*  prev   the predecessor of the one it removes                           *)
(*  room       the length of the array it lists the threads into           *)
(*  ids, num   the ids it has met, and their number                        *)
Idle == [pc |-> "idle", desc |-> NoDesc, prev |-> NoDesc,
         room |-> 0, ids |-> {}, num |-> 0]

(* What the thread identifies itself with: id_fn(), or else getpid(). *)
Id(t) == IF threaded THEN t ELSE Pid

Init ==
  /\ level = "none" /\ threaded = FALSE
  /\ lock = NoThread /\ head = NoDesc
  /\ heap = [d \in Descs |-> Cleared]
  /\ tls = [t \in Threads |-> NoDesc]
  /\ sets = [e \in Sets |-> NoSet]
  /\ call = [t \in Threads |-> Idle]
  /\ listed = [room |-> 0, ids |-> {}, num |-> 0]

(* The descriptors met from d on: the least set that has d, unless it is   *)
(* NULL, and leads nowhere else.                                           *)
Closed(S) == \A c \in S : heap[c].next \in S \cup {NoDesc}

Orbit(d) ==
  {c \in Descs : \A S \in SUBSET Descs :
                   Closed(S) /\ d \in S \cup {NoDesc} => c \in S}

(* The steps of a call. *)
At(t, pc) == call[t].pc = pc
Goto(t, pc) == call' = [call EXCEPT ![t].pc = pc]
Return(t) == call' = [call EXCEPT ![t] = Idle]

(* _papi_hwi_lock and _papi_hwi_unlock. *)
Acquire(t) == IF threaded THEN lock = NoThread /\ lock' = t ELSE UNCHANGED lock
Release(t) == lock' = IF threaded THEN NoThread ELSE lock

(* May the program call the library from thread t? *)
Allowed(t) == At(t, "idle") /\ ("init" \in Rules => threaded)

-----------------------------------------------------------------------------
(***************************************************************************)
(* PAPI_library_init and PAPI_thread_init.                                 *)
(***************************************************************************)

(* _papi_hwi_init_global_threads forgets whatever there was and inserts    *)
(* the caller.  As in Shutdown, the program is taken to call it alone.     *)
LibraryInit(t) ==
  /\ At(t, "idle") /\ level = "none" /\ lock = NoThread
  /\ \E d \in Descs :
       /\ ~heap[d].live
       /\ heap' = [heap EXCEPT ![d] = [live |-> TRUE, id |-> Pid, next |-> d]]
       /\ head' = d
       /\ tls'  = [tls EXCEPT ![t] = d]
  /\ level' = "inited" /\ threaded' = FALSE
  /\ UNCHANGED <<lock, sets, call, listed>>

(* The level is noted even when the function is refused because there are  *)
(* several threads already; the next call then succeeds and does nothing.  *)
ThreadInit(t) ==
  /\ At(t, "idle") /\ level = "inited" /\ head # NoDesc
  /\ "init" \in Rules => tls[t] = head
  /\ level' = "threads"
  /\ threaded' = (heap[head].next = head)
  /\ heap' = IF threaded' THEN [heap EXCEPT ![head].id = t] ELSE heap
  /\ UNCHANGED <<lock, head, tls, sets, call, listed>>

-----------------------------------------------------------------------------
(***************************************************************************)
(* PAPI_register_thread, and every call of a thread PAPI has not seen:     *)
(* initialize_thread and insert_thread.  When there is no memory, or a     *)
(* component refuses the thread, nothing changes.                          *)
(***************************************************************************)
Register(t) ==
  /\ Allowed(t) /\ level # "none" /\ tls[t] = NoDesc
  /\ \E d \in Descs :
       /\ ~heap[d].live
       /\ heap' = [heap EXCEPT ![d] = [live |-> TRUE, id |-> Id(t), next |-> NoDesc]]
       /\ call' = [call EXCEPT ![t].pc = "insert", ![t].desc = d]
  /\ UNCHANGED <<level, threaded, lock, head, tls, sets, listed>>

(* Mutation of Insert: the lock is not taken. *)
InsertUnlocked(t) ==
  LET d == call[t].desc
  IN /\ At(t, "insert")
     /\ heap' = [heap EXCEPT ![d].next = IF head = NoDesc THEN d ELSE heap[head].next]
     /\ Goto(t, "hook")
     /\ UNCHANGED <<level, threaded, lock, head, tls, sets, listed>>

(* The lock is taken, and the new descriptor points behind the head, or to *)
(* itself.                                                                 *)
Insert(t) ==
  LET d == call[t].desc
  IN /\ At(t, "insert") /\ Acquire(t)
     /\ heap' = [heap EXCEPT ![d].next = IF head = NoDesc THEN d ELSE heap[head].next]
     /\ Goto(t, "hook")
     /\ UNCHANGED <<level, threaded, head, tls, sets, listed>>

(* The head points to it. *)
Hook(t) ==
  /\ At(t, "hook")
  /\ heap' = IF head = NoDesc THEN heap
             ELSE [heap EXCEPT ![head].next = call[t].desc]
  /\ Goto(t, "lead")
  /\ UNCHANGED <<level, threaded, lock, head, tls, sets, listed>>

(* Mutation of Lead: the lock is kept. *)
LeadKeepsLock(t) ==
  /\ At(t, "lead")
  /\ head' = call[t].desc
  /\ Goto(t, "own")
  /\ UNCHANGED <<level, threaded, lock, heap, tls, sets, listed>>

(* It becomes the head. *)
Lead(t) ==
  /\ At(t, "lead") /\ Release(t)
  /\ head' = call[t].desc
  /\ Goto(t, "own")
  /\ UNCHANGED <<level, threaded, heap, tls, sets, listed>>

(* After the lock is given back, the thread notes its descriptor. *)
Own(t) ==
  /\ At(t, "own")
  /\ tls' = [tls EXCEPT ![t] = call[t].desc]
  /\ Return(t)
  /\ UNCHANGED <<level, threaded, lock, head, heap, sets, listed>>

-----------------------------------------------------------------------------
(***************************************************************************)
(* PAPI_unregister_thread: shutdown_thread and remove_thread.              *)
(***************************************************************************)

(* A thread whose descriptor has another id is refused with PAPI_EBUG. *)
Unregister(t) ==
  /\ Allowed(t) /\ tls[t] # NoDesc /\ heap[tls[t]].id = Id(t)
  /\ call' = [call EXCEPT ![t].pc = "lookup"]
  /\ UNCHANGED <<level, threaded, lock, head, heap, tls, sets, listed>>

(* _papi_hwi_lookup_thread is given the id of t as an int.  One that does  *)
(* not fit may become the id of another thread, or of nobody.              *)
Casts(t) == IF threaded /\ t \notin Fits THEN Fits \cup {Pid} ELSE {Id(t)}

Found(t) == {d \in Orbit(head) : heap[d].id \in Casts(t)}

(* free_eventsets looks the caller up by its id, which makes what it finds *)
(* the head; it takes and gives back the lock in this step.  An int of 0   *)
(* asks for the thread-local pointer instead.                              *)
Lookup(t) ==
  /\ At(t, "lookup")
  /\ \/ /\ threaded => lock = NoThread
        /\ Found(t) = {} \/ Casts(t) # {Id(t)}
        /\ call' = [call EXCEPT ![t].pc = "drop", ![t].desc = NoDesc]
        /\ UNCHANGED head
     \/ /\ threaded => lock = NoThread
        /\ \E d \in Found(t) :
             /\ call' = [call EXCEPT ![t].pc = "drop", ![t].desc = d]
             /\ head' = d
     \/ /\ threaded
        /\ call' = [call EXCEPT ![t].pc = "drop", ![t].desc = tls[t]]
        /\ UNCHANGED head
  /\ UNCHANGED <<level, threaded, lock, heap, tls, sets, listed>>

(* Mutation of DropSets: the event sets stay. *)
DropNothing(t) ==
  /\ At(t, "drop")
  /\ call' = [call EXCEPT ![t].pc = "remove", ![t].desc = tls[t]]
  /\ UNCHANGED <<level, threaded, lock, head, heap, tls, sets, listed>>

(* The event sets of what was found are freed. *)
DropSets(t) ==
  /\ At(t, "drop")
  /\ sets' = [e \in Sets |->
                IF sets[e].master # NoDesc /\ sets[e].master = call[t].desc
                  THEN NoSet ELSE sets[e]]
  /\ call' = [call EXCEPT ![t].pc = "remove", ![t].desc = tls[t]]
  /\ UNCHANGED <<level, threaded, lock, head, heap, tls, listed>>

(* The lock is taken, and the predecessor looked for in a walk around the  *)
(* circle.  A descriptor that is not in it is looked for forever, with the *)
(* lock in hand.                                                           *)
Remove(t) ==
  LET d == call[t].desc
  IN /\ At(t, "remove") /\ Acquire(t)
     /\ IF d \in Orbit(head)
          THEN \E p \in Orbit(head) :
                 /\ heap[p].next = d
                 /\ call' = [call EXCEPT ![t].pc = "unlink", ![t].prev = p]
          ELSE Goto(t, "astray")
     /\ UNCHANGED <<level, threaded, head, heap, tls, sets, listed>>

Unlink(t) ==
  LET d == call[t].desc
      p == call[t].prev
  IN /\ At(t, "unlink")
     /\ IF p = d
          THEN head' = NoDesc /\ heap' = [heap EXCEPT ![d].next = NoDesc]
          ELSE heap' = [heap EXCEPT ![p].next = heap[d].next] /\ UNCHANGED head
     /\ Goto(t, "advance")
     /\ UNCHANGED <<level, threaded, lock, tls, sets, listed>>

(* Mutation of Advance: the head stays where it is. *)
AdvanceNever(t) ==
  /\ At(t, "advance") /\ Release(t)
  /\ Goto(t, "discard")
  /\ UNCHANGED <<level, threaded, head, heap, tls, sets, listed>>

(* The head moves on when it is the one removed. *)
Advance(t) ==
  LET d == call[t].desc
  IN /\ At(t, "advance") /\ Release(t)
     /\ head' = IF head = d THEN heap[d].next ELSE head
     /\ Goto(t, "discard")
     /\ UNCHANGED <<level, threaded, heap, tls, sets, listed>>

(* Mutation of Discard: the thread keeps its pointer. *)
DiscardKeeps(t) ==
  /\ At(t, "discard")
  /\ heap' = [heap EXCEPT ![call[t].desc] = Cleared]
  /\ Return(t)
  /\ UNCHANGED <<level, threaded, lock, head, tls, sets, listed>>

(* The thread forgets its descriptor, which is cleared and freed. *)
Discard(t) ==
  /\ At(t, "discard")
  /\ tls' = [tls EXCEPT ![t] = NoDesc]
  /\ heap' = [heap EXCEPT ![call[t].desc] = Cleared]
  /\ Return(t)
  /\ UNCHANGED <<level, threaded, lock, head, sets, listed>>

-----------------------------------------------------------------------------
(***************************************************************************)
(* PAPI_list_threads, which asks neither for the library nor for the       *)
(* thread to be initialized.  An array of no length is PAPI_EINVAL, and    *)
(* nothing changes; no array at all only counts.                           *)
(***************************************************************************)
List(t) ==
  /\ Allowed(t) /\ t \in Listers /\ Acquire(t)
  /\ \E n \in Rooms :
       call' = [call EXCEPT ![t].pc = "walk", ![t].desc = head, ![t].room = n]
  /\ UNCHANGED <<level, threaded, head, heap, tls, sets, listed>>

(* Mutation of Full: noticed one entry too late.                           *)
FullLate(t, num) == call[t].room # 0 /\ num > call[t].room

(* With so many entries the array is full.                                 *)
Full(t, num) == call[t].room # 0 /\ num >= call[t].room

(* The walk ends when it is around, or when the array is full: what it     *)
(* then reports as the number of threads is the length of the array.       *)
Walk(t) ==
  LET d    == call[t].desc
      ids  == IF d = NoDesc THEN {} ELSE call[t].ids \cup {heap[d].id}
      num  == IF d = NoDesc THEN 0 ELSE call[t].num + 1
      more == /\ d # NoDesc /\ heap[d].next # NoDesc /\ heap[d].next # head
              /\ ~Full(t, num)
  IN /\ At(t, "walk")
     /\ IF more
          THEN /\ call' = [call EXCEPT ![t].desc = heap[d].next,
                                       ![t].ids = ids, ![t].num = num]
               /\ UNCHANGED <<lock, listed>>
          ELSE /\ listed' = [room |-> call[t].room, num |-> num,
                             ids |-> IF call[t].room = 0 THEN {} ELSE ids]
               /\ Return(t) /\ Release(t)
     /\ UNCHANGED <<level, threaded, head, heap, tls, sets>>

-----------------------------------------------------------------------------
(***************************************************************************)
(* Event sets, and PAPI_shutdown.                                          *)
(***************************************************************************)

(* PAPI_create_eventset of a thread PAPI knows; for another it registers   *)
(* the thread first. *)
CreateSet(t) ==
  /\ Allowed(t) /\ level # "none" /\ tls[t] # NoDesc
  /\ \E e \in Sets :
       /\ sets[e] = NoSet
       /\ sets' = [sets EXCEPT ![e] = [master |-> tls[t], by |-> t]]
  /\ UNCHANGED <<level, threaded, lock, head, heap, tls, call, listed>>

(* PAPI_destroy_eventset asks for a handle, whoever created the set. *)
DestroySet(t) ==
  /\ Allowed(t) /\ level # "none"
  /\ \E e \in Sets : sets[e] # NoSet /\ sets' = [sets EXCEPT ![e] = NoSet]
  /\ UNCHANGED <<level, threaded, lock, head, heap, tls, call, listed>>

(* shutdown_global_threads removes the caller and then everybody in the    *)
(* list; a caller PAPI does not know removes nobody, and one that is not   *)
(* in the list is looked for forever.  Only the caller's own pointer is    *)
(* cleared.                                                                *)
Shutdown(t) ==
  /\ At(t, "idle") /\ level # "none" /\ lock = NoThread
  /\ "init" \in Rules => threaded
  /\ "shutdown" \in Rules =>
       \A u \in Threads \ {t} : At(u, "idle") /\ tls[u] = NoDesc
  /\ sets' = [e \in Sets |-> NoSet]
  /\ IF tls[t] \in Orbit(head) \cup {NoDesc}
       THEN /\ heap' = IF tls[t] = NoDesc THEN heap
                       ELSE [d \in Descs |-> IF d \in Orbit(head) THEN Cleared
                                             ELSE heap[d]]
            /\ tls' = [tls EXCEPT ![t] = NoDesc]
            /\ head' = NoDesc /\ threaded' = FALSE /\ level' = "none"
            /\ UNCHANGED <<lock, call>>
       ELSE /\ Acquire(t) /\ Goto(t, "astray")
            /\ UNCHANGED <<level, threaded, head, heap, tls>>
  /\ UNCHANGED listed

(* The steps of a call once it has begun. *)
Step(t) ==
  \/ Insert(t) \/ Hook(t) \/ Lead(t) \/ Own(t)
  \/ Lookup(t) \/ DropSets(t) \/ Remove(t) \/ Unlink(t) \/ Advance(t) \/ Discard(t)
  \/ Walk(t)

Next ==
  \E t \in Threads :
    \/ LibraryInit(t) \/ ThreadInit(t) \/ Register(t) \/ Unregister(t)
    \/ List(t) \/ CreateSet(t) \/ DestroySet(t) \/ Shutdown(t) \/ Step(t)

Spec == Init /\ [][Next]_vars

-----------------------------------------------------------------------------
(***************************************************************************)
(* Properties.                                                             *)
(***************************************************************************)
Places == {"idle", "insert", "hook", "lead", "own", "lookup", "drop", "remove",
           "astray", "unlink", "advance", "discard", "walk"}

(* Every variable has its type. *)
TypeOK ==
  /\ level \in {"none", "inited", "threads"} /\ threaded \in BOOLEAN
  /\ lock \in Threads \cup {NoThread}
  /\ head \in Descs \cup {NoDesc}
  /\ heap \in [Descs -> [live : BOOLEAN, id : Threads \cup {Pid, NoThread},
                         next : Descs \cup {NoDesc}]]
  /\ tls \in [Threads -> Descs \cup {NoDesc}]
  /\ sets \in [Sets -> [master : Descs \cup {NoDesc}, by : Threads \cup {NoThread}]]
  /\ \A t \in Threads :
       /\ call[t].pc \in Places
       /\ {call[t].desc, call[t].prev} \subseteq Descs \cup {NoDesc}
  /\ \A t \in Threads : call[t].num <= Cardinality(Descs)

(* The descriptors that ought to be in the list: all but those on their    *)
(* way in or out.                                                          *)
Linked ==
  {d \in Descs :
     /\ heap[d].live
     /\ \A t \in Threads : call[t].desc = d =>
          call[t].pc \notin {"insert", "hook", "lead", "discard"}}

(* Whenever nobody is changing it, the list is one circle through exactly  *)
(* the descriptors of the registered threads, the head among them: no      *)
(* insertion, removal or lookup of another thread has lost one.            *)
ListIntact ==
  (\A t \in Threads : call[t].pc \notin {"hook", "lead", "unlink", "advance"}) =>
    /\ Orbit(head) = Linked
    /\ \A d \in Linked : Orbit(d) = Linked /\ heap[d].next \in Descs

(* The thread-local pointer leads to the thread's own descriptor, which is *)
(* not freed and nobody else's.                                            *)
TLSLive ==
  \A t \in Threads : tls[t] # NoDesc =>
    /\ heap[tls[t]].live
    /\ \A u \in Threads \ {t} : tls[u] # tls[t]

(* No thread that walks the list stands on a descriptor that was freed or  *)
(* is not in it.                                                           *)
WalkersSafe ==
  \A t \in Threads :
    /\ At(t, "walk") /\ call[t].desc # NoDesc => call[t].desc \in Linked
    /\ At(t, "unlink") => {call[t].prev, call[t].desc} \subseteq Linked

(* The event sets of a thread go when it unregisters: none points to a     *)
(* descriptor that was freed, or to that of the next thread at the same    *)
(* address.  This is said of threads whose id fits an int.                 *)
SetsGoWithTheirThread ==
  \A e \in Sets : sets[e].by \in Fits => sets[e].master = tls[sets[e].by]

(* Whoever has the lock of the list can go on: it waits for nobody, and    *)
(* does not walk around a circle in which it cannot find what it looks     *)
(* for.  What it does there is a few steps, so the lock comes back.        *)
LockHolderGoesOn == \A t \in Threads : lock = t => ENABLED Step(t)

(* The list implements the set of threads of Registry. *)
R == INSTANCE Registry
       WITH registered <- {t \in Threads : \/ tls[t] # NoDesc /\ ~At(t, "discard")
                                           \/ At(t, "own")}
ImplementsRegistry == R!Spec
=============================================================================
