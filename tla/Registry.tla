------------------------------ MODULE Registry ------------------------------
(***************************************************************************)
(* What threads.c promises its callers: a set of registered threads.  A    *)
(* thread comes, a thread goes, the library is shut down.  Whoever asks is *)
(* told about the threads that are registered at one moment of the call:   *)
(* how many there are, or as many of them as fit into the array it has     *)
(* given, each once, and the number of those.  ThreadList implements it.   *)
(***************************************************************************)
EXTENDS Integers, FiniteSets

CONSTANTS
  Threads,
  Rooms     \* the lengths of the arrays it is asked with, 0 for none

VARIABLES
  registered,  \* the threads the library knows
  listed       \* the last PAPI_list_threads: its array, and its answer

vars == <<registered, listed>>

Init == registered = {} /\ listed = [room |-> 0, ids |-> {}, num |-> 0]

Register(t) ==
  /\ t \notin registered
  /\ registered' = registered \cup {t}
  /\ UNCHANGED listed

Unregister(t) ==
  /\ t \in registered
  /\ registered' = registered \ {t}
  /\ UNCHANGED listed

Shutdown == registered' = {} /\ UNCHANGED listed

(* Only counting, and filling an array. *)
Count ==
  /\ 0 \in Rooms
  /\ listed' = [room |-> 0, ids |-> {}, num |-> Cardinality(registered)]
  /\ UNCHANGED registered

Fill ==
  \E room \in Rooms \ {0}, told \in SUBSET registered :
    /\ Cardinality(told) <= room
    /\ Cardinality(told) < room => told = registered
    /\ listed' = [room |-> room, ids |-> told, num |-> Cardinality(told)]
    /\ UNCHANGED registered

Next ==
  \/ \E t \in Threads : Register(t) \/ Unregister(t)
  \/ Shutdown \/ Count \/ Fill

Spec == Init /\ [][Next]_vars
=============================================================================
