---------------------------- MODULE EventMapCalls ---------------------------
(***************************************************************************)
(* A thread that calls the low-level interface on its event sets in any    *)
(* order.  With AnyOrder = FALSE it removes the event it added last only.  *)
(***************************************************************************)
EXTENDS EventMap

VARIABLES
  esi,      \* the event sets
  running,  \* thread->running_eventset of the component
  from,     \* thread->from_esi: whose set used the context last
  reply     \* the last call and what it returned

vars == <<esi, running, from, reply>>

Ops == {"add", "remove", "start", "stop", "read", "cleanup"}

Reply(op, s, c, ret, values) ==
  [op |-> op, set |-> s, code |-> c, ret |-> ret, values |-> values]

Init ==
  /\ esi = [s \in Sets |-> EmptySet]
  /\ running = NoSet
  /\ from = NoSet
  /\ reply \in {Reply("cleanup", s, NoNative, "OK", <<>>) : s \in Sets}

-----------------------------------------------------------------------------
(* A call that changes nothing but the reply. *)
Refused(op, s, c, error) ==
  /\ reply' = Reply(op, s, c, error, <<>>)
  /\ UNCHANGED <<esi, running, from>>

(* A call on a stopped set with the outcomes given. *)
Change(op, s, c, outcomes) ==
  \E o \in outcomes :
    /\ esi'   = [esi EXCEPT ![s] = o.e]
    /\ from'  = IF o.context THEN s ELSE from
    /\ reply' = Reply(op, s, c, o.ret, <<>>)
    /\ UNCHANGED running

AddCall(s, c) ==
  IF running = s THEN Refused("add", s, c, "EISRUN")
  ELSE Change("add", s, c, AddEvent(esi[s], c))

RemoveCall(s, c) ==
  /\ AnyOrder \/ (esi[s].events # <<>> /\ c = Last(CodesOf(esi[s])))
  /\ IF running = s THEN Refused("remove", s, c, "EISRUN")
     ELSE Change("remove", s, c, RemoveEvent(esi[s], c))

(* PAPI_cleanup_eventset closes the counters and frees every array. *)
Cleanup(s) ==
  IF running = s THEN Refused("cleanup", s, NoNative, "EISRUN")
  ELSE Change("cleanup", s, NoNative,
              {Outcome("OK", EmptySet, esi[s].assigned)})

(* _pe_start needs every counter it was told of to be open. *)
Startable(e) == e.open # <<>> /\ Len(e.open) = e.count

(* The set after PAPI_start has fetched the context: when another set used *)
(* it last the counters are set up again.                                  *)
Dirty(s) ==
  IF from = s THEN {esi[s]}
  ELSE {IF u.ok THEN MapEvents(u.e) ELSE u.e :
          u \in UpdateControlState(esi[s], "start")}

Start(s) ==
  IF running # NoSet THEN Refused("start", s, NoNative, "EISRUN")
  ELSE IF esi[s].events = <<>> THEN Refused("start", s, NoNative, "EINVAL")
  ELSE \E e \in Dirty(s), ok \in BOOLEAN :
         /\ ok => Startable(e)
         /\ ~ok => ~Startable(e) \/ "start" \in Faults
         /\ esi' = [esi EXCEPT ![s] = e]
         /\ from' = s
         /\ running' = IF ok THEN s ELSE NoSet
         /\ reply' = Reply("start", s, NoNative, IF ok THEN "OK" ELSE "ESYS", <<>>)

(* PAPI_stop reads first; a failure to read or to stop leaves the set      *)
(* running.                                                                *)
Stop(s) ==
  IF running # s THEN Refused("stop", s, NoNative, "ENOTRUN")
  ELSE \E ok \in BOOLEAN :
         /\ ok \/ Faults \cap {"read", "stop"} # {}
         /\ from' = s
         /\ running' = IF ok THEN NoSet ELSE s
         /\ reply' = IF ok THEN Reply("stop", s, NoNative, "OK", Values(esi[s]))
                     ELSE Reply("stop", s, NoNative, "ESYS", <<>>)
         /\ UNCHANGED esi

(* PAPI_read of a running set. *)
Read(s) ==
  /\ running = s
  /\ from' = s
  /\ \/ reply' = Reply("read", s, NoNative, "OK", Values(esi[s]))
     \/ "read" \in Faults /\ reply' = Reply("read", s, NoNative, "ESYS", <<>>)
  /\ UNCHANGED <<esi, running>>

Next ==
  \E s \in Sets :
    \/ \E c \in Offered : AddCall(s, c) \/ RemoveCall(s, c)
    \/ Cleanup(s) \/ Start(s) \/ Stop(s) \/ Read(s)

Spec == Init /\ [][Next]_vars

-----------------------------------------------------------------------------
(***************************************************************************)
(* Properties.                                                             *)
(***************************************************************************)
Slot == [event : Natives \cup {NoNative}, code : Natives \cup {NoNative},
         pos : 0 .. MaxNatives, owners : Int]

(* The sets, whose set runs and whose used the context have their types. *)
TypeOK ==
  /\ \A s \in Sets :
       LET e == esi[s]
       IN /\ e.assigned \in BOOLEAN
          /\ e.native \in [Slots -> Slot]
          /\ e.count \in 0 .. MaxNatives
          /\ Len(e.events) <= MaxNatives
          /\ \A i \in DOMAIN e.events :
               /\ e.events[i].code \in Events
               /\ Len(e.events[i].pos) = Len(NativesOf(e.events[i].code))
          /\ Range(e.open) \subseteq Natives \cup {NoNative}
  /\ running \in Sets \cup {NoSet}
  /\ from \in Sets \cup {NoSet}
  /\ reply.op \in Ops /\ reply.set \in Sets

(* The uses the events of e make of native event n. *)
Uses(e, n) ==
  UNION {{i} \X {k \in DOMAIN NativesOf(e.events[i].code) :
                   NativesOf(e.events[i].code)[k] = n} : i \in DOMAIN e.events}

(* The array is dense, no native event is in it twice, and the owners of   *)
(* each are exactly the events of the list that use it: so none is closed  *)
(* under an event that needs it, and none is left when its events go,      *)
(* whichever addition failed half-way.                                     *)
OwnersAreUsers ==
  \A s \in Sets :
    LET e == esi[s]
    IN /\ \A i \in Slots :
            IF i <= e.count
              THEN /\ e.native[i].event = e.native[i].code
                   /\ e.native[i].owners =
                        Cardinality(Uses(e, e.native[i].code))
                   /\ e.native[i].owners > 0
              ELSE e.native[i].owners = 0
       /\ \A i, j \in 1 .. e.count :
            e.native[i].code = e.native[j].code => i = j
       /\ \A n \in Natives : Uses(e, n) # {} => Holding(e, n) # {}

(* Whenever the counters of a set are open, and so whenever it runs, the   *)
(* positions of each of its events lead to that event's native events, and *)
(* all that is counted is counted for an event of the list.                *)
CountersServeEvents ==
  \A s \in Sets :
    LET e == esi[s]
    IN /\ running = s => e.open # <<>>
       /\ e.open # <<>> =>
            \A i \in DOMAIN e.events : \A k \in DOMAIN e.events[i].pos :
              /\ e.events[i].pos[k] \in DOMAIN e.open
              /\ e.open[e.events[i].pos[k]] = NativesOf(e.events[i].code)[k]
       /\ \A p \in DOMAIN e.open : Uses(e, e.open[p]) # {}

(* The event set of EventSet, which knows a list of events and nothing of  *)
(* native events.  There every event takes a counter of its own, so the    *)
(* number of counters is not what bounds the list here, and any addition   *)
(* may fail.                                                               *)
ES == INSTANCE EventSet
        WITH Codes <- Events,
             Countable <- {c \in Events : NativesOf(c) # <<>>},
             NumCounters <- MaxNatives,
             Faults <- {"add", "start", "stop", "read"}

Abstract(e, runs) == [events |-> CodesOf(e), running |-> runs, count |-> 0]

(* What EventSet lets a call do to the set as it is now. *)
Promised(op, es, c) ==
  CASE op = "add"     -> ES!AddEvents(es, <<c>>)
    [] op = "start"   -> ES!Start(es)
    [] op = "stop"    -> ES!Stop(es)
    [] op = "read"    -> ES!Read(es)
    [] op = "cleanup" -> {[ret    |-> IF es.running THEN "EISRUN" ELSE "OK",
                           es     |-> ES!Cleanup(es), values |-> <<>>]}
    [] op = "remove"  ->
         IF es.running THEN {ES!Outcome("EISRUN", es, <<>>)}
         ELSE {ES!Outcome("OK", [es EXCEPT !.events = RemoveAt(@, i)], <<>>) :
                 i \in {i \in DOMAIN es.events : es.events[i] = c}}
              \cup {ES!Outcome("EINVAL", es, <<>>)}

(* What a step does to set s.  The call it is does to the list and to the  *)
(* state of its set, and returns, what EventSet says, and leaves the other *)
(* sets alone; the values read from a running set are those of its events, *)
(* in the order of the list.                                               *)
Implements(s) ==
  LET was == Abstract(esi[s], running = s)
      is  == Abstract(esi'[s], running' = s)
  IN IF s # reply'.set THEN is = was
     ELSE \E o \in Promised(reply'.op, was, reply'.code) :
            /\ o.es = is
            /\ (o.ret = "OK") = (reply'.ret = "OK")
            /\ o.ret = "OK" /\ reply'.op \in {"read", "stop"} =>
                 reply'.values =
                      [i \in DOMAIN o.values |-> NativesOf(o.values[i].code)]

(* Every call does what EventSet says, so what papi_hl.c relies on holds   *)
(* of the code below it.                                                   *)
ImplementsEventSet == [][\A s \in Sets : Implements(s)]_vars
=============================================================================
