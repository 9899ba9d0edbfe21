-------------------------- MODULE ThreadListProofs --------------------------
(***************************************************************************)
(* Theorems about the list of threads, for any number of threads and of    *)
(* addresses, in a program that keeps the order of initialization and      *)
(* shutdown: the list is one circle of the registered threads, and what    *)
(* points to a descriptor points to a live one.                            *)
(***************************************************************************)
EXTENDS ThreadList, FiniteSetTheorems, FunctionTheorems, TLAPS

-----------------------------------------------------------------------------
(***************************************************************************)
(* The inductive invariant.                                                *)
(***************************************************************************)

(* Threads call the library once PAPI_thread_init has succeeded, and       *)
(* PAPI_shutdown is called when the others have unregistered.              *)
Orderly == {"init", "shutdown"} \subseteq Rules

Entering == {"insert", "hook", "lead", "own"}
Leaving  == {"lookup", "drop", "remove", "unlink", "advance", "discard"}

(* The places at which a thread has the lock. *)
Inside == {"hook", "lead", "unlink", "advance", "walk"}

Addresses   == Descs \cup {NoDesc}
Descriptors == [live : BOOLEAN, id : Threads \cup {Pid, NoThread}, next : Addresses]
Calls       == [pc : Places, desc : Addresses, prev : Addresses,
                room : Nat, ids : SUBSET (Threads \cup {Pid, NoThread}), num : Nat]

Typed ==
  /\ level \in {"none", "inited", "threads"} /\ threaded \in BOOLEAN
  /\ lock \in Threads \cup {NoThread} /\ head \in Addresses
  /\ heap \in [Descs -> Descriptors]
  /\ tls \in [Threads -> Addresses]
  /\ sets \in [Sets -> [master : Addresses, by : Threads \cup {NoThread}]]
  /\ call \in [Threads -> Calls]

(* Before PAPI_thread_init nobody is in a call, and between it and         *)
(* PAPI_library_init the list is the descriptor of the initial thread.     *)
Phases ==
  /\ threaded <=> level = "threads"
  /\ ~threaded => lock = NoThread /\ \A t \in Threads : At(t, "idle")
  /\ level = "none" => head = NoDesc /\ \A t \in Threads : tls[t] = NoDesc
  /\ level = "inited" => head # NoDesc /\ \A t \in Threads : tls[t] \in {head, NoDesc}

Mutex == \A t \in Threads : lock = t <=> call[t].pc \in Inside

(* The descriptor of a thread, which may not have become its own yet. *)
Mine(t) == IF call[t].pc \in Entering THEN call[t].desc ELSE tls[t]

(* What t has met on its walk. *)
Counted(t, ids, num) == call[t].ids = ids /\ call[t].num = num

(* Where each thread is in its call, and that no two share a descriptor. *)
Placed(t) ==
  /\ call[t].pc # "astray"
  /\ call[t].pc \in Entering => tls[t] = NoDesc /\ call[t].desc # NoDesc
  /\ call[t].pc \in Leaving => tls[t] # NoDesc
  /\ call[t].pc \in {"remove", "unlink", "advance", "discard"} =>
       call[t].desc = tls[t]
  /\ call[t].pc # "walk" => Counted(t, {}, 0)
  /\ Mine(t) # NoDesc => heap[Mine(t)].live /\ heap[Mine(t)].id = Id(t)

Owned ==
  /\ \A t \in Threads : Placed(t)
  /\ \A t, u \in Threads : Mine(t) = Mine(u) /\ Mine(t) # NoDesc => t = u
  /\ \A d \in Descs : heap[d].live => \E t \in Threads : Mine(t) = d

(* The threads whose descriptors are in the list, and these descriptors. *)
Listed(t) == Mine(t) # NoDesc /\ call[t].pc \notin {"insert", "hook", "advance", "discard"}
Ring      == {d \in Descs : \E t \in Threads : Listed(t) /\ Mine(t) = d}

(* The pointers of h make one circle of C. *)
Circle(h, C) ==
  /\ \A d \in C : h[d].next \in C
  /\ \A d, e \in C : h[d].next = h[e].next => d = e
  /\ \A S \in SUBSET C : S # {} /\ (\A d \in S : h[d].next \in S) => S = C

(* The head is in the list, but for a moment in the first insertion and in *)
(* the removal of the head.                                                *)
Headed ==
  \/ head \in Ring
  \/ head = NoDesc /\ Ring = {}
  \/ \E t \in Threads :
       \/ At(t, "lead") /\ head = NoDesc /\ Ring = {call[t].desc}
       \/ /\ At(t, "advance") /\ head = call[t].desc
          /\ heap[head].next \in Ring

(* What a thread in the middle of its writes has seen is still true. *)
Prepared(t) ==
  /\ At(t, "hook") =>
       /\ head = NoDesc => heap[call[t].desc].next = call[t].desc
       /\ head # NoDesc => heap[call[t].desc].next = heap[head].next
  /\ At(t, "unlink") =>
       call[t].prev \in Ring /\ heap[call[t].prev].next = call[t].desc

(* V is what a thread has seen of the list when it is at d. *)
Seen(V, d, t) ==
  /\ d \notin V /\ head \in V \cup {d}
  /\ \A c \in V : heap[c].next \in V \cup {d}
  /\ \A c \in V \cup {d} : c = head \/ \E b \in V : heap[b].next = c
  /\ call[t].ids = {heap[c].id : c \in V}
  /\ call[t].num = Cardinality(V)

Walking(t) ==
  At(t, "walk") =>
    /\ call[t].room \in Rooms /\ ~Full(t, call[t].num)
    /\ \/ call[t].desc = NoDesc /\ head = NoDesc /\ Counted(t, {}, 0)
       \/ /\ call[t].desc \in Ring
          /\ \E V \in SUBSET Ring : Seen(V, call[t].desc, t)

IInv ==
  /\ Typed /\ Phases /\ Mutex /\ Owned /\ Circle(heap, Ring) /\ Headed
  /\ \A t \in Threads : Prepared(t) /\ Walking(t)

(* The calls that have freed the event sets of their thread. *)
Dropped == {"remove", "unlink", "advance", "discard"}

(* Every event set of a thread with an id that fits an int is its own, and *)
(* free_eventsets finds the caller.                                        *)
SetsInv ==
  /\ \A e \in Sets : sets[e].by \in Fits =>
       /\ sets[e].master = tls[sets[e].by] /\ sets[e].master # NoDesc
       /\ call[sets[e].by].pc \notin Dropped
  /\ \A t \in Fits : At(t, "drop") => call[t].desc = tls[t]

-----------------------------------------------------------------------------
(***************************************************************************)
(* Circles.                                                                *)
(***************************************************************************)

LEMMA CircleSame ==
  ASSUME NEW h, NEW g, NEW C, Circle(h, C), \A d \in C : g[d].next = h[d].next
  PROVE  Circle(g, C)
BY DEF Circle

LEMMA CircleEmpty == ASSUME NEW h PROVE Circle(h, {})
BY DEF Circle

LEMMA CircleOne ==
  ASSUME NEW h, NEW d, h[d].next = d
  PROVE  Circle(h, {d})
<1>1. ASSUME NEW S \in SUBSET {d}, S # {} PROVE S = {d}
  BY <1>1
<1> QED
  BY <1>1 DEF Circle

(* A descriptor that points to itself is alone. *)
LEMMA CircleAlone ==
  ASSUME NEW h, NEW C, Circle(h, C), NEW d \in C, h[d].next = d
  PROVE  C = {d}
<1>1. {d} \in SUBSET C /\ {d} # {} /\ \A c \in {d} : h[c].next \in {d}
  OBVIOUS
<1> QED
  BY <1>1 DEF Circle

(* The predecessor p of a new descriptor points to it, and it to the       *)
(* successor of p.                                                         *)
LEMMA CircleInsert ==
  ASSUME NEW h, NEW g, NEW C, Circle(h, C), NEW p \in C, NEW d, d \notin C,
         g[d].next = h[p].next, g[p].next = d,
         \A c \in C \ {p} : g[c].next = h[c].next
  PROVE  Circle(g, C \cup {d})
<1>1. \A c \in C : h[c].next \in C
  BY DEF Circle
<1>2. \A c, e \in C : h[c].next = h[e].next => c = e
  BY DEF Circle
<1>3. \A c \in C \cup {d} : g[c].next \in C \cup {d}
  BY <1>1
<1>4. ASSUME NEW c \in C \cup {d}, NEW e \in C \cup {d}, g[c].next = g[e].next
      PROVE  c = e
  BY <1>1, <1>2, <1>4
<1>5. ASSUME NEW S \in SUBSET (C \cup {d}), S # {}, \A c \in S : g[c].next \in S
      PROVE  S = C \cup {d}
  <2> DEFINE T == S \cap C
  <2>1. \A c \in T : h[c].next \in T
    <3> SUFFICES ASSUME NEW c \in T PROVE h[c].next \in T
      OBVIOUS
    <3>1. CASE c = p
      <4>1. d \in S
        BY <1>5, <3>1
      <4>2. g[d].next \in S
        BY <1>5, <4>1
      <4> QED
        BY <1>1, <3>1, <4>2
    <3>2. CASE c # p
      BY <1>1, <1>5, <3>2
    <3> QED
      BY <3>1, <3>2
  <2>2. T # {}
    <3> SUFFICES ASSUME d \in S PROVE T # {}
      BY <1>5
    <3>1. g[d].next \in T
      BY <1>1, <1>5
    <3> QED
      BY <3>1
  <2>3. T = C
    BY <2>1, <2>2 DEF Circle
  <2>4. p \in S
    BY <2>3
  <2>5. d \in S
    BY <1>5, <2>4
  <2> QED
    BY <2>3, <2>5
<1> QED
  BY <1>3, <1>4, <1>5 DEF Circle

(* The predecessor p of d points to the successor of d instead. *)
LEMMA CircleRemove ==
  ASSUME NEW h, NEW g, NEW C, Circle(h, C), NEW p \in C, NEW d \in C, p # d,
         h[p].next = d, g[p].next = h[d].next,
         \A c \in C \ {p, d} : g[c].next = h[c].next
  PROVE  Circle(g, C \ {d}) /\ h[d].next \in C \ {d}
<1>1. \A c \in C : h[c].next \in C
  BY DEF Circle
<1>2. \A c, e \in C : h[c].next = h[e].next => c = e
  BY DEF Circle
<1>3. \A c \in C \ {d} : g[c].next \in C \ {d}
  <2> SUFFICES ASSUME NEW c \in C \ {d} PROVE g[c].next \in C \ {d}
    OBVIOUS
  <2>1. CASE c = p
    BY <1>1, <1>2, <2>1
  <2>2. CASE c # p
    BY <1>1, <1>2, <2>2
  <2> QED
    BY <2>1, <2>2
<1>4. ASSUME NEW c \in C \ {d}, NEW e \in C \ {d}, g[c].next = g[e].next
      PROVE  c = e
  BY <1>1, <1>2, <1>4
<1>5. ASSUME NEW S \in SUBSET (C \ {d}), S # {}, \A c \in S : g[c].next \in S
      PROVE  S = C \ {d}
  <2> DEFINE T == IF p \in S THEN S \cup {d} ELSE S
  <2>1. \A c \in T : h[c].next \in T
    <3> SUFFICES ASSUME NEW c \in T PROVE h[c].next \in T
      OBVIOUS
    <3>1. CASE c = p
      BY <3>1
    <3>2. CASE c = d
      <4>1. p \in S
        BY <3>2, <1>5
      <4>2. g[p].next \in S
        BY <1>5, <4>1
      <4> QED
        BY <3>2, <4>1, <4>2
    <3>3. CASE c # p /\ c # d
      <4>1. c \in S /\ c \in C \ {p, d}
        BY <1>5, <3>3
      <4>2. h[c].next \in S
        BY <1>5, <4>1
      <4> QED
        BY <4>2
    <3> QED
      BY <3>1, <3>2, <3>3
  <2>2. T # {} /\ T \in SUBSET C
    BY <1>5
  <2>3. T = C
    <3> HIDE DEF T
    <3> QED
      BY <2>1, <2>2 DEF Circle
  <2>4. p \in S
    BY <2>3
  <2> QED
    BY <1>5, <2>3, <2>4
<1>6. h[d].next \in C \ {d}
  BY <1>1, <1>2
<1> QED
  BY <1>3, <1>4, <1>5, <1>6 DEF Circle

(* What is met from a member of a circle is the circle. *)
LEMMA OrbitCircle ==
  ASSUME NEW C \in SUBSET Descs, Circle(heap, C), NEW d \in C
  PROVE  Orbit(d) = C
<1>1. Closed(C) /\ d \in C \cup {NoDesc}
  BY DEF Circle, Closed
<1>2. Orbit(d) \subseteq C
  BY <1>1 DEF Orbit
<1>3. ASSUME NEW c \in C, NEW S \in SUBSET Descs, Closed(S), d \in S \cup {NoDesc}
      PROVE  c \in S
  <2> DEFINE T == S \cap C
  <2>1. d \in T
    BY <1>3, DescsAssumption
  <2>2. \A e \in T : heap[e].next \in T
    <3> SUFFICES ASSUME NEW e \in T PROVE heap[e].next \in T
      OBVIOUS
    <3>1. heap[e].next \in C /\ heap[e].next \in S \cup {NoDesc}
      BY <1>3 DEF Circle, Closed
    <3> QED
      BY <3>1, DescsAssumption
  <2>3. T = C
    BY <2>1, <2>2 DEF Circle
  <2> QED
    BY <2>3
<1>4. C \subseteq Orbit(d)
  BY <1>3 DEF Orbit
<1> QED
  BY <1>2, <1>4

LEMMA OrbitNone == Orbit(NoDesc) = {}
<1>1. {} \in SUBSET Descs /\ Closed({}) /\ NoDesc \in {} \cup {NoDesc}
  BY DEF Closed
<1> QED
  BY <1>1 DEF Orbit

-----------------------------------------------------------------------------
(***************************************************************************)
(* Steps of one thread.                                                    *)
(***************************************************************************)

LEMMA IInvFacts ==
  ASSUME IInv
  PROVE  /\ Typed /\ Phases /\ Mutex /\ Owned /\ Circle(heap, Ring) /\ Headed
         /\ \A t \in Threads : Placed(t) /\ Prepared(t) /\ Walking(t)
BY DEF IInv, Owned

LEMMA CallFields ==
  ASSUME Typed, NEW t \in Threads
  PROVE  /\ call[t] \in Calls /\ call[t].pc \in Places /\ call[t].desc \in Addresses
         /\ call[t].prev \in Addresses /\ tls[t] \in Addresses /\ Mine(t) \in Addresses
BY DEF Typed, Calls, Mine

(* Who is in a call, or may begin one, has seen PAPI_thread_init. *)
LEMMA Threaded ==
  ASSUME Orderly, IInv, NEW t \in Threads, ~At(t, "idle") \/ Allowed(t)
  PROVE  threaded /\ level = "threads" /\ \A u \in Threads : Id(u) = u
BY IInvFacts DEF Phases, Allowed, Orderly, Id, Typed

(* Only t moves. *)
Turn(t) ==
  /\ call' \in [Threads -> Calls] /\ tls' \in [Threads -> Addresses]
  /\ \A u \in Threads \ {t} : call'[u] = call[u] /\ tls'[u] = tls[u]

LEMMA OthersStay ==
  ASSUME NEW t \in Threads, Turn(t), NEW u \in Threads \ {t}
  PROVE  Mine(u)' = Mine(u) /\ (Listed(u)' <=> Listed(u))
BY DEF Turn, Mine, Listed

LEMMA RingStays ==
  ASSUME NEW t \in Threads, Turn(t), Listed(t)' <=> Listed(t),
         Listed(t) => Mine(t)' = Mine(t)
  PROVE  Ring' = Ring
<1>1. \A u \in Threads : (Listed(u)' <=> Listed(u)) /\ (Listed(u) => Mine(u)' = Mine(u))
  BY OthersStay
<1> QED
  BY <1>1 DEF Ring

LEMMA RingGrows ==
  ASSUME NEW t \in Threads, Turn(t), ~Listed(t), Listed(t)', Mine(t)' \in Descs
  PROVE  Ring' = Ring \cup {Mine(t)'}
<1>1. \A u \in Threads \ {t} : (Listed(u)' <=> Listed(u)) /\ Mine(u)' = Mine(u)
  BY OthersStay
<1> QED
  BY <1>1 DEF Ring

LEMMA RingShrinks ==
  ASSUME NEW t \in Threads, Turn(t), Owned, Listed(t), ~Listed(t)'
  PROVE  Ring' = Ring \ {Mine(t)}
<1>1. \A u \in Threads \ {t} : (Listed(u)' <=> Listed(u)) /\ Mine(u)' = Mine(u)
  BY OthersStay
<1>2. \A u \in Threads \ {t} : Mine(u) # Mine(t)
  BY DEF Owned, Listed
<1> QED
  BY <1>1, <1>2 DEF Ring

(* The descriptors in the list are live and somebody's. *)
LEMMA RingFacts ==
  ASSUME Typed, Owned
  PROVE  /\ Ring \in SUBSET Descs /\ NoDesc \notin Ring
         /\ \A d \in Ring : heap[d].live
         /\ \A t \in Threads : Listed(t) <=> Mine(t) \in Ring
<1>1. \A t \in Threads : Listed(t) => Mine(t) \in Ring
  <2> SUFFICES ASSUME NEW t \in Threads, Listed(t) PROVE Mine(t) \in Ring
    OBVIOUS
  <2>1. Mine(t) \in Descs
    BY CallFields DEF Listed, Addresses
  <2> QED
    BY <2>1 DEF Ring
<1>2. \A t \in Threads : Mine(t) \in Ring => Listed(t)
  BY DescsAssumption DEF Ring, Owned, Listed
<1>3. \A d \in Ring : heap[d].live
  BY DEF Ring, Owned, Placed, Listed
<1> QED
  BY <1>1, <1>2, <1>3, DescsAssumption DEF Ring

LEMMA OwnedStays ==
  ASSUME NEW t \in Threads, Turn(t), Owned, UNCHANGED threaded,
         \A d \in Descs : heap'[d].live = heap[d].live /\ heap'[d].id = heap[d].id,
         Mine(t)' = Mine(t), Placed(t)', Typed
  PROVE  Owned'
<1>1. \A u \in Threads : Mine(u)' = Mine(u)
  BY OthersStay
<1>2. \A u \in Threads \ {t} : Placed(u)'
  <2> SUFFICES ASSUME NEW u \in Threads \ {t} PROVE Placed(u)'
    OBVIOUS
  <2>1. Placed(u) /\ Mine(u) \in Addresses
    BY CallFields DEF Owned
  <2>2. /\ call'[u] = call[u] /\ tls'[u] = tls[u] /\ Mine(u)' = Mine(u)
        /\ Id(u)' = Id(u)
    BY <1>1 DEF Turn, Id
  <2>3. Mine(u) # NoDesc => /\ heap'[Mine(u)].live = heap[Mine(u)].live
                            /\ heap'[Mine(u)].id = heap[Mine(u)].id
    BY <2>1 DEF Addresses
  <2> QED
    BY <2>1, <2>2, <2>3 DEF Placed, Counted
<1>3. \A u \in Threads : Placed(u)'
  BY <1>2
<1>4. \A u, v \in Threads : Mine(u)' = Mine(v)' /\ Mine(u)' # NoDesc => u = v
  BY <1>1 DEF Owned
<1>5. \A d \in Descs : heap'[d].live => \E u \in Threads : Mine(u)' = d
  BY <1>1 DEF Owned
<1> QED
  BY <1>3, <1>4, <1>5 DEF Owned

(* The lock is kept, taken or given back. *)
LEMMA MutexStays ==
  ASSUME NEW t \in Threads, Turn(t), Mutex,
         \/ UNCHANGED lock /\ (call'[t].pc \in Inside <=> call[t].pc \in Inside)
         \/ lock = NoThread /\ lock' = t /\ call'[t].pc \in Inside
         \/ lock = t /\ lock' = NoThread /\ call'[t].pc \notin Inside
  PROVE  Mutex'
<1>1. \A u \in Threads \ {t} : call'[u].pc = call[u].pc
  BY DEF Turn
<1>2. \A u \in Threads : u # NoThread
  BY ThreadsAssumption
<1> QED
  BY <1>1, <1>2 DEF Mutex

LEMMA PhasesStay ==
  ASSUME Phases, threaded, UNCHANGED <<level, threaded>>
  PROVE  Phases'
BY DEF Phases

(* Who is inside, or takes the lock, is alone there. *)
LEMMA Alone ==
  ASSUME NEW t \in Threads, Mutex, call[t].pc \in Inside \/ lock = NoThread,
         NEW u \in Threads \ {t}
  PROVE  call[u].pc \notin Inside
BY ThreadsAssumption DEF Mutex

(* The other threads, when t is alone inside. *)
LEMMA OthersOutside ==
  ASSUME NEW t \in Threads, Turn(t), Mutex, call[t].pc \in Inside \/ lock = NoThread
  PROVE  \A u \in Threads \ {t} : Prepared(u)' /\ Walking(u)'
<1> SUFFICES ASSUME NEW u \in Threads \ {t} PROVE Prepared(u)' /\ Walking(u)'
  OBVIOUS
<1>1. call'[u] = call[u] /\ call[u].pc \notin Inside
  BY Alone DEF Turn
<1> QED
  BY <1>1 DEF Prepared, Walking, At, Inside

(* A step outside the lock that leaves the list alone. *)
Aside(t) ==
  /\ Turn(t) /\ UNCHANGED <<level, threaded, lock, head>>
  /\ call[t].pc \notin Inside /\ call'[t].pc \notin Inside
  /\ Listed(t)' <=> Listed(t)
  /\ Listed(t) => Mine(t)' = Mine(t) /\ heap'[Mine(t)] = heap[Mine(t)]
  /\ \A d \in Descs : heap[d].live /\ d # Mine(t) => heap'[d] = heap[d]

LEMMA AsideKeeps ==
  ASSUME Orderly, IInv, NEW t \in Threads, threaded, Aside(t), Typed', Owned'
  PROVE  IInv'
<1>1. /\ Typed /\ Phases /\ Mutex /\ Owned /\ Circle(heap, Ring) /\ Headed
      /\ \A u \in Threads : Placed(u) /\ Prepared(u) /\ Walking(u)
  BY IInvFacts
<1>2. Turn(t) /\ Ring' = Ring
  BY RingStays DEF Aside
<1>3. \A d \in Ring : heap'[d] = heap[d]
  <2> SUFFICES ASSUME NEW d \in Ring PROVE heap'[d] = heap[d]
    OBVIOUS
  <2>1. d \in Descs /\ heap[d].live
    BY <1>1, RingFacts
  <2>2. d = Mine(t) => Listed(t)
    BY <1>1, RingFacts
  <2> QED
    BY <2>1, <2>2 DEF Aside
<1>4. Phases' /\ Mutex'
  BY <1>1, <1>2, PhasesStay, MutexStays DEF Aside
<1>5. Circle(heap', Ring')
  <2>1. ASSUME NEW g, \A d \in Ring : g[d] = heap[d] PROVE Circle(g, Ring)
    <3>1. \A d \in Ring : g[d].next = heap[d].next
      BY <2>1
    <3> QED
      BY <1>1, <3>1, CircleSame
  <2> QED
    BY <1>2, <1>3, <2>1
<1>6. \A u \in Threads \ {t} : Mine(u) # NoDesc => heap'[Mine(u)] = heap[Mine(u)]
  <2> SUFFICES ASSUME NEW u \in Threads \ {t}, Mine(u) # NoDesc
               PROVE  heap'[Mine(u)] = heap[Mine(u)]
    OBVIOUS
  <2>1. Mine(u) \in Descs /\ heap[Mine(u)].live /\ Mine(u) # Mine(t)
    BY <1>1, CallFields DEF Addresses, Owned, Placed
  <2> QED
    BY <2>1 DEF Aside
<1>7. Headed'
  <2>1. UNCHANGED head
    BY DEF Aside
  <2>2. CASE head \in Ring \/ (head = NoDesc /\ Ring = {})
    BY <1>2, <2>1, <2>2 DEF Headed
  <2>3. ASSUME NEW u \in Threads, At(u, "lead"), head = NoDesc, Ring = {call[u].desc}
        PROVE  Headed'
    <3>1. u # t
      BY <2>3 DEF Aside, At, Inside
    <3>2. call'[u] = call[u]
      BY <1>2, <3>1 DEF Turn
    <3> QED
      BY <1>2, <2>1, <2>3, <3>2 DEF Headed, At
  <2>4. ASSUME NEW u \in Threads, At(u, "advance"), head = call[u].desc,
               heap[head].next \in Ring
        PROVE  Headed'
    <3>1. u # t
      BY <2>4 DEF Aside, At, Inside
    <3>2. call'[u] = call[u]
      BY <1>2, <3>1 DEF Turn
    <3>3. Mine(u) = head /\ head # NoDesc
      BY <1>1, <2>4 DEF Placed, At, Mine, Entering, Leaving
    <3>4. heap'[head] = heap[head]
      BY <1>6, <3>1, <3>3
    <3> QED
      BY <1>2, <2>1, <2>4, <3>2, <3>4 DEF Headed, At
  <2> QED
    BY <1>1, <2>2, <2>3, <2>4 DEF Headed
<1>8. ASSUME NEW u \in Threads PROVE Prepared(u)' /\ Walking(u)'
  <2>1. CASE u = t
    BY <2>1 DEF Aside, Prepared, Walking, At, Inside
  <2>2. CASE u # t
    <3>1. call'[u] = call[u] /\ head' = head /\ Prepared(u) /\ Walking(u)
      BY <1>1, <1>2, <2>2 DEF Turn, Aside
    <3>2. Prepared(u)'
      <4>1. ASSUME At(u, "hook")
            PROVE  /\ head = NoDesc => heap'[call[u].desc].next = call[u].desc
                   /\ head # NoDesc => heap'[call[u].desc].next = heap'[head].next
        <5>1. Mine(u) = call[u].desc /\ Mine(u) # NoDesc
          BY <1>1, <4>1 DEF Placed, At, Mine, Entering
        <5>2. heap'[call[u].desc] = heap[call[u].desc]
          BY <1>6, <2>2, <5>1
        <5>3. head # NoDesc => heap'[head] = heap[head]
          <6>1. lock = u
            BY <1>1, <4>1 DEF Mutex, At, Inside
          <6>2. \A v \in Threads : ~At(v, "lead") /\ ~At(v, "advance")
            BY <1>1, <4>1, <6>1 DEF Mutex, At, Inside
          <6>3. head # NoDesc => head \in Ring
            BY <1>1, <6>2 DEF Headed
          <6> QED
            BY <1>3, <6>3
        <5> QED
          BY <3>1, <4>1, <5>2, <5>3 DEF Prepared
      <4>2. At(u, "unlink") =>
              call[u].prev \in Ring /\ heap'[call[u].prev].next = call[u].desc
        BY <1>3, <3>1 DEF Prepared
      <4> QED
        BY <1>2, <3>1, <4>1, <4>2 DEF Prepared, At
    <3>3. Walking(u)'
      <4>0. Full(u, call[u].num)' <=> Full(u, call[u].num)
        BY <3>1 DEF Full
      <4> SUFFICES ASSUME At(u, "walk"), ~Full(u, call[u].num), call[u].room \in Rooms,
                          NEW d \in Ring, d = call[u].desc,
                          NEW V \in SUBSET Ring, Seen(V, d, u)
                   PROVE  Walking(u)'
        BY <1>2, <3>1, <4>0 DEF Walking, At, Counted
      <4>1. \A c \in V \cup {d} : heap'[c] = heap[c]
        BY <1>3
      <4>2. {heap'[c].id : c \in V} = {heap[c].id : c \in V}
        BY <4>1
      <4>3. Seen(V, d, u)'
        BY <3>1, <4>1, <4>2 DEF Seen
      <4> QED
        BY <1>2, <3>1, <4>3, <4>0 DEF Walking
    <3> QED
      BY <3>2, <3>3
  <2> QED
    BY <2>1, <2>2
<1> QED
  BY <1>4, <1>5, <1>7, <1>8 DEF IInv

-----------------------------------------------------------------------------
(***************************************************************************)
(* The steps that leave the list alone.                                    *)
(***************************************************************************)

LEMMA GotoFacts ==
  ASSUME Typed, NEW t \in Threads, NEW pc \in Places, Goto(t, pc)
  PROVE  /\ call' \in [Threads -> Calls] /\ \A u \in Threads \ {t} : call'[u] = call[u]
         /\ call'[t].pc = pc /\ call'[t].desc = call[t].desc
         /\ call'[t].prev = call[t].prev
         /\ \A ids, num : Counted(t, ids, num)' <=> Counted(t, ids, num)
<1>1. call[t] \in Calls /\ call \in [Threads -> Calls]
  BY CallFields DEF Typed
<1>2. [call[t] EXCEPT !.pc = pc] \in Calls
  BY <1>1 DEF Calls
<1>3. call' = [call EXCEPT ![t] = [call[t] EXCEPT !.pc = pc]]
  BY <1>1 DEF Goto
<1> QED
  BY <1>1, <1>2, <1>3 DEF Calls, Counted

LEMMA ReturnFacts ==
  ASSUME Typed, NEW t \in Threads, Return(t)
  PROVE  /\ call' \in [Threads -> Calls] /\ \A u \in Threads \ {t} : call'[u] = call[u]
         /\ call'[t].pc = "idle" /\ call'[t].desc = NoDesc
         /\ Counted(t, {}, 0)'
<1>1. Idle \in Calls
  BY DEF Idle, Calls, Places, Addresses
<1> QED
  BY <1>1 DEF Return, Typed, Idle, Counted

LEMMA PlaceMoves ==
  ASSUME Typed, NEW t \in Threads, NEW pc, NEW d, NEW n,
         \/ call' = [call EXCEPT ![t].pc = pc]
         \/ call' = [call EXCEPT ![t].pc = pc, ![t].desc = d]
         \/ call' = [call EXCEPT ![t].pc = pc, ![t].prev = d]
         \/ call' = [call EXCEPT ![t].pc = pc, ![t].desc = d, ![t].room = n]
  PROVE  call'[t].pc = pc /\ \A u \in Threads \ {t} : call'[u] = call[u]
<1>1. call[t] \in Calls /\ call \in [Threads -> Calls]
  BY CallFields DEF Typed
<1>2. PICK c : /\ call' = [call EXCEPT ![t] = c]
               /\ \/ c = [call[t] EXCEPT !.pc = pc]
                  \/ c = [call[t] EXCEPT !.pc = pc, !.desc = d]
                  \/ c = [call[t] EXCEPT !.pc = pc, !.prev = d]
                  \/ c = [call[t] EXCEPT !.pc = pc, !.desc = d, !.room = n]
  BY <1>1
<1>3. c.pc = pc
  BY <1>1, <1>2 DEF Calls
<1> QED
  BY <1>1, <1>2, <1>3

LEMMA RegisterStep ==
  ASSUME Orderly, IInv, NEW t \in Threads, Register(t)
  PROVE  IInv'
<1>1. PICK d \in Descs :
        /\ ~heap[d].live
        /\ heap' = [heap EXCEPT ![d] = [live |-> TRUE, id |-> Id(t), next |-> NoDesc]]
        /\ call' = [call EXCEPT ![t].pc = "insert", ![t].desc = d]
  BY DEF Register
<1>2. /\ Typed /\ Owned /\ threaded /\ \A u \in Threads : Id(u) = u
      /\ tls[t] = NoDesc /\ At(t, "idle")
      /\ UNCHANGED <<level, threaded, lock, head, tls, sets>>
  BY IInvFacts, Threaded DEF Register, Allowed
<1>3. /\ call[t] \in Calls /\ call \in [Threads -> Calls] /\ heap \in [Descs -> Descriptors]
      /\ d # NoDesc /\ \A e \in Descs : heap[e] \in Descriptors
  BY <1>2, CallFields, DescsAssumption DEF Typed
<1>4. /\ call' \in [Threads -> Calls]
      /\ \A u \in Threads \ {t} : call'[u] = call[u]
      /\ call'[t].pc = "insert" /\ call'[t].desc = d
      /\ call'[t].ids = call[t].ids /\ call'[t].num = call[t].num
  <2> DEFINE c == [call[t] EXCEPT !.pc = "insert", !.desc = d]
  <2>1. /\ c \in Calls /\ c.pc = "insert" /\ c.desc = d
        /\ c.ids = call[t].ids /\ c.num = call[t].num
    BY <1>3 DEF Calls, Places, Addresses
  <2>2. call' = [call EXCEPT ![t] = c]
    BY <1>1, <1>3
  <2> HIDE DEF c
  <2> QED
    BY <1>3, <2>1, <2>2
<1>5. /\ heap' \in [Descs -> Descriptors]
      /\ \A e \in Descs \ {d} : heap'[e] = heap[e]
      /\ heap'[d].live /\ heap'[d].id = t
  BY <1>1, <1>2, <1>3 DEF Descriptors, Addresses
<1>6. Turn(t) /\ Mine(t) = NoDesc /\ Mine(t)' = d /\ ~Listed(t) /\ ~Listed(t)'
  BY <1>2, <1>4 DEF Turn, Typed, Mine, Listed, At, Entering
<1>7. Typed'
  BY <1>2, <1>4, <1>5 DEF Typed
<1>8. Owned'
  <2>1. \A u \in Threads \ {t} : Mine(u)' = Mine(u) /\ Mine(u) # d
    BY <1>1, <1>3, <1>2, <1>6, OthersStay DEF Owned, Placed
  <2>2. \A u \in Threads \ {t} : Placed(u)'
    <3> SUFFICES ASSUME NEW u \in Threads \ {t} PROVE Placed(u)'
      OBVIOUS
    <3>1. Placed(u) /\ Mine(u) \in Addresses /\ Mine(u) # d
      BY <1>2, <2>1, CallFields DEF Owned
    <3>2. Mine(u) # NoDesc => heap'[Mine(u)] = heap[Mine(u)]
      BY <1>5, <3>1 DEF Addresses
    <3>3. call'[u] = call[u] /\ tls'[u] = tls[u] /\ Mine(u)' = Mine(u) /\ Id(u)' = Id(u)
      BY <1>2, <1>4, <2>1 DEF Id
    <3> QED
      BY <3>1, <3>2, <3>3 DEF Placed, Counted
  <2>3. Placed(t)'
    <3>1. Id(t)' = t
      BY <1>2 DEF Id
    <3>2. Counted(t, {}, 0)'
      BY <1>2, <1>4 DEF Owned, Placed, At, Counted
    <3> QED
      BY <1>2, <1>3, <1>4, <1>5, <1>6, <3>1, <3>2 DEF Placed, Entering, Leaving
  <2>4. \A u, v \in Threads : Mine(u)' = Mine(v)' /\ Mine(u)' # NoDesc => u = v
    BY <1>2, <1>6, <2>1 DEF Owned
  <2>5. \A e \in Descs : heap'[e].live => \E u \in Threads : Mine(u)' = e
    <3> SUFFICES ASSUME NEW e \in Descs, heap'[e].live, e # d
                 PROVE  \E u \in Threads : Mine(u)' = e
      BY <1>6
    <3>1. PICK u \in Threads : Mine(u) = e
      BY <1>2, <1>5 DEF Owned
    <3>2. u # t
      BY <1>3, <1>6, <3>1, DescsAssumption
    <3> QED
      BY <2>1, <3>1, <3>2
  <2>6. \A u \in Threads : Placed(u)'
    BY <2>2, <2>3
  <2> QED
    BY <2>4, <2>5, <2>6 DEF Owned
<1>9. Aside(t)
  BY <1>1, <1>2, <1>4, <1>5, <1>6 DEF Aside, At, Inside
<1> QED
  BY <1>2, <1>7, <1>8, <1>9, AsideKeeps

(* A step that moves only the call and the pointer of t, aside of the list. *)
LEMMA OwnMoves ==
  ASSUME Orderly, IInv, NEW t \in Threads, threaded, Typed', Turn(t),
         UNCHANGED <<level, threaded, lock, head, heap>>,
         call[t].pc \notin Inside, call'[t].pc \notin Inside,
         Mine(t)' = Mine(t), Placed(t)',
         call[t].pc \in {"insert", "advance", "discard"} <=>
           call'[t].pc \in {"insert", "advance", "discard"}
  PROVE  IInv'
<1>1. Typed /\ Owned
  BY IInvFacts
<1>2. Owned'
  BY <1>1, OwnedStays
<1>3. Listed(t)' <=> Listed(t)
  BY DEF Listed, Inside
<1>4. Aside(t)
  BY <1>3 DEF Aside
<1> QED
  BY <1>2, <1>4, AsideKeeps

LEMMA OwnStep ==
  ASSUME Orderly, IInv, NEW t \in Threads, Own(t)
  PROVE  IInv'
<1>1. /\ Typed /\ Placed(t) /\ threaded /\ At(t, "own") /\ Return(t)
      /\ tls' = [tls EXCEPT ![t] = call[t].desc]
      /\ UNCHANGED <<level, threaded, lock, head, heap, sets>>
  BY IInvFacts, Threaded DEF Own, At
<1>2. /\ call' \in [Threads -> Calls] /\ \A u \in Threads \ {t} : call'[u] = call[u]
      /\ call'[t].pc = "idle" /\ Counted(t, {}, 0)'
  BY <1>1, ReturnFacts
<1>3. /\ call[t].desc \in Addresses /\ tls \in [Threads -> Addresses]
      /\ tls' \in [Threads -> Addresses]
      /\ tls'[t] = call[t].desc /\ \A u \in Threads \ {t} : tls'[u] = tls[u]
  BY <1>1, CallFields DEF Typed
<1>4. Turn(t) /\ Typed'
  BY <1>1, <1>2, <1>3 DEF Turn, Typed
<1>5. Mine(t)' = Mine(t)
  BY <1>1, <1>2, <1>3 DEF Mine, At, Entering
<1>6. Id(t)' = Id(t)
  BY <1>1 DEF Id
<1>7. Placed(t)'
  BY <1>1, <1>2, <1>5, <1>6 DEF Placed, Entering, Leaving
<1> QED
  BY <1>1, <1>2, <1>4, <1>5, <1>7, OwnMoves DEF At, Inside

LEMMA UnregisterStep ==
  ASSUME Orderly, IInv, NEW t \in Threads, Unregister(t)
  PROVE  IInv'
<1>1. /\ Typed /\ Placed(t) /\ threaded /\ At(t, "idle") /\ Goto(t, "lookup")
      /\ tls[t] # NoDesc
      /\ UNCHANGED <<level, threaded, lock, head, heap, tls, sets>>
  BY IInvFacts, Threaded DEF Unregister, Allowed, Goto
<1>2. /\ call' \in [Threads -> Calls] /\ \A u \in Threads \ {t} : call'[u] = call[u]
      /\ call'[t].pc = "lookup" /\ Counted(t, {}, 0)'
  BY <1>1, GotoFacts DEF Places, Placed, At
<1>3. Turn(t) /\ Typed'
  BY <1>1, <1>2 DEF Turn, Typed
<1>4. Mine(t)' = Mine(t) /\ Id(t)' = Id(t)
  BY <1>1, <1>2 DEF Mine, At, Entering, Id
<1>5. Placed(t)'
  BY <1>1, <1>2, <1>4 DEF Placed, Entering, Leaving
<1> QED
  BY <1>1, <1>2, <1>3, <1>4, <1>5, OwnMoves DEF At, Inside

LEMMA DropSetsStep ==
  ASSUME Orderly, IInv, NEW t \in Threads, DropSets(t)
  PROVE  IInv'
<1>1. /\ Typed /\ Placed(t) /\ threaded /\ At(t, "drop")
      /\ call' = [call EXCEPT ![t].pc = "remove", ![t].desc = tls[t]]
      /\ UNCHANGED <<level, threaded, lock, head, heap, tls>>
  BY IInvFacts, Threaded DEF DropSets, At
<1>2. /\ call' \in [Threads -> Calls] /\ \A u \in Threads \ {t} : call'[u] = call[u]
      /\ call'[t].pc = "remove" /\ call'[t].desc = tls[t] /\ Counted(t, {}, 0)'
  <2> DEFINE c == [call[t] EXCEPT !.pc = "remove", !.desc = tls[t]]
  <2>0. call[t] \in Calls /\ tls[t] \in Addresses /\ call \in [Threads -> Calls]
    BY <1>1, CallFields DEF Typed
  <2>1. /\ c \in Calls /\ c.pc = "remove" /\ c.desc = tls[t]
        /\ c.ids = call[t].ids /\ c.num = call[t].num
    BY <2>0 DEF Calls, Places
  <2>2. call' = [call EXCEPT ![t] = c]
    BY <1>1, <2>0
  <2> HIDE DEF c
  <2> QED
    BY <1>1, <2>0, <2>1, <2>2 DEF Placed, At, Counted
<1>3. sets' \in [Sets -> [master : Addresses, by : Threads \cup {NoThread}]]
  <2>1. \A e \in Sets : sets[e] \in [master : Addresses, by : Threads \cup {NoThread}]
    BY <1>1 DEF Typed
  <2>2. NoSet \in [master : Addresses, by : Threads \cup {NoThread}]
    BY DEF NoSet, Addresses
  <2> QED
    BY <2>1, <2>2 DEF DropSets
<1>4. Turn(t) /\ Typed'
  BY <1>1, <1>2, <1>3 DEF Turn, Typed
<1>5. Mine(t)' = Mine(t) /\ Id(t)' = Id(t)
  BY <1>1, <1>2 DEF Mine, At, Entering, Id
<1>6. Placed(t)'
  BY <1>1, <1>2, <1>5 DEF Placed, Entering, Leaving, At
<1> QED
  BY <1>1, <1>2, <1>4, <1>5, <1>6, OwnMoves DEF At, Inside

(* Creating or destroying an event set. *)
LEMMA SetStep ==
  ASSUME Orderly, IInv, NEW t \in Threads, CreateSet(t) \/ DestroySet(t)
  PROVE  IInv'
<1>1. /\ Typed /\ Placed(t) /\ threaded /\ At(t, "idle")
      /\ UNCHANGED <<level, threaded, lock, head, heap, tls, call>>
  BY IInvFacts, Threaded DEF CreateSet, DestroySet, Allowed
<1>2. sets' \in [Sets -> [master : Addresses, by : Threads \cup {NoThread}]]
  <2>1. PICK e \in Sets : \/ sets' = [sets EXCEPT ![e] = NoSet]
                          \/ sets' = [sets EXCEPT ![e] = [master |-> tls[t], by |-> t]]
    BY DEF CreateSet, DestroySet
  <2>2. NoSet \in [master : Addresses, by : Threads \cup {NoThread}]
    BY DEF NoSet, Addresses
  <2>3. [master |-> tls[t], by |-> t] \in [master : Addresses, by : Threads \cup {NoThread}]
    BY <1>1, CallFields
  <2> QED
    BY <1>1, <2>1, <2>2, <2>3 DEF Typed
<1>3. Turn(t) /\ Typed'
  BY <1>1, <1>2 DEF Turn, Typed
<1>4. Mine(t)' = Mine(t) /\ Id(t)' = Id(t)
  BY <1>1 DEF Mine, Id
<1>5. Placed(t)'
  BY <1>1, <1>4 DEF Placed, Counted
<1> QED
  BY <1>1, <1>3, <1>4, <1>5, OwnMoves DEF At, Inside

(* The thread's descriptor is freed once it is out of the list. *)
LEMMA DiscardStep ==
  ASSUME Orderly, IInv, NEW t \in Threads, Discard(t)
  PROVE  IInv'
<1> DEFINE d == tls[t]
<1>1. /\ Typed /\ Owned /\ Placed(t) /\ threaded /\ At(t, "discard") /\ Return(t)
      /\ tls' = [tls EXCEPT ![t] = NoDesc]
      /\ heap' = [heap EXCEPT ![call[t].desc] = Cleared]
      /\ UNCHANGED <<level, threaded, lock, head, sets>>
  BY IInvFacts, Threaded DEF Discard, At
<1>2. /\ call' \in [Threads -> Calls] /\ \A u \in Threads \ {t} : call'[u] = call[u]
      /\ call'[t].pc = "idle" /\ Counted(t, {}, 0)'
  BY <1>1, ReturnFacts
<1>3. /\ tls \in [Threads -> Addresses] /\ tls' \in [Threads -> Addresses]
      /\ tls'[t] = NoDesc /\ \A u \in Threads \ {t} : tls'[u] = tls[u]
  BY <1>1 DEF Typed, Addresses
<1>4. call[t].desc = d /\ d \in Descs /\ Mine(t) = d /\ d # NoDesc
  BY <1>1, CallFields DEF Placed, At, Leaving, Mine, Entering, Addresses
<1>5. /\ heap' \in [Descs -> Descriptors] /\ ~heap'[d].live
      /\ \A e \in Descs \ {d} : heap'[e] = heap[e]
  BY <1>1, <1>4 DEF Typed, Descriptors, Cleared, Addresses
<1>6. Turn(t) /\ Mine(t)' = NoDesc /\ ~Listed(t) /\ ~Listed(t)'
  BY <1>1, <1>2, <1>3 DEF Turn, Mine, Listed, At, Entering
<1>7. Typed'
  BY <1>1, <1>2, <1>3, <1>5 DEF Typed
<1> HIDE DEF d
<1>8. Owned'
  <2>1. \A u \in Threads \ {t} : Mine(u)' = Mine(u) /\ Mine(u) # d
    BY <1>1, <1>4, <1>6, OthersStay DEF Owned
  <2>2. \A u \in Threads \ {t} : Placed(u)'
    <3> SUFFICES ASSUME NEW u \in Threads \ {t} PROVE Placed(u)'
      OBVIOUS
    <3>1. Placed(u) /\ Mine(u) \in Addresses /\ Mine(u) # d
      BY <1>1, <2>1, CallFields DEF Owned
    <3>2. Mine(u) # NoDesc => heap'[Mine(u)] = heap[Mine(u)]
      BY <1>5, <3>1 DEF Addresses
    <3>3. call'[u] = call[u] /\ tls'[u] = tls[u] /\ Mine(u)' = Mine(u) /\ Id(u)' = Id(u)
      BY <1>1, <1>2, <1>3, <2>1 DEF Id
    <3> QED
      BY <3>1, <3>2, <3>3 DEF Placed, Counted
  <2>3. Placed(t)'
    BY <1>2, <1>6 DEF Placed, Entering, Leaving
  <2>4. \A u, v \in Threads : Mine(u)' = Mine(v)' /\ Mine(u)' # NoDesc => u = v
    BY <1>1, <1>6, <2>1 DEF Owned
  <2>5. \A e \in Descs : heap'[e].live => \E u \in Threads : Mine(u)' = e
    <3> SUFFICES ASSUME NEW e \in Descs \ {d}, heap'[e].live
                 PROVE  \E u \in Threads : Mine(u)' = e
      BY <1>5
    <3>1. PICK u \in Threads : Mine(u) = e
      BY <1>1, <1>5 DEF Owned
    <3>2. u # t
      BY <1>4, <3>1
    <3> QED
      BY <2>1, <3>1, <3>2
  <2>6. \A u \in Threads : Placed(u)'
    BY <2>2, <2>3
  <2> QED
    BY <2>4, <2>5, <2>6 DEF Owned
<1>9. Aside(t)
  BY <1>1, <1>2, <1>4, <1>5, <1>6 DEF Aside, At, Inside
<1> QED
  BY <1>1, <1>7, <1>8, <1>9, AsideKeeps

-----------------------------------------------------------------------------
(***************************************************************************)
(* The steps of a thread that has the lock, or takes it.                   *)
(***************************************************************************)

LEMMA InsideKeeps ==
  ASSUME IInv, NEW t \in Threads, threaded, Turn(t), UNCHANGED <<level, threaded>>,
         call[t].pc \in Inside \/ lock = NoThread,
         Typed', Mutex', Owned', Circle(heap', Ring'), Headed', Prepared(t)', Walking(t)'
  PROVE  IInv'
<1>1. Phases'
  BY IInvFacts, PhasesStay
<1>2. \A u \in Threads : Prepared(u)' /\ Walking(u)'
  BY IInvFacts, OthersOutside
<1> QED
  BY <1>1, <1>2 DEF IInv

LEMMA HeadAtRest ==
  ASSUME IInv, NEW t \in Threads,
         lock = NoThread \/ call[t].pc \in Inside \ {"lead", "advance"}
  PROVE  head \in Ring \/ (head = NoDesc /\ Ring = {})
<1>1. ASSUME NEW u \in Threads, At(u, "lead") \/ At(u, "advance") PROVE FALSE
  <2>1. lock = u /\ u # NoThread
    BY <1>1, IInvFacts, ThreadsAssumption DEF Mutex, At, Inside
  <2>2. lock = t /\ call[t].pc \notin {"lead", "advance"}
    BY <2>1, IInvFacts DEF Mutex
  <2> QED
    BY <1>1, <2>1, <2>2 DEF At
<1> QED
  BY <1>1, IInvFacts DEF Headed

(* What is met from the head is the list. *)
LEMMA OrbitRing ==
  ASSUME IInv, head \in Ring \/ (head = NoDesc /\ Ring = {})
  PROVE  Orbit(head) = Ring
BY IInvFacts, RingFacts, OrbitCircle, OrbitNone

(* A step that moves the call of t and the head, and nothing else. *)
LEMMA CallMoves ==
  ASSUME IInv, NEW t \in Threads, threaded, Typed',
         call' \in [Threads -> Calls], \A u \in Threads \ {t} : call'[u] = call[u],
         UNCHANGED <<level, threaded, heap, tls>>,
         Mine(t)' = Mine(t), Placed(t)', Listed(t)' <=> Listed(t)
  PROVE  Turn(t) /\ Owned' /\ Ring' = Ring /\ Circle(heap', Ring')
<1>1. Typed /\ Owned /\ Circle(heap, Ring)
  BY IInvFacts
<1>2. Turn(t)
  BY <1>1 DEF Turn, Typed
<1>3. Ring' = Ring
  BY <1>2, RingStays
<1>4. Owned'
  BY <1>1, <1>2, OwnedStays
<1>5. Circle(heap', Ring')
  BY <1>1, <1>3
<1> QED
  BY <1>2, <1>3, <1>4, <1>5

LEMMA CircleStays ==
  ASSUME IInv, Ring' = Ring, \A d \in Ring : heap'[d].next = heap[d].next
  PROVE  Circle(heap', Ring')
<1>1. Circle(heap, Ring)
  BY IInvFacts
<1>2. ASSUME NEW g, \A d \in Ring : g[d].next = heap[d].next PROVE Circle(g, Ring)
  BY <1>1, <1>2, CircleSame
<1> QED
  BY <1>2

LEMMA LookupStep ==
  ASSUME Orderly, IInv, NEW t \in Threads, Lookup(t)
  PROVE  IInv'
<1>1. /\ Typed /\ Mutex /\ Placed(t) /\ threaded /\ At(t, "lookup")
      /\ UNCHANGED <<level, threaded, lock, heap, tls, sets>>
  BY IInvFacts, Threaded DEF Lookup, At
<1>2. PICK d \in Addresses :
        /\ call' = [call EXCEPT ![t].pc = "drop", ![t].desc = d]
        /\ head' = head \/ (head' \in Orbit(head) /\ lock = NoThread)
  <2>1. tls[t] \in Addresses
    BY <1>1 DEF Typed
  <2> QED
    BY <1>1, <2>1 DEF Lookup, Found, Orbit, Addresses
<1>3. /\ call' \in [Threads -> Calls] /\ \A u \in Threads \ {t} : call'[u] = call[u]
      /\ call'[t].pc = "drop" /\ Counted(t, {}, 0)'
  <2> DEFINE c == [call[t] EXCEPT !.pc = "drop", !.desc = d]
  <2>0. call[t] \in Calls /\ call \in [Threads -> Calls]
    BY <1>1, CallFields DEF Typed
  <2>1. c \in Calls /\ c.pc = "drop" /\ c.ids = call[t].ids /\ c.num = call[t].num
    BY <2>0 DEF Calls, Places
  <2>2. call' = [call EXCEPT ![t] = c]
    BY <1>2, <2>0
  <2> HIDE DEF c
  <2> QED
    BY <1>1, <2>0, <2>1, <2>2 DEF Placed, At, Counted
<1>4. CASE head' = head
  <2>1. Typed'
    BY <1>1, <1>3, <1>4 DEF Typed
  <2>2. Turn(t)
    BY <1>1, <1>3, <2>1 DEF Turn, Typed
  <2>3. Mine(t)' = Mine(t) /\ Id(t)' = Id(t)
    BY <1>1, <1>3 DEF Mine, At, Entering, Id
  <2>4. Placed(t)'
    BY <1>1, <1>3, <2>3 DEF Placed, Entering, Leaving, At
  <2> QED
    BY <1>1, <1>3, <1>4, <2>1, <2>2, <2>3, <2>4, OwnMoves DEF At, Inside
<1>5. CASE head' \in Orbit(head) /\ lock = NoThread
  <2>1. head' \in Ring
    BY <1>1, <1>5, HeadAtRest, OrbitRing
  <2>2. Typed'
    BY <1>1, <1>3, <2>1 DEF Typed, Ring, Addresses
  <2>3. Mine(t)' = Mine(t) /\ Id(t)' = Id(t)
    BY <1>1, <1>3 DEF Mine, At, Entering, Id
  <2>4. Placed(t)' /\ (Listed(t)' <=> Listed(t))
    BY <1>1, <1>3, <2>3 DEF Placed, Entering, Leaving, Listed, At
  <2>5. Turn(t) /\ Owned' /\ Ring' = Ring /\ Circle(heap', Ring')
    BY <1>1, <1>3, <2>2, <2>3, <2>4, CallMoves
  <2>6. Headed'
    BY <2>1, <2>5 DEF Headed
  <2>7. Mutex'
    BY <1>1, <1>3, <2>5, MutexStays DEF At, Inside
  <2>8. Prepared(t)' /\ Walking(t)'
    BY <1>3 DEF Prepared, Walking, At
  <2> QED
    BY <1>1, <1>5, <2>2, <2>5, <2>6, <2>7, <2>8, InsideKeeps
<1> QED
  BY <1>2, <1>4, <1>5

(* A step of t that writes the pointer of one descriptor. *)
LEMMA PointerWritten ==
  ASSUME Typed, NEW d \in Descs, NEW n \in Addresses,
         heap' = [heap EXCEPT ![d].next = n]
  PROVE  /\ heap' \in [Descs -> Descriptors]
         /\ \A e \in Descs : heap'[e].live = heap[e].live /\ heap'[e].id = heap[e].id
         /\ heap'[d].next = n
         /\ \A e \in Descs \ {d} : heap'[e].next = heap[e].next
<1>1. heap[d] \in Descriptors /\ heap \in [Descs -> Descriptors]
  BY DEF Typed
<1>2. [heap[d] EXCEPT !.next = n] \in Descriptors
  BY <1>1 DEF Descriptors
<1>3. heap' = [heap EXCEPT ![d] = [heap[d] EXCEPT !.next = n]]
  BY <1>1
<1> QED
  BY <1>1, <1>2, <1>3 DEF Descriptors

LEMMA InsertStep ==
  ASSUME Orderly, IInv, NEW t \in Threads, Insert(t)
  PROVE  IInv'
<1> DEFINE d == call[t].desc
           n == IF head = NoDesc THEN d ELSE heap[head].next
<1>1. /\ Typed /\ Mutex /\ Owned /\ Placed(t) /\ Circle(heap, Ring) /\ threaded
      /\ At(t, "insert") /\ lock = NoThread /\ lock' = t /\ Goto(t, "hook")
      /\ heap' = [heap EXCEPT ![d].next = n]
      /\ UNCHANGED <<level, threaded, head, tls, sets>>
  BY IInvFacts, Threaded DEF Insert, At, Acquire
<1>2. /\ call' \in [Threads -> Calls] /\ \A u \in Threads \ {t} : call'[u] = call[u]
      /\ call'[t].pc = "hook" /\ call'[t].desc = d /\ Counted(t, {}, 0)'
  BY <1>1, GotoFacts DEF Places, Placed, At
<1>3. d \in Descs /\ d = Mine(t) /\ ~Listed(t) /\ d \notin Ring
  <2>1. d \in Addresses /\ d # NoDesc /\ d = Mine(t) /\ ~Listed(t)
    BY <1>1, CallFields DEF Placed, At, Entering, Mine, Listed
  <2> QED
    BY <1>1, <2>1, RingFacts DEF Addresses
<1>4. head \in Ring \/ (head = NoDesc /\ Ring = {})
  BY <1>1, HeadAtRest
<1>5. n \in Addresses
  <2>1. head \in Ring => heap[head].next \in Addresses
    BY <1>1 DEF Typed, Descriptors, Ring
  <2> QED
    BY <1>3, <1>4, <2>1 DEF Addresses
<1>6. /\ heap' \in [Descs -> Descriptors]
      /\ \A e \in Descs : heap'[e].live = heap[e].live /\ heap'[e].id = heap[e].id
      /\ heap'[d].next = n
      /\ \A e \in Descs \ {d} : heap'[e].next = heap[e].next
  <2> HIDE DEF d, n
  <2> QED
    BY <1>1, <1>3, <1>5, PointerWritten
<1>7. Typed'
  BY <1>1, <1>2, <1>6 DEF Typed
<1>8. Turn(t) /\ Mine(t)' = Mine(t) /\ Id(t)' = Id(t) /\ ~Listed(t)'
  BY <1>1, <1>2, <1>3 DEF Turn, Typed, Mine, At, Entering, Id, Listed
<1>9. Placed(t)'
  <2>1. heap'[d].live /\ heap'[d].id = Id(t)
    BY <1>1, <1>3, <1>6, DescsAssumption DEF Placed
  <2> HIDE DEF d, n
  <2> QED
    BY <1>1, <1>2, <1>3, <1>8, <2>1, DescsAssumption DEF Placed, Entering, Leaving, At
<1>10. Owned'
  BY <1>1, <1>6, <1>8, <1>9, OwnedStays
<1>11. Ring' = Ring
  BY <1>3, <1>8, RingStays
<1>12. Circle(heap', Ring')
  <2>1. \A e \in Ring : heap'[e].next = heap[e].next
    BY <1>3, <1>6 DEF Ring
  <2> QED
    BY <1>11, <2>1, CircleStays
<1>13. Headed'
  BY <1>1, <1>4, <1>11 DEF Headed
<1>14. Prepared(t)' /\ Walking(t)'
  <2>1. head # NoDesc => heap'[head].next = heap[head].next
    BY <1>3, <1>4, <1>6 DEF Ring
  <2> QED
    BY <1>1, <1>2, <1>6, <2>1 DEF Prepared, Walking, At
<1>15. Mutex'
  BY <1>1, <1>2, <1>8, MutexStays DEF Inside
<1> QED
  BY <1>1, <1>7, <1>8, <1>10, <1>12, <1>13, <1>14, <1>15, InsideKeeps

LEMMA HookStep ==
  ASSUME Orderly, IInv, NEW t \in Threads, Hook(t)
  PROVE  IInv'
<1> DEFINE d == call[t].desc
<1>1. /\ Typed /\ Mutex /\ Owned /\ Placed(t) /\ Prepared(t) /\ Circle(heap, Ring)
      /\ threaded /\ At(t, "hook") /\ Goto(t, "lead")
      /\ heap' = IF head = NoDesc THEN heap ELSE [heap EXCEPT ![head].next = d]
      /\ UNCHANGED <<level, threaded, lock, head, tls, sets>>
  BY IInvFacts, Threaded DEF Hook, At
<1>2. /\ call' \in [Threads -> Calls] /\ \A u \in Threads \ {t} : call'[u] = call[u]
      /\ call'[t].pc = "lead" /\ call'[t].desc = d /\ Counted(t, {}, 0)'
  BY <1>1, GotoFacts DEF Places, Placed, At
<1>3. d \in Descs /\ d = Mine(t) /\ ~Listed(t) /\ d \notin Ring
  <2>1. d \in Addresses /\ d # NoDesc /\ d = Mine(t) /\ ~Listed(t)
    BY <1>1, CallFields DEF Placed, At, Entering, Mine, Listed
  <2> QED
    BY <1>1, <2>1, RingFacts DEF Addresses
<1>4. head \in Ring \/ (head = NoDesc /\ Ring = {})
  BY <1>1, HeadAtRest DEF At, Inside
<1>5. head \in Ring => head \in Descs /\ head # NoDesc /\ head # d
  BY <1>1, <1>3, RingFacts
<1>6. /\ heap' \in [Descs -> Descriptors]
      /\ \A e \in Descs : heap'[e].live = heap[e].live /\ heap'[e].id = heap[e].id
      /\ \A e \in Descs \ {head} : heap'[e].next = heap[e].next
      /\ head \in Ring => heap'[head].next = d
  <2>1. CASE head = NoDesc
    BY <1>1, <1>5, <2>1 DEF Typed
  <2>2. CASE head # NoDesc
    <3>1. head \in Descs /\ d \in Addresses /\ heap' = [heap EXCEPT ![head].next = d]
      BY <1>1, <1>3, <1>4, <1>5, <2>2 DEF Addresses
    <3> HIDE DEF d
    <3> QED
      BY <1>1, <3>1, PointerWritten
  <2> QED
    BY <2>1, <2>2
<1>7. Typed'
  BY <1>1, <1>2, <1>6 DEF Typed
<1>8. Turn(t) /\ Mine(t)' = Mine(t) /\ Id(t)' = Id(t) /\ Listed(t)'
  BY <1>1, <1>2, <1>3, DescsAssumption DEF Turn, Typed, Mine, At, Entering, Id, Listed
<1>9. Placed(t)'
  <2>1. heap'[d].live /\ heap'[d].id = Id(t)
    BY <1>1, <1>3, <1>6, DescsAssumption DEF Placed
  <2> HIDE DEF d
  <2> QED
    BY <1>1, <1>2, <1>3, <1>8, <2>1, DescsAssumption DEF Placed, Entering, Leaving, At
<1>10. Owned'
  BY <1>1, <1>6, <1>8, <1>9, OwnedStays
<1>11. Ring' = Ring \cup {d}
  BY <1>3, <1>8, RingGrows
<1>12. Circle(heap', Ring') /\ Headed'
  <2>1. CASE head \in Ring
    <3>1. heap'[d].next = heap[head].next
      BY <1>1, <1>3, <1>5, <1>6, <2>1 DEF Prepared
    <3>2. \A c \in Ring \ {head} : heap'[c].next = heap[c].next
      BY <1>6 DEF Ring
    <3>3. heap'[head].next = d
      BY <1>6, <2>1
    <3> HIDE DEF d
    <3>4. ASSUME NEW h, NEW g, NEW C, Circle(h, C), head \in C, d \notin C,
                 g[d].next = h[head].next, g[head].next = d,
                 \A c \in C \ {head} : g[c].next = h[c].next
          PROVE  Circle(g, C \cup {d})
      BY <3>4, CircleInsert
    <3>5. Circle(heap', Ring \cup {d})
      BY <1>1, <1>3, <2>1, <3>1, <3>2, <3>3, <3>4
    <3> QED
      BY <1>1, <1>11, <2>1, <3>5 DEF Headed
  <2>2. CASE head = NoDesc /\ Ring = {}
    <3>1. heap'[d].next = d
      BY <1>1, <1>3, <1>6, <2>2, DescsAssumption DEF Prepared
    <3>2. Ring' = {d}
      BY <1>11, <2>2
    <3>3. Circle(heap', {d})
      BY <3>1, CircleOne
    <3> QED
      BY <1>1, <1>2, <2>2, <3>2, <3>3 DEF Headed, At
  <2> QED
    BY <1>4, <2>1, <2>2
<1>13. Prepared(t)' /\ Walking(t)'
  BY <1>2 DEF Prepared, Walking, At
<1>14. Mutex'
  BY <1>1, <1>2, <1>8, MutexStays DEF Inside, At
<1> QED
  BY <1>1, <1>7, <1>8, <1>10, <1>12, <1>13, <1>14, InsideKeeps DEF At, Inside

LEMMA LeadStep ==
  ASSUME Orderly, IInv, NEW t \in Threads, Lead(t)
  PROVE  IInv'
<1>1. /\ Typed /\ Mutex /\ Owned /\ Placed(t) /\ threaded /\ At(t, "lead")
      /\ lock' = NoThread /\ head' = call[t].desc /\ Goto(t, "own")
      /\ UNCHANGED <<level, threaded, heap, tls, sets>>
  BY IInvFacts, Threaded DEF Lead, At, Release
<1>2. /\ call' \in [Threads -> Calls] /\ \A u \in Threads \ {t} : call'[u] = call[u]
      /\ call'[t].pc = "own" /\ call'[t].desc = call[t].desc /\ Counted(t, {}, 0)'
  BY <1>1, GotoFacts DEF Places, Placed, At
<1>3. call[t].desc = Mine(t) /\ Mine(t) # NoDesc /\ Listed(t) /\ lock = t
  BY <1>1 DEF Placed, At, Entering, Mine, Listed, Mutex, Inside
<1>4. call[t].desc \in Ring /\ call[t].desc \in Addresses
  BY <1>1, <1>3, RingFacts, CallFields
<1>5. Typed'
  BY <1>1, <1>2, <1>4 DEF Typed
<1>6. Mine(t)' = Mine(t) /\ Id(t)' = Id(t)
  BY <1>1, <1>2 DEF Mine, At, Entering, Id
<1>7. Placed(t)' /\ (Listed(t)' <=> Listed(t))
  BY <1>1, <1>2, <1>3, <1>6 DEF Placed, Entering, Leaving, Listed, At
<1>8. Turn(t) /\ Owned' /\ Ring' = Ring /\ Circle(heap', Ring')
  BY <1>1, <1>2, <1>5, <1>6, <1>7, CallMoves
<1>9. Headed'
  BY <1>1, <1>4, <1>8 DEF Headed
<1>10. Mutex'
  BY <1>1, <1>2, <1>3, <1>8, MutexStays DEF Inside
<1>11. Prepared(t)' /\ Walking(t)'
  BY <1>2 DEF Prepared, Walking, At
<1> QED
  BY <1>1, <1>5, <1>8, <1>9, <1>10, <1>11, InsideKeeps DEF At, Inside

(* The descriptor is in the list, so the walk around it ends.              *)
LEMMA RemoveStep ==
  ASSUME Orderly, IInv, NEW t \in Threads, Remove(t)
  PROVE  IInv'
<1>1. /\ Typed /\ Mutex /\ Owned /\ Placed(t) /\ threaded /\ At(t, "remove")
      /\ lock = NoThread /\ lock' = t
      /\ UNCHANGED <<level, threaded, head, heap, tls, sets>>
  BY IInvFacts, Threaded DEF Remove, At, Acquire
<1>2. call[t].desc = Mine(t) /\ Mine(t) # NoDesc /\ Listed(t) /\ call[t].desc \in Ring
  <2>1. call[t].desc = Mine(t) /\ Mine(t) # NoDesc /\ Listed(t)
    BY <1>1 DEF Placed, At, Leaving, Entering, Mine, Listed
  <2> QED
    BY <1>1, <2>1, RingFacts
<1>3. head \in Ring /\ Orbit(head) = Ring
  BY <1>1, <1>2, HeadAtRest, OrbitRing
<1>4. PICK p \in Ring :
        /\ heap[p].next = call[t].desc
        /\ call' = [call EXCEPT ![t].pc = "unlink", ![t].prev = p]
  BY <1>2, <1>3 DEF Remove
<1>5. /\ call' \in [Threads -> Calls] /\ \A u \in Threads \ {t} : call'[u] = call[u]
      /\ call'[t].pc = "unlink" /\ call'[t].prev = p
      /\ call'[t].desc = call[t].desc /\ Counted(t, {}, 0)'
  <2> DEFINE c == [call[t] EXCEPT !.pc = "unlink", !.prev = p]
  <2>0. call[t] \in Calls /\ call \in [Threads -> Calls] /\ p \in Addresses
    BY <1>1, CallFields DEF Typed, Ring, Addresses
  <2>1. /\ c \in Calls /\ c.pc = "unlink" /\ c.prev = p /\ c.desc = call[t].desc
        /\ c.ids = call[t].ids /\ c.num = call[t].num
    BY <2>0 DEF Calls, Places
  <2>2. call' = [call EXCEPT ![t] = c]
    BY <1>4, <2>0
  <2> HIDE DEF c
  <2> QED
    BY <1>1, <2>0, <2>1, <2>2 DEF Placed, At, Counted
<1>6. Typed'
  BY <1>1, <1>5 DEF Typed
<1>7. Mine(t)' = Mine(t) /\ Id(t)' = Id(t)
  BY <1>1, <1>5 DEF Mine, At, Entering, Id
<1>8. Placed(t)' /\ (Listed(t)' <=> Listed(t))
  BY <1>1, <1>2, <1>5, <1>7 DEF Placed, Entering, Leaving, Listed, At
<1>9. Turn(t) /\ Owned' /\ Ring' = Ring /\ Circle(heap', Ring')
  BY <1>1, <1>5, <1>6, <1>7, <1>8, CallMoves
<1>10. Headed' /\ Walking(t)' /\ Prepared(t)'
  BY <1>1, <1>3, <1>4, <1>5, <1>9 DEF Headed, Walking, Prepared, At
<1>11. Mutex'
  BY <1>1, <1>5, <1>9, MutexStays DEF Inside
<1> QED
  BY <1>1, <1>6, <1>9, <1>10, <1>11, InsideKeeps

LEMMA UnlinkStep ==
  ASSUME Orderly, IInv, NEW t \in Threads, Unlink(t)
  PROVE  IInv'
<1>0. PICK d : d = call[t].desc
  OBVIOUS
<1>1. PICK p : p = call[t].prev
  OBVIOUS
<1>2. /\ Typed /\ Mutex /\ Owned /\ Placed(t) /\ Prepared(t) /\ Circle(heap, Ring)
      /\ threaded /\ At(t, "unlink") /\ Goto(t, "advance")
      /\ p = d => head' = NoDesc /\ heap' = [heap EXCEPT ![d].next = NoDesc]
      /\ p # d => heap' = [heap EXCEPT ![p].next = heap[d].next] /\ UNCHANGED head
      /\ UNCHANGED <<level, threaded, lock, tls, sets>>
  BY <1>0, <1>1, IInvFacts, Threaded DEF Unlink, At
<1>3. /\ call' \in [Threads -> Calls] /\ \A u \in Threads \ {t} : call'[u] = call[u]
      /\ call'[t].pc = "advance" /\ call'[t].desc = d /\ Counted(t, {}, 0)'
  BY <1>0, <1>2, GotoFacts DEF Places, Placed, At
<1>4. /\ d = Mine(t) /\ d = tls[t] /\ d # NoDesc /\ Listed(t) /\ d \in Ring /\ d \in Descs
      /\ p \in Ring /\ p \in Descs /\ heap[p].next = d
  <2>1. d = Mine(t) /\ d = tls[t] /\ Mine(t) # NoDesc /\ Listed(t)
    BY <1>0, <1>2 DEF Placed, At, Leaving, Entering, Mine, Listed
  <2>2. p \in Ring /\ heap[p].next = d
    BY <1>0, <1>1, <1>2 DEF Prepared, At
  <2> QED
    BY <1>2, <2>1, <2>2, RingFacts
<1>5. head \in Ring
  BY <1>2, <1>4, HeadAtRest DEF At, Inside
<1>6. heap[d].next \in Addresses /\ NoDesc \in Addresses
  BY <1>2, <1>4 DEF Typed, Descriptors, Addresses
<1>7. /\ heap' \in [Descs -> Descriptors]
      /\ \A e \in Descs : heap'[e].live = heap[e].live /\ heap'[e].id = heap[e].id
      /\ heap'[p].next = IF p = d THEN NoDesc ELSE heap[d].next
      /\ \A e \in Descs \ {p} : heap'[e].next = heap[e].next
  BY <1>2, <1>4, <1>6, PointerWritten
<1>8. Typed'
  BY <1>2, <1>3, <1>5, <1>7, RingFacts DEF Typed, Addresses
<1>9. Turn(t) /\ Mine(t)' = Mine(t) /\ Id(t)' = Id(t) /\ ~Listed(t)'
  BY <1>2, <1>3 DEF Turn, Typed, Mine, At, Entering, Id, Listed
<1>10. Placed(t)'
  <2>1. heap'[d].live /\ heap'[d].id = Id(t)
    BY <1>2, <1>4, <1>7 DEF Placed
  <2> QED
    BY <1>2, <1>3, <1>4, <1>9, <2>1 DEF Placed, Entering, Leaving, At
<1>11. Owned'
  BY <1>2, <1>7, <1>9, <1>10, OwnedStays
<1>12. Ring' = Ring \ {d}
  BY <1>2, <1>4, <1>9, RingShrinks
<1>13. Circle(heap', Ring') /\ Headed'
  <2>1. CASE p = d
    <3>1. Ring = {d}
      BY <1>2, <1>4, <2>1, CircleAlone
    <3>2. Ring' = {} /\ head' = NoDesc
      BY <1>2, <1>12, <2>1, <3>1
    <3> QED
      BY <3>2, CircleEmpty DEF Headed
  <2>2. CASE p # d
    <3>1. \A c \in Ring \ {p, d} : heap'[c].next = heap[c].next
      BY <1>7 DEF Ring
    <3>2. heap'[p].next = heap[d].next /\ heap'[d].next = heap[d].next /\ head' = head
      BY <1>2, <1>4, <1>7, <2>2
    <3>3. ASSUME NEW g, g[p].next = heap[d].next,
                 \A c \in Ring \ {p, d} : g[c].next = heap[c].next
          PROVE  Circle(g, Ring \ {d}) /\ heap[d].next \in Ring \ {d}
      BY <1>2, <1>4, <2>2, <3>3, CircleRemove, SMTT(60)
    <3>4. Circle(heap', Ring \ {d}) /\ heap[d].next \in Ring \ {d}
      BY <3>1, <3>2, <3>3
    <3>5. Headed'
      BY <1>3, <1>5, <1>12, <3>2, <3>4 DEF Headed, At
    <3> QED
      BY <1>12, <3>4, <3>5
  <2> QED
    BY <2>1, <2>2
<1>14. Prepared(t)' /\ Walking(t)'
  BY <1>3 DEF Prepared, Walking, At
<1>15. Mutex'
  BY <1>2, <1>3, <1>9, MutexStays DEF Inside, At
<1> QED
  BY <1>2, <1>8, <1>9, <1>11, <1>13, <1>14, <1>15, InsideKeeps DEF At, Inside

LEMMA AdvanceStep ==
  ASSUME Orderly, IInv, NEW t \in Threads, Advance(t)
  PROVE  IInv'
<1>0. PICK d : d = call[t].desc
  OBVIOUS
<1>1. /\ Typed /\ Mutex /\ Owned /\ Placed(t) /\ Headed /\ threaded /\ At(t, "advance")
      /\ lock' = NoThread /\ head' = (IF head = d THEN heap[d].next ELSE head)
      /\ Goto(t, "discard")
      /\ UNCHANGED <<level, threaded, heap, tls, sets>>
  BY <1>0, IInvFacts, Threaded DEF Advance, At, Release
<1>2. /\ call' \in [Threads -> Calls] /\ \A u \in Threads \ {t} : call'[u] = call[u]
      /\ call'[t].pc = "discard" /\ call'[t].desc = d /\ Counted(t, {}, 0)'
  BY <1>0, <1>1, GotoFacts DEF Places, Placed, At
<1>3. d = Mine(t) /\ d # NoDesc /\ d = tls[t] /\ ~Listed(t) /\ d \notin Ring /\ lock = t
  <2>1. d = Mine(t) /\ d # NoDesc /\ d = tls[t] /\ ~Listed(t) /\ lock = t
    BY <1>0, <1>1 DEF Placed, At, Leaving, Entering, Mine, Listed, Mutex, Inside
  <2> QED
    BY <1>1, <2>1, RingFacts
<1>4. head' \in Ring \/ (head' = NoDesc /\ Ring = {})
  <2>1. \A u \in Threads : At(u, "lead") \/ At(u, "advance") => u = t
    BY <1>1, <1>3 DEF Mutex, At, Inside
  <2>2. head \in Ring \/ (head = NoDesc /\ Ring = {}) \/ (head = d /\ heap[d].next \in Ring)
    BY <1>0, <1>1, <2>1 DEF Headed, At
  <2> QED
    BY <1>1, <1>3, <2>2
<1>5. Typed'
  <2>1. head' \in Addresses
    BY <1>1, <1>4, RingFacts DEF Addresses
  <2> QED
    BY <1>1, <1>2, <2>1 DEF Typed
<1>6. Mine(t)' = Mine(t) /\ Id(t)' = Id(t)
  BY <1>1, <1>2 DEF Mine, At, Entering, Id
<1>7. Placed(t)' /\ (Listed(t)' <=> Listed(t))
  BY <1>1, <1>2, <1>3, <1>6 DEF Placed, Entering, Leaving, Listed, At
<1>8. Turn(t) /\ Owned' /\ Ring' = Ring /\ Circle(heap', Ring')
  BY <1>1, <1>2, <1>5, <1>6, <1>7, CallMoves
<1>9. Headed'
  BY <1>4, <1>8 DEF Headed
<1>10. Mutex'
  BY <1>1, <1>2, <1>3, <1>8, MutexStays DEF Inside
<1>11. Prepared(t)' /\ Walking(t)'
  BY <1>2 DEF Prepared, Walking, At
<1> QED
  BY <1>1, <1>5, <1>8, <1>9, <1>10, <1>11, InsideKeeps DEF At, Inside

LEMMA ListStep ==
  ASSUME Orderly, IInv, NEW t \in Threads, List(t)
  PROVE  IInv'
<1>1. /\ Typed /\ Mutex /\ Owned /\ Placed(t) /\ threaded /\ At(t, "idle")
      /\ lock = NoThread /\ lock' = t
      /\ UNCHANGED <<level, threaded, head, heap, tls, sets>>
  BY IInvFacts, Threaded DEF List, Acquire, Allowed
<1>0. PICK n \in Rooms :
        call' = [call EXCEPT ![t].pc = "walk", ![t].desc = head, ![t].room = n]
  BY DEF List
<1>2. head \in Ring \/ (head = NoDesc /\ Ring = {})
  BY <1>1, HeadAtRest
<1>3. /\ call' \in [Threads -> Calls] /\ \A u \in Threads \ {t} : call'[u] = call[u]
      /\ call'[t].pc = "walk" /\ call'[t].desc = head
      /\ call'[t].ids = {} /\ call'[t].num = 0 /\ call'[t].room \in Rooms
  <2> DEFINE c == [call[t] EXCEPT !.pc = "walk", !.desc = head, !.room = n]
  <2>0. /\ call[t] \in Calls /\ call \in [Threads -> Calls] /\ head \in Addresses
        /\ call[t].ids = {} /\ call[t].num = 0 /\ n \in Nat
    BY <1>1, RoomsAssumption, CallFields DEF Typed, Placed, Counted, At
  <2>1. /\ c \in Calls /\ c.pc = "walk" /\ c.desc = head /\ c.room = n
        /\ c.ids = call[t].ids /\ c.num = call[t].num
    BY <2>0 DEF Calls, Places
  <2>2. call' = [call EXCEPT ![t] = c]
    BY <1>0, <2>0
  <2> HIDE DEF c
  <2> QED
    BY <2>0, <2>1, <2>2
<1>4. Typed'
  BY <1>1, <1>3 DEF Typed
<1>5. Mine(t)' = Mine(t) /\ Id(t)' = Id(t)
  BY <1>1, <1>3 DEF Mine, At, Entering, Id
<1>6. Placed(t)' /\ (Listed(t)' <=> Listed(t))
  BY <1>1, <1>3, <1>5 DEF Placed, Entering, Leaving, Listed, At
<1>7. Turn(t) /\ Owned' /\ Ring' = Ring /\ Circle(heap', Ring')
  BY <1>1, <1>3, <1>4, <1>5, <1>6, CallMoves
<1>8. Headed' /\ Prepared(t)'
  BY <1>1, <1>2, <1>3, <1>7 DEF Headed, Prepared, At
<1>9. Walking(t)'
  <2>1. Seen({}, head, t)'
    BY <1>1, <1>3, FS_EmptySet DEF Seen
  <2>2. call'[t].desc = head'
    BY <1>1, <1>3
  <2>3. (call[t].room \in Rooms /\ ~Full(t, call[t].num))'
    <3>1. call'[t].room \in Nat /\ call'[t].room \in Rooms /\ call'[t].num = 0
      BY <1>3, RoomsAssumption
    <3> QED
      BY <3>1 DEF Full
  <2> QED
    BY <1>1, <1>2, <1>3, <1>7, <2>1, <2>2, <2>3 DEF Walking, Counted
<1>10. Mutex'
  BY <1>1, <1>3, <1>7, MutexStays DEF Inside
<1> QED
  BY <1>1, <1>4, <1>7, <1>8, <1>9, <1>10, InsideKeeps

(* What a walk that has seen V has counted when it leaves d behind.        *)
LEMMA CountingOn ==
  ASSUME IInv, NEW t \in Threads, NEW d \in Ring, NEW V \in SUBSET Ring, Seen(V, d, t)
  PROVE  /\ call[t].ids \cup {heap[d].id} = {heap[c].id : c \in V \cup {d}}
         /\ call[t].num + 1 = Cardinality(V \cup {d})
<1>1. call[t].num + 1 = Cardinality(V \cup {d})
  <2>1. IsFiniteSet(V)
    BY IInvFacts, RingFacts, DescsAssumption, FS_Subset
  <2>2. Cardinality(V \cup {d}) = Cardinality(V) + 1
    BY <2>1, FS_AddElement DEF Seen
  <2> QED
    BY <2>2 DEF Seen
<1>2. call[t].ids \cup {heap[d].id} = {heap[c].id : c \in V \cup {d}}
  BY DEF Seen
<1> QED
  BY <1>1, <1>2

(* A walk that has seen V goes on behind d, which it has not seen yet.     *)
LEMMA WalkOn ==
  ASSUME IInv, NEW t \in Threads, NEW d \in Ring, NEW V \in SUBSET Ring,
         Seen(V, d, t), heap[d].next # head
  PROVE  /\ heap[d].next \notin V \cup {d} /\ head \in V \cup {d}
         /\ \A c \in V \cup {d} : heap[c].next \in V \cup {d} \cup {heap[d].next}
         /\ \A c \in V \cup {d} \cup {heap[d].next} :
              c = head \/ \E b \in V \cup {d} : heap[b].next = c
<1>1. \A c, e \in Ring : heap[c].next = heap[e].next => c = e
  BY IInvFacts DEF Circle
<1>2. heap[d].next \notin V \cup {d}
  BY <1>1 DEF Seen
<1> QED
  BY <1>2 DEF Seen

LEMMA WalkStep ==
  ASSUME Orderly, IInv, NEW t \in Threads, Walk(t)
  PROVE  IInv'
<1>0. PICK d : d = call[t].desc
  OBVIOUS
<1> DEFINE more == /\ d # NoDesc /\ heap[d].next # NoDesc /\ heap[d].next # head
                  /\ ~Full(t, call[t].num + 1)
<1>1. /\ Typed /\ Mutex /\ Owned /\ Placed(t) /\ Walking(t) /\ Circle(heap, Ring)
      /\ threaded /\ At(t, "walk") /\ lock = t
      /\ more => /\ call' = [call EXCEPT ![t].desc = heap[d].next,
                                         ![t].ids = call[t].ids \cup {heap[d].id},
                                         ![t].num = call[t].num + 1]
                 /\ UNCHANGED lock
      /\ ~more => Return(t) /\ lock' = NoThread
      /\ UNCHANGED <<level, threaded, head, heap, tls, sets>>
  BY <1>0, IInvFacts, Threaded DEF Walk, At, Mutex, Inside, Release
<1>2. head \in Ring \/ (head = NoDesc /\ Ring = {})
  BY <1>1, HeadAtRest DEF At, Inside
<1>3. CASE more
  <2>1. PICK V \in SUBSET Ring : Seen(V, d, t)
    BY <1>0, <1>1, <1>3 DEF Walking
  <2>2. PICK n : n = heap[d].next
    OBVIOUS
  <2>3. d \in Ring /\ d \in Descs /\ n \in Ring /\ n \in Addresses /\ n # head
    BY <1>0, <1>1, <1>3, <2>2, RingFacts DEF Walking, Circle, Addresses
  <2>4. /\ call' \in [Threads -> Calls] /\ \A u \in Threads \ {t} : call'[u] = call[u]
        /\ call'[t].pc = "walk" /\ call'[t].desc = n
        /\ call'[t].ids = call[t].ids \cup {heap[d].id}
        /\ call'[t].num = call[t].num + 1 /\ call'[t].room = call[t].room
    <3> DEFINE i == call[t].ids \cup {heap[d].id}
               m == call[t].num + 1
               c == [call[t] EXCEPT !.desc = n, !.ids = i, !.num = m]
    <3>0. /\ call[t] \in Calls /\ call \in [Threads -> Calls] /\ call[t].pc = "walk"
          /\ i \in SUBSET (Threads \cup {Pid, NoThread}) /\ m \in Nat
      BY <1>1, <2>3, CallFields DEF Typed, At, Calls, Descriptors
    <3>1. call' = [call EXCEPT ![t].desc = n, ![t].ids = i, ![t].num = m]
      BY <1>1, <1>3, <2>2
    <3> HIDE DEF i, m
    <3>2. /\ c \in Calls /\ c.pc = "walk" /\ c.desc = n /\ c.ids = i /\ c.num = m
          /\ c.room = call[t].room
      BY <2>3, <3>0 DEF Calls
    <3>3. call' = [call EXCEPT ![t] = c]
      BY <3>0, <3>1
    <3> HIDE DEF c
    <3>4. /\ call' \in [Threads -> Calls] /\ \A u \in Threads \ {t} : call'[u] = call[u]
          /\ call'[t] = c
      BY <3>0, <3>2, <3>3
    <3> QED
      BY <3>2, <3>4 DEF i, m
  <2>5. Typed'
    BY <1>1, <1>3, <2>4 DEF Typed
  <2>6. Mine(t)' = Mine(t) /\ Id(t)' = Id(t)
    BY <1>1, <2>4 DEF Mine, At, Entering, Id
  <2>7. Placed(t)' /\ (Listed(t)' <=> Listed(t))
    BY <1>1, <2>4, <2>6 DEF Placed, Entering, Leaving, Listed, At
  <2>8. Turn(t) /\ Owned' /\ Ring' = Ring /\ Circle(heap', Ring')
    BY <1>1, <2>4, <2>5, <2>6, <2>7, CallMoves
  <2>9. Headed' /\ Prepared(t)'
    BY <1>1, <1>2, <2>4, <2>8 DEF Headed, Prepared, At
  <2>10. Walking(t)'
    <3>1. /\ n \notin V \cup {d} /\ head \in V \cup {d}
          /\ \A c \in V \cup {d} : heap[c].next \in V \cup {d} \cup {n}
          /\ \A c \in V \cup {d} \cup {n} :
               c = head \/ \E b \in V \cup {d} : heap[b].next = c
          /\ call[t].ids \cup {heap[d].id} = {heap[c].id : c \in V \cup {d}}
          /\ call[t].num + 1 = Cardinality(V \cup {d})
      BY <2>1, <2>2, <2>3, WalkOn, CountingOn, SMTT(60)
    <3>2. /\ call'[t].ids = {heap[c].id : c \in V \cup {d}}
          /\ call'[t].num = Cardinality(V \cup {d})
          /\ heap' = heap /\ head' = head
      BY <1>1, <2>4, <3>1
    <3>3. Seen(V \cup {d}, n, t)'
      BY <3>1, <3>2 DEF Seen
    <3>4. V \cup {d} \in SUBSET Ring' /\ n \in Ring' /\ call'[t].desc = n
      BY <2>3, <2>4, <2>8
    <3>5. (call[t].room \in Rooms /\ ~Full(t, call[t].num))'
      BY <1>1, <1>3, <2>4 DEF Full, Walking
    <3> QED
      BY <3>3, <3>4, <3>5 DEF Walking
  <2>11. Mutex'
    BY <1>1, <1>3, <2>4, <2>8, MutexStays DEF Inside, At
  <2> QED
    BY <1>1, <2>5, <2>8, <2>9, <2>10, <2>11, InsideKeeps DEF At, Inside
<1>4. CASE ~more
  <2>1. /\ call' \in [Threads -> Calls] /\ \A u \in Threads \ {t} : call'[u] = call[u]
        /\ call'[t].pc = "idle" /\ Counted(t, {}, 0)'
    BY <1>1, <1>4, ReturnFacts
  <2>2. Typed'
    BY <1>1, <1>4, <2>1 DEF Typed
  <2>3. Mine(t)' = Mine(t) /\ Id(t)' = Id(t)
    BY <1>1, <2>1 DEF Mine, At, Entering, Id
  <2>4. Placed(t)' /\ (Listed(t)' <=> Listed(t))
    BY <1>1, <2>1, <2>3 DEF Placed, Entering, Leaving, Listed, At
  <2>5. Turn(t) /\ Owned' /\ Ring' = Ring /\ Circle(heap', Ring')
    BY <1>1, <2>1, <2>2, <2>3, <2>4, CallMoves
  <2>6. Headed' /\ Prepared(t)' /\ Walking(t)'
    BY <1>1, <1>2, <2>1, <2>5 DEF Headed, Prepared, Walking, At
  <2>7. Mutex'
    BY <1>1, <1>4, <2>1, <2>5, MutexStays DEF Inside
  <2> QED
    BY <1>1, <2>2, <2>5, <2>6, <2>7, InsideKeeps DEF At, Inside
<1> QED
  BY <1>3, <1>4

-----------------------------------------------------------------------------
(***************************************************************************)
(* Initialization and shutdown.                                            *)
(***************************************************************************)

(* While the level is not "threads", the list is what PAPI_library_init    *)
(* made of it.                                                             *)
LEMMA BeforeThreads ==
  ASSUME IInv, level # "threads"
  PROVE  /\ ~threaded /\ lock = NoThread
         /\ \A t \in Threads : /\ At(t, "idle") /\ Mine(t) = tls[t]
                               /\ tls[t] \in {head, NoDesc}
         /\ level = "none" => Ring = {} /\ \A d \in Descs : ~heap[d].live
         /\ level = "inited" => head \in Ring /\ Ring = {head} /\ heap[head].next = head
<1>1. /\ Typed /\ Phases /\ Owned /\ Circle(heap, Ring) /\ Headed
      /\ ~threaded /\ lock = NoThread
  BY IInvFacts DEF Phases
<1>2. \A t \in Threads : At(t, "idle") /\ Mine(t) = tls[t] /\ tls[t] \in {head, NoDesc}
  BY <1>1 DEF Phases, Typed, Mine, At, Entering
<1>3. level = "none" => Ring = {} /\ \A d \in Descs : ~heap[d].live
  BY <1>1, <1>2, DescsAssumption DEF Phases, Ring, Listed, Owned
<1>4. level = "inited" => head \in Ring /\ Ring = {head}
  <2> SUFFICES ASSUME level = "inited" PROVE head \in Ring /\ Ring = {head}
    OBVIOUS
  <2>1. head \in Ring
    BY <1>1, <1>2 DEF Phases, Headed, At
  <2>2. Ring \subseteq {head}
    BY <1>2 DEF Ring, Listed
  <2> QED
    BY <2>1, <2>2
<1>5. head \in Ring => heap[head].next \in Ring
  BY <1>1 DEF Circle
<1> QED
  BY <1>1, <1>2, <1>3, <1>4, <1>5

LEMMA LibraryInitStep ==
  ASSUME Orderly, IInv, NEW t \in Threads, LibraryInit(t)
  PROVE  IInv'
<1>1. PICK d \in Descs :
        /\ heap' = [heap EXCEPT ![d] = [live |-> TRUE, id |-> Pid, next |-> d]]
        /\ head' = d /\ tls' = [tls EXCEPT ![t] = d]
  BY DEF LibraryInit
<1>2. /\ Typed /\ Phases /\ lock = NoThread /\ level = "none"
      /\ level' = "inited" /\ threaded' = FALSE /\ UNCHANGED <<lock, sets, call>>
      /\ d # NoDesc /\ \A u \in Threads : u # NoThread
  BY IInvFacts, DescsAssumption, ThreadsAssumption DEF LibraryInit
<1>3. /\ \A u \in Threads : At(u, "idle") /\ tls[u] = NoDesc
      /\ \A e \in Descs : ~heap[e].live
  BY <1>2, BeforeThreads, IInvFacts DEF Phases
<1>4. /\ heap' \in [Descs -> Descriptors] /\ heap'[d].live /\ heap'[d].id = Pid
      /\ heap'[d].next = d /\ \A e \in Descs \ {d} : heap'[e] = heap[e]
  BY <1>1, <1>2 DEF Typed, Descriptors, Addresses
<1>5. /\ tls' \in [Threads -> Addresses] /\ tls'[t] = d
      /\ \A u \in Threads \ {t} : tls'[u] = NoDesc
  BY <1>1, <1>2, <1>3 DEF Typed, Addresses
<1>6. Typed'
  BY <1>1, <1>2, <1>4, <1>5 DEF Typed, Addresses
<1>7. \A u \in Threads : At(u, "idle")' /\ Mine(u)' = tls'[u] /\ Id(u)' = Pid
  BY <1>2, <1>3 DEF At, Mine, Entering, Id
<1>8. Phases' /\ Mutex'
  BY <1>1, <1>2, <1>5, <1>7 DEF Phases, Mutex, At, Inside
<1>9. Owned'
  <2>1. \A u \in Threads : Placed(u)'
    <3> SUFFICES ASSUME NEW u \in Threads PROVE Placed(u)'
      OBVIOUS
    <3>1. call'[u].pc = "idle" /\ Mine(u)' = tls'[u] /\ Id(u)' = Pid
      BY <1>7 DEF At
    <3>2. Counted(u, {}, 0)'
      BY <1>2, <1>3, IInvFacts DEF Placed, At, Counted
    <3>3. Mine(u)' # NoDesc => Mine(u)' = d
      BY <1>5, <3>1
    <3> QED
      BY <1>4, <3>1, <3>2, <3>3 DEF Placed, Entering, Leaving
  <2>2. \A u, v \in Threads : Mine(u)' = Mine(v)' /\ Mine(u)' # NoDesc => u = v
    BY <1>5, <1>7
  <2>3. \A e \in Descs : heap'[e].live => \E u \in Threads : Mine(u)' = e
    BY <1>3, <1>4, <1>5, <1>7
  <2> QED
    BY <2>1, <2>2, <2>3 DEF Owned
<1>10. Ring' = {d}
  BY <1>2, <1>5, <1>7 DEF Ring, Listed, At
<1>11. Circle(heap', Ring') /\ Headed'
  BY <1>1, <1>4, <1>10, CircleOne DEF Headed
<1>12. \A u \in Threads : Prepared(u)' /\ Walking(u)'
  BY <1>7 DEF Prepared, Walking, At
<1> QED
  BY <1>6, <1>8, <1>9, <1>11, <1>12 DEF IInv

(* The list is the descriptor of the caller, so that the function is set,  *)
(* and the descriptor gets the id the function returns.                    *)
LEMMA ThreadInitStep ==
  ASSUME Orderly, IInv, NEW t \in Threads, ThreadInit(t)
  PROVE  IInv'
<1>1. /\ Typed /\ Phases /\ Owned /\ Circle(heap, Ring) /\ Headed
      /\ level = "inited" /\ level' = "threads" /\ tls[t] = head /\ head # NoDesc
      /\ UNCHANGED <<lock, head, tls, sets, call>>
  BY IInvFacts DEF ThreadInit, Orderly
<1>2. /\ head \in Ring /\ head \in Descs /\ Ring = {head} /\ heap[head].next = head
      /\ lock = NoThread /\ \A u \in Threads : u # NoThread
      /\ \A u \in Threads : At(u, "idle") /\ Mine(u) = tls[u]
  BY <1>1, BeforeThreads, RingFacts, ThreadsAssumption
<1>3. threaded' = TRUE /\ heap' = [heap EXCEPT ![head].id = t]
  BY <1>2 DEF ThreadInit
<1>4. \A u \in Threads \ {t} : tls[u] = NoDesc
  BY <1>1, <1>2 DEF Owned, Phases
<1>5. /\ heap' \in [Descs -> Descriptors] /\ heap'[head].live /\ heap'[head].id = t
      /\ heap'[head].next = head /\ \A e \in Descs \ {head} : heap'[e] = heap[e]
  <2>1. heap[head] \in Descriptors /\ heap[head].live
    BY <1>1, <1>2, RingFacts DEF Typed
  <2>2. /\ [heap[head] EXCEPT !.id = t] \in Descriptors
        /\ [heap[head] EXCEPT !.id = t].live /\ [heap[head] EXCEPT !.id = t].id = t
        /\ [heap[head] EXCEPT !.id = t].next = heap[head].next
    BY <2>1 DEF Descriptors
  <2>3. heap' = [heap EXCEPT ![head] = [heap[head] EXCEPT !.id = t]]
    BY <1>2, <1>3
  <2> QED
    BY <1>1, <1>2, <2>2, <2>3 DEF Typed
<1>6. Typed'
  BY <1>1, <1>3, <1>5 DEF Typed
<1>7. \A u \in Threads : At(u, "idle")' /\ Mine(u)' = Mine(u) /\ Id(u)' = u
  BY <1>1, <1>2, <1>3 DEF At, Mine, Entering, Id
<1>8. Phases' /\ Mutex'
  BY <1>1, <1>2, <1>3, <1>7 DEF Phases, Mutex, At, Inside
<1>9. Owned'
  <2>1. \A u \in Threads : Placed(u)'
    <3> SUFFICES ASSUME NEW u \in Threads PROVE Placed(u)'
      OBVIOUS
    <3>1. call'[u].pc = "idle" /\ Mine(u)' = tls[u] /\ Id(u)' = u
      BY <1>2, <1>7 DEF At
    <3>2. Counted(u, {}, 0)'
      BY <1>1, <1>2, IInvFacts DEF Placed, At, Counted
    <3>3. Mine(u)' # NoDesc => u = t /\ Mine(u)' = head
      BY <1>1, <1>4, <3>1
    <3> QED
      BY <1>5, <3>1, <3>2, <3>3 DEF Placed, Entering, Leaving
  <2>2. \A u, v \in Threads : Mine(u)' = Mine(v)' /\ Mine(u)' # NoDesc => u = v
    BY <1>1, <1>7 DEF Owned
  <2>3. \A e \in Descs : heap'[e].live => \E u \in Threads : Mine(u)' = e
    BY <1>1, <1>2, <1>5, <1>7 DEF Owned
  <2> QED
    BY <2>1, <2>2, <2>3 DEF Owned
<1>10. Ring' = {head}
  <2>1. \A u \in Threads : (Listed(u)' <=> Listed(u)) /\ Mine(u)' = Mine(u)
    BY <1>1, <1>7 DEF Listed
  <2> QED
    BY <1>2, <2>1 DEF Ring
<1>11. Circle(heap', Ring') /\ Headed'
  BY <1>1, <1>5, <1>10, CircleOne DEF Headed
<1>12. \A u \in Threads : Prepared(u)' /\ Walking(u)'
  BY <1>7 DEF Prepared, Walking, At
<1> QED
  BY <1>6, <1>8, <1>9, <1>11, <1>12 DEF IInv

(* When the others have unregistered, the caller is alone in the list.     *)
LEMMA ShutdownFacts ==
  ASSUME Orderly, IInv, NEW t \in Threads, Shutdown(t)
  PROVE  /\ \A u \in Threads : At(u, "idle") /\ (u # t => tls[u] = NoDesc)
         /\ \A d \in Descs : heap[d].live => d = tls[t] /\ d \in Orbit(head)
         /\ tls[t] \in Orbit(head) \cup {NoDesc}
<1>1. /\ Typed /\ Owned /\ lock = NoThread
      /\ \A u \in Threads : At(u, "idle") /\ (u # t => tls[u] = NoDesc)
  BY IInvFacts DEF Shutdown, Orderly
<1>2. /\ \A u \in Threads : Mine(u) = tls[u]
      /\ \A u \in Threads : Listed(u) <=> tls[u] # NoDesc
  BY <1>1 DEF Mine, Listed, At, Entering
<1>3. \A d \in Descs : heap[d].live => d = tls[t]
  BY <1>1, <1>2, DescsAssumption DEF Owned
<1>4. tls[t] # NoDesc => tls[t] \in Orbit(head)
  <2> SUFFICES ASSUME tls[t] # NoDesc PROVE tls[t] \in Orbit(head)
    OBVIOUS
  <2>1. tls[t] \in Ring
    BY <1>1, <1>2, RingFacts
  <2>2. head \in Ring \/ (head = NoDesc /\ Ring = {})
    BY <1>1, HeadAtRest
  <2> QED
    BY <2>1, <2>2, OrbitRing
<1> QED
  BY <1>1, <1>3, <1>4, DescsAssumption

LEMMA ShutdownStep ==
  ASSUME Orderly, IInv, NEW t \in Threads, Shutdown(t)
  PROVE  IInv'
<1>1. /\ Typed /\ lock = NoThread
      /\ \A u \in Threads : At(u, "idle") /\ (u # t => tls[u] = NoDesc)
      /\ \A d \in Descs : heap[d].live => d = tls[t] /\ d \in Orbit(head)
      /\ \A u \in Threads : u # NoThread
  BY IInvFacts, ShutdownFacts, ThreadsAssumption DEF Shutdown
<1>2. /\ heap' = (IF tls[t] = NoDesc THEN heap
                  ELSE [d \in Descs |-> IF d \in Orbit(head) THEN Cleared ELSE heap[d]])
      /\ tls' = [tls EXCEPT ![t] = NoDesc]
      /\ head' = NoDesc /\ threaded' = FALSE /\ level' = "none"
      /\ sets' = [e \in Sets |-> NoSet] /\ UNCHANGED <<lock, call>>
  BY ShutdownFacts DEF Shutdown
<1>3. tls' \in [Threads -> Addresses] /\ \A u \in Threads : tls'[u] = NoDesc
  BY <1>1, <1>2 DEF Typed, Addresses
<1>4. heap' \in [Descs -> Descriptors] /\ \A d \in Descs : ~heap'[d].live
  <2>1. CASE tls[t] = NoDesc
    BY <1>1, <1>2, <2>1, DescsAssumption DEF Typed
  <2>2. CASE tls[t] # NoDesc
    <3>1. Cleared \in Descriptors /\ ~Cleared.live
      BY DEF Cleared, Descriptors, Addresses
    <3>2. /\ heap' \in [Descs -> Descriptors]
          /\ \A d \in Descs : heap'[d] = IF d \in Orbit(head) THEN Cleared ELSE heap[d]
      BY <1>1, <1>2, <2>2, <3>1 DEF Typed
    <3> QED
      BY <1>1, <3>1, <3>2
  <2> QED
    BY <2>1, <2>2
<1>5. sets' \in [Sets -> [master : Addresses, by : Threads \cup {NoThread}]]
  <2>1. NoSet \in [master : Addresses, by : Threads \cup {NoThread}]
    BY DEF NoSet, Addresses
  <2> QED
    BY <1>2, <2>1
<1>6. Typed'
  BY <1>1, <1>2, <1>3, <1>4, <1>5 DEF Typed, Addresses
<1>7. \A u \in Threads : At(u, "idle")' /\ Mine(u)' = NoDesc
  BY <1>1, <1>2, <1>3 DEF At, Mine, Entering
<1>8. Phases' /\ Mutex'
  BY <1>1, <1>2, <1>3, <1>7 DEF Phases, Mutex, At, Inside
<1>9. \A u \in Threads : Placed(u)'
  BY <1>1, <1>2, <1>7, IInvFacts DEF Placed, At, Counted, Entering, Leaving
<1>10. Owned'
  BY <1>4, <1>7, <1>9 DEF Owned
<1>11. Ring' = {}
  BY <1>7 DEF Ring, Listed
<1>12. Circle(heap', Ring') /\ Headed'
  BY <1>2, <1>11, CircleEmpty DEF Headed
<1>13. \A u \in Threads : Prepared(u)' /\ Walking(u)'
  BY <1>7 DEF Prepared, Walking, At
<1> QED
  BY <1>6, <1>8, <1>10, <1>12, <1>13 DEF IInv

-----------------------------------------------------------------------------
(***************************************************************************)
(* The invariant.                                                          *)
(***************************************************************************)

LEMMA InitIInv == Init => IInv
<1> SUFFICES ASSUME Init PROVE IInv
  OBVIOUS
<1>1. Typed
  BY DEF Init, Typed, Idle, Cleared, NoSet, Calls, Places, Addresses, Descriptors
<1>2. \A t \in Threads : /\ call[t] = Idle /\ At(t, "idle") /\ tls[t] = NoDesc
                         /\ Mine(t) = NoDesc /\ t # NoThread
  BY ThreadsAssumption DEF Init, Idle, At, Mine, Entering
<1>3. Phases /\ Mutex
  BY <1>2 DEF Init, Phases, Mutex, At, Inside
<1>4. Owned
  BY <1>2 DEF Init, Owned, Placed, Counted, Idle, Entering, Leaving, Cleared
<1>5. Ring = {}
  BY <1>2 DEF Ring, Listed
<1>6. Circle(heap, Ring) /\ Headed
  BY <1>5, CircleEmpty DEF Headed, Init
<1>7. \A t \in Threads : Prepared(t) /\ Walking(t)
  BY <1>2 DEF Prepared, Walking, At
<1> QED
  BY <1>1, <1>3, <1>4, <1>6, <1>7 DEF IInv

LEMMA StepIInv == ASSUME Orderly, IInv, Next PROVE IInv'
<1> PICK t \in Threads :
      \/ LibraryInit(t) \/ ThreadInit(t) \/ Register(t) \/ Unregister(t)
      \/ List(t) \/ CreateSet(t) \/ DestroySet(t) \/ Shutdown(t) \/ Step(t)
  BY DEF Next
<1>1. CASE LibraryInit(t)
  BY <1>1, LibraryInitStep
<1>2. CASE ThreadInit(t)
  BY <1>2, ThreadInitStep
<1>3. CASE Register(t)
  BY <1>3, RegisterStep
<1>4. CASE Unregister(t)
  BY <1>4, UnregisterStep
<1>5. CASE List(t)
  BY <1>5, ListStep
<1>6. CASE CreateSet(t) \/ DestroySet(t)
  BY <1>6, SetStep
<1>7. CASE Shutdown(t)
  BY <1>7, ShutdownStep
<1>8. CASE Step(t)
  BY <1>8, InsertStep, HookStep, LeadStep, OwnStep, LookupStep, DropSetsStep, RemoveStep,
     UnlinkStep, AdvanceStep, DiscardStep, WalkStep DEF Step
<1> QED
  BY <1>1, <1>2, <1>3, <1>4, <1>5, <1>6, <1>7, <1>8

LEMMA StutterIInv == ASSUME IInv, UNCHANGED vars PROVE IInv'
<1> USE DEF vars
<1>1. \A t \in Threads : /\ Mine(t)' = Mine(t) /\ (Listed(t)' <=> Listed(t))
                         /\ Id(t)' = Id(t)
  BY DEF Mine, Listed, Id
<1>2. Ring' = Ring
  BY <1>1 DEF Ring
<1>3. Typed' /\ Phases' /\ Mutex' /\ Headed' /\ Circle(heap', Ring')
  BY <1>2, IInvFacts DEF Typed, Phases, Mutex, Headed, At
<1>4. Owned'
  BY <1>1, IInvFacts DEF Owned, Placed, Counted
<1>5. \A t \in Threads : Prepared(t)'
  BY <1>2, IInvFacts DEF Prepared, At
<1>6. \A t \in Threads : Walking(t)'
  <2>1. \A V, d, t : Seen(V, d, t)' <=> Seen(V, d, t)
    BY DEF Seen
  <2>2. \A t \in Threads : Full(t, call[t].num)' <=> Full(t, call[t].num)
    BY DEF Full
  <2> QED
    BY <1>2, <2>1, <2>2, IInvFacts DEF Walking, At, Counted
<1> QED
  BY <1>3, <1>4, <1>5, <1>6 DEF IInv

(* In a program that keeps to both rules, the list is one circle of the    *)
(* registered threads, whatever the order in which threads register, look  *)
(* up, list and unregister.                                                *)
THEOREM ThreadListInvariant == ASSUME Orderly PROVE Spec => []IInv
<1>1. IInv /\ [Next]_vars => IInv'
  BY StepIInv, StutterIInv
<1> QED
  BY <1>1, InitIInv, PTL DEF Spec

-----------------------------------------------------------------------------
(***************************************************************************)
(* What the invariant says.                                                *)
(***************************************************************************)

LEMMA IInvTypeOK == ASSUME IInv PROVE TypeOK
<1>1. Typed
  BY IInvFacts
<1>2. ASSUME NEW t \in Threads PROVE call[t].num <= Cardinality(Descs)
  <2>1. Cardinality(Descs) \in Nat
    BY DescsAssumption, FS_CardinalityType
  <2>2. CASE Counted(t, {}, 0)
    BY <2>1, <2>2 DEF Counted
  <2>3. CASE ~Counted(t, {}, 0)
    <3>1. PICK V \in SUBSET Ring : call[t].num = Cardinality(V)
      BY <2>3, IInvFacts DEF Placed, Walking, Seen, At
    <3>2. V \in SUBSET Descs
      BY DEF Ring
    <3> QED
      BY <3>1, <3>2, DescsAssumption, FS_Subset
  <2> QED
    BY <2>2, <2>3
<1>3. ASSUME NEW t \in Threads
      PROVE  call[t].pc \in Places /\ {call[t].desc, call[t].prev} \subseteq Addresses
  BY <1>1, CallFields
<1> QED
  BY <1>1, <1>2, <1>3 DEF Typed, TypeOK, Descriptors, Addresses

LEMMA IInvTLSLive == ASSUME IInv PROVE TLSLive
<1>1. ASSUME NEW t \in Threads, tls[t] # NoDesc PROVE Mine(t) = tls[t]
  BY <1>1, IInvFacts DEF Placed, Mine
<1>2. ASSUME NEW t \in Threads, tls[t] # NoDesc PROVE heap[tls[t]].live
  BY <1>1, <1>2, IInvFacts DEF Placed
<1>3. ASSUME NEW t \in Threads, tls[t] # NoDesc, NEW u \in Threads, tls[u] = tls[t]
      PROVE  u = t
  BY <1>1, <1>3, IInvFacts DEF Owned
<1> QED
  BY <1>2, <1>3 DEF TLSLive

(* What ought to be in the list is in it, but for what is just written.    *)
LEMMA LinkedRing ==
  ASSUME IInv, \A t \in Threads : call[t].pc \notin {"hook", "lead", "advance"}
  PROVE  Linked = Ring
<1>1. Typed /\ Owned /\ \A t \in Threads : Placed(t)
  BY IInvFacts
<1>2. ASSUME NEW t \in Threads, call[t].pc \in {"insert", "discard"}
      PROVE  call[t].desc = Mine(t) /\ ~Listed(t)
  BY <1>1, <1>2 DEF Placed, Mine, Listed, Entering, Leaving
<1>3. ASSUME NEW d \in Linked PROVE d \in Ring
  <2>1. PICK t \in Threads : Mine(t) = d
    BY <1>1 DEF Linked, Owned
  <2>2. d \in Descs /\ d # NoDesc
    BY DescsAssumption DEF Linked
  <2>3. call[t].pc \notin {"insert", "hook", "advance", "discard"}
    BY <1>2, <2>1 DEF Linked
  <2> QED
    BY <2>1, <2>2, <2>3 DEF Ring, Listed
<1>4. ASSUME NEW d \in Ring PROVE d \in Linked
  <2>1. d \in Descs /\ heap[d].live
    BY <1>1, RingFacts
  <2>2. ASSUME NEW t \in Threads, call[t].desc = d
        PROVE  call[t].pc \notin {"insert", "hook", "lead", "discard"}
    BY <1>1, <1>2, <2>2, RingFacts
  <2> QED
    BY <2>1, <2>2 DEF Linked
<1> QED
  BY <1>3, <1>4

LEMMA IInvListIntact == ASSUME IInv PROVE ListIntact
<1> SUFFICES ASSUME \A t \in Threads : call[t].pc \notin {"hook", "lead", "unlink", "advance"}
             PROVE  /\ Orbit(head) = Linked
                    /\ \A d \in Linked : Orbit(d) = Linked /\ heap[d].next \in Descs
  BY DEF ListIntact
<1>1. Linked = Ring
  BY LinkedRing
<1>2. head \in Ring \/ (head = NoDesc /\ Ring = {})
  BY IInvFacts DEF Headed, At
<1>3. Orbit(head) = Ring
  BY <1>2, OrbitRing
<1>4. /\ Ring \in SUBSET Descs /\ Circle(heap, Ring)
      /\ \A d \in Ring : heap[d].next \in Ring
  BY IInvFacts, RingFacts DEF Circle
<1>5. \A d \in Ring : Orbit(d) = Ring
  BY <1>4, OrbitCircle
<1> QED
  BY <1>1, <1>3, <1>4, <1>5

LEMMA IInvWalkersSafe == ASSUME IInv PROVE WalkersSafe
<1> SUFFICES ASSUME NEW t \in Threads, At(t, "walk") \/ At(t, "unlink")
             PROVE  /\ At(t, "walk") /\ call[t].desc # NoDesc => call[t].desc \in Linked
                    /\ At(t, "unlink") => {call[t].prev, call[t].desc} \subseteq Linked
  BY DEF WalkersSafe
<1>1. \A u \in Threads : call[u].pc \notin {"hook", "lead", "advance"}
  BY IInvFacts DEF Mutex, At, Inside
<1>2. Linked = Ring
  BY <1>1, LinkedRing
<1>3. At(t, "unlink") => call[t].desc \in Ring
  <2> SUFFICES ASSUME At(t, "unlink") PROVE call[t].desc \in Ring
    OBVIOUS
  <2>1. call[t].desc = Mine(t) /\ Listed(t)
    BY IInvFacts DEF Placed, At, Leaving, Entering, Mine, Listed
  <2> QED
    BY <2>1, IInvFacts, RingFacts
<1> QED
  BY <1>2, <1>3, IInvFacts DEF Walking, Prepared

(* Every variable has its type; no listing counts more threads than there  *)
(* are descriptors (threads.c, _papi_hwi_gather_all_thrspec_data and       *)
(* PAPI_list_threads).                                                     *)
THEOREM ThreadListTypeCorrect == ASSUME Orderly PROVE Spec => []TypeOK
BY ThreadListInvariant, IInvTypeOK, PTL

(* The thread-local pointer leads to a descriptor that is live and nobody  *)
(* else's.                                                                 *)
THEOREM ThreadListTLSLive == ASSUME Orderly PROVE Spec => []TLSLive
BY ThreadListInvariant, IInvTLSLive, PTL

(* Whenever nobody is changing it, the list is one circle of exactly the   *)
(* registered threads: insert_thread, remove_thread and the lookups that   *)
(* move the head lose nobody.                                              *)
THEOREM ThreadListIntact == ASSUME Orderly PROVE Spec => []ListIntact
BY ThreadListInvariant, IInvListIntact, PTL

(* A thread in PAPI_list_threads or remove_thread stands on descriptors    *)
(* that are live and in the list.                                          *)
THEOREM ThreadListWalkersSafe == ASSUME Orderly PROVE Spec => []WalkersSafe
BY ThreadListInvariant, IInvWalkersSafe, PTL

-----------------------------------------------------------------------------
(***************************************************************************)
(* Where each action takes the call of its thread.                         *)
(***************************************************************************)
Moves(t, from, to) ==
  /\ call[t].pc = from /\ call'[t].pc = to
  /\ \A u \in Threads \ {t} : call'[u] = call[u]

LEMMA Begins ==
  ASSUME Typed, NEW t \in Threads
  PROVE  /\ Register(t) => Moves(t, "idle", "insert")
         /\ Unregister(t) => Moves(t, "idle", "lookup")
         /\ List(t) => Moves(t, "idle", "walk")
<1>1. Register(t) => Moves(t, "idle", "insert")
  <2> SUFFICES ASSUME Register(t) PROVE Moves(t, "idle", "insert")
    OBVIOUS
  <2>1. PICK d : call' = [call EXCEPT ![t].pc = "insert", ![t].desc = d]
    BY DEF Register
  <2>2. call[t].pc = "idle"
    BY DEF Register, Allowed, At
  <2> QED
    BY <2>1, <2>2, PlaceMoves DEF Moves
<1>2. Unregister(t) => Moves(t, "idle", "lookup")
  BY PlaceMoves DEF Unregister, Allowed, At, Moves
<1>3. List(t) => Moves(t, "idle", "walk")
  <2> SUFFICES ASSUME List(t) PROVE Moves(t, "idle", "walk")
    OBVIOUS
  <2>1. PICK n : call' = [call EXCEPT ![t].pc = "walk", ![t].desc = head, ![t].room = n]
    BY DEF List
  <2>2. call[t].pc = "idle"
    BY DEF List, Allowed, At
  <2> QED
    BY <2>1, <2>2, PlaceMoves DEF Moves
<1> QED
  BY <1>1, <1>2, <1>3

LEMMA Enters ==
  ASSUME Typed, NEW t \in Threads
  PROVE  /\ Insert(t) => Moves(t, "insert", "hook")
         /\ Hook(t) => Moves(t, "hook", "lead")
         /\ Lead(t) => Moves(t, "lead", "own")
         /\ Own(t) => Moves(t, "own", "idle")
<1>1. Insert(t) => Moves(t, "insert", "hook")
  BY PlaceMoves DEF Insert, At, Goto, Moves
<1>2. Hook(t) => Moves(t, "hook", "lead")
  BY PlaceMoves DEF Hook, At, Goto, Moves
<1>3. Lead(t) => Moves(t, "lead", "own")
  BY PlaceMoves DEF Lead, At, Goto, Moves
<1>4. Own(t) => Moves(t, "own", "idle")
  BY ReturnFacts DEF Own, At, Moves
<1> QED
  BY <1>1, <1>2, <1>3, <1>4

LEMMA Leaves ==
  ASSUME Typed, NEW t \in Threads
  PROVE  /\ Lookup(t) => Moves(t, "lookup", "drop")
         /\ DropSets(t) => Moves(t, "drop", "remove")
         /\ Remove(t) => Moves(t, "remove", "unlink") \/ Moves(t, "remove", "astray")
         /\ Unlink(t) => Moves(t, "unlink", "advance")
         /\ Advance(t) => Moves(t, "advance", "discard")
         /\ Discard(t) => Moves(t, "discard", "idle")
<1>1. Lookup(t) => Moves(t, "lookup", "drop")
  <2> SUFFICES ASSUME Lookup(t) PROVE Moves(t, "lookup", "drop")
    OBVIOUS
  <2>1. call[t].pc = "lookup"
    BY DEF Lookup, At
  <2>2. PICK d : call' = [call EXCEPT ![t].pc = "drop", ![t].desc = d]
    BY DEF Lookup
  <2> QED
    BY <2>1, <2>2, PlaceMoves DEF Moves
<1>2. DropSets(t) => Moves(t, "drop", "remove")
  <2> SUFFICES ASSUME DropSets(t) PROVE Moves(t, "drop", "remove")
    OBVIOUS
  <2>1. call[t].pc = "drop"
        /\ call' = [call EXCEPT ![t].pc = "remove", ![t].desc = tls[t]]
    BY DEF DropSets, At
  <2> QED
    BY <2>1, PlaceMoves DEF Moves
<1>3. Remove(t) => Moves(t, "remove", "unlink") \/ Moves(t, "remove", "astray")
  <2> SUFFICES ASSUME Remove(t)
               PROVE  Moves(t, "remove", "unlink") \/ Moves(t, "remove", "astray")
    OBVIOUS
  <2>1. call[t].pc = "remove"
    BY DEF Remove, At
  <2>2. CASE Goto(t, "astray")
    BY <2>1, <2>2, PlaceMoves DEF Goto, Moves
  <2>3. CASE ~Goto(t, "astray")
    <3>1. PICK p : call' = [call EXCEPT ![t].pc = "unlink", ![t].prev = p]
      BY <2>3 DEF Remove
    <3> QED
      BY <2>1, <3>1, PlaceMoves DEF Moves
  <2> QED
    BY <2>2, <2>3
<1>4. Unlink(t) => Moves(t, "unlink", "advance")
  BY PlaceMoves DEF Unlink, At, Goto, Moves
<1>5. Advance(t) => Moves(t, "advance", "discard")
  BY PlaceMoves DEF Advance, At, Goto, Moves
<1>6. Discard(t) => Moves(t, "discard", "idle")
  BY ReturnFacts DEF Discard, At, Moves
<1> QED
  BY <1>1, <1>2, <1>3, <1>4, <1>5, <1>6

LEMMA Walks ==
  ASSUME Typed, NEW t \in Threads, Walk(t)
  PROVE  Moves(t, "walk", "walk") \/ Moves(t, "walk", "idle")
<1> DEFINE d == call[t].desc
           n == heap[d].next
           i == IF d = NoDesc THEN {} ELSE call[t].ids \cup {heap[d].id}
           m == IF d = NoDesc THEN 0 ELSE call[t].num + 1
<1>1. /\ call[t] \in Calls /\ call \in [Threads -> Calls] /\ call[t].pc = "walk"
      /\ \/ Return(t)
         \/ call' = [call EXCEPT ![t].desc = n, ![t].ids = i, ![t].num = m]
  BY CallFields DEF Typed, Walk, At
<1> HIDE DEF d, n, i, m
<1>2. CASE Return(t)
  BY <1>1, <1>2, ReturnFacts DEF Moves
<1>3. CASE call' = [call EXCEPT ![t].desc = n, ![t].ids = i, ![t].num = m]
  <2>1. [call[t] EXCEPT !.desc = n, !.ids = i, !.num = m].pc = call[t].pc
    BY <1>1 DEF Calls
  <2>2. call' = [call EXCEPT ![t] = [call[t] EXCEPT !.desc = n, !.ids = i, !.num = m]]
    BY <1>1, <1>3
  <2> QED
    BY <1>1, <2>1, <2>2 DEF Moves
<1> QED
  BY <1>1, <1>2, <1>3

-----------------------------------------------------------------------------
(***************************************************************************)
(* The event sets of a thread go when it unregisters.                      *)
(***************************************************************************)

LEMMA SetsInvFacts ==
  ASSUME SetsInv, NEW e \in Sets, sets[e].by \in Fits
  PROVE  /\ sets[e].master = tls[sets[e].by] /\ sets[e].master # NoDesc
         /\ call[sets[e].by].pc \notin Dropped
BY DEF SetsInv

(* free_eventsets finds the caller, and nobody else: the ids of the        *)
(* descriptors in the list are those of their threads.                     *)
LEMMA FoundSelf ==
  ASSUME Orderly, IInv, NEW t \in Fits, At(t, "lookup"), lock = NoThread
  PROVE  Found(t) = {tls[t]} /\ Casts(t) = {Id(t)}
<1>1. /\ t \in Threads /\ threaded /\ \A u \in Threads : Id(u) = u
      /\ Typed /\ Owned /\ \A u \in Threads : Placed(u)
  BY FitsAssumption, Threaded, IInvFacts DEF At
<1>2. Orbit(head) = Ring
  BY <1>1, HeadAtRest, OrbitRing
<1>3. tls[t] \in Ring /\ heap[tls[t]].id = t
  <2>1. Mine(t) = tls[t] /\ Listed(t)
    BY <1>1 DEF Placed, At, Mine, Listed, Entering, Leaving
  <2> QED
    BY <1>1, <2>1, RingFacts DEF Placed, Listed
<1>4. ASSUME NEW d \in Ring, heap[d].id = t PROVE d = tls[t]
  <2>1. PICK u \in Threads : Mine(u) = d /\ Listed(u)
    BY DEF Ring
  <2>2. u = t
    BY <1>1, <1>4, <2>1 DEF Placed, Listed
  <2> QED
    BY <1>1, <2>1, <2>2 DEF Mine, At, Entering
<1> QED
  BY <1>1, <1>2, <1>3, <1>4 DEF Found, Casts

(* A step that leaves the sets and the pointers alone, and does not let a  *)
(* call skip the freeing of the sets.                                      *)
LEMMA SetsStay ==
  ASSUME SetsInv, UNCHANGED <<sets, tls>>, NEW t \in Threads,
         \A u \in Threads \ {t} : call'[u] = call[u],
         call'[t].pc \in Dropped => call[t].pc \in Dropped,
         t \in Fits /\ call'[t].pc = "drop" => call'[t].desc = tls[t]
  PROVE  SetsInv'
<1>1. ASSUME NEW e \in Sets, sets[e].by \in Fits
      PROVE  /\ sets[e].master = tls[sets[e].by] /\ sets[e].master # NoDesc
             /\ call'[sets[e].by].pc \notin Dropped
  BY <1>1, SetsInvFacts, FitsAssumption
<1>2. ASSUME NEW u \in Fits, call'[u].pc = "drop" PROVE call'[u].desc = tls[u]
  BY <1>2, FitsAssumption DEF SetsInv, At
<1> QED
  BY <1>1, <1>2 DEF SetsInv, At

LEMMA SetsInitStep ==
  ASSUME IInv, SetsInv, NEW t \in Threads, LibraryInit(t)
  PROVE  SetsInv'
<1>1. /\ \A u \in Threads : tls[u] = NoDesc /\ At(u, "idle")
      /\ UNCHANGED <<sets, call>>
  BY IInvFacts, BeforeThreads DEF Phases, LibraryInit
<1>2. \A e \in Sets : sets[e].by \notin Fits
  BY <1>1, SetsInvFacts, FitsAssumption
<1> QED
  BY <1>1, <1>2, FitsAssumption DEF SetsInv, At

LEMMA SetsCreateStep ==
  ASSUME IInv, SetsInv, NEW t \in Threads, CreateSet(t)
  PROVE  SetsInv'
<1>1. PICK e \in Sets : sets' = [sets EXCEPT ![e] = [master |-> tls[t], by |-> t]]
  BY DEF CreateSet
<1>2. /\ At(t, "idle") /\ tls[t] # NoDesc /\ UNCHANGED <<tls, call>>
      /\ sets'[e].master = tls[t] /\ sets'[e].by = t
      /\ \A f \in Sets \ {e} : sets'[f] = sets[f]
  BY <1>1, IInvFacts DEF Typed, CreateSet, Allowed
<1>3. ASSUME NEW f \in Sets, sets'[f].by \in Fits
      PROVE  /\ sets'[f].master = tls[sets'[f].by] /\ sets'[f].master # NoDesc
             /\ call[sets'[f].by].pc \notin Dropped
  <2>1. CASE f = e
    BY <1>2, <2>1 DEF At, Dropped
  <2>2. CASE f # e
    BY <1>2, <1>3, <2>2, SetsInvFacts
  <2> QED
    BY <2>1, <2>2
<1> QED
  BY <1>2, <1>3 DEF SetsInv, At

(* A step after which every set is what it was or free.                    *)
LEMMA SetsFreed ==
  ASSUME SetsInv, NEW t \in Threads,
         \A e \in Sets : sets'[e] = NoSet \/ sets'[e] = sets[e],
         \A e \in Sets : sets'[e] # NoSet /\ sets[e].by = t /\ t \in Fits =>
                           tls'[t] = tls[t] /\ call'[t].pc \notin Dropped,
         \A u \in Threads \ {t} : call'[u] = call[u] /\ tls'[u] = tls[u],
         call'[t].pc # "drop"
  PROVE  SetsInv'
<1>1. NoSet.by \notin Fits
  BY ThreadsAssumption, FitsAssumption DEF NoSet
<1>2. ASSUME NEW e \in Sets, sets'[e].by \in Fits
      PROVE  /\ sets'[e].master = tls'[sets'[e].by] /\ sets'[e].master # NoDesc
             /\ call'[sets'[e].by].pc \notin Dropped
  <2>1. sets'[e] = sets[e] /\ sets'[e] # NoSet
    BY <1>1, <1>2
  <2>2. CASE sets[e].by = t
    BY <1>2, <2>1, <2>2, SetsInvFacts
  <2>3. CASE sets[e].by # t
    BY <1>2, <2>1, <2>3, SetsInvFacts, FitsAssumption
  <2> QED
    BY <2>2, <2>3
<1>3. ASSUME NEW u \in Fits, call'[u].pc = "drop" PROVE call'[u].desc = tls'[u]
  BY <1>3, FitsAssumption DEF SetsInv, At
<1> QED
  BY <1>2, <1>3 DEF SetsInv, At

LEMMA SetsDestroyStep ==
  ASSUME IInv, SetsInv, NEW t \in Threads, DestroySet(t)
  PROVE  SetsInv'
<1>1. PICK e \in Sets : sets' = [sets EXCEPT ![e] = NoSet]
  BY DEF DestroySet
<1>2. At(t, "idle") /\ UNCHANGED <<tls, call>>
  BY DEF DestroySet, Allowed
<1>3. \A f \in Sets : sets'[f] = NoSet \/ sets'[f] = sets[f]
  BY <1>1, IInvFacts DEF Typed
<1> QED
  BY <1>2, <1>3, SetsFreed DEF At, Dropped

LEMMA SetsDropStep ==
  ASSUME IInv, SetsInv, NEW t \in Threads, DropSets(t)
  PROVE  SetsInv'
<1>1. /\ At(t, "drop") /\ UNCHANGED tls
      /\ call' = [call EXCEPT ![t].pc = "remove", ![t].desc = tls[t]]
      /\ \A e \in Sets : sets'[e] = IF sets[e].master # NoDesc /\ sets[e].master = call[t].desc
                                      THEN NoSet ELSE sets[e]
  BY DEF DropSets
<1>2. call'[t].pc # "drop" /\ \A u \in Threads \ {t} : call'[u] = call[u]
  BY IInvFacts, Leaves DEF Moves
<1>3. ASSUME NEW e \in Sets, sets[e].by = t, t \in Fits PROVE sets'[e] = NoSet
  BY <1>1, <1>3, SetsInvFacts DEF SetsInv
<1>4. \A e \in Sets : sets'[e] = NoSet \/ sets'[e] = sets[e]
  BY <1>1
<1> QED
  BY <1>1, <1>2, <1>3, <1>4, SetsFreed

(* Own and Discard, in which a thread that has no sets gets or loses its   *)
(* descriptor.                                                             *)
LEMMA SetsPointerStep ==
  ASSUME IInv, SetsInv, NEW t \in Threads, Own(t) \/ Discard(t)
  PROVE  SetsInv'
<1>1. /\ Return(t) /\ UNCHANGED sets /\ Typed
      /\ (At(t, "own") /\ tls[t] = NoDesc) \/ At(t, "discard")
      /\ \A u \in Threads \ {t} : tls'[u] = tls[u]
  BY IInvFacts DEF Own, Discard, Placed, At, Entering, Typed
<1>2. call'[t].pc = "idle" /\ \A u \in Threads \ {t} : call'[u] = call[u]
  BY <1>1, ReturnFacts
<1>3. \A e \in Sets : ~(sets[e].by = t /\ t \in Fits)
  BY <1>1, SetsInvFacts DEF At, Dropped
<1> QED
  BY <1>1, <1>2, <1>3, SetsFreed

LEMMA SetsShutdownStep ==
  ASSUME Orderly, IInv, SetsInv, NEW t \in Threads, Shutdown(t)
  PROVE  SetsInv'
<1>1. /\ \A u \in Threads : At(u, "idle") /\ (u # t => tls[u] = NoDesc)
      /\ tls' = [tls EXCEPT ![t] = NoDesc] /\ UNCHANGED call
      /\ sets' = [e \in Sets |-> NoSet]
  BY ShutdownFacts DEF Shutdown
<1>2. \A u \in Threads \ {t} : tls'[u] = tls[u]
  BY <1>1, IInvFacts DEF Typed
<1> QED
  BY <1>1, <1>2, SetsFreed DEF At

LEMMA SetsLookupStep ==
  ASSUME Orderly, IInv, SetsInv, NEW t \in Threads, Lookup(t)
  PROVE  SetsInv'
<1>1. /\ At(t, "lookup") /\ UNCHANGED <<sets, tls>>
      /\ call \in [Threads -> Calls] /\ call[t] \in Calls
  BY Threaded, IInvFacts, CallFields DEF Lookup, At, Typed
<1>2. PICK d : /\ call' = [call EXCEPT ![t].pc = "drop", ![t].desc = d]
               /\ t \in Fits => d = tls[t]
  <2>1. t \in Fits /\ lock = NoThread => Found(t) = {tls[t]} /\ Casts(t) = {Id(t)}
    BY <1>1, FoundSelf
  <2>2. threaded
    BY <1>1, Threaded DEF At
  <2> QED
    BY <2>1, <2>2 DEF Lookup
<1>3. /\ call'[t].pc = "drop" /\ call'[t].desc = d
      /\ \A u \in Threads \ {t} : call'[u] = call[u]
  <2>1. [call[t] EXCEPT !.pc = "drop", !.desc = d].pc = "drop"
    BY <1>1 DEF Calls
  <2>2. [call[t] EXCEPT !.pc = "drop", !.desc = d].desc = d
    BY <1>1 DEF Calls
  <2>3. call' = [call EXCEPT ![t] = [call[t] EXCEPT !.pc = "drop", !.desc = d]]
    BY <1>1, <1>2
  <2> QED
    BY <1>1, <2>1, <2>2, <2>3
<1> QED
  BY <1>1, <1>2, <1>3, SetsStay DEF Dropped

(* The other steps move the call of one thread, into no place it was not   *)
(* bound for.                                                              *)
LEMMA SetsOtherStep ==
  ASSUME IInv, SetsInv, NEW t \in Threads,
         \/ ThreadInit(t) \/ Register(t) \/ Unregister(t) \/ List(t)
         \/ Insert(t) \/ Hook(t) \/ Lead(t) \/ Remove(t) \/ Unlink(t) \/ Advance(t)
         \/ Walk(t)
  PROVE  SetsInv'
<1>1. /\ UNCHANGED <<sets, tls>> /\ Typed
      /\ call \in [Threads -> Calls] /\ call[t] \in Calls
  BY IInvFacts, CallFields
     DEF Typed, ThreadInit, Register, Unregister, List, Insert, Hook, Lead, Remove,
         Unlink, Advance, Walk
<1>2. /\ \A u \in Threads \ {t} : call'[u] = call[u]
      /\ call'[t].pc # "drop" /\ (call'[t].pc \in Dropped => call[t].pc \in Dropped)
  <2>1. CASE ThreadInit(t)
    BY <2>1 DEF ThreadInit, At, Dropped
  <2>2. CASE Register(t) \/ Unregister(t) \/ List(t)
    BY <1>1, <2>2, Begins DEF Moves, Dropped
  <2>3. CASE Insert(t) \/ Hook(t) \/ Lead(t)
    BY <1>1, <2>3, Enters DEF Moves, Dropped
  <2>4. CASE Remove(t) \/ Unlink(t) \/ Advance(t)
    BY <1>1, <2>4, Leaves DEF Moves, Dropped
  <2>5. CASE Walk(t)
    BY <1>1, <2>5, Walks DEF Moves, Dropped
  <2> QED
    BY <2>1, <2>2, <2>3, <2>4, <2>5
<1> QED
  BY <1>1, <1>2, SetsStay

LEMMA StepSetsInv == ASSUME Orderly, IInv, SetsInv, Next PROVE SetsInv'
BY SetsInitStep, SetsCreateStep, SetsDestroyStep, SetsDropStep, SetsPointerStep,
   SetsShutdownStep, SetsLookupStep, SetsOtherStep DEF Next, Step

(* What an event set of a thread whose id fits an int points to is the     *)
(* thread's own descriptor: PAPI_unregister_thread frees the sets before   *)
(* the descriptor, and no set is left for the next thread at its address.  *)
THEOREM ThreadListSetsGo == ASSUME Orderly PROVE Spec => []SetsGoWithTheirThread
<1>1. Init => SetsInv
  BY ThreadsAssumption, FitsAssumption DEF Init, SetsInv, NoSet, Idle, At
<1>2. IInv /\ SetsInv /\ [Next]_vars => SetsInv'
  <2>1. ASSUME SetsInv, UNCHANGED vars PROVE SetsInv'
    BY <2>1 DEF SetsInv, vars, At
  <2> QED
    BY <2>1, StepSetsInv
<1>3. SetsInv => SetsGoWithTheirThread
  BY DEF SetsInv, SetsGoWithTheirThread
<1> QED
  BY <1>1, <1>2, <1>3, ThreadListInvariant, PTL DEF Spec

-----------------------------------------------------------------------------
(***************************************************************************)
(* The list implements the set of threads of Registry.                     *)
(***************************************************************************)

(* The registered threads of the refinement.                               *)
Known == {t \in Threads : \/ tls[t] # NoDesc /\ ~At(t, "discard")
                          \/ At(t, "own")}

(* Under the lock, when nothing is half written, they are those of the     *)
(* descriptors in the list, each with one of its own.                      *)
LEMMA KnownRing ==
  ASSUME IInv, threaded, \A u \in Threads : call[u].pc \notin {"hook", "lead", "advance"}
  PROVE  /\ Known = {heap[c].id : c \in Ring}
         /\ \A c, e \in Ring : heap[c].id = heap[e].id => c = e
<1>1. /\ Typed /\ Owned /\ \A u \in Threads : Placed(u) /\ Id(u) = u
      /\ Ring \in SUBSET Descs /\ NoDesc \notin Ring
      /\ \A u \in Threads : Listed(u) <=> Mine(u) \in Ring
  BY IInvFacts, RingFacts DEF Id
<1>2. \A u \in Threads : u \in Known <=> Listed(u)
  <2> SUFFICES ASSUME NEW u \in Threads PROVE u \in Known <=> Listed(u)
    OBVIOUS
  <2>1. CASE call[u].pc \in Entering
    BY <1>1, <2>1 DEF Known, Listed, Placed, Mine, Entering, At
  <2>2. CASE call[u].pc \notin Entering
    BY <1>1, <2>2 DEF Known, Listed, Placed, Mine, Entering, At
  <2> QED
    BY <2>1, <2>2
<1>3. \A u \in Known : u \in Threads /\ Mine(u) \in Ring /\ heap[Mine(u)].id = u
  BY <1>1, <1>2 DEF Known, Placed
<1>4. \A c \in Ring : heap[c].id \in Known /\ Mine(heap[c].id) = c
  <2> SUFFICES ASSUME NEW c \in Ring PROVE heap[c].id \in Known /\ Mine(heap[c].id) = c
    OBVIOUS
  <2>1. PICK u \in Threads : Listed(u) /\ Mine(u) = c
    BY DEF Ring
  <2> QED
    BY <1>2, <1>3, <2>1
<1>5. Known = {heap[c].id : c \in Ring}
  <2>1. \A u \in Known : u \in {heap[c].id : c \in Ring}
    BY <1>3
  <2>2. \A u \in {heap[c].id : c \in Ring} : u \in Known
    BY <1>4
  <2> QED
    BY <2>1, <2>2
<1>6. ASSUME NEW c \in Ring, NEW e \in Ring, heap[c].id = heap[e].id PROVE c = e
  BY <1>4, <1>6
<1> QED
  BY <1>5, <1>6

(* So the ids of some of them are as many threads.                         *)
LEMMA IdsMet ==
  ASSUME IInv, threaded, \A u \in Threads : call[u].pc \notin {"hook", "lead", "advance"},
         NEW V \in SUBSET Ring, NEW ids, ids = {heap[c].id : c \in V}
  PROVE  /\ ids \in SUBSET Known /\ Cardinality(ids) = Cardinality(V)
         /\ V = Ring => ids = Known
<1>1. ids \in SUBSET Known /\ (V = Ring => ids = Known)
  BY KnownRing
<1>2. Cardinality(ids) = Cardinality(V)
  <2> DEFINE f == [c \in V |-> heap[c].id]
  <2>1. f \in [V -> ids] /\ \A c \in V : f[c] = heap[c].id
    OBVIOUS
  <2> HIDE DEF f
  <2>2. f \in Injection(V, ids)
    <3>1. \A c, e \in V : f[c] = f[e] => c = e
      BY <2>1, KnownRing
    <3> QED
      BY <2>1, <3>1, Fun_IsInj
  <2>3. f \in Surjection(V, ids)
    BY <2>1, Fun_IsSurj
  <2>4. ExistsBijection(V, ids)
    BY <2>2, <2>3 DEF ExistsBijection, Bijection
  <2>5. IsFiniteSet(V)
    <3>1. V \in SUBSET Descs
      BY DEF Ring
    <3> QED
      BY <3>1, DescsAssumption, FS_Subset
  <2> QED
    BY <2>4, <2>5, FS_Bijection
<1> QED
  BY <1>1, <1>2

(* What has been seen of a circle, when it leads nowhere else, is all.     *)
LEMMA SeenAll ==
  ASSUME IInv, NEW t \in Threads, NEW d \in Ring, NEW V \in SUBSET Ring,
         Seen(V, d, t), heap[d].next = head
  PROVE  V \cup {d} = Ring
<1>1. V \cup {d} \in SUBSET Ring /\ V \cup {d} # {}
  OBVIOUS
<1>2. \A c \in V \cup {d} : heap[c].next \in V \cup {d}
  BY DEF Seen
<1> QED
  BY <1>1, <1>2, IInvFacts DEF Circle

(* What PAPI_list_threads may tell of the threads that are known to one    *)
(* who has given it an array of this length: how many they are, or as many *)
(* of them as fit.                                                         *)
Answer(room, told) ==
  /\ room \in Rooms /\ told \in SUBSET Known
  /\ room # 0 => Cardinality(told) <= room
  /\ room = 0 \/ Cardinality(told) < room => told = Known
  /\ listed' = [room |-> room, num |-> Cardinality(told),
                ids |-> IF room = 0 THEN {} ELSE told]

(* This it tells when its walk ends.                                       *)
LEMMA WalkLists ==
  ASSUME Orderly, IInv, NEW t \in Threads, Walk(t)
  PROVE  UNCHANGED listed \/ \E room, told : Answer(room, told)
<1> DEFINE d == call[t].desc
           room == call[t].room
<1>1. /\ Walking(t) /\ threaded /\ call[t].pc = "walk" /\ NoDesc \notin Ring
      /\ \A c \in Ring : heap[c].next \in Ring
      /\ room \in Rooms /\ room \in Nat /\ ~Full(t, call[t].num)
  BY IInvFacts, Threaded, RingFacts, RoomsAssumption DEF Walk, Walking, At, Circle
<1>2. \A u \in Threads : call[u].pc \notin {"hook", "lead", "advance"}
  BY <1>1, IInvFacts DEF Mutex, Inside
<1>3. CASE d = NoDesc
  <2>1. head = NoDesc
    BY <1>1, <1>3 DEF Walking, At
  <2>2. Ring = {}
    BY <1>1, <2>1, HeadAtRest DEF Inside
  <2>3. Known = {} /\ Cardinality(Known) = 0
    BY <1>1, <1>2, <2>2, KnownRing, FS_EmptySet
  <2>4. listed' = [room |-> room, num |-> 0, ids |-> {}]
    BY <1>3 DEF Walk
  <2>5. Answer(room, {})
    BY <1>1, <2>3, <2>4 DEF Answer
  <2> QED
    BY <2>5
<1>4. CASE d # NoDesc
  <2>1. d \in Ring /\ heap[d].next # NoDesc
    BY <1>1, <1>4 DEF Walking, At
  <2>2. PICK V \in SUBSET Ring : Seen(V, d, t)
    BY <1>1, <1>4 DEF Walking, At
  <2>3. PICK ids : ids = call[t].ids \cup {heap[d].id}
    OBVIOUS
  <2>4. ids = {heap[c].id : c \in V \cup {d}} /\ call[t].num + 1 = Cardinality(V \cup {d})
    <3>1. \A e \in Ring : e = d =>
            /\ call[t].ids \cup {heap[e].id} = {heap[c].id : c \in V \cup {e}}
            /\ call[t].num + 1 = Cardinality(V \cup {e})
      BY <2>2, CountingOn
    <3> HIDE DEF d
    <3> QED
      BY <2>1, <2>3, <3>1
  <2>5. /\ ids \in SUBSET Known /\ Cardinality(ids) = call[t].num + 1
        /\ heap[d].next = head => ids = Known
    <3>1. V \cup {d} \in SUBSET Ring
      BY <2>1
    <3>2. heap[d].next = head => V \cup {d} = Ring
      BY <2>1, <2>2, SeenAll
    <3> HIDE DEF d
    <3> QED
      BY <1>1, <1>2, <2>4, <3>1, <3>2, IdsMet
  <2>6. CASE heap[d].next # head /\ ~Full(t, call[t].num + 1)
    BY <1>4, <2>1, <2>6 DEF Walk
  <2>7. CASE heap[d].next = head \/ Full(t, call[t].num + 1)
    <3>1. listed' = [room |-> room, num |-> call[t].num + 1,
                     ids |-> IF room = 0 THEN {} ELSE ids]
      BY <1>4, <2>3, <2>7 DEF Walk
    <3>2. call[t].num \in Nat
      BY IInvFacts, CallFields DEF Typed, Calls
    <3>3. room # 0 => call[t].num + 1 <= room
      BY <1>1, <3>2 DEF Full
    <3>4. room = 0 \/ call[t].num + 1 < room => ids = Known
      BY <1>1, <2>5, <2>7, <3>2 DEF Full
    <3>5. Answer(room, ids)
      BY <1>1, <2>5, <3>1, <3>3, <3>4 DEF Answer
    <3> QED
      BY <3>5
  <2> QED
    BY <2>6, <2>7
<1> QED
  BY <1>3, <1>4

(* Only becoming the head, and leaving it, count.                          *)
LEMMA KnownStays ==
  ASSUME NEW t \in Threads, NEW from, NEW to, Moves(t, from, to), UNCHANGED tls,
         {from, to} \cap {"own", "discard"} = {}
  PROVE  UNCHANGED Known
BY DEF Moves, Known, At

(* What a step of the list is to the set.                                  *)
LEMMA AbstractSteps ==
  ASSUME NEW t \in Threads
  PROVE  /\ Known' = Known /\ UNCHANGED listed => UNCHANGED R!vars
         /\ t \notin Known /\ Known' = Known \cup {t} /\ UNCHANGED listed => R!Next
         /\ t \in Known /\ Known' = Known \ {t} /\ UNCHANGED listed => R!Next
         /\ Known' = {} /\ UNCHANGED listed => R!Next
         /\ \A room, told : Known' = Known /\ Answer(room, told) => R!Next
<1>1. Known' = Known /\ UNCHANGED listed => UNCHANGED R!vars
  BY DEF R!vars, Known
<1>2. t \notin Known /\ Known' = Known \cup {t} /\ UNCHANGED listed => R!Register(t)
  BY DEF R!Register, Known
<1>3. t \in Known /\ Known' = Known \ {t} /\ UNCHANGED listed => R!Unregister(t)
  BY DEF R!Unregister, Known
<1>4. Known' = {} /\ UNCHANGED listed => R!Shutdown
  BY DEF R!Shutdown, Known
<1>5. ASSUME NEW room, NEW told, Known' = Known, Answer(room, told)
      PROVE  R!Count \/ R!Fill
  <2>1. R!Cardinality(told) = Cardinality(told)
    BY DEF R!Cardinality, Cardinality
  <2>2. CASE room = 0
    BY <1>5, <2>1, <2>2 DEF R!Count, Answer, Known
  <2>3. CASE room # 0
    <3>1. /\ room \in Rooms \ {0} /\ told \in SUBSET Known /\ Cardinality(told) <= room
          /\ Cardinality(told) < room => told = Known
          /\ listed' = [room |-> room, ids |-> told, num |-> Cardinality(told)]
      BY <1>5, <2>3 DEF Answer
    <3> QED
      BY <1>5, <2>1, <3>1 DEF R!Fill, Known
  <2> QED
    BY <2>2, <2>3
<1> QED
  BY <1>1, <1>2, <1>3, <1>4, <1>5 DEF R!Next

(* The steps that change who is known, or what a thread is known by.       *)
LEMMA KnownMoves ==
  ASSUME Orderly, IInv, NEW t \in Threads
  PROVE  /\ Lead(t) => t \notin Known /\ Known' = Known \cup {t}
         /\ Advance(t) => t \in Known /\ Known' = Known \ {t}
         /\ Own(t) \/ Discard(t) => Known' = Known
         /\ LibraryInit(t) => t \notin Known /\ Known' = Known \cup {t}
         /\ Shutdown(t) => Known' = {}
<1>1. Typed /\ Placed(t)
  BY IInvFacts
<1>2. Lead(t) => t \notin Known /\ Known' = Known \cup {t}
  <2> SUFFICES ASSUME Lead(t) PROVE t \notin Known /\ Known' = Known \cup {t}
    OBVIOUS
  <2>1. Moves(t, "lead", "own") /\ UNCHANGED tls /\ tls[t] = NoDesc
    BY <1>1, Enters DEF Lead, Placed, Entering, Moves
  <2> QED
    BY <2>1 DEF Moves, Known, At
<1>3. Advance(t) => t \in Known /\ Known' = Known \ {t}
  <2> SUFFICES ASSUME Advance(t) PROVE t \in Known /\ Known' = Known \ {t}
    OBVIOUS
  <2>1. Moves(t, "advance", "discard") /\ UNCHANGED tls /\ tls[t] # NoDesc
    BY <1>1, Leaves DEF Advance, Placed, Leaving, Moves
  <2> QED
    BY <2>1 DEF Moves, Known, At
<1>4. Own(t) => Known' = Known
  <2> SUFFICES ASSUME Own(t) PROVE Known' = Known
    OBVIOUS
  <2>1. Moves(t, "own", "idle") /\ tls'[t] # NoDesc /\ \A u \in Threads \ {t} : tls'[u] = tls[u]
    BY <1>1, Enters DEF Own, Placed, Entering, Moves, Typed
  <2> QED
    BY <2>1 DEF Moves, Known, At
<1>5. Discard(t) => Known' = Known
  <2> SUFFICES ASSUME Discard(t) PROVE Known' = Known
    OBVIOUS
  <2>1. /\ Moves(t, "discard", "idle") /\ tls'[t] = NoDesc
        /\ \A u \in Threads \ {t} : tls'[u] = tls[u]
    BY <1>1, Leaves DEF Discard, Typed
  <2> QED
    BY <2>1 DEF Moves, Known, At
<1>6. LibraryInit(t) => t \notin Known /\ Known' = Known \cup {t}
  <2> SUFFICES ASSUME LibraryInit(t) PROVE t \notin Known /\ Known' = Known \cup {t}
    OBVIOUS
  <2>1. /\ \A u \in Threads : tls[u] = NoDesc /\ At(u, "idle")
        /\ UNCHANGED call
    BY IInvFacts, BeforeThreads DEF Phases, LibraryInit
  <2>2. tls'[t] # NoDesc /\ \A u \in Threads \ {t} : tls'[u] = NoDesc
    BY <1>1, <2>1, DescsAssumption DEF LibraryInit, Typed
  <2> QED
    BY <2>1, <2>2 DEF Known, At
<1>7. Shutdown(t) => Known' = {}
  <2> SUFFICES ASSUME Shutdown(t) PROVE Known' = {}
    OBVIOUS
  <2>1. /\ \A u \in Threads : At(u, "idle") /\ (u # t => tls[u] = NoDesc)
        /\ tls' = [tls EXCEPT ![t] = NoDesc] /\ UNCHANGED call
    BY ShutdownFacts DEF Shutdown
  <2>2. \A u \in Threads : tls'[u] = NoDesc
    BY <1>1, <2>1 DEF Typed
  <2> QED
    BY <2>1, <2>2 DEF Known, At
<1> QED
  BY <1>2, <1>3, <1>4, <1>5, <1>6, <1>7

LEMMA RegistryStep == ASSUME Orderly, IInv, Next PROVE R!Next \/ UNCHANGED R!vars
<1> PICK t \in Threads :
      \/ LibraryInit(t) \/ ThreadInit(t) \/ Register(t) \/ Unregister(t)
      \/ List(t) \/ CreateSet(t) \/ DestroySet(t) \/ Shutdown(t) \/ Step(t)
  BY DEF Next
<1>1. Typed
  BY IInvFacts
<1>2. CASE LibraryInit(t) \/ Lead(t) \/ Advance(t) \/ Shutdown(t) \/ Own(t) \/ Discard(t)
  <2>1. UNCHANGED listed
    BY <1>2 DEF LibraryInit, Lead, Advance, Shutdown, Own, Discard
  <2> QED
    BY <1>2, <2>1, KnownMoves, AbstractSteps
<1>3. CASE Register(t) \/ Unregister(t) \/ List(t)
  <2>1. UNCHANGED <<tls, listed>>
    BY <1>3 DEF Register, Unregister, List
  <2>2. Known' = Known
    BY <1>1, <1>3, <2>1, Begins, KnownStays
  <2> QED
    BY <2>1, <2>2, AbstractSteps
<1>4. CASE Insert(t) \/ Hook(t)
  <2>1. UNCHANGED <<tls, listed>>
    BY <1>4 DEF Insert, Hook
  <2>2. Known' = Known
    BY <1>1, <1>4, <2>1, Enters, KnownStays
  <2> QED
    BY <2>1, <2>2, AbstractSteps
<1>5. CASE Lookup(t) \/ DropSets(t) \/ Remove(t) \/ Unlink(t)
  <2>1. UNCHANGED <<tls, listed>>
    BY <1>5 DEF Lookup, DropSets, Remove, Unlink
  <2>2. Known' = Known
    BY <1>1, <1>5, <2>1, Leaves, KnownStays
  <2> QED
    BY <2>1, <2>2, AbstractSteps
<1>6. CASE Walk(t)
  <2>1. UNCHANGED tls
    BY <1>6 DEF Walk
  <2>2. Known' = Known
    BY <1>1, <1>6, <2>1, Walks, KnownStays
  <2> QED
    BY <1>6, <2>2, WalkLists, AbstractSteps
<1>7. CASE ThreadInit(t) \/ CreateSet(t) \/ DestroySet(t)
  <2>1. UNCHANGED <<tls, call, listed>>
    BY <1>7 DEF ThreadInit, CreateSet, DestroySet
  <2>2. Known' = Known
    BY <2>1 DEF Known, At
  <2> QED
    BY <2>1, <2>2, AbstractSteps
<1> QED
  BY <1>2, <1>3, <1>4, <1>5, <1>6, <1>7 DEF Step

(* The list implements the set of threads of Registry: registering and     *)
(* unregistering are atomic at the writes of the head, and                 *)
(* PAPI_list_threads answers of the threads registered when its walk ends: *)
(* how many there are, or as many of them as fit into the array, each      *)
(* once, and their number.                                                 *)
THEOREM ThreadListImplements == ASSUME Orderly PROVE Spec => ImplementsRegistry
<1>1. Init => R!Init
  <2> SUFFICES ASSUME Init PROVE R!Init
    OBVIOUS
  <2>1. Known = {} /\ listed = [room |-> 0, ids |-> {}, num |-> 0]
    BY DEF Init, Known, Idle, At
  <2> QED
    BY <2>1 DEF R!Init, Known
<1>2. IInv /\ [Next]_vars => [R!Next]_R!vars
  <2>1. ASSUME UNCHANGED vars PROVE UNCHANGED R!vars
    BY <2>1 DEF vars, R!vars, At
  <2> QED
    BY <2>1, RegistryStep
<1> QED
  BY <1>1, <1>2, ThreadListInvariant, PTL DEF Spec, ImplementsRegistry, R!Spec
=============================================================================
