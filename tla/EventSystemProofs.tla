------------------------- MODULE EventSystemProofs -------------------------
(***************************************************************************)
(* Proofs about the event engine.  For any number of dispatch threads,     *)
(* firing threads, nodes and events and any length of the queue: its       *)
(* types, that no delivery touches a freed node, and that no event that is *)
(* delivered missed a node.  With one dispatch thread, which is what the   *)
(* engine starts by default, also the order of the events and what         *)
(* shutdown leaves behind.                                                 *)
(***************************************************************************)
EXTENDS EventSystem, FiniteSetTheorems, WellFoundedInduction, TLAPS

-----------------------------------------------------------------------------
(* The inductive invariant, for any number of dispatch threads *)

Place == [pc : Points, ev : Events \cup {NULL}, node : Nodes \cup {NULL}, new : Events \cup {NULL}]

\* Where a thread is inside a push, and where a dispatch thread is inside a callback.
Pushing == {"push", "wait_room", "room"}
Inside == {"callback"} \cup Pushing

\* A dispatch thread has an event exactly during a delivery, and a node during a
\* walk; a thread has an event to push exactly inside a push.
PlaceOK(t) ==
    /\ thread[t].new # NULL <=> thread[t].pc \in Pushing
    /\ t \in Firers =>
         thread[t].pc \in {"idle"} \cup Pushing /\ thread[t].ev = NULL /\ thread[t].node = NULL
    /\ t \in Dispatchers =>
         /\ thread[t].pc # "idle"
         /\ thread[t].ev # NULL <=> thread[t].pc \in {"deliver", "walk"} \cup Inside
         /\ thread[t].node # NULL => thread[t].pc \in {"walk"} \cup Inside
         /\ thread[t].pc \in Inside => thread[t].node # NULL

PlaceInv == \A t \in Threads : PlaceOK(t)

\* The nodes of a list are in an order, and a walk is at a node that is bound.
NodeInv ==
    /\ Bound \cap freed = {}
    /\ \A m, n \in Bound : nodes[m] = nodes[n] => m = n
    /\ \A d \in Dispatchers : thread[d].node \in Bound \cup {NULL}

\* Each event is in one place, the one its fate says: with a thread that fires it,
\* once in the queue, or with one dispatch thread.
FateInv ==
    /\ \A e \in Events : fate[e] = "unfired" <=> e \notin Fired
    /\ \A t \in Threads : thread[t].new # NULL => fate[thread[t].new] = "firing"
    /\ \A t, u \in Threads : thread[t].new # NULL /\ thread[t].new = thread[u].new => t = u
    /\ \A i \in DOMAIN queue : queue[i] # NULL => fate[queue[i]] = "queued"
    /\ \A i, j \in DOMAIN queue : queue[i] # NULL /\ queue[i] = queue[j] => i = j
    /\ \A d \in Dispatchers : thread[d].ev # NULL => fate[thread[d].ev] = "held"
    /\ \A c, d \in Dispatchers : thread[c].ev # NULL /\ thread[c].ev = thread[d].ev => c = d
    /\ \A e \in Events : fate[e] = "queued" => \E i \in DOMAIN queue : queue[i] = e
    /\ \A e \in Events : fate[e] = "held" => \E d \in Dispatchers : thread[d].ev = e

\* The nodes that a walk which is at n has still to look at, n included.
Ahead(n) ==
    IF n = NULL THEN {}
    ELSE {m \in List(n.type) : nodes[m] <= nodes[n]} \cup (IF n.type = ALL THEN {} ELSE List(ALL))

\* What a delivery has still to look at.
Left(d) == Ahead(thread[d].node) \ (IF thread[d].pc \in Inside THEN {thread[d].node} ELSE {})

\* An event is owed to nodes that are bound and match it, and once its delivery has
\* begun only to those that the walk still comes to.
WalkInv ==
    /\ \A e \in Events : due[e] # {} => e \in Fired
    /\ \A e \in Fired : due[e] \subseteq {n \in Bound : Match(kind[e], n)}
    /\ \A d \in Dispatchers : thread[d].pc \in {"walk"} \cup Inside => due[thread[d].ev] \subseteq Left(d)
    /\ NoneMissed

EngineInv == TypeOK /\ PlaceInv /\ NodeInv /\ FateInv /\ WalkInv

-----------------------------------------------------------------------------
(* With one dispatch thread *)

\* In the sequence s of what was put into the queue, event e comes before event f.
Before(s, e, f) == \E i, j \in DOMAIN s : i < j /\ s[i] = e /\ s[j] = f

\* The queue holds the events in the order in which they were pushed, those that
\* were taken from it came before, and a walk has not been to the nodes ahead of it.
OrderInv ==
    /\ \A i, j \in DOMAIN pushed : pushed[i] = pushed[j] => i = j
    /\ \A i \in DOMAIN pushed : fate[pushed[i]] \notin {"unfired", "firing"}
    /\ \A e \in Events : fate[e] \in {"queued", "held"} => \E i \in DOMAIN pushed : pushed[i] = e
    /\ \A n \in Nodes : latest[n] # NULL => \E i \in DOMAIN pushed : pushed[i] = latest[n]
    /\ \A i, j \in DOMAIN queue : i < j /\ queue[i] # NULL /\ queue[j] # NULL => Before(pushed, queue[i], queue[j])
    /\ \A d \in Dispatchers, j \in DOMAIN queue :
         thread[d].ev # NULL /\ queue[j] # NULL => Before(pushed, thread[d].ev, queue[j])
    /\ \A n \in Nodes, j \in DOMAIN queue : latest[n] # NULL /\ queue[j] # NULL => Before(pushed, latest[n], queue[j])
    /\ \A n \in Nodes, d \in Dispatchers :
         latest[n] # NULL /\ thread[d].ev # NULL => latest[n] = thread[d].ev \/ Before(pushed, latest[n], thread[d].ev)
    /\ \A d \in Dispatchers :
         /\ thread[d].pc = "deliver" => \A n \in Nodes : latest[n] # thread[d].ev
         /\ thread[d].pc \in {"walk"} \cup Inside => \A n \in Left(d) : latest[n] # thread[d].ev

\* Shutdown closes the engine first.  What was queued then stands in the queue before
\* any NULL, and is destroyed in the end.  The threads that were joined are gone, and the
\* loop ends when they are at least as many as those that are not.
StopInv ==
    /\ running <=> stop.pc = "up"
    /\ running => early = {} /\ \A i \in DOMAIN queue : queue[i] # NULL
    /\ \A e \in early : fate[e] \in {"queued", "held", "delivered", "destroyed"}
    /\ \A i, j \in DOMAIN queue : i < j /\ queue[i] = NULL => queue[j] \notin early
    /\ stop.pc \in {"join", "joining"} => \A d \in Dispatchers : d <= stop.x => thread[d].pc = "ended"
    /\ stop.pc \in {"drain", "done"} => 2 * count <= DispatchCount
    /\ stop.pc = "done" => \A e \in early : fate[e] # "queued"

OneInv == EngineInv /\ OrderInv

ClosingInv == EngineInv /\ StopInv

-----------------------------------------------------------------------------
(* The lists of nodes *)

LEMMA NodesFinite == ASSUME TypeOK PROVE Cardinality(Bound \cup freed) \in Nat /\ IsFiniteSet(Bound \cup freed)
<1>1. Bound \cup freed \subseteq Nodes BY DEF TypeOK
<1>2. IsFiniteSet(Nodes) BY EventAssumption
<1>3. IsFiniteSet(Bound \cup freed) BY <1>1, <1>2, FS_Subset
<1> QED BY <1>3, FS_CardinalityType

LEMMA NullIsNoNode == ASSUME TypeOK PROVE NULL \notin Bound /\ NULL \notin Nodes
BY EventAssumption DEF TypeOK

\* The first of some bound nodes is one of them, and none of them comes before it.
LEMMA FrontIs ==
    ASSUME TypeOK, NEW S, S \subseteq Bound, S # {}
    PROVE  Front(S) \in S /\ \A m \in S : nodes[m] <= nodes[Front(S)]
<1> DEFINE K == Cardinality(Bound \cup freed)
           T == {K - nodes[n] : n \in S}
<1>1. K \in Nat BY NodesFinite
<1>2. \A n \in S : nodes[n] \in 1 .. K BY DEF TypeOK
<1> HIDE DEF K
<1>3. T \subseteq Nat /\ T # {} BY <1>1, <1>2
<1>4. \E x \in T : \A y \in T : ~(<<y, x>> \in OpToRel(<, Nat))
  BY <1>3, NatLessThanWellFounded, WFMin, Zenon
<1>5. PICK x \in T : \A y \in T : ~(y < x)
  <2>1. PICK x \in T : \A y \in T : ~(<<y, x>> \in OpToRel(<, Nat)) BY <1>4, Zenon
  <2>2. \A y \in T : y < x => <<y, x>> \in OpToRel(<, Nat) BY <1>3, Zenon DEF OpToRel
  <2> QED BY <2>1, <2>2, Zenon
<1>6. PICK n \in S : x = K - nodes[n] BY <1>5
<1>7. \A m \in S : nodes[m] <= nodes[n]
  <2> SUFFICES ASSUME NEW m \in S PROVE nodes[m] <= nodes[n] OBVIOUS
  <2>1. ~(K - nodes[m] < K - nodes[n]) BY <1>5, <1>6
  <2>2. nodes[m] \in Nat /\ nodes[n] \in Nat BY <1>1, <1>2
  <2> QED BY <2>1, <2>2, <1>1
<1> QED BY <1>7 DEF Front

LEMMA FirstIs ==
    ASSUME TypeOK, NEW l
    PROVE  /\ First(l) = NULL => List(l) = {}
           /\ First(l) # NULL => First(l) \in List(l) /\ \A m \in List(l) : nodes[m] <= nodes[First(l)]
<1>1. List(l) \subseteq Bound BY DEF List
<1>2. CASE List(l) = {} BY <1>2 DEF First, Front
<1>3. CASE List(l) # {}
  <2>1. First(l) \in List(l) /\ \A m \in List(l) : nodes[m] <= nodes[First(l)]
    BY <1>1, <1>3, FrontIs DEF First
  <2> QED BY <2>1, <1>1, NullIsNoNode
<1> QED BY <1>2, <1>3

\* A walk that has done with a node goes on with all it had ahead but that node.
LEMMA AdvanceAhead ==
    ASSUME TypeOK, NodeInv, NEW n \in Bound
    PROVE  Advance(n) \in Bound \cup {NULL} /\ Ahead(Advance(n)) = Ahead(n) \ {n}
<1> DEFINE L == {m \in List(n.type) : nodes[m] < nodes[n]}
<1>0. n \in List(n.type) /\ n # NULL /\ \A l : List(l) \subseteq Bound BY NullIsNoNode DEF List
<1>a. \A m \in Bound : nodes[m] \in Nat BY NodesFinite DEF TypeOK
<1>b. \A m \in List(n.type) : m # n /\ nodes[m] <= nodes[n] => m \in L
  BY <1>0, <1>a DEF NodeInv
<1>c. n \notin L BY <1>0, <1>a
<1>1. CASE L # {}
  <2>1. NextOf(n) \in L /\ \A m \in L : nodes[m] <= nodes[NextOf(n)]
    <3>1. L \subseteq Bound BY <1>0
    <3> QED BY <1>1, <3>1, FrontIs DEF NextOf
  <2> DEFINE f == NextOf(n)
  <2> HIDE DEF f
  <2>2. f \in L /\ f \in Bound /\ f # NULL /\ f.type = n.type /\ Advance(n) = f
    BY <2>1, <1>0, NullIsNoNode DEF f, List, Advance
  <2>3. {m \in List(n.type) : nodes[m] <= nodes[f]} = L
    BY <2>1, <2>2, <1>0, <1>a DEF f
  <2>4. L = {m \in List(n.type) : nodes[m] <= nodes[n]} \ {n}
    BY <1>0, <1>a, <1>b, <1>c
  <2>5. n.type # ALL => n \notin List(ALL) BY DEF List
  <2> HIDE DEF L
  <2> QED BY <2>2, <2>3, <2>4, <2>5, <1>0 DEF Ahead
<1>2. CASE L = {}
  <2>1. NextOf(n) = NULL BY <1>2 DEF NextOf, Front
  <2>2. {m \in List(n.type) : nodes[m] <= nodes[n]} = {n} BY <1>0, <1>a, <1>b, <1>2
  <2>3. CASE n.type = ALL BY <2>1, <2>2, <2>3, <1>0 DEF Advance, Ahead
  <2>4. CASE n.type # ALL
    <3>1. Advance(n) = First(ALL) BY <2>1, <2>4 DEF Advance
    <3>2. n \notin List(ALL) BY <2>4 DEF List
    <3>3. Ahead(n) \ {n} = List(ALL) BY <2>2, <2>4, <3>2, <1>0 DEF Ahead
    <3>4. CASE First(ALL) = NULL BY <3>1, <3>3, <3>4, FirstIs DEF Ahead
    <3>5. CASE First(ALL) # NULL
      <4>1. /\ First(ALL) \in List(ALL) /\ First(ALL).type = ALL
            /\ \A m \in List(ALL) : nodes[m] <= nodes[First(ALL)]
        BY <3>5, FirstIs DEF List
      <4>2. {m \in List(ALL) : nodes[m] <= nodes[First(ALL)]} = List(ALL) BY <4>1
      <4> QED BY <3>1, <3>3, <3>5, <4>1, <4>2, <1>0 DEF Ahead
    <3> QED BY <3>4, <3>5
  <2> QED BY <2>3, <2>4
<1> QED BY <1>1, <1>2

\* A walk begins with every node that the event matches ahead of it.
LEMMA BeginAhead ==
    ASSUME TypeOK, NEW k \in Kinds
    PROVE  Begin(k) \in Bound \cup {NULL} /\ {n \in Bound : Match(k, n)} \subseteq Ahead(Begin(k))
<1>0. k.type # ALL BY EventAssumption
<1>1. \A n \in Bound : Match(k, n) => n \in List(k.type) \cup List(ALL) BY DEF Match, List
<1>2. \A l : List(l) \subseteq Bound /\ \A m \in List(l) : m.type = l BY DEF List
<1>3. CASE First(k.type) # NULL
  <2>1. First(k.type) \in List(k.type) /\ \A m \in List(k.type) : nodes[m] <= nodes[First(k.type)]
    BY <1>3, FirstIs
  <2>2. Begin(k) = First(k.type) BY <1>3 DEF Begin
  <2> QED BY <2>1, <2>2, <1>0, <1>1, <1>2, <1>3 DEF Ahead
<1>4. CASE First(k.type) = NULL /\ First(ALL) # NULL
  <2>1. First(ALL) \in List(ALL) /\ \A m \in List(ALL) : nodes[m] <= nodes[First(ALL)]
    BY <1>4, FirstIs
  <2>2. Begin(k) = First(ALL) /\ List(k.type) = {} BY <1>4, FirstIs DEF Begin
  <2> QED BY <2>1, <2>2, <1>1, <1>2, <1>4 DEF Ahead
<1>5. CASE First(k.type) = NULL /\ First(ALL) = NULL
  BY <1>1, <1>5, FirstIs DEF Begin
<1> QED BY <1>3, <1>4, <1>5

-----------------------------------------------------------------------------
(* The threads *)

\* A thread that another one's signal, or nothing, has changed.
Woken(u) ==
    /\ thread'[u].ev = thread[u].ev /\ thread'[u].node = thread[u].node /\ thread'[u].new = thread[u].new
    /\ \/ thread'[u].pc = thread[u].pc
       \/ thread[u].pc = "wait_room" /\ thread'[u].pc = "room"
       \/ thread[u].pc = "wait_event" /\ thread'[u].pc = "event"

\* Only thread t takes a step; and none does.
Alone(t) == thread' \in [Threads -> Place] /\ \A u \in Threads \ {t} : Woken(u)
Nobody == thread' \in [Threads -> Place] /\ \A u \in Threads : Woken(u)

LEMMA ThreadTyped ==
    ASSUME TypeOK
    PROVE  /\ thread \in [Threads -> Place]
           /\ \A t \in Threads : /\ thread[t].pc \in Points /\ thread[t].ev \in Events \cup {NULL}
                                 /\ thread[t].node \in Nodes \cup {NULL}
                                 /\ thread[t].new \in Events \cup {NULL}
           /\ Dispatchers \subseteq Threads /\ Firers \subseteq Threads /\ Dispatchers \cap Firers = {}
<1>1. thread \in [Threads -> Place] BY DEF TypeOK, Place
<1>2. Dispatchers \cap Firers = {} BY EventAssumption DEF Dispatchers
<1> QED BY <1>1, <1>2 DEF Threads, Place

LEMMA AloneIs ==
    ASSUME TypeOK, NEW t \in Threads, NEW r \in Place, thread' = [thread EXCEPT ![t] = r]
    PROVE  Alone(t) /\ thread'[t] = r
BY ThreadTyped DEF Alone, Woken

LEMMA SignalAlone ==
    ASSUME TypeOK, NEW t \in Threads, NEW r \in Place, NEW th, th = [thread EXCEPT ![t] = r],
           \/ thread[t].pc # "wait_room" /\ Signal("wait_room", "room", th)
           \/ thread[t].pc # "wait_event" /\ Signal("wait_event", "event", th)
    PROVE  Alone(t) /\ thread'[t] = r
<1>1. th \in [Threads -> Place] /\ th[t] = r /\ \A u \in Threads \ {t} : th[u] = thread[u]
  BY ThreadTyped
<1>2. CASE thread' = th BY <1>1, <1>2 DEF Alone, Woken
<1>3. ASSUME NEW w \in Waiting("wait_room"), thread[t].pc # "wait_room",
             thread' = [th EXCEPT ![w].pc = "room"]
      PROVE  Alone(t) /\ thread'[t] = r
  <2>1. w \in Threads /\ thread[w].pc = "wait_room" /\ w # t BY <1>3 DEF Waiting
  <2>2. "room" \in Points BY DEF Points
  <2>3. thread' \in [Threads -> Place] BY <1>1, <1>3, <2>1, <2>2, SMT DEF Place
  <2> QED BY <1>1, <1>3, <2>1, <2>3, SMT DEF Alone, Woken, Place
<1>4. ASSUME NEW w \in Waiting("wait_event"), thread[t].pc # "wait_event",
             thread' = [th EXCEPT ![w].pc = "event"]
      PROVE  Alone(t) /\ thread'[t] = r
  <2>1. w \in Threads /\ thread[w].pc = "wait_event" /\ w # t BY <1>4 DEF Waiting
  <2>2. "event" \in Points BY DEF Points
  <2>3. thread' \in [Threads -> Place] BY <1>1, <1>4, <2>1, <2>2, SMT DEF Place
  <2> QED BY <1>1, <1>4, <2>1, <2>3, SMT DEF Alone, Woken, Place
<1> QED BY <1>2, <1>3, <1>4 DEF Signal

LEMMA NobodyIs ==
    ASSUME TypeOK,
           \/ UNCHANGED thread
           \/ Signal("wait_room", "room", thread) \/ Signal("wait_event", "event", thread)
    PROVE  Nobody
<1>1. CASE UNCHANGED thread BY <1>1, ThreadTyped DEF Nobody, Woken
<1>2. ASSUME NEW w \in Waiting("wait_room"), thread' = [thread EXCEPT ![w].pc = "room"]
      PROVE  Nobody
  <2>1. w \in Threads /\ thread[w].pc = "wait_room" BY <1>2 DEF Waiting
  <2>2. "room" \in Points BY DEF Points
  <2>3. thread' \in [Threads -> Place] BY <1>2, <2>1, <2>2, ThreadTyped, SMT DEF Place
  <2> QED BY <1>2, <2>1, <2>3, ThreadTyped, SMT DEF Nobody, Woken, Place
<1>3. ASSUME NEW w \in Waiting("wait_event"), thread' = [thread EXCEPT ![w].pc = "event"]
      PROVE  Nobody
  <2>1. w \in Threads /\ thread[w].pc = "wait_event" BY <1>3 DEF Waiting
  <2>2. "event" \in Points BY DEF Points
  <2>3. thread' \in [Threads -> Place] BY <1>3, <2>1, <2>2, ThreadTyped, SMT DEF Place
  <2> QED BY <1>3, <2>1, <2>3, ThreadTyped, SMT DEF Nobody, Woken, Place
<1> QED BY <1>1, <1>2, <1>3 DEF Signal

LEMMA AwokenPlace ==
    ASSUME PlaceInv, NEW u \in Threads, Woken(u)
    PROVE  /\ PlaceOK(u)' /\ (thread'[u].pc \in Inside <=> thread[u].pc \in Inside)
           /\ (thread'[u].pc = "ended" <=> thread[u].pc = "ended")
           /\ (thread'[u].pc = "walk" <=> thread[u].pc = "walk")
           /\ (thread'[u].pc = "deliver" <=> thread[u].pc = "deliver")
BY DEF PlaceInv, PlaceOK, Woken, Inside, Pushing

LEMMA AlonePlace ==
    ASSUME PlaceInv, NEW t \in Threads, Alone(t), PlaceOK(t)'
    PROVE  PlaceInv'
BY AwokenPlace DEF PlaceInv, Alone

LEMMA NobodyPlace ==
    ASSUME PlaceInv, Nobody
    PROVE  PlaceInv'
BY AwokenPlace DEF PlaceInv, Nobody

\* DISPATCH_THREAD_COUNT is right as long as no thread ends.
LEMMA CountKept ==
    ASSUME TypeOK, PlaceInv, count' = count,
           \/ Nobody
           \/ \E t \in Threads : Alone(t) /\ thread[t].pc # "ended" /\ thread'[t].pc # "ended"
    PROVE  count' = Cardinality({d \in Dispatchers : thread[d].pc # "ended"})'
<1>1. \A d \in Dispatchers : thread'[d].pc # "ended" <=> thread[d].pc # "ended"
  BY AwokenPlace, ThreadTyped DEF Nobody, Alone
<1>2. {d \in Dispatchers : thread[d].pc # "ended"}' = {d \in Dispatchers : thread[d].pc # "ended"}
  BY <1>1
<1> QED BY <1>2 DEF TypeOK

\* A thread comes back from firing an event: a firing thread to where it was, a
\* callback to its walk.
Back(t) ==
    IF t \in Dispatchers
    THEN [thread[t] EXCEPT !.pc = "walk", !.node = Advance(thread[t].node), !.new = NULL]
    ELSE [thread[t] EXCEPT !.pc = "idle", !.new = NULL]

LEMMA BackIs ==
    ASSUME EngineInv, NEW t \in Threads,
           thread[t].pc \in {"idle"} \cup Inside
    PROVE  /\ Back(t) \in Place /\ Returned(t) = [thread EXCEPT ![t] = Back(t)]
           /\ Back(t).ev = thread[t].ev /\ Back(t).new = NULL /\ Back(t).pc \in {"walk", "idle"}
           /\ t \in Dispatchers =>
                /\ Back(t).pc = "walk" /\ Back(t).node \in Bound \cup {NULL}
                /\ Ahead(Back(t).node) = Left(t) /\ thread[t].ev # NULL
           /\ t \notin Dispatchers => Back(t).pc = "idle" /\ Back(t).node = NULL /\ Back(t).ev = NULL
<1> USE DEF EngineInv
<1>1. Returned(t) = [thread EXCEPT ![t] = Back(t)]
  <2>1. CASE t \in Dispatchers BY <2>1, ThreadTyped DEF Returned, Back
  <2>2. CASE t \notin Dispatchers BY <2>2, ThreadTyped DEF Returned, Back
  <2> QED BY <2>1, <2>2
<1>2. {"walk", "idle"} \subseteq Points BY DEF Points
<1>3. thread[t] \in Place BY ThreadTyped
<1>4. CASE t \in Dispatchers
  <2>1. thread[t].pc \in Inside /\ thread[t].node # NULL /\ thread[t].ev # NULL
    BY <1>4, ThreadTyped DEF PlaceInv, PlaceOK
  <2>2. thread[t].node \in Bound BY <1>4, <2>1 DEF NodeInv
  <2>3. /\ Advance(thread[t].node) \in Bound \cup {NULL}
        /\ Ahead(Advance(thread[t].node)) = Ahead(thread[t].node) \ {thread[t].node}
    BY <2>2, AdvanceAhead
  <2>4. Bound \subseteq Nodes BY DEF TypeOK
  <2>5. Back(t) = [thread[t] EXCEPT !.pc = "walk", !.node = Advance(thread[t].node), !.new = NULL]
    BY <1>4 DEF Back
  <2>6. Back(t) \in Place /\ Back(t).pc = "walk" /\ Back(t).node = Advance(thread[t].node)
        /\ Back(t).ev = thread[t].ev /\ Back(t).new = NULL
    BY <2>5, <1>2, <1>3, <2>3, <2>4 DEF Place
  <2> QED BY <1>1, <1>4, <2>1, <2>3, <2>6 DEF Left
<1>5. CASE t \notin Dispatchers
  <2>1. t \in Firers BY <1>5 DEF Threads
  <2>2. thread[t].ev = NULL /\ thread[t].node = NULL BY <2>1 DEF PlaceInv, PlaceOK
  <2>3. Back(t) = [thread[t] EXCEPT !.pc = "idle", !.new = NULL] BY <1>5 DEF Back
  <2> QED BY <1>1, <1>2, <1>3, <1>5, <2>2, <2>3 DEF Place
<1> QED BY <1>4, <1>5

-----------------------------------------------------------------------------
(* What a step has to show *)

\* A step of the threads leaves the lists alone.
LEMMA NodeStep ==
    ASSUME TypeOK, NodeInv, UNCHANGED <<nodes, freed>>,
           \/ Nobody
           \/ \E t \in Threads : Alone(t) /\ (t \in Dispatchers => thread'[t].node \in Bound \cup {NULL})
    PROVE  NodeInv'
<1>1. \A d \in Dispatchers : thread'[d].node \in Bound \cup {NULL}
  BY ThreadTyped DEF NodeInv, Nobody, Alone, Woken
<1> QED BY <1>1 DEF NodeInv, Bound

LEMMA LeftKept ==
    ASSUME PlaceInv, UNCHANGED nodes, NEW u \in Threads, Woken(u)
    PROVE  Left(u)' = Left(u)
<1>1. thread'[u].node = thread[u].node /\ (thread'[u].pc \in Inside <=> thread[u].pc \in Inside)
  BY AwokenPlace DEF Woken
<1>2. Ahead(thread[u].node)' = Ahead(thread[u].node) BY <1>1 DEF Ahead, List, Bound
<1> QED BY <1>1, <1>2 DEF Left

\* What a step does to the debts of the events: it pays some, or it runs one up for an
\* event that is being pushed; an event that is delivered has none.
DebtsPaid ==
    /\ \A e \in Fired : e \in Fired' /\ kind'[e] = kind[e]
    /\ \A e \in Events :
         \/ due'[e] \subseteq due[e]
         \/ fate[e] = "firing" /\ due'[e] \subseteq {n \in Bound : Match(kind[e], n)}
    /\ \A e \in Events : fate'[e] = "delivered" => fate[e] = "delivered" \/ due'[e] = {}

LEMMA WalkStep ==
    ASSUME EngineInv, UNCHANGED nodes, Fired' \subseteq Events, DebtsPaid,
           \/ Nobody
           \/ \E t \in Threads :
                /\ Alone(t)
                /\ t \in Dispatchers /\ thread'[t].pc \in {"walk"} \cup Inside
                     => due'[thread'[t].ev] \subseteq Left(t)'
    PROVE  WalkInv'
<1> USE DEF EngineInv
<1>0. \A e \in Events : fate[e] = "firing" => e \in Fired BY DEF FateInv
<1>1. \A e \in Events : due'[e] # {} => e \in Fired /\ e \in Fired'
  BY <1>0 DEF DebtsPaid, WalkInv
<1>2. ASSUME NEW e \in Fired' PROVE due'[e] \subseteq {n \in Bound : Match(kind[e], n)}'
  <2>1. e \in Events OBVIOUS
  <2>2. CASE due'[e] = {} BY <2>2
  <2>3. CASE e \in Fired
    <3>1. due[e] \subseteq {n \in Bound : Match(kind[e], n)} BY <2>3 DEF WalkInv
    <3>2. due'[e] \subseteq {n \in Bound : Match(kind[e], n)} BY <2>1, <3>1 DEF DebtsPaid
    <3>3. kind'[e] = kind[e] BY <2>3 DEF DebtsPaid
    <3> QED BY <3>2, <3>3 DEF Match, Bound
  <2> QED BY <2>1, <2>2, <2>3, <1>1
<1>3. ASSUME NEW d \in Dispatchers, thread'[d].pc \in {"walk"} \cup Inside, Woken(d)
      PROVE  due'[thread'[d].ev] \subseteq Left(d)'
  <2>1. d \in Threads BY ThreadTyped
  <2>2. thread[d].pc \in {"walk"} \cup Inside BY <1>3, <2>1, AwokenPlace
  <2>3. thread[d].ev \in Events /\ fate[thread[d].ev] = "held"
    BY <2>1, <2>2, ThreadTyped DEF PlaceInv, PlaceOK, FateInv
  <2>4. due'[thread[d].ev] \subseteq due[thread[d].ev] BY <2>3 DEF DebtsPaid
  <2>5. due[thread[d].ev] \subseteq Left(d) BY <2>2 DEF WalkInv
  <2>6. Left(d)' = Left(d) BY <2>1, <1>3, LeftKept
  <2> QED BY <2>4, <2>5, <2>6, <1>3 DEF Woken
<1>4. \A d \in Dispatchers : thread'[d].pc \in {"walk"} \cup Inside => due'[thread'[d].ev] \subseteq Left(d)'
  BY <1>3, ThreadTyped DEF Nobody, Alone
<1>5. NoneMissed' BY DEF NoneMissed, DebtsPaid, WalkInv
<1> QED BY <1>1, <1>2, <1>4, <1>5 DEF WalkInv

\* A step that moves no event.
LEMMA FateKept ==
    ASSUME FateInv, UNCHANGED <<fate, queue, kind>>,
           \A t \in Threads : thread'[t].ev = thread[t].ev /\ thread'[t].new = thread[t].new
    PROVE  FateInv'
<1>1. Dispatchers \subseteq Threads BY DEF Threads
<1> QED BY <1>1 DEF FateInv, Fired

\* The types, of a step that leaves the lists of nodes and the shutdown alone.
LEMMA TypeStep ==
    ASSUME TypeOK, PlaceInv, UNCHANGED <<running, nodes, freed, count, early>>,
           \/ Nobody
           \/ \E t \in Threads : Alone(t) /\ thread[t].pc # "ended" /\ thread'[t].pc # "ended",
           queue' \in Seq(Events \cup {NULL}), Len(queue') <= QueueLen,
           kind' \in Seq(Kinds), Fired' \subseteq Events, fate' \in [Events -> Fates],
           pushed' \in Seq(Events), latest' \in [Nodes -> Events \cup {NULL}],
           due' \in [Events -> SUBSET Nodes],
           stop' \in [pc : {"up", "nulls", "interrupt", "join", "joining", "drain", "done"},
                      x : 0 .. DispatchCount]
    PROVE  TypeOK'
<1>1. count' = Cardinality({d \in Dispatchers : thread[d].pc # "ended"})' BY CountKept
<1>2. thread' \in [Threads -> Place] BY DEF Nobody, Alone
<1>3. Bound' = Bound BY DEF Bound
<1> QED BY <1>1, <1>2, <1>3 DEF TypeOK, Place

LEMMA InitEngine == Init => EngineInv
<1> SUFFICES ASSUME Init PROVE EngineInv OBVIOUS
<1> USE EventAssumption
<1>0. Bound = {} /\ Fired = {} /\ Events \subseteq Nat BY DEF Init, Bound, Fired, Events
<1>a. thread \in [Threads -> Place]
  <2>1. {"top", "idle"} \subseteq Points BY DEF Points
  <2> QED BY <2>1 DEF Init, Place
<1>b. \A t \in Threads :
        /\ thread[t].pc = IF t \in Dispatchers THEN "top" ELSE "idle"
        /\ thread[t].ev = NULL /\ thread[t].node = NULL /\ thread[t].new = NULL
  BY DEF Init
<1>1. TypeOK
  <2>1. Cardinality({}) = 0 BY FS_EmptySet
  <2>2. nodes \in [Bound -> 1 .. Cardinality(Bound \cup freed)] BY <1>0 DEF Init
  <2>3. count = Cardinality({d \in Dispatchers : thread[d].pc # "ended"})
    <3>1. Dispatchers \subseteq Threads BY DEF Threads
    <3>2. {d \in Dispatchers : thread[d].pc # "ended"} = 1 .. DispatchCount
      BY <1>b, <3>1 DEF Dispatchers
    <3>3. Cardinality(1 .. DispatchCount) = DispatchCount BY FS_Interval
    <3> QED BY <3>2, <3>3 DEF Init
  <2>4. queue \in Seq(Events \cup {NULL}) /\ Len(queue) <= QueueLen /\ kind \in Seq(Kinds)
        /\ pushed \in Seq(Events)
    BY DEF Init
  <2>5. fate \in [Events -> Fates] BY DEF Init, Fates
  <2>6. stop \in [pc : {"up", "nulls", "interrupt", "join", "joining", "drain", "done"},
                  x : 0 .. DispatchCount]
    BY DEF Init
  <2>7. latest \in [Nodes -> Events \cup {NULL}] /\ due \in [Events -> SUBSET Nodes] BY DEF Init
  <2> QED BY <1>0, <1>a, <2>2, <2>3, <2>4, <2>5, <2>6, <2>7 DEF Init, TypeOK, Place
<1>2. PlaceInv
  <2>1. Dispatchers \cap Firers = {} BY DEF Dispatchers
  <2> QED BY <1>b, <2>1 DEF PlaceInv, PlaceOK, Pushing, Inside
<1>3. NodeInv
  <2>1. Dispatchers \subseteq Threads BY DEF Threads
  <2> QED BY <2>1, <1>0, <1>b DEF NodeInv
<1>4. FateInv
  <2>1. Dispatchers \subseteq Threads BY DEF Threads
  <2>2. \A e \in Events : fate[e] = "unfired" BY DEF Init
  <2>3. DOMAIN queue = {} BY DEF Init
  <2> QED BY <2>1, <2>2, <2>3, <1>0, <1>b DEF FateInv
<1>5. WalkInv
  <2>1. Dispatchers \subseteq Threads BY DEF Threads
  <2>2. \A e \in Events : due[e] = {} BY DEF Init
  <2>3. \A d \in Dispatchers : thread[d].pc = "top" BY <2>1, <1>b
  <2> QED BY <2>2, <2>3, <1>0 DEF WalkInv, NoneMissed, Inside, Pushing
<1> QED BY <1>1, <1>2, <1>3, <1>4, <1>5 DEF EngineInv

-----------------------------------------------------------------------------
(* Firing *)

\* The event that is fired next.
LEMMA FiredIs ==
    ASSUME TypeOK
    PROVE  Fired = 1 .. Len(kind) /\ Cardinality(Fired) = Len(kind) /\ Len(kind) \in Nat
<1>1. Fired = 1 .. Len(kind) /\ Len(kind) \in Nat BY DEF TypeOK, Fired
<1>2. \A n \in Nat : Cardinality(1 .. n) = n BY FS_Interval
<1> QED BY <1>1, <1>2

LEMMA FireStep ==
    ASSUME EngineInv, NEW t \in Threads, NEW k \in Kinds, Fire(t, k)
    PROVE  /\ EngineInv' /\ Alone(t) /\ thread[t].pc \in {"idle", "callback"} /\ thread'[t].pc # "deliver"
           /\ thread'[t].ev = thread[t].ev /\ (t \in Dispatchers => Left(t)' = Left(t))
           /\ \A f \in Events : f \in Fired => fate'[f] = fate[f]
           /\ \A f \in Events : f \notin Fired => fate'[f] \notin {"queued", "held"}
<1> USE DEF EngineInv
<1> DEFINE e == Len(kind) + 1
<1>0. /\ e \in Events /\ e \notin Fired /\ e \in Nat /\ NULL \notin Events
      /\ kind' = [f \in Fired \cup {e} |-> IF f = e THEN k ELSE kind[f]]
      /\ fate' = [fate EXCEPT ![e] = IF running THEN "firing" ELSE "destroyed"]
  <2>1. Cardinality(Fired) + 1 = e /\ e \in Nat /\ e \notin Fired BY FiredIs
  <2> QED BY <2>1, EventAssumption DEF Fire, Events
<1>1. Fired = 1 .. Len(kind) /\ Len(kind) \in Nat /\ Fired' = 1 .. e
  BY <1>0, FiredIs DEF Fired
<1>2. kind' \in Seq(Kinds) /\ Fired' \subseteq Events
  <2>1. \A f \in 1 .. e : kind'[f] \in Kinds BY <1>0, <1>1 DEF TypeOK
  <2>2. kind' = [f \in 1 .. e |-> kind'[f]] BY <1>0, <1>1
  <2>3. kind' \in [1 .. e -> Kinds] BY <2>1, <2>2
  <2>4. Fired \subseteq Events BY DEF TypeOK
  <2>5. kind' \in Seq(Kinds) BY <2>3, <1>0
  <2> QED BY <2>4, <2>5, <1>0, <1>1
<1>3. thread[t].pc \in {"idle", "callback"} BY DEF Fire
<1> DEFINE r == IF running THEN [thread[t] EXCEPT !.pc = "push", !.new = e] ELSE Back(t)
<1>4. Alone(t) /\ thread'[t] = r /\ r \in Place
  <2>1. "push" \in Points BY DEF Points
  <2>2. [thread[t] EXCEPT !.pc = "push", !.new = e] \in Place BY <2>1, <1>0, ThreadTyped DEF Place
  <2>3. thread' = [thread EXCEPT ![t] = r]
    <3>1. CASE running
      <4>1. thread' = [thread EXCEPT ![t].pc = "push", ![t].new = e] BY <3>1, FiredIs DEF Fire
      <4> QED BY <4>1, <3>1, ThreadTyped DEF Place
    <3>2. CASE ~running BY <3>2, <1>3, BackIs DEF Fire, Inside
    <3> QED BY <3>1, <3>2
  <2>4. r \in Place BY <2>2, <1>3, BackIs DEF Inside
  <2> HIDE DEF r
  <2> QED BY <2>3, <2>4, AloneIs
<1>5. /\ r.ev = thread[t].ev /\ (running => r.pc = "push" /\ r.new = e /\ r.node = thread[t].node)
      /\ (~running => r.new = NULL) /\ r.pc \in {"push", "walk", "idle"}
      /\ (~running /\ t \in Dispatchers => r.pc = "walk" /\ r.node \in Bound \cup {NULL} /\ Ahead(r.node) = Left(t))
      /\ (~running /\ t \notin Dispatchers => r.pc = "idle" /\ r.node = NULL)
  <2>1. thread[t] \in Place BY ThreadTyped
  <2>2. CASE running BY <2>1, <2>2 DEF Place
  <2>3. CASE ~running BY <2>3, <1>3, BackIs DEF Inside
  <2> QED BY <2>2, <2>3
<1> HIDE DEF r, e
<1>6. PlaceInv'
  <2>1. PlaceOK(t) BY DEF PlaceInv
  <2>2. PlaceOK(t)'
    BY <2>1, <1>0, <1>3, <1>4, <1>5, ThreadTyped DEF PlaceOK, Inside, Pushing
  <2> QED BY <2>2, <1>4, AlonePlace
<1>7. NodeInv'
  <2>1. t \in Dispatchers => thread'[t].node \in Bound \cup {NULL}
    BY <1>4, <1>5 DEF NodeInv
  <2> QED BY <2>1, <1>4, NodeStep DEF Fire
<1>8. TypeOK'
  <2>1. fate' \in [Events -> Fates] BY <1>0 DEF TypeOK, Fates
  <2>2. thread[t].pc # "ended" /\ thread'[t].pc # "ended" BY <1>3, <1>4, <1>5
  <2> QED BY <2>1, <2>2, <1>2, <1>4, TypeStep DEF Fire, TypeOK
<1>9. FateInv'
  <2>0. Dispatchers \subseteq Threads BY DEF Threads
  <2>1. \A u \in Threads : thread'[u].ev = thread[u].ev /\ (u # t => thread'[u].new = thread[u].new)
    BY <1>4, <1>5 DEF Alone, Woken
  <2>2. thread'[t].new = e \/ thread'[t].new = NULL BY <1>4, <1>5
  <2>3. fate[e] = "unfired" BY <1>0 DEF FateInv
  <2>4. \A f \in Events : f # e => fate'[f] = fate[f] BY <1>0 DEF TypeOK
  <2>5. fate'[e] \in {"firing", "destroyed"} /\ (thread'[t].new = e => fate'[e] = "firing")
    BY <1>0, <1>4, <1>5 DEF TypeOK
  <2>6. queue' = queue BY DEF Fire
  <2>7. \A f \in Events : f \in Fired' <=> f \in Fired \/ f = e BY <1>0, <1>1 DEF e
  <2>8. \A i \in DOMAIN queue : queue[i] \in Events \cup {NULL} BY DEF TypeOK
  <2>9. /\ \A u \in Threads : thread'[u].new # NULL => fate'[thread'[u].new] = "firing"
        /\ \A u, v \in Threads : thread'[u].new # NULL /\ thread'[u].new = thread'[v].new => u = v
    BY <2>1, <2>2, <2>3, <2>4, <2>5, <1>0, ThreadTyped DEF FateInv
  <2>10. \A i \in DOMAIN queue' : queue'[i] # NULL => fate'[queue'[i]] = "queued"
    BY <2>3, <2>4, <2>6, <2>8 DEF FateInv
  <2>11. \A d \in Dispatchers : thread'[d].ev # NULL => fate'[thread'[d].ev] = "held"
    BY <2>0, <2>1, <2>3, <2>4, ThreadTyped DEF FateInv
  <2>12. \A f \in Events : fate'[f] = "unfired" <=> f \notin Fired'
    BY <2>3, <2>4, <2>5, <2>7 DEF FateInv
  <2>13. \A f \in Events : /\ fate'[f] = "queued" => \E i \in DOMAIN queue' : queue'[i] = f
                           /\ fate'[f] = "held" => \E d \in Dispatchers : thread'[d].ev = f
    BY <2>0, <2>1, <2>4, <2>5, <2>6 DEF FateInv
  <2>14. /\ \A i, j \in DOMAIN queue' : queue'[i] # NULL /\ queue'[i] = queue'[j] => i = j
         /\ \A c, d \in Dispatchers : thread'[c].ev # NULL /\ thread'[c].ev = thread'[d].ev => c = d
    BY <2>0, <2>1, <2>6 DEF FateInv
  <2> QED BY <2>9, <2>10, <2>11, <2>12, <2>13, <2>14 DEF FateInv
<1>a. ASSUME t \in Dispatchers PROVE Left(t)' = Left(t)
  <2>1. thread[t].pc = "callback" BY <1>a, <1>3 DEF PlaceInv, PlaceOK
  <2>2. nodes' = nodes BY DEF Fire
  <2>3. CASE running
    BY <2>1, <2>2, <2>3, <1>4, <1>5 DEF Left, Inside, Pushing, Ahead, List, Bound
  <2>4. CASE ~running
    <3>1. thread'[t].pc = "walk" /\ Ahead(thread'[t].node) = Left(t) BY <2>4, <1>a, <1>4, <1>5
    <3>2. Left(t)' = Ahead(thread'[t].node)
      BY <3>1, <2>2 DEF Left, Ahead, List, Bound, Inside, Pushing
    <3> QED BY <3>1, <3>2
  <2> QED BY <2>3, <2>4
<1>10. WalkInv'
  <2>1. DebtsPaid
    <3>1. due' = due BY DEF Fire
    <3>2. \A f \in Fired : f \in Fired' /\ kind'[f] = kind[f] BY <1>0, <1>1 DEF e
    <3>3. \A f \in Events : fate'[f] = "delivered" => fate[f] = "delivered"
      BY <1>0 DEF TypeOK
    <3> QED BY <3>1, <3>2, <3>3 DEF DebtsPaid
  <2>2. ASSUME t \in Dispatchers, thread'[t].pc \in {"walk"} \cup Inside
        PROVE  due'[thread'[t].ev] \subseteq Left(t)'
    <3>1. thread[t].pc = "callback" BY <2>2, <1>3 DEF PlaceInv, PlaceOK
    <3>2. due[thread[t].ev] \subseteq Left(t) BY <2>2, <3>1 DEF WalkInv, Inside
    <3>3. thread'[t].ev = thread[t].ev /\ due' = due BY <1>4, <1>5 DEF Fire
    <3> QED BY <3>2, <3>3, <2>2, <1>a
  <2> QED BY <2>1, <2>2, <1>2, <1>4, WalkStep DEF Fire
<1>11. /\ \A f \in Events : f \in Fired => fate'[f] = fate[f]
       /\ \A f \in Events : f \notin Fired => fate'[f] \notin {"queued", "held"}
  BY <1>0 DEF TypeOK, FateInv
<1>12. EngineInv' BY <1>6, <1>7, <1>8, <1>9, <1>10
<1>13. thread'[t].pc # "deliver" /\ thread'[t].ev = thread[t].ev /\ Alone(t) BY <1>4, <1>5
<1> HIDE DEF EngineInv
<1>14. t \in Dispatchers => Left(t)' = Left(t) BY <1>a
<1> QED BY <1>3, <1>11, <1>12, <1>13, <1>14, Zenon

\* What the walk of a callback that comes back has left.
LEMMA BackLeft ==
    ASSUME EngineInv, NEW t \in Dispatchers, thread[t].pc \in Inside, thread'[t] = Back(t), UNCHANGED nodes
    PROVE  due[thread'[t].ev] \subseteq Left(t)' /\ thread'[t].ev = thread[t].ev
<1> USE DEF EngineInv
<1>0. t \in Threads BY ThreadTyped
<1>1. /\ thread'[t].pc = "walk" /\ thread'[t].ev = thread[t].ev
      /\ Ahead(thread'[t].node) = Left(t)
  BY <1>0, BackIs
<1>2. due[thread[t].ev] \subseteq Left(t) BY DEF WalkInv
<1>3. Left(t)' = Ahead(thread'[t].node) BY <1>1 DEF Left, Ahead, List, Bound, Inside, Pushing
<1> QED BY <1>1, <1>2, <1>3

LEMMA BackPlace ==
    ASSUME EngineInv, NEW t \in Threads, thread[t].pc \in Inside \cup {"idle"}, Alone(t), thread'[t] = Back(t)
    PROVE  PlaceInv'
<1> USE DEF EngineInv
<1>1. PlaceOK(t) BY DEF PlaceInv
<1>2. PlaceOK(t)' BY <1>1, BackIs, ThreadTyped DEF PlaceOK, Inside, Pushing
<1> QED BY <1>2, AlonePlace

\* The event is put into the queue.
LEMMA InsertStep ==
    ASSUME EngineInv, NEW t \in Threads, thread[t].pc \in {"push", "room"}, ~Full, Insert(t),
           UNCHANGED <<running, nodes, freed, kind, count, stop, latest, early>>
    PROVE  EngineInv' /\ Alone(t) /\ thread'[t] = Back(t)
<1> USE DEF EngineInv
<1> DEFINE e == thread[t].new
<1>0. /\ e \in Events /\ fate[e] = "firing" /\ e \in Fired /\ e # NULL /\ NULL \notin Events
      /\ PlaceOK(t)
  <2>1. e # NULL BY DEF PlaceInv, PlaceOK, Pushing
  <2> QED BY <2>1, ThreadTyped, EventAssumption DEF FateInv, PlaceInv, Events
<1>1. /\ queue' = Append(queue, e) /\ pushed' = Append(pushed, e)
      /\ fate' = [fate EXCEPT ![e] = "queued"]
      /\ due' = [due EXCEPT ![e] = {n \in Bound : Match(kind[e], n)}]
  BY DEF Insert
<1>2. Alone(t) /\ thread'[t] = Back(t)
  <2>1. Back(t) \in Place /\ Returned(t) = [thread EXCEPT ![t] = Back(t)]
    BY BackIs DEF Inside, Pushing
  <2>2. Signal("wait_event", "event", Returned(t)) BY DEF Insert, NotEmpty
  <2> QED BY <2>1, <2>2, SignalAlone
<1> HIDE DEF e
<1>3. /\ thread'[t].ev = thread[t].ev /\ thread'[t].new = NULL /\ thread'[t].pc \in {"walk", "idle"}
      /\ thread[t].pc \in Inside
      /\ (t \in Dispatchers => thread'[t].node \in Bound \cup {NULL})
  BY <1>2, BackIs DEF Inside, Pushing
<1>4. PlaceInv' BY <1>2, <1>3, BackPlace
<1>5. NodeInv' BY <1>2, <1>3, NodeStep
<1>6. /\ queue' \in Seq(Events \cup {NULL}) /\ Len(queue') = Len(queue) + 1
      /\ DOMAIN queue' = 1 .. Len(queue) + 1 /\ DOMAIN queue = 1 .. Len(queue) /\ Len(queue) \in Nat
      /\ queue'[Len(queue) + 1] = e /\ \A i \in 1 .. Len(queue) : queue'[i] = queue[i]
  BY <1>0, <1>1 DEF TypeOK
<1>7. TypeOK'
  <2>1. Len(queue') <= QueueLen BY <1>6, EventAssumption DEF Full
  <2>2. fate' \in [Events -> Fates] BY <1>1 DEF TypeOK, Fates
  <2>3. pushed' \in Seq(Events) BY <1>0, <1>1 DEF TypeOK
  <2>4. due' \in [Events -> SUBSET Nodes] BY <1>1 DEF TypeOK
  <2>5. Fired' = Fired BY DEF Fired
  <2> QED BY <2>1, <2>2, <2>3, <2>4, <2>5, <1>2, <1>3, <1>6, TypeStep DEF TypeOK
<1>8. FateInv'
  <2>0. Dispatchers \subseteq Threads BY DEF Threads
  <2>1. \A u \in Threads : thread'[u].ev = thread[u].ev /\ (u # t => thread'[u].new = thread[u].new)
    BY <1>2, <1>3 DEF Alone, Woken
  <2>2. \A f \in Events : f # e => fate'[f] = fate[f] BY <1>0, <1>1 DEF TypeOK
  <2>3. fate'[e] = "queued" BY <1>0, <1>1 DEF TypeOK
  <2>4. \A i \in DOMAIN queue : queue[i] \in Events \cup {NULL} /\ queue[i] # e
    BY <1>0 DEF TypeOK, FateInv
  <2>5. \A u \in Threads : u # t => thread[u].new # e BY <1>0 DEF FateInv, e
  <2>6. /\ \A u \in Threads : thread'[u].new # NULL => fate'[thread'[u].new] = "firing"
        /\ \A u, v \in Threads : thread'[u].new # NULL /\ thread'[u].new = thread'[v].new => u = v
    BY <2>1, <2>2, <2>5, <1>3, ThreadTyped DEF FateInv
  <2>7. \A i \in DOMAIN queue' : queue'[i] # NULL => fate'[queue'[i]] = "queued"
    <3> SUFFICES ASSUME NEW i \in DOMAIN queue', queue'[i] # NULL PROVE fate'[queue'[i]] = "queued"
      OBVIOUS
    <3>1. CASE i = Len(queue) + 1 BY <3>1, <2>3, <1>6
    <3>2. CASE i \in 1 .. Len(queue) BY <3>2, <2>2, <2>4, <1>6 DEF FateInv
    <3> QED BY <3>1, <3>2, <1>6
  <2>8. \A i, j \in DOMAIN queue' : queue'[i] # NULL /\ queue'[i] = queue'[j] => i = j
    <3>1. \A i \in DOMAIN queue' : i = Len(queue) + 1 \/ i \in 1 .. Len(queue) BY <1>6
    <3> QED BY <3>1, <2>4, <1>6 DEF FateInv
  <2>9. \A d \in Dispatchers : thread'[d].ev # NULL => fate'[thread'[d].ev] = "held"
    BY <2>0, <2>1, <2>2, <1>0, ThreadTyped DEF FateInv
  <2>10. \A f \in Events : fate'[f] = "unfired" <=> f \notin Fired'
    BY <2>2, <2>3, <1>0 DEF FateInv, Fired
  <2>11. \A f \in Events : fate'[f] = "queued" => \E i \in DOMAIN queue' : queue'[i] = f
    <3> SUFFICES ASSUME NEW f \in Events, fate'[f] = "queued" PROVE \E i \in DOMAIN queue' : queue'[i] = f
      OBVIOUS
    <3>1. CASE f = e BY <3>1, <1>6
    <3>2. CASE f # e
      <4>1. PICK i \in DOMAIN queue : queue[i] = f BY <3>2, <2>2 DEF FateInv
      <4> QED BY <4>1, <1>6
    <3> QED BY <3>1, <3>2
  <2>12. /\ \A f \in Events : fate'[f] = "held" => \E d \in Dispatchers : thread'[d].ev = f
         /\ \A c, d \in Dispatchers : thread'[c].ev # NULL /\ thread'[c].ev = thread'[d].ev => c = d
    BY <2>0, <2>1, <2>2, <2>3 DEF FateInv
  <2> QED BY <2>6, <2>7, <2>8, <2>9, <2>10, <2>11, <2>12 DEF FateInv
<1>9. WalkInv'
  <2>1. DebtsPaid
    <3>1. Fired' = Fired /\ kind' = kind BY DEF Fired
    <3>2. \A f \in Events : f # e => due'[f] = due[f] /\ fate'[f] = fate[f] BY <1>0, <1>1 DEF TypeOK
    <3>3. due'[e] = {n \in Bound : Match(kind[e], n)} /\ fate'[e] = "queued" BY <1>0, <1>1 DEF TypeOK
    <3> QED BY <3>1, <3>2, <3>3, <1>0 DEF DebtsPaid
  <2>2. t \in Dispatchers => due'[thread'[t].ev] \subseteq Left(t)'
    <3> SUFFICES ASSUME t \in Dispatchers PROVE due'[thread'[t].ev] \subseteq Left(t)' OBVIOUS
    <3>1. due[thread'[t].ev] \subseteq Left(t)' /\ thread'[t].ev = thread[t].ev BY <1>2, <1>3, BackLeft
    <3>2. thread[t].ev \in Events /\ fate[thread[t].ev] = "held"
      BY <1>3, ThreadTyped DEF PlaceInv, PlaceOK, FateInv
    <3>3. due'[thread[t].ev] = due[thread[t].ev] BY <3>2, <1>0, <1>1 DEF TypeOK
    <3> QED BY <3>1, <3>3
  <2>3. Fired' \subseteq Events BY DEF TypeOK, Fired
  <2> QED BY <2>1, <2>2, <2>3, <1>2, WalkStep
<1> QED BY <1>2, <1>4, <1>5, <1>7, <1>8, <1>9

\* A thread that waits for room, or comes back without having found any.
LEMMA LostStep ==
    ASSUME EngineInv, NEW t \in Threads, thread[t].pc = "room",
           fate' = [fate EXCEPT ![thread[t].new] = "lost"], thread' = Returned(t),
           UNCHANGED <<running, queue, nodes, freed, kind, pushed, due, count, stop, latest, early>>
    PROVE  EngineInv' /\ Alone(t) /\ thread'[t] = Back(t)
<1> USE DEF EngineInv
<1> DEFINE e == thread[t].new
<1>0. /\ e \in Events /\ fate[e] = "firing" /\ e \in Fired /\ e # NULL
      /\ PlaceOK(t)
  <2>1. e # NULL BY DEF PlaceInv, PlaceOK, Pushing
  <2> QED BY <2>1, ThreadTyped, EventAssumption DEF FateInv, PlaceInv, Events
<1>1. fate' = [fate EXCEPT ![e] = "lost"] OBVIOUS
<1>2. Alone(t) /\ thread'[t] = Back(t) BY BackIs, AloneIs DEF Inside, Pushing
<1> HIDE DEF e
<1>3. /\ thread'[t].ev = thread[t].ev /\ thread'[t].new = NULL /\ thread'[t].pc \in {"walk", "idle"}
      /\ thread[t].pc \in Inside
      /\ (t \in Dispatchers => thread'[t].node \in Bound \cup {NULL})
  BY <1>2, BackIs DEF Inside, Pushing
<1>4. PlaceInv' BY <1>2, <1>3, BackPlace
<1>5. NodeInv' BY <1>2, <1>3, NodeStep
<1>6. TypeOK'
  <2>1. fate' \in [Events -> Fates] BY <1>1 DEF TypeOK, Fates
  <2>2. Fired' = Fired BY DEF Fired
  <2> QED BY <2>1, <2>2, <1>2, <1>3, TypeStep DEF TypeOK
<1>7. \A f \in Events : f # e => fate'[f] = fate[f] BY <1>0, <1>1 DEF TypeOK
<1>8. fate'[e] = "lost" BY <1>0, <1>1 DEF TypeOK
<1>9. FateInv'
  <2>0. Dispatchers \subseteq Threads /\ Fired' = Fired BY DEF Threads, Fired
  <2>1. \A u \in Threads : thread'[u].ev = thread[u].ev /\ (u # t => thread'[u].new = thread[u].new)
    BY <1>2, <1>3 DEF Alone, Woken
  <2>2. \A u \in Threads : u # t => thread[u].new # e BY <1>0 DEF FateInv, e
  <2>3. /\ \A u \in Threads : thread'[u].new # NULL => fate'[thread'[u].new] = "firing"
        /\ \A u, v \in Threads : thread'[u].new # NULL /\ thread'[u].new = thread'[v].new => u = v
    BY <2>1, <2>2, <1>3, <1>7, ThreadTyped DEF FateInv
  <2>4. \A i \in DOMAIN queue : queue[i] \in Events \cup {NULL} /\ queue[i] # e
    BY <1>0 DEF TypeOK, FateInv
  <2>5. /\ \A i \in DOMAIN queue' : queue'[i] # NULL => fate'[queue'[i]] = "queued"
        /\ \A i, j \in DOMAIN queue' : queue'[i] # NULL /\ queue'[i] = queue'[j] => i = j
    BY <2>4, <1>7 DEF FateInv
  <2>6. \A d \in Dispatchers : thread'[d].ev # NULL => fate'[thread'[d].ev] = "held"
    BY <2>0, <2>1, <1>7, <1>0, ThreadTyped DEF FateInv
  <2>7. \A f \in Events : /\ fate'[f] = "unfired" <=> f \notin Fired'
                          /\ fate'[f] = "queued" => \E i \in DOMAIN queue' : queue'[i] = f
                          /\ fate'[f] = "held" => \E d \in Dispatchers : thread'[d].ev = f
    BY <2>0, <2>1, <1>7, <1>8, <1>0 DEF FateInv
  <2>8. \A c, d \in Dispatchers : thread'[c].ev # NULL /\ thread'[c].ev = thread'[d].ev => c = d
    BY <2>0, <2>1 DEF FateInv
  <2> QED BY <2>3, <2>5, <2>6, <2>7, <2>8 DEF FateInv
<1>10. WalkInv'
  <2>1. DebtsPaid BY <1>7, <1>8 DEF DebtsPaid, Fired
  <2>2. t \in Dispatchers => due'[thread'[t].ev] \subseteq Left(t)' BY <1>2, <1>3, BackLeft
  <2>3. Fired' \subseteq Events BY DEF TypeOK, Fired
  <2> QED BY <2>1, <2>2, <2>3, <1>2, WalkStep
<1> QED BY <1>2, <1>4, <1>5, <1>6, <1>9, <1>10

\* A step of one thread that moves no event and no walk.
LEMMA GotoStep ==
    ASSUME EngineInv, NEW t \in Threads, NEW at \in Points, Goto(t, at),
           thread[t].pc # "ended", at # "ended",
           \/ thread[t].pc = "push" /\ at = "wait_room"
           \/ t \in Dispatchers /\ thread[t].pc \in {"top", "pop", "event"}
                /\ at \in {"top", "pop", "wait_event", "ending"},
           UNCHANGED <<running, queue, nodes, freed, events, count, stop, latest, early>>
    PROVE  /\ EngineInv' /\ Alone(t) /\ thread'[t].pc = at
           /\ thread'[t].ev = thread[t].ev /\ thread'[t].node = thread[t].node
<1> USE DEF EngineInv
<1> DEFINE r == [thread[t] EXCEPT !.pc = at]
<1>0. r \in Place /\ thread' = [thread EXCEPT ![t] = r] BY ThreadTyped DEF Goto, Place
<1>1. /\ Alone(t) /\ thread'[t].pc = at /\ thread'[t].ev = thread[t].ev
      /\ thread'[t].new = thread[t].new /\ thread'[t].node = thread[t].node
  <2>1. Alone(t) /\ thread'[t] = r BY <1>0, AloneIs
  <2> QED BY <2>1, ThreadTyped DEF Place
<1> HIDE DEF r
<1>2. PlaceOK(t) BY DEF PlaceInv
<1>3. PlaceInv'
  <2>1. PlaceOK(t)' BY <1>1, <1>2, ThreadTyped DEF PlaceOK, Inside, Pushing
  <2> QED BY <1>1, <2>1, AlonePlace
<1>4. NodeInv' BY <1>1, NodeStep DEF NodeInv
<1>5. TypeOK' BY <1>1, TypeStep DEF TypeOK, events, Fired
<1>6. FateInv'
  <2>1. \A u \in Threads : thread'[u].ev = thread[u].ev /\ thread'[u].new = thread[u].new
    BY <1>1 DEF Alone, Woken
  <2> QED BY <2>1, FateKept DEF events
<1>7. WalkInv'
  <2>1. DebtsPaid BY DEF DebtsPaid, events, Fired
  <2>2. ASSUME t \in Dispatchers, thread'[t].pc \in {"walk"} \cup Inside
        PROVE  due'[thread'[t].ev] \subseteq Left(t)'
    <3>1. thread[t].pc \in Inside /\ at \in Inside BY <2>2, <1>1 DEF Inside, Pushing
    <3>2. Left(t)' = Left(t) BY <3>1, <1>1 DEF Left, Ahead, List, Bound
    <3>3. due[thread[t].ev] \subseteq Left(t) BY <2>2, <3>1 DEF WalkInv
    <3> QED BY <3>2, <3>3, <1>1 DEF events
  <2>3. Fired' \subseteq Events BY DEF TypeOK, Fired, events
  <2> QED BY <2>1, <2>2, <2>3, <1>1, WalkStep
<1> QED BY <1>1, <1>3, <1>4, <1>5, <1>6, <1>7

-----------------------------------------------------------------------------
(* Dispatching *)

\* The queue without its first element.
LEMMA TailIs ==
    ASSUME TypeOK, queue # <<>>, queue' = Tail(queue)
    PROVE  /\ queue' \in Seq(Events \cup {NULL}) /\ Len(queue') <= QueueLen
           /\ Len(queue) \in Nat \ {0} /\ DOMAIN queue = 1 .. Len(queue)
           /\ DOMAIN queue' = 1 .. Len(queue) - 1 /\ Head(queue) = queue[1]
           /\ \A i \in DOMAIN queue' : queue'[i] = queue[i + 1] /\ i + 1 \in DOMAIN queue
           /\ \A i \in DOMAIN queue : i # 1 => i - 1 \in DOMAIN queue' /\ queue'[i - 1] = queue[i]
           /\ 1 \in DOMAIN queue /\ Head(queue) \in Events \cup {NULL}
<1>1. queue \in Seq(Events \cup {NULL}) /\ Len(queue) <= QueueLen BY DEF TypeOK
<1>2. queue' \in Seq(Events \cup {NULL}) /\ Len(queue') = Len(queue) - 1 /\ Len(queue) \in Nat \ {0}
  BY <1>1
<1>3. Len(queue') <= QueueLen BY <1>1, <1>2, EventAssumption
<1>4. /\ DOMAIN queue = 1 .. Len(queue) /\ DOMAIN queue' = 1 .. Len(queue) - 1 /\ Head(queue) = queue[1]
      /\ \A i \in 1 .. Len(queue) - 1 : queue'[i] = queue[i + 1]
  BY <1>1, <1>2
<1>5. \A i \in 1 .. Len(queue) : i # 1 => i - 1 \in 1 .. Len(queue) - 1 /\ (i - 1) + 1 = i
  BY <1>2
<1>6. \A i \in 1 .. Len(queue) - 1 : i + 1 \in 1 .. Len(queue) BY <1>2
<1>7. 1 \in DOMAIN queue BY <1>2, <1>4
<1> QED BY <1>1, <1>2, <1>3, <1>4, <1>5, <1>6, <1>7

\* The events that stay in the queue when its first element leaves it.
LEMMA QueueShifted ==
    ASSUME TypeOK, FateInv, queue # <<>>, queue' = Tail(queue), NEW e, e = Head(queue),
           \A f \in Events : f # e => fate'[f] = fate[f],
           e # NULL => fate'[e] # "queued"
    PROVE  /\ \A i \in DOMAIN queue' : queue'[i] # NULL => fate'[queue'[i]] = "queued"
           /\ \A i, j \in DOMAIN queue' : queue'[i] # NULL /\ queue'[i] = queue'[j] => i = j
           /\ \A f \in Events : fate'[f] = "queued" => \E i \in DOMAIN queue' : queue'[i] = f
<1>1. \A i \in DOMAIN queue : queue[i] \in Events \cup {NULL} BY DEF TypeOK
<1>2. \A i \in DOMAIN queue' : queue'[i] # NULL => queue'[i] # e /\ queue'[i] \in Events
  <2> SUFFICES ASSUME NEW i \in DOMAIN queue', queue'[i] # NULL PROVE queue'[i] # e /\ queue'[i] \in Events
    OBVIOUS
  <2>1. queue'[i] = queue[i + 1] /\ i + 1 \in DOMAIN queue /\ 1 \in DOMAIN queue /\ queue[1] = e /\ i + 1 # 1
    BY TailIs
  <2> QED BY <2>1, <1>1 DEF FateInv
<1>3. \A i \in DOMAIN queue' : queue'[i] # NULL => fate'[queue'[i]] = "queued"
  <2> SUFFICES ASSUME NEW i \in DOMAIN queue', queue'[i] # NULL PROVE fate'[queue'[i]] = "queued"
    OBVIOUS
  <2>1. queue'[i] = queue[i + 1] /\ i + 1 \in DOMAIN queue BY TailIs
  <2>2. fate[queue[i + 1]] = "queued" BY <2>1 DEF FateInv
  <2> QED BY <2>1, <2>2, <1>2
<1>4. \A i, j \in DOMAIN queue' : queue'[i] # NULL /\ queue'[i] = queue'[j] => i = j
  <2> SUFFICES ASSUME NEW i \in DOMAIN queue', NEW j \in DOMAIN queue', queue'[i] # NULL, queue'[i] = queue'[j]
               PROVE  i = j
    OBVIOUS
  <2>1. i + 1 \in DOMAIN queue /\ j + 1 \in DOMAIN queue /\ queue[i + 1] = queue[j + 1] /\ queue[i + 1] # NULL
    BY TailIs
  <2>2. i + 1 = j + 1 BY <2>1 DEF FateInv
  <2>3. i \in Nat /\ j \in Nat BY TailIs
  <2> QED BY <2>2, <2>3
<1>5. ASSUME NEW f \in Events, fate'[f] = "queued" PROVE \E i \in DOMAIN queue' : queue'[i] = f
  <2>1. f # e BY <1>5, EventAssumption DEF Events
  <2>2. PICK i \in DOMAIN queue : queue[i] = f BY <1>5, <2>1 DEF FateInv
  <2>3. i # 1 BY <2>1, <2>2, TailIs
  <2>4. i - 1 \in DOMAIN queue' /\ queue'[i - 1] = f BY <2>2, <2>3, TailIs
  <2> QED BY <2>4
<1> QED BY <1>3, <1>4, <1>5

LEMMA TakeStep ==
    ASSUME EngineInv, NEW d \in Dispatchers, thread[d].pc \in {"pop", "event"}, queue # <<>>, Take(d),
           UNCHANGED <<running, nodes, freed, kind, pushed, due, count, stop, latest, early>>
    PROVE  /\ EngineInv' /\ Alone(d) /\ thread'[d].ev = Head(queue)
           /\ thread'[d].pc = (IF Head(queue) = NULL THEN "ending" ELSE "deliver")
<1> USE DEF EngineInv
<1> DEFINE e == Head(queue)
           r == [thread[d] EXCEPT !.pc = IF e = NULL THEN "ending" ELSE "deliver", !.ev = e]
<1>0. d \in Threads /\ Dispatchers \subseteq Threads BY ThreadTyped
<1>a. /\ queue' = Tail(queue) /\ e \in Events \cup {NULL} /\ e = queue[1] /\ 1 \in DOMAIN queue
      /\ (IF e = NULL THEN UNCHANGED fate ELSE fate' = [fate EXCEPT ![e] = "held"])
  BY TailIs DEF Take
<1>1. r \in Place
  <2>1. {"ending", "deliver"} \subseteq Points BY DEF Points
  <2> DEFINE at == IF e = NULL THEN "ending" ELSE "deliver"
  <2>2. thread[d] \in Place /\ at \in Points BY <2>1, <1>0, ThreadTyped
  <2> HIDE DEF e, at
  <2>3. [thread[d] EXCEPT !.pc = at, !.ev = e] \in Place BY <2>2, <1>a DEF Place
  <2> QED BY <2>3 DEF at
<1>2. Alone(d) /\ thread'[d] = r
  <2>1. Signal("wait_room", "room", [thread EXCEPT ![d] = r])
    <3>1. Signal("wait_room", "room",
                 [thread EXCEPT ![d].pc = IF e = NULL THEN "ending" ELSE "deliver", ![d].ev = e])
      BY DEF Take, NotFull
    <3>2. [thread EXCEPT ![d].pc = IF e = NULL THEN "ending" ELSE "deliver", ![d].ev = e]
            = [thread EXCEPT ![d] = r]
      BY <1>0, ThreadTyped DEF Place
    <3> QED BY <3>1, <3>2
  <2> HIDE DEF r
  <2> QED BY <2>1, <1>0, <1>1, SignalAlone
<1>3. /\ thread'[d].pc = (IF e = NULL THEN "ending" ELSE "deliver") /\ thread'[d].ev = e
      /\ thread'[d].node = thread[d].node /\ thread'[d].new = thread[d].new
  BY <1>0, <1>2, ThreadTyped DEF Place
<1> HIDE DEF e, r
<1>4. /\ thread[d].ev = NULL /\ thread[d].node = NULL /\ thread[d].new = NULL
      /\ d \notin Firers
  BY <1>0, ThreadTyped DEF PlaceInv, PlaceOK, Inside, Pushing
<1>5. PlaceInv'
  <2>1. PlaceOK(d)' BY <1>3, <1>4 DEF PlaceOK, Inside, Pushing
  <2> QED BY <2>1, <1>0, <1>2, AlonePlace
<1>6. NodeInv' BY <1>0, <1>2, <1>3, <1>4, NodeStep
<1>7. \A f \in Events : f # e => fate'[f] = fate[f] BY <1>a DEF TypeOK
<1>8. e # NULL => e \in Events /\ fate[e] = "queued" /\ fate'[e] = "held"
  BY <1>a DEF TypeOK, FateInv
<1>9. TypeOK'
  <2>1. fate' \in [Events -> Fates] BY <1>a DEF TypeOK, Fates
  <2>2. thread[d].pc # "ended" /\ thread'[d].pc # "ended" BY <1>3
  <2>3. queue' \in Seq(Events \cup {NULL}) /\ Len(queue') <= QueueLen BY <1>a, TailIs
  <2> QED BY <2>1, <2>2, <2>3, <1>0, <1>2, TypeStep DEF TypeOK, Fired
<1>10. FateInv'
  <2>1. \A u \in Threads : thread'[u].new = thread[u].new /\ (u # d => thread'[u].ev = thread[u].ev)
    BY <1>2, <1>3 DEF Alone, Woken
  <2>2. /\ \A i \in DOMAIN queue' : queue'[i] # NULL => fate'[queue'[i]] = "queued"
        /\ \A i, j \in DOMAIN queue' : queue'[i] # NULL /\ queue'[i] = queue'[j] => i = j
        /\ \A f \in Events : fate'[f] = "queued" => \E i \in DOMAIN queue' : queue'[i] = f
    BY <1>a, <1>7, <1>8, QueueShifted DEF e
  <2>3. /\ \A u \in Threads : thread'[u].new # NULL => fate'[thread'[u].new] = "firing"
        /\ \A u, v \in Threads : thread'[u].new # NULL /\ thread'[u].new = thread'[v].new => u = v
    BY <2>1, <1>7, <1>8, ThreadTyped DEF FateInv
  <2>4. \A c \in Dispatchers : thread'[c].ev # NULL => fate'[thread'[c].ev] = "held"
    BY <2>1, <1>0, <1>3, <1>7, <1>8, ThreadTyped DEF FateInv
  <2>5. \A c \in Dispatchers : c # d /\ thread[c].ev # NULL => thread[c].ev # e
    BY <1>8 DEF FateInv
  <2>6. \A b, c \in Dispatchers : thread'[b].ev # NULL /\ thread'[b].ev = thread'[c].ev => b = c
    BY <2>1, <2>5, <1>0, <1>3, <1>4 DEF FateInv
  <2>7. \A f \in Events : fate'[f] = "held" => \E c \in Dispatchers : thread'[c].ev = f
    <3> SUFFICES ASSUME NEW f \in Events, fate'[f] = "held" PROVE \E c \in Dispatchers : thread'[c].ev = f
      OBVIOUS
    <3>1. CASE f = e BY <3>1, <1>3
    <3>2. CASE f # e
      <4>1. PICK c \in Dispatchers : thread[c].ev = f BY <3>2, <1>7 DEF FateInv
      <4>2. f # NULL BY EventAssumption DEF Events
      <4> QED BY <4>1, <4>2, <2>1, <1>0, <1>4
    <3> QED BY <3>1, <3>2
  <2>8. \A f \in Events : fate'[f] = "unfired" <=> f \notin Fired'
    <3>1. NULL \notin Events BY EventAssumption DEF Events
    <3> QED BY <3>1, <1>7, <1>8 DEF FateInv, Fired
  <2> QED BY <2>2, <2>3, <2>4, <2>6, <2>7, <2>8 DEF FateInv
<1>11. WalkInv'
  <2>1. DebtsPaid
    <3>1. \A f \in Events : fate'[f] = "delivered" => fate[f] = "delivered" BY <1>7, <1>8, <1>a
    <3> QED BY <3>1 DEF DebtsPaid, Fired
  <2>2. thread'[d].pc \notin {"walk"} \cup Inside BY <1>3 DEF Inside, Pushing
  <2>3. Fired' \subseteq Events BY DEF TypeOK, Fired
  <2> QED BY <2>1, <2>2, <2>3, <1>0, <1>2, WalkStep
<1> QED BY <1>2, <1>3, <1>5, <1>6, <1>9, <1>10, <1>11 DEF e

\* A dispatch thread gives its event up: it is delivered, or destroyed.
LEMMA DroppedStep ==
    ASSUME EngineInv, NEW d \in Dispatchers, NEW o \in {"delivered", "destroyed"},
           \/ thread[d].pc = "deliver" /\ o = "destroyed"
           \/ thread[d].pc = "walk" /\ thread[d].node = NULL,
           fate' = [fate EXCEPT ![thread[d].ev] = o],
           thread' = [thread EXCEPT ![d].pc = "top", ![d].ev = NULL],
           UNCHANGED <<running, queue, nodes, freed, kind, pushed, due, count, stop, latest, early>>
    PROVE  EngineInv' /\ Alone(d) /\ thread'[d].ev = NULL /\ thread'[d].pc = "top"
<1> USE DEF EngineInv
<1> DEFINE r == [thread[d] EXCEPT !.pc = "top", !.ev = NULL]
           e == thread[d].ev
<1>0. d \in Threads /\ Dispatchers \subseteq Threads /\ d \notin Firers BY ThreadTyped
<1>1. /\ e # NULL /\ e \in Events /\ thread[d].node = NULL /\ thread[d].new = NULL
      /\ fate[e] = "held"
  BY <1>0, ThreadTyped DEF PlaceInv, PlaceOK, Inside, Pushing, FateInv
<1>2. r \in Place /\ thread' = [thread EXCEPT ![d] = r]
  <2>1. "top" \in Points BY DEF Points
  <2> QED BY <2>1, <1>0, ThreadTyped DEF Place
<1>3. /\ Alone(d) /\ thread'[d].pc = "top" /\ thread'[d].ev = NULL
      /\ thread'[d].node = NULL /\ thread'[d].new = NULL
  <2>1. Alone(d) /\ thread'[d] = r BY <1>0, <1>2, AloneIs
  <2> QED BY <2>1, <1>0, <1>1, ThreadTyped DEF Place
<1> HIDE DEF r
<1>4. PlaceInv'
  <2>1. PlaceOK(d)' BY <1>0, <1>3 DEF PlaceOK, Inside, Pushing
  <2> QED BY <2>1, <1>0, <1>3, AlonePlace
<1>5. NodeInv' BY <1>0, <1>3, NodeStep
<1>6. fate'[e] = o /\ \A f \in Events : f # e => fate'[f] = fate[f] BY <1>1 DEF TypeOK
<1>7. TypeOK'
  <2>1. fate' \in [Events -> Fates] BY <1>1 DEF TypeOK, Fates
  <2> QED BY <2>1, <1>0, <1>3, TypeStep DEF TypeOK, Fired
<1> HIDE DEF e
<1>8. FateInv'
  <2>0. \A c \in Dispatchers : thread[c].ev = e => c = d BY <1>1 DEF FateInv, e
  <2>1. \A u \in Threads : thread'[u].new = thread[u].new /\ (u # d => thread'[u].ev = thread[u].ev)
    BY <1>1, <1>3 DEF Alone, Woken
  <2>2. \A i \in DOMAIN queue : queue[i] \in Events \cup {NULL} /\ queue[i] # e
    BY <1>1 DEF TypeOK, FateInv
  <2>3. /\ \A i \in DOMAIN queue' : queue'[i] # NULL => fate'[queue'[i]] = "queued"
        /\ \A i, j \in DOMAIN queue' : queue'[i] # NULL /\ queue'[i] = queue'[j] => i = j
    BY <2>2, <1>6 DEF FateInv
  <2>4. /\ \A u \in Threads : thread'[u].new # NULL => fate'[thread'[u].new] = "firing"
        /\ \A u, v \in Threads : thread'[u].new # NULL /\ thread'[u].new = thread'[v].new => u = v
    BY <2>1, <1>1, <1>6, ThreadTyped DEF FateInv
  <2>5. \A c \in Dispatchers : thread'[c].ev # NULL => fate'[thread'[c].ev] = "held"
    BY <2>0, <2>1, <1>0, <1>3, <1>6, ThreadTyped DEF FateInv
  <2>6. \A b, c \in Dispatchers : thread'[b].ev # NULL /\ thread'[b].ev = thread'[c].ev => b = c
    <3> SUFFICES ASSUME NEW b \in Dispatchers, NEW c \in Dispatchers, thread'[b].ev # NULL,
                        thread'[b].ev = thread'[c].ev
                 PROVE  b = c
      OBVIOUS
    <3>1. b # d /\ c # d BY <1>3
    <3>2. thread'[b].ev = thread[b].ev /\ thread'[c].ev = thread[c].ev BY <3>1, <2>1, <1>0
    <3> QED BY <3>2 DEF FateInv
  <2>7. \A f \in Events : fate'[f] = "held" => \E c \in Dispatchers : thread'[c].ev = f
    <3> SUFFICES ASSUME NEW f \in Events, fate'[f] = "held" PROVE \E c \in Dispatchers : thread'[c].ev = f
      OBVIOUS
    <3>1. f # e BY <1>6
    <3>2. PICK c \in Dispatchers : thread[c].ev = f BY <3>1, <1>6 DEF FateInv
    <3> QED BY <3>1, <3>2, <2>1, <1>0 DEF e
  <2>8. \A f \in Events : /\ fate'[f] = "unfired" <=> f \notin Fired'
                          /\ fate'[f] = "queued" => \E i \in DOMAIN queue' : queue'[i] = f
    BY <1>1, <1>6 DEF FateInv, Fired
  <2> QED BY <2>3, <2>4, <2>5, <2>6, <2>7, <2>8 DEF FateInv
<1>9. WalkInv'
  <2>1. DebtsPaid
    <3>1. o = "delivered" => due'[e] = {}
      BY DEF WalkInv, Left, Ahead, Inside, Pushing, e
    <3>2. \A f \in Events : fate'[f] = "delivered" => fate[f] = "delivered" \/ due'[f] = {}
      BY <3>1, <1>6
    <3> QED BY <3>2 DEF DebtsPaid, Fired
  <2>2. thread'[d].pc \notin {"walk"} \cup Inside BY <1>3 DEF Inside, Pushing
  <2>3. Fired' \subseteq Events BY DEF TypeOK, Fired
  <2> QED BY <2>1, <2>2, <2>3, <1>0, <1>3, WalkStep
<1> QED BY <1>3, <1>4, <1>5, <1>7, <1>8, <1>9

\* A step of a walk: it begins, looks at a node or goes on to the next one.
LEMMA WalkOnStep ==
    ASSUME EngineInv, NEW d \in Dispatchers, Alone(d),
           thread[d].pc \in {"deliver", "walk", "callback"}, thread'[d].pc \in {"walk", "callback"},
           thread'[d].ev = thread[d].ev, thread'[d].new = thread[d].new,
           thread'[d].node \in Bound \cup {NULL},
           thread'[d].pc = "callback" => thread'[d].node # NULL,
           \A f \in Events : due'[f] \subseteq due[f], due' \in [Events -> SUBSET Nodes],
           due'[thread[d].ev] \subseteq Left(d)',
           latest' \in [Nodes -> Events \cup {NULL}],
           UNCHANGED <<running, queue, nodes, freed, kind, fate, pushed, count, stop, early>>
    PROVE  EngineInv'
<1> USE DEF EngineInv
<1>0. d \in Threads /\ d \notin Firers BY ThreadTyped
<1>1. PlaceInv'
  <2>1. PlaceOK(d) BY <1>0 DEF PlaceInv
  <2>2. PlaceOK(d)' BY <2>1, <1>0 DEF PlaceOK, Inside, Pushing
  <2> QED BY <2>2, <1>0, AlonePlace
<1>2. NodeInv' BY <1>0, NodeStep
<1>3. TypeOK'
  <2>1. thread[d].pc # "ended" /\ thread'[d].pc # "ended" OBVIOUS
  <2> QED BY <2>1, <1>0, TypeStep DEF TypeOK, Fired
<1>4. FateInv'
  <2>1. \A u \in Threads : thread'[u].ev = thread[u].ev /\ thread'[u].new = thread[u].new
    BY DEF Alone, Woken
  <2> QED BY <2>1, FateKept
<1>5. WalkInv'
  <2>1. DebtsPaid BY DEF DebtsPaid, Fired
  <2>2. Fired' \subseteq Events BY DEF TypeOK, Fired
  <2> QED BY <2>1, <2>2, <1>0, WalkStep
<1> QED BY <1>1, <1>2, <1>3, <1>4, <1>5

\* A delivery begins.
LEMMA BeginStep ==
    ASSUME EngineInv, NEW d \in Dispatchers, Deliver(d), running
    PROVE  EngineInv' /\ Alone(d) /\ thread'[d].pc = "walk" /\ thread'[d].ev = thread[d].ev
<1> USE DEF EngineInv
<1> DEFINE e == thread[d].ev
           r == [thread[d] EXCEPT !.pc = "walk", !.node = Begin(kind[e])]
<1>0. d \in Threads /\ thread[d].pc = "deliver" BY ThreadTyped DEF Deliver
<1>1. e \in Events /\ e # NULL /\ fate[e] = "held" /\ e \in Fired /\ kind[e] \in Kinds
  <2>1. e \in Events /\ e # NULL BY <1>0, ThreadTyped DEF PlaceInv, PlaceOK
  <2>2. fate[e] = "held" /\ e \in Fired BY <2>1 DEF FateInv
  <2>3. kind \in [Fired -> Kinds] BY DEF TypeOK, Fired
  <2> HIDE DEF e
  <2> QED BY <2>1, <2>2, <2>3
<1>2. Begin(kind[e]) \in Bound \cup {NULL} /\ {n \in Bound : Match(kind[e], n)} \subseteq Ahead(Begin(kind[e]))
  BY <1>1, BeginAhead
<1>3. r \in Place /\ thread' = [thread EXCEPT ![d] = r]
  <2>1. "walk" \in Points BY DEF Points
  <2> DEFINE b == Begin(kind[e])
  <2>2. b \in Nodes \cup {NULL} BY <1>2 DEF TypeOK
  <2>3. thread' = [thread EXCEPT ![d].pc = "walk", ![d].node = b] BY DEF Deliver
  <2>4. thread[d] \in Place /\ thread \in [Threads -> Place] BY <1>0, ThreadTyped
  <2> HIDE DEF b
  <2>5. [thread[d] EXCEPT !.pc = "walk", !.node = b] \in Place BY <2>1, <2>2, <2>4 DEF Place
  <2>6. thread' = [thread EXCEPT ![d] = [thread[d] EXCEPT !.pc = "walk", !.node = b]]
    BY <2>3, <2>4, <1>0 DEF Place
  <2> QED BY <2>5, <2>6 DEF b
<1>4. /\ Alone(d) /\ thread'[d].pc = "walk" /\ thread'[d].ev = e
      /\ thread'[d].new = thread[d].new /\ thread'[d].node = Begin(kind[e])
  <2>1. Alone(d) /\ thread'[d] = r BY <1>0, <1>3, AloneIs
  <2> QED BY <2>1, <1>0, ThreadTyped DEF Place
<1> HIDE DEF r
<1>5. due[e] \subseteq Left(d)'
  <2>1. Left(d)' = Ahead(thread'[d].node)
    BY <1>4 DEF Left, Ahead, List, Bound, Inside, Pushing, Deliver
  <2>2. due[e] \subseteq {n \in Bound : Match(kind[e], n)} BY <1>1 DEF WalkInv
  <2> QED BY <2>1, <2>2, <1>2, <1>4
<1> HIDE DEF e
<1>6. UNCHANGED <<running, queue, nodes, freed, kind, fate, pushed, due, count, stop, latest, early>>
  BY DEF Deliver
<1>7. e = thread[d].ev BY DEF e
<1> QED BY <1>0, <1>2, <1>4, <1>5, <1>6, <1>7, WalkOnStep DEF TypeOK

\* A walk looks at a node, and calls its callback if the event matches it.
LEMMA CallbackStep ==
    ASSUME EngineInv, NEW d \in Dispatchers, Callback(d)
    PROVE  /\ EngineInv' /\ Alone(d) /\ thread'[d].ev = thread[d].ev /\ thread'[d].pc \in {"walk", "callback"}
           /\ Left(d)' \subseteq Left(d) \ {thread[d].node} /\ thread[d].node \in Bound
           /\ thread[d].ev \in Events
           /\ \/ latest' = latest
              \/ latest' = [latest EXCEPT ![thread[d].node] = thread[d].ev]
<1> USE DEF EngineInv
<1> DEFINE e == thread[d].ev
           n == thread[d].node
<1>0. d \in Threads /\ thread[d].pc = "walk" /\ n # NULL /\ thread[d] \in Place BY ThreadTyped DEF Callback
<1>1. e \in Events /\ e # NULL /\ fate[e] = "held" /\ e \in Fired
  <2>1. e \in Events /\ e # NULL BY <1>0, ThreadTyped DEF PlaceInv, PlaceOK
  <2> QED BY <2>1 DEF FateInv
<1>2. n \in Bound /\ n \in Nodes BY <1>0 DEF NodeInv, TypeOK
<1>3. Left(d) = Ahead(n) BY <1>0 DEF Left, Inside, Pushing
<1>4. due[e] \subseteq Ahead(n) /\ due[e] \subseteq {m \in Bound : Match(kind[e], m)}
  BY <1>0, <1>1, <1>3 DEF WalkInv
<1>5. UNCHANGED <<running, queue, nodes, freed, kind, fate, pushed, count, stop, early>> BY DEF Callback
<1>7. CASE Match(kind[e], n)
  <2>1. /\ latest' = [latest EXCEPT ![n] = e] /\ due' = [due EXCEPT ![e] = @ \ {n}]
        /\ thread' = [thread EXCEPT ![d].pc = "callback"]
    BY <1>7 DEF Callback, Goto
  <2> DEFINE r == [thread[d] EXCEPT !.pc = "callback"]
  <2>2. r \in Place /\ thread' = [thread EXCEPT ![d] = r]
    <3>1. "callback" \in Points BY DEF Points
    <3> QED BY <3>1, <2>1, <1>0, ThreadTyped DEF Place
  <2>3. Alone(d) /\ thread'[d] = r BY <2>2, <1>0, AloneIs
  <2>4. /\ thread'[d].pc = "callback" /\ thread'[d].ev = e /\ thread'[d].new = thread[d].new
        /\ thread'[d].node = n
    BY <2>3, <1>0 DEF Place
  <2> HIDE DEF r
  <2>5. Left(d)' = Ahead(n) \ {n}
    <3>1. Left(d)' = Ahead(thread'[d].node) \ {thread'[d].node}
      BY <2>4, <1>5 DEF Left, Ahead, List, Bound, Inside
    <3> QED BY <3>1, <2>4
  <2>6. /\ \A f \in Events : due'[f] \subseteq due[f]
        /\ due' \in [Events -> SUBSET Nodes] /\ due'[e] = due[e] \ {n}
        /\ latest' \in [Nodes -> Events \cup {NULL}]
    BY <2>1, <1>1 DEF TypeOK
  <2> HIDE DEF e, n
  <2>7. due'[e] \subseteq Left(d)' BY <2>5, <2>6, <1>4
  <2>8. e = thread[d].ev /\ n = thread[d].node BY DEF e, n
  <2>9. EngineInv' BY <2>3, <2>4, <2>6, <2>7, <2>8, <1>0, <1>2, <1>5, WalkOnStep
  <2> QED BY <2>1, <2>3, <2>4, <2>5, <2>8, <2>9, <1>1, <1>2, <1>3
<1>8. CASE ~Match(kind[e], n)
  <2> DEFINE a == Advance(n)
             r == [thread[d] EXCEPT !.node = a]
  <2>1. thread' = [thread EXCEPT ![d].node = a] /\ latest' = latest /\ due' = due
    BY <1>8 DEF Callback
  <2>2. a \in Bound \cup {NULL} /\ Ahead(a) = Ahead(n) \ {n} /\ a \in Nodes \cup {NULL}
    BY <1>2, AdvanceAhead DEF TypeOK
  <2> HIDE DEF a
  <2>3. r \in Place /\ thread' = [thread EXCEPT ![d] = r]
    BY <2>1, <2>2, <1>0, ThreadTyped DEF Place
  <2>4. Alone(d) /\ thread'[d] = r BY <2>3, <1>0, AloneIs
  <2>5. /\ thread'[d].pc = "walk" /\ thread'[d].ev = e /\ thread'[d].new = thread[d].new
        /\ thread'[d].node = a
    BY <2>4, <1>0 DEF Place
  <2> HIDE DEF r
  <2>6. Left(d)' = Ahead(n) \ {n}
    <3>1. Left(d)' = Ahead(thread'[d].node)
      BY <2>5, <1>5 DEF Left, Ahead, List, Bound, Inside, Pushing
    <3> QED BY <3>1, <2>2, <2>5
  <2> HIDE DEF e, n
  <2>7. due'[e] \subseteq Left(d)' BY <2>1, <2>6, <1>4, <1>8
  <2>8. e = thread[d].ev /\ n = thread[d].node BY DEF e, n
  <2>9. EngineInv'
    <3>1. \A f \in Events : due'[f] \subseteq due[f] BY <2>1
    <3>2. due' \in [Events -> SUBSET Nodes] /\ latest' \in [Nodes -> Events \cup {NULL}]
      BY <2>1 DEF TypeOK
    <3> QED BY <2>2, <2>4, <2>5, <2>7, <2>8, <3>1, <3>2, <1>0, <1>5, WalkOnStep
  <2> QED BY <2>1, <2>4, <2>5, <2>6, <2>8, <2>9, <1>1, <1>2, <1>3
<1> QED BY <1>7, <1>8

\* A callback comes back.
LEMMA ReturnStep ==
    ASSUME EngineInv, NEW d \in Dispatchers, Return(d)
    PROVE  EngineInv' /\ Alone(d) /\ thread'[d] = Back(d)
<1> USE DEF EngineInv
<1>0. d \in Threads /\ thread[d].pc = "callback" /\ "callback" \in Inside
  BY ThreadTyped DEF Return, Inside
<1>1. UNCHANGED <<running, queue, nodes, freed, kind, fate, pushed, due, count, stop, latest, early>>
  BY DEF Return, events
<1>2. Alone(d) /\ thread'[d] = Back(d) BY <1>0, BackIs, AloneIs DEF Return
<1>3. /\ thread'[d].pc = "walk" /\ thread'[d].ev = thread[d].ev /\ thread'[d].new = NULL
      /\ thread'[d].node \in Bound \cup {NULL}
  BY <1>0, <1>2, BackIs
<1>4. thread[d].new = NULL BY <1>0 DEF PlaceInv, PlaceOK, Pushing
<1>5. due[thread[d].ev] \subseteq Left(d)' BY <1>0, <1>1, <1>2, BackLeft
<1> QED BY <1>0, <1>1, <1>2, <1>3, <1>4, <1>5, WalkOnStep DEF TypeOK

\* A dispatch thread ends, and is counted no more.
LEMMA EndStep ==
    ASSUME EngineInv, NEW d \in Dispatchers, DispatchEnd(d)
    PROVE  EngineInv' /\ Alone(d) /\ thread'[d].pc = "ended" /\ thread'[d].ev = thread[d].ev
<1> USE DEF EngineInv
<1> DEFINE r == [thread[d] EXCEPT !.pc = "ended"]
           Live == {c \in Dispatchers : thread[c].pc # "ended"}
<1>0. d \in Threads /\ thread[d].pc = "ending" /\ Dispatchers \subseteq Threads /\ d \notin Firers
  BY ThreadTyped DEF DispatchEnd
<1>1. r \in Place /\ thread' = [thread EXCEPT ![d] = r]
  <2>1. "ended" \in Points BY DEF Points
  <2> QED BY <2>1, <1>0, ThreadTyped DEF Place, DispatchEnd, Goto
<1>2. /\ Alone(d) /\ thread'[d].pc = "ended" /\ thread'[d].ev = thread[d].ev
      /\ thread'[d].new = thread[d].new /\ thread'[d].node = thread[d].node
  <2>1. Alone(d) /\ thread'[d] = r BY <1>0, <1>1, AloneIs
  <2> QED BY <2>1, <1>0, ThreadTyped DEF Place
<1> HIDE DEF r
<1>3. UNCHANGED <<running, queue, nodes, freed, kind, fate, pushed, due, stop, latest, early>>
      /\ count' = count - 1
  BY DEF DispatchEnd, events
<1>4. PlaceInv'
  <2>1. PlaceOK(d) BY <1>0 DEF PlaceInv
  <2>2. PlaceOK(d)' BY <2>1, <1>0, <1>2 DEF PlaceOK, Inside, Pushing
  <2> QED BY <2>2, <1>0, <1>2, AlonePlace
<1>5. NodeInv' BY <1>0, <1>2, <1>3, NodeStep DEF NodeInv
<1>6. FateInv'
  <2>1. \A u \in Threads : thread'[u].ev = thread[u].ev /\ thread'[u].new = thread[u].new
    BY <1>2 DEF Alone, Woken
  <2> QED BY <2>1, <1>3, FateKept
<1>7. WalkInv'
  <2>1. DebtsPaid BY <1>3 DEF DebtsPaid, Fired
  <2>2. thread'[d].pc \notin {"walk"} \cup Inside BY <1>2 DEF Inside, Pushing
  <2>3. Fired' \subseteq Events BY <1>3 DEF TypeOK, Fired
  <2> QED BY <2>1, <2>2, <2>3, <1>0, <1>2, <1>3, WalkStep
<1>8. count' = Cardinality({c \in Dispatchers : thread[c].pc # "ended"})'
  <2>1. \A c \in Dispatchers : thread'[c].pc # "ended" <=> thread[c].pc # "ended" /\ c # d
    BY <1>0, <1>2, AwokenPlace DEF Alone
  <2>2. {c \in Dispatchers : thread[c].pc # "ended"}' = Live \ {d} BY <2>1
  <2>3. IsFiniteSet(Dispatchers) BY EventAssumption, FS_Interval DEF Dispatchers
  <2>4. IsFiniteSet(Live) /\ d \in Live BY <2>3, <1>0, FS_Subset
  <2>5. Cardinality(Live \ {d}) = Cardinality(Live) - 1 BY <2>4, FS_RemoveElement
  <2> QED BY <2>2, <2>5, <1>3 DEF TypeOK
<1>9. TypeOK'
  <2>1. thread' \in [Threads -> Place] BY <1>2 DEF Alone
  <2> QED BY <2>1, <1>3, <1>8 DEF TypeOK, Place, Bound, Fired
<1> QED BY <1>2, <1>4, <1>5, <1>6, <1>7, <1>9

LEMMA DispatchStep ==
    ASSUME EngineInv, NEW d \in Dispatchers, Dispatch(d)
    PROVE  EngineInv' /\ Alone(d)
<1>0. d \in Threads BY DEF Threads
<1>a. {"pop", "ending", "wait_event", "top"} \subseteq Points BY DEF Points
<1>1. CASE DispatchTest(d) BY <1>0, <1>1, <1>a, GotoStep DEF DispatchTest
<1>2. CASE Pop(d) /\ queue = <<>> BY <1>0, <1>2, <1>a, GotoStep DEF Pop, events
<1>3. CASE PopWoken(d) /\ queue = <<>> BY <1>0, <1>3, <1>a, GotoStep DEF PopWoken, events
<1>4. CASE Pop(d) /\ queue # <<>> BY <1>4, TakeStep DEF Pop
<1>5. CASE PopWoken(d) /\ queue # <<>> BY <1>5, TakeStep DEF PopWoken
<1>6. CASE Deliver(d) /\ running BY <1>6, BeginStep
<1>7. CASE Deliver(d) /\ ~running
  <2>1. /\ thread[d].pc = "deliver" /\ fate' = [fate EXCEPT ![thread[d].ev] = "destroyed"]
        /\ thread' = [thread EXCEPT ![d].pc = "top", ![d].ev = NULL]
        /\ UNCHANGED <<running, queue, nodes, freed, kind, pushed, due, count, stop, latest, early>>
    BY <1>7 DEF Deliver
  <2> QED BY <2>1, DroppedStep
<1>8. CASE Callback(d) BY <1>8, CallbackStep
<1>9. CASE Return(d) BY <1>9, ReturnStep
<1>10. CASE Delivered(d) BY <1>10, DroppedStep DEF Delivered
<1>11. CASE DispatchEnd(d) BY <1>11, EndStep
<1> QED BY <1>1, <1>2, <1>3, <1>4, <1>5, <1>6, <1>7, <1>8, <1>9, <1>10, <1>11 DEF Dispatch

-----------------------------------------------------------------------------
(* Binding and unbinding *)

\* With the write lock held no dispatch thread is at a node.
LEMMA NoReaders ==
    ASSUME TypeOK, PlaceInv, Readers = {}, NEW d \in Dispatchers
    PROVE  thread[d].pc \notin {"walk"} \cup Inside /\ thread[d].node = NULL
<1>1. PlaceOK(d) BY ThreadTyped DEF PlaceInv
<1> QED BY <1>1 DEF PlaceOK, Readers, Inside, Pushing

LEMMA BindStep ==
    ASSUME EngineInv, NEW n \in Nodes, Bind(n)
    PROVE  EngineInv'
<1> USE DEF EngineInv
<1> DEFINE K == Cardinality(Bound \cup freed)
<1>0. n \notin Bound \cup freed /\ K \in Nat /\ IsFiniteSet(Bound \cup freed)
  BY NodesFinite DEF Bind
<1>1. nodes' = [m \in Bound \cup {n} |-> IF m = n THEN K + 1 ELSE nodes[m]] BY DEF Bind
<1>2. UNCHANGED <<running, queue, freed, kind, fate, pushed, due, thread, count, stop, latest, early>>
  BY DEF Bind, events
<1>3. Bound' = Bound \cup {n} /\ Bound' \subseteq Nodes BY <1>1 DEF Bound, TypeOK
<1>4. Cardinality(Bound' \cup freed') = K + 1
  <2>1. Cardinality((Bound \cup freed) \cup {n}) = K + 1 BY <1>0, FS_AddElement
  <2>2. (Bound \cup freed) \cup {n} = Bound' \cup freed' BY <1>2, <1>3
  <2> QED BY <2>1, <2>2
<1>5. \A m \in Bound : nodes[m] \in 1 .. K BY DEF TypeOK
<1> HIDE DEF K
<1>6. nodes' \in [Bound' -> 1 .. Cardinality(Bound' \cup freed')]
  <2>1. \A m \in Bound \cup {n} : (IF m = n THEN K + 1 ELSE nodes[m]) \in 1 .. K + 1 BY <1>0, <1>5
  <2> QED BY <2>1, <1>1, <1>3, <1>4
<1>7. TypeOK' BY <1>2, <1>3, <1>6 DEF TypeOK, Fired
<1>8. PlaceInv' BY <1>2 DEF PlaceInv, PlaceOK
<1>9. NodeInv'
  <2>1. \A l, m \in Bound' : nodes'[l] = nodes'[m] => l = m
    <3>1. \A m \in Bound : nodes'[m] = nodes[m] BY <1>0, <1>1
    <3>2. nodes'[n] = K + 1 BY <1>1
    <3> QED BY <3>1, <3>2, <1>0, <1>3, <1>5 DEF NodeInv
  <2> QED BY <2>1, <1>0, <1>2, <1>3 DEF NodeInv
<1>10. FateInv' BY <1>2 DEF FateInv, Fired
<1>11. WalkInv'
  <2>1. \A d \in Dispatchers : thread'[d].pc \notin {"walk"} \cup Inside BY <1>2, NoReaders DEF Bind
  <2>2. \A e \in Fired' : due'[e] \subseteq {m \in Bound : Match(kind[e], m)}'
    <3>1. \A e \in Fired : due[e] \subseteq {m \in Bound : Match(kind[e], m)} BY DEF WalkInv
    <3>2. Fired' = Fired /\ kind' = kind /\ due' = due BY <1>2 DEF Fired
    <3> QED BY <3>1, <3>2, <1>3 DEF Match
  <2> QED BY <2>1, <2>2, <1>2 DEF WalkInv, NoneMissed, Fired
<1> QED BY <1>7, <1>8, <1>9, <1>10, <1>11

LEMMA RemoveStep ==
    ASSUME EngineInv, NEW S, S \subseteq Bound, Readers = {}, Remove(S),
           UNCHANGED <<running, queue, kind, fate, pushed, thread, count, stop, early>>
    PROVE  EngineInv'
<1> USE DEF EngineInv
<1>1. /\ nodes' = [n \in Bound \ S |-> nodes[n]] /\ freed' = freed \cup S
      /\ due' = [e \in Events |-> due[e] \ S]
      /\ latest' = [n \in Nodes |-> IF n \in S THEN NULL ELSE latest[n]]
  BY DEF Remove
<1>2. Bound' = Bound \ S /\ Bound' \cup freed' = Bound \cup freed BY <1>1 DEF Bound
<1>3. Fired' = Fired BY DEF Fired
<1>4. TypeOK'
  <2>1. nodes' \in [Bound' -> 1 .. Cardinality(Bound' \cup freed')] BY <1>1, <1>2 DEF TypeOK
  <2>2. freed' \subseteq Nodes /\ Bound' \subseteq Nodes BY <1>1, <1>2 DEF TypeOK
  <2>3. latest' \in [Nodes -> Events \cup {NULL}] /\ due' \in [Events -> SUBSET Nodes]
    BY <1>1 DEF TypeOK
  <2> QED BY <2>1, <2>2, <2>3, <1>3 DEF TypeOK
<1>5. PlaceInv' BY DEF PlaceInv, PlaceOK
<1>6. NodeInv'
  <2>1. \A d \in Dispatchers : thread[d].node = NULL BY NoReaders
  <2> QED BY <2>1, <1>1, <1>2 DEF NodeInv
<1>7. FateInv' BY <1>3 DEF FateInv
<1>8. WalkInv'
  <2>1. \A d \in Dispatchers : thread'[d].pc \notin {"walk"} \cup Inside BY NoReaders
  <2>2. \A e \in Fired' : due'[e] \subseteq {m \in Bound : Match(kind[e], m)}'
    <3> SUFFICES ASSUME NEW e \in Fired', NEW m \in due'[e] PROVE m \in Bound' /\ Match(kind[e], m)
      BY DEF Match
    <3>1. e \in Fired /\ e \in Events BY <1>3 DEF TypeOK
    <3>2. due[e] \subseteq {n \in Bound : Match(kind[e], n)} BY <3>1 DEF WalkInv
    <3>3. m \in due[e] /\ m \notin S BY <3>1, <1>1
    <3> QED BY <3>2, <3>3, <1>2
  <2>3. \A e \in Events : due'[e] # {} => e \in Fired BY <1>1 DEF WalkInv
  <2>4. \A e \in Events : fate'[e] = "delivered" => due'[e] = {} BY <1>1 DEF WalkInv, NoneMissed
  <2> QED BY <2>1, <2>2, <2>3, <2>4, <1>3 DEF WalkInv, NoneMissed
<1> QED BY <1>4, <1>5, <1>6, <1>7, <1>8

LEMMA UnbindStep ==
    ASSUME EngineInv, NEW n \in Nodes, Unbind(n)
    PROVE  EngineInv'
BY RemoveStep DEF Unbind

LEMMA UnbindCallbackStep ==
    ASSUME EngineInv, NEW c, UnbindCallback(c)
    PROVE  EngineInv'
<1>1. {n \in Bound : n.callback = c} \subseteq Bound OBVIOUS
<1> QED BY <1>1, RemoveStep DEF UnbindCallback

-----------------------------------------------------------------------------
(* Shutdown *)

\* A step of shutdown that moves no event.
LEMMA QuietStep ==
    ASSUME EngineInv, Nobody, UNCHANGED <<nodes, freed, events, count, latest>>,
           running' \in BOOLEAN, early' \subseteq Events,
           queue' = queue \/ (~Full /\ queue' = Append(queue, NULL)),
           stop' \in [pc : {"up", "nulls", "interrupt", "join", "joining", "drain", "done"},
                      x : 0 .. DispatchCount]
    PROVE  EngineInv'
<1> USE DEF EngineInv
<1>0. UNCHANGED <<kind, fate, pushed, due>> /\ Fired' = Fired /\ Bound' = Bound BY DEF events, Fired, Bound
<1>1. PlaceInv' BY NobodyPlace
<1>2. NodeInv' BY NodeStep
<1>3. WalkInv'
  <2>1. DebtsPaid BY <1>0 DEF DebtsPaid
  <2> QED BY <2>1, <1>0, WalkStep DEF TypeOK
<1>4. FateInv'
  <2>1. \A u \in Threads : thread'[u].ev = thread[u].ev /\ thread'[u].new = thread[u].new
    BY DEF Nobody, Woken
  <2>2. CASE queue' = queue BY <2>1, <2>2, <1>0, FateKept
  <2>3. CASE queue' = Append(queue, NULL)
    <3>1. /\ DOMAIN queue' = 1 .. Len(queue) + 1 /\ DOMAIN queue = 1 .. Len(queue) /\ Len(queue) \in Nat
          /\ queue'[Len(queue) + 1] = NULL /\ \A i \in 1 .. Len(queue) : queue'[i] = queue[i]
      BY <2>3 DEF TypeOK
    <3>2. \A i \in DOMAIN queue' : queue'[i] # NULL => i \in DOMAIN queue /\ queue'[i] = queue[i] BY <3>1
    <3>3. /\ \A i \in DOMAIN queue' : queue'[i] # NULL => fate'[queue'[i]] = "queued"
          /\ \A i, j \in DOMAIN queue' : queue'[i] # NULL /\ queue'[i] = queue'[j] => i = j
      BY <3>2, <1>0 DEF FateInv
    <3>4. \A e \in Events : fate'[e] = "queued" => \E i \in DOMAIN queue' : queue'[i] = e
      <4> SUFFICES ASSUME NEW e \in Events, fate'[e] = "queued" PROVE \E i \in DOMAIN queue' : queue'[i] = e
        OBVIOUS
      <4>1. PICK i \in DOMAIN queue : queue[i] = e BY <1>0 DEF FateInv
      <4> QED BY <4>1, <3>1
    <3>5. Dispatchers \subseteq Threads BY DEF Threads
    <3>6. /\ \A t \in Threads : thread'[t].new # NULL => fate'[thread'[t].new] = "firing"
          /\ \A t, u \in Threads : thread'[t].new # NULL /\ thread'[t].new = thread'[u].new => t = u
          /\ \A d \in Dispatchers : thread'[d].ev # NULL => fate'[thread'[d].ev] = "held"
          /\ \A c, d \in Dispatchers : thread'[c].ev # NULL /\ thread'[c].ev = thread'[d].ev => c = d
          /\ \A e \in Events : fate'[e] = "held" => \E d \in Dispatchers : thread'[d].ev = e
          /\ \A e \in Events : fate'[e] = "unfired" <=> e \notin Fired'
      BY <3>5, <2>1, <1>0 DEF FateInv
    <3> QED BY <3>3, <3>4, <3>6 DEF FateInv
  <2> QED BY <2>2, <2>3
<1>5. TypeOK'
  <2>1. count' = Cardinality({d \in Dispatchers : thread[d].pc # "ended"})' BY CountKept
  <2>2. thread' \in [Threads -> Place] BY DEF Nobody
  <2>3. queue' \in Seq(Events \cup {NULL}) /\ Len(queue') <= QueueLen
    <3>1. CASE queue' = queue BY <3>1 DEF TypeOK
    <3>2. CASE ~Full /\ queue' = Append(queue, NULL) BY <3>2, EventAssumption DEF TypeOK, Full
    <3> QED BY <3>1, <3>2
  <2> QED BY <2>1, <2>2, <2>3, <1>0 DEF TypeOK, Place
<1> QED BY <1>1, <1>2, <1>3, <1>4, <1>5

\* DISPATCH_THREAD_COUNT is at most the number of threads that were started.
LEMMA CountIs == ASSUME TypeOK PROVE count \in 0 .. DispatchCount
<1> DEFINE Live == {d \in Dispatchers : thread[d].pc # "ended"}
<1>1. IsFiniteSet(Dispatchers) /\ Cardinality(Dispatchers) = DispatchCount
  BY EventAssumption, FS_Interval DEF Dispatchers
<1>2. Cardinality(Live) <= Cardinality(Dispatchers) /\ IsFiniteSet(Live) BY <1>1, FS_Subset
<1>3. Cardinality(Live) \in Nat BY <1>2, FS_CardinalityType
<1> QED BY <1>1, <1>2, <1>3, EventAssumption DEF TypeOK

Stops == [pc : {"up", "nulls", "interrupt", "join", "joining", "drain", "done"}, x : 0 .. DispatchCount]

\* A join is of a thread that was started.
JoinInv == stop.pc = "joining" => stop.x < DispatchCount

LEMMA StopFlagStep ==
    ASSUME EngineInv, StopFlag
    PROVE  EngineInv' /\ Nobody
<1> USE DEF EngineInv
<1>1. Nobody BY NobodyIs DEF StopFlag
<1>2. running' = FALSE /\ early' \subseteq Events /\ stop' = [pc |-> "nulls", x |-> 0]
      /\ UNCHANGED <<queue, nodes, freed, events, count, latest>>
  BY DEF StopFlag, Stop
<1>3. stop' \in Stops BY <1>2, EventAssumption DEF Stops
<1> QED BY <1>1, <1>2, <1>3, QuietStep DEF Stops

LEMMA StopNullsStep ==
    ASSUME EngineInv, StopNulls
    PROVE  EngineInv' /\ Nobody /\ (queue' = queue \/ queue' = Append(queue, NULL))
<1> USE DEF EngineInv
<1>1. Nobody BY NobodyIs DEF StopNulls, NotEmpty
<1>2. queue' = queue \/ (~Full /\ queue' = Append(queue, NULL)) BY DEF StopNulls
<1>3. UNCHANGED <<running, nodes, freed, events, count, latest, early>> BY DEF StopNulls
<1>4. stop' \in Stops
  <2>1. CASE stop.x < count
    <3>0. count \in 0 .. DispatchCount /\ stop.x \in 0 .. DispatchCount BY CountIs DEF TypeOK
    <3>a. ~(stop.x >= count) BY <2>1, <3>0, EventAssumption
    <3>1. stop' = [pc |-> "nulls", x |-> stop.x + 1] BY <3>a DEF StopNulls, Stop
    <3>2. stop.x + 1 \in 0 .. DispatchCount BY <2>1, <3>0, EventAssumption
    <3> QED BY <3>1, <3>2 DEF Stops
  <2>2. CASE ~(stop.x < count)
    BY <2>2, EventAssumption DEF StopNulls, Stop, Stops
  <2> QED BY <2>1, <2>2
<1> QED BY <1>1, <1>2, <1>3, <1>4, QuietStep DEF TypeOK, Stops

LEMMA StopInterruptStep ==
    ASSUME EngineInv, StopInterrupt
    PROVE  EngineInv' /\ Nobody
<1> USE DEF EngineInv
<1>1. Nobody
  <2>1. thread' = [t \in Threads |->
                     CASE thread[t].pc = "wait_room" -> [thread[t] EXCEPT !.pc = "room"]
                       [] thread[t].pc = "wait_event" -> [thread[t] EXCEPT !.pc = "event"]
                       [] OTHER -> thread[t]]
    BY DEF StopInterrupt
  <2>2. ASSUME NEW t \in Threads PROVE thread'[t] \in Place /\ Woken(t)
    <3>0. thread[t] \in Place BY ThreadTyped
    <3>a. {"room", "event"} \subseteq Points BY DEF Points
    <3>1. CASE thread[t].pc = "wait_room"
      <4>1. thread'[t] = [thread[t] EXCEPT !.pc = "room"] BY <2>1, <3>1
      <4> QED BY <4>1, <3>0, <3>1, <3>a DEF Place, Woken
    <3>2. CASE thread[t].pc = "wait_event"
      <4>1. thread'[t] = [thread[t] EXCEPT !.pc = "event"] BY <2>1, <3>2
      <4> QED BY <4>1, <3>0, <3>2, <3>a DEF Place, Woken
    <3>3. CASE thread[t].pc \notin {"wait_room", "wait_event"}
      <4>1. thread'[t] = thread[t] BY <2>1, <3>3
      <4> QED BY <4>1, <3>0 DEF Woken
    <3> QED BY <3>1, <3>2, <3>3
  <2>3. thread' = [t \in Threads |-> thread'[t]] BY <2>1
  <2> QED BY <2>2, <2>3 DEF Nobody
<1>2. UNCHANGED <<running, queue, nodes, freed, events, count, latest, early>> BY DEF StopInterrupt
<1>3. stop' \in Stops BY EventAssumption DEF StopInterrupt, Stop, Stops
<1> QED BY <1>1, <1>2, <1>3, QuietStep DEF TypeOK, Stops

LEMMA StopJoinStep ==
    ASSUME EngineInv, JoinInv, StopJoin \/ StopJoined
    PROVE  EngineInv' /\ Nobody
<1> USE DEF EngineInv
<1>1. UNCHANGED <<running, queue, nodes, freed, events, thread, count, latest, early>> BY DEF StopJoin, StopJoined
<1>2. Nobody BY <1>1, NobodyIs
<1>3. stop' \in Stops
  <2>1. CASE StopJoin BY <2>1 DEF StopJoin, Stop, Stops, TypeOK
  <2>2. CASE StopJoined
    <3>1. stop.x + 1 \in 0 .. DispatchCount BY <2>2, EventAssumption DEF StopJoined, JoinInv, TypeOK
    <3> QED BY <2>2, <3>1 DEF StopJoined, Stop, Stops
  <2> QED BY <2>1, <2>2
<1> QED BY <1>1, <1>2, <1>3, QuietStep DEF TypeOK, Stops

LEMMA StopDrainStep ==
    ASSUME EngineInv, StopDrain
    PROVE  EngineInv' /\ Nobody
<1> USE DEF EngineInv
<1>1. Nobody BY NobodyIs DEF StopDrain, NotFull
<1>2. UNCHANGED <<running, nodes, freed, kind, pushed, due, count, latest, early>> /\ Fired' = Fired
  BY DEF StopDrain, Fired
<1>3. stop' \in Stops BY EventAssumption DEF StopDrain, Stop, Stops
<1>4. CASE queue = <<>>
  <2>1. UNCHANGED <<queue, fate>> BY <1>4 DEF StopDrain
  <2> QED BY <2>1, <1>1, <1>2, <1>3, QuietStep DEF TypeOK, Stops, events
<1>5. CASE queue # <<>>
  <2> DEFINE e == Head(queue)
  <2>1. /\ queue' = Tail(queue)
        /\ fate' = [f \in Events |-> IF f = e THEN "destroyed" ELSE fate[f]]
    BY <1>5 DEF StopDrain
  <2>2. e \in Events \cup {NULL} /\ queue[1] = e /\ 1 \in DOMAIN queue BY <2>1, <1>5, TailIs
  <2>a. e = Head(queue) OBVIOUS
  <2> HIDE DEF e
  <2>3. e # NULL => e \in Events /\ fate[e] = "queued" /\ fate'[e] = "destroyed"
    BY <2>1, <2>2 DEF FateInv
  <2>4. \A f \in Events : f # e => fate'[f] = fate[f] BY <2>1
  <2>5. NULL \notin Events BY EventAssumption DEF Events
  <2>6. PlaceInv' BY <1>1, NobodyPlace
  <2>7. NodeInv' BY <1>1, <1>2, NodeStep
  <2>8. WalkInv'
    <3>1. DebtsPaid BY <2>3, <2>4, <2>5, <1>2 DEF DebtsPaid
    <3> QED BY <3>1, <1>1, <1>2, WalkStep DEF TypeOK
  <2>9. TypeOK'
    <3>1. queue' \in Seq(Events \cup {NULL}) /\ Len(queue') <= QueueLen BY <2>1, <1>5, TailIs
    <3>2. fate' \in [Events -> Fates] BY <2>1 DEF TypeOK, Fates
    <3> QED BY <3>1, <3>2, <1>1, <1>2, <1>3, TypeStep DEF TypeOK, Stops
  <2>10. FateInv'
    <3>1. \A u \in Threads : thread'[u].ev = thread[u].ev /\ thread'[u].new = thread[u].new
      BY <1>1 DEF Nobody, Woken
    <3>2. Dispatchers \subseteq Threads BY DEF Threads
    <3>3. /\ \A i \in DOMAIN queue' : queue'[i] # NULL => fate'[queue'[i]] = "queued"
          /\ \A i, j \in DOMAIN queue' : queue'[i] # NULL /\ queue'[i] = queue'[j] => i = j
          /\ \A f \in Events : fate'[f] = "queued" => \E i \in DOMAIN queue' : queue'[i] = f
      BY <2>1, <2>3, <2>4, <2>a, <1>5, QueueShifted
    <3>4. /\ \A u \in Threads : thread'[u].new # NULL => fate'[thread'[u].new] = "firing"
          /\ \A u, v \in Threads : thread'[u].new # NULL /\ thread'[u].new = thread'[v].new => u = v
      BY <3>1, <2>3, <2>4, ThreadTyped DEF FateInv
    <3>5. /\ \A c \in Dispatchers : thread'[c].ev # NULL => fate'[thread'[c].ev] = "held"
          /\ \A b, c \in Dispatchers : thread'[b].ev # NULL /\ thread'[b].ev = thread'[c].ev => b = c
      BY <3>1, <3>2, <2>3, <2>4, ThreadTyped DEF FateInv
    <3>6. \A f \in Events : fate'[f] = "held" => \E c \in Dispatchers : thread'[c].ev = f
      BY <3>1, <3>2, <2>3, <2>4, <2>5 DEF FateInv
    <3>7. \A f \in Events : fate'[f] = "unfired" <=> f \notin Fired'
      BY <2>3, <2>4, <2>5, <1>2 DEF FateInv
    <3> QED BY <3>3, <3>4, <3>5, <3>6, <3>7 DEF FateInv
  <2> QED BY <1>1, <2>6, <2>7, <2>8, <2>9, <2>10
<1> QED BY <1>4, <1>5

LEMMA FiringStep ==
    ASSUME EngineInv, NEW t \in Threads, Firing(t)
    PROVE  EngineInv'
<1>1. CASE Push(t) /\ ~Full BY <1>1, InsertStep DEF Push
<1>2. CASE Push(t) /\ Full
  <2>1. "wait_room" \in Points BY DEF Points
  <2> QED BY <1>2, <2>1, GotoStep DEF Push, events
<1>3. CASE PushWoken(t) /\ ~Full BY <1>3, InsertStep DEF PushWoken
<1>4. CASE PushWoken(t) /\ Full BY <1>4, LostStep DEF PushWoken
<1> QED BY <1>1, <1>2, <1>3, <1>4 DEF Firing

LEMMA StutterStep ==
    ASSUME EngineInv, UNCHANGED vars
    PROVE  EngineInv'
<1>1. UNCHANGED <<running, queue, nodes, freed, events, thread, count, stop, latest, early>> BY DEF vars
<1>2. Nobody BY <1>1, NobodyIs DEF EngineInv
<1> QED BY <1>1, <1>2, QuietStep DEF EngineInv, TypeOK

-----------------------------------------------------------------------------
(* Any number of dispatch threads *)

LEMMA JoinStep ==
    ASSUME EngineInv, JoinInv, [Next]_vars
    PROVE  JoinInv'
<1>1. CASE UNCHANGED stop BY <1>1 DEF JoinInv
<1>2. CASE StopFlag \/ StopNulls \/ StopInterrupt \/ StopJoined \/ StopDrain
  BY <1>2 DEF StopFlag, StopNulls, StopInterrupt, StopJoined, StopDrain, Stop, JoinInv
<1>3. CASE StopJoin
  <2>1. count \in 0 .. DispatchCount BY CountIs DEF EngineInv
  <2>2. stop.x \in Nat BY DEF EngineInv, TypeOK
  <2> QED BY <1>3, <2>1, <2>2, EventAssumption DEF StopJoin, Stop, JoinInv
<1>4. ASSUME NEW d \in Dispatchers, Dispatch(d) PROVE UNCHANGED stop
  BY <1>4 DEF Dispatch, DispatchTest, Pop, PopWoken, Deliver, Callback, Return, Delivered, DispatchEnd
<1>5. ASSUME NEW t \in Threads, Firing(t) PROVE UNCHANGED stop BY <1>5 DEF Firing, Push, PushWoken
<1>6. ASSUME NEW t \in Threads, NEW k \in Kinds, Fire(t, k) PROVE UNCHANGED stop BY <1>6 DEF Fire
<1>7. ASSUME NEW n, Bind(n) \/ Unbind(n) \/ UnbindCallback(n) PROVE UNCHANGED stop
  BY <1>7 DEF Bind, Unbind, UnbindCallback
<1>8. UNCHANGED vars => UNCHANGED stop BY DEF vars
<1> QED BY <1>1, <1>2, <1>3, <1>4, <1>5, <1>6, <1>7, <1>8 DEF Next, Shutdown

LEMMA EngineStep ==
    ASSUME EngineInv, JoinInv, [Next]_vars
    PROVE  EngineInv'
<1>1. ASSUME NEW t \in Threads, NEW k \in Kinds, Fire(t, k) PROVE EngineInv' BY <1>1, FireStep
<1>2. ASSUME NEW t \in Threads, Firing(t) PROVE EngineInv' BY <1>2, FiringStep
<1>3. ASSUME NEW d \in Dispatchers, Dispatch(d) PROVE EngineInv' BY <1>3, DispatchStep
<1>4. ASSUME NEW n \in Nodes, Bind(n) \/ Unbind(n) PROVE EngineInv' BY <1>4, BindStep, UnbindStep
<1>5. ASSUME NEW c, UnbindCallback(c) PROVE EngineInv' BY <1>5, UnbindCallbackStep
<1>6. CASE StopFlag BY <1>6, StopFlagStep
<1>7. CASE Shutdown
  BY <1>7, StopNullsStep, StopInterruptStep, StopJoinStep, StopDrainStep DEF Shutdown
<1>8. CASE UNCHANGED vars BY <1>8, StutterStep
<1> QED BY <1>1, <1>2, <1>3, <1>4, <1>5, <1>6, <1>7, <1>8 DEF Next

\* The inductive invariant of the engine, whatever the number of dispatch threads.
THEOREM Invariance == Spec => [](EngineInv /\ JoinInv)
<1>1. Init => EngineInv /\ JoinInv BY InitEngine DEF Init, JoinInv
<1>2. EngineInv /\ JoinInv /\ [Next]_vars => (EngineInv /\ JoinInv)' BY EngineStep, JoinStep
<1> QED BY <1>1, <1>2, PTL DEF Spec

\* The types of the engine's state; the queue stays within its length, and
\* DISPATCH_THREAD_COUNT counts the threads that have not ended.
THEOREM TypeCorrect == Spec => []TypeOK
<1>1. EngineInv => TypeOK BY DEF EngineInv
<1> QED BY <1>1, Invariance, PTL

\* No delivery is ever at a node that was unbound and freed: unbinding waits for RWLOCK,
\* which every delivery holds from its first node to its last.
THEOREM NoneUsedAfterFree == Spec => []NoFreedNode
<1>1. EngineInv => NoFreedNode
  <2> SUFFICES ASSUME EngineInv, NEW d \in Dispatchers PROVE thread[d].node \notin freed
    BY DEF NoFreedNode
  <2>1. thread[d].node \in Bound \cup {NULL} /\ Bound \cap freed = {} BY DEF EngineInv, NodeInv
  <2>2. NULL \notin freed BY EventAssumption DEF EngineInv, TypeOK
  <2> QED BY <2>1, <2>2
<1> QED BY <1>1, Invariance, PTL

\* An event that was delivered reached every node that it matches and that was bound from
\* when it was queued until then, whatever was bound and unbound before and after the walk.
THEOREM NoneIsMissed == Spec => []NoneMissed
<1>1. EngineInv => NoneMissed BY DEF EngineInv, WalkInv
<1> QED BY <1>1, Invariance, PTL

-----------------------------------------------------------------------------
(* One dispatch thread: the order of the events *)

\* A dispatch thread goes on with its delivery, or gives it up.
Further(d) ==
    /\ thread'[d].ev \in {NULL, thread[d].ev}
    /\ thread'[d].pc = "deliver" => thread[d].pc = "deliver" /\ thread'[d].ev = thread[d].ev
    /\ thread'[d].pc \in {"walk"} \cup Inside =>
         /\ thread'[d].ev = thread[d].ev
         /\ \/ thread[d].pc = "deliver"
            \/ thread[d].pc \in {"walk"} \cup Inside /\ Left(d)' \subseteq Left(d)

LEMMA WokenFurther ==
    ASSUME PlaceInv, UNCHANGED nodes, NEW d \in Dispatchers, Woken(d)
    PROVE  Further(d)
<1>1. d \in Threads BY DEF Threads
<1>2. /\ thread'[d].pc = "deliver" <=> thread[d].pc = "deliver"
      /\ thread'[d].pc \in {"walk"} \cup Inside <=> thread[d].pc \in {"walk"} \cup Inside
  BY <1>1, AwokenPlace
<1>3. Left(d)' = Left(d) BY <1>1, LeftKept
<1> QED BY <1>2, <1>3 DEF Further, Woken

LEMMA NobodyFurther ==
    ASSUME PlaceInv, UNCHANGED nodes, Nobody
    PROVE  \A d \in Dispatchers : Further(d)
BY WokenFurther DEF Nobody, Threads

LEMMA AloneFurther ==
    ASSUME PlaceInv, UNCHANGED nodes, NEW t \in Threads, Alone(t), t \in Dispatchers => Further(t)
    PROVE  \A d \in Dispatchers : Further(d)
BY WokenFurther DEF Alone, Threads

LEMMA BackFurther ==
    ASSUME EngineInv, NEW t \in Dispatchers, thread[t].pc \in Inside, thread'[t] = Back(t), UNCHANGED nodes
    PROVE  Further(t)
<1> USE DEF EngineInv
<1>0. t \in Threads BY ThreadTyped
<1>1. thread'[t].pc = "walk" /\ thread'[t].ev = thread[t].ev /\ Ahead(thread'[t].node) = Left(t)
  BY <1>0, BackIs
<1>2. Left(t)' = Ahead(thread'[t].node) BY <1>1 DEF Left, Ahead, List, Bound, Inside, Pushing
<1> QED BY <1>1, <1>2 DEF Further

\* A step that puts no event into the queue, hands none out and makes no callback.
LEMMA OrderKept ==
    ASSUME TypeOK, PlaceInv, Bound' \subseteq Nodes, OrderInv, pushed' = pushed,
           \A e \in Events : /\ fate[e] \notin {"unfired", "firing"} => fate'[e] \notin {"unfired", "firing"}
                             /\ fate'[e] \in {"queued", "held"} => fate[e] \in {"queued", "held"},
           \A n \in Nodes : latest'[n] \in {NULL, latest[n]},
           \A j \in DOMAIN queue' : queue'[j] # NULL => \E l \in DOMAIN queue : queue[l] = queue'[j],
           \A i, j \in DOMAIN queue' : i < j /\ queue'[i] # NULL /\ queue'[j] # NULL =>
             \E k, l \in DOMAIN queue : k < l /\ queue[k] = queue'[i] /\ queue[l] = queue'[j],
           \A d \in Dispatchers : Further(d)
    PROVE  OrderInv'
<1>0. \A i \in DOMAIN pushed : pushed[i] \in Events BY DEF TypeOK
<1>1. /\ \A i, j \in DOMAIN pushed' : pushed'[i] = pushed'[j] => i = j
      /\ \A i \in DOMAIN pushed' : fate'[pushed'[i]] \notin {"unfired", "firing"}
      /\ \A e \in Events : fate'[e] \in {"queued", "held"} => \E i \in DOMAIN pushed' : pushed'[i] = e
      /\ \A n \in Nodes : latest'[n] # NULL => \E i \in DOMAIN pushed' : pushed'[i] = latest'[n]
  BY <1>0 DEF OrderInv
<1>2. ASSUME NEW i \in DOMAIN queue', NEW j \in DOMAIN queue', i < j, queue'[i] # NULL, queue'[j] # NULL
      PROVE  Before(pushed', queue'[i], queue'[j])
  <2>1. PICK k, l \in DOMAIN queue : k < l /\ queue[k] = queue'[i] /\ queue[l] = queue'[j] BY <1>2
  <2> QED BY <2>1, <1>2 DEF OrderInv
<1>3. ASSUME NEW d \in Dispatchers, NEW j \in DOMAIN queue', thread'[d].ev # NULL, queue'[j] # NULL
      PROVE  Before(pushed', thread'[d].ev, queue'[j])
  <2>1. PICK l \in DOMAIN queue : queue[l] = queue'[j] BY <1>3
  <2>2. thread'[d].ev = thread[d].ev BY <1>3 DEF Further
  <2> QED BY <2>1, <2>2, <1>3 DEF OrderInv
<1>4. ASSUME NEW n \in Nodes, NEW j \in DOMAIN queue', latest'[n] # NULL, queue'[j] # NULL
      PROVE  Before(pushed', latest'[n], queue'[j])
  <2>1. PICK l \in DOMAIN queue : queue[l] = queue'[j] BY <1>4
  <2>2. latest'[n] = latest[n] BY <1>4
  <2> QED BY <2>1, <2>2, <1>4 DEF OrderInv
<1>5. ASSUME NEW n \in Nodes, NEW d \in Dispatchers, latest'[n] # NULL, thread'[d].ev # NULL
      PROVE  latest'[n] = thread'[d].ev \/ Before(pushed', latest'[n], thread'[d].ev)
  <2>1. latest'[n] = latest[n] /\ thread'[d].ev = thread[d].ev BY <1>5 DEF Further
  <2> QED BY <2>1, <1>5 DEF OrderInv
<1>6. ASSUME NEW d \in Dispatchers, thread'[d].pc = "deliver", NEW n \in Nodes
      PROVE  latest'[n] # thread'[d].ev
  <2>1. thread[d].pc = "deliver" /\ thread'[d].ev = thread[d].ev BY <1>6 DEF Further
  <2>2. thread[d].ev # NULL BY <2>1 DEF PlaceInv, PlaceOK, Threads
  <2> QED BY <2>1, <2>2, <1>6 DEF OrderInv
<1>7. ASSUME NEW d \in Dispatchers, thread'[d].pc \in {"walk"} \cup Inside, NEW n \in Left(d)'
      PROVE  latest'[n] # thread'[d].ev
  <2>0. n \in Nodes BY <1>7 DEF Left, Ahead, List
  <2>1. thread'[d].ev = thread[d].ev /\ latest'[n] \in {NULL, latest[n]} BY <1>7, <2>0 DEF Further
  <2>2. latest[n] # thread[d].ev BY <1>7, <2>0 DEF OrderInv, Further
  <2>3. thread[d].ev # NULL BY <1>7 DEF Further, PlaceInv, PlaceOK, Threads
  <2> QED BY <2>1, <2>2, <2>3
<1> QED BY <1>1, <1>2, <1>3, <1>4, <1>5, <1>6, <1>7 DEF OrderInv

\* What a step may do to the queue if it puts no event into it.
LEMMA QueueSame ==
    ASSUME TypeOK,
           \/ queue' = queue
           \/ queue # <<>> /\ queue' = Tail(queue)
           \/ queue' = Append(queue, NULL)
    PROVE  /\ \A j \in DOMAIN queue' : queue'[j] # NULL => \E l \in DOMAIN queue : queue[l] = queue'[j]
           /\ \A i, j \in DOMAIN queue' : i < j /\ queue'[i] # NULL /\ queue'[j] # NULL =>
                \E k, l \in DOMAIN queue : k < l /\ queue[k] = queue'[i] /\ queue[l] = queue'[j]
<1>1. CASE queue' = queue BY <1>1
<1>2. CASE queue # <<>> /\ queue' = Tail(queue)
  <2>0. DOMAIN queue' = 1 .. Len(queue) - 1 /\ Len(queue) \in Nat BY <1>2, TailIs
  <2>1. \A i \in DOMAIN queue' : queue'[i] = queue[i + 1] /\ i + 1 \in DOMAIN queue
    BY <1>2, TailIs
  <2>2. ASSUME NEW i \in DOMAIN queue', NEW j \in DOMAIN queue', i < j
        PROVE  \E k, l \in DOMAIN queue : k < l /\ queue[k] = queue'[i] /\ queue[l] = queue'[j]
    <3>1. i + 1 < j + 1 BY <2>0, <2>2
    <3> QED BY <2>1, <3>1
  <2> QED BY <2>1, <2>2
<1>3. CASE queue' = Append(queue, NULL)
  <2>1. /\ DOMAIN queue' = 1 .. Len(queue) + 1 /\ DOMAIN queue = 1 .. Len(queue) /\ Len(queue) \in Nat
        /\ queue'[Len(queue) + 1] = NULL /\ \A i \in 1 .. Len(queue) : queue'[i] = queue[i]
    BY <1>3 DEF TypeOK
  <2>2. \A i \in DOMAIN queue' : i = Len(queue) + 1 \/ i \in 1 .. Len(queue)
    <3>1. PICK N : N = Len(queue) OBVIOUS
    <3>2. DOMAIN queue' = 1 .. N + 1 /\ N \in Nat BY <2>1, <3>1
    <3>3. \A i \in 1 .. N + 1 : i = N + 1 \/ i \in 1 .. N BY <3>2
    <3> QED BY <3>1, <3>2, <3>3
  <2>3. \A i \in DOMAIN queue' : queue'[i] # NULL => i \in DOMAIN queue /\ queue'[i] = queue[i]
    BY <2>1, <2>2
  <2> QED BY <2>3
<1> QED BY <1>1, <1>2, <1>3

\* Nothing comes before itself.
LEMMA NeverBeforeItself ==
    ASSUME TypeOK, OrderInv, NEW e
    PROVE  ~Before(pushed, e, e)
<1> SUFFICES ASSUME Before(pushed, e, e) PROVE FALSE OBVIOUS
<1>1. PICK i, j \in DOMAIN pushed : i < j /\ pushed[i] = e /\ pushed[j] = e BY DEF Before
<1>2. i = j BY <1>1 DEF OrderInv
<1>3. i \in Nat BY DEF TypeOK
<1> QED BY <1>1, <1>2, <1>3

LEMMA InsertOrder ==
    ASSUME EngineInv, OrderInv, NEW t \in Threads, thread[t].pc \in {"push", "room"}, ~Full, Insert(t),
           UNCHANGED <<running, nodes, freed, kind, count, stop, latest, early>>
    PROVE  OrderInv'
<1>0. TypeOK /\ PlaceInv /\ FateInv BY DEF EngineInv
<1>1. PICK e : e = thread[t].new OBVIOUS
<1>2. e \in Events /\ fate[e] = "firing" /\ e # NULL
  <2>1. e # NULL BY <1>0, <1>1 DEF PlaceInv, PlaceOK, Pushing
  <2> QED BY <2>1, <1>0, <1>1, ThreadTyped DEF FateInv
<1>3. /\ queue' = Append(queue, e) /\ pushed' = Append(pushed, e)
      /\ fate' = [fate EXCEPT ![e] = "queued"]
  BY <1>1 DEF Insert
<1>4. \A d \in Dispatchers : Further(d)
  <2>1. Alone(t) /\ thread'[t] = Back(t) BY InsertStep
  <2>2. t \in Dispatchers => Further(t) BY <2>1, BackFurther DEF Inside, Pushing
  <2> QED BY <2>1, <2>2, <1>0, AloneFurther
<1>5. /\ DOMAIN queue' = 1 .. Len(queue) + 1 /\ DOMAIN queue = 1 .. Len(queue) /\ Len(queue) \in Nat
      /\ queue'[Len(queue) + 1] = e /\ \A i \in 1 .. Len(queue) : queue'[i] = queue[i]
  BY <1>0, <1>2, <1>3 DEF TypeOK
<1>6. PICK N : N = Len(pushed) + 1 OBVIOUS
<1>7. /\ DOMAIN pushed' = 1 .. N /\ DOMAIN pushed = 1 .. N - 1 /\ N \in Nat \ {0}
      /\ pushed'[N] = e /\ \A i \in 1 .. N - 1 : pushed'[i] = pushed[i] /\ pushed[i] \in Events
  BY <1>0, <1>2, <1>3, <1>6 DEF TypeOK
<1>8. \A i \in DOMAIN pushed : i \in DOMAIN pushed' /\ pushed'[i] = pushed[i] /\ i < N BY <1>7
<1>9. \A i \in DOMAIN pushed' : i = N \/ i \in DOMAIN pushed BY <1>7
<1>10. \A x, y : Before(pushed, x, y) => Before(pushed', x, y) BY <1>8 DEF Before
<1>11. \A x : (\E i \in DOMAIN pushed : pushed[i] = x) => Before(pushed', x, e)
  <2>1. N \in DOMAIN pushed' BY <1>7
  <2> QED BY <2>1, <1>7, <1>8 DEF Before
<1>12. fate'[e] = "queued" /\ \A f \in Events : f # e => fate'[f] = fate[f] BY <1>0, <1>2, <1>3 DEF TypeOK
<1>13. \A i \in DOMAIN pushed : pushed[i] # e BY <1>2 DEF OrderInv
<1>14. \A i, j \in DOMAIN pushed' : pushed'[i] = pushed'[j] => i = j
  BY <1>7, <1>8, <1>9, <1>13 DEF OrderInv
<1>15. \A i \in DOMAIN pushed' : fate'[pushed'[i]] \notin {"unfired", "firing"}
  <2> SUFFICES ASSUME NEW i \in DOMAIN pushed' PROVE fate'[pushed'[i]] \notin {"unfired", "firing"} OBVIOUS
  <2>1. CASE i = N BY <2>1, <1>7, <1>12
  <2>2. CASE i \in DOMAIN pushed
    <3>1. pushed'[i] = pushed[i] /\ pushed[i] \in Events /\ pushed[i] # e BY <2>2, <1>7, <1>8, <1>13
    <3> QED BY <2>2, <3>1, <1>12 DEF OrderInv
  <2> QED BY <2>1, <2>2, <1>9
<1>16. \A f \in Events : fate'[f] \in {"queued", "held"} => \E i \in DOMAIN pushed' : pushed'[i] = f
  <2> SUFFICES ASSUME NEW f \in Events, fate'[f] \in {"queued", "held"}
               PROVE  \E i \in DOMAIN pushed' : pushed'[i] = f
    OBVIOUS
  <2>1. CASE f = e BY <2>1, <1>7
  <2>2. CASE f # e
    <3>1. PICK i \in DOMAIN pushed : pushed[i] = f BY <2>2, <1>12 DEF OrderInv
    <3> QED BY <3>1, <1>8
  <2> QED BY <2>1, <2>2
<1>17. \A n \in Nodes : latest'[n] # NULL => \E i \in DOMAIN pushed' : pushed'[i] = latest'[n]
  BY <1>8 DEF OrderInv
<1>18. \A j \in DOMAIN queue' : queue'[j] = e \/ (j \in DOMAIN queue /\ queue'[j] = queue[j]) BY <1>5
<1>19. \A j \in DOMAIN queue : queue[j] # NULL => \E i \in DOMAIN pushed : pushed[i] = queue[j]
  BY <1>0 DEF OrderInv, FateInv, TypeOK
<1>20. ASSUME NEW i \in DOMAIN queue', NEW j \in DOMAIN queue', i < j, queue'[i] # NULL, queue'[j] # NULL
       PROVE  Before(pushed', queue'[i], queue'[j])
  <2>1. i \in DOMAIN queue /\ queue'[i] = queue[i] BY <1>5, <1>20
  <2>2. CASE queue'[j] = e BY <2>1, <2>2, <1>11, <1>19, <1>20
  <2>3. CASE j \in DOMAIN queue /\ queue'[j] = queue[j]
    <3>1. Before(pushed, queue[i], queue[j]) BY <2>1, <2>3, <1>20 DEF OrderInv
    <3> QED BY <3>1, <2>1, <2>3, <1>10
  <2> QED BY <2>2, <2>3, <1>18
<1>21. ASSUME NEW d \in Dispatchers, NEW j \in DOMAIN queue', thread'[d].ev # NULL, queue'[j] # NULL
       PROVE  Before(pushed', thread'[d].ev, queue'[j])
  <2>1. thread'[d].ev = thread[d].ev /\ thread[d].ev # NULL BY <1>4, <1>21 DEF Further
  <2>2. CASE queue'[j] = e
    <3>1. thread[d].ev \in Events /\ fate[thread[d].ev] = "held"
      BY <2>1, <1>0, ThreadTyped DEF FateInv
    <3>2. \E i \in DOMAIN pushed : pushed[i] = thread[d].ev BY <3>1 DEF OrderInv
    <3> QED BY <2>1, <2>2, <3>2, <1>11
  <2>3. CASE j \in DOMAIN queue /\ queue'[j] = queue[j]
    <3>1. Before(pushed, thread[d].ev, queue[j]) BY <2>1, <2>3, <1>21 DEF OrderInv
    <3> QED BY <3>1, <2>1, <2>3, <1>10
  <2> QED BY <2>2, <2>3, <1>18
<1>22. ASSUME NEW n \in Nodes, NEW j \in DOMAIN queue', latest'[n] # NULL, queue'[j] # NULL
       PROVE  Before(pushed', latest'[n], queue'[j])
  <2>2. CASE queue'[j] = e
    <3>1. \E i \in DOMAIN pushed : pushed[i] = latest[n] BY <1>22 DEF OrderInv
    <3> QED BY <2>2, <3>1, <1>11
  <2>3. CASE j \in DOMAIN queue /\ queue'[j] = queue[j]
    <3>1. Before(pushed, latest[n], queue[j]) BY <2>3, <1>22 DEF OrderInv
    <3> QED BY <3>1, <2>3, <1>10
  <2> QED BY <2>2, <2>3, <1>18
<1>23. ASSUME NEW n \in Nodes, NEW d \in Dispatchers, latest'[n] # NULL, thread'[d].ev # NULL
       PROVE  latest'[n] = thread'[d].ev \/ Before(pushed', latest'[n], thread'[d].ev)
  <2>1. thread'[d].ev = thread[d].ev BY <1>4, <1>23 DEF Further
  <2>2. latest[n] = thread[d].ev \/ Before(pushed, latest[n], thread[d].ev) BY <2>1, <1>23 DEF OrderInv
  <2> QED BY <2>1, <2>2, <1>10
<1>24. \A d \in Dispatchers :
         /\ thread'[d].pc = "deliver" => \A n \in Nodes : latest'[n] # thread'[d].ev
         /\ thread'[d].pc \in {"walk"} \cup Inside => \A n \in Left(d)' : latest'[n] # thread'[d].ev
  <2>1. ASSUME NEW d \in Dispatchers PROVE Left(d)' \subseteq Nodes
    BY <1>0 DEF Left, Ahead, List, Bound, TypeOK
  <2> QED BY <2>1, <1>4 DEF OrderInv, Further
<1> QED BY <1>14, <1>15, <1>16, <1>17, <1>20, <1>21, <1>22, <1>23, <1>24 DEF OrderInv

LEMMA TakeOrder ==
    ASSUME EngineInv, OrderInv, NEW d \in Dispatchers, thread[d].pc \in {"pop", "event"}, queue # <<>>, Take(d),
           UNCHANGED <<running, nodes, freed, kind, pushed, due, count, stop, latest, early>>
    PROVE  OrderInv'
<1>0. TypeOK /\ PlaceInv /\ FateInv BY DEF EngineInv
<1>1. PICK e : e = Head(queue) OBVIOUS
<1>2. /\ e = queue[1] /\ 1 \in DOMAIN queue /\ e \in Events \cup {NULL} /\ queue' = Tail(queue)
      /\ (IF e = NULL THEN UNCHANGED fate ELSE fate' = [fate EXCEPT ![e] = "held"])
  BY <1>0, <1>1, TailIs DEF Take
<1>3. /\ Alone(d) /\ thread'[d].ev = e /\ thread'[d].pc \notin {"walk"} \cup Inside
      /\ (thread'[d].pc = "deliver" => e # NULL)
  BY <1>1, TakeStep DEF Inside, Pushing
<1>4. \A c \in Dispatchers : c # d => Further(c)
  BY <1>0, <1>3, WokenFurther DEF Alone, Threads
<1>5. /\ e # NULL => e \in Events /\ fate[e] = "queued" /\ fate'[e] = "held"
      /\ \A f \in Events : f # e => fate'[f] = fate[f]
  BY <1>0, <1>2 DEF TypeOK, FateInv
<1>a. NULL \notin Events BY EventAssumption DEF Events
<1>b. \A f \in Events : /\ fate'[f] \in {"unfired", "firing"} => fate[f] \in {"unfired", "firing"}
                        /\ fate'[f] \in {"queued", "held"} => fate[f] \in {"queued", "held"}
  BY <1>5, <1>a
<1>6. /\ \A i, j \in DOMAIN pushed' : pushed'[i] = pushed'[j] => i = j
      /\ \A f \in Events : fate'[f] \in {"queued", "held"} => \E i \in DOMAIN pushed' : pushed'[i] = f
      /\ \A n \in Nodes : latest'[n] # NULL => \E i \in DOMAIN pushed' : pushed'[i] = latest'[n]
  BY <1>b DEF OrderInv
<1>7. \A i \in DOMAIN pushed' : fate'[pushed'[i]] \notin {"unfired", "firing"}
  BY <1>b, <1>0 DEF OrderInv, TypeOK
<1>8. \A i \in DOMAIN queue' : queue'[i] = queue[i + 1] /\ i + 1 \in DOMAIN queue /\ 1 < i + 1 /\ i \in Nat
  BY <1>0, <1>2, TailIs
<1>9. ASSUME NEW i \in DOMAIN queue', NEW j \in DOMAIN queue', i < j, queue'[i] # NULL, queue'[j] # NULL
      PROVE  Before(pushed', queue'[i], queue'[j])
  <2>1. i + 1 < j + 1 BY <1>8, <1>9
  <2> QED BY <2>1, <1>8, <1>9 DEF OrderInv
<1>10. ASSUME NEW c \in Dispatchers, NEW j \in DOMAIN queue', thread'[c].ev # NULL, queue'[j] # NULL
       PROVE  Before(pushed', thread'[c].ev, queue'[j])
  <2>1. CASE c = d BY <2>1, <1>2, <1>3, <1>8, <1>10 DEF OrderInv
  <2>2. CASE c # d BY <2>2, <1>4, <1>8, <1>10 DEF OrderInv, Further
  <2> QED BY <2>1, <2>2
<1>11. ASSUME NEW n \in Nodes, NEW j \in DOMAIN queue', latest'[n] # NULL, queue'[j] # NULL
       PROVE  Before(pushed', latest'[n], queue'[j])
  BY <1>8, <1>11 DEF OrderInv
<1>12. ASSUME NEW n \in Nodes, NEW c \in Dispatchers, latest'[n] # NULL, thread'[c].ev # NULL
       PROVE  latest'[n] = thread'[c].ev \/ Before(pushed', latest'[n], thread'[c].ev)
  <2>1. CASE c = d BY <2>1, <1>2, <1>3, <1>12 DEF OrderInv
  <2>2. CASE c # d BY <2>2, <1>4, <1>12 DEF OrderInv, Further
  <2> QED BY <2>1, <2>2
<1>13. ASSUME NEW c \in Dispatchers, thread'[c].pc = "deliver", NEW n \in Nodes
       PROVE  latest'[n] # thread'[c].ev
  <2>1. CASE c = d
    <3> SUFFICES ASSUME latest[n] = e PROVE FALSE BY <2>1, <1>3
    <3>1. Before(pushed, e, e) BY <2>1, <1>2, <1>3, <1>13 DEF OrderInv
    <3> QED BY <3>1, <1>0, NeverBeforeItself
  <2>2. CASE c # d BY <2>2, <1>4, <1>13 DEF OrderInv, Further
  <2> QED BY <2>1, <2>2
<1>14. ASSUME NEW c \in Dispatchers, thread'[c].pc \in {"walk"} \cup Inside, NEW n \in Left(c)'
       PROVE  latest'[n] # thread'[c].ev
  <2>1. c # d BY <1>3, <1>14
  <2>2. n \in Nodes BY <1>0, <1>14 DEF Left, Ahead, List, Bound, TypeOK
  <2> QED BY <2>1, <2>2, <1>4, <1>14 DEF OrderInv, Further
<1> QED BY <1>6, <1>7, <1>9, <1>10, <1>11, <1>12, <1>13, <1>14 DEF OrderInv

\* With one dispatch thread, the event that a callback is given is the last one given
\* out, so it comes after whatever any node was given before.
LEMMA CallbackOrder ==
    ASSUME DispatchCount = 1, EngineInv, OrderInv, NEW d \in Dispatchers, Callback(d)
    PROVE  OrderInv'
<1>0. TypeOK /\ PlaceInv /\ FateInv BY DEF EngineInv
<1>a. \A c \in Dispatchers : c = d BY DEF Dispatchers
<1>1. PICK e, m : e = thread[d].ev /\ m = thread[d].node OBVIOUS
<1>2. /\ Alone(d) /\ thread'[d].ev = e /\ thread'[d].pc \in {"walk", "callback"}
      /\ Left(d)' \subseteq Left(d) \ {m} /\ e \in Events /\ m \in Bound
      /\ latest' = latest \/ latest' = [latest EXCEPT ![m] = e]
  BY <1>1, CallbackStep
<1>3. thread[d].pc = "walk" /\ UNCHANGED <<queue, fate, pushed, nodes>> BY DEF Callback
<1>4. e # NULL /\ fate[e] = "held"
  <2>1. e # NULL BY <1>2, EventAssumption DEF Events
  <2> QED BY <2>1, <1>0, <1>1 DEF FateInv
<1>5. \A n \in Nodes : latest'[n] = latest[n] \/ (n = m /\ latest'[n] = e)
  BY <1>0, <1>2 DEF TypeOK
<1>6. /\ \A i, j \in DOMAIN pushed' : pushed'[i] = pushed'[j] => i = j
      /\ \A i \in DOMAIN pushed' : fate'[pushed'[i]] \notin {"unfired", "firing"}
      /\ \A f \in Events : fate'[f] \in {"queued", "held"} => \E i \in DOMAIN pushed' : pushed'[i] = f
      /\ \A i, j \in DOMAIN queue' : i < j /\ queue'[i] # NULL /\ queue'[j] # NULL
           => Before(pushed', queue'[i], queue'[j])
  BY <1>3 DEF OrderInv
<1>7. \A n \in Nodes : latest'[n] # NULL => \E i \in DOMAIN pushed' : pushed'[i] = latest'[n]
  BY <1>2, <1>3, <1>4, <1>5 DEF OrderInv
<1>8. \A c \in Dispatchers, j \in DOMAIN queue' :
        thread'[c].ev # NULL /\ queue'[j] # NULL => Before(pushed', thread'[c].ev, queue'[j])
  BY <1>a, <1>1, <1>2, <1>3 DEF OrderInv
<1>9. \A n \in Nodes, j \in DOMAIN queue' :
        latest'[n] # NULL /\ queue'[j] # NULL => Before(pushed', latest'[n], queue'[j])
  BY <1>1, <1>3, <1>4, <1>5 DEF OrderInv
<1>10. \A n \in Nodes, c \in Dispatchers :
         latest'[n] # NULL /\ thread'[c].ev # NULL
           => latest'[n] = thread'[c].ev \/ Before(pushed', latest'[n], thread'[c].ev)
  BY <1>a, <1>1, <1>2, <1>3, <1>5 DEF OrderInv
<1>11. ASSUME NEW c \in Dispatchers, NEW n \in Left(c)' PROVE latest'[n] # thread'[c].ev
  <2>1. c = d /\ n \in Left(d) /\ n # m BY <1>a, <1>2, <1>11
  <2>2. n \in Nodes BY <2>1, <1>0 DEF Left, Ahead, List, TypeOK
  <2>3. latest[n] # e BY <2>1, <1>1, <1>3 DEF OrderInv
  <2> QED BY <2>1, <2>2, <2>3, <1>2, <1>5
<1> QED BY <1>6, <1>7, <1>8, <1>9, <1>10, <1>11, <1>a, <1>2 DEF OrderInv

LEMMA FiringOrder ==
    ASSUME EngineInv, OrderInv, NEW t \in Threads, Firing(t)
    PROVE  OrderInv'
<1>0. TypeOK /\ PlaceInv /\ FateInv BY DEF EngineInv
<1>1. CASE (Push(t) \/ PushWoken(t)) /\ ~Full BY <1>1, InsertOrder DEF Push, PushWoken
<1>2. CASE Push(t) /\ Full
  <2>1. "wait_room" \in Points BY DEF Points
  <2>2. /\ thread[t].pc = "push" /\ Goto(t, "wait_room")
        /\ UNCHANGED <<running, queue, nodes, freed, kind, fate, pushed, due, count, stop, latest, early>>
    BY <1>2 DEF Push
  <2>3. /\ Alone(t) /\ thread'[t].pc = "wait_room" /\ thread'[t].ev = thread[t].ev
        /\ thread'[t].node = thread[t].node
    BY <2>1, <2>2, GotoStep DEF events
  <2>4. Left(t)' = Left(t) BY <2>2, <2>3 DEF Left, Ahead, List, Bound, Inside, Pushing
  <2>5. \A d \in Dispatchers : Further(d)
    <3>1. Further(t) BY <2>2, <2>3, <2>4 DEF Further, Inside, Pushing
    <3> QED BY <2>2, <2>3, <3>1, <1>0, AloneFurther
  <2>6. Bound' \subseteq Nodes BY <2>2, <1>0 DEF Bound, TypeOK
  <2> QED BY <2>2, <2>5, <2>6, <1>0, QueueSame, OrderKept
<1>3. CASE PushWoken(t) /\ Full
  <2>1. /\ thread[t].pc = "room" /\ fate' = [fate EXCEPT ![thread[t].new] = "lost"] /\ thread' = Returned(t)
        /\ UNCHANGED <<running, queue, nodes, freed, kind, pushed, due, count, stop, latest, early>>
    BY <1>3 DEF PushWoken
  <2>2. Alone(t) /\ thread'[t] = Back(t) BY <2>1, LostStep
  <2>3. \A d \in Dispatchers : Further(d)
    <3>1. t \in Dispatchers => Further(t) BY <2>1, <2>2, BackFurther DEF Inside, Pushing
    <3> QED BY <2>1, <2>2, <3>1, <1>0, AloneFurther
  <2>4. \A f \in Events : /\ fate[f] \notin {"unfired", "firing"} => fate'[f] \notin {"unfired", "firing"}
                          /\ fate'[f] \in {"queued", "held"} => fate[f] \in {"queued", "held"}
    BY <2>1, <1>0 DEF TypeOK
  <2>5. Bound' \subseteq Nodes BY <2>1, <1>0 DEF Bound, TypeOK
  <2>6. \A n \in Nodes : latest'[n] \in {NULL, latest[n]} BY <2>1
  <2> QED BY <2>1, <2>3, <2>4, <2>5, <2>6, <1>0, QueueSame, OrderKept
<1> QED BY <1>1, <1>2, <1>3 DEF Firing

LEMMA FireOrder ==
    ASSUME EngineInv, OrderInv, NEW t \in Threads, NEW k \in Kinds, Fire(t, k)
    PROVE  OrderInv'
<1>0. TypeOK /\ PlaceInv /\ FateInv BY DEF EngineInv
<1>1. UNCHANGED <<queue, nodes, pushed, latest>> BY DEF Fire
<1>2. /\ Alone(t) /\ thread[t].pc \in {"idle", "callback"} /\ thread'[t].pc # "deliver"
      /\ thread'[t].ev = thread[t].ev /\ (t \in Dispatchers => Left(t)' = Left(t))
      /\ \A f \in Events : f \in Fired => fate'[f] = fate[f]
      /\ \A f \in Events : f \notin Fired => fate'[f] \notin {"queued", "held"}
  BY FireStep
<1>3. t \in Dispatchers => Further(t)
  <2>1. t \in Dispatchers => thread[t].pc = "callback" BY <1>0, <1>2 DEF PlaceInv, PlaceOK
  <2> QED BY <2>1, <1>2 DEF Further, Inside
<1>4. \A d \in Dispatchers : Further(d) BY <1>0, <1>1, <1>2, <1>3, AloneFurther
<1>5. \A f \in Events : /\ fate[f] \notin {"unfired", "firing"} => fate'[f] \notin {"unfired", "firing"}
                        /\ fate'[f] \in {"queued", "held"} => fate[f] \in {"queued", "held"}
  BY <1>0, <1>2 DEF FateInv
<1>6. Bound' \subseteq Nodes BY <1>0, <1>1 DEF Bound, TypeOK
<1> QED BY <1>0, <1>1, <1>4, <1>5, <1>6, QueueSame, OrderKept

\* A dispatch thread that neither takes an event nor calls a callback.
LEMMA FurtherOrder ==
    ASSUME EngineInv, OrderInv, NEW d \in Dispatchers, Alone(d), Further(d),
           UNCHANGED <<queue, nodes, pushed, latest>>,
           \A f \in Events : fate'[f] = fate[f] \/ fate'[f] \in {"delivered", "destroyed"}
    PROVE  OrderInv'
<1>0. TypeOK /\ PlaceInv /\ d \in Threads BY DEF EngineInv, Threads
<1>1. \A c \in Dispatchers : Further(c) BY <1>0, AloneFurther
<1>2. \A f \in Events : /\ fate[f] \notin {"unfired", "firing"} => fate'[f] \notin {"unfired", "firing"}
                        /\ fate'[f] \in {"queued", "held"} => fate[f] \in {"queued", "held"}
  OBVIOUS
<1>3. Bound' \subseteq Nodes BY <1>0 DEF Bound, TypeOK
<1> QED BY <1>0, <1>1, <1>2, <1>3, QueueSame, OrderKept

LEMMA DispatchOrder ==
    ASSUME DispatchCount = 1, EngineInv, OrderInv, NEW d \in Dispatchers, Dispatch(d)
    PROVE  OrderInv'
<1>0. TypeOK /\ PlaceInv /\ FateInv /\ d \in Threads BY DEF EngineInv, Threads
<1>a. {"pop", "ending", "wait_event", "top"} \subseteq Points BY DEF Points
<1>1. CASE DispatchTest(d) \/ (Pop(d) /\ queue = <<>>) \/ (PopWoken(d) /\ queue = <<>>)
  <2>1. PICK at \in {"pop", "ending", "wait_event", "top"} :
          thread[d].pc \in {"top", "pop", "event"} /\ Goto(d, at)
    BY <1>1 DEF DispatchTest, Pop, PopWoken
  <2>2. UNCHANGED <<running, queue, nodes, freed, kind, fate, pushed, due, count, stop, latest, early>>
    BY <1>1 DEF DispatchTest, Pop, PopWoken, events
  <2>3. Alone(d) /\ thread'[d].pc = at /\ thread'[d].ev = thread[d].ev
    BY <2>1, <2>2, <1>0, <1>a, GotoStep DEF events
  <2>4. Further(d) BY <2>1, <2>3 DEF Further, Inside, Pushing
  <2> QED BY <2>2, <2>3, <2>4, FurtherOrder
<1>2. CASE (Pop(d) \/ PopWoken(d)) /\ queue # <<>> BY <1>2, TakeOrder DEF Pop, PopWoken
<1>3. CASE Deliver(d) /\ running
  <2>1. Alone(d) /\ thread'[d].pc = "walk" /\ thread'[d].ev = thread[d].ev BY <1>3, BeginStep
  <2>2. thread[d].pc = "deliver" /\ UNCHANGED <<queue, nodes, pushed, latest, fate>> BY <1>3 DEF Deliver
  <2>3. Further(d) BY <2>1, <2>2 DEF Further
  <2> QED BY <2>1, <2>2, <2>3, FurtherOrder
<1>4. CASE Deliver(d) /\ ~running
  <2>1. /\ thread[d].pc = "deliver" /\ fate' = [fate EXCEPT ![thread[d].ev] = "destroyed"]
        /\ thread' = [thread EXCEPT ![d].pc = "top", ![d].ev = NULL]
        /\ UNCHANGED <<running, queue, nodes, freed, kind, pushed, due, count, stop, latest, early>>
    BY <1>4 DEF Deliver
  <2>2. Alone(d) /\ thread'[d].ev = NULL /\ thread'[d].pc = "top" BY <2>1, DroppedStep
  <2>3. Further(d) BY <2>2 DEF Further, Inside, Pushing
  <2>4. \A f \in Events : fate'[f] = fate[f] \/ fate'[f] \in {"delivered", "destroyed"}
    BY <2>1, <1>0 DEF TypeOK
  <2> QED BY <2>1, <2>2, <2>3, <2>4, FurtherOrder
<1>5. CASE Callback(d) BY <1>5, CallbackOrder
<1>6. CASE Return(d)
  <2>1. Alone(d) /\ thread'[d] = Back(d) BY <1>6, ReturnStep
  <2>2. thread[d].pc = "callback" /\ UNCHANGED <<queue, nodes, pushed, latest, fate>> BY <1>6 DEF Return, events
  <2>3. Further(d) BY <2>1, <2>2, BackFurther DEF Inside
  <2> QED BY <2>1, <2>2, <2>3, FurtherOrder
<1>7. CASE Delivered(d)
  <2>1. Alone(d) /\ thread'[d].ev = NULL /\ thread'[d].pc = "top" BY <1>7, DroppedStep DEF Delivered
  <2>2. Further(d) BY <2>1 DEF Further, Inside, Pushing
  <2>3. \A f \in Events : fate'[f] = fate[f] \/ fate'[f] \in {"delivered", "destroyed"}
    BY <1>7, <1>0 DEF Delivered, TypeOK
  <2>4. UNCHANGED <<queue, nodes, pushed, latest>> BY <1>7 DEF Delivered
  <2> QED BY <2>1, <2>2, <2>3, <2>4, FurtherOrder
<1>8. CASE DispatchEnd(d)
  <2>1. Alone(d) /\ thread'[d].pc = "ended" /\ thread'[d].ev = thread[d].ev BY <1>8, EndStep
  <2>2. UNCHANGED <<queue, nodes, pushed, latest, fate>> BY <1>8 DEF DispatchEnd, events
  <2>3. Further(d) BY <2>1 DEF Further, Inside, Pushing
  <2> QED BY <2>1, <2>2, <2>3, FurtherOrder
<1> QED BY <1>1, <1>2, <1>3, <1>4, <1>5, <1>6, <1>7, <1>8 DEF Dispatch

LEMMA BindingOrder ==
    ASSUME EngineInv, OrderInv, (\E n \in Nodes : Bind(n) \/ Unbind(n)) \/ (\E c : UnbindCallback(c))
    PROVE  OrderInv'
<1>0. TypeOK /\ PlaceInv BY DEF EngineInv
<1>1. Readers = {} /\ UNCHANGED <<queue, pushed, fate, thread>>
  BY DEF Bind, Unbind, UnbindCallback, events
<1>2. \A d \in Dispatchers : Further(d)
  BY <1>0, <1>1, NoReaders DEF Further
<1>3. \A n \in Nodes : latest'[n] \in {NULL, latest[n]}
  BY DEF Bind, Unbind, UnbindCallback, Remove
<1>4. Bound' \subseteq Nodes
  <2>1. Bound \subseteq Nodes BY <1>0 DEF TypeOK
  <2>2. CASE \E n \in Nodes : Bind(n) BY <2>1, <2>2 DEF Bind, Bound
  <2>3. CASE (\E n \in Nodes : Unbind(n)) \/ \E c : UnbindCallback(c)
    <3>1. PICK S : Remove(S) BY <2>3 DEF Unbind, UnbindCallback
    <3> QED BY <2>1, <3>1 DEF Remove, Bound
  <2> QED BY <2>2, <2>3
<1> QED BY <1>0, <1>1, <1>2, <1>3, <1>4, QueueSame, OrderKept

LEMMA StopOrder ==
    ASSUME EngineInv, OrderInv, JoinInv, StopFlag \/ Shutdown \/ UNCHANGED vars
    PROVE  OrderInv'
<1>0. TypeOK /\ PlaceInv /\ FateInv BY DEF EngineInv
<1>1. Nobody
  BY <1>0, StopFlagStep, StopNullsStep, StopInterruptStep, StopJoinStep, StopDrainStep, NobodyIs
     DEF Shutdown, vars
<1>2. UNCHANGED <<nodes, pushed, latest>>
  BY DEF Shutdown, StopFlag, StopNulls, StopInterrupt, StopJoin, StopJoined, StopDrain, vars, events
<1>3. \A d \in Dispatchers : Further(d) BY <1>0, <1>1, <1>2, NobodyFurther
<1>4. \/ queue' = queue
      \/ queue # <<>> /\ queue' = Tail(queue)
      \/ queue' = Append(queue, NULL)
  BY DEF Shutdown, StopFlag, StopNulls, StopInterrupt, StopJoin, StopJoined, StopDrain, vars
<1>5. \A f \in Events : fate'[f] = fate[f] \/ fate'[f] \in {"delivered", "destroyed"}
  BY DEF Shutdown, StopFlag, StopNulls, StopInterrupt, StopJoin, StopJoined, StopDrain, vars, events
<1>6. Bound' \subseteq Nodes BY <1>0, <1>2 DEF Bound, TypeOK
<1> QED BY <1>0, <1>2, <1>3, <1>4, <1>5, <1>6, QueueSame, OrderKept

LEMMA OrderStep ==
    ASSUME DispatchCount = 1, EngineInv, JoinInv, OrderInv, [Next]_vars
    PROVE  OrderInv'
<1>1. ASSUME NEW t \in Threads, NEW k \in Kinds, Fire(t, k) PROVE OrderInv' BY <1>1, FireOrder
<1>2. ASSUME NEW t \in Threads, Firing(t) PROVE OrderInv' BY <1>2, FiringOrder
<1>3. ASSUME NEW d \in Dispatchers, Dispatch(d) PROVE OrderInv' BY <1>3, DispatchOrder
<1>4. ASSUME NEW n \in Nodes, NEW c, Bind(n) \/ Unbind(n) \/ UnbindCallback(c) PROVE OrderInv'
  BY <1>4, BindingOrder
<1>5. CASE StopFlag \/ Shutdown \/ UNCHANGED vars BY <1>5, StopOrder
<1> QED BY <1>1, <1>2, <1>3, <1>4, <1>5 DEF Next

LEMMA InitOrder == Init => OrderInv
<1> SUFFICES ASSUME Init PROVE OrderInv OBVIOUS
<1>1. /\ DOMAIN pushed = {} /\ DOMAIN queue = {} /\ \A e \in Events : fate[e] = "unfired"
      /\ \A n \in Nodes : latest[n] = NULL
  BY DEF Init
<1>2. \A d \in Dispatchers : thread[d].pc = "top" /\ thread[d].ev = NULL BY DEF Init, Threads
<1> QED BY <1>1, <1>2 DEF OrderInv, Inside, Pushing

-----------------------------------------------------------------------------
(* What shutdown leaves behind *)

\* The dispatch threads that have ended stay so, and are not counted.
EndedStay == \A d \in Dispatchers : thread[d].pc = "ended" => thread'[d].pc = "ended"

LEMMA CountFalls ==
    ASSUME TypeOK, TypeOK', EndedStay
    PROVE  count' \in Nat /\ count \in Nat /\ count' <= count
<1> DEFINE L == {d \in Dispatchers : thread[d].pc # "ended"}
           M == {d \in Dispatchers : thread'[d].pc # "ended"}
<1>1. IsFiniteSet(Dispatchers) BY EventAssumption, FS_Interval DEF Dispatchers
<1>2. IsFiniteSet(L) /\ M \subseteq L BY <1>1, FS_Subset DEF EndedStay
<1>3. IsFiniteSet(M) /\ Cardinality(M) <= Cardinality(L) BY <1>2, FS_Subset
<1>4. Cardinality(M) \in Nat /\ Cardinality(L) \in Nat BY <1>2, <1>3, FS_CardinalityType
<1> QED BY <1>3, <1>4 DEF TypeOK

\* A step outside of shutdown.
LEMMA StopKept ==
    ASSUME StopInv, TypeOK, TypeOK', EndedStay, UNCHANGED <<running, stop, early>>,
           \A e \in early : /\ fate'[e] \in {"queued", "held", "delivered", "destroyed"}
                            /\ fate'[e] = "queued" => fate[e] = "queued",
           running => \A i \in DOMAIN queue' : queue'[i] # NULL,
           \A i, j \in DOMAIN queue' : i < j /\ queue'[i] = NULL => queue'[j] \notin early
    PROVE  StopInv'
<1>1. count' \in Nat /\ count \in Nat /\ count' <= count BY CountFalls
<1>2. 2 * count <= DispatchCount => 2 * count' <= DispatchCount BY <1>1, EventAssumption
<1> QED BY <1>2 DEF StopInv, EndedStay

\* The NULLs of the queue stay behind what was queued when shutdown began.
LEMMA NullsBehind ==
    ASSUME TypeOK, StopInv,
           \/ queue' = queue
           \/ queue # <<>> /\ queue' = Tail(queue)
           \/ \E x : queue' = Append(queue, x) /\ x \notin early /\ x \in Events \cup {NULL} /\ (running => x # NULL)
    PROVE  /\ running => \A i \in DOMAIN queue' : queue'[i] # NULL
           /\ \A i, j \in DOMAIN queue' : i < j /\ queue'[i] = NULL => queue'[j] \notin early
<1>1. CASE queue' = queue BY <1>1 DEF StopInv
<1>2. CASE queue # <<>> /\ queue' = Tail(queue)
  <2>0. DOMAIN queue' = 1 .. Len(queue) - 1 /\ Len(queue) \in Nat BY <1>2, TailIs
  <2>1. \A i \in DOMAIN queue' : queue'[i] = queue[i + 1] /\ i + 1 \in DOMAIN queue
    BY <1>2, TailIs
  <2>2. \A i, j \in DOMAIN queue' : i < j => i + 1 < j + 1 BY <2>0
  <2> QED BY <2>1, <2>2 DEF StopInv
<1>3. ASSUME NEW x, queue' = Append(queue, x), x \notin early, x \in Events \cup {NULL}, running => x # NULL
      PROVE  /\ running => \A i \in DOMAIN queue' : queue'[i] # NULL
             /\ \A i, j \in DOMAIN queue' : i < j /\ queue'[i] = NULL => queue'[j] \notin early
  <2>1. PICK N : N = Len(queue) OBVIOUS
  <2>2. /\ DOMAIN queue' = 1 .. N + 1 /\ DOMAIN queue = 1 .. N /\ N \in Nat
        /\ queue'[N + 1] = x /\ \A i \in 1 .. N : queue'[i] = queue[i]
    BY <1>3, <2>1 DEF TypeOK
  <2>3. \A i \in DOMAIN queue' : i = N + 1 \/ i \in DOMAIN queue BY <2>2
  <2>4. \A i, j \in DOMAIN queue' : i < j => i \in DOMAIN queue BY <2>2
  <2> QED BY <2>2, <2>3, <2>4, <1>3 DEF StopInv
<1> QED BY <1>1, <1>2, <1>3

\* The fates that shutdown accounts for, after a step that moves at most one event on.
LEMMA EarlyKept ==
    ASSUME TypeOK, StopInv, NEW e,
           \A f \in Events : f # e => fate'[f] = fate[f],
           \/ e \notin Events
           \/ fate[e] \in {"unfired", "firing"}
           \/ fate'[e] \in {"held", "delivered", "destroyed"}
    PROVE  \A f \in early : /\ fate'[f] \in {"queued", "held", "delivered", "destroyed"}
                            /\ fate'[f] = "queued" => fate[f] = "queued"
<1>1. \A f \in early : f \in Events /\ fate[f] \in {"queued", "held", "delivered", "destroyed"}
  BY DEF TypeOK, StopInv
<1> QED BY <1>1

LEMMA EndedStays ==
    ASSUME PlaceInv,
           Nobody \/ \E t \in Threads : Alone(t) /\ thread[t].pc # "ended"
    PROVE  EndedStay
<1>1. Dispatchers \subseteq Threads BY DEF Threads
<1> QED BY <1>1, AwokenPlace DEF EndedStay, Nobody, Alone

LEMMA FiringStop ==
    ASSUME EngineInv, EngineInv', StopInv, NEW t \in Threads, Firing(t)
    PROVE  StopInv'
<1>0. TypeOK /\ PlaceInv /\ FateInv BY DEF EngineInv
<1>1. UNCHANGED <<running, stop, early>> BY DEF Firing, Push, PushWoken
<1>2. thread[t].pc \in {"push", "room"} /\ thread[t].pc # "ended" BY DEF Firing, Push, PushWoken
<1>3. PICK e : e = thread[t].new OBVIOUS
<1>4. e \in Events /\ fate[e] = "firing" /\ e # NULL
  <2>1. e # NULL BY <1>0, <1>2, <1>3 DEF PlaceInv, PlaceOK, Pushing
  <2> QED BY <2>1, <1>0, <1>3, ThreadTyped DEF FateInv
<1>5. e \notin early BY <1>4 DEF StopInv
<1>6. Alone(t)
  <2>1. CASE ~Full BY <2>1, InsertStep DEF Firing, Push, PushWoken
  <2>2. CASE Full /\ Push(t)
    <3>1. "wait_room" \in Points BY DEF Points
    <3> QED BY <2>2, <3>1, GotoStep DEF Push, events
  <2>3. CASE Full /\ PushWoken(t) BY <2>3, LostStep DEF PushWoken
  <2> QED BY <2>1, <2>2, <2>3 DEF Firing
<1>7. \A f \in Events : f # e => fate'[f] = fate[f]
  BY <1>0, <1>3 DEF Firing, Push, PushWoken, Insert, TypeOK
<1>8. queue' = queue \/ queue' = Append(queue, e) BY <1>3 DEF Firing, Push, PushWoken, Insert
<1>9. /\ running => \A i \in DOMAIN queue' : queue'[i] # NULL
      /\ \A i, j \in DOMAIN queue' : i < j /\ queue'[i] = NULL => queue'[j] \notin early
  BY <1>0, <1>4, <1>5, <1>8, NullsBehind
<1>10. \A f \in early : /\ fate'[f] \in {"queued", "held", "delivered", "destroyed"}
                        /\ fate'[f] = "queued" => fate[f] = "queued"
  BY <1>0, <1>4, <1>7, EarlyKept
<1>11. EndedStay BY <1>0, <1>2, <1>6, EndedStays
<1> QED BY <1>0, <1>1, <1>9, <1>10, <1>11, StopKept DEF EngineInv

LEMMA FireStop ==
    ASSUME EngineInv, EngineInv', StopInv, NEW t \in Threads, NEW k \in Kinds, Fire(t, k)
    PROVE  StopInv'
<1>0. TypeOK /\ PlaceInv /\ FateInv BY DEF EngineInv
<1>1. UNCHANGED <<running, stop, early, queue>> BY DEF Fire
<1>2. Alone(t) /\ thread[t].pc # "ended" BY FireStep
<1>3. \A f \in Events : f \in Fired => fate'[f] = fate[f] BY FireStep
<1>4. \A f \in early : f \in Events /\ f \in Fired
  BY <1>0 DEF StopInv, FateInv, TypeOK
<1>5. \A f \in early : /\ fate'[f] \in {"queued", "held", "delivered", "destroyed"}
                       /\ fate'[f] = "queued" => fate[f] = "queued"
  BY <1>3, <1>4 DEF StopInv
<1>6. EndedStay BY <1>0, <1>2, EndedStays
<1> QED BY <1>0, <1>1, <1>5, <1>6, NullsBehind, StopKept DEF EngineInv

LEMMA DispatchStop ==
    ASSUME EngineInv, EngineInv', StopInv, NEW d \in Dispatchers, Dispatch(d)
    PROVE  StopInv'
<1>0. TypeOK /\ PlaceInv /\ FateInv /\ d \in Threads BY DEF EngineInv, Threads
<1>1. UNCHANGED <<running, stop, early>>
  BY DEF Dispatch, DispatchTest, Pop, PopWoken, Deliver, Callback, Return, Delivered, DispatchEnd
<1>2. Alone(d) BY DispatchStep
<1>3. thread[d].pc # "ended"
  BY DEF Dispatch, DispatchTest, Pop, PopWoken, Deliver, Callback, Return, Delivered, DispatchEnd
<1>4. EndedStay BY <1>0, <1>2, <1>3, EndedStays
<1>5. queue' = queue \/ (queue # <<>> /\ queue' = Tail(queue))
  BY DEF Dispatch, DispatchTest, Pop, PopWoken, Deliver, Callback, Return, Delivered, DispatchEnd, Take
<1>6. \A f \in Events : fate'[f] = fate[f] \/ fate'[f] \in {"held", "delivered", "destroyed"}
  <2>1. CASE Pop(d) \/ PopWoken(d)
    <3>1. UNCHANGED fate \/ fate' = [fate EXCEPT ![Head(queue)] = "held"] BY <2>1 DEF Pop, PopWoken, Take
    <3> QED BY <3>1, <1>0 DEF TypeOK
  <2>2. CASE Deliver(d) \/ Delivered(d)
    <3>1. \/ UNCHANGED fate
          \/ \E o \in {"delivered", "destroyed"} : fate' = [fate EXCEPT ![thread[d].ev] = o]
      BY <2>2 DEF Deliver, Delivered
    <3> QED BY <3>1, <1>0 DEF TypeOK
  <2>3. CASE DispatchTest(d) \/ Callback(d) \/ Return(d) \/ DispatchEnd(d)
    BY <2>3 DEF DispatchTest, Callback, Return, DispatchEnd, events
  <2> QED BY <2>1, <2>2, <2>3 DEF Dispatch
<1>7. \A f \in early : /\ fate'[f] \in {"queued", "held", "delivered", "destroyed"}
                       /\ fate'[f] = "queued" => fate[f] = "queued"
  BY <1>0, <1>6 DEF StopInv, TypeOK
<1> QED BY <1>0, <1>1, <1>4, <1>5, <1>7, NullsBehind, StopKept DEF EngineInv

LEMMA BindingStop ==
    ASSUME StopInv, (\E n, c : Bind(n) \/ Unbind(n) \/ UnbindCallback(c)) \/ UNCHANGED vars
    PROVE  StopInv'
<1>1. UNCHANGED <<running, queue, fate, thread, count, stop, early>>
  BY DEF Bind, Unbind, UnbindCallback, events, vars
<1> QED BY <1>1 DEF StopInv

LEMMA ShutdownStop ==
    ASSUME EngineInv, JoinInv, StopInv, StopFlag \/ Shutdown
    PROVE  StopInv'
<1>0. TypeOK /\ PlaceInv /\ FateInv BY DEF EngineInv
<1>b. stop.x \in 0 .. DispatchCount /\ count \in 0 .. DispatchCount /\ DispatchCount \in Nat
      /\ Dispatchers = 1 .. DispatchCount
  BY <1>0, CountIs, EventAssumption DEF TypeOK, Dispatchers
<1>c. NULL \notin Events /\ early \subseteq Events BY <1>0, EventAssumption DEF Events, TypeOK
<1>d. Nobody
  BY StopFlagStep, StopNullsStep, StopInterruptStep, StopJoinStep, StopDrainStep DEF Shutdown
<1>e. EndedStay BY <1>0, <1>d, EndedStays
<1>1. CASE StopFlag
  <2>1. /\ running' = FALSE /\ stop' = [pc |-> "nulls", x |-> 0] /\ stop.pc = "up"
        /\ early' = {e \in Events : fate[e] \in {"queued", "held"}} /\ UNCHANGED <<queue, fate>>
    BY <1>1 DEF StopFlag, Stop, events
  <2>2. \A i \in DOMAIN queue' : queue'[i] # NULL BY <2>1 DEF StopInv
  <2> QED BY <2>1, <2>2 DEF StopInv
<1>2. CASE StopNulls
  <2>1. /\ stop.pc = "nulls" /\ stop'.pc \in {"nulls", "interrupt"} /\ UNCHANGED <<running, early, fate>>
        /\ (queue' = queue \/ queue' = Append(queue, NULL))
    BY <1>2 DEF StopNulls, Stop, events
  <2>2. ~running /\ NULL \notin early BY <2>1, <1>c DEF StopInv
  <2>3. \A i, j \in DOMAIN queue' : i < j /\ queue'[i] = NULL => queue'[j] \notin early
    BY <2>1, <2>2, <1>0, NullsBehind
  <2> QED BY <2>1, <2>2, <2>3 DEF StopInv
<1>3. CASE StopInterrupt
  <2>1. /\ stop.pc = "interrupt" /\ stop' = [pc |-> "join", x |-> 0] /\ UNCHANGED <<running, early, fate, queue>>
    BY <1>3 DEF StopInterrupt, Stop, events
  <2>2. \A d \in Dispatchers : ~(d <= 0) BY <1>b
  <2> QED BY <2>1, <2>2 DEF StopInv
<1>4. CASE StopJoin
  <2>1. /\ stop.pc = "join" /\ UNCHANGED <<running, early, fate, queue, thread>>
        /\ stop' = [pc |-> IF stop.x < count THEN "joining" ELSE "drain", x |-> stop.x]
    BY <1>4 DEF StopJoin, Stop, events
  <2>2. CASE stop.x < count BY <2>1, <2>2 DEF StopInv
  <2>3. CASE ~(stop.x < count)
    <3> DEFINE L == {d \in Dispatchers : thread[d].pc # "ended"}
    <3>1. L \subseteq (stop.x + 1) .. DispatchCount
      <4>1. \A d \in Dispatchers : d <= stop.x => thread[d].pc = "ended" BY <2>1 DEF StopInv
      <4> QED BY <4>1, <1>b
    <3>2. /\ IsFiniteSet((stop.x + 1) .. DispatchCount)
          /\ Cardinality((stop.x + 1) .. DispatchCount) = DispatchCount - stop.x
      <4>1. stop.x + 1 \in Int /\ DispatchCount \in Int BY <1>b
      <4>2. IsFiniteSet((stop.x + 1) .. DispatchCount) BY <4>1, FS_Interval
      <4>3. CASE stop.x = DispatchCount
        <5>1. (stop.x + 1) .. DispatchCount = {} BY <4>3, <1>b
        <5> QED BY <5>1, <4>2, <4>3, <1>b, FS_EmptySet
      <4>4. CASE stop.x < DispatchCount
        <5>1. Cardinality((stop.x + 1) .. DispatchCount)
                = IF stop.x + 1 > DispatchCount THEN 0 ELSE DispatchCount - (stop.x + 1) + 1
          BY <4>1, FS_Interval
        <5> QED BY <5>1, <4>2, <4>4, <1>b
      <4> QED BY <4>3, <4>4, <1>b
    <3>3. count <= DispatchCount - stop.x
      <4>1. Cardinality(L) <= Cardinality((stop.x + 1) .. DispatchCount) BY <3>1, <3>2, FS_Subset
      <4> QED BY <4>1, <3>2, <1>0 DEF TypeOK
    <3>4. 2 * count <= DispatchCount BY <3>3, <2>3, <1>b
    <3>5. count' = count BY <1>4 DEF StopJoin
    <3> QED BY <2>1, <2>3, <3>4, <3>5 DEF StopInv
  <2> QED BY <2>2, <2>3
<1>5. CASE StopJoined
  <2>1. /\ stop.pc = "joining" /\ thread[stop.x + 1].pc = "ended" /\ stop' = [pc |-> "join", x |-> stop.x + 1]
        /\ UNCHANGED <<running, early, fate, queue, thread>>
    BY <1>5 DEF StopJoined, Stop, events
  <2>2. \A d \in Dispatchers : d <= stop.x + 1 => d <= stop.x \/ d = stop.x + 1 BY <1>b
  <2> QED BY <2>1, <2>2 DEF StopInv
<1>6. CASE StopDrain
  <2>1. /\ stop.pc = "drain" /\ UNCHANGED <<running, early>> /\ ~running
        /\ count' = count /\ 2 * count <= DispatchCount
    BY <1>6 DEF StopDrain, StopInv
  <2>2. CASE queue = <<>>
    <3>1. stop' = [pc |-> "done", x |-> 0] /\ UNCHANGED <<queue, fate>> BY <1>6, <2>2 DEF StopDrain, Stop
    <3>2. \A e \in early : fate[e] # "queued" BY <2>2, <1>0, <1>c DEF FateInv
    <3> QED BY <2>1, <3>1, <3>2 DEF StopInv
  <2>3. CASE queue # <<>>
    <3>1. PICK e : e = Head(queue) OBVIOUS
    <3>2. /\ queue' = Tail(queue) /\ stop' = [pc |-> IF e = NULL THEN "done" ELSE "drain", x |-> 0]
          /\ fate' = [f \in Events |-> IF f = e THEN "destroyed" ELSE fate[f]]
      BY <1>6, <2>3, <3>1 DEF StopDrain, Stop
    <3>3. \A i, j \in DOMAIN queue' : i < j /\ queue'[i] = NULL => queue'[j] \notin early
      BY <2>3, <3>2, <1>0, NullsBehind
    <3>4. \A f \in early : fate'[f] \in {"queued", "held", "delivered", "destroyed"}
      BY <3>2, <1>c DEF StopInv
    <3>5. ASSUME e = NULL, NEW f \in early PROVE fate'[f] # "queued"
      <4>1. f \in Events /\ f # e /\ fate'[f] = fate[f] BY <3>2, <3>5, <1>c
      <4> SUFFICES ASSUME fate[f] = "queued" PROVE FALSE BY <4>1
      <4>2. PICK i \in DOMAIN queue : queue[i] = f BY <4>1, <1>0 DEF FateInv
      <4>3. /\ queue[1] = NULL /\ 1 \in DOMAIN queue /\ DOMAIN queue = 1 .. Len(queue) /\ Len(queue) \in Nat
        BY <2>3, <3>1, <3>2, <3>5, <1>0, TailIs
      <4>4. 1 < i BY <4>1, <4>2, <4>3, <3>5
      <4> QED BY <4>2, <4>3, <4>4, <3>5 DEF StopInv
    <3> QED BY <2>1, <3>2, <3>3, <3>4, <3>5 DEF StopInv
  <2> QED BY <2>2, <2>3
<1> QED BY <1>1, <1>2, <1>3, <1>4, <1>5, <1>6 DEF Shutdown

LEMMA StopStep ==
    ASSUME EngineInv, JoinInv, StopInv, [Next]_vars
    PROVE  StopInv'
<1>0. EngineInv' BY EngineStep
<1>1. ASSUME NEW t \in Threads, NEW k \in Kinds, Fire(t, k) PROVE StopInv' BY <1>0, <1>1, FireStop
<1>2. ASSUME NEW t \in Threads, Firing(t) PROVE StopInv' BY <1>0, <1>2, FiringStop
<1>3. ASSUME NEW d \in Dispatchers, Dispatch(d) PROVE StopInv' BY <1>0, <1>3, DispatchStop
<1>4. ASSUME NEW n, NEW c, Bind(n) \/ Unbind(n) \/ UnbindCallback(c) PROVE StopInv'
  BY <1>4, BindingStop
<1>5. CASE StopFlag \/ Shutdown BY <1>5, ShutdownStop
<1>6. CASE UNCHANGED vars BY <1>6, BindingStop
<1> QED BY <1>1, <1>2, <1>3, <1>4, <1>5, <1>6 DEF Next

\* The inductive invariant of the engine with the one dispatch thread that
\* switch_event_init starts by default.
THEOREM InvarianceOfOne ==
    ASSUME DispatchCount = 1
    PROVE  Spec => [](OneInv /\ JoinInv)
<1>1. Init => OneInv /\ JoinInv BY InitEngine, InitOrder DEF Init, JoinInv, OneInv
<1>2. OneInv /\ JoinInv /\ [Next]_vars => (OneInv /\ JoinInv)'
  BY EngineStep, JoinStep, OrderStep DEF OneInv
<1> QED BY <1>1, <1>2, PTL DEF Spec

\* The inductive invariant of the shutdown, whatever the number of dispatch threads.
THEOREM InvarianceOfClosing == Spec => [](ClosingInv /\ JoinInv)
<1>1. Init => ClosingInv /\ JoinInv
  <2>1. Init => StopInv BY EventAssumption DEF Init, StopInv
  <2> QED BY <2>1, InitEngine DEF Init, JoinInv, ClosingInv
<1>2. ClosingInv /\ JoinInv /\ [Next]_vars => (ClosingInv /\ JoinInv)'
  BY EngineStep, JoinStep, StopStep DEF ClosingInv
<1> QED BY <1>1, <1>2, PTL DEF Spec

\* With one dispatch thread every callback sees the events in the order in which the queue
\* took them, whoever fires them, callbacks included, and never the same one twice.
THEOREM CallbacksInOrder ==
    ASSUME DispatchCount = 1
    PROVE  Spec => []InOrder
<1>1. ASSUME OneInv, NEW d \in Dispatchers, thread[d].pc = "walk", thread[d].node # NULL,
             latest[thread[d].node] # NULL
      PROVE  PlaceOf(latest[thread[d].node]) < PlaceOf(thread[d].ev)
  <2>0. TypeOK /\ PlaceInv /\ NodeInv /\ OrderInv BY <1>1 DEF OneInv, EngineInv
  <2>1. PICK n, e, l : n = thread[d].node /\ e = thread[d].ev /\ l = latest[n] OBVIOUS
  <2>2. n \in Bound /\ n \in Nodes BY <1>1, <2>0, <2>1 DEF NodeInv, TypeOK
  <2>3. n \in Left(d)
    <3>1. nodes[n] \in Nat BY <2>0, <2>2, NodesFinite DEF TypeOK
    <3> QED BY <1>1, <2>1, <2>2, <3>1 DEF Left, Ahead, List, Inside, Pushing
  <2>4. l # NULL /\ e # NULL /\ l # e
    <3>1. e # NULL BY <1>1, <2>0, <2>1 DEF PlaceInv, PlaceOK, Threads
    <3> QED BY <1>1, <2>0, <2>1, <2>3, <3>1 DEF OrderInv
  <2>5. Before(pushed, l, e) BY <2>0, <2>1, <2>2, <2>4 DEF OrderInv
  <2>6. PICK i, j \in DOMAIN pushed : i < j /\ pushed[i] = l /\ pushed[j] = e BY <2>5 DEF Before
  <2>7. PlaceOf(l) = i /\ PlaceOf(e) = j BY <2>0, <2>6 DEF OrderInv, PlaceOf
  <2> QED BY <2>1, <2>6, <2>7
<1>2. OneInv => InOrder BY <1>1 DEF InOrder
<1> QED BY <1>2, InvarianceOfOne, PTL

\* When switch_event_shutdown returns, every event that was queued or held when it began
\* was delivered or destroyed, or is in the hands of a dispatch thread that the join loop
\* did not come to; of these there are none with one thread, and with any number of
\* threads they are at most half.
THEOREM ShutdownCompletes == Spec => []ShutdownIsComplete
<1>1. ASSUME ClosingInv, stop.pc = "done"
      PROVE  /\ 2 * Cardinality({d \in Dispatchers : thread[d].pc # "ended"}) <= DispatchCount
             /\ \A e \in early : \/ fate[e] \in {"delivered", "destroyed"}
                               \/ \E d \in {c \in Dispatchers : thread[c].pc # "ended"} : thread[d].ev = e
  <2>1. TypeOK /\ PlaceInv /\ FateInv /\ StopInv BY <1>1 DEF ClosingInv, EngineInv
  <2>2. 2 * Cardinality({d \in Dispatchers : thread[d].pc # "ended"}) <= DispatchCount
    BY <1>1, <2>1 DEF StopInv, TypeOK
  <2>3. ASSUME NEW e \in early, fate[e] \notin {"delivered", "destroyed"}
        PROVE  \E d \in {c \in Dispatchers : thread[c].pc # "ended"} : thread[d].ev = e
    <3>1. e \in Events /\ e # NULL /\ fate[e] = "held"
      BY <1>1, <2>1, <2>3, EventAssumption DEF TypeOK, Events, StopInv
    <3>2. PICK d \in Dispatchers : thread[d].ev = e BY <3>1, <2>1 DEF FateInv
    <3>3. d \in Threads /\ thread[d].pc # "ended"
      BY <3>1, <3>2, <2>1 DEF Threads, PlaceInv, PlaceOK, Inside, Pushing
    <3> QED BY <3>2, <3>3
  <2> QED BY <2>2, <2>3
<1>2. ClosingInv => ShutdownIsComplete BY <1>1 DEF ShutdownIsComplete
<1> QED BY <1>2, InvarianceOfClosing, PTL
=============================================================================
