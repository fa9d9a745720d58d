---------------------------- MODULE EventSystem ----------------------------
(***************************************************************************)
(* The event engine (switch_event.c): threads that fire events, the        *)
(* bounded queue EVENT_DISPATCH_QUEUE, the dispatch threads that walk the  *)
(* lists of bound nodes and call their callbacks, threads that bind and    *)
(* unbind nodes, and the shutdown of the whole.                            *)
(*                                                                         *)
(* A read lock on RWLOCK is held over a whole delivery, so that a delivery *)
(* is many steps; what bind and unbind do with the write lock is one.  The *)
(* queue is APR's: a thread that waits for room, or for an element, waits  *)
(* once, and gives up if it finds none when it is woken.                   *)
(***************************************************************************)
EXTENDS Naturals, Sequences, FiniteSets

CONSTANTS
    Types,          \* the event types, without SWITCH_EVENT_ALL
    ALL,            \* SWITCH_EVENT_ALL
    None,           \* no subclass
    NULL,
    Kinds,          \* the events that are fired: their type and subclass
    Nodes,          \* the nodes that are bound: id, type, sub and callback
    Reentrant,      \* the nodes whose callback fires an event itself
    DispatchCount,  \* dispatch threads launched at startup; one by default
    Firers,         \* the other threads that fire events
    QueueLen,       \* DISPATCH_QUEUE_LEN * MAX_DISPATCH
    MaxEvents       \* bound: events fired, in all

ASSUME EventAssumption ==
    /\ ALL \notin Types /\ NULL \notin Nodes /\ NULL \notin 1 .. MaxEvents
    /\ \A k \in Kinds : k.type \in Types
    /\ \A n \in Nodes : n.type \in Types \cup {ALL}
    /\ Reentrant \subseteq Nodes /\ IsFiniteSet(Nodes)
    /\ Firers \cap 1 .. DispatchCount = {}
    /\ DispatchCount \in Nat \ {0} /\ QueueLen \in Nat \ {0} /\ MaxEvents \in Nat

Events == 1 .. MaxEvents
Dispatchers == 1 .. DispatchCount
Threads == Dispatchers \cup Firers

VARIABLES
    running,    \* SYSTEM_RUNNING
    queue,      \* EVENT_DISPATCH_QUEUE, of events and NULLs
    nodes,      \* EVENT_NODES: for each node that is bound, which bind linked it
    freed,      \* the nodes that were unbound
    kind,       \* the kind of each event that was fired
    fate,       \* where each of them is
    thread,     \* where each dispatch thread and each firing thread is
    count,      \* DISPATCH_THREAD_COUNT
    stop,       \* where switch_event_shutdown is
    pushed,     \* history: the events put into the queue, in order
    latest,     \* history: the last event that each node's callback was given
    due,        \* history: the nodes each event is still owed to
    early       \* history: the events queued or held when the shutdown began

events == <<kind, fate, pushed, due>>
vars == <<running, queue, nodes, freed, events, thread, count, stop, latest, early>>

Fired == DOMAIN kind
Bound == DOMAIN nodes

Fates == {"unfired", "firing", "queued", "held", "delivered", "destroyed", "lost"}

\* The dispatch threads that hold RWLOCK for reading: those inside a delivery.
Readers == {d \in Dispatchers : thread[d].ev # NULL /\ thread[d].pc # "deliver"}

\* A list of EVENT_NODES, and the node that comes first of those in S: a node is
\* linked in front of its list, so the one that was bound last.
List(l) == {n \in Bound : n.type = l}
Front(S) == IF S = {} THEN NULL ELSE CHOOSE n \in S : \A m \in S : nodes[m] <= nodes[n]

First(l) == Front(List(l))

\* n->next
NextOf(n) == Front({m \in List(n.type) : nodes[m] < nodes[n]})

\* A walk visits the list of the event's type, then that of SWITCH_EVENT_ALL.
Begin(k) == IF First(k.type) # NULL THEN First(k.type) ELSE First(ALL)

\* Mutant: the walk ends with the list that it began with.
AdvanceInList(n) == NextOf(n)

Advance(n) ==
    IF NextOf(n) # NULL \/ n.type = ALL THEN NextOf(n) ELSE First(ALL)

\* switch_events_match; a subclass matches when it is the same.
Match(k, n) ==
    \/ n.type = ALL /\ n.sub = None
    \/ n.type \in {ALL, k.type} /\ n.sub \in {None, k.sub}

Goto(t, pc) == thread' = [thread EXCEPT ![t].pc = pc]

(***************************************************************************)
(* The queue (apr_queue.c), which is a library to this code.  A signal     *)
(* wakes one of the threads that wait, if there are any.                   *)
(***************************************************************************)
Waiting(pc) == {t \in Threads : thread[t].pc = pc}

\* The threads become th, and one that waits at pc, if any, is woken.
Signal(pc, woken, th) ==
    \/ Waiting(pc) = {} /\ thread' = th
    \/ \E w \in Waiting(pc) : thread' = [th EXCEPT ![w].pc = woken]

Full == Len(queue) >= QueueLen
NotFull(th) == Signal("wait_room", "room", th)
NotEmpty(th) == Signal("wait_event", "event", th)

(***************************************************************************)
(* switch_event_fire: closed unless SYSTEM_RUNNING, which is tested last   *)
(* by switch_event_queue_dispatch_event; then a push into the queue, whose *)
(* result is not looked at.  A callback returns to its walk afterwards.    *)
(* The test for a further dispatch thread, made in between, starts none:   *)
(* its two conditions exclude each other.                                  *)
(***************************************************************************)
\* Where a thread is when the event has been dealt with.
Returned(t) ==
    [thread EXCEPT ![t] = IF t \in Dispatchers
                          THEN [@ EXCEPT !.pc = "walk", !.new = NULL,
                                         !.node = Advance(thread[t].node)]
                          ELSE [@ EXCEPT !.pc = "idle", !.new = NULL]]

Fire(t, k) ==
    LET e == Cardinality(Fired) + 1
    IN  /\ thread[t].pc \in {"idle", "callback"}
        /\ e \in Events
        /\ kind' = [f \in Fired \cup {e} |-> IF f = e THEN k ELSE kind[f]]
        /\ fate' = [fate EXCEPT ![e] = IF running THEN "firing" ELSE "destroyed"]
        /\ thread' = IF running THEN [thread EXCEPT ![t].pc = "push", ![t].new = e]
                     ELSE Returned(t)
        /\ UNCHANGED <<running, queue, nodes, freed, pushed, due, count, stop, latest, early>>

\* A callback that fires nothing, or nothing more.
Return(d) ==
    /\ thread[d].pc = "callback"
    /\ thread' = Returned(d)
    /\ UNCHANGED <<running, queue, nodes, freed, events, count, stop, latest, early>>

\* Mutant: nobody is told of the new element.
InsertSilently(t) ==
    LET e == thread[t].new
    IN  /\ queue' = Append(queue, e)
        /\ pushed' = Append(pushed, e)
        /\ fate' = [fate EXCEPT ![e] = "queued"]
        /\ due' = [due EXCEPT ![e] = {n \in Bound : Match(kind[e], n)}]
        /\ thread' = Returned(t)

\* apr_queue_push, on finding room.
Insert(t) ==
    LET e == thread[t].new
    IN  /\ queue' = Append(queue, e)
        /\ pushed' = Append(pushed, e)
        /\ fate' = [fate EXCEPT ![e] = "queued"]
        /\ due' = [due EXCEPT ![e] = {n \in Bound : Match(kind[e], n)}]
        /\ NotEmpty(Returned(t))

Push(t) ==
    /\ thread[t].pc = "push"
    /\ \/ ~Full /\ Insert(t)
       \/ Full /\ Goto(t, "wait_room") /\ UNCHANGED <<queue, fate, pushed, due>>
    /\ UNCHANGED <<running, nodes, freed, kind, count, stop, latest, early>>

\* Woken up: an interrupt, or the room was taken by another, and the event is
\* forgotten; it is not destroyed either.
PushWoken(t) ==
    /\ thread[t].pc = "room"
    /\ \/ ~Full /\ Insert(t)
       \/ /\ Full
          /\ fate' = [fate EXCEPT ![thread[t].new] = "lost"]
          /\ thread' = Returned(t)
          /\ UNCHANGED <<queue, pushed, due>>
    /\ UNCHANGED <<running, nodes, freed, kind, count, stop, latest, early>>

(***************************************************************************)
(* switch_event_dispatch_thread and switch_event_deliver.                  *)
(***************************************************************************)
DispatchTest(d) ==
    /\ thread[d].pc = "top"
    /\ Goto(d, IF running THEN "pop" ELSE "ending")
    /\ UNCHANGED <<running, queue, nodes, freed, events, count, stop, latest, early>>

\* Mutant: the newest element is taken.
TakeLast(d) ==
    LET e == queue[Len(queue)]
    IN  /\ queue' = SubSeq(queue, 1, Len(queue) - 1)
        /\ IF e = NULL THEN UNCHANGED fate ELSE fate' = [fate EXCEPT ![e] = "held"]
        /\ NotFull([thread EXCEPT ![d].pc = IF e = NULL THEN "ending" ELSE "deliver",
                                  ![d].ev = e])

\* apr_queue_pop, on finding an element; NULL ends the thread.
Take(d) ==
    LET e == Head(queue)
    IN  /\ queue' = Tail(queue)
        /\ IF e = NULL THEN UNCHANGED fate ELSE fate' = [fate EXCEPT ![e] = "held"]
        /\ NotFull([thread EXCEPT ![d].pc = IF e = NULL THEN "ending" ELSE "deliver",
                                  ![d].ev = e])

Pop(d) ==
    /\ thread[d].pc = "pop"
    /\ \/ queue # <<>> /\ Take(d)
       \/ queue = <<>> /\ Goto(d, "wait_event") /\ UNCHANGED <<queue, fate>>
    /\ UNCHANGED <<running, nodes, freed, kind, pushed, due, count, stop, latest, early>>

\* Woken up to find nothing: back to the test.
PopWoken(d) ==
    /\ thread[d].pc = "event"
    /\ \/ queue # <<>> /\ Take(d)
       \/ queue = <<>> /\ Goto(d, "top") /\ UNCHANGED <<queue, fate>>
    /\ UNCHANGED <<running, nodes, freed, kind, pushed, due, count, stop, latest, early>>

\* The delivery begins, with the read lock, unless the engine was closed.
Deliver(d) ==
    /\ thread[d].pc = "deliver"
    /\ LET e == thread[d].ev
       IN  \/ /\ running
              /\ thread' = [thread EXCEPT ![d].pc = "walk", ![d].node = Begin(kind[e])]
              /\ UNCHANGED fate
           \/ /\ ~running
              /\ fate' = [fate EXCEPT ![e] = "destroyed"]
              /\ thread' = [thread EXCEPT ![d].pc = "top", ![d].ev = NULL]
    /\ UNCHANGED <<running, queue, nodes, freed, kind, pushed, due, count, stop, latest, early>>

\* One node of the walk.
Callback(d) ==
    LET n == thread[d].node
        e == thread[d].ev
    IN  /\ thread[d].pc = "walk" /\ n # NULL
        /\ IF Match(kind[e], n)
           THEN /\ latest' = [latest EXCEPT ![n] = e]
                /\ due' = [due EXCEPT ![e] = @ \ {n}]
                /\ Goto(d, "callback")
           ELSE thread' = [thread EXCEPT ![d].node = Advance(n)] /\ UNCHANGED <<latest, due>>
        /\ UNCHANGED <<running, queue, nodes, freed, kind, fate, pushed, count, stop, early>>

\* The read lock is released and the event destroyed.
Delivered(d) ==
    /\ thread[d].pc = "walk" /\ thread[d].node = NULL
    /\ fate' = [fate EXCEPT ![thread[d].ev] = "delivered"]
    /\ thread' = [thread EXCEPT ![d].pc = "top", ![d].ev = NULL]
    /\ UNCHANGED <<running, queue, nodes, freed, kind, pushed, due, count, stop, latest, early>>

DispatchEnd(d) ==
    /\ thread[d].pc = "ending"
    /\ count' = count - 1
    /\ Goto(d, "ended")
    /\ UNCHANGED <<running, queue, nodes, freed, events, stop, latest, early>>

(***************************************************************************)
(* switch_event_bind_removable, switch_event_unbind and                    *)
(* switch_event_unbind_callback, under the write lock.                     *)
(***************************************************************************)
Bind(n) ==
    /\ n \notin Bound \cup freed /\ Readers = {}
    /\ nodes' = [m \in Bound \cup {n} |->
                   IF m = n THEN Cardinality(Bound \cup freed) + 1 ELSE nodes[m]]
    /\ UNCHANGED <<running, queue, freed, events, thread, count, stop, latest, early>>

\* The nodes in S are unlinked and freed; they are owed nothing any more.
Remove(S) ==
    /\ nodes' = [n \in Bound \ S |-> nodes[n]]
    /\ freed' = freed \cup S
    /\ due' = [e \in Events |-> due[e] \ S]
    /\ latest' = [n \in Nodes |-> IF n \in S THEN NULL ELSE latest[n]]

\* Mutant: with the read lock of a delivery held.
UnbindAnyway(n) ==
    /\ n \in Bound
    /\ Remove({n})
    /\ UNCHANGED <<running, queue, kind, fate, pushed, thread, count, stop, early>>

Unbind(n) ==
    /\ n \in Bound /\ Readers = {}
    /\ Remove({n})
    /\ UNCHANGED <<running, queue, kind, fate, pushed, thread, count, stop, early>>

UnbindCallback(c) ==
    /\ {n \in Bound : n.callback = c} # {} /\ Readers = {}
    /\ Remove({n \in Bound : n.callback = c})
    /\ UNCHANGED <<running, queue, kind, fate, pushed, thread, count, stop, early>>

(***************************************************************************)
(* switch_event_shutdown.                                                  *)
(***************************************************************************)
Stop(pc, x) == stop' = [pc |-> pc, x |-> x]

StopFlag ==
    /\ stop.pc = "up"
    /\ running' = FALSE
    /\ early' = {e \in Events : fate[e] \in {"queued", "held"}}
    /\ Stop("nulls", 0)
    /\ UNCHANGED <<queue, nodes, freed, events, thread, count, latest>>

\* Mutant: the threads are interrupted only.
StopNoNulls ==
    /\ stop.pc = "nulls"
    /\ Stop("interrupt", 0)
    /\ UNCHANGED <<running, queue, nodes, freed, events, thread, count, latest, early>>

\* A NULL for every dispatch thread, if there is room for it.
StopNulls ==
    /\ stop.pc = "nulls"
    /\ \/ /\ stop.x < count
          /\ \/ ~Full /\ queue' = Append(queue, NULL) /\ NotEmpty(thread)
             \/ Full /\ UNCHANGED <<queue, thread>>
          /\ Stop("nulls", stop.x + 1)
       \/ /\ stop.x >= count
          /\ Stop("interrupt", 0)
          /\ UNCHANGED <<queue, thread>>
    /\ UNCHANGED <<running, nodes, freed, events, count, latest, early>>

\* apr_queue_interrupt_all
StopInterrupt ==
    /\ stop.pc = "interrupt"
    /\ thread' = [t \in Threads |->
                    CASE thread[t].pc = "wait_room" -> [thread[t] EXCEPT !.pc = "room"]
                      [] thread[t].pc = "wait_event" -> [thread[t] EXCEPT !.pc = "event"]
                      [] OTHER -> thread[t]]
    /\ Stop("join", 0)
    /\ UNCHANGED <<running, queue, nodes, freed, events, count, latest, early>>

\* Mutant: the threads are not joined.
StopUnjoined ==
    /\ stop.pc = "join"
    /\ Stop("drain", 0)
    /\ UNCHANGED <<running, queue, nodes, freed, events, thread, count, latest, early>>

\* The bound of the loop is read again before every join; after it comes a
\* wait for THREAD_COUNT to be zero, which is given up after 100 rounds.
StopJoin ==
    /\ stop.pc = "join"
    /\ Stop(IF stop.x < count THEN "joining" ELSE "drain", stop.x)
    /\ UNCHANGED <<running, queue, nodes, freed, events, thread, count, latest, early>>

StopJoined ==
    /\ stop.pc = "joining"
    /\ thread[stop.x + 1].pc = "ended"
    /\ Stop("join", stop.x + 1)
    /\ UNCHANGED <<running, queue, nodes, freed, events, thread, count, latest, early>>

\* What is left in the queue is destroyed, up to the first NULL.
StopDrain ==
    /\ stop.pc = "drain"
    /\ \/ queue = <<>> /\ Stop("done", 0) /\ UNCHANGED <<queue, fate, thread>>
       \/ /\ queue # <<>>
          /\ queue' = Tail(queue)
          /\ fate' = [e \in Events |-> IF e = Head(queue) THEN "destroyed" ELSE fate[e]]
          /\ NotFull(thread)
          /\ Stop(IF Head(queue) = NULL THEN "done" ELSE "drain", 0)
    /\ UNCHANGED <<running, nodes, freed, kind, pushed, due, count, latest, early>>

(***************************************************************************)
(* The specification.                                                      *)
(***************************************************************************)
\* switch_event_init is done: the queue exists and the threads run.
Init ==
    /\ running = TRUE /\ queue = <<>>
    /\ nodes = <<>> /\ freed = {}
    /\ kind = <<>> /\ fate = [e \in Events |-> "unfired"] /\ pushed = <<>>
    /\ thread = [t \in Threads |->
                   [pc |-> IF t \in Dispatchers THEN "top" ELSE "idle",
                    ev |-> NULL, node |-> NULL, new |-> NULL]]
    /\ count = DispatchCount
    /\ stop = [pc |-> "up", x |-> 0]
    /\ latest = [n \in Nodes |-> NULL] /\ due = [e \in Events |-> {}]
    /\ early = {}

MayFire(t) == t \in Firers \/ thread[t].node \in Reentrant

Firing(t) == Push(t) \/ PushWoken(t)

Dispatch(d) ==
    \/ DispatchTest(d) \/ Pop(d) \/ PopWoken(d) \/ Deliver(d) \/ Callback(d)
    \/ Return(d) \/ Delivered(d) \/ DispatchEnd(d)

Shutdown ==
    StopNulls \/ StopInterrupt \/ StopJoin \/ StopJoined \/ StopDrain

Next ==
    \/ \E t \in Threads, k \in Kinds : MayFire(t) /\ Fire(t, k)
    \/ \E t \in Threads : Firing(t)
    \/ \E d \in Dispatchers : Dispatch(d)
    \/ \E n \in Nodes : Bind(n) \/ Unbind(n)
    \/ \E c \in {n.callback : n \in Nodes} : UnbindCallback(c)
    \/ StopFlag
    \/ Shutdown

\* A thread that can take a step takes it, once it is inside the engine; when
\* an event is fired, a node bound or the engine shut down is up to others.
Fairness ==
    /\ \A t \in Threads : WF_vars(Firing(t))
    /\ \A d \in Dispatchers : WF_vars(Dispatch(d))
    /\ WF_vars(Shutdown)

Spec == Init /\ [][Next]_vars /\ Fairness

(***************************************************************************)
(* Properties.                                                             *)
(***************************************************************************)
Points == {"idle", "push", "wait_room", "room", "top", "pop", "wait_event", "event", "deliver",
           "walk", "callback", "ending", "ended"}

\* The variables have their types; no more than QueueLen elements are queued,
\* and DISPATCH_THREAD_COUNT counts the threads that have not ended.
TypeOK ==
    /\ running \in BOOLEAN /\ early \subseteq Events
    /\ queue \in Seq(Events \cup {NULL}) /\ Len(queue) <= QueueLen
    /\ freed \subseteq Nodes /\ Bound \subseteq Nodes
    /\ nodes \in [Bound -> 1 .. Cardinality(Bound \cup freed)]
    /\ kind \in Seq(Kinds) /\ Fired \subseteq Events
    /\ fate \in [Events -> Fates]
    /\ pushed \in Seq(Events)
    /\ latest \in [Nodes -> Events \cup {NULL}] /\ due \in [Events -> SUBSET Nodes]
    /\ thread \in [Threads -> [pc : Points, ev : Events \cup {NULL}, node : Nodes \cup {NULL},
                               new : Events \cup {NULL}]]
    /\ stop \in [pc : {"up", "nulls", "interrupt", "join", "joining", "drain", "done"},
                 x : 0 .. DispatchCount]
    /\ count = Cardinality({d \in Dispatchers : thread[d].pc # "ended"})

\* A delivery never looks at a node that was unbound and freed, whichever
\* thread unbinds it and whatever the callbacks do meanwhile.
NoFreedNode ==
    \A d \in Dispatchers : thread[d].node \notin freed

\* The position of an event in the order in which the queue took them.
PlaceOf(e) == CHOOSE i \in DOMAIN pushed : pushed[i] = e

\* With one dispatch thread every callback sees events in the order in which
\* they were queued, and none of them twice: the last one a node was given
\* was queued before the one that a walk brings to it.
InOrder ==
    \A d \in Dispatchers :
      LET n == thread[d].node
      IN  thread[d].pc = "walk" /\ n # NULL /\ latest[n] # NULL
            => PlaceOf(latest[n]) < PlaceOf(thread[d].ev)

\* An event that was delivered was given to the callback of every node that it
\* matches and that was bound from when it was queued until then.
NoneMissed ==
    \A e \in Events : fate[e] = "delivered" => due[e] = {}

\* When shutdown returns, no event that was queued when it began is left in the
\* queue, and at most half of the dispatch threads are left that could call into a
\* module: none if there is one thread, and with more those that the join loop does
\* not come to, since its bound shrinks as threads end.  What is not delivered or
\* destroyed by then is in the hands of one of them.
ShutdownIsComplete ==
    LET Live == {d \in Dispatchers : thread[d].pc # "ended"} IN
    stop.pc = "done" =>
      /\ 2 * Cardinality(Live) <= DispatchCount
      /\ \A e \in early : fate[e] \in {"delivered", "destroyed"} \/ \E d \in Live : thread[d].ev = e

\* An event whose push found the queue full is forgotten only when shutdown
\* interrupts the push.  (It is not so: see the README.)
LostInShutdownOnly == \A e \in Events : fate[e] = "lost" => ~running

\* A callback that fires into a full queue waits for room that only its own
\* thread makes.
CallbackBlocked == \E d \in Dispatchers : thread[d].pc = "wait_room"

\* An event queued while the engine runs is delivered or destroyed, unless a
\* callback blocks its own thread.
EventIsDispatched ==
    \A e \in Events :
      (fate[e] = "queued" /\ running)
        ~> (fate[e] \in {"delivered", "destroyed"} \/ CallbackBlocked)

\* A shutdown comes to its end, unless a callback blocks its own thread.
ShutdownEnds == (stop.pc = "nulls") ~> (stop.pc = "done" \/ CallbackBlocked)
=============================================================================
