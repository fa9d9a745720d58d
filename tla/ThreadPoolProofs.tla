-------------------------- MODULE ThreadPoolProofs --------------------------
(***************************************************************************)
(* Proofs about the session thread pool, for any number of sessions and    *)
(* workers: its types, which bound every counter of session_manager, and   *)
(* that no session that was launched is lost or run by two workers.        *)
(***************************************************************************)
EXTENDS ThreadPool, FiniteSetTheorems, TLAPS

-----------------------------------------------------------------------------
(* The inductive invariant *)

\* The variables have their types, without the bounds.
PoolTyped ==
    /\ ready \in BOOLEAN /\ queue \in Seq(Jobs)
    /\ starting \in Int /\ need \in Nat /\ failures \in Nat
    /\ mpc \in {"top", "to_wait", "wait", "woken", "create", "count", "drain", "ended"}
    /\ late \in BOOLEAN
    /\ lpc \in [Jobs -> {"new", "wake", "done"}]
    /\ wpc \in [Workers -> Alive \cup {"none", "born"}]
    /\ check \in [Workers -> BOOLEAN] /\ pop \in [Workers -> Jobs \cup {None}]
    /\ jpc \in [Jobs -> {"new", "queued", "running", "done"}]
    /\ upc \in {"up", "wake", "loop", "join", "down"}

Popping == {"pop", "wait", "woken", "unpop"}

\* The counters count the workers.  A worker that is made, or could not be, is
\* counted as starting one step later; those that could not be are counted for ever.
CountInv ==
    /\ running = Count(Alive) /\ popping = Count(Popping) /\ busy = Count({"run"})
    /\ starting = Count({"born"}) + failures - (IF mpc = "count" THEN 1 ELSE 0)

\* What the manager still has to make is never more than the sessions there are.
NeedInv ==
    /\ mpc \notin {"create", "count"} => need = 0
    /\ mpc = "count" => need > 0
    /\ need <= Cardinality(Jobs) /\ starting + need <= Cardinality(Jobs)

\* The places of a session: the queue, and the hands of a worker.
QueueInv ==
    /\ \A m, n \in DOMAIN queue : queue[m] = queue[n] => m = n
    /\ \A n \in DOMAIN queue : jpc[queue[n]] = "queued" /\ \A w \in Workers : pop[w] # queue[n]
    /\ \A v, w \in Workers : pop[v] = pop[w] /\ pop[v] # None => v = w
    /\ \A w \in Workers : pop[w] # None => jpc[pop[w]] \in {"queued", "running"}
    /\ \A w \in Workers : wpc[w] \in {"got", "run"} => pop[w] # None
    /\ \A w \in Workers : pop[w] # None => wpc[w] \in {"unpop", "got", "run"}
    /\ \A j \in Jobs : jpc[j] \in {"queued", "running"} =>
                         (\E n \in DOMAIN queue : queue[n] = j) \/ (\E w \in Workers : pop[w] = j)
    /\ \A j \in Jobs : lpc[j] = "new" => jpc[j] = "new"

PoolInv == PoolTyped /\ CountInv /\ NeedInv /\ QueueInv

-----------------------------------------------------------------------------
(* Counting workers *)

WorkerStates == Alive \cup {"none", "born"}

LEMMA CountTyped ==
    ASSUME NEW S
    PROVE  Count(S) \in Nat /\ Count(S) <= Cardinality(Workers) /\ Cardinality(Workers) \in Nat
<1> DEFINE T == {w \in Workers : wpc[w] \in S}
<1>1. IsFiniteSet(T) /\ Cardinality(T) <= Cardinality(Workers) BY PoolAssumption, FS_Subset
<1>2. Cardinality(T) \in Nat /\ Cardinality(Workers) \in Nat BY <1>1, PoolAssumption, FS_CardinalityType
<1> QED BY <1>1, <1>2 DEF Count

LEMMA CountSame ==
    ASSUME NEW S, \A w \in Workers : wpc'[w] \in S <=> wpc[w] \in S
    PROVE  Count(S)' = Count(S)
<1>1. {w \in Workers : wpc'[w] \in S} = {w \in Workers : wpc[w] \in S} OBVIOUS
<1> QED BY <1>1 DEF Count

\* A worker that moves is counted at the place it has moved to.
LEMMA CountMoves ==
    ASSUME PoolTyped, NEW v \in Workers, NEW to, wpc' = [wpc EXCEPT ![v] = to], NEW S
    PROVE  /\ wpc[v] \in S /\ to \notin S => Count(S)' = Count(S) - 1
           /\ wpc[v] \notin S /\ to \in S => Count(S)' = Count(S) + 1
           /\ (wpc[v] \in S <=> to \in S) => Count(S)' = Count(S)
<1> DEFINE T == {w \in Workers : wpc[w] \in S}
           U == {w \in Workers : wpc'[w] \in S}
<1>1. wpc'[v] = to /\ \A w \in Workers : w # v => wpc'[w] = wpc[w] BY DEF PoolTyped
<1>2. IsFiniteSet(T) BY PoolAssumption, FS_Subset
<1>3. Count(S) = Cardinality(T) /\ Count(S)' = Cardinality(U) BY DEF Count
<1>4. CASE wpc[v] \in S /\ to \notin S
  <2>1. U = T \ {v} /\ v \in T BY <1>1, <1>4
  <2>2. Cardinality(U) = Cardinality(T) - 1 BY <1>2, <2>1, FS_RemoveElement
  <2> QED BY <1>3, <1>4, <2>2
<1>5. CASE wpc[v] \notin S /\ to \in S
  <2>1. U = T \cup {v} /\ v \notin T BY <1>1, <1>5
  <2>2. Cardinality(U) = Cardinality(T) + 1 BY <1>2, <2>1, FS_AddElement
  <2> QED BY <1>3, <1>5, <2>2
<1>6. CASE wpc[v] \in S <=> to \in S
  <2>1. U = T BY <1>1, <1>6
  <2> QED BY <1>3, <1>6, <2>1
<1> QED BY <1>4, <1>5, <1>6

\* There are no more queued sessions than sessions.
LEMMA QueueBounded ==
    ASSUME queue \in Seq(Jobs), \A m, n \in DOMAIN queue : queue[m] = queue[n] => m = n
    PROVE  Len(queue) \in Nat /\ Len(queue) <= Cardinality(Jobs)
<1>1. Len(queue) \in Nat /\ DOMAIN queue = 1 .. Len(queue) /\ queue \in [1 .. Len(queue) -> Jobs] OBVIOUS
<1>2. queue \in Injection(1 .. Len(queue), Jobs) BY <1>1 DEF Injection, IsInjective
<1>3. Cardinality(1 .. Len(queue)) <= Cardinality(Jobs) BY <1>2, PoolAssumption, FS_Injection
<1>4. Cardinality(1 .. Len(queue)) = Len(queue) BY <1>1, FS_Interval
<1> QED BY <1>1, <1>3, <1>4

-----------------------------------------------------------------------------
(* Types and bounds *)

LEMMA Bounded == ASSUME PoolInv PROVE TypeOK
<1>0. PoolTyped /\ CountInv /\ NeedInv /\ QueueInv BY DEF PoolInv
<1>1. Len(queue) <= Cardinality(Jobs) BY <1>0, QueueBounded DEF PoolTyped, QueueInv
<1>2. Cardinality(Jobs) \in Nat BY PoolAssumption, FS_CardinalityType
<1>3. {running, popping, busy} \subseteq 0 .. Cardinality(Workers) BY <1>0, CountTyped DEF CountInv
<1>4. Count({"born"}) \in Nat BY CountTyped
<1>5. /\ starting \in Int /\ need \in Nat /\ failures \in Nat
      /\ starting = Count({"born"}) + failures - (IF mpc = "count" THEN 1 ELSE 0)
      /\ mpc = "count" => need > 0
      /\ starting + need <= Cardinality(Jobs)
  BY <1>0 DEF PoolTyped, CountInv, NeedInv
<1>6. starting \in -1 .. Cardinality(Jobs) BY <1>2, <1>4, <1>5
<1>7. failures \in 0 .. Cardinality(Jobs) BY <1>2, <1>4, <1>5
<1>8. need \in 0 .. Cardinality(Jobs) BY <1>0, <1>2 DEF PoolTyped, NeedInv
<1> QED BY <1>0, <1>1, <1>3, <1>6, <1>7, <1>8 DEF PoolTyped, TypeOK

LEMMA InitInv == Init => PoolInv
<1> SUFFICES ASSUME Init PROVE PoolInv OBVIOUS
<1>1. PoolTyped
  <2>1. queue \in Seq(Jobs) /\ starting \in Int /\ need \in Nat /\ failures \in Nat BY DEF Init
  <2>2. ready \in BOOLEAN /\ late \in BOOLEAN BY Zenon DEF Init
  <2>3. lpc \in [Jobs -> {"new", "wake", "done"}] /\ jpc \in [Jobs -> {"new", "queued", "running", "done"}]
    BY DEF Init
  <2>4. wpc \in [Workers -> Alive \cup {"none", "born"}] /\ check \in [Workers -> BOOLEAN]
    BY DEF Init
  <2>5. pop \in [Workers -> Jobs \cup {None}] BY DEF Init
  <2> QED BY <2>1, <2>2, <2>3, <2>4, <2>5 DEF Init, PoolTyped
<1>2. Cardinality(Jobs) \in Nat BY PoolAssumption, FS_CardinalityType
<1>3. ASSUME NEW S, "none" \notin S PROVE Count(S) = 0
  <2>1. {w \in Workers : wpc[w] \in S} = {} BY <1>3 DEF Init
  <2> QED BY <2>1, FS_EmptySet DEF Count
<1>4. CountInv BY <1>3 DEF Init, CountInv, Alive, Popping
<1>5. NeedInv BY <1>2 DEF Init, NeedInv
<1>6. QueueInv BY DEF Init, QueueInv
<1> QED BY <1>1, <1>4, <1>5, <1>6 DEF PoolInv
-----------------------------------------------------------------------------
(* Steps that move no worker, but for those they wake *)

Wakes ==
    /\ wpc' \in [Workers -> Alive \cup {"none", "born"}]
    /\ \A w \in Workers : wpc'[w] = wpc[w] \/ (wpc[w] = "wait" /\ wpc'[w] = "woken")

LEMMA Waking ==
    ASSUME PoolTyped, UNCHANGED wpc \/ SignalOne \/ InterruptAll
    PROVE  Wakes
<1>1. CASE UNCHANGED wpc BY <1>1 DEF PoolTyped, Wakes
<1>2. CASE \E w \in Waiting : wpc' = [wpc EXCEPT ![w] = "woken"]
  <2>1. PICK w \in Waiting : wpc' = [wpc EXCEPT ![w] = "woken"] BY <1>2
  <2>2. w \in Workers /\ wpc[w] = "wait" BY <2>1 DEF Waiting
  <2> QED BY <2>1, <2>2 DEF PoolTyped, Wakes, Alive
<1>3. CASE InterruptAll BY <1>3 DEF PoolTyped, InterruptAll, Waiting, Wakes, Alive
<1> QED BY <1>1, <1>2, <1>3 DEF SignalOne

LEMMA WakesCounts ==
    ASSUME Wakes
    PROVE  /\ Count(Alive)' = Count(Alive) /\ Count(Popping)' = Count(Popping)
           /\ Count({"run"})' = Count({"run"}) /\ Count({"born"})' = Count({"born"})
<1>1. /\ \A w \in Workers : wpc'[w] \in Alive <=> wpc[w] \in Alive
      /\ \A w \in Workers : wpc'[w] \in Popping <=> wpc[w] \in Popping
      /\ \A w \in Workers : wpc'[w] \in {"run"} <=> wpc[w] \in {"run"}
      /\ \A w \in Workers : wpc'[w] \in {"born"} <=> wpc[w] \in {"born"}
  BY DEF Wakes, Alive, Popping
<1> QED BY <1>1, CountSame

LEMMA WakesQueue ==
    ASSUME QueueInv, Wakes, UNCHANGED <<queue, pop, jpc>>, \A j \in Jobs : lpc'[j] = "new" => lpc[j] = "new"
    PROVE  QueueInv'
<1>1. \A w \in Workers : /\ wpc'[w] \in {"got", "run"} => wpc[w] \in {"got", "run"}
                         /\ wpc[w] \in {"unpop", "got", "run"} => wpc'[w] \in {"unpop", "got", "run"}
  BY DEF Wakes
<1> QED BY <1>1 DEF QueueInv

\* The manager, and whoever wakes it.
LEMMA ManagerStep ==
    ASSUME PoolInv, Manager \/ UninitWake \/ \E j \in Jobs : LaunchWake(j)
    PROVE  PoolInv'
<1>0. PoolTyped /\ CountInv /\ NeedInv /\ QueueInv BY DEF PoolInv
<1>1. /\ UNCHANGED <<queue, running, popping, busy, pop, jpc, check>>
      /\ lpc' \in [Jobs -> {"new", "wake", "done"}] /\ \A j \in Jobs : lpc'[j] = "new" => lpc[j] = "new"
      /\ ready' \in BOOLEAN /\ upc' \in {"up", "wake", "loop", "join", "down"}
  <2>1. CASE Manager \/ UninitWake
    BY <1>0, <2>1
    DEF Manager, ManagerTop, ManagerWait, ManagerTimeout, ManagerInterrupt, ManagerCheck, ManagerCreate,
        ManagerCount, ManagerChecked, ManagerDrain, UninitWake, counts, worker, PoolTyped
  <2>2. CASE \E j \in Jobs : LaunchWake(j)
    BY <1>0, <2>2 DEF LaunchWake, counts, worker, PoolTyped
  <2> QED BY <2>1, <2>2
<1>2. Cardinality(Jobs) \in Nat /\ Count({"born"}) \in Nat BY PoolAssumption, FS_CardinalityType, CountTyped
<1>3. /\ starting \in Int /\ need \in Nat /\ failures \in Nat
      /\ starting = Count({"born"}) + failures - (IF mpc = "count" THEN 1 ELSE 0)
  BY <1>0 DEF PoolTyped, CountInv
\* The steps that keep the count of new workers: only the manager's place changes.
<1>4. ASSUME Wakes, UNCHANGED <<starting, need, failures>>, late' \in BOOLEAN,
             mpc # "count", mpc' \in {"top", "to_wait", "wait", "woken", "drain", "ended"},
             mpc = "create" => need = 0
      PROVE  PoolInv'
  <2>1. PoolTyped' BY <1>0, <1>1, <1>4 DEF PoolTyped, Wakes
  <2>2. CountInv' BY <1>0, <1>1, <1>4, WakesCounts DEF CountInv
  <2>3. NeedInv' BY <1>0, <1>4 DEF NeedInv
  <2>4. QueueInv' BY <1>0, <1>1, <1>4, WakesQueue
  <2> QED BY <2>1, <2>2, <2>3, <2>4 DEF PoolInv
<1>5. ASSUME WakeManager, UNCHANGED <<wpc, counts, failures>> PROVE PoolInv'
  <2>1. Wakes BY <1>0, <1>5, Waking
  <2>2. CASE Signalled BY <1>4, <1>5, <2>1, <2>2 DEF Signalled, counts
  <2>3. CASE UNCHANGED manager
    <3>1. UNCHANGED <<mpc, late, need, starting, failures>> BY <1>5, <2>3 DEF manager, counts
    <3>2. PoolTyped' BY <1>0, <1>1, <2>1, <3>1 DEF PoolTyped, Wakes
    <3>3. CountInv' BY <1>0, <1>1, <2>1, <3>1, WakesCounts DEF CountInv
    <3>4. NeedInv' BY <1>0, <3>1 DEF NeedInv
    <3>5. QueueInv' BY <1>0, <1>1, <2>1, WakesQueue
    <3> QED BY <3>2, <3>3, <3>4, <3>5 DEF PoolInv
  <2> QED BY <1>5, <2>2, <2>3 DEF WakeManager
<1>6. CASE UninitWake \/ \E j \in Jobs : LaunchWake(j)
  BY <1>5, <1>6 DEF UninitWake, LaunchWake, worker
<1>7. CASE ManagerTop \/ ManagerWait \/ ManagerTimeout \/ ManagerChecked
  <2>1. Wakes
    BY <1>0, <1>7, Waking DEF ManagerTop, ManagerWait, ManagerTimeout, ManagerChecked, worker
  <2>2. /\ UNCHANGED <<starting, need, failures>> /\ late' \in BOOLEAN
        /\ mpc # "count" /\ mpc' \in {"top", "to_wait", "wait", "woken", "drain", "ended"}
        /\ mpc = "create" => need = 0
    BY <1>0, <1>7 DEF ManagerTop, ManagerWait, ManagerTimeout, ManagerChecked, counts, PoolTyped
  <2> QED BY <1>4, <2>1, <2>2
<1>8. CASE ManagerInterrupt \/ ManagerDrain
  <2>1. Wakes BY <1>0, <1>8, Waking DEF ManagerInterrupt, ManagerDrain
  <2>2. /\ UNCHANGED <<starting, need, failures>> /\ late' \in BOOLEAN
        /\ mpc # "count" /\ mpc' \in {"top", "to_wait", "wait", "woken", "drain", "ended"}
        /\ mpc = "create" => need = 0
    BY <1>0, <1>8 DEF ManagerInterrupt, ManagerDrain, counts, PoolTyped
  <2> QED BY <1>4, <2>1, <2>2
<1>9. CASE ManagerCheck
  <2>1. /\ mpc = "woken" /\ mpc' = "create" /\ UNCHANGED <<wpc, starting, failures>> /\ late' = FALSE
        /\ need' = IF running + starting - busy < Len(queue) THEN Len(queue) - (running + starting - busy) ELSE 0
    BY <1>9 DEF ManagerCheck, counts, worker
  <2>2. Wakes BY <1>0, <2>1, Waking
  <2>3. Len(queue) \in Nat /\ Len(queue) <= Cardinality(Jobs)
    BY <1>0, QueueBounded DEF PoolTyped, QueueInv
  <2>4. running \in Nat /\ busy \in Nat /\ busy <= running
    <3>1. {w \in Workers : wpc[w] \in {"run"}} \subseteq {w \in Workers : wpc[w] \in Alive} BY DEF Alive
    <3>2. IsFiniteSet({w \in Workers : wpc[w] \in Alive}) BY PoolAssumption, FS_Subset
    <3>3. Count({"run"}) <= Count(Alive) BY <3>1, <3>2, FS_Subset DEF Count
    <3> QED BY <1>0, <3>3, CountTyped DEF CountInv
  <2>5. starting \in Nat BY <1>2, <1>3, <2>1
  <2>6. /\ need' \in Nat /\ need' <= Cardinality(Jobs) /\ starting + need' <= Cardinality(Jobs)
    <3>1. starting <= Cardinality(Jobs) BY <1>0, <2>1 DEF NeedInv, PoolTyped
    <3> QED BY <1>2, <2>1, <2>3, <2>4, <2>5, <3>1
  <2>7. PoolTyped' BY <1>0, <1>1, <2>1, <2>6 DEF PoolTyped
  <2>8. CountInv' BY <1>0, <1>1, <2>1, <2>2, WakesCounts DEF CountInv
  <2>9. NeedInv' BY <2>1, <2>6 DEF NeedInv
  <2>10. QueueInv' BY <1>0, <1>1, <2>2, WakesQueue
  <2> QED BY <2>7, <2>8, <2>9, <2>10 DEF PoolInv
<1>10. CASE ManagerCreate
  <2>1. /\ mpc = "create" /\ mpc' = "count" /\ need > 0 /\ UNCHANGED <<starting, need, late>>
    BY <1>10 DEF ManagerCreate, counts
  <2>2. NeedInv' BY <1>0, <2>1 DEF NeedInv
  <2>3. CASE failures' = failures + 1 /\ UNCHANGED wpc
    <3>1. Wakes BY <1>0, <2>3, Waking
    <3>2. PoolTyped' BY <1>0, <1>1, <2>1, <2>3 DEF PoolTyped
    <3>3. starting' = Count({"born"})' + failures' - 1 BY <1>2, <1>3, <2>1, <2>3, <3>1, WakesCounts
    <3>4. CountInv' BY <1>0, <1>1, <2>1, <3>1, <3>3, WakesCounts DEF CountInv
    <3>5. QueueInv' BY <1>0, <1>1, <3>1, WakesQueue
    <3> QED BY <2>2, <3>2, <3>4, <3>5 DEF PoolInv
  <2>4. CASE \E w \in Workers : wpc[w] = "none" /\ wpc' = [wpc EXCEPT ![w] = "born"] /\ UNCHANGED failures
    <3>1. PICK w \in Workers : wpc[w] = "none" /\ wpc' = [wpc EXCEPT ![w] = "born"] /\ UNCHANGED failures
      BY <2>4
    <3>2. PoolTyped' BY <1>0, <1>1, <2>1, <3>1 DEF PoolTyped
    <3>3. /\ Count(Alive)' = Count(Alive) /\ Count(Popping)' = Count(Popping)
          /\ Count({"run"})' = Count({"run"}) /\ Count({"born"})' = Count({"born"}) + 1
      <4>1. /\ wpc[w] \notin Alive /\ "born" \notin Alive /\ wpc[w] \notin Popping /\ "born" \notin Popping
            /\ wpc[w] \notin {"run"} /\ "born" \notin {"run"} /\ wpc[w] \notin {"born"}
        BY <3>1 DEF Alive, Popping
      <4>2. Count(Alive)' = Count(Alive) BY <1>0, <3>1, <4>1, CountMoves
      <4>3. Count(Popping)' = Count(Popping) BY <1>0, <3>1, <4>1, CountMoves
      <4>4. Count({"run"})' = Count({"run"}) BY <1>0, <3>1, <4>1, CountMoves
      <4>5. Count({"born"})' = Count({"born"}) + 1 BY <1>0, <3>1, <4>1, CountMoves
      <4> QED BY <4>2, <4>3, <4>4, <4>5
    <3>4. starting' = Count({"born"})' + failures' - 1 BY <1>2, <1>3, <2>1, <3>1, <3>3
    <3>5. CountInv' BY <1>0, <1>1, <2>1, <3>3, <3>4 DEF CountInv
    <3>6. \A v \in Workers : /\ wpc'[v] \in {"got", "run"} <=> wpc[v] \in {"got", "run"}
                             /\ wpc'[v] \in {"unpop", "got", "run"} <=> wpc[v] \in {"unpop", "got", "run"}
      BY <1>0, <3>1 DEF PoolTyped
    <3>7. QueueInv' BY <1>0, <1>1, <3>6 DEF QueueInv
    <3> QED BY <2>2, <3>2, <3>5, <3>7 DEF PoolInv
  <2> QED BY <1>10, <2>3, <2>4 DEF ManagerCreate
<1>11. CASE ManagerCount
  <2>1. /\ mpc = "count" /\ mpc' = "create" /\ starting' = starting + 1 /\ need' = need - 1
        /\ UNCHANGED <<wpc, failures, late>>
    BY <1>11 DEF ManagerCount, worker
  <2>2. need > 0 BY <1>0, <2>1 DEF NeedInv
  <2>3. Wakes BY <1>0, <2>1, Waking
  <2>4. PoolTyped' BY <1>0, <1>1, <1>3, <2>1, <2>2 DEF PoolTyped
  <2>5. starting' = Count({"born"})' + failures' BY <1>2, <1>3, <2>1, <2>3, WakesCounts
  <2>6. CountInv'
    <3>1. starting' = Count({"born"})' + failures' - (IF mpc' = "count" THEN 1 ELSE 0)
      BY <1>2, <1>3, <2>1, <2>3, <2>5, WakesCounts
    <3> QED BY <1>0, <1>1, <2>3, <3>1, WakesCounts DEF CountInv
  <2>7. NeedInv' BY <1>0, <1>2, <1>3, <2>1, <2>2 DEF NeedInv
  <2>8. QueueInv' BY <1>0, <1>1, <2>3, WakesQueue
  <2> QED BY <2>4, <2>6, <2>7, <2>8 DEF PoolInv
<1> QED BY <1>6, <1>7, <1>8, <1>9, <1>10, <1>11 DEF Manager
-----------------------------------------------------------------------------
(* Sessions in the queue and with the workers *)

\* A worker moves; the sessions stay where they are.
LEMMA QueueStays ==
    ASSUME PoolTyped, QueueInv, NEW w \in Workers, NEW to, wpc' = [wpc EXCEPT ![w] = to],
           UNCHANGED <<queue, pop, jpc, lpc>>,
           to \in {"got", "run"} => pop[w] # None,
           pop[w] # None => to \in {"unpop", "got", "run"}
    PROVE  QueueInv'
<1>1. wpc'[w] = to /\ \A v \in Workers : v # w => wpc'[v] = wpc[v] BY DEF PoolTyped
<1>2. \A v \in Workers : /\ wpc'[v] \in {"got", "run"} => pop[v] # None
                         /\ pop[v] # None => wpc'[v] \in {"unpop", "got", "run"}
  BY <1>1 DEF QueueInv
<1> QED BY <1>2 DEF QueueInv

\* A worker takes the session at the head of the queue.
LEMMA QueueTaken ==
    ASSUME PoolTyped, QueueInv, NEW w \in Workers, NEW to \in {"unpop", "got"}, wpc' = [wpc EXCEPT ![w] = to],
           wpc[w] \in {"try", "pop", "woken"}, queue # <<>>, Take(w), UNCHANGED <<jpc, lpc>>
    PROVE  QueueInv' /\ queue' \in Seq(Jobs) /\ pop' \in [Workers -> Jobs \cup {None}]
<1>1. PICK h : h = Head(queue) OBVIOUS
<1>2. queue \in Seq(Jobs) /\ Len(queue) \in Nat /\ DOMAIN queue = 1 .. Len(queue) BY DEF PoolTyped
<1>3. 1 \in DOMAIN queue /\ h = queue[1] /\ h \in Jobs BY <1>1, <1>2
<1>4. /\ queue' = Tail(queue) /\ queue' \in Seq(Jobs) /\ DOMAIN queue' = 1 .. Len(queue) - 1
      /\ \A n \in DOMAIN queue' : n + 1 \in DOMAIN queue /\ queue'[n] = queue[n + 1]
  BY <1>2 DEF Take
<1>5. /\ pop' = [pop EXCEPT ![w] = h] /\ pop' \in [Workers -> Jobs \cup {None}]
      /\ pop'[w] = h /\ \A v \in Workers : v # w => pop'[v] = pop[v]
  BY <1>1, <1>3 DEF Take, PoolTyped
<1>6. pop[w] = None BY DEF QueueInv
<1>7. wpc'[w] = to /\ \A v \in Workers : v # w => wpc'[v] = wpc[v] BY DEF PoolTyped
<1>8. h # None BY <1>3, PoolAssumption
<1>9. jpc[h] = "queued" /\ \A v \in Workers : pop[v] # h BY <1>3 DEF QueueInv
<1>10. \A m, n \in DOMAIN queue' : queue'[m] = queue'[n] => m = n
  <2> SUFFICES ASSUME NEW m \in DOMAIN queue', NEW n \in DOMAIN queue', queue'[m] = queue'[n] PROVE m = n
    OBVIOUS
  <2>1. m + 1 = n + 1 BY <1>4 DEF QueueInv
  <2> QED BY <1>2, <1>4, <2>1
<1>11. \A n \in DOMAIN queue' : jpc[queue'[n]] = "queued" /\ \A v \in Workers : pop'[v] # queue'[n]
  <2> SUFFICES ASSUME NEW n \in DOMAIN queue'
               PROVE  jpc[queue'[n]] = "queued" /\ \A v \in Workers : pop'[v] # queue'[n]
    OBVIOUS
  <2>1. n + 1 \in DOMAIN queue /\ queue'[n] = queue[n + 1] /\ n + 1 # 1 BY <1>2, <1>4
  <2>2. queue[n + 1] # h BY <1>3, <2>1 DEF QueueInv
  <2> QED BY <1>5, <2>1, <2>2 DEF QueueInv
<1>12. \A u, v \in Workers : pop'[u] = pop'[v] /\ pop'[u] # None => u = v
  BY <1>5, <1>9 DEF QueueInv
<1>13. \A v \in Workers : pop'[v] # None => jpc[pop'[v]] \in {"queued", "running"}
  BY <1>5, <1>9 DEF QueueInv
<1>14. \A v \in Workers : /\ wpc'[v] \in {"got", "run"} => pop'[v] # None
                          /\ pop'[v] # None => wpc'[v] \in {"unpop", "got", "run"}
  BY <1>5, <1>7, <1>8 DEF QueueInv
<1>15. ASSUME NEW j \in Jobs, jpc[j] \in {"queued", "running"}
       PROVE  (\E n \in DOMAIN queue' : queue'[n] = j) \/ (\E v \in Workers : pop'[v] = j)
  <2>1. CASE j = h BY <1>5, <2>1
  <2>2. CASE \E n \in DOMAIN queue : queue[n] = j /\ j # h
    <3>1. PICK n \in DOMAIN queue : queue[n] = j /\ j # h BY <2>2
    <3>2. n # 1 /\ n - 1 \in DOMAIN queue' /\ (n - 1) + 1 = n BY <1>2, <1>3, <1>4, <3>1
    <3>3. queue'[n - 1] = j BY <1>4, <3>1, <3>2
    <3> QED BY <3>2, <3>3
  <2>3. CASE \E v \in Workers : pop[v] = j
    <3>1. PICK v \in Workers : pop[v] = j BY <2>3
    <3>2. v # w BY <1>6, <3>1, PoolAssumption
    <3> QED BY <1>5, <3>1, <3>2
  <2> QED BY <1>15, <2>1, <2>2, <2>3 DEF QueueInv
<1> QED BY <1>4, <1>5, <1>10, <1>11, <1>12, <1>13, <1>14, <1>15 DEF QueueInv

-----------------------------------------------------------------------------
(* The workers *)

LEMMA WorkerKeeps ==
    ASSUME PoolInv, PoolTyped', QueueInv', UNCHANGED <<manager, failures>>,
           running' = Count(Alive)', popping' = Count(Popping)', busy' = Count({"run"})',
           starting' <= starting, starting' = starting + Count({"born"})' - Count({"born"})
    PROVE  PoolInv'
<1>0. PoolTyped /\ CountInv /\ NeedInv BY DEF PoolInv
<1>1. UNCHANGED <<mpc, need>> BY DEF manager
<1>2. Cardinality(Jobs) \in Nat /\ Count({"born"}) \in Nat BY PoolAssumption, FS_CardinalityType, CountTyped
<1>3. CountInv'
  <2>0. Count({"born"})' \in Nat
    <3>1. IsFiniteSet({w \in Workers : wpc'[w] \in {"born"}}) BY PoolAssumption, FS_Subset
    <3> QED BY <3>1, FS_CardinalityType DEF Count
  <2>1. starting' = Count({"born"})' + failures' - (IF mpc' = "count" THEN 1 ELSE 0)
    BY <1>0, <1>1, <1>2, <2>0 DEF CountInv, PoolTyped
  <2> QED BY <2>1 DEF CountInv
<1>4. NeedInv' BY <1>0, <1>1, <1>2 DEF NeedInv, PoolTyped
<1> QED BY <1>3, <1>4 DEF PoolInv

LEMMA WorkerStep ==
    ASSUME PoolInv, NEW w \in Workers, Work(w) \/ WorkerDone(w) \/ WorkerSpurious(w)
    PROVE  PoolInv'
<1>0. PoolTyped /\ CountInv /\ NeedInv /\ QueueInv BY DEF PoolInv
<1>1. UNCHANGED <<ready, failures, manager, lpc, upc>>
  BY DEF Work, WorkerStart, WorkerTop, WorkerTry, WorkerPop, WorkerWoken, WorkerUnpop, WorkerRun, WorkerEnd,
         WorkerDone, WorkerSpurious
<1>2. /\ Count(Alive) \in Nat /\ Count(Popping) \in Nat /\ Count({"run"}) \in Nat /\ Count({"born"}) \in Nat
      /\ starting \in Int
      /\ running = Count(Alive) /\ popping = Count(Popping) /\ busy = Count({"run"})
  BY <1>0, CountTyped DEF CountInv, PoolTyped
<1>3. UNCHANGED <<mpc, late, need>> BY <1>1 DEF manager
<1>4. ASSUME NEW to, wpc' = [wpc EXCEPT ![w] = to], NEW S
      PROVE  /\ wpc[w] \in S /\ to \notin S => Count(S)' = Count(S) - 1
             /\ wpc[w] \notin S /\ to \in S => Count(S)' = Count(S) + 1
             /\ (wpc[w] \in S <=> to \in S) => Count(S)' = Count(S)
  BY <1>0, <1>4, CountMoves
<1>5. CASE WorkerStart(w)
  <2>1. /\ wpc[w] = "born" /\ wpc' = [wpc EXCEPT ![w] = "top"]
        /\ starting' = starting - 1 /\ running' = running + 1
        /\ UNCHANGED <<queue, popping, busy, check, pop, jpc>>
    BY <1>5 DEF WorkerStart, At
  <2>2. /\ Count(Alive)' = Count(Alive) + 1 /\ Count(Popping)' = Count(Popping)
        /\ Count({"run"})' = Count({"run"}) /\ Count({"born"})' = Count({"born"}) - 1
    <3>0. /\ wpc[w] \notin Alive /\ "top" \in Alive /\ wpc[w] \notin Popping /\ "top" \notin Popping
          /\ wpc[w] \notin {"run"} /\ "top" \notin {"run"}
          /\ wpc[w] \in {"born"} /\ "top" \notin {"born"}
      BY <2>1 DEF Alive, Popping
    <3>1. Count(Alive)' = Count(Alive) + 1 BY <2>1, <3>0, <1>4
    <3>2. Count(Popping)' = Count(Popping) BY <2>1, <3>0, <1>4
    <3>3. Count({"run"})' = Count({"run"}) BY <2>1, <3>0, <1>4
    <3>4. Count({"born"})' = Count({"born"}) - 1 BY <2>1, <3>0, <1>4
    <3> QED BY <3>1, <3>2, <3>3, <3>4
  <2>3. PoolTyped' BY <1>0, <1>1, <1>3, <2>1 DEF PoolTyped, Alive
  <2>4. QueueInv' BY <1>0, <1>1, <2>1, QueueStays DEF QueueInv
  <2> QED BY <1>1, <1>2, <2>1, <2>2, <2>3, <2>4, WorkerKeeps
<1>6. CASE WorkerTop(w)
  <2>1. PICK to \in {"end", "try", "pop"} :
          /\ wpc[w] = "top" /\ wpc' = [wpc EXCEPT ![w] = to]
          /\ popping' = IF to = "pop" THEN popping + 1 ELSE popping
          /\ UNCHANGED <<queue, starting, running, busy, check, pop, jpc>>
    BY <1>6 DEF WorkerTop, At
  <2>2. Count(Alive)' = Count(Alive) BY <2>1, <1>4 DEF Alive
  <2>3. Count(Popping)' = IF to = "pop" THEN Count(Popping) + 1 ELSE Count(Popping) BY <2>1, <1>4 DEF Popping
  <2>4. Count({"run"})' = Count({"run"}) BY <2>1, <1>4
  <2>5. Count({"born"})' = Count({"born"}) BY <2>1, <1>4
  <2>6. PoolTyped' BY <1>0, <1>1, <1>3, <2>1 DEF PoolTyped, Alive
  <2>7. QueueInv' BY <1>0, <1>1, <2>1, QueueStays DEF QueueInv
  <2> QED BY <1>1, <1>2, <2>1, <2>2, <2>3, <2>4, <2>5, <2>6, <2>7, WorkerKeeps
<1>7. CASE WorkerTry(w) \/ WorkerPop(w) \/ WorkerWoken(w)
  <2>1. PICK to \in {"end", "got", "wait", "unpop"} :
          /\ wpc' = [wpc EXCEPT ![w] = to] /\ wpc[w] \in {"try", "pop", "woken"}
          /\ wpc[w] = "try" <=> to \in {"end", "got"}
          /\ IF queue = <<>> THEN UNCHANGED <<pop, queue>> /\ to # "got" ELSE Take(w) /\ to \in {"unpop", "got"}
          /\ UNCHANGED <<counts, check, jpc>>
    BY <1>7 DEF WorkerTry, WorkerPop, WorkerWoken, At
  <2>2. Count(Alive)' = Count(Alive) BY <2>1, <1>4 DEF Alive
  <2>3. Count(Popping)' = Count(Popping)
    <3>1. wpc[w] \in Popping <=> to \in Popping BY <2>1 DEF Popping
    <3> QED BY <2>1, <3>1, <1>4
  <2>4. Count({"run"})' = Count({"run"}) BY <2>1, <1>4
  <2>5. Count({"born"})' = Count({"born"}) BY <2>1, <1>4
  <2>6. UNCHANGED <<starting, running, popping, busy>> BY <2>1 DEF counts
  <2>7. QueueInv' /\ queue' \in Seq(Jobs) /\ pop' \in [Workers -> Jobs \cup {None}]
    <3>1. CASE queue = <<>>
      <4>1. pop[w] = None BY <1>0, <2>1 DEF QueueInv
      <4>2. QueueInv' BY <1>0, <1>1, <2>1, <3>1, <4>1, QueueStays
      <4> QED BY <1>0, <2>1, <3>1, <4>2 DEF PoolTyped
    <3>2. CASE queue # <<>> BY <1>0, <1>1, <2>1, <3>2, QueueTaken
    <3> QED BY <3>1, <3>2
  <2>8. PoolTyped' BY <1>0, <1>1, <1>3, <2>1, <2>6, <2>7 DEF PoolTyped, Alive
  <2> QED BY <1>1, <1>2, <2>2, <2>3, <2>4, <2>5, <2>6, <2>7, <2>8, WorkerKeeps
<1>8. CASE WorkerUnpop(w)
  <2>1. PICK to \in {"top", "got"} :
          /\ wpc[w] = "unpop" /\ wpc' = [wpc EXCEPT ![w] = to] /\ (to = "top" <=> pop[w] = None)
          /\ popping' = popping - 1 /\ check' = [check EXCEPT ![w] = pop[w] = None]
          /\ UNCHANGED <<queue, starting, running, busy, pop, jpc>>
    BY <1>8 DEF WorkerUnpop, At
  <2>2. Count(Alive)' = Count(Alive) BY <2>1, <1>4 DEF Alive
  <2>3. Count(Popping)' = Count(Popping) - 1 BY <2>1, <1>4 DEF Popping
  <2>4. Count({"run"})' = Count({"run"}) BY <2>1, <1>4
  <2>5. Count({"born"})' = Count({"born"}) BY <2>1, <1>4
  <2>6. PoolTyped'
    <3>1. check' \in [Workers -> BOOLEAN] BY <1>0, <2>1 DEF PoolTyped
    <3> QED BY <1>0, <1>1, <1>3, <2>1, <3>1 DEF PoolTyped, Alive
  <2>7. QueueInv' BY <1>0, <1>1, <2>1, QueueStays
  <2> QED BY <1>1, <1>2, <2>1, <2>2, <2>3, <2>4, <2>5, <2>6, <2>7, WorkerKeeps
<1>9. CASE WorkerRun(w)
  <2>1. /\ wpc[w] = "got" /\ wpc' = [wpc EXCEPT ![w] = "run"] /\ busy' = busy + 1
        /\ jpc' = [jpc EXCEPT ![pop[w]] = "running"]
        /\ UNCHANGED <<queue, starting, running, popping, check, pop>>
    BY <1>9 DEF WorkerRun, At
  <2>2. /\ Count(Alive)' = Count(Alive) /\ Count(Popping)' = Count(Popping)
        /\ Count({"run"})' = Count({"run"}) + 1 /\ Count({"born"})' = Count({"born"})
    <3>0. /\ wpc[w] \in Alive /\ "run" \in Alive /\ wpc[w] \notin Popping /\ "run" \notin Popping
          /\ wpc[w] \notin {"run"} /\ "run" \in {"run"}
          /\ wpc[w] \notin {"born"} /\ "run" \notin {"born"}
      BY <2>1 DEF Alive, Popping
    <3>1. Count(Alive)' = Count(Alive) BY <2>1, <3>0, <1>4
    <3>2. Count(Popping)' = Count(Popping) BY <2>1, <3>0, <1>4
    <3>3. Count({"run"})' = Count({"run"}) + 1 BY <2>1, <3>0, <1>4
    <3>4. Count({"born"})' = Count({"born"}) BY <2>1, <3>0, <1>4
    <3> QED BY <3>1, <3>2, <3>3, <3>4
  <2>3. pop[w] # None /\ pop[w] \in Jobs BY <1>0, <2>1 DEF QueueInv, PoolTyped
  <2>4. /\ jpc' \in [Jobs -> {"new", "queued", "running", "done"}] /\ jpc'[pop[w]] = "running"
        /\ \A j \in Jobs : j # pop[w] => jpc'[j] = jpc[j]
    BY <1>0, <2>1, <2>3 DEF PoolTyped
  <2>5. PoolTyped' BY <1>0, <1>1, <1>3, <2>1, <2>4 DEF PoolTyped, Alive
  <2>6. QueueInv'
    <3>1. wpc'[w] = "run" /\ \A v \in Workers : v # w => wpc'[v] = wpc[v] BY <1>0, <2>1 DEF PoolTyped
    <3>2. \A n \in DOMAIN queue : queue[n] \in Jobs /\ queue[n] # pop[w] BY <1>0 DEF QueueInv, PoolTyped
    <3>3. \A v \in Workers : pop[v] # None => pop[v] \in Jobs BY <1>0 DEF PoolTyped
    <3>4. \A n \in DOMAIN queue' : jpc'[queue'[n]] = "queued" /\ \A v \in Workers : pop'[v] # queue'[n]
      BY <1>0, <2>1, <2>4, <3>2 DEF QueueInv
    <3>5. \A v \in Workers : pop'[v] # None => jpc'[pop'[v]] \in {"queued", "running"}
      BY <1>0, <2>1, <2>4, <3>3 DEF QueueInv
    <3>6. \A j \in Jobs : jpc'[j] \in {"queued", "running"} =>
            (\E n \in DOMAIN queue' : queue'[n] = j) \/ (\E v \in Workers : pop'[v] = j)
      BY <1>0, <2>1, <2>4 DEF QueueInv
    <3>7. \A j \in Jobs : lpc'[j] = "new" => jpc'[j] = "new"
      BY <1>0, <1>1, <2>3, <2>4 DEF QueueInv
    <3>8. \A v \in Workers : /\ wpc'[v] \in {"got", "run"} => pop'[v] # None
                             /\ pop'[v] # None => wpc'[v] \in {"unpop", "got", "run"}
      BY <1>0, <2>1, <2>3, <3>1 DEF QueueInv
    <3> QED BY <1>0, <2>1, <3>4, <3>5, <3>6, <3>7, <3>8 DEF QueueInv
  <2> QED BY <1>1, <1>2, <2>1, <2>2, <2>5, <2>6, WorkerKeeps
<1>10. CASE WorkerDone(w)
  <2>1. /\ wpc[w] = "run" /\ wpc' = [wpc EXCEPT ![w] = "top"] /\ busy' = busy - 1
        /\ jpc' = [jpc EXCEPT ![pop[w]] = "done"] /\ pop' = [pop EXCEPT ![w] = None]
        /\ UNCHANGED <<queue, starting, running, popping, check>>
    BY <1>10 DEF WorkerDone, At
  <2>2. /\ Count(Alive)' = Count(Alive) /\ Count(Popping)' = Count(Popping)
        /\ Count({"run"})' = Count({"run"}) - 1 /\ Count({"born"})' = Count({"born"})
    <3>0. /\ wpc[w] \in Alive /\ "top" \in Alive /\ wpc[w] \notin Popping /\ "top" \notin Popping
          /\ wpc[w] \in {"run"} /\ "top" \notin {"run"}
          /\ wpc[w] \notin {"born"} /\ "top" \notin {"born"}
      BY <2>1 DEF Alive, Popping
    <3>1. Count(Alive)' = Count(Alive) BY <2>1, <3>0, <1>4
    <3>2. Count(Popping)' = Count(Popping) BY <2>1, <3>0, <1>4
    <3>3. Count({"run"})' = Count({"run"}) - 1 BY <2>1, <3>0, <1>4
    <3>4. Count({"born"})' = Count({"born"}) BY <2>1, <3>0, <1>4
    <3> QED BY <3>1, <3>2, <3>3, <3>4
  <2>3. pop[w] # None /\ pop[w] \in Jobs BY <1>0, <2>1 DEF QueueInv, PoolTyped
  <2>4. /\ jpc' \in [Jobs -> {"new", "queued", "running", "done"}] /\ jpc'[pop[w]] = "done"
        /\ \A j \in Jobs : j # pop[w] => jpc'[j] = jpc[j]
    BY <1>0, <2>1, <2>3 DEF PoolTyped
  <2>5. /\ pop' \in [Workers -> Jobs \cup {None}] /\ pop'[w] = None
        /\ \A v \in Workers : v # w => pop'[v] = pop[v]
    BY <1>0, <2>1 DEF PoolTyped
  <2>6. PoolTyped' BY <1>0, <1>1, <1>3, <2>1, <2>4, <2>5 DEF PoolTyped, Alive
  <2>7. QueueInv'
    <3>1. wpc'[w] = "top" /\ \A v \in Workers : v # w => wpc'[v] = wpc[v] BY <1>0, <2>1 DEF PoolTyped
    <3>2. \A n \in DOMAIN queue : queue[n] \in Jobs /\ queue[n] # pop[w] /\ queue[n] # None
      BY <1>0, PoolAssumption DEF QueueInv, PoolTyped
    <3>3. \A v \in Workers : pop[v] # None => pop[v] \in Jobs BY <1>0 DEF PoolTyped
    <3>4. \A n \in DOMAIN queue' : jpc'[queue'[n]] = "queued" /\ \A v \in Workers : pop'[v] # queue'[n]
      BY <1>0, <2>1, <2>4, <2>5, <3>2 DEF QueueInv
    <3>5. \A v \in Workers : pop'[v] # None => pop[v] # pop[w] /\ pop'[v] = pop[v]
      BY <1>0, <2>3, <2>5 DEF QueueInv
    <3>6. \A v \in Workers : pop'[v] # None => jpc'[pop'[v]] \in {"queued", "running"}
      BY <1>0, <2>4, <3>3, <3>5 DEF QueueInv
    <3>7. \A j \in Jobs : jpc'[j] \in {"queued", "running"} =>
            (\E n \in DOMAIN queue' : queue'[n] = j) \/ (\E v \in Workers : pop'[v] = j)
      <4> SUFFICES ASSUME NEW j \in Jobs, jpc'[j] \in {"queued", "running"}
                   PROVE  (\E n \in DOMAIN queue' : queue'[n] = j) \/ (\E v \in Workers : pop'[v] = j)
        OBVIOUS
      <4>1. j # pop[w] /\ jpc[j] \in {"queued", "running"} BY <2>4
      <4> QED BY <1>0, <2>1, <2>5, <4>1 DEF QueueInv
    <3>8. \A j \in Jobs : lpc'[j] = "new" => jpc'[j] = "new"
      BY <1>0, <1>1, <2>3, <2>4 DEF QueueInv
    <3>9. \A v \in Workers : /\ wpc'[v] \in {"got", "run"} => pop'[v] # None
                             /\ pop'[v] # None => wpc'[v] \in {"unpop", "got", "run"}
      BY <1>0, <2>5, <3>1 DEF QueueInv
    <3>10. \A u, v \in Workers : pop'[u] = pop'[v] /\ pop'[u] # None => u = v
      BY <1>0, <2>5 DEF QueueInv
    <3> QED BY <1>0, <2>1, <3>4, <3>6, <3>7, <3>8, <3>9, <3>10 DEF QueueInv
  <2> QED BY <1>1, <1>2, <2>1, <2>2, <2>6, <2>7, WorkerKeeps
<1>11. CASE WorkerEnd(w)
  <2>1. /\ wpc[w] = "end" /\ wpc' = [wpc EXCEPT ![w] = "none"]
        /\ running' = running - 1 /\ check' = [check EXCEPT ![w] = FALSE]
        /\ UNCHANGED <<queue, starting, popping, busy, pop, jpc>>
    BY <1>11 DEF WorkerEnd, At
  <2>2. /\ Count(Alive)' = Count(Alive) - 1 /\ Count(Popping)' = Count(Popping)
        /\ Count({"run"})' = Count({"run"}) /\ Count({"born"})' = Count({"born"})
    <3>0. /\ wpc[w] \in Alive /\ "none" \notin Alive /\ wpc[w] \notin Popping /\ "none" \notin Popping
          /\ wpc[w] \notin {"run"} /\ "none" \notin {"run"}
          /\ wpc[w] \notin {"born"} /\ "none" \notin {"born"}
      BY <2>1 DEF Alive, Popping
    <3>1. Count(Alive)' = Count(Alive) - 1 BY <2>1, <3>0, <1>4
    <3>2. Count(Popping)' = Count(Popping) BY <2>1, <3>0, <1>4
    <3>3. Count({"run"})' = Count({"run"}) BY <2>1, <3>0, <1>4
    <3>4. Count({"born"})' = Count({"born"}) BY <2>1, <3>0, <1>4
    <3> QED BY <3>1, <3>2, <3>3, <3>4
  <2>3. PoolTyped' BY <1>0, <1>1, <1>3, <2>1 DEF PoolTyped, Alive
  <2>4. QueueInv' BY <1>0, <1>1, <2>1, QueueStays DEF QueueInv
  <2> QED BY <1>1, <1>2, <2>1, <2>2, <2>3, <2>4, WorkerKeeps
<1>12. CASE WorkerSpurious(w)
  <2>1. wpc[w] = "wait" /\ wpc' = [wpc EXCEPT ![w] = "woken"] /\ UNCHANGED <<queue, counts, check, pop, jpc>>
    BY <1>12 DEF WorkerSpurious, At
  <2>2. Wakes BY <1>0, <2>1 DEF PoolTyped, Wakes, Alive
  <2>3. UNCHANGED <<starting, running, popping, busy>> BY <2>1 DEF counts
  <2>4. PoolTyped' BY <1>0, <1>1, <1>3, <2>1, <2>2, <2>3 DEF PoolTyped, Wakes
  <2>5. QueueInv' BY <1>0, <1>1, <2>1, <2>2, WakesQueue
  <2> QED BY <1>1, <1>2, <2>2, <2>3, <2>4, <2>5, WakesCounts, WorkerKeeps
<1> QED BY <1>5, <1>6, <1>7, <1>8, <1>9, <1>10, <1>11, <1>12 DEF Work

-----------------------------------------------------------------------------
(* Launching, and the end of the core *)

\* Steps that leave the manager and the counters alone and move no worker but
\* for those they wake.
LEMMA WakingKeeps ==
    ASSUME PoolInv, Wakes, UNCHANGED <<starting, running, popping, busy, mpc, late, need, failures>>,
           PoolTyped', QueueInv'
    PROVE  PoolInv'
<1>0. CountInv /\ NeedInv BY DEF PoolInv
<1>1. CountInv' BY <1>0, WakesCounts DEF CountInv
<1>2. NeedInv' BY <1>0 DEF NeedInv
<1> QED BY <1>1, <1>2 DEF PoolInv

LEMMA LaunchStep ==
    ASSUME PoolInv, NEW j \in Jobs, Launch(j)
    PROVE  PoolInv'
<1>0. PoolTyped /\ QueueInv BY DEF PoolInv
<1>1. Wakes BY <1>0, Waking DEF Launch
<1>2. /\ UNCHANGED <<starting, running, popping, busy, mpc, late, need, failures, ready, check, pop, upc>>
      /\ lpc[j] = "new" /\ lpc' = [lpc EXCEPT ![j] = "wake"] /\ jpc' = [jpc EXCEPT ![j] = "queued"]
      /\ queue' = Append(queue, j)
  BY DEF Launch, counts, manager
<1>3. /\ lpc' \in [Jobs -> {"new", "wake", "done"}] /\ lpc'[j] = "wake"
      /\ jpc' \in [Jobs -> {"new", "queued", "running", "done"}] /\ jpc'[j] = "queued"
      /\ \A k \in Jobs : k # j => lpc'[k] = lpc[k] /\ jpc'[k] = jpc[k]
  BY <1>0, <1>2 DEF PoolTyped
<1>4. Len(queue) \in Nat /\ DOMAIN queue = 1 .. Len(queue) /\ \A n \in DOMAIN queue : queue[n] \in Jobs
  BY <1>0 DEF PoolTyped
<1>5. /\ queue' \in Seq(Jobs) /\ DOMAIN queue' = 1 .. Len(queue) + 1 /\ queue'[Len(queue) + 1] = j
      /\ \A n \in DOMAIN queue : queue'[n] = queue[n]
  BY <1>0, <1>2, <1>4 DEF PoolTyped
\* The session is new, so it is neither in the queue nor with a worker.
<1>6. jpc[j] = "new" BY <1>0, <1>2 DEF QueueInv
<1>7. \A n \in DOMAIN queue : queue[n] # j BY <1>0, <1>6 DEF QueueInv
<1>8. \A w \in Workers : pop[w] # j BY <1>0, <1>6, PoolAssumption DEF QueueInv
<1>9. \A n \in DOMAIN queue' : n = Len(queue) + 1 \/ (n \in DOMAIN queue /\ n # Len(queue) + 1) BY <1>4, <1>5
<1>10. \A m, n \in DOMAIN queue' : queue'[m] = queue'[n] => m = n
  BY <1>0, <1>5, <1>7, <1>9 DEF QueueInv
<1>11. \A n \in DOMAIN queue' : jpc'[queue'[n]] = "queued" /\ \A w \in Workers : pop'[w] # queue'[n]
  <2> SUFFICES ASSUME NEW n \in DOMAIN queue'
               PROVE  jpc'[queue'[n]] = "queued" /\ \A w \in Workers : pop'[w] # queue'[n]
    OBVIOUS
  <2>1. CASE n = Len(queue) + 1 BY <1>2, <1>3, <1>5, <1>8, <2>1
  <2>2. CASE n \in DOMAIN queue
    <3>1. queue'[n] = queue[n] /\ queue[n] \in Jobs /\ queue[n] # j BY <1>4, <1>5, <1>7, <2>2
    <3> QED BY <1>0, <1>2, <1>3, <2>2, <3>1 DEF QueueInv
  <2> QED BY <1>9, <2>1, <2>2
<1>12. \A w \in Workers : pop'[w] # None => jpc'[pop'[w]] \in {"queued", "running"}
  <2> SUFFICES ASSUME NEW w \in Workers, pop[w] # None PROVE jpc'[pop[w]] \in {"queued", "running"}
    BY <1>2
  <2>1. pop[w] \in Jobs /\ pop[w] # j BY <1>0, <1>8 DEF PoolTyped
  <2> QED BY <1>0, <1>3, <2>1 DEF QueueInv
<1>13. ASSUME NEW k \in Jobs, jpc'[k] \in {"queued", "running"}
       PROVE  (\E n \in DOMAIN queue' : queue'[n] = k) \/ (\E w \in Workers : pop'[w] = k)
  <2>1. CASE k = j
    <3>1. Len(queue) + 1 \in DOMAIN queue' BY <1>4, <1>5
    <3> QED BY <1>5, <2>1, <3>1
  <2>2. CASE k # j
    <3>1. (\E n \in DOMAIN queue : queue[n] = k) \/ (\E w \in Workers : pop[w] = k)
      BY <1>0, <1>3, <1>13, <2>2 DEF QueueInv
    <3>2. \A n \in DOMAIN queue : n \in DOMAIN queue' BY <1>4, <1>5
    <3> QED BY <1>2, <1>5, <3>1, <3>2
  <2> QED BY <2>1, <2>2
<1>14. \A k \in Jobs : lpc'[k] = "new" => jpc'[k] = "new" BY <1>0, <1>3 DEF QueueInv
<1>15. \A w \in Workers : /\ wpc'[w] \in {"got", "run"} => pop'[w] # None
                          /\ pop'[w] # None => wpc'[w] \in {"unpop", "got", "run"}
  BY <1>0, <1>1, <1>2 DEF QueueInv, Wakes
<1>16. \A v, w \in Workers : pop'[v] = pop'[w] /\ pop'[v] # None => v = w BY <1>0, <1>2 DEF QueueInv
<1>17. QueueInv' BY <1>10, <1>11, <1>12, <1>13, <1>14, <1>15, <1>16 DEF QueueInv
<1>18. PoolTyped' BY <1>0, <1>1, <1>2, <1>3, <1>5 DEF PoolTyped, Wakes
<1> QED BY <1>1, <1>2, <1>17, <1>18, WakingKeeps

LEMMA StopStep ==
    ASSUME PoolInv, Uninit \/ UninitLoop \/ UninitJoin \/ UninitEnd \/ UNCHANGED vars
    PROVE  PoolInv'
<1>0. PoolTyped /\ QueueInv BY DEF PoolInv
<1>1. /\ UNCHANGED <<starting, running, popping, busy, mpc, late, need, failures, queue, lpc, check, pop, jpc>>
      /\ UNCHANGED wpc \/ InterruptAll
  BY DEF Uninit, UninitLoop, UninitJoin, UninitEnd, vars, counts, manager, worker
<1>2. ready' \in BOOLEAN /\ upc' \in {"up", "wake", "loop", "join", "down"}
  <2>1. CASE Uninit BY <2>1 DEF Uninit
  <2>2. CASE UninitLoop \/ UninitJoin \/ UninitEnd BY <1>0, <2>2 DEF UninitLoop, UninitJoin, UninitEnd, PoolTyped
  <2>3. CASE UNCHANGED vars BY <1>0, <2>3 DEF vars, PoolTyped
  <2> QED BY <2>1, <2>2, <2>3
<1>3. Wakes BY <1>0, <1>1, Waking
<1>4. PoolTyped' BY <1>0, <1>1, <1>2, <1>3 DEF PoolTyped, Wakes
<1>5. QueueInv' BY <1>0, <1>1, <1>3, WakesQueue
<1> QED BY <1>1, <1>3, <1>4, <1>5, WakingKeeps

LEMMA Inductive == PoolInv /\ [Next]_vars => PoolInv'
<1> SUFFICES ASSUME PoolInv, [Next]_vars PROVE PoolInv' OBVIOUS
<1>1. CASE \E j \in Jobs : Launch(j) BY <1>1, LaunchStep
<1>2. CASE Manager \/ UninitWake \/ \E j \in Jobs : LaunchWake(j) BY <1>2, ManagerStep
<1>3. CASE \E w \in Workers : Work(w) \/ WorkerDone(w) \/ WorkerSpurious(w) BY <1>3, WorkerStep
<1>4. CASE Uninit \/ UninitLoop \/ UninitJoin \/ UninitEnd \/ UNCHANGED vars BY <1>4, StopStep
<1> QED BY <1>1, <1>2, <1>3, <1>4 DEF Next, Stop

-----------------------------------------------------------------------------
(* The theorems *)

\* The counters of session_manager are what they count, and a session that is
\* launched has exactly one place, in every behaviour of the pool.
THEOREM Invariance == Spec => []PoolInv
<1>1. Init => PoolInv BY InitInv
<1>2. PoolInv /\ [Next]_vars => PoolInv' BY Inductive
<1> QED BY <1>1, <1>2, PTL DEF Spec

\* The variables of the pool have their types: running, popping and busy never
\* pass the number of workers, starting and what check_queue still has to make
\* never pass the number of sessions, and starting is never below -1.
THEOREM TypeCorrect == Spec => []TypeOK
<1>1. PoolInv => TypeOK BY Bounded
<1> QED BY <1>1, Invariance, PTL

\* How often one of two places that exclude each other holds a session.
LEMMA OneOrNone ==
    ASSUME NEW S, \A x, y \in S : x = y
    PROVE  (S = {} => Cardinality(S) = 0) /\ (S # {} => Cardinality(S) = 1)
<1>1. CASE S = {} BY <1>1, FS_EmptySet
<1>2. CASE S # {}
  <2>1. PICK x \in S : TRUE BY <1>2
  <2>2. S = {x} BY <2>1
  <2> QED BY <1>2, <2>2, FS_Singleton
<1> QED BY <1>1, <1>2

\* No session that thread_pool_launch queued is lost, and none is with two
\* workers: it is in the queue or with one worker until it is done.
THEOREM NoneLostNorRunTwice == Spec => []JobIsSomewhere
<1>1. ASSUME PoolInv PROVE JobIsSomewhere
  <2>0. PoolTyped /\ QueueInv BY <1>1 DEF PoolInv
  <2> SUFFICES ASSUME NEW j \in Jobs
               PROVE  Cardinality({i \in DOMAIN queue : queue[i] = j})
                        + Cardinality({w \in Workers : pop[w] = j})
                        = IF jpc[j] \in {"queued", "running"} THEN 1 ELSE 0
    BY DEF JobIsSomewhere
  <2>1. PICK Q, W : /\ Q = {i \in DOMAIN queue : queue[i] = j} /\ W = {w \in Workers : pop[w] = j} OBVIOUS
  <2>2. j # None BY PoolAssumption
  <2>3. (\A x, y \in Q : x = y) /\ (\A x, y \in W : x = y) BY <2>0, <2>1, <2>2 DEF QueueInv
  <2>4. /\ (Q = {} => Cardinality(Q) = 0) /\ (Q # {} => Cardinality(Q) = 1)
        /\ (W = {} => Cardinality(W) = 0) /\ (W # {} => Cardinality(W) = 1)
    BY <2>3, OneOrNone
  <2>5. Q = {} \/ W = {} BY <2>0, <2>1 DEF QueueInv
  <2>6. jpc[j] \in {"queued", "running"} <=> Q # {} \/ W # {} BY <2>0, <2>1, <2>2 DEF QueueInv
  <2> QED BY <2>1, <2>4, <2>5, <2>6
<1> QED BY <1>1, Invariance, PTL
=============================================================================
