-------------------------- MODULE SchedulerProofs --------------------------
(***************************************************************************)
(* Proofs about the scheduler: its types, that a container which is being  *)
(* executed is in the list, and that it implements TaskLife, for any       *)
(* number of tasks, callers and groups.                                    *)
(***************************************************************************)
EXTENDS Scheduler, TLAPS

USE DEF Tasks

-----------------------------------------------------------------------------
(* Types *)

Adder == [pc : {"idle", "asked", "announce"}, want : Times, every : BOOLEAN, task : {0} \cup Tasks]

(* The callers' steps. *)
LEMMA CallerTyped ==
    ASSUME TypeOK, NEW p \in Callers, Ask(p) \/ Adding(p)
    PROVE  TypeOK'
<1> USE ClockAssumption, BoundsAssumption, FlagsAssumption
<1>a. \A r \in Adder : [adder EXCEPT ![p] = r] \in [Callers -> Adder]
  BY DEF TypeOK, Adder
<1>b. \A w \in Times, e \in BOOLEAN, c \in {0} \cup Tasks :
        /\ Caller("idle", w, e, c) \in Adder
        /\ Caller("asked", w, e, c) \in Adder
        /\ Caller("announce", w, e, c) \in Adder
  BY DEF Adder, Caller
<1>c. 0 \in Times BY DEF Times
<1>1. CASE Ask(p)
  <2>1. \A d \in Delays : now + d \in Times BY DEF TypeOK, Times
  <2>2. \A i \in Intervals : i \in Times BY DEF TypeOK, Times
  <2>3. adder' \in [Callers -> Adder]
    BY <1>1, <1>a, <1>b, <2>1, <2>2 DEF Ask
  <2> QED BY <1>1, <2>3 DEF Ask, TypeOK, Adder, clock, thread, list, task
<1>2. CASE Add(p)
  <2> DEFINE w == adder[p].want
  <2>1. PICK c \in Tasks \ (listed \cup freed) :
          /\ listed' = listed \cup {c}
          /\ \E g \in Groups, o \in OwnThread, n \in NoDel :
                info' = [info EXCEPT ![c] = [group |-> g, own |-> o, nodel |-> n,
                                             every |-> adder[p].every]]
          /\ runtime' = [runtime EXCEPT ![c] = IF w < now THEN w + now ELSE w]
          /\ repeat' = [repeat EXCEPT ![c] = IF w < now THEN w ELSE 0]
          /\ adder' = [adder EXCEPT ![p] = Caller("announce", 0, FALSE, c)]
    BY <1>2 DEF Add
  <2>2. adder' \in [Callers -> Adder]
    BY <2>1, <1>a, <1>b, <1>c
  <2>3. info' \in [Tasks -> [group : Groups \cup {"none"}, own : BOOLEAN, nodel : BOOLEAN,
                             every : BOOLEAN]]
    BY <2>1 DEF TypeOK
  <2>4. w \in Times BY DEF TypeOK
  <2>5. (IF w < now THEN w + now ELSE w) \in Times /\ (IF w < now THEN w ELSE 0) \in 0 .. MaxTime
    BY <2>4, SMTT(40) DEF TypeOK, Times
  <2>6. runtime' \in [Tasks -> Times] /\ repeat' \in [Tasks -> 0 .. MaxTime]
    BY <2>1, <2>5 DEF TypeOK
  <2> QED BY <1>2, <2>1, <2>2, <2>3, <2>6 DEF Add, TypeOK, Adder, clock, thread
<1>3. CASE Announce(p)
  <2>1. adder' \in [Callers -> Adder]
    BY <1>3, <1>a, <1>b, <1>c DEF Announce, Idle
  <2>2. events' \in 0 .. EventLen BY <1>3 DEF Announce, Push, TypeOK
  <2> QED BY <1>3, <2>1, <2>2 DEF Announce, TypeOK, Adder, clock, thread, list, task
<1> QED BY <1>1, <1>2, <1>3 DEF Adding

(* The callback and what follows it, wherever they run. *)
LEMMA ExecuteTyped ==
    ASSUME TypeOK, NEW c \in Tasks, Func(c) \/ Reschedule(c)
    PROVE  /\ now' \in StartTime .. MaxTime
           /\ trunning' \in {-1, 0, 1}
           /\ listed' \subseteq Tasks /\ freed' \subseteq Tasks
           /\ info' = info /\ repeat' = repeat /\ inThread' = inThread /\ adder' = adder
           /\ runtime' \in [Tasks -> Times]
           /\ executed' \in [Tasks -> 0 .. MaxTime]
           /\ destroyed' \in [Tasks -> BOOLEAN]
           /\ events' \in 0 .. EventLen
<1> USE ClockAssumption, BoundsAssumption
<1>1. CASE Func(c)
  <2>1. \A d \in Delays : now + d \in Times BY DEF TypeOK, Times
  <2>2. runtime \in [Tasks -> Times] BY DEF TypeOK
  <2>3. PICK r \in {runtime[c]} \cup {now + d : d \in Delays} :
          runtime' = [runtime EXCEPT ![c] = r]
    BY <1>1 DEF Func
  <2>4. r \in Times BY <2>1, <2>2
  <2>5. runtime' \in [Tasks -> Times] BY <2>2, <2>3, <2>4
  <2> QED BY <1>1, <2>5 DEF Func, TypeOK, clock, list
<1>2. CASE Reschedule(c)
  <2>1. (IF repeat[c] > 0 THEN now + repeat[c] ELSE runtime[c]) \in Times
    BY SMTT(40) DEF TypeOK, Times
  <2>2. runtime' \in [Tasks -> Times]
    BY <1>2, <2>1 DEF Reschedule, TypeOK
  <2>5. 0 \in 0 .. MaxTime OBVIOUS
  <2>6. executed' = executed \/ executed' = [executed EXCEPT ![c] = 0]
    BY <1>2, Zenon DEF Reschedule
  <2>7. destroyed' = destroyed \/ destroyed' = [destroyed EXCEPT ![c] = TRUE]
    BY <1>2, Zenon DEF Reschedule
  <2>3. executed' \in [Tasks -> 0 .. MaxTime] /\ destroyed' \in [Tasks -> BOOLEAN]
    BY <2>5, <2>6, <2>7, ZenonT(40) DEF TypeOK
  <2>4. events' \in 0 .. EventLen
    BY <1>2, SMTT(40) DEF Reschedule, Push, TypeOK
  <2> QED BY <1>2, <2>2, <2>3, <2>4 DEF Reschedule, TypeOK, clock, list
<1> QED BY <1>1, <1>2

LEMMA ThreadTyped ==
    ASSUME TypeOK, TaskThread, tpc \in {"func", "resched", "relock"} => tp \in Tasks
    PROVE  TypeOK'
<1> USE ClockAssumption, BoundsAssumption
<1>1. CASE Start \/ ScanEnd \/ SweepBegin \/ SweepEnd
  BY <1>1 DEF Start, ScanEnd, SweepBegin, SweepEnd, Moves, TypeOK, ThreadPC, list, task
<1>10. CASE Pop
  <2>1. events' \in 0 .. EventLen BY <1>10 DEF Pop, TypeOK
  <2> QED BY <1>10, <2>1 DEF Pop, Moves, TypeOK, ThreadPC, list, task
<1>11. CASE While
  <2>1. done' \in BOOLEAN BY <1>11, Zenon DEF While
  <2> QED BY <1>11, <2>1 DEF While, Moves, TypeOK, ThreadPC, list, task
<1>2. CASE ScanSkip
  <2>1. PICK c \in Tasks : tp' = c /\ destroyed' = [destroyed EXCEPT ![c] = @ \/ done]
    BY <1>2 DEF ScanSkip
  <2>2. destroyed' \in [Tasks -> BOOLEAN] BY <2>1, Zenon DEF TypeOK
  <2> QED BY <1>2, <2>1, <2>2 DEF ScanSkip, TypeOK, clock, list
<1>9. CASE SweepSkip
  BY <1>9 DEF SweepSkip, TypeOK, clock, list, task
<1>n. now \in 0 .. MaxTime BY DEF TypeOK
<1>3. CASE ScanOwnThread
  <2>1. opc' \in [Tasks -> OwnPC] BY <1>3 DEF ScanOwnThread, TypeOK, OwnPC
  <2>2. executed' \in [Tasks -> 0 .. MaxTime] BY <1>3, <1>n DEF ScanOwnThread, TypeOK
  <2> QED BY <1>3, <2>1, <2>2 DEF ScanOwnThread, TypeOK, clock, list
<1>4. CASE ScanExecute
  <2>1. executed' \in [Tasks -> 0 .. MaxTime] BY <1>4, <1>n DEF ScanExecute, TypeOK
  <2>2. running' \in [Tasks -> BOOLEAN] BY <1>4 DEF ScanExecute, TypeOK
  <2> QED BY <1>4, <2>1, <2>2 DEF ScanExecute, TypeOK, ThreadPC, clock, list
<1>5. CASE ThreadFunc
  <2>1. tp \in Tasks /\ Func(tp) BY <1>5 DEF ThreadFunc
  <2> QED BY <2>1, <1>5, ExecuteTyped DEF ThreadFunc, TypeOK, ThreadPC
<1>6. CASE ThreadReschedule
  <2>1. tp \in Tasks /\ Reschedule(tp) BY <1>6 DEF ThreadReschedule
  <2> QED BY <2>1, <1>6, ExecuteTyped DEF ThreadReschedule, TypeOK, ThreadPC
<1>7. CASE Relock
  BY <1>7 DEF Relock, TypeOK, ThreadPC, clock, list
<1>8. CASE SweepFree
  BY <1>8, SMTT(40) DEF SweepFree, Push, TypeOK, clock, task
<1> QED BY <1>1, <1>2, <1>3, <1>4, <1>5, <1>6, <1>7, <1>8, <1>9, <1>10, <1>11 DEF TaskThread

LEMMA OwnTyped ==
    ASSUME TypeOK, NEW c \in Tasks, Own(c)
    PROVE  TypeOK'
<1>1. CASE OwnFunc(c) \/ OwnReschedule(c)
  <2>1. Func(c) \/ Reschedule(c) BY <1>1 DEF OwnFunc, OwnReschedule
  <2> QED BY <2>1, <1>1, ExecuteTyped DEF OwnFunc, OwnReschedule, TypeOK, OwnPC, thread
<1>2. CASE OwnEnd(c)
  BY <1>2 DEF OwnEnd, TypeOK, OwnPC, clock, thread, list
<1> QED BY <1>1, <1>2 DEF Own

LEMMA OtherTyped ==
    ASSUME TypeOK, Tick \/ DelTaskId \/ DelTaskGroup \/ Stop
    PROVE  TypeOK'
<1>1. CASE Tick
  <2>1. now' \in StartTime .. MaxTime BY <1>1, ClockAssumption DEF Tick, TypeOK
  <2> QED BY <1>1, <2>1 DEF Tick, TypeOK, thread, list, task
<1>4. CASE Stop
  BY <1>4 DEF Stop, TypeOK, thread, list, task
<1>2. CASE DelTaskId
  BY <1>2 DEF DelTaskId, TypeOK, clock, thread, list
<1>3. CASE DelTaskGroup
  <2>1. destroyed' \in [Tasks -> BOOLEAN] BY <1>3, Zenon DEF DelTaskGroup
  <2> QED BY <1>3, <2>1 DEF DelTaskGroup, TypeOK, clock, thread, list
<1> QED BY <1>1, <1>2, <1>3, <1>4

-----------------------------------------------------------------------------
(* The inductive invariant: a container is in the list or freed, not both; *)
(* a task's own thread is alive only while in_thread keeps its container   *)
(* from the sweep; the task thread executes a listed task that has no      *)
(* thread of its own; and a container that is not in use is not deleted.   *)
SchedInv ==
    /\ listed \cap freed = {}
    /\ \A c \in Tasks : opc[c] # "none" => c \in listed /\ inThread[c] /\ info[c].own
    /\ tpc \in {"func", "resched", "relock"} => tp \in listed /\ ~info[tp].own
    /\ \A c \in Tasks : destroyed[c] => c \in listed \cup freed

LEMMA CallerInv ==
    ASSUME TypeOK, SchedInv, NEW p \in Callers, Ask(p) \/ Adding(p)
    PROVE  SchedInv'
<1>1. CASE Ask(p) \/ Announce(p)
  BY <1>1 DEF Ask, Announce, SchedInv, clock, thread, list, task
<1>2. CASE Add(p)
  <2>1. PICK c \in Tasks \ (listed \cup freed) :
          /\ listed' = listed \cup {c}
          /\ \E r : info' = [info EXCEPT ![c] = r]
    BY <1>2 DEF Add
  <2>2. \A d \in listed : info'[d] = info[d] BY <2>1 DEF TypeOK
  <2> QED BY <1>2, <2>1, <2>2 DEF Add, SchedInv, clock, thread
<1> QED BY <1>1, <1>2 DEF Adding

LEMMA OwnInv ==
    ASSUME TypeOK, SchedInv, NEW c \in Tasks, Own(c)
    PROVE  SchedInv'
<1>1. CASE OwnFunc(c)
  BY <1>1 DEF OwnFunc, Func, TypeOK, SchedInv, clock, thread, list
<1>2. CASE OwnReschedule(c)
  <2>1. destroyed' = destroyed \/ destroyed' = [destroyed EXCEPT ![c] = TRUE]
    BY <1>2, Zenon DEF OwnReschedule, Reschedule
  <2> QED BY <1>2, <2>1, ZenonT(40) DEF OwnReschedule, Reschedule, TypeOK, SchedInv, clock, thread, list
<1>3. CASE OwnEnd(c)
  BY <1>3 DEF OwnEnd, TypeOK, SchedInv, clock, thread, list
<1> QED BY <1>1, <1>2, <1>3 DEF Own

LEMMA ThreadInv ==
    ASSUME TypeOK, SchedInv, TaskThread
    PROVE  SchedInv'
<1>1. CASE Start \/ ScanEnd \/ SweepBegin \/ SweepEnd \/ Pop \/ While
  BY <1>1 DEF Start, ScanEnd, SweepBegin, SweepEnd, Pop, While, Moves, SchedInv, list, task
<1>2. CASE ScanSkip
  <2>1. PICK c \in listed : destroyed' = [destroyed EXCEPT ![c] = @ \/ done]
    BY <1>2 DEF ScanSkip, IsNext
  <2>2. \A d \in Tasks : d # c => destroyed'[d] = destroyed[d] BY <2>1 DEF TypeOK
  <2> QED BY <1>2, <2>1, <2>2 DEF ScanSkip, TypeOK, SchedInv, clock, list
<1>3. CASE SweepSkip
  BY <1>3 DEF SweepSkip, SchedInv, clock, list, task
<1>4. CASE ScanOwnThread
  <2>1. PICK c \in listed : /\ info[c].own
                            /\ inThread' = [inThread EXCEPT ![c] = TRUE]
                            /\ opc' = [opc EXCEPT ![c] = "func"] \/ opc' = opc
    BY <1>4 DEF ScanOwnThread, IsNext
  <2> QED BY <1>4, <2>1 DEF ScanOwnThread, TypeOK, SchedInv, clock, list
<1>5. CASE ScanExecute
  BY <1>5 DEF ScanExecute, IsNext, SchedInv, clock, list
<1>6. CASE ThreadFunc
  BY <1>6 DEF ThreadFunc, Func, SchedInv, clock, list
<1>7. CASE ThreadReschedule
  <2>1. destroyed' = destroyed \/ destroyed' = [destroyed EXCEPT ![tp] = TRUE]
    BY <1>7, Zenon DEF ThreadReschedule, Reschedule
  <2> QED BY <1>7, <2>1, ZenonT(40) DEF ThreadReschedule, Reschedule, TypeOK, SchedInv, clock, list
<1>8. CASE Relock
  BY <1>8 DEF Relock, SchedInv, clock, list
<1>9. CASE SweepFree
  <2>1. PICK c \in listed : /\ destroyed[c] /\ ~inThread[c]
                            /\ listed' = listed \ {c} /\ freed' = freed \cup {c}
    BY <1>9 DEF SweepFree, IsNext
  <2> QED BY <1>9, <2>1 DEF SweepFree, TypeOK, SchedInv, clock, task
<1> QED BY <1>1, <1>2, <1>3, <1>4, <1>5, <1>6, <1>7, <1>8, <1>9 DEF TaskThread

LEMMA OtherInv ==
    ASSUME TypeOK, SchedInv, Tick \/ DelTaskId \/ DelTaskGroup \/ Stop
    PROVE  SchedInv'
<1>1. CASE Tick \/ Stop
  BY <1>1 DEF Tick, Stop, SchedInv, thread, list, task
<1>2. CASE DelTaskId
  BY <1>2 DEF DelTaskId, TypeOK, SchedInv, clock, thread, list
<1>3. CASE DelTaskGroup
  <2>1. \A c \in Tasks : destroyed'[c] => destroyed[c] \/ c \in listed
    BY <1>3, Zenon DEF DelTaskGroup
  <2> QED BY <1>3, <2>1 DEF DelTaskGroup, SchedInv, clock, thread, list
<1> QED BY <1>1, <1>2, <1>3

-----------------------------------------------------------------------------
LEMMA InitInv == Init => TypeOK /\ SchedInv
<1> SUFFICES ASSUME Init PROVE TypeOK /\ SchedInv OBVIOUS
<1> USE ClockAssumption, BoundsAssumption DEF Init
<1>1. 0 \in Times /\ 0 \in 0 .. MaxTime BY DEF Times
<1>2. info \in [Tasks -> [group : Groups \cup {"none"}, own : BOOLEAN, nodel : BOOLEAN, every : BOOLEAN]]
  BY DEF NoInfo
<1>3. adder \in [Callers -> Adder] BY <1>1 DEF Idle, Caller, Adder
<1>4. runtime \in [Tasks -> Times] /\ repeat \in [Tasks -> 0 .. MaxTime] /\ executed \in [Tasks -> 0 .. MaxTime]
  BY <1>1
<1>5. opc \in [Tasks -> OwnPC] BY DEF OwnPC
<1>6. now \in StartTime .. MaxTime /\ events \in 0 .. EventLen OBVIOUS
<1>7. TypeOK BY <1>2, <1>3, <1>4, <1>5, <1>6 DEF TypeOK, ThreadPC, Adder
<1> QED BY <1>7 DEF SchedInv

LEMMA NextInv == TypeOK /\ SchedInv /\ [Next]_vars => TypeOK' /\ SchedInv'
<1> SUFFICES ASSUME TypeOK, SchedInv, [Next]_vars PROVE TypeOK' /\ SchedInv' OBVIOUS
<1>1. CASE UNCHANGED vars
  BY <1>1 DEF vars, clock, thread, list, task, TypeOK, SchedInv
<1>2. CASE TaskThread
  <2>1. tpc \in {"func", "resched", "relock"} => tp \in Tasks BY DEF SchedInv, TypeOK
  <2> QED BY <1>2, <2>1, ThreadTyped, ThreadInv
<1> QED BY <1>1, <1>2, CallerTyped, CallerInv, OwnTyped, OwnInv, OtherTyped, OtherInv DEF Next

(* Every variable of the scheduler keeps its type: the times stay below    *)
(* twice the clock's end and the event queue within its capacity.          *)
THEOREM TypeCorrect == Spec => []TypeOK
BY InitInv, NextInv, PTL DEF Spec

(* No container is freed, and none is executed by the task thread and by a *)
(* thread of its own, while switch_scheduler_execute has it.               *)
THEOREM NothingExecutedIsFreed == Spec => []ExecutedIsListed
<1>1. TypeOK /\ SchedInv => ExecutedIsListed
  BY DEF SchedInv, TypeOK, ExecutedIsListed, Executing, InTaskThread
<1> QED BY <1>1, InitInv, NextInv, PTL DEF Spec

-----------------------------------------------------------------------------
(* The scheduler implements TaskLife. *)

(* How the status of the tasks, as TaskLife sees it, changes in a step. *)
LEMMA Same ==
    ASSUME \A d \in Tasks : StatusOf(d)' = StatusOf(d)
    PROVE  UNCHANGED [c \in Tasks |-> StatusOf(c)]
OBVIOUS

LEMMA Becoming ==
    ASSUME NEW c \in Tasks, NEW a, NEW b, StatusOf(c) = a, StatusOf(c)' = b,
           \A d \in Tasks \ {c} : StatusOf(d)' = StatusOf(d)
    PROVE  Life!Becomes(c, a, b)
BY DEF Life!Becomes

LEMMA Deleting ==
    ASSUME \A d \in Tasks : \/ StatusOf(d)' = StatusOf(d)
                            \/ StatusOf(d) = "waiting" /\ StatusOf(d)' = "dead"
                            \/ StatusOf(d) = "running" /\ StatusOf(d)' = "doomed"
    PROVE  Life!Delete
<1> DEFINE D == {d \in Tasks : StatusOf(d)' # StatusOf(d)}
<1>1. \A d \in Tasks : StatusOf(d)' = IF d \notin D THEN StatusOf(d)
                                      ELSE IF StatusOf(d) = "running" THEN "doomed" ELSE "dead"
  OBVIOUS
<1>2. D \in SUBSET {d \in Tasks : StatusOf(d) \in {"waiting", "running"}} OBVIOUS
<1> QED BY <1>1, <1>2 DEF Life!Delete, Life!Tasks

LEMMA CallerLife ==
    ASSUME TypeOK, SchedInv, NEW p \in Callers, Ask(p) \/ Adding(p)
    PROVE  Life!Next \/ UNCHANGED [c \in Tasks |-> StatusOf(c)]
<1> USE DEF StatusOf, Executing, InTaskThread
<1>1. CASE Ask(p) \/ Announce(p)
  <2>1. \A d \in Tasks : StatusOf(d)' = StatusOf(d)
    BY <1>1 DEF Ask, Announce, clock, thread, list, task
  <2> QED BY <2>1, Same
<1>2. CASE Add(p)
  <2>1. PICK c \in Tasks \ (listed \cup freed) : listed' = listed \cup {c}
    BY <1>2 DEF Add
  <2>2. UNCHANGED <<tpc, tp, freed, destroyed, opc>> BY <1>2 DEF Add, thread
  <2>3. StatusOf(c) = "none" /\ StatusOf(c)' = "waiting"
    BY <2>1, <2>2 DEF SchedInv, TypeOK
  <2>4. \A d \in Tasks \ {c} : StatusOf(d)' = StatusOf(d) BY <2>1, <2>2
  <2> QED BY <2>3, <2>4, Becoming DEF Life!Next, Life!Add, Life!Tasks
<1> QED BY <1>1, <1>2 DEF Adding

LEMMA OwnLife ==
    ASSUME TypeOK, SchedInv, NEW c \in Tasks, Own(c)
    PROVE  Life!Next \/ UNCHANGED [d \in Tasks |-> StatusOf(d)]
<1> USE DEF StatusOf, Executing, InTaskThread
<1>1. CASE OwnFunc(c)
  <2>1. \A d \in Tasks : StatusOf(d)' = StatusOf(d)
    BY <1>1 DEF OwnFunc, Func, TypeOK, clock, thread, list
  <2> QED BY <2>1, Same
<1>2. CASE OwnReschedule(c)
  <2>1. destroyed' = destroyed \/ destroyed' = [destroyed EXCEPT ![c] = TRUE]
    BY <1>2, Zenon DEF OwnReschedule, Reschedule
  <2>2. \A d \in Tasks : \/ StatusOf(d)' = StatusOf(d)
                         \/ StatusOf(d) = "running" /\ StatusOf(d)' = "doomed"
    BY <1>2, <2>1, ZenonT(40) DEF OwnReschedule, Reschedule, TypeOK, SchedInv, clock, thread, list
  <2> QED BY <2>2, Deleting DEF Life!Next
<1>3. CASE OwnEnd(c)
  <2>1. \/ StatusOf(c) = "running" /\ StatusOf(c)' = "waiting"
        \/ StatusOf(c) = "doomed" /\ StatusOf(c)' = "dead"
    BY <1>3 DEF OwnEnd, TypeOK, SchedInv, thread, list
  <2>2. \A d \in Tasks \ {c} : StatusOf(d)' = StatusOf(d)
    BY <1>3 DEF OwnEnd, TypeOK, thread, list
  <2>3. Life!Finish(c) BY <2>1, <2>2, Becoming DEF Life!Finish
  <2> QED BY <2>3 DEF Life!Next, Life!Tasks
<1> QED BY <1>1, <1>2, <1>3 DEF Own

LEMMA ThreadLife ==
    ASSUME TypeOK, SchedInv, TaskThread
    PROVE  Life!Next \/ UNCHANGED [c \in Tasks |-> StatusOf(c)]
<1> USE DEF StatusOf, Executing, InTaskThread
<1>1. CASE Start \/ ScanEnd \/ SweepBegin \/ SweepEnd \/ Pop \/ While \/ SweepSkip \/ ThreadFunc
  <2>1. UNCHANGED <<listed, freed, destroyed, opc>> /\ \A d \in Tasks : InTaskThread(d)' = InTaskThread(d)
    BY <1>1 DEF Start, ScanEnd, SweepBegin, SweepEnd, Pop, While, Moves, SweepSkip, ThreadFunc, Func, list, task
  <2>2. \A d \in Tasks : StatusOf(d)' = StatusOf(d) BY <2>1
  <2> QED BY <2>2, Same
<1>2. CASE ScanSkip
  <2>1. PICK c \in listed : destroyed' = [destroyed EXCEPT ![c] = @ \/ done]
    BY <1>2 DEF ScanSkip, IsNext
  <2>2. \A d \in Tasks : destroyed[d] => destroyed'[d] BY <2>1, Zenon DEF TypeOK
  <2>3. \A d \in Tasks : d # c => destroyed'[d] = destroyed[d] BY <2>1 DEF TypeOK
  <2>4. \A d \in Tasks : \/ StatusOf(d)' = StatusOf(d)
                         \/ StatusOf(d) = "waiting" /\ StatusOf(d)' = "dead"
                         \/ StatusOf(d) = "running" /\ StatusOf(d)' = "doomed"
    BY <1>2, <2>1, <2>2, <2>3 DEF ScanSkip, SchedInv, TypeOK, list
  <2> QED BY <2>4, Deleting DEF Life!Next
<1>3. CASE ScanOwnThread
  <2>1. PICK c \in listed : /\ Due(c)
                            /\ opc' = [opc EXCEPT ![c] = "func"] \/ opc' = opc
    BY <1>3 DEF ScanOwnThread, IsNext
  <2>2. UNCHANGED <<tpc, listed, freed, destroyed>> /\ tpc = "scan" BY <1>3 DEF ScanOwnThread, list
  <2>3. CASE opc' = opc
    BY <2>2, <2>3, Same
  <2>4. CASE opc' = [opc EXCEPT ![c] = "func"]
    <3>1. c \in Tasks /\ StatusOf(c) = "waiting" /\ StatusOf(c)' = "running"
      BY <2>1, <2>2, <2>4 DEF Due, SchedInv, TypeOK
    <3>2. \A d \in Tasks \ {c} : StatusOf(d)' = StatusOf(d)
      BY <2>2, <2>4 DEF TypeOK
    <3> QED BY <3>1, <3>2, Becoming DEF Life!Next, Life!Start, Life!Tasks
  <2> QED BY <2>1, <2>3, <2>4
<1>4. CASE ScanExecute
  <2>1. PICK c \in listed : Due(c) /\ tp' = c
    BY <1>4 DEF ScanExecute, IsNext
  <2>2. UNCHANGED <<listed, freed, destroyed, opc>> /\ tpc = "scan" /\ tpc' = "func"
    BY <1>4 DEF ScanExecute, list
  <2>3. c \in Tasks /\ StatusOf(c) = "waiting" /\ StatusOf(c)' = "running"
    BY <2>1, <2>2 DEF Due, SchedInv, TypeOK
  <2>4. \A d \in Tasks \ {c} : StatusOf(d)' = StatusOf(d) BY <2>1, <2>2
  <2> QED BY <2>3, <2>4, Becoming DEF Life!Next, Life!Start, Life!Tasks
<1>5. CASE ThreadReschedule
  <2>1. destroyed' = destroyed \/ destroyed' = [destroyed EXCEPT ![tp] = TRUE]
    BY <1>5, Zenon DEF ThreadReschedule, Reschedule
  <2>2. UNCHANGED <<listed, freed, opc, tp>> /\ tpc = "resched" /\ tpc' = "relock"
    BY <1>5 DEF ThreadReschedule, Reschedule, list
  <2>3. \A d \in Tasks : \/ StatusOf(d)' = StatusOf(d)
                         \/ StatusOf(d) = "running" /\ StatusOf(d)' = "doomed"
    BY <2>1, <2>2 DEF TypeOK, SchedInv
  <2> QED BY <2>3, Deleting DEF Life!Next
<1>6. CASE Relock
  <2>1. UNCHANGED <<listed, freed, destroyed, opc, tp>> /\ tpc = "relock" /\ tpc' = "scan"
    BY <1>6 DEF Relock, list
  <2>2. PICK c \in Tasks : c = tp /\ c \in listed /\ opc[c] = "none" BY <2>1 DEF SchedInv, TypeOK
  <2>3. \/ StatusOf(c) = "running" /\ StatusOf(c)' = "waiting"
        \/ StatusOf(c) = "doomed" /\ StatusOf(c)' = "dead"
    BY <2>1, <2>2 DEF SchedInv
  <2>4. \A d \in Tasks \ {c} : StatusOf(d)' = StatusOf(d) BY <2>1, <2>2
  <2>5. Life!Finish(c) BY <2>3, <2>4, Becoming DEF Life!Finish
  <2> QED BY <2>5 DEF Life!Next, Life!Tasks
<1>7. CASE SweepFree
  <2>1. PICK c \in listed : /\ destroyed[c] /\ ~inThread[c]
                            /\ listed' = listed \ {c} /\ freed' = freed \cup {c}
    BY <1>7 DEF SweepFree, IsNext
  <2>2. UNCHANGED <<destroyed, opc, tpc>> /\ tpc = "sweep" BY <1>7 DEF SweepFree, task
  <2>3. c \in Tasks /\ StatusOf(c) = "dead" /\ StatusOf(c)' = "freed"
    BY <2>1, <2>2 DEF SchedInv, TypeOK
  <2>4. \A d \in Tasks \ {c} : StatusOf(d)' = StatusOf(d) BY <2>1, <2>2
  <2> QED BY <2>3, <2>4, Becoming DEF Life!Next, Life!Free, Life!Tasks
<1> QED BY <1>1, <1>2, <1>3, <1>4, <1>5, <1>6, <1>7 DEF TaskThread

LEMMA OtherLife ==
    ASSUME TypeOK, SchedInv, Tick \/ DelTaskId \/ DelTaskGroup \/ Stop
    PROVE  Life!Next \/ UNCHANGED [c \in Tasks |-> StatusOf(c)]
<1> USE DEF StatusOf, Executing, InTaskThread
<1>1. CASE Tick \/ Stop
  <2>1. \A d \in Tasks : StatusOf(d)' = StatusOf(d)
    BY <1>1 DEF Tick, Stop, thread, list, task
  <2> QED BY <2>1, Same
<1>2. CASE DelTaskId \/ DelTaskGroup
  <2>1. UNCHANGED <<listed, freed, opc, tp, tpc>> BY <1>2 DEF DelTaskId, DelTaskGroup, thread, list
  <2>2. CASE DelTaskId
    BY <2>2, <2>1, Deleting DEF DelTaskId, TypeOK, Life!Next
  <2>3. CASE DelTaskGroup
    <3>1. \A d \in Tasks : destroyed[d] => destroyed'[d] BY <2>3, Zenon DEF DelTaskGroup
    <3>2. \A d \in Tasks : \/ StatusOf(d)' = StatusOf(d)
                           \/ StatusOf(d) = "waiting" /\ StatusOf(d)' = "dead"
                           \/ StatusOf(d) = "running" /\ StatusOf(d)' = "doomed"
      BY <2>1, <3>1
    <3> QED BY <3>2, Deleting DEF Life!Next
  <2> QED BY <1>2, <2>2, <2>3
<1> QED BY <1>1, <1>2

(* The scheduler implements TaskLife: whatever callers, own threads and    *)
(* callbacks do, a task is run by one thread at a time, is not started     *)
(* after its deletion and is freed once.                                   *)
THEOREM ImplementsTaskLife == Spec => KeepsTaskLife
<1>1. Init => Life!Init
  BY DEF Init, Life!Init, Life!Tasks, StatusOf
<1>2. TypeOK /\ SchedInv /\ [Next]_vars => [Life!Next]_[c \in Tasks |-> StatusOf(c)]
  <2> SUFFICES ASSUME TypeOK, SchedInv, [Next]_vars
               PROVE  Life!Next \/ UNCHANGED [c \in Tasks |-> StatusOf(c)]
    OBVIOUS
  <2>1. CASE UNCHANGED vars
    <3>1. \A d \in Tasks : StatusOf(d)' = StatusOf(d)
      BY <2>1 DEF StatusOf, Executing, InTaskThread, vars, thread, list, task
    <3> QED BY <3>1, Same
  <2> QED BY <2>1, CallerLife, OwnLife, ThreadLife, OtherLife DEF Next
<1> QED BY <1>1, <1>2, InitInv, NextInv, PTL DEF Spec, KeepsTaskLife, Life!Spec
=============================================================================
