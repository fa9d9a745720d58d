----------------------------- MODULE Scheduler -----------------------------
(***************************************************************************)
(* switch_scheduler.c: the list of tasks, the task thread that executes    *)
(* the due ones and frees the deleted ones, tasks that run in threads of   *)
(* their own (SSHF_OWN_THREAD), and threads that add and delete tasks.     *)
(*                                                                         *)
(* A container is the number of the task it holds: numbers are handed out  *)
(* and containers appended under task_mutex, so the list is the set listed *)
(* in increasing order.  The mutex is held by the task thread while it     *)
(* scans and sweeps (Locked) and within one step by every other thread;    *)
(* threads of their own write to their container without it.               *)
(***************************************************************************)
EXTENDS Integers

CONSTANTS
    Callers,        \* threads that add and delete tasks
    Groups,         \* names of groups
    Delays,         \* how far ahead of its clock a caller schedules
    Intervals,      \* task_runtime below now: run at intervals
    OwnThread,      \* may tasks have SSHF_OWN_THREAD?
    NoDel,          \* may tasks have SSHF_NO_DEL?
    CreateFails,    \* may switch_thread_create fail?
    EventLen,       \* bound: capacity of event_queue (250000 in the code)
    StartTime,      \* first value of the clock
    MaxTime,        \* bound: last value of the clock
    MaxTasks        \* bound: tasks added, in all

Tasks == 1 .. MaxTasks
Times == 0 .. 2 * (MaxTime + 1)

ASSUME ClockAssumption ==
    /\ StartTime \in Nat /\ MaxTime \in Nat /\ StartTime <= MaxTime
    /\ Delays \subseteq Nat /\ \A d \in Delays : MaxTime + d <= 2 * (MaxTime + 1)
    /\ Intervals \subseteq Nat /\ \A i \in Intervals : 0 < i /\ i < StartTime
ASSUME BoundsAssumption == MaxTasks \in Nat /\ EventLen \in Nat
ASSUME FlagsAssumption ==
    OwnThread \in SUBSET BOOLEAN /\ NoDel \in SUBSET BOOLEAN /\ CreateFails \in BOOLEAN

VARIABLES
    now,            \* switch_epoch_time_now
    trunning,       \* globals.task_thread_running
    tpc,            \* where the task thread is
    tp,             \* its local variable tp, 0 at the head of the list
    done,           \* the argument of task_thread_loop
    listed,         \* containers in task_list
    freed,          \* containers freed
    info,           \* group, flags and what the caller asked for
    runtime,        \* task.runtime
    repeat,         \* task.repeat
    executed,
    destroyed,
    running,
    inThread,       \* in_thread
    opc,            \* where a task's own thread is
    adder,          \* where each caller is in add_task
    events          \* length of event_queue

clock == <<now, trunning>>
thread == <<tpc, tp, done>>
list == <<listed, freed, info>>
task == <<runtime, repeat, executed, destroyed, running, inThread, opc>>
vars == <<clock, thread, list, task, adder, events>>

ThreadPC == {"off", "while", "scan", "func", "resched", "relock", "between", "sweep", "pop", "ended"}
OwnPC == {"none", "func", "resched", "end"}
NoInfo == [group |-> "none", own |-> FALSE, nodel |-> FALSE, every |-> FALSE]
(* A caller: idle, about to call add_task, or about to announce a task. *)
Caller(pc, want, every, c) == [pc |-> pc, want |-> want, every |-> every, task |-> c]
Idle == Caller("idle", 0, FALSE, 0)

Locked == tpc \in {"scan", "sweep"}

(* switch_queue_push waits for room. *)
Push == events < EventLen /\ events' = events + 1

Init ==
    /\ now = StartTime
    /\ trunning = 0
    /\ tpc = "off" /\ tp = 0 /\ done = FALSE
    /\ listed = {} /\ freed = {}
    /\ info = [c \in Tasks |-> NoInfo]
    /\ runtime = [c \in Tasks |-> 0]
    /\ repeat = [c \in Tasks |-> 0]
    /\ executed = [c \in Tasks |-> 0]
    /\ destroyed = [c \in Tasks |-> FALSE]
    /\ running = [c \in Tasks |-> FALSE]
    /\ inThread = [c \in Tasks |-> FALSE]
    /\ opc = [c \in Tasks |-> "none"]
    /\ adder = [p \in Callers |-> Idle]
    /\ events = 0

Tick ==
    /\ now < MaxTime
    /\ now' = now + 1
    /\ UNCHANGED <<trunning, thread, list, task, adder, events>>

-----------------------------------------------------------------------------
(* switch_scheduler_add_task *)

(* The caller works out the time, from a clock that goes on. *)
Ask(p) ==
    /\ adder[p] = Idle
    /\ \/ \E d \in Delays : adder' = [adder EXCEPT ![p] = Caller("asked", now + d, FALSE, 0)]
       \/ \E i \in Intervals : adder' = [adder EXCEPT ![p] = Caller("asked", i, TRUE, 0)]
    /\ UNCHANGED <<clock, thread, list, task, events>>

(* Under the mutex: append a container, with the next number. *)
Add(p) ==
    /\ adder[p].pc = "asked"
    /\ ~Locked
    /\ LET want == adder[p].want IN
       \E c \in Tasks \ (listed \cup freed) :
          /\ \A d \in Tasks : d < c => d \in listed \cup freed
          /\ listed' = listed \cup {c}
          /\ \E g \in Groups, o \in OwnThread, n \in NoDel :
                info' = [info EXCEPT ![c] = [group |-> g, own |-> o, nodel |-> n,
                                             every |-> adder[p].every]]
          /\ runtime' = [runtime EXCEPT ![c] = IF want < now THEN want + now ELSE want]
          /\ repeat' = [repeat EXCEPT ![c] = IF want < now THEN want ELSE 0]
          /\ adder' = [adder EXCEPT ![p] = Caller("announce", 0, FALSE, c)]
    /\ UNCHANGED <<clock, thread, freed, executed, destroyed, running, inThread, opc, events>>

(* Read the container for SWITCH_EVENT_ADD_SCHEDULE and the task_id. *)
Announce(p) ==
    /\ adder[p].pc = "announce"
    /\ Push
    /\ adder' = [adder EXCEPT ![p] = Idle]
    /\ UNCHANGED <<clock, thread, list, task>>

-----------------------------------------------------------------------------
(* Deletion *)

(* Mutant: a deletion is forgotten while the task runs on its own. *)
DelTaskGroupLeavesOwn ==
    /\ ~Locked
    /\ \E g \in Groups :
          destroyed' = [c \in Tasks |-> IF c \in listed /\ info[c].group = g /\ ~info[c].nodel
                                        THEN ~inThread[c] ELSE destroyed[c]]
    /\ UNCHANGED <<clock, thread, list, runtime, repeat, executed, running, inThread, opc,
                   adder, events>>

DelTaskId ==                \* refuses a running task
    /\ ~Locked
    /\ \E c \in listed :
          /\ ~info[c].nodel /\ ~running[c]
          /\ destroyed' = [destroyed EXCEPT ![c] = TRUE]
    /\ UNCHANGED <<clock, thread, list, runtime, repeat, executed, running, inThread, opc,
                   adder, events>>

DelTaskGroup ==             \* does not
    /\ ~Locked
    /\ \E g \in Groups :
          destroyed' = [c \in Tasks |-> \/ destroyed[c]
                                        \/ c \in listed /\ info[c].group = g /\ ~info[c].nodel]
    /\ UNCHANGED <<clock, thread, list, runtime, repeat, executed, running, inThread, opc,
                   adder, events>>

-----------------------------------------------------------------------------
(* switch_scheduler_execute, by the task thread or a thread of the task's. *)

(* The callback: it may set task->runtime. *)
Func(c) ==
    /\ \E r \in {runtime[c]} \cup {now + d : d \in Delays} :
          runtime' = [runtime EXCEPT ![c] = r]
    /\ UNCHANGED <<clock, list, repeat, executed, destroyed, inThread, adder, events>>

(* Again later, or never. *)
Reschedule(c) ==
    LET r == IF repeat[c] > 0 THEN now + repeat[c] ELSE runtime[c] IN
    /\ runtime' = [runtime EXCEPT ![c] = r]
    /\ \/ /\ r > executed[c]
          /\ executed' = [executed EXCEPT ![c] = 0]
          /\ Push
          /\ UNCHANGED destroyed
       \/ /\ r <= executed[c]
          /\ destroyed' = [destroyed EXCEPT ![c] = TRUE]
          /\ UNCHANGED <<executed, events>>
    /\ UNCHANGED <<clock, list, repeat, inThread, adder>>

(* task_own_thread *)
OwnFunc(c) ==
    /\ opc[c] = "func"
    /\ Func(c)
    /\ opc' = [opc EXCEPT ![c] = "resched"]
    /\ UNCHANGED <<thread, running>>

OwnReschedule(c) ==
    /\ opc[c] = "resched"
    /\ Reschedule(c)
    /\ opc' = [opc EXCEPT ![c] = "end"]
    /\ UNCHANGED <<thread, running>>

(* Mutant: in_thread stays set. *)
OwnEndForgets(c) ==
    /\ opc[c] = "end"
    /\ opc' = [opc EXCEPT ![c] = "none"]
    /\ UNCHANGED <<clock, thread, list, runtime, repeat, executed, destroyed, running, inThread,
                   adder, events>>

OwnEnd(c) ==
    /\ opc[c] = "end"
    /\ inThread' = [inThread EXCEPT ![c] = FALSE]
    /\ opc' = [opc EXCEPT ![c] = "none"]
    /\ UNCHANGED <<clock, thread, list, runtime, repeat, executed, destroyed, running,
                   adder, events>>

-----------------------------------------------------------------------------
(* switch_scheduler_task_thread and task_thread_loop *)

Start ==                    \* the thread's first statement
    /\ tpc = "off"
    /\ trunning' = 1
    /\ tpc' = "while" /\ tp' = 0
    /\ UNCHANGED <<now, done, list, task, adder, events>>

(* c is tp->next *)
IsNext(c) == c \in listed /\ c > tp /\ \A d \in listed : d > tp => c <= d
AtEnd == \A d \in listed : d <= tp

(* Mutant: a second that was missed is missed for good. *)
DueExactly(c) == ~destroyed[c] /\ now = runtime[c] /\ ~inThread[c]
Due(c) == ~destroyed[c] /\ now >= runtime[c] /\ ~inThread[c]

ScanSkip ==                 \* nothing to do, or only to mark it
    /\ tpc = "scan"
    /\ \E c \in Tasks :
          /\ IsNext(c)
          /\ done \/ ~Due(c)
          /\ tp' = c
          /\ destroyed' = [destroyed EXCEPT ![c] = @ \/ done]
    /\ UNCHANGED <<clock, tpc, done, list, runtime, repeat, executed, running, inThread, opc,
                   adder, events>>

ScanOwnThread ==            \* the result of switch_thread_create is not read
    /\ tpc = "scan" /\ ~done
    /\ \E c \in Tasks :
          /\ IsNext(c) /\ Due(c) /\ info[c].own
          /\ tp' = c
          /\ executed' = [executed EXCEPT ![c] = now]
          /\ inThread' = [inThread EXCEPT ![c] = TRUE]
          /\ \/ opc' = [opc EXCEPT ![c] = "func"]
             \/ CreateFails /\ UNCHANGED opc
    /\ UNCHANGED <<clock, tpc, done, list, runtime, repeat, destroyed, running, adder, events>>

ScanExecute ==              \* the mutex is released for the callback
    /\ tpc = "scan" /\ ~done
    /\ \E c \in Tasks :
          /\ IsNext(c) /\ Due(c) /\ ~info[c].own
          /\ tp' = c
          /\ executed' = [executed EXCEPT ![c] = now]
          /\ running' = [running EXCEPT ![c] = TRUE]
    /\ tpc' = "func"
    /\ UNCHANGED <<clock, done, list, runtime, repeat, destroyed, inThread, opc, adder, events>>

ThreadFunc ==
    /\ tpc = "func"
    /\ Func(tp)
    /\ tpc' = "resched"
    /\ UNCHANGED <<tp, done, running, opc>>

ThreadReschedule ==
    /\ tpc = "resched"
    /\ Reschedule(tp)
    /\ tpc' = "relock"
    /\ UNCHANGED <<tp, done, running, opc>>

Relock ==
    /\ tpc = "relock"
    /\ running' = [running EXCEPT ![tp] = FALSE]
    /\ tpc' = "scan"
    /\ UNCHANGED <<clock, tp, done, list, runtime, repeat, executed, destroyed, inThread, opc,
                   adder, events>>

(* Steps of the task thread that touch no task. *)
Moves(from, to) ==
    /\ tpc = from /\ tpc' = to
    /\ tp' = 0
    /\ UNCHANGED <<now, list, task, adder>>

(* Mutant: task_thread_running is not read again. *)
WhileTrue == Moves("while", "scan") /\ UNCHANGED <<trunning, done, events>>
(* Another turn, or the last one: task_thread_loop(1). *)
While == Moves("while", "scan") /\ done' = (trunning # 1) /\ UNCHANGED <<trunning, events>>
ScanEnd == AtEnd /\ Moves("scan", "between") /\ UNCHANGED <<trunning, done, events>>
SweepBegin == Moves("between", "sweep") /\ UNCHANGED <<trunning, done, events>>

SweepFree ==                \* SWITCH_EVENT_DEL_SCHEDULE, then free
    /\ tpc = "sweep"
    /\ \E c \in Tasks :
          /\ IsNext(c) /\ destroyed[c] /\ ~inThread[c]
          /\ Push
          /\ tp' = c
          /\ listed' = listed \ {c}
          /\ freed' = freed \cup {c}
    /\ UNCHANGED <<clock, tpc, done, info, task, adder>>

SweepSkip ==
    /\ tpc = "sweep"
    /\ \E c \in Tasks :
          /\ IsNext(c) /\ (~destroyed[c] \/ inThread[c])
          /\ tp' = c
    /\ UNCHANGED <<clock, tpc, done, list, task, adder, events>>

SweepEnd ==
    /\ AtEnd
    /\ Moves("sweep", IF done THEN "ended" ELSE "pop")
    /\ trunning' = IF done THEN 0 ELSE trunning
    /\ UNCHANGED <<done, events>>

Pop ==                      \* one event, or a timeout
    /\ Moves("pop", "while")
    /\ events' = IF events > 0 THEN events - 1 ELSE 0
    /\ UNCHANGED <<trunning, done>>

Stop ==                     \* switch_scheduler_task_thread_stop
    /\ trunning = 1
    /\ trunning' = -1
    /\ UNCHANGED <<now, thread, list, task, adder, events>>

-----------------------------------------------------------------------------
TaskThread ==
    \/ Start \/ While \/ ScanSkip \/ ScanOwnThread \/ ScanExecute \/ ThreadFunc \/ ThreadReschedule
    \/ Relock \/ ScanEnd \/ SweepBegin \/ SweepFree \/ SweepSkip \/ SweepEnd \/ Pop

Own(c) == OwnFunc(c) \/ OwnReschedule(c) \/ OwnEnd(c)
Adding(p) == Add(p) \/ Announce(p)

Next ==
    \/ Tick
    \/ \E p \in Callers : Ask(p) \/ Adding(p)
    \/ DelTaskId \/ DelTaskGroup
    \/ \E c \in Tasks : Own(c)
    \/ TaskThread
    \/ Stop

Spec == Init /\ [][Next]_vars

(* Time passes, threads are scheduled and callbacks return. *)
FairSpec ==
    /\ Spec
    /\ WF_vars(Tick) /\ WF_vars(TaskThread)
    /\ \A c \in Tasks : WF_vars(Own(c))
    /\ \A p \in Callers : WF_vars(Announce(p))
-----------------------------------------------------------------------------
TypeOK ==
    /\ now \in StartTime .. MaxTime
    /\ trunning \in {-1, 0, 1}
    /\ tpc \in ThreadPC
    /\ tp \in {0} \cup Tasks
    /\ done \in BOOLEAN
    /\ listed \subseteq Tasks /\ freed \subseteq Tasks
    /\ info \in [Tasks -> [group : Groups \cup {"none"}, own : BOOLEAN, nodel : BOOLEAN, every : BOOLEAN]]
    /\ runtime \in [Tasks -> Times]
    /\ repeat \in [Tasks -> 0 .. MaxTime]
    /\ executed \in [Tasks -> 0 .. MaxTime]
    /\ destroyed \in [Tasks -> BOOLEAN]
    /\ running \in [Tasks -> BOOLEAN]
    /\ inThread \in [Tasks -> BOOLEAN]
    /\ opc \in [Tasks -> OwnPC]
    /\ adder \in [Callers -> [pc : {"idle", "asked", "announce"}, want : Times, every : BOOLEAN,
                              task : {0} \cup Tasks]]
    /\ events \in 0 .. EventLen

InTaskThread(c) == tpc \in {"func", "resched", "relock"} /\ tp = c
Executing(c) == InTaskThread(c) \/ opc[c] # "none"

(* The task thread and a task's own thread only ever touch a container     *)
(* that is in the list, and never both: it is freed by the sweep alone, and *)
(* not while switch_scheduler_execute has it.                              *)
ExecutedIsListed ==
    \A c \in Tasks : Executing(c) => c \in listed /\ ~(InTaskThread(c) /\ opc[c] # "none")

(* The scheduler implements TaskLife. *)
StatusOf(c) ==
    IF c \in freed THEN "freed"
    ELSE IF c \notin listed THEN "none"
    ELSE IF Executing(c) THEN (IF destroyed[c] THEN "doomed" ELSE "running")
    ELSE IF destroyed[c] THEN "dead" ELSE "waiting"
Life == INSTANCE TaskLife WITH status <- [c \in Tasks |-> StatusOf(c)]
KeepsTaskLife == Life!Spec

(* add_task reads the container it has added, for the event and for the    *)
(* task_id it returns, only while the container is there.                  *)
AnnouncedIsListed ==
    \A p \in Callers : adder[p].pc = "announce" => adder[p].task \in listed

(* A task that was to run at a given time is not turned into one that is   *)
(* repeated (task_runtime below now means an interval).                    *)
AskedOnceIsOnce == \A c \in listed : repeat[c] > 0 => info[c].every

(* While the task thread runs, a due task is run or deleted, and a deleted *)
(* task is freed.                                                          *)
DueIsRun ==
    \A c \in Tasks :
        (c \in listed /\ ~destroyed[c] /\ now >= runtime[c] /\ trunning = 1)
           ~> (Executing(c) \/ destroyed[c] \/ trunning # 1)
DeletedIsFreed ==
    \A c \in Tasks : (c \in listed /\ destroyed[c] /\ trunning = 1) ~> (c \in freed \/ trunning # 1)

(* switch_scheduler_task_thread_stop ends the task thread. *)
StopEnds == trunning = -1 ~> trunning = 0
=============================================================================
