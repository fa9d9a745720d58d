--------------------------- MODULE SessionThread ---------------------------
(***************************************************************************)
(* One session of FreeSWITCH: the channel's state, the session thread that *)
(* runs the state machine (switch_core_session_run), and other threads of  *)
(* the process that change the channel's state, hang it up, queue messages *)
(* and events for it and wake it up.                                       *)
(*                                                                         *)
(* The session mutex is held by the session thread for its whole run but   *)
(* for the time it spends in switch_thread_cond_wait, and the channel's    *)
(* thread_mutex from just before its last look at the state until after    *)
(* the wait; every other thread takes both only with trylock, and gives    *)
(* them back in the same step.  Both are therefore functions of rpc        *)
(* (SessionMutexFree, InLock) and the state_mutex alone is a variable.     *)
(***************************************************************************)
EXTENDS ChannelStates, Integers

CONSTANTS
    Threads,        \* the other threads of the process
    Runner,         \* the session thread
    Starter,        \* the thread of the endpoint that starts the call
    Targets,        \* the states other threads ask for
    Results,        \* what a queued message or event may do when it is run
    LongItem,       \* may one outlast the retries of a thread that wakes us?
    EarlyHangup,    \* CF_EARLY_HANGUP / SCF_EARLY_HANGUP
    LaunchFails,    \* may switch_thread_create fail?
    QueueLen,       \* bound: SWITCH_MESSAGE_QUEUE_LEN, SWITCH_EVENT_QUEUE_LEN
    NewLoops,       \* bound: turns of the loop in CS_NEW (500 in the code)
    MaxOps          \* bound: operations the other threads start, in all

NoThread == "nobody"
Actors == Threads \cup {Runner}

(* "done": no effect on the state; "fail": parse_event refuses the event,  *)
(* which ends the parse; "defer": delivery_time is ahead, the message goes *)
(* back to the queue; "transfer": CS_ROUTING is requested; "hangup".       *)
AllResults == {"done", "fail", "defer", "transfer", "hangup"}

ASSUME ThreadsAssumption ==
    /\ Runner \notin Threads
    /\ Starter \in Threads
    /\ NoThread \notin Actors
ASSUME TargetsAssumption == Targets \subseteq State
ASSUME ResultsAssumption == Results \subseteq AllResults
ASSUME FlagsAssumption ==
    LongItem \in BOOLEAN /\ EarlyHangup \in BOOLEAN /\ LaunchFails \in BOOLEAN
ASSUME BoundsAssumption ==
    QueueLen \in Nat /\ NewLoops \in Nat \ {0} /\ MaxOps \in Nat

VARIABLES
    state,          \* channel->state
    running,        \* channel->running_state
    cause,          \* channel->hangup_cause is set
    ocf,            \* OCF_HANGUP
    blocked,        \* CF_BLOCK_STATE
    smtx,           \* owner of channel->state_mutex
    msgs,           \* length of message_queue
    privs,          \* length of private_event_queue
    rpc,            \* where the session thread is in switch_core_session_run
    rstate,         \* its local variable state
    stage,          \* which queue it parses where it parses
    loops,          \* its local variable new_loops
    busy,           \* it is running a queued message or event
    call,           \* the operation each thread is in: [pc, to]
    ops,            \* operations the other threads have started
    hangups,        \* times the on_hangup handlers ran
    reports,        \* times the on_reporting handlers ran
    causeless,      \* on_hangup ran before the cause was set
    failed          \* an invalid state change reached switch_assert

channel == <<state, running, cause, ocf, blocked, smtx>>
queues  == <<msgs, privs>>
thread  == <<rpc, rstate, stage, loops, busy>>
handled == <<hangups, reports, causeless>>
vars == <<channel, queues, thread, call, ops, handled, failed>>

-----------------------------------------------------------------------------
(* Program points.  Parsing points are those of switch_ivr_parse_all_events *)
(* ("messages" parses messages only); AfterParse says where each leads.     *)

ParsePC == {"messages", "parseNew", "parse1", "parse2", "parseLocked", "parse3", "parse4"}
AfterParse(pc) ==
    CASE pc = "messages"    -> "handle"
      [] pc = "parseNew"    -> "countNew"
      [] pc = "parse1"      -> "parse2"
      [] pc = "parse2"      -> "checkAwake"
      [] pc = "parseLocked" -> "wait"
      [] pc = "parse3"      -> "parse4"
      [] OTHER              -> "top"

LockPC == {"checkLocked", "parseLocked", "wait", "asleep", "awake"}
RunPC == ParsePC \cup LockPC \cup
         {"none", "top", "blocked", "enter", "handle", "reported", "end",
          "countNew", "checkAwake", "lock", "ended"}

SetStatePC == {"ss_lock", "cs_thread", "cs_session", "ss_wake", "ss_wake2"}
HangupPC == {"hu_flag", "hu_block", "hu_check", "hu_write", "hu_cause",
             "hu_launch", "hu_wake", "hu_wake2", "hu_early"}
CallPC == SetStatePC \cup HangupPC \cup {"idle", "in_check", "wake", "wake2"}

Idle == [pc |-> "idle", to |-> CS_NEW]

(* thread_mutex is held by the session thread *)
InLock == rpc \in LockPC
(* nobody holds session->mutex *)
SessionMutexFree == rpc \in {"none", "asleep", "ended"}

(* switch_mutex_trylock on either mutex, which are recursive *)
TryThreadMutex(t) == t = Runner \/ ~InLock
TrySessionMutex(t) == t = Runner \/ SessionMutexFree

(* The retries of a waker (10 x 1ms) and of careful_set (100 x 1ms) outlast *)
(* the instructions of the locked window, but not a message or an event     *)
(* that runs an application there, nor a session thread that waits there    *)
(* for the state mutex.                                                     *)
Outlasted ==
    \/ LongItem /\ busy
    \/ smtx # NoThread /\ call[Runner].pc \in {"ss_lock", "hu_flag", "hu_write"}

Goto(t, pc) == call' = [call EXCEPT ![t].pc = pc]
Return(t) == call' = [call EXCEPT ![t] = Idle]

Init ==
    /\ state = CS_NEW
    /\ running = CS_NONE
    /\ cause = FALSE
    /\ ocf = FALSE
    /\ blocked \in BOOLEAN
    /\ smtx = NoThread
    /\ msgs = 0 /\ privs = 0
    /\ rpc = "none"
    /\ rstate = CS_NEW
    /\ stage = "messages"
    /\ loops = NewLoops
    /\ busy = FALSE
    /\ call = [t \in Actors |-> Idle]
    /\ ops = 0
    /\ hangups = 0 /\ reports = 0
    /\ causeless = FALSE
    /\ failed = FALSE

-----------------------------------------------------------------------------
(* switch_core_session_wake_session_thread, from its two trylocks. *)

(* Where the caller of the wake continues. *)
WakePC == {"wake", "ss_wake", "hu_wake"}
WakePC2 == {"wake2", "ss_wake2", "hu_wake2"}
Second(pc) == CASE pc = "ss_wake" -> "ss_wake2" [] pc = "hu_wake" -> "hu_wake2" [] OTHER -> "wake2"
First(pc) == CASE pc = "ss_wake2" -> "ss_wake" [] pc = "hu_wake2" -> "hu_wake" [] OTHER -> "wake"
WakeDone(t) ==
    CASE call[t].pc \in {"ss_wake", "ss_wake2"} -> Return(t) /\ smtx' = NoThread
      [] call[t].pc \in {"hu_wake", "hu_wake2"} -> Goto(t, "hu_early") /\ UNCHANGED smtx
      [] OTHER                                  -> Return(t) /\ UNCHANGED smtx

(* The session mutex is free: signal the condition, lost if nobody waits. *)
WakeSignal(t) ==
    /\ call[t].pc \in WakePC
    /\ TrySessionMutex(t)
    /\ rpc' = IF rpc = "asleep" THEN "awake" ELSE rpc
    /\ WakeDone(t)
    /\ UNCHANGED <<state, running, cause, ocf, blocked, queues, rstate, stage, loops, busy,
                   ops, handled, failed>>

WakeBusy(t) ==
    /\ call[t].pc \in WakePC
    /\ ~TrySessionMutex(t)
    /\ Goto(t, Second(call[t].pc))
    /\ UNCHANGED <<channel, queues, thread, ops, handled, failed>>

(* The thread mutex is free: the session thread has yet to look. *)
WakeBeaten(t) ==
    /\ call[t].pc \in WakePC2
    /\ TryThreadMutex(t) \/ Outlasted
    /\ WakeDone(t)
    /\ UNCHANGED <<state, running, cause, ocf, blocked, queues, thread,
                   ops, handled, failed>>

(* Mutant: one try is enough. *)
WakeGivesUp(t) ==
    /\ call[t].pc \in WakePC2
    /\ WakeDone(t)
    /\ UNCHANGED <<state, running, cause, ocf, blocked, queues, thread,
                   ops, handled, failed>>

WakeRetry(t) ==
    /\ call[t].pc \in WakePC2
    /\ ~TryThreadMutex(t)
    /\ Goto(t, First(call[t].pc))
    /\ UNCHANGED <<channel, queues, thread, ops, handled, failed>>

-----------------------------------------------------------------------------
(* switch_channel_perform_set_state *)

(* Under the state mutex: ignore, refuse with the assertion, or go on. *)
SetStateLock(t) ==
    /\ call[t].pc = "ss_lock"
    /\ smtx = NoThread
    /\ LET s == call[t].to IN
       \/ /\ Ignored(state, s)
          /\ Return(t)
          /\ UNCHANGED <<smtx, failed>>
       \/ /\ ~Ignored(state, s) /\ Legal(state, s)
          /\ smtx' = t
          /\ Goto(t, "cs_thread")
          /\ UNCHANGED failed
       \/ /\ ~Ignored(state, s) /\ ~Legal(state, s)
          /\ failed' = (failed \/ ~Down(state))
          /\ Return(t)
          /\ UNCHANGED smtx
    /\ UNCHANGED <<state, running, cause, ocf, blocked, queues, thread, ops, handled>>

(* The assignment of careful_set, and the default cause. *)
SetStateWrite(t) ==
    /\ state' = call[t].to
    /\ cause' = (cause \/ call[t].to = CS_HANGUP)
    /\ Goto(t, "ss_wake")

(* careful_set: the thread mutex, else up to 100 tries of the session      *)
(* mutex, else set it anyway.                                              *)
CarefulSetThread(t) ==
    /\ call[t].pc = "cs_thread"
    /\ IF TryThreadMutex(t)
       THEN SetStateWrite(t)
       ELSE Goto(t, "cs_session") /\ UNCHANGED <<state, cause>>
    /\ UNCHANGED <<running, ocf, blocked, smtx, queues, thread, ops, handled, failed>>

CarefulSetSession(t) ==
    /\ call[t].pc = "cs_session"
    /\ TrySessionMutex(t) \/ ~InLock \/ Outlasted
    /\ SetStateWrite(t)
    /\ UNCHANGED <<running, ocf, blocked, smtx, queues, thread, ops, handled, failed>>

-----------------------------------------------------------------------------
(* switch_channel_perform_hangup *)

(* Mutant: every caller is a customer. *)
HangupFlagAnyone(t) ==
    /\ call[t].pc = "hu_flag"
    /\ smtx = NoThread
    /\ Goto(t, "hu_block")
    /\ ocf' = TRUE
    /\ UNCHANGED <<state, running, cause, blocked, smtx, queues, thread, ops, handled, failed>>

HangupFlag(t) ==            \* one per customer
    /\ call[t].pc = "hu_flag"
    /\ smtx = NoThread
    /\ IF ocf THEN Return(t) ELSE Goto(t, "hu_block")
    /\ ocf' = TRUE
    /\ UNCHANGED <<state, running, cause, blocked, smtx, queues, thread, ops, handled, failed>>

HangupUnblock(t) ==
    /\ call[t].pc = "hu_block"
    /\ blocked' = FALSE
    /\ Goto(t, "hu_check")
    /\ UNCHANGED <<state, running, cause, ocf, smtx, queues, thread, ops, handled, failed>>

HangupCheck(t) ==           \* read without the state mutex
    /\ call[t].pc = "hu_check"
    /\ IF Down(state) THEN Return(t) ELSE Goto(t, "hu_write")
    /\ UNCHANGED <<channel, queues, thread, ops, handled, failed>>

HangupWrite(t) ==           \* no careful_set, and no second look at the state
    /\ call[t].pc = "hu_write"
    /\ smtx = NoThread
    /\ state' = CS_HANGUP
    /\ Goto(t, "hu_cause")
    /\ UNCHANGED <<running, cause, ocf, blocked, smtx, queues, thread, ops, handled, failed>>

HangupCause(t) ==           \* after the state mutex is released
    /\ call[t].pc = "hu_cause"
    /\ cause' = TRUE
    /\ Goto(t, "hu_launch")
    /\ UNCHANGED <<state, running, ocf, blocked, smtx, queues, thread, ops, handled, failed>>

(* switch_core_session_thread_launch: at most once, unless the thread could *)
(* not be created.                                                          *)
Launch ==
    \/ rpc = "none" /\ rpc' = "top"
    \/ rpc = "none" /\ LaunchFails /\ rpc' = "none"
    \/ rpc # "none" /\ rpc' = rpc

HangupLaunch(t) ==
    /\ call[t].pc = "hu_launch"
    /\ Launch
    /\ Goto(t, "hu_wake")
    /\ UNCHANGED <<channel, queues, rstate, stage, loops, busy, ops, handled, failed>>

(* switch_core_session_hangup_state: SSF_HANGUP is set when it ends. *)
HangupState ==
    /\ hangups' = IF hangups = 0 THEN 1 ELSE hangups
    /\ causeless' = (causeless \/ (hangups = 0 /\ ~cause))
    /\ UNCHANGED reports

HangupEarly(t) ==           \* hangup_state(session, SWITCH_FALSE)
    /\ call[t].pc = "hu_early"
    /\ IF EarlyHangup /\ t = Runner THEN HangupState ELSE UNCHANGED handled
    /\ Return(t)
    /\ UNCHANGED <<channel, queues, thread, ops, failed>>

-----------------------------------------------------------------------------
(* What other threads ask of the session. *)

Begin(t) ==
    /\ call[t] = Idle
    /\ ops < MaxOps
    /\ ops' = ops + 1
    /\ UNCHANGED <<handled, failed>>

AskState(t) ==
    /\ Begin(t)
    /\ \E s \in Targets : call' = [call EXCEPT ![t] = [pc |-> "ss_lock", to |-> s]]
    /\ UNCHANGED <<channel, queues, thread>>

(* An endpoint starts the call: if the state is CS_NEW, set CS_INIT. *)
AskInit(t) ==
    /\ Begin(t)
    /\ t = Starter
    /\ state = CS_NEW
    /\ call' = [call EXCEPT ![t] = [pc |-> "in_check", to |-> CS_INIT]]
    /\ UNCHANGED <<channel, queues, thread>>

InitChecked(t) ==
    /\ call[t].pc = "in_check"
    /\ Goto(t, "ss_lock")
    /\ UNCHANGED <<channel, queues, thread, ops, handled, failed>>

AskHangup(t) ==
    /\ Begin(t)
    /\ call' = [call EXCEPT ![t].pc = "hu_flag"]
    /\ UNCHANGED <<channel, queues, thread>>

AskLaunch(t) ==
    /\ Begin(t)
    /\ Launch
    /\ UNCHANGED <<channel, queues, rstate, stage, loops, busy, call>>

Unblock(t) ==               \* originate's delayed start is over
    /\ Begin(t)
    /\ blocked
    /\ blocked' = FALSE
    /\ UNCHANGED <<state, running, cause, ocf, smtx, queues, thread, call>>

(* Mutant: a queued message wakes nobody. *)
QueueMessageQuietly(t) ==
    /\ Begin(t)
    /\ msgs' = IF msgs < QueueLen THEN msgs + 1 ELSE msgs
    /\ UNCHANGED <<channel, privs, thread, call>>

QueueMessage(t) ==          \* wakes even when the queue is full
    /\ Begin(t)
    /\ msgs' = IF msgs < QueueLen THEN msgs + 1 ELSE msgs
    /\ call' = [call EXCEPT ![t].pc = "wake"]
    /\ UNCHANGED <<channel, privs, thread>>

QueuePrivateEvent(t) ==     \* wakes nobody
    /\ Begin(t)
    /\ privs < QueueLen
    /\ privs' = privs + 1
    /\ UNCHANGED <<channel, msgs, thread, call>>

(* switch_core_session_read_lock of a channel that is down pings a thread  *)
(* that has CF_THREAD_SLEEPING.                                            *)
Ping(t) ==
    /\ Begin(t)
    /\ Down(state)
    /\ InLock
    /\ call' = [call EXCEPT ![t].pc = "wake"]
    /\ UNCHANGED <<channel, queues, thread>>

-----------------------------------------------------------------------------
(* switch_core_session_run: the session thread. *)

At(pc) == rpc = pc /\ call[Runner] = Idle

(* The top of the loop: state is read once, running_state is our own. *)
Enter(s) ==
    /\ rstate' = s
    /\ rpc' = IF s = CS_DESTROY THEN "ended"
              ELSE IF s # running \/ Down(s) THEN "enter" ELSE "end"

Top ==
    /\ At("top")
    /\ IF blocked /\ state # CS_DESTROY
       THEN rpc' = "blocked" /\ UNCHANGED rstate
       ELSE Enter(state)
    /\ UNCHANGED <<channel, queues, stage, loops, busy, call, ops, handled, failed>>

Blocked ==                  \* switch_channel_wait_for_flag
    /\ At("blocked")
    /\ ~blocked \/ Down(state)
    /\ Enter(state)
    /\ UNCHANGED <<channel, queues, stage, loops, busy, call, ops, handled, failed>>

SetRunningState ==
    /\ At("enter")
    /\ smtx = NoThread
    /\ running' = rstate
    /\ rpc' = "messages"
    /\ UNCHANGED <<state, cause, ocf, blocked, smtx, queues, rstate, stage, loops, busy,
                   call, ops, handled, failed>>

(* switch_ivr_parse_all_events: the messages, then the private events that *)
(* are queued.  "defer" leaves what is queued for a later turn.            *)
Parsing(st) == rpc \in ParsePC /\ stage = st /\ call[Runner] = Idle /\ ~busy
ParseOver == rpc' = AfterParse(rpc) /\ stage' = "messages"

TakeMessage ==
    /\ Parsing("messages")
    /\ msgs > 0
    /\ msgs' = msgs - 1
    /\ busy' = TRUE
    /\ UNCHANGED <<channel, privs, rpc, rstate, stage, loops, call, ops, handled, failed>>

MessagesOver ==
    /\ Parsing("messages")
    /\ msgs = 0 \/ "defer" \in Results
    /\ IF rpc = "messages" THEN ParseOver ELSE stage' = "events" /\ UNCHANGED rpc
    /\ UNCHANGED <<channel, queues, rstate, loops, busy, call, ops, handled, failed>>

TakeEvent ==
    /\ Parsing("events")
    /\ privs > 0
    /\ privs' = privs - 1
    /\ busy' = TRUE
    /\ UNCHANGED <<channel, msgs, rpc, rstate, stage, loops, call, ops, handled, failed>>

EventsOver ==
    /\ Parsing("events")
    /\ privs = 0 \/ "defer" \in Results
    /\ ParseOver
    /\ UNCHANGED <<channel, queues, rstate, loops, busy, call, ops, handled, failed>>

(* The message or the event has been run; a failed event ends the parse. *)
FinishItem ==
    /\ busy /\ call[Runner] = Idle
    /\ busy' = FALSE
    /\ \/ /\ "done" \in Results
          /\ UNCHANGED <<rpc, stage, call>>
       \/ /\ "fail" \in Results /\ stage = "events"
          /\ ParseOver
          /\ UNCHANGED call
       \/ /\ "transfer" \in Results /\ stage = "events"
          /\ call' = [call EXCEPT ![Runner] = [pc |-> "ss_lock", to |-> CS_ROUTING]]
          /\ UNCHANGED <<rpc, stage>>
       \/ /\ "hangup" \in Results
          /\ call' = [call EXCEPT ![Runner].pc = "hu_flag"]
          /\ UNCHANGED <<rpc, stage>>
    /\ UNCHANGED <<channel, queues, rstate, loops, ops, handled, failed>>

(* The states that the standard handlers request. *)
Requests(s) ==
    CASE s = CS_INIT    -> {CS_ROUTING, CS_EXECUTE, CS_RESET}
      [] s = CS_ROUTING -> {CS_EXECUTE, CS_CONSUME_MEDIA}
      [] s = CS_EXECUTE -> {CS_ROUTING, CS_PARK}
      [] OTHER          -> {}

(* STATE_MACRO: a driver's or an application's handler may veto; the       *)
(* standard one runs only if the state is still the one it is for.         *)
Handle ==
    /\ At("handle")
    /\ ~Down(rstate)
    /\ rpc' = "end"
    /\ \/ UNCHANGED call
       \/ /\ state = rstate
          /\ \E s \in Requests(rstate) :
                call' = [call EXCEPT ![Runner] = [pc |-> "ss_lock", to |-> s]]
       \/ /\ state = rstate
          /\ rstate \in {CS_ROUTING, CS_EXECUTE}
          /\ call' = [call EXCEPT ![Runner].pc = "hu_flag"]
    /\ UNCHANGED <<channel, queues, rstate, stage, loops, busy, ops, handled, failed>>

HandleHangup ==
    /\ At("handle")
    /\ rstate = CS_HANGUP
    /\ HangupState
    /\ rpc' = "end"
    /\ call' = [call EXCEPT ![Runner] = [pc |-> "ss_lock", to |-> CS_REPORTING]]
    /\ UNCHANGED <<channel, queues, rstate, stage, loops, busy, ops, failed>>

HandleReporting ==
    /\ At("handle")
    /\ rstate = CS_REPORTING
    /\ reports' = IF reports = 0 THEN 1 ELSE reports     \* CF_REPORTING
    /\ rpc' = "reported"
    /\ call' = [call EXCEPT ![Runner] = [pc |-> "ss_lock", to |-> CS_DESTROY]]
    /\ UNCHANGED <<channel, queues, rstate, stage, loops, busy, ops, hangups,
                   causeless, failed>>

(* The steps that only move the session thread. *)
Move(from, to) ==
    /\ At(from)
    /\ rpc' = to
    /\ UNCHANGED <<channel, queues, rstate, stage, loops, busy, call, ops, handled, failed>>

Reported == Move("reported", "ended")
End == Move("end", IF state # running THEN "top"
                   ELSE IF running = CS_NEW THEN "parseNew" ELSE "parse1")
CheckAwake == Move("checkAwake", IF state = running THEN "lock" ELSE "parse3")
Lock == Move("lock", "checkLocked")
(* Mutant: the state is not read again under the thread mutex. *)
CheckLockedBlindly == Move("checkLocked", "parseLocked")
CheckLocked == Move("checkLocked", IF state = running THEN "parseLocked" ELSE "awake")
Wait == Move("wait", "asleep")
Awake == Move("awake", "parse3")
SpuriousWake == Move("asleep", "awake")

(* CS_NEW for too long: new_loops is unsigned and wraps, so once only. *)
CountNew ==
    /\ At("countNew")
    /\ loops' = IF loops = 0 THEN 0 ELSE loops - 1
    /\ call' = IF loops = 1 THEN [call EXCEPT ![Runner].pc = "hu_flag"] ELSE call
    /\ rpc' = "top"
    /\ UNCHANGED <<channel, queues, rstate, stage, busy, ops, handled, failed>>

-----------------------------------------------------------------------------
Step(t) ==                  \* a thread goes on with the operation it is in
    /\ ~failed
    /\ \/ WakeSignal(t) \/ WakeBusy(t) \/ WakeBeaten(t) \/ WakeRetry(t)
       \/ SetStateLock(t) \/ CarefulSetThread(t) \/ CarefulSetSession(t)
       \/ HangupFlag(t) \/ HangupUnblock(t) \/ HangupCheck(t) \/ HangupWrite(t)
       \/ HangupCause(t) \/ HangupLaunch(t) \/ HangupEarly(t)
       \/ InitChecked(t)

Ask(t) ==                   \* another thread starts an operation
    /\ ~failed
    /\ \/ AskState(t) \/ AskInit(t) \/ AskHangup(t) \/ AskLaunch(t)
       \/ Unblock(t) \/ QueueMessage(t) \/ QueuePrivateEvent(t) \/ Ping(t)

Run ==                      \* the session thread goes on
    /\ ~failed
    /\ \/ Top \/ Blocked \/ SetRunningState
       \/ TakeMessage \/ MessagesOver \/ TakeEvent \/ EventsOver \/ FinishItem
       \/ Handle \/ HandleHangup \/ HandleReporting \/ Reported
       \/ End \/ CountNew \/ CheckAwake \/ Lock \/ CheckLocked \/ Wait \/ Awake

(* Nothing is left to do: the process has aborted, or nobody is in an      *)
(* operation and the session thread has ended, was never started or sleeps.*)
Quiet ==
    /\ \/ failed
       \/ /\ ops = MaxOps
          /\ \A t \in Actors : call[t] = Idle
          /\ SessionMutexFree \/ rpc = "blocked"
    /\ UNCHANGED vars

Next ==
    \/ \E t \in Actors : Step(t)
    \/ \E t \in Threads : Ask(t)
    \/ Run
    \/ SpuriousWake
    \/ Quiet

Spec == Init /\ [][Next]_vars

(* The scheduler lets every thread that can take a step take one; nothing  *)
(* obliges another thread to start an operation.                           *)
Fairness == WF_vars(Run) /\ \A t \in Actors : WF_vars(Step(t))
FairSpec == Spec /\ Fairness
-----------------------------------------------------------------------------
TypeOK ==
    /\ state \in State
    /\ running \in RunningState
    /\ cause \in BOOLEAN /\ ocf \in BOOLEAN /\ blocked \in BOOLEAN
    /\ busy \in BOOLEAN /\ causeless \in BOOLEAN /\ failed \in BOOLEAN
    /\ smtx \in Actors \cup {NoThread}
    /\ msgs \in 0 .. QueueLen
    /\ privs \in 0 .. QueueLen
    /\ rpc \in RunPC
    /\ rstate \in State
    /\ stage \in {"messages", "events"}
    /\ loops \in 0 .. NewLoops
    /\ call \in [Actors -> [pc : CallPC, to : State]]
    /\ ops \in 0 .. MaxOps
    /\ hangups \in {0, 1}
    /\ reports \in {0, 1}

(* A thread that has changed the state, or queued a message, and has yet   *)
(* to make sure that the session thread knows.                             *)
Waking(t) == call[t].pc \in WakePC \cup WakePC2
Alerting(t) == Waking(t) \/ call[t].pc \in {"hu_cause", "hu_launch"}

(* The session thread never sleeps through a change of state: if the state *)
(* is not the one it ran last, some thread is on its way to wake it        *)
(* (switch_core_session_run's two checks, wake_session_thread's trylocks). *)
NoSleepThroughChange ==
    rpc = "asleep" /\ state # running => \E t \in Threads : Alerting(t)

(* Nor through a message: what queue_message put in the queue before the   *)
(* session thread slept is announced by a wake that is still to come.      *)
NoSleepThroughMessage ==
    rpc = "asleep" /\ msgs > 0 => \E t \in Threads : Waking(t)

(* The switch_assert of perform_set_state holds: no thread ever asks for a *)
(* state change that the table does not have.                              *)
NoInvalidStateChange == ~failed

(* The channel keeps the promise of ChannelLifecycle, whatever the threads *)
(* do and however their steps fall: down once, then only forward, with     *)
(* each handler run once in its own state.                                 *)
Lifecycle == INSTANCE ChannelLifecycle
KeepsLifecycle == Lifecycle!Spec

(* And with its fairness: a channel that is down is taken to CS_DESTROY.   *)
EndsLifecycle == Lifecycle!FairSpec

(* on_hangup and the CDR see the cause that switch_channel_hangup was given. *)
CauseBeforeHandlers == ~causeless

(* A channel that is down ends: its session thread runs the hangup and the *)
(* reporting states and returns (the promise of switch_channel_hangup).    *)
HangupEnds == Down(state) ~> rpc = "ended"

(* A started session thread runs every state that is not replaced first,   *)
(* unless originate holds it with CF_BLOCK_STATE.                          *)
StateIsRun ==
    \A s \in State \ {CS_DESTROY} :
        (state = s /\ rpc # "none") ~> (running = s \/ state # s \/ blocked)
=============================================================================
