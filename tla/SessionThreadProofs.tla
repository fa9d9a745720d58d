------------------------ MODULE SessionThreadProofs ------------------------
(***************************************************************************)
(* Proofs about SessionThread, for any number of threads, any bounds and   *)
(* any set of requested states.                                            *)
(***************************************************************************)
EXTENDS SessionThread, TLAPS

USE DEF Goto, Return, Idle, Move, At

(* The numbers of the states, for the steps that compare them. *)
LEMMA StateNumbers ==
    /\ State = 0 .. 12
    /\ RunningState = 0 .. 13
    /\ CS_NEW = 0 /\ CS_ROUTING = 2 /\ CS_HANGUP = 10 /\ CS_REPORTING = 11
    /\ CS_DESTROY = 12 /\ CS_INIT = 1 /\ CS_NONE = 13
    /\ \A s : Requests(s) \subseteq State
BY DEF State, RunningState, CS_NEW, CS_ROUTING, CS_HANGUP, CS_REPORTING, CS_DESTROY,
       CS_INIT, CS_NONE, Requests, CS_EXECUTE, CS_RESET, CS_CONSUME_MEDIA, CS_PARK

(* The type of call, after one thread has moved or returned. *)
LEMMA CallTyped ==
    ASSUME NEW C, C \in [Actors -> [pc : CallPC, to : State]],
           NEW t \in Actors, NEW p \in CallPC, NEW s \in State
    PROVE  /\ [C EXCEPT ![t].pc = p] \in [Actors -> [pc : CallPC, to : State]]
           /\ [C EXCEPT ![t] = [pc |-> p, to |-> s]] \in [Actors -> [pc : CallPC, to : State]]
OBVIOUS

(* Every action keeps the variables in their types. *)
LEMMA StepTyped ==
    ASSUME TypeOK, NEW t \in Actors, Step(t)
    PROVE  TypeOK'
<1> USE StateNumbers, ThreadsAssumption, CallTyped, BoundsAssumption DEF Actors
<1> DEFINE CallType == [Actors -> [pc : CallPC, to : State]]
<1>p. /\ \A p \in {"idle", "ss_lock", "cs_thread", "cs_session", "ss_wake", "ss_wake2",
                   "hu_flag", "hu_block", "hu_check", "hu_write", "hu_cause", "hu_launch",
                   "hu_wake", "hu_wake2", "hu_early", "in_check", "wake", "wake2"} : p \in CallPC
      /\ \A p : Second(p) \in CallPC /\ First(p) \in CallPC
      /\ {"none", "top", "asleep", "awake"} \subseteq RunPC
  BY DEF CallPC, SetStatePC, HangupPC, Second, First, RunPC, LockPC
<1>1. CASE WakeSignal(t)
  <2>1. call' \in CallType BY <1>1, <1>p DEF TypeOK, WakeSignal, WakeDone
  <2>2. smtx' \in Actors \cup {NoThread} BY <1>1 DEF TypeOK, WakeSignal, WakeDone
  <2> QED BY <1>1, <1>p, <2>1, <2>2 DEF TypeOK, WakeSignal, queues, handled
<1>2. CASE WakeBusy(t)
  BY <1>2, <1>p DEF TypeOK, WakeBusy, queues, handled, channel, thread
<1>3. CASE WakeBeaten(t)
  <2>1. call' \in CallType BY <1>3, <1>p DEF TypeOK, WakeBeaten, WakeDone
  <2>2. smtx' \in Actors \cup {NoThread} BY <1>3 DEF TypeOK, WakeBeaten, WakeDone
  <2> QED BY <1>3, <2>1, <2>2 DEF TypeOK, WakeBeaten, queues, handled, thread
<1>4. CASE WakeRetry(t)
  BY <1>4, <1>p DEF TypeOK, WakeRetry, queues, handled, channel, thread
<1>5. CASE SetStateLock(t)
  <2>1. failed' \in BOOLEAN BY <1>5, Zenon DEF TypeOK, SetStateLock
  <2>2. call' \in CallType BY <1>5, <1>p DEF TypeOK, SetStateLock
  <2>3. smtx' \in Actors \cup {NoThread} BY <1>5 DEF TypeOK, SetStateLock
  <2>4. UNCHANGED <<state, running, cause, ocf, blocked, queues, thread, ops, handled>>
    BY <1>5 DEF SetStateLock
  <2> QED BY <2>1, <2>2, <2>3, <2>4 DEF TypeOK, queues, handled, thread
<1>6. CASE CarefulSetThread(t)
  <2>1. cause' \in BOOLEAN BY <1>6, Zenon DEF TypeOK, CarefulSetThread, SetStateWrite
  <2>2. call' \in CallType BY <1>6, <1>p DEF TypeOK, CarefulSetThread, SetStateWrite
  <2>3. state' \in State BY <1>6 DEF TypeOK, CarefulSetThread, SetStateWrite
  <2>4. UNCHANGED <<running, ocf, blocked, smtx, queues, thread, ops, handled, failed>>
    BY <1>6 DEF CarefulSetThread
  <2> QED BY <2>1, <2>2, <2>3, <2>4 DEF TypeOK, queues, handled, thread
<1>7. CASE CarefulSetSession(t)
  BY <1>7, <1>p DEF TypeOK, CarefulSetSession, SetStateWrite, queues, handled, thread
<1>8. CASE HangupFlag(t)
  BY <1>8, <1>p DEF TypeOK, HangupFlag, queues, handled, thread
<1>9. CASE HangupUnblock(t)
  BY <1>9, <1>p DEF TypeOK, HangupUnblock, queues, handled, thread
<1>10. CASE HangupCheck(t)
  BY <1>10, <1>p DEF TypeOK, HangupCheck, queues, handled, thread, channel
<1>11. CASE HangupWrite(t)
  BY <1>11, <1>p DEF TypeOK, HangupWrite, queues, handled, thread
<1>12. CASE HangupCause(t)
  BY <1>12, <1>p DEF TypeOK, HangupCause, queues, handled, thread
<1>13. CASE HangupLaunch(t)
  BY <1>13, <1>p DEF TypeOK, HangupLaunch, Launch, queues, handled, channel
<1>14. CASE HangupEarly(t)
  <2>1. causeless' \in BOOLEAN BY <1>14, Zenon DEF TypeOK, HangupEarly, HangupState, handled
  <2>2. call' \in CallType BY <1>14, <1>p DEF TypeOK, HangupEarly
  <2>3. hangups' \in {0, 1} /\ reports' \in {0, 1}
    BY <1>14 DEF TypeOK, HangupEarly, HangupState, handled
  <2>4. UNCHANGED <<channel, queues, thread, ops, failed>> BY <1>14 DEF HangupEarly
  <2> QED BY <2>1, <2>2, <2>3, <2>4 DEF TypeOK, queues, thread, channel
<1>15. CASE InitChecked(t)
  BY <1>15, <1>p DEF TypeOK, InitChecked, queues, handled, thread, channel
<1> QED
  BY <1>1, <1>2, <1>3, <1>4, <1>5, <1>6, <1>7, <1>8, <1>9, <1>10, <1>11, <1>12, <1>13,
     <1>14, <1>15 DEF Step

LEMMA AskTyped ==
    ASSUME TypeOK, NEW t \in Threads, Ask(t)
    PROVE  TypeOK'
<1> USE StateNumbers, ThreadsAssumption, TargetsAssumption, CallTyped, BoundsAssumption
    DEF Actors, Begin
<1>p. /\ {"idle", "ss_lock", "hu_flag", "in_check", "wake"} \subseteq CallPC
      /\ {"none", "top"} \subseteq RunPC
  BY DEF CallPC, SetStatePC, HangupPC, RunPC
<1>1. CASE AskState(t) \/ AskInit(t) \/ AskHangup(t) \/ Ping(t)
  BY <1>1, <1>p DEF TypeOK, AskState, AskInit, AskHangup, Ping, channel, queues, thread, handled
<1>2. CASE AskLaunch(t)
  BY <1>2, <1>p DEF TypeOK, AskLaunch, Launch, channel, queues, handled
<1>3. CASE Unblock(t)
  <2>1. ops' \in 0 .. MaxOps BY <1>3 DEF TypeOK, Unblock
  <2>2. blocked' \in BOOLEAN BY <1>3, Zenon DEF Unblock
  <2> QED BY <1>3, <2>1, <2>2 DEF TypeOK, Unblock, queues, thread, handled
<1>4. CASE QueueMessage(t)
  <2>1. msgs' \in 0 .. QueueLen BY <1>4 DEF TypeOK, QueueMessage
  <2> QED BY <1>4, <1>p, <2>1 DEF TypeOK, QueueMessage, channel, thread, handled
<1>5. CASE QueuePrivateEvent(t)
  <2>1. privs' \in 0 .. QueueLen BY <1>5 DEF TypeOK, QueuePrivateEvent
  <2> QED BY <1>5, <2>1 DEF TypeOK, QueuePrivateEvent, channel, thread, handled
<1> QED BY <1>1, <1>2, <1>3, <1>4, <1>5 DEF Ask

LEMMA RunTyped ==
    ASSUME TypeOK, Run \/ SpuriousWake
    PROVE  TypeOK'
<1> USE StateNumbers, ThreadsAssumption, CallTyped, BoundsAssumption DEF Actors
<1>p. /\ {"idle", "ss_lock", "hu_flag"} \subseteq CallPC
      /\ {"top", "blocked", "enter", "messages", "handle", "reported", "end", "ended", "parseNew",
          "parse1", "parse3", "lock", "checkLocked", "parseLocked", "asleep", "awake"} \subseteq RunPC
      /\ \A pc : AfterParse(pc) \in RunPC
  BY DEF CallPC, SetStatePC, HangupPC, RunPC, ParsePC, LockPC, AfterParse
<1>1. CASE Top \/ Blocked
  BY <1>1, <1>p DEF TypeOK, Top, Blocked, Enter, channel, queues, handled
<1>2. CASE SetRunningState
  BY <1>2, <1>p DEF TypeOK, SetRunningState, queues, handled
<1>3. CASE TakeMessage \/ TakeEvent
  <2>1. msgs' \in 0 .. QueueLen /\ privs' \in 0 .. QueueLen
    BY <1>3 DEF TypeOK, TakeMessage, TakeEvent
  <2>2. CASE TakeMessage BY <2>1, <2>2 DEF TypeOK, TakeMessage, channel, handled
  <2>3. CASE TakeEvent BY <2>1, <2>3 DEF TypeOK, TakeEvent, channel, handled
  <2> QED BY <1>3, <2>2, <2>3
<1>4. CASE MessagesOver \/ EventsOver
  BY <1>4, <1>p DEF TypeOK, MessagesOver, EventsOver, Parsing, ParseOver, channel, queues, handled
<1>5. CASE FinishItem
  <2>1. call' \in [Actors -> [pc : CallPC, to : State]] BY <1>5, <1>p DEF TypeOK, FinishItem
  <2>2. rpc' \in RunPC /\ stage' \in {"messages", "events"}
    BY <1>5, <1>p DEF TypeOK, FinishItem, ParseOver
  <2>3. busy' = FALSE /\ UNCHANGED <<channel, queues, rstate, loops, ops, handled, failed>>
    BY <1>5 DEF FinishItem
  <2> QED BY <2>1, <2>2, <2>3 DEF TypeOK, channel, queues, handled
<1>6. CASE Handle
  BY <1>6, <1>p DEF TypeOK, Handle, channel, queues, handled
<1>7. CASE HandleHangup
  <2>1. causeless' \in BOOLEAN BY <1>7, Zenon DEF TypeOK, HandleHangup, HangupState
  <2>2. hangups' \in {0, 1} /\ reports' \in {0, 1} BY <1>7 DEF TypeOK, HandleHangup, HangupState
  <2>3. call' \in [Actors -> [pc : CallPC, to : State]] BY <1>7, <1>p DEF TypeOK, HandleHangup
  <2>4. rpc' \in RunPC /\ UNCHANGED <<channel, queues, rstate, stage, loops, busy, ops, failed>>
    BY <1>7, <1>p DEF HandleHangup
  <2> QED BY <2>1, <2>2, <2>3, <2>4 DEF TypeOK, channel, queues
<1>8. CASE HandleReporting
  BY <1>8, <1>p DEF TypeOK, HandleReporting, channel, queues
<1>9. CASE CountNew
  BY <1>9, <1>p DEF TypeOK, CountNew, channel, queues, handled
<1>10. CASE Reported \/ End \/ CheckAwake \/ Lock \/ CheckLocked \/ Wait \/ Awake \/ SpuriousWake
  BY <1>10, <1>p DEF TypeOK, Reported, End, CheckAwake, Lock, CheckLocked, Wait, Awake,
                     SpuriousWake, channel, queues, handled
<1> QED
  BY <1>1, <1>2, <1>3, <1>4, <1>5, <1>6, <1>7, <1>8, <1>9, <1>10 DEF Run

(* Every variable keeps its type: in particular the queues never hold less *)
(* than nothing or more than their length, new_loops does not wrap below 0,*)
(* and every thread is at a point of the operation it is in.               *)
THEOREM TypeCorrect == Spec => []TypeOK
<1>1. Init => TypeOK
  <2> SUFFICES ASSUME Init PROVE TypeOK OBVIOUS
  <2>1. call \in [Actors -> [pc : CallPC, to : State]]
    BY StateNumbers DEF Init, CallPC
  <2>2. msgs \in 0 .. QueueLen /\ privs \in 0 .. QueueLen /\ loops \in 0 .. NewLoops /\ ops \in 0 .. MaxOps
    BY BoundsAssumption DEF Init
  <2>3. state \in State /\ running \in RunningState /\ rstate \in State /\ rpc \in RunPC
    BY StateNumbers DEF Init, RunPC
  <2> QED BY <2>1, <2>2, <2>3 DEF Init, TypeOK
<1>2. TypeOK /\ [Next]_vars => TypeOK'
  <2> SUFFICES ASSUME TypeOK, [Next]_vars PROVE TypeOK' OBVIOUS
  <2>1. CASE UNCHANGED vars
    BY <2>1 DEF TypeOK, vars, channel, queues, thread, handled
  <2>2. CASE Quiet
    BY <2>2, <2>1 DEF Quiet
  <2> QED BY <2>1, <2>2, StepTyped, AskTyped, RunTyped DEF Next
<1> QED BY <1>1, <1>2, PTL DEF Spec

-----------------------------------------------------------------------------
(* The handshake between the session thread and the threads that wake it.  *)
(* It is sound when what is parsed in the locked window (the parse just    *)
(* before the wait) leaves the state alone, leaves no message for later    *)
(* and does not outlast the wakers' retries; the README tells how to see   *)
(* that each condition is needed.                                          *)
Tame == LongItem = FALSE /\ Results \subseteq {"done", "fail"}

(* The inductive invariant.  In the locked window the session thread is in *)
(* no operation of its own; from the point where it has read the state for *)
(* the last time, a state it has not run is still to be announced; from    *)
(* the point where it has emptied the message queue, so is a message.      *)
(* Every parse starts with the messages.                                   *)
SleepInv ==
    /\ rpc \notin ParsePC => stage = "messages"
    /\ InLock => call[Runner] = Idle
    /\ rpc \in {"parseLocked", "wait", "asleep"} /\ state # running
          => \E t \in Threads : Alerting(t)
    /\ \/ rpc \in {"wait", "asleep"}
       \/ rpc = "parseLocked" /\ stage = "events"
       => (msgs > 0 => \E t \in Threads : Waking(t))

(* A step of the session thread inside an operation is outside the window, *)
(* and does not bring it there.                                            *)
LEMMA RunnerStepSleep ==
    ASSUME TypeOK, SleepInv, Step(Runner)
    PROVE  SleepInv'
<1> USE DEF InLock, LockPC
<1>1. call[Runner] # Idle
  BY DEF Step, WakeSignal, WakeBusy, WakeBeaten, WakeRetry, SetStateLock, CarefulSetThread,
         CarefulSetSession, HangupFlag, HangupUnblock, HangupCheck, HangupWrite, HangupCause,
         HangupLaunch, HangupEarly, InitChecked, WakePC, WakePC2
<1>2. rpc \notin LockPC
  BY <1>1 DEF SleepInv
<1>3. rpc' \notin LockPC
  BY <1>2 DEF Step, WakeSignal, WakeBusy, WakeBeaten, WakeRetry, SetStateLock, CarefulSetThread,
         CarefulSetSession, HangupFlag, HangupUnblock, HangupCheck, HangupWrite, HangupCause,
         HangupLaunch, HangupEarly, InitChecked, Launch, thread
<1>4. rpc' \notin ParsePC => stage' = "messages"
  BY <1>2 DEF SleepInv, Step, WakeSignal, WakeBusy, WakeBeaten, WakeRetry, SetStateLock, CarefulSetThread,
         CarefulSetSession, HangupFlag, HangupUnblock, HangupCheck, HangupWrite, HangupCause,
         HangupLaunch, HangupEarly, InitChecked, Launch, thread, ParsePC
<1> QED BY <1>3, <1>4 DEF SleepInv

(* A step of another thread: one that ends its wake either signals the     *)
(* sleeper or finds the session thread outside the window.                 *)
LEMMA OtherStepSleep ==
    ASSUME TypeOK, SleepInv, Tame, NEW t \in Threads, Step(t)
    PROVE  SleepInv'
<1> USE ThreadsAssumption DEF Actors
<1>t. t # Runner BY DEF Actors
<1>o. ~(InLock /\ Outlasted)
  BY DEF SleepInv, Tame, Outlasted
<1>1. CASE WakeSignal(t)
  <2>1. rpc \in {"none", "asleep", "ended"} BY <1>1, <1>t DEF WakeSignal, TrySessionMutex, SessionMutexFree
  <2>2. rpc' \in {"none", "awake", "ended"} BY <1>1, <2>1 DEF WakeSignal
  <2>3. call'[Runner] = call[Runner] BY <1>1, <1>t DEF WakeSignal, WakeDone, TypeOK
  <2> QED BY <1>1, <2>1, <2>2, <2>3 DEF SleepInv, InLock, LockPC, WakeSignal, ParsePC
<1>2. CASE WakeBeaten(t)
  <2>1. ~InLock BY <1>2, <1>o, <1>t DEF WakeBeaten, TryThreadMutex
  <2>2. rpc' = rpc /\ stage' = stage BY <1>2 DEF WakeBeaten, thread
  <2> QED BY <2>1, <2>2 DEF SleepInv, InLock, LockPC
<1>3. CASE WakeBusy(t) \/ WakeRetry(t)
  <2>1. /\ UNCHANGED <<state, running, rpc, stage, msgs>>
        /\ \A u \in Actors : u # t => call'[u] = call[u]
        /\ Waking(t)'
    BY <1>3, <1>t DEF WakeBusy, WakeRetry, Waking, WakePC, WakePC2, First, Second, TypeOK, channel, thread, queues
  <2>2. Alerting(t)' BY <2>1 DEF Alerting
  <2> QED BY <2>1, <2>2, <1>t DEF SleepInv, InLock
<1>4. CASE CarefulSetThread(t) \/ CarefulSetSession(t)
  <2>1. /\ UNCHANGED <<running, rpc, stage, msgs>>
        /\ \A u \in Actors : u # t => call'[u] = call[u]
        /\ ~Waking(t) /\ ~Alerting(t)
    BY <1>4, <1>t DEF CarefulSetThread, CarefulSetSession, SetStateWrite, Waking, Alerting, WakePC, WakePC2,
                      TypeOK, thread, queues
  <2>2. UNCHANGED state \/ Waking(t)'
    BY <1>4 DEF CarefulSetThread, CarefulSetSession, SetStateWrite, Waking, WakePC, TypeOK
  <2>3. \A u \in Threads : Waking(u) => Waking(u)' BY <2>1 DEF Waking
  <2>4. \A u \in Threads : Alerting(u) => Alerting(u)' BY <2>1 DEF Alerting, Waking
  <2>5. Waking(t)' => Alerting(t)' BY DEF Alerting
  <2> QED BY <2>1, <2>2, <2>3, <2>4, <2>5, <1>t DEF SleepInv, InLock
<1>5. CASE HangupWrite(t) \/ HangupCause(t) \/ HangupLaunch(t)
  <2>1. /\ UNCHANGED <<running, stage, msgs>>
        /\ rpc' = rpc \/ (rpc = "none" /\ rpc' = "top")
        /\ \A u \in Actors : u # t => call'[u] = call[u]
        /\ ~Waking(t) /\ Alerting(t)'
    BY <1>5, <1>t DEF HangupWrite, HangupCause, HangupLaunch, Launch, Waking, Alerting, WakePC, WakePC2,
                      TypeOK, thread, queues, channel
  <2>2. \A u \in Threads : Waking(u) => Waking(u)' BY <2>1 DEF Waking
  <2> QED BY <2>1, <2>2, <1>t DEF SleepInv, InLock, LockPC, ParsePC
<1>6. CASE \/ SetStateLock(t) \/ HangupFlag(t) \/ HangupUnblock(t) \/ HangupCheck(t)
           \/ HangupEarly(t) \/ InitChecked(t)
  <2>1. /\ UNCHANGED <<state, running, rpc, stage, msgs>>
        /\ \A u \in Actors : u # t => call'[u] = call[u]
        /\ ~Waking(t) /\ ~Alerting(t)
    BY <1>6, <1>t DEF SetStateLock, HangupFlag, HangupUnblock, HangupCheck, HangupEarly, InitChecked,
                      Waking, Alerting, WakePC, WakePC2, TypeOK, thread, queues, channel
  <2>2. \A u \in Threads : Waking(u) => Waking(u)' BY <2>1 DEF Waking
  <2>3. \A u \in Threads : Alerting(u) => Alerting(u)' BY <2>1 DEF Alerting, Waking
  <2> QED BY <2>1, <2>2, <2>3, <1>t DEF SleepInv, InLock
<1> QED BY <1>1, <1>2, <1>3, <1>4, <1>5, <1>6 DEF Step

(* A new operation silences no wake, and a queued message brings its own.  *)
LEMMA AskSleep ==
    ASSUME TypeOK, SleepInv, NEW t \in Threads, Ask(t)
    PROVE  SleepInv'
<1> USE ThreadsAssumption DEF Actors
<1>t. t # Runner BY DEF Actors
<1>1. /\ UNCHANGED <<state, running, stage>>
      /\ rpc' = rpc \/ (rpc = "none" /\ rpc' = "top")
      /\ \A u \in Actors : u # t => call'[u] = call[u]
      /\ call[t].pc = "idle"
  BY <1>t DEF Ask, Begin, AskState, AskInit, AskHangup, AskLaunch, Launch, Unblock, QueueMessage,
              QueuePrivateEvent, Ping, TypeOK, channel, thread
<1>2. UNCHANGED msgs \/ Waking(t)'
  BY DEF Ask, AskState, AskInit, AskHangup, AskLaunch, Unblock, QueueMessage, QueuePrivateEvent, Ping,
         Waking, WakePC, TypeOK, queues
<1>3. \A u \in Threads : Waking(u) => Waking(u)' BY <1>1 DEF Waking, WakePC, WakePC2
<1>4. \A u \in Threads : Alerting(u) => Alerting(u)' BY <1>1 DEF Alerting, Waking, WakePC, WakePC2
<1> QED BY <1>1, <1>2, <1>3, <1>4, <1>t DEF SleepInv, InLock, LockPC, ParsePC

(* The session thread enters the window with the state it has run, and     *)
(* waits with the queue it has emptied.                                    *)
LEMMA RunSleep ==
    ASSUME TypeOK, SleepInv, Tame, Run \/ SpuriousWake
    PROVE  SleepInv'
<1> USE ThreadsAssumption DEF Actors
<1>1. CASE Top \/ Blocked \/ SetRunningState \/ Handle \/ HandleHangup \/ HandleReporting \/ CountNew
  <2>1. rpc' \notin LockPC
    BY <1>1 DEF Top, Blocked, Enter, SetRunningState, Handle, HandleHangup, HandleReporting, CountNew, LockPC
  <2>2. rpc' \notin ParsePC => stage' = "messages"
    BY <1>1 DEF Top, Blocked, Enter, SetRunningState, Handle, HandleHangup, HandleReporting, CountNew,
                ParsePC, SleepInv
  <2> QED BY <2>1, <2>2 DEF SleepInv, InLock, LockPC
<1>2. CASE TakeMessage \/ TakeEvent
  BY <1>2 DEF TakeMessage, TakeEvent, Parsing, channel, SleepInv, InLock, TypeOK, Alerting, Waking
<1>3. CASE MessagesOver \/ EventsOver
  BY <1>3 DEF MessagesOver, EventsOver, Parsing, ParseOver, AfterParse, ParsePC, LockPC, channel, queues,
              SleepInv, InLock, Tame, TypeOK, Alerting, Waking
<1>4. CASE FinishItem
  BY <1>4 DEF FinishItem, ParseOver, AfterParse, ParsePC, LockPC, channel, queues,
              SleepInv, InLock, Tame, TypeOK, Alerting, Waking
<1>5. CASE Reported \/ End \/ CheckAwake \/ Lock \/ Awake \/ SpuriousWake
  BY <1>5 DEF Reported, End, CheckAwake, Lock, Awake, SpuriousWake, channel, queues,
              SleepInv, InLock, LockPC, ParsePC
<1>6. CASE CheckLocked \/ Wait
  BY <1>6 DEF CheckLocked, Wait, channel, queues, SleepInv, InLock, LockPC, ParsePC, Alerting, Waking
<1> QED BY <1>1, <1>2, <1>3, <1>4, <1>5, <1>6 DEF Run

(* What NeverSleepsThrough and NoMessageSleptThrough say, together.        *)
LEMMA SleepInvariance ==
    ASSUME Tame
    PROVE  Spec => [](NoSleepThroughChange /\ NoSleepThroughMessage)
<1>1. Init => SleepInv
  BY ThreadsAssumption DEF Init, SleepInv, InLock, LockPC, ParsePC, Actors
<1>2. TypeOK /\ SleepInv /\ [Next]_vars => SleepInv'
  <2> SUFFICES ASSUME TypeOK, SleepInv, [Next]_vars PROVE SleepInv' OBVIOUS
  <2>1. CASE UNCHANGED vars
    BY <2>1 DEF SleepInv, InLock, Alerting, Waking, vars, channel, queues, thread, handled
  <2>2. CASE Quiet
    BY <2>2, <2>1 DEF Quiet
  <2>3. CASE \E t \in Actors : Step(t)
    BY <2>3, RunnerStepSleep, OtherStepSleep, Tame DEF Actors
  <2> QED BY <2>1, <2>2, <2>3, AskSleep, RunSleep, Tame DEF Next
<1>3. SleepInv => NoSleepThroughChange /\ NoSleepThroughMessage
  BY DEF SleepInv, NoSleepThroughChange, NoSleepThroughMessage
<1> QED BY <1>1, <1>2, <1>3, TypeCorrect, PTL DEF Spec

(* The session thread never sleeps through a change of state, for any      *)
(* number of threads that set states, hang up, queue messages and wake it, *)
(* in any order.                                                           *)
THEOREM NeverSleepsThrough ==
    ASSUME Tame
    PROVE  Spec => []NoSleepThroughChange
BY SleepInvariance, PTL

(* Nor does it sleep through a message that is queued for it.              *)
THEOREM NoMessageSleptThrough ==
    ASSUME Tame
    PROVE  Spec => []NoSleepThroughMessage
BY SleepInvariance, PTL

-----------------------------------------------------------------------------
(* The life of the channel: SessionThread implements ChannelLifecycle.     *)

(* Other threads bring a channel down with switch_channel_hangup alone.    *)
Polite == \A s \in Targets : ~Down(s)

Asking == {"in_check", "ss_lock", "cs_thread", "cs_session"}    \* a state is asked for
Setting == {"cs_thread", "cs_session", "ss_wake", "ss_wake2"}   \* with the state mutex
Hanging == {"hu_block", "hu_check", "hu_write"}                 \* about to hang up
Late == {"hu_cause", "hu_launch", "hu_wake", "hu_wake2", "hu_early"}
Entered == {"enter", "messages", "handle"}

(* The session thread may ask for s: the handlers of the state before ran. *)
Ready(s) ==
    \/ s = CS_REPORTING /\ rpc = "end" /\ Down(state) /\ hangups = 1
    \/ s = CS_DESTROY /\ rpc = "reported" /\ state >= CS_REPORTING /\ reports = 1

Placed(t) ==
    /\ call[t].pc \in Setting => smtx = t
    /\ call[t].pc \in {"cs_thread", "cs_session"} => ~Ignored(state, call[t].to) /\ Legal(state, call[t].to)
    /\ call[t].pc \in Asking /\ Down(call[t].to) => t = Runner /\ Ready(call[t].to)
    /\ call[t].pc \in Hanging => ocf /\ ~Down(state)
    /\ t = Runner /\ call[t].pc \in Late => state = CS_HANGUP

(* What was tested when the state mutex was taken still holds when the     *)
(* state is written; one thread hangs up, and the channel is up until it   *)
(* does; from CS_HANGUP on only the session thread moves the state, and    *)
(* not while it runs the handlers.                                         *)
LifeInv ==
    /\ \A t \in Actors : Placed(t)
    /\ \A t, u \in Actors : call[t].pc \in Hanging /\ call[u].pc \in Hanging => t = u
    /\ Down(state) => ocf
    /\ rpc \in Entered /\ Down(rstate) => state = rstate

(* A step of t that leaves the state alone and what the others rely on.    *)
LifeMove(t) ==
    /\ state' = state
    /\ \A u \in Actors \ {t} : call'[u] = call[u]
    /\ Placed(t)'
    /\ call'[t].pc \in Hanging => call[t].pc \in Hanging \/ ~ocf
    /\ ocf => ocf'
    /\ smtx' # smtx => smtx \in {NoThread, t}
    /\ hangups = 1 => hangups' = 1
    /\ reports = 1 => reports' = 1
    /\ t # Runner /\ rpc \in {"end", "reported"} => rpc' = rpc
    /\ rpc' \in Entered /\ Down(rstate') => state = rstate'

LEMMA MoveLife ==
    ASSUME TypeOK, LifeInv, NEW t \in Actors, LifeMove(t)
    PROVE  LifeInv'
<1>1. ASSUME NEW u \in Actors, u # t PROVE Placed(u)'
  <2>1. Placed(u) /\ call'[u] = call[u] /\ state' = state BY <1>1 DEF LifeInv, LifeMove
  <2>2. call[u].pc \in Setting => smtx' = u
    BY <1>1, <2>1, ThreadsAssumption DEF LifeMove, Placed
  <2>3. \A s : u = Runner /\ Ready(s) => Ready(s)' BY <1>1, <2>1 DEF LifeMove, Ready
  <2> QED BY <2>1, <2>2, <2>3 DEF Placed, LifeMove
<1>2. \A u \in Actors : Placed(u)' BY <1>1 DEF LifeMove
<1>3. ASSUME NEW u \in Actors, NEW v \in Actors, call'[u].pc \in Hanging, call'[v].pc \in Hanging
      PROVE  u = v
  BY <1>3 DEF LifeInv, LifeMove, Placed
<1>4. Down(state') => ocf' BY DEF LifeInv, LifeMove
<1> QED BY <1>2, <1>3, <1>4 DEF LifeInv, LifeMove

(* What the forms of call' say of the calls. *)
LEMMA CallMoved ==
    ASSUME TypeOK, NEW t \in Actors, NEW p, NEW s
    PROVE  /\ call' = [call EXCEPT ![t].pc = p] =>
                call'[t].pc = p /\ call'[t].to = call[t].to /\ \A u \in Actors \ {t} : call'[u] = call[u]
           /\ call' = [call EXCEPT ![t] = [pc |-> p, to |-> s]] =>
                call'[t].pc = p /\ call'[t].to = s /\ \A u \in Actors \ {t} : call'[u] = call[u]
BY DEF TypeOK

LEMMA StepLife ==
    ASSUME TypeOK, LifeInv, NEW t \in Actors, Step(t),
           ~HangupWrite(t), ~CarefulSetThread(t), ~CarefulSetSession(t)
    PROVE  LifeMove(t)
<1> USE ThreadsAssumption, CallMoved
    DEF channel, queues, thread, handled, Asking, Setting, Hanging, Late, Entered
<1>0. Placed(t) /\ (rpc \in Entered /\ Down(rstate) => state = rstate) BY DEF LifeInv
<1>1. CASE WakeSignal(t) \/ WakeBeaten(t)
  <2>1. /\ state' = state /\ ocf' = ocf /\ hangups' = hangups /\ reports' = reports /\ rstate' = rstate
        /\ rpc' # rpc => rpc = "asleep" /\ rpc' = "awake"
        /\ call[t].pc \in WakePC \cup WakePC2
        /\ WakeDone(t)
    BY <1>1 DEF WakeSignal, WakeBeaten
  <2>2. /\ \A u \in Actors \ {t} : call'[u] = call[u]
        /\ \/ call'[t].pc = "idle"
           \/ call[t].pc \in {"hu_wake", "hu_wake2"} /\ call'[t].pc = "hu_early"
        /\ smtx' # smtx => call[t].pc \in {"ss_wake", "ss_wake2"}
    BY <2>1 DEF WakeDone
  <2> QED BY <1>0, <2>1, <2>2 DEF LifeMove, Placed
<1>2. CASE WakeBusy(t) \/ WakeRetry(t)
  <2>1. UNCHANGED <<channel, thread, handled>> /\ \E p : call' = [call EXCEPT ![t].pc = p] /\
           \/ call[t].pc \in {"ss_wake", "ss_wake2"} /\ p \in {"ss_wake", "ss_wake2"}
           \/ call[t].pc \in {"hu_wake", "hu_wake2"} /\ p \in {"hu_wake", "hu_wake2"}
           \/ p \in {"wake", "wake2"}
    BY <1>2 DEF WakeBusy, WakeRetry, First, Second, WakePC, WakePC2
  <2> QED BY <1>0, <2>1 DEF LifeMove, Placed
<1>3. CASE SetStateLock(t)
  <2>1. UNCHANGED <<state, ocf, rpc, rstate, hangups, reports>> /\ smtx = NoThread /\ call[t].pc = "ss_lock"
    BY <1>3 DEF SetStateLock
  <2>2. /\ \A u \in Actors \ {t} : call'[u] = call[u]
        /\ \/ call'[t].pc = "idle"
           \/ /\ call'[t].pc = "cs_thread" /\ call'[t].to = call[t].to /\ smtx' = t
              /\ ~Ignored(state, call[t].to) /\ Legal(state, call[t].to)
    BY <1>3 DEF SetStateLock
  <2>3. Ready(call[t].to)' <=> \/ call'[t].to = CS_REPORTING /\ rpc = "end" /\ Down(state) /\ hangups = 1
                               \/ call'[t].to = CS_DESTROY /\ rpc = "reported" /\ state >= CS_REPORTING /\ reports = 1
    BY <2>1 DEF Ready
  <2>4. call'[t].pc = "cs_thread" /\ Down(call'[t].to) => t = Runner /\ Ready(call[t].to)'
    BY <1>0, <2>1, <2>2, <2>3 DEF Placed, Ready
  <2> QED BY <1>0, <2>1, <2>2, <2>4 DEF LifeMove, Placed
<1>4. CASE HangupFlag(t)
  BY <1>4, <1>0 DEF HangupFlag, LifeMove, Placed, LifeInv
<1>5. CASE HangupUnblock(t) \/ HangupCheck(t)
  BY <1>5, <1>0 DEF HangupUnblock, HangupCheck, LifeMove, Placed
<1>6. CASE HangupCause(t)
  BY <1>6, <1>0 DEF HangupCause, LifeMove, Placed
<1>7. CASE HangupLaunch(t)
  BY <1>7, <1>0 DEF HangupLaunch, Launch, LifeMove, Placed
<1>8. CASE HangupEarly(t)
  BY <1>8, <1>0 DEF HangupEarly, HangupState, LifeMove, Placed
<1>9. CASE InitChecked(t)
  BY <1>9, <1>0 DEF InitChecked, LifeMove, Placed, Ready
<1> QED BY <1>1, <1>2, <1>3, <1>4, <1>5, <1>6, <1>7, <1>8, <1>9 DEF Step

LEMMA AskLife ==
    ASSUME Polite, TypeOK, LifeInv, NEW t \in Threads, Ask(t)
    PROVE  LifeMove(t)
<1> USE ThreadsAssumption, CallMoved, StateNumbers
    DEF channel, queues, thread, handled, Asking, Setting, Hanging, Late, Entered, Actors, Begin
<1>0. t \in Actors /\ Placed(t) /\ (rpc \in Entered /\ Down(rstate) => state = rstate) BY DEF LifeInv
<1>1. CASE AskState(t)
  <2>1. PICK s \in Targets : call' = [call EXCEPT ![t] = [pc |-> "ss_lock", to |-> s]]
    BY <1>1 DEF AskState
  <2> QED BY <1>0, <1>1, <2>1 DEF AskState, LifeMove, Placed, Polite
<1>2. CASE AskInit(t)
  BY <1>0, <1>2 DEF AskInit, LifeMove, Placed, Down
<1>3. CASE AskHangup(t) \/ QueueMessage(t) \/ Ping(t)
  BY <1>0, <1>3 DEF AskHangup, QueueMessage, Ping, LifeMove, Placed
<1>4. CASE AskLaunch(t)
  BY <1>0, <1>4 DEF AskLaunch, Launch, LifeMove, Placed
<1>5. CASE Unblock(t) \/ QueuePrivateEvent(t)
  BY <1>0, <1>5 DEF Unblock, QueuePrivateEvent, LifeMove, Placed
<1> QED BY <1>1, <1>2, <1>3, <1>4, <1>5 DEF Ask

LEMMA RunLife ==
    ASSUME TypeOK, LifeInv, Run \/ SpuriousWake
    PROVE  LifeMove(Runner)
<1> USE ThreadsAssumption, CallMoved, StateNumbers
    DEF channel, queues, thread, handled, Asking, Setting, Hanging, Late, Entered, Actors
<1>0. Runner \in Actors /\ (rpc \in Entered /\ Down(rstate) => state = rstate) BY DEF LifeInv
<1>1. CASE Top \/ Blocked
  BY <1>0, <1>1 DEF Top, Blocked, Enter, LifeMove, Placed
<1>2. CASE SetRunningState \/ TakeMessage \/ TakeEvent
  BY <1>0, <1>2 DEF SetRunningState, TakeMessage, TakeEvent, Parsing, LifeMove, Placed
<1>3. CASE MessagesOver \/ EventsOver
  BY <1>0, <1>3 DEF MessagesOver, EventsOver, Parsing, ParseOver, AfterParse, ParsePC, LifeMove, Placed
<1>4. CASE FinishItem
  BY <1>0, <1>4 DEF FinishItem, ParseOver, AfterParse, LifeMove, Placed, Down
<1>5. CASE Handle
  <2>1. /\ UNCHANGED <<channel, rstate, handled>> /\ rpc' = "end" /\ call[Runner] = Idle
        /\ \/ UNCHANGED call
           \/ \E s \in Requests(rstate) : call' = [call EXCEPT ![Runner] = [pc |-> "ss_lock", to |-> s]]
           \/ call' = [call EXCEPT ![Runner].pc = "hu_flag"]
    BY <1>5 DEF Handle
  <2>2. \A s \in Requests(rstate) : ~Down(s)
    BY DEF Requests, Down, CS_EXECUTE, CS_RESET, CS_CONSUME_MEDIA, CS_PARK
  <2> QED BY <1>0, <2>1, <2>2 DEF LifeMove, Placed
<1>6. CASE HandleHangup
  BY <1>0, <1>6 DEF HandleHangup, HangupState, LifeMove, Placed, Ready, Down, TypeOK
<1>7. CASE HandleReporting
  BY <1>0, <1>7 DEF HandleReporting, LifeMove, Placed, Ready, Down, TypeOK
<1>8. CASE Reported \/ End \/ CheckAwake \/ Lock \/ CheckLocked \/ Wait \/ Awake \/ SpuriousWake
  BY <1>0, <1>8 DEF Reported, End, CheckAwake, Lock, CheckLocked, Wait, Awake, SpuriousWake,
                    LifeMove, Placed
<1>9. CASE CountNew
  BY <1>0, <1>9 DEF CountNew, LifeMove, Placed
<1> QED BY <1>1, <1>2, <1>3, <1>4, <1>5, <1>6, <1>7, <1>8, <1>9 DEF Run

(* The hangup writes the state while nobody holds the state mutex.         *)
LEMMA HangupLife ==
    ASSUME TypeOK, LifeInv, NEW t \in Actors, HangupWrite(t)
    PROVE  LifeInv' /\ ~Down(state)
<1> USE ThreadsAssumption, CallMoved, StateNumbers
    DEF queues, thread, handled, Asking, Setting, Hanging, Late, Entered
<1>1. /\ call[t].pc = "hu_write" /\ smtx = NoThread /\ state' = 10 /\ call'[t].pc = "hu_cause"
      /\ \A u \in Actors \ {t} : call'[u] = call[u]
      /\ UNCHANGED <<ocf, smtx, rpc, rstate, hangups, reports>>
  BY DEF HangupWrite
<1>2. ~Down(state) /\ ocf BY <1>1 DEF LifeInv, Placed
<1>3. ASSUME NEW u \in Actors, u # t PROVE Placed(u)' /\ call'[u].pc \notin Hanging
  <2>1. Placed(u) /\ call[u].pc \notin Hanging BY <1>1, <1>3 DEF LifeInv
  <2>2. call[u].pc \notin Setting BY <1>1, <2>1 DEF Placed
  <2>3. u = Runner => call[u].pc \notin Late BY <1>2, <2>1 DEF Placed, Down
  <2>4. call[u].pc \in Asking => ~Down(call[u].to) BY <1>2, <2>1 DEF Placed, Ready, Down, TypeOK
  <2> QED BY <1>1, <1>3, <2>1, <2>2, <2>3, <2>4 DEF Placed
<1>4. Placed(t)' BY <1>1 DEF Placed
<1>5. rpc \in Entered => ~Down(rstate) BY <1>2 DEF LifeInv
<1> QED BY <1>1, <1>2, <1>3, <1>4, <1>5 DEF LifeInv

(* The write of careful_set, with the state mutex: what was tested before  *)
(* still holds.                                                            *)
LEMMA WriteLife ==
    ASSUME TypeOK, LifeInv, NEW t \in Actors, call[t].pc \in {"cs_thread", "cs_session"},
           SetStateWrite(t), UNCHANGED <<ocf, smtx, rpc, rstate, hangups, reports>>
    PROVE  /\ LifeInv'
           /\ \/ ~Down(state) /\ ~Down(state') /\ Legal(state, state')
              \/ state = CS_HANGUP /\ state' = CS_REPORTING /\ hangups = 1
              \/ state = CS_REPORTING /\ state' = CS_DESTROY /\ reports = 1
<1> USE ThreadsAssumption, CallMoved, StateNumbers
    DEF Asking, Setting, Hanging, Late, Entered
<1> DEFINE s == call[t].to
<1>1. /\ state' = s /\ s \in 0 .. 12 /\ state \in 0 .. 12 /\ call'[t].pc = "ss_wake"
      /\ \A u \in Actors \ {t} : call'[u] = call[u]
  BY DEF SetStateWrite, TypeOK
<1>2. Placed(t) /\ smtx = t /\ ~Ignored(state, s) /\ Legal(state, s) BY DEF LifeInv, Placed
<1>3. Down(s) => t = Runner /\ Ready(s) BY <1>2 DEF Placed
<1>4. ~Down(s) => ~Down(state) BY <1>1, <1>2 DEF Ignored, Down
<1>5. Down(s) => \/ state = 10 /\ s = 11 /\ hangups = 1 /\ rpc = "end"
                 \/ state = 11 /\ s = 12 /\ reports = 1 /\ rpc = "reported"
  <2>1. CASE Down(s) /\ s = 11
    BY <1>1, <1>2, <1>3, <2>1 DEF Ready, Ignored, Legal, Down, Up, Working, CS_SOFT_EXECUTE, CS_EXECUTE,
       CS_EXCHANGE_MEDIA, CS_PARK, CS_CONSUME_MEDIA, CS_HIBERNATE, CS_RESET
  <2>2. CASE Down(s) /\ s # 11
    BY <1>1, <1>2, <1>3, <2>2 DEF Ready, Ignored, Down
  <2> QED BY <2>1, <2>2
<1>6. ASSUME NEW u \in Actors, u # t PROVE Placed(u)'
  <2>1. Placed(u) /\ call'[u] = call[u] BY <1>1, <1>6 DEF LifeInv
  <2>2. call[u].pc \notin Setting BY <1>2, <1>6, <2>1 DEF Placed
  <2>3. call[u].pc \in Hanging => ocf /\ ~Down(s) BY <1>5, <2>1 DEF Placed, Down
  <2>4. u = Runner => call[u].pc \notin Late BY <1>3, <1>4, <1>6, <2>1 DEF Placed, Down
  <2>5. call[u].pc \in Asking => ~Down(call[u].to)
    BY <1>1, <1>3, <1>4, <1>6, <2>1 DEF Placed, Ready, Down
  <2> QED BY <1>1, <2>1, <2>2, <2>3, <2>4, <2>5 DEF Placed
<1>7. Placed(t)' BY <1>1, <1>2 DEF Placed
<1>8. Down(s) => ocf BY <1>5 DEF LifeInv, Down
<1>9. rpc \in Entered => ~Down(rstate)
  BY <1>1, <1>4, <1>5 DEF LifeInv, Down
<1>10. \A u, v \in Actors : call'[u].pc \in Hanging /\ call'[v].pc \in Hanging => u = v
  BY <1>1 DEF LifeInv
<1>11. LifeInv' BY <1>1, <1>6, <1>7, <1>8, <1>9, <1>10 DEF LifeInv
<1> QED BY <1>1, <1>2, <1>4, <1>5, <1>11

(* ChannelLifecycle's states and table are SessionThread's. *)
LEMMA SameStates ==
    /\ Lifecycle!State = State
    /\ Lifecycle!CS_NEW = CS_NEW /\ Lifecycle!CS_HANGUP = CS_HANGUP
    /\ Lifecycle!CS_REPORTING = CS_REPORTING /\ Lifecycle!CS_DESTROY = CS_DESTROY
    /\ \A s : Lifecycle!Down(s) <=> Down(s)
    /\ \A s, r : Lifecycle!Legal(s, r) <=> Legal(s, r)
<1> USE DEF Lifecycle!CS_NEW, Lifecycle!CS_INIT, Lifecycle!CS_ROUTING, Lifecycle!CS_SOFT_EXECUTE,
        Lifecycle!CS_EXECUTE, Lifecycle!CS_EXCHANGE_MEDIA, Lifecycle!CS_PARK, Lifecycle!CS_CONSUME_MEDIA,
        Lifecycle!CS_HIBERNATE, Lifecycle!CS_RESET, Lifecycle!CS_HANGUP, Lifecycle!CS_REPORTING,
        Lifecycle!CS_DESTROY, CS_NEW, CS_INIT, CS_ROUTING, CS_SOFT_EXECUTE, CS_EXECUTE, CS_EXCHANGE_MEDIA,
        CS_PARK, CS_CONSUME_MEDIA, CS_HIBERNATE, CS_RESET, CS_HANGUP, CS_REPORTING, CS_DESTROY
<1>1. Lifecycle!Working = Working BY DEF Lifecycle!Working, Working
<1>2. Lifecycle!Up = Up BY <1>1 DEF Lifecycle!Up, Up
<1>3. \A s, r : Lifecycle!Legal(s, r) <=> Legal(s, r) BY <1>1, <1>2 DEF Lifecycle!Legal, Legal
<1> QED BY <1>3 DEF Lifecycle!State, State, Lifecycle!Down, Down

(* Every step keeps LifeInv and is a step of ChannelLifecycle, or changes  *)
(* nothing that it tells of.                                               *)
LEMMA NextLife ==
    ASSUME Polite, TypeOK, LifeInv, [Next]_vars
    PROVE  LifeInv' /\ (Lifecycle!Next \/ UNCHANGED Lifecycle!lifecycle)
<1> USE SameStates DEF Lifecycle!lifecycle
<1>1. CASE UNCHANGED vars \/ Quiet
  BY <1>1 DEF Quiet, LifeInv, Placed, Ready, vars, channel, queues, thread, handled
<1>2. ASSUME NEW t \in Actors, HangupWrite(t) PROVE LifeInv' /\ Lifecycle!Next
  <2>1. state' = CS_HANGUP /\ UNCHANGED <<hangups, reports>> BY <1>2 DEF HangupWrite, handled
  <2> QED BY <1>2, <2>1, HangupLife DEF Lifecycle!Next, Lifecycle!Hangup
<1>3. ASSUME NEW t \in Actors, call[t].pc \in {"cs_thread", "cs_session"}, SetStateWrite(t),
             UNCHANGED <<ocf, smtx, rpc, rstate, hangups, reports>>
      PROVE  LifeInv' /\ Lifecycle!Next
  <2>2. LifeInv' /\ state' \in State
    BY <1>3, WriteLife DEF TypeOK, SetStateWrite
  <2>3. CASE ~Down(state) /\ ~Down(state') /\ Legal(state, state')
    BY <1>3, <2>2, <2>3 DEF Lifecycle!Next, Lifecycle!Move
  <2>4. CASE state = CS_HANGUP /\ state' = CS_REPORTING /\ hangups = 1
    BY <1>3, <2>2, <2>4 DEF Lifecycle!Next, Lifecycle!Report
  <2>5. CASE state = CS_REPORTING /\ state' = CS_DESTROY /\ reports = 1
    BY <1>3, <2>2, <2>5 DEF Lifecycle!Next, Lifecycle!Destroy
  <2> QED BY <1>3, <2>2, <2>3, <2>4, <2>5, WriteLife
<1>4. ASSUME NEW t \in Actors, CarefulSetThread(t), ~SetStateWrite(t) PROVE LifeMove(t)
  <2>1. UNCHANGED <<state, ocf, smtx, rpc, rstate, hangups, reports>>
    BY <1>4 DEF CarefulSetThread, thread, handled
  <2>2. /\ call[t].pc = "cs_thread" /\ call'[t].pc = "cs_session" /\ call'[t].to = call[t].to
        /\ \A u \in Actors \ {t} : call'[u] = call[u]
    BY <1>4, CallMoved DEF CarefulSetThread
  <2>3. Ready(call[t].to) => Ready(call[t].to)' BY <2>1, <2>2 DEF Ready
  <2>4. Placed(t) /\ (rpc \in Entered /\ Down(rstate) => state = rstate) BY DEF LifeInv
  <2>5. Placed(t)' BY <2>1, <2>2, <2>3, <2>4 DEF Placed, Setting, Asking, Hanging, Late
  <2> QED BY <2>1, <2>2, <2>4, <2>5 DEF LifeMove, Hanging
<1>5. CASE \E t \in Actors : Step(t)
  <2>1. PICK t \in Actors : Step(t) BY <1>5
  <2>2. CASE HangupWrite(t) BY <1>2, <2>2
  <2>3. CASE (CarefulSetThread(t) \/ CarefulSetSession(t)) /\ SetStateWrite(t)
    <3>1. call[t].pc \in {"cs_thread", "cs_session"} /\ UNCHANGED <<ocf, smtx, rpc, rstate, hangups, reports>>
      BY <2>3 DEF CarefulSetThread, CarefulSetSession, thread, handled
    <3> QED BY <1>3, <2>3, <3>1
  <2>4. CASE CarefulSetThread(t) /\ ~SetStateWrite(t)
    <3>1. UNCHANGED <<state, hangups, reports>> BY <2>4 DEF CarefulSetThread, handled
    <3> QED BY <1>4, <2>4, <3>1, MoveLife
  <2>5. CASE ~HangupWrite(t) /\ ~CarefulSetThread(t) /\ ~CarefulSetSession(t)
    <3>1. LifeMove(t) BY <2>1, <2>5, StepLife
    <3>2. CASE HangupEarly(t)
      <4>1. t = Runner => state = CS_HANGUP BY <3>2 DEF HangupEarly, LifeInv, Placed, Late
      <4>2. state' = state /\ reports' = reports /\ (hangups' # hangups => t = Runner /\ hangups = 0 /\ hangups' = 1)
        BY <3>2 DEF HangupEarly, HangupState, channel, handled
      <4>3. Lifecycle!Next \/ UNCHANGED <<state, hangups, reports>>
        BY <4>1, <4>2 DEF Lifecycle!Next, Lifecycle!OnHangup
      <4> QED BY <3>1, <4>3, MoveLife
    <3>3. CASE ~HangupEarly(t)
      <4>1. UNCHANGED <<hangups, reports>>
        BY <2>1, <2>5, <3>3 DEF Step, WakeSignal, WakeBusy, WakeBeaten, WakeRetry, SetStateLock, HangupFlag,
           HangupUnblock, HangupCheck, HangupCause, HangupLaunch, InitChecked, handled
      <4> QED BY <3>1, <4>1, MoveLife DEF LifeMove
    <3> QED BY <3>2, <3>3
  <2> QED BY <2>1, <2>2, <2>3, <2>4, <2>5 DEF CarefulSetSession
<1>6. CASE \E t \in Threads : Ask(t)
  <2>1. PICK t \in Threads : Ask(t) BY <1>6
  <2>2. LifeMove(t) /\ t \in Actors BY <2>1, AskLife, Polite DEF Actors
  <2>3. UNCHANGED <<hangups, reports>>
    BY <2>1 DEF Ask, Begin, AskState, AskInit, AskHangup, AskLaunch, Unblock, QueueMessage,
       QueuePrivateEvent, Ping, handled
  <2> QED BY <2>2, <2>3, MoveLife DEF LifeMove
<1>7. CASE Run \/ SpuriousWake
  <2>1. LifeMove(Runner) /\ Runner \in Actors BY <1>7, RunLife DEF Actors
  <2>2. CASE HandleHangup
    <3>1. state = CS_HANGUP /\ state' = state
      BY <2>1, <2>2, StateNumbers DEF HandleHangup, LifeInv, Entered, Down, LifeMove
    <3>2. reports' = reports /\ (hangups' # hangups => hangups = 0 /\ hangups' = 1)
      BY <2>2 DEF HandleHangup, HangupState
    <3>3. Lifecycle!Next \/ UNCHANGED <<state, hangups, reports>>
      BY <3>1, <3>2 DEF Lifecycle!Next, Lifecycle!OnHangup
    <3> QED BY <2>1, <3>3, MoveLife
  <2>3. CASE HandleReporting
    <3>1. state = CS_REPORTING /\ state' = state
      BY <2>1, <2>3, StateNumbers DEF HandleReporting, LifeInv, Entered, Down, LifeMove
    <3>2. hangups' = hangups /\ (reports' # reports => reports = 0 /\ reports' = 1)
      BY <2>3 DEF HandleReporting
    <3>3. Lifecycle!Next \/ UNCHANGED <<state, hangups, reports>>
      BY <3>1, <3>2 DEF Lifecycle!Next, Lifecycle!OnReporting
    <3> QED BY <2>1, <3>3, MoveLife
  <2>4. CASE ~HandleHangup /\ ~HandleReporting
    <3>1. UNCHANGED <<hangups, reports>>
      BY <1>7, <2>4 DEF Run, Top, Blocked, SetRunningState, TakeMessage, MessagesOver, TakeEvent, EventsOver,
         FinishItem, Handle, Reported, End, CountNew, CheckAwake, Lock, CheckLocked, Wait, Awake, SpuriousWake,
         handled
    <3> QED BY <2>1, <3>1, MoveLife DEF LifeMove
  <2> QED BY <2>2, <2>3, <2>4
<1> QED BY <1>1, <1>5, <1>6, <1>7 DEF Next

(* The channel keeps the promise of ChannelLifecycle whatever the threads  *)
(* do: down once, then only forward through CS_HANGUP and CS_REPORTING to  *)
(* CS_DESTROY, the handlers of each run once and before the state is left, *)
(* for any number of threads, if they bring it down with                   *)
(* switch_channel_hangup alone.                                            *)
THEOREM ImplementsLifecycle ==
    ASSUME Polite
    PROVE  Spec => KeepsLifecycle
<1>1. Init => LifeInv /\ Lifecycle!Init
  BY StateNumbers, SameStates DEF Init, LifeInv, Placed, Lifecycle!Init, Asking, Setting, Hanging, Late,
     Entered, Down
<1>2. TypeOK /\ LifeInv /\ [Next]_vars => LifeInv' /\ [Lifecycle!Next]_Lifecycle!lifecycle
  BY NextLife, Polite
<1> QED BY <1>1, <1>2, TypeCorrect, PTL DEF Spec, KeepsLifecycle, Lifecycle!Spec
=============================================================================
