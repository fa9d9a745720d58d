# FreeSWITCH core: a TLA+ verification project

FreeSWITCH is a soft switch: a C process in which every call leg is a *session*
with a *channel* (its state and flags), usually with a thread of its own, driven
and observed by many other threads (endpoints, the event socket, API commands,
timers, bridge peers). What makes the core hard to get right is not its
algorithms but who holds what while someone else changes it. These modules model
the parts of the core where that matters, check them with TLC on small
instances, and prove the central properties with TLAPS for every value of the
constants.

Paths below are relative to the repository root; line numbers refer to the
commit the modules were written from. `PROJECT.json` maps every definition to
its lines.

## 1. Inventory

| Component | Code | State it keeps | Operations | What makes it correct |
|---|---|---|---|---|
| Channel state | `switch_channel.c` | `state`, `running_state`, `OCF_HANGUP`, `hangup_cause`, `CF_BLOCK_STATE` under `state_mutex` / `thread_mutex` | `perform_set_state`, `perform_set_running_state`, `perform_hangup`, `careful_set` | states follow the table; down once, then only forward; the assertion on invalid changes holds |
| Session thread | `switch_core_state_machine.c`, `switch_ivr.c` | local `state`, position in `switch_core_session_run`, message and private event queues | run a state's handlers, parse messages and events, sleep, be woken | no state change or message is slept through; hangup and reporting handlers run once; a hung up session ends |
| Session table | `switch_core_session.c`, `switch_core_rwlock.c`, `switch_hashtable.c` | `session_table`, `session_count`, limit and rate, each session's rwlock and flags | request, rename, launch, locate, force_locate, message_send, hupall, destroy | nobody holds a freed session; the table and the count are exact; one thread per session; hupall reaches all |
| Session thread pool | `switch_core_session.c`, `apr_queue.c` | `thread_queue`, counts of running, busy, popping, starting workers | launch, manager loop, worker loop, uninit | no session lost or run twice; launched sessions are run; uninit returns |
| Scheduler | `switch_scheduler.c` | `task_list`, each task's times and flags, `event_queue` | add, delete by id or group, execute in the task thread or an own thread, stop | a container is not freed while executed; one execution at a time; due tasks run; deleted tasks are freed |
| Port allocator | `switch_core_port_allocator.c` | `track`, `track_used` | request, release, robustness check | one client per port, inside the range; no port lost; requests return |
| Media bugs | `switch_core_media_bug.c` | the list `session->bugs`, flags and thread of each bug, the tap-only flag | add, remove (by pointer, callback, function), close, pop, flag, prune | closed once; not dropped without a close; the list stays a list |
| Clock and timers | `switch_time.c` | timer matrix, sps refill | softtimer thread | only the refill of the session rate is modelled |
| Channel flags, call states, answer, DTMF | rest of `switch_channel.c` | flags with counts, `callstate`, DTMF queue, variables | set/clear/wait for flags, answer, queue and take digits | planned |
| Event system | `switch_event.c`, `apr_queue.c` | `EVENT_DISPATCH_QUEUE`, `EVENT_NODES` under `RWLOCK`, `DISPATCH_THREAD_COUNT`, `SYSTEM_RUNNING` | fire, dispatch, bind, unbind, shutdown | no delivery touches a freed node; callbacks see events in order and once; no bound node is passed over; shutdown ends, and leaves no thread behind |
| Bridge | `switch_ivr_bridge.c`, parts of `switch_ivr.c` | two channels' states and flags, `_bridge_`, `clean_exit`, read locks | bridge, bridge thread in both legs, transfer, intercept, hold | locks balance; a transferred leg is kept; the call returns; no leg is left waiting |
| Originate | `switch_ivr_originate.c` | `originate_status`, `oglobals`, each leg's state, flags, locks and key thread | create, launch, wait, time out, confirm, lose, win, clean up | one leg is returned, locked and confirmed; the others are hung up and unlocked, but for those others took; the call ends |
| Limits, buffers, SQL queue, log, jitter buffer | `mod_hash.c`, `switch_buffer.c`, `switch_core_sqldb.c`, `switch_log.c`, `libs/stfu` | counters, byte buffers, queues | | planned, small modules |
| Media engine, RTP, codecs, I/O | `switch_core_media.c`, `switch_rtp.c`, `switch_core_io.c`, … | | signal processing, sockets, SDP text | not modelled |
| Loadable modules, endpoints, applications | `switch_loadable_module.c`, `src/mod` | | protocol stacks over the core | not modelled; the models take from them what they call and in which thread |
| Configuration, XML, dialplan, regex | `switch_xml*.c`, `switch_config.c`, `switch_regex.c` | | sequential parsing | not modelled |
| Vendored libraries | `libs/` | | | not modelled, but for `apr_queue.c` push, pop, interrupt |

How they interact. A request (`SessionTable`) makes a session and lists it; its
owner launches it, directly or through the pool (`ThreadPool`); its thread then
runs the channel's states (`SessionThread`) until it is hung up, takes the
write lock, and leaves and frees the session (`SessionTable` again). Others
reach a session only through the table and its read lock. The media engine of a
session takes its ports from `PortAllocator`; whoever listens to its audio adds a
bug to its list (`MediaBug`), which the removal in `hangup_state` empties. An outgoing call (`Originate`) makes sessions, waits for one of them to
answer and returns it locked; the application that asked for it joins it to its
own session (`Bridge`), whose two threads then watch each other's states and
flags until one leaves. All of them fire events, which `EventSystem` queues and
hands to whoever has bound itself. The
scheduler (`Scheduler`) is used by all of them for heartbeats and delayed
actions and is otherwise independent.

Hard behaviours. Everything is shared memory: state read before a lock is
taken or after it is released; trylock with a bounded number of retries;
condition signals that nobody waits for; lists walked across an unlock; threads
that cannot be created; queues at their limit; counters that different mutexes
guard. There is no persistence to recover and no network protocol of the core's
own, so that crashes and lost messages play no part. `PROJECT.json` lists the
hazards, each at its line.

## 2. Modules

| Module | Models | Composed with |
|---|---|---|
| `ChannelStates` | the enum and the table of `perform_set_state` | extended by the next two |
| `ChannelLifecycle` | abstract: what a channel promises | implemented by `SessionThread` |
| `SessionThread` | `switch_core_session_run`, state changes, hangup, queues, wake-up | `MCSessionThread`, `SessionThreadProofs` |
| `SessionTable` | the table, locks, limits, launch and destruction | `MCSessionTable`, `SessionTableProofs` |
| `ThreadPool` | the session thread pool | `ThreadPoolProofs` |
| `TaskLife` | abstract: the life of a scheduled task | implemented by `Scheduler` |
| `Scheduler` | the task list, the task thread, own threads | `MCScheduler`, `SchedulerProofs` |
| `PortAllocator` | ports of one address | `MediaProofs` |
| `MediaBug` | the bugs of one session | `MediaProofs` |
| `EventSystem` | the event engine: queue, dispatch threads, nodes, shutdown | `MCEventSystem`, `EventSystemProofs` |
| `Bridge` | two legs in a bridge and those who interfere | `MCBridge`, `BridgeProofs`; uses `ChannelStates` |
| `Originate` | an outgoing call with its legs, their threads and key collectors | `MCOriginate`, `OriginateProofs`; uses `ChannelStates` |

### How state and actions correspond to the code

**SessionThread.** A thread's place in an operation is `call[t].pc`: `ss_*` and
`cs_*` in `perform_set_state` and `careful_set`, `hu_*` in `perform_hangup`,
`wake*` in `wake_session_thread`; the session thread's own place is `rpc`, one
value per point of `switch_core_session_run` between which another thread can
interfere. `session->mutex` and `thread_mutex` are held exactly at known values
of `rpc` (others take them by trylock only), so they are derived operators; a
wait on the condition is `rpc = "asleep"` and a signal is lost unless it finds
it there. Message and event contents are abstracted to what running them may do
(`Results`): nothing, fail and end the parse, be deferred, request a transfer,
hang up. The bounded retries of `wake_session_thread` and `careful_set` outlast
the code of the locked window but not an application run in it: `Outlasted`,
switched on by `LongItem`. `AskInit` stands for the endpoints that test for
`CS_NEW` and then request `CS_INIT` (`mod_skinny.c:1278`, `mod_sofia.c:4532`),
`FinishItem` for the parse functions of `switch_ivr.c:742-867`, `Requests` for
the states the standard handlers ask for. The event parsed by the session
thread and the wait in `CF_BLOCK_STATE` are the only waits in the loop.

**SessionTable.** `table` keeps the entries of each uuid in the order the hash
table would find them. `session_hash_mutex` is held from a lookup to the try at
the session's lock (`user[t].pc = "found"`) and during the delivery of
`message_send`/`event_send`; elsewhere a critical section is one step. A
session's thread is `spc`: run, ended, write lock, `SSF_DESTROYED`, removal,
free. Owners that fail and destroy their session are those of
`mod_loopback.c:251-267`. No race is left out: five history variables record the
ones that break properties (a lock taken behind the check, `late`; a session its
owner destroys, `givenup`; one hung up before its launch, `preempted`; one renamed
under a hupall, `renamed`; a uuid two sessions were given or that was changed for a
session already removed, `raced`), and the properties name them as their exceptions.

**ThreadPool.** The queue is `apr_queue`: a push wakes one waiting worker, an
interrupt all, a woken worker that finds nothing gives up with `APR_EINTR`.
`cond_mutex` and `cond2_mutex` are held at known places of the manager, so
`wake_queue` is one step. `failures` is a history variable.

**Scheduler.** A container is identified with its task number; the list is in
increasing order, as appended. `task_mutex` is held by the task thread at
`tpc \in {"scan", "sweep"}`. `event_queue` is a length with `Push` blocking at
`EventLen`.

**PortAllocator.** One turn of the search loop is one step: from a random slot
up to the first free one, with every resting slot on the way one pass nearer to
free. Other programs bind and release ports at any time (`Bind`, `Unbind`, only
seen by the robustness check). A client may release again, at any time, a port it
has released (`ReleaseAgain`), as a failed RTP session and the media engine may;
`robbed` records whom a stale release took a port from, and `Owned` are the ports
of a client without those.

**MediaBug.** The list is kept as pointers (`head`, `next`), since `prune` keeps
a pointer across an unlock. A kind is a function name with its flags; `eavesdrop`
is the only kind that is popped and thread-locked, as in `switch_ivr_async.c`.
`FunctionSets` says for which functions `remove_all_function` is called. `Steps` is
where a loop along `next` is after each step; `Walk` follows it over the whole list,
and `After` past the bugs that `remove_callback` takes out. Nothing keeps the threads
apart but `bug_rwlock`. History variables record the races that break properties, which
name them as their exceptions: `misled`, a pass of `prune` unlinked the head by way of a
`last` that an earlier pass left over; `taken`, the bugs that were popped; `spared`, those
that `remove_all_function` skipped and dropped with the list; `crossed`, the kinds of which
one was added while another thread was past the test for the same kind; `overtaken`
and `stale`, for the tap flag written by a thread that looked at the list before another
bug was added. The specification is
`BugSpec`, so that one module can extend this one and `PortAllocator`.

**EventSystem.** `thread[t]` is where a dispatch or firing thread is: `push`,
`wait_room`, `room` in `apr_queue_push`, `top`, `pop`, `wait_event`, `event` in
the dispatch thread, `walk` and `callback` in `switch_event_deliver`. A dispatch
thread holds `RWLOCK` for reading from the start of a walk to its end
(`Readers`), a binder or unbinder for writing, which is one step. A callback of a
`Reentrant` node fires an event itself and pushes it from inside the walk. A
thread woken in the queue tries once more and gives up; `Push` then has lost its
event (`fate = "lost"`), since `switch_event.c:383` does not look at the result.
The growth of the dispatch threads (364-376) never happens: its two conditions
exclude each other. `early`, `pushed`, `latest`, `due` and `fate` are history.

**Bridge.** `pc[a]` runs `switch_ivr_multi_threaded_bridge`, `pc[b]` leg b's
session thread with the bridge's state handlers, both through the same
`audio_bridge_thread` (`Thread...`). Channel states change by the table of
`ChannelStates`; what follows a bridge (`park_after_bridge`,
`transfer_after_bridge`, `exec_after_bridge_app`, `hangup_after_bridge`) is in
`after` and `plan`. A transfer and an intercept by another thread are as many
steps as they make changes another thread can see. A hold is the flag
`CF_LEG_HOLDING`. A wait in `switch_channel_wait_for_flag` may end at any time,
which stands for its ten seconds. A turn of the bridge loop is two steps: the
tests at its top (`ThreadLoop`, 350-373) and the rest (`ThreadTurn`), which makes none
of them again and in which the read may fail (`TurnFails`) or the answer timeout
hang the leg up (`AnswerTimeout`, 487-490). `BridgeCause` is the call of
`switch_channel_handle_cause` for a leg b that was not answered, with what
`continue_on_fail`, `transfer_on_fail` and `failure_causes` make of the cause as
`plan.fail`. `moved`, `dropped` and `expired` are history. The wait for `CS_DESTROY`
before a CDR is copied (1499) is left out because it never waits: it is made for a leg
that is down, for which `switch_channel_wait_for_state` returns at once
(`switch_channel.c:1586`).

**Originate.** `pc` is where the originating thread is; `Dialled` is the group
(`pipe_names[r]`), whose legs are `and_argc`; `slots` the entries of
`originate_status` that are filled, `idx` is `oglobals.idx`. `check_channel_status` is
`Check`, `check_per_channel_timeouts` is `CheckTimeouts`, the loop over the
losers `LoseTest` and `LoseHang`, the label `done` is `Done` and the `Clean...` actions.
Where the code tests a leg and then hangs it up, test and hangup are two steps
(`losehang`, `cleanhang`), so that a transfer (`Take`) can come between. Retries
(`originate_retries`) are the same loop over a list of groups and are the list
unrolled. `collect` is `collect_thread_run`, one thread per leg that is asked for
the confirmation key. `elapsed` counts seconds since the group rings.

## 3. Runs

| Run | Checks | Shows |
|---|---|---|
| `session` | `NoSleepThroughChange`, `NoSleepThroughMessage`, `EndsLifecycle`, `StateIsRun` | the double check and the wakers' trylocks lose no state change and no message; every state that is not replaced is run; a channel that is down reaches `CS_DESTROY` |
| `session_life` | `KeepsLifecycle` | whatever parsed messages and events do, with early hangup, long items and failed thread creation, the channel implements `ChannelLifecycle` |
| `scheduler` | `KeepsTaskLife` | the scheduler implements `TaskLife`; a container is never freed under a callback |
| `scheduler_live` | `DueIsRun`, `DeletedIsFreed`, `StopEnds` | due tasks run, deleted ones are freed, the task thread stops |
| `table` | `HeldIsLive`, `LaunchedOnce`, `EndsFreed` | read locks protect but for a lock taken late, one thread per session, a hung up session is freed |
| `table_owner` | `OwnerIsLive`, `TableIsExact`, `HupAllComplete` | sessions are found, held and hung up before their launch, by owners who fail, rename and ask for uuids: who owns a session can use it unless it was hung up, the table, `session_count` and hupall are exact but for raced uuids and renamed sessions |
| `port` | `GivenOnce`, `TrackIsExact`, `InRange`, `RequestReturns` | with clients that release again what was given on: a port is given to one client unless a stale release took it from another, inside the range, none is lost, a request returns while some port stays free |
| `pool` | `JobIsSomewhere`, `LaunchedIsRun`, `StopEnds` | no job is lost or doubled; lost wake-ups are made up for; the pool stops |
| `bug` | `ClosedOnce`, `NoneDropped` | in any interleaving every way out of the list closes a bug once, until `prune` is misled by its left-over `last`, but for bugs popped or spared |
| `event` | `NoFreedNode`, `InOrder`, `NoneMissed`, `ShutdownIsComplete`, `EventIsDispatched`, `ShutdownEnds` | unbinding never frees a node under a delivery, order and completeness survive a full queue and callbacks that fire, and shutdown ends with the thread gone and no event left behind, unless a callback blocks its own thread |
| `bridge` | `LocksBalance`, `TransferIsKept`, `BridgeReturns`, `NoOrphan` | on every path out of a bridge the locks are given back, transferred legs are kept (but for their own answer timeout), the loops end by their own tests, the call returns and nobody waits for a partner who is gone, whatever a third thread does (but for a redirect before the bridge stands) |
| `originate` | `LegIsLive`, `NoneLeftBehind`, `ConfirmedWins`, `TakenIsKept`, `OriginateReturns`, `LegsEnd` | the call uses no freed leg, returns one locked and confirmed leg or none, leaves no other locked or ringing, keeps its hands off legs that were taken, and ends, as its legs do |

Each module with variables has a `TypeOK` (`BugTypeOK` in `MediaBug`), which is proved
for all of them (section 4), as are `OneOfFunction` and `TapOnlyIsRight` of `MediaBug`,
whose exceptions are threads that add bugs at the same time. The runs are kept for what
takes several steps to go wrong.

Every property of a run has a mutant, a small plausible bug in one
definition (a dropped re-check, an uncounted release, a list head that is not
replaced), under which TLC finds the property violated with the same cfg. The
mutants stand in the modules beside the definition they vary, marked `Mutant`.

### Bounds, and why they are enough

- *Session*: two other threads and three or four operations in all. A lost wake-up
  needs the session thread, a changer and at most one more operation that frees
  or takes a mutex meanwhile; two hangups can race, and a hangup can race a
  state change, a message or a launch. Queue length 1 makes the queue full;
  `NewLoops` = 2 (500 in the code) reaches the give-up in `CS_NEW`.
- *Table*: two threads, two sessions, at most one chosen uuid. Every race listed is between an
  owner and one other thread, plus the session's own thread; two sessions are
  needed for the limit, for hupall's second pass and for duplicates. The threads are
  symmetric in `TableOwner`. `SpsTotal`,
  `Limit`, `FailFloor`, `FailCut` are scaled down to be met.
- *Scheduler*: two tasks, one caller, a clock of two ticks, a queue of two events
  where it shall fill up and of eight (more than these tasks make) where it
  shall not. Two ticks make a task due, run and due again.
- *Ports*: two clients, two even ports in a range with an odd start (3..6), all
  of the values -4..1 of a slot. Two slots are the fewest with a walk that
  passes one and stops at the other; a second client is enough to be given a port
  that the first then releases again. The proofs cover every range.
- *Pool*: two jobs, two workers, failing creations.
- *Bugs*: two threads, of which one adds, three bugs of two kinds, one that is popped,
  thread-locked and native and one that is added once only; three bugs give a head, a
  middle and an end of the list, which a misled `prune` needs. `OneOfFunction` and
  `TapOnlyIsRight` were checked with both threads adding and `MaxBugs = 2`.
- *Events*: two types, an event of two subclasses, two nodes (one for its subclass,
  one for all), a queue of two elements, three events, one thread that fires and
  one callback that does: two events can stand in the queue in either order, and the
  queue is full while a third is in a walk. One dispatch thread, as the code starts by
  default; `ShutdownIsComplete` is stated, and proved, for any number, and was checked
  for two and three dispatch threads with `MaxEvents = 2`.
- *Bridge*: one request by one other thread, in every state of the bridge, with
  four states of leg b's media and three sets of variables, of which two have an answer
  timeout and each another way to deal with a failed bridge.
- *Originate*: two legs, together or in turn, nine sets of options that between them use every
  branch, a clock of three seconds against a limit of two and a progress limit of
  one. Two legs give a winner and a loser, an earlier and a later group, a
  delayed and a prompt leg.

Deadlock is checked where the system may not stop: `session` (which has an
explicit `Quiet` step for "nobody has anything left to do"), `table` and `port`. It is
off for the scheduler, the pool and the event engine, which end when they were stopped,
for a bridge and an outgoing call, which end, and for the bugs: a misled `prune` can
close the list to a cycle, which holds whoever walks it.

### Fairness

- *SessionThread*: weak fairness for each thread inside an operation, and for the
  session thread. Callbacks of the handlers return; nobody is obliged to begin
  an operation, and spurious wake-ups are not relied upon.
- *SessionTable*: threads finish what they began, holders release their read
  locks, a session's thread goes on. Strong fairness for the write lock and for
  the removal from the table: readers come and go, and the rwlock and the mutex
  are handed to a waiting thread in the end (pthreads' writer preference; without it
  a stream of readers could keep the session for ever, and the code has no
  other protection).
- *ThreadPool*: every step but the end of a job, which may never come; only
  `StopEnds` supposes that running jobs end. The manager's timed wait runs out.
- *Scheduler*: time passes, the task thread and own threads go on, callbacks return.
- *PortAllocator*: a request goes on with its loop. Releases are not obliged.
- *EventSystem*: a thread inside the engine goes on, callbacks return, a shutdown
  that was begun goes on. Nobody has to fire, bind, unbind or shut down.
- *Bridge*: both session threads run and a transfer or intercept that was begun is
  finished. A read of a frame returns (a hangup and a change of state break it), but
  `TurnFails` and `AnswerTimeout` are not under fairness: no read has to fail and no
  timeout has to come, so a loop ends only by the tests at its top. Nobody has
  to hang up, hold, transfer, intercept or answer.
- *Originate*: the originating thread runs, the clock goes on, each leg's thread
  runs its states and is destroyed when nobody holds it, a key collector starts
  and ends when its leg is not ready. No far end has to ring, answer or hang up,
  no key has to be pressed, no caller has to give up.

## 4. Proofs

All proofs are checked by TLAPS from the named assumptions on the constants
(which TLC evaluates in the runs), for any number of threads, sessions, tasks,
slots and bounds.

- `SessionThreadProofs`. `TypeCorrect`; `NeverSleepsThrough` and
  `NoMessageSleptThrough` for `Tame` constants (parsed items neither change the
  state nor outlast the retries, and none is put off).
  The two properties speak of `asleep` only and are not inductive; `SleepInv`
  extends them back to the point where the session thread has last compared the
  state under the thread mutex (`parseLocked`, `wait`), and for messages to the
  point where it has seen the queue empty, and adds that in the locked window the
  session thread is in no operation of its own, which is exactly what fails
  without `Tame`. `ImplementsLifecycle`: the session thread implements
  `ChannelLifecycle`, with long items, early hangup, failed launches and any result
  of a parsed item, for `Polite` constants (other threads bring the channel down
  with `switch_channel_hangup`, not by asking for `CS_HANGUP` or a later state).
  `LifeInv` is what makes each write of the state a legal one although it is
  tested earlier: whoever has passed the test of `perform_set_state` owns the state
  mutex and the test still holds; at most one thread is between `OCF_HANGUP` and
  the write of `CS_HANGUP`, and the channel is up until then, which is why
  the write needs no second look; a request for `CS_REPORTING` or `CS_DESTROY` is
  the session thread's own and comes after the handlers. The proof treats the two
  writes of the state by themselves and all other steps through one lemma
  (`MoveLife`).
- `SchedulerProofs`. `TypeCorrect`, `NothingExecutedIsFreed`,
  `ImplementsTaskLife`. `SchedInv`: listed and freed are disjoint; a container
  whose own thread is alive is listed, marked `in_thread` and of the own-thread
  kind; the one the task thread executes is listed and not of that kind;
  destroyed ones were added. The refinement proof maps every step to a step of
  `TaskLife` or a stutter.
- `SessionTableProofs`. `TypeCorrect` (with `admitted + sps <= SpsTotal`),
  `OneThread` (`OnceInv`: no thread before `SSF_THREAD_STARTED`), and without any
  condition `NothingHeldIsFreed`, `OwnerUsesLiveSession`, `TableExact` and
  `HupAllHangsUpAll`. They rest on one invariant, `TableInv`, of three parts. `PlaceInv`
  says what every thread has in hand: a holder its read lock, a launcher that is not
  the owner a session it hung up, an owner (one for a session) a session without a
  thread unless it was hung up, a hupall each session it saw hung up, gone, renamed,
  still before it or at hand. `LifeInv` says that a session with readers has not
  passed the write lock unless it was locked late, and that what is freed was given up
  or is done. `EntryInv` says that each uuid that was not raced for and that a session
  not yet destroyed has is the key of one entry, that session's, and no other uuid has
  one. None is inductive alone: the removal by uuid is right because the uuid is the
  session's own, which it stays because only the owner renames it, who owns it alone.
  TLC shows for each exception that the property does not hold without it (section 5).
- `MediaProofs`, the ports: `TypeCorrect`, `UsedExact` for every flag and whatever is
  released twice; for even ports (what RTP asks for) `PortsInRange`, `NeverGivenTwice`
  and `NoPortLost` (`GivenInv` = both together: each needs the other), with clients
  that release again what they released, whoever has it now: a stale release can take a
  port from its owner, and request_port never does. `CountInv`
  counts with the cardinality theorems.
- `MediaProofs`, the media bugs, for any threads, kinds, functions and number of bugs and
  in any interleaving: `BugTypeCorrect`, which says that the list has an end,
  `BugClosedOnce`, `NoBugDropped` and `OnlyRacingAddersErr` (`OneOfFunction` and
  `TapOnlyIsRight`). Each holds until `misled`, which once set stays set; section 5 shows
  what happens then. What the loops
  over the pointers compute is an induction over the list; it is made tractable by the
  order the list keeps. A bug is added at the head with a number above all others, and
  removals keep the order, so that `next` falls (`Falls`, `IsList`); a loop over a
  falling list falls at each step, is at every bug of it and ends within `MaxBugs`
  steps (`LoopFalls`, `StopIs`, `LoopPasses`), by the smallest counterexample. On top of that,
  `HandInv`: a bug is in the list, in the hands of one thread that has unlinked it and
  will close it, or closed; `HistInv`: only popped bugs are locked, and who unlinked a
  bug by pointer may close it, so that those `close` refuses are in `taken`. A `last` that
  `prune` carries into its next pass is harmless unless the head itself is to be pruned:
  otherwise the loop takes a step first and sets `last` anew. `SeenInv` says that what a
  thread has seen when it adds a bug (no other of its function, only native ones) stays
  true until it acts on it, unless another insertion came between.
- `ThreadPoolProofs`, for finite sets of sessions and workers (`PoolAssumption`).
  `TypeCorrect` and `NoneLostNorRunTwice`. Bounds on the counters are not inductive,
  since nothing in an increment stops it; `CountInv` says instead what each counter
  counts: `running`, `busy` and `popping` the workers at certain places of their
  loop, `starting` those that were made and have not begun, and for ever those that
  could not be made. `QueueInv` says that a session is in the queue once, or with one
  worker, or not launched yet, or done.
- `BridgeProofs`. `TypeCorrect`, `LocksAreBalanced`, `TransferKept` and
  `NoneUsedIsDestroyed`, for any number of other threads and requests.
  `BridgeInv` adds to the first two that what the bridge has hung up is down, that once
  a leg was transferred out of the bridge neither leg is or comes again where one
  hangs up the other, and that the transferred leg carries `CF_TRANSFER` until its own
  verdict is past (`KeptInv`), and that a destroyed leg is
  down and unlocked (`GoneInv`): nobody can lock it any more.
- `EventSystemProofs`. `TypeCorrect`, `NoneUsedAfterFree` and `NoneIsMissed` for any
  number of dispatch threads. `EngineInv`: each event is in one place, the one its
  fate says (`PlaceInv`, `FateInv`); a walk is at a node that is bound (`NodeInv`), which it
  stays because a walk holds `RWLOCK`; an event is owed to nodes that are bound and
  match it, and once its delivery has begun only to those the walk still comes to
  (`WalkInv`). `nodes` keeps the bound nodes of each list by the number of their bind,
  newest first, so that a walk is a falling number and needs no induction over a list.
  `CallbacksInOrder` is for `DispatchCount` = 1, the number the engine starts with:
  `OrderInv`, queue and walks follow the order of pushes. With two threads the order is
  not kept: both walk at once. `ShutdownCompletes` is for any number: `StopInv` says that
  what was queued at shutdown stands before any `NULL`, that the threads joined so
  far are gone, and that past the join at most half of the threads are left. The half
  is what the code keeps: the bound of the join loop (`switch_event.c:554`) is a count
  that the threads lower as they end, so after `x` joins the loop ends when `x` or fewer
  threads are left.
- `OriginateProofs`, for any dial plan whose legs are new sessions (`Fresh`, in
  `OriginateAssumption`: `switch_core_session_outgoing_channel` makes one each time),
  any options and limits. `TypeCorrect`, `NoneDestroyedUnderCall`,
  `NothingIsLeftBehind`, `WinnerHasConfirmed`, `TransferredIsKept`. `CallInv` follows the loops: which
  legs are not created yet (`FreshInv`), which the call has locked at
  each place of each loop (`HeldInv`, with `Holds`: those made and locked, those the
  cleaning loop has not come to, the winner), which are down or taken once
  the losers' and the cleaning loop have passed them (`GoneInv`), that a leg that was
  taken has lost `CF_ORIGINATING` and is not the one whose test was just
  passed (`TakenInv`), and that the winner is created, locked and confirmed (`WinnerInv`).
  `NoneLeftBehind` speaks only of the return; every one of these parts is
  needed to get there.

TLC checked every one of these inductive invariants on the runs' instances before
it was proved.

Only model-checked: everything about liveness (fairness and `ENABLED` are out of the
prover's reach), so `EndsLifecycle`, `StateIsRun`, `DueIsRun`, `DeletedIsFreed`, `StopEnds`,
`EndsFreed`, `RequestReturns`, `LaunchedIsRun`, `EventIsDispatched`, `ShutdownEnds`, `BridgeReturns`,
`NoOrphan`, `OriginateReturns` and `LegsEnd`. Every invariant of a run and every action
property is proved, under the conditions given above.

## 5. Where the code disagrees with its documentation

Each row is reproduced by changing constants of a cfg as given and checking the
property (the definitions are in the modules): TLC then shows a trace. Where the
property stands "without" a part, that part of its definition is left out; it
names the one case in which the code does not have the property.

| Property | Change | Code | What is said |
|---|---|---|---|
| `HangupEnds` | `Session.cfg`: `Results <- Anything` | an event parsed at `switch_core_state_machine.c:580`, in the locked window, that hangs the channel up leaves the thread waiting at 584: the signal it sends itself finds nobody, and the state is not compared again | `switch_channel.h:536`: "Hangup a channel flagging it's state machine to end" |
| `HeldIsLive` without `late` | `Table.cfg` | `read_lock` (`switch_core_rwlock.c:104`) tests `SSF_DESTROYED` before it tries the lock and not after | `switch_core.h:506`: "Acquire a read lock on the session" |
| `ClosedOnce` without `misled` | `Bug.cfg` | `prune` (`switch_core_media_bug.c:883`) does not reset `last` when it starts over, after others changed the list | `switch_core.h:343`: "Remove a media bug from the session" |
| `NoSleepThroughChange` | `Session.cfg`: `LongItem = TRUE`, `MaxOps = 4` | `switch_core_session.c:1357` gives up after ten tries, while an event parsed in the window may run for longer | line 1355: "we can be fairly certian it will not happen 2x in a row but we'll try 10x just in case" |
| `NoInvalidStateChange` | `Session.cfg`: `Targets <- SomeTargets` | an endpoint's test for `CS_NEW` and its request for `CS_INIT` are not atomic; a transfer in between makes the request invalid (`switch_channel.c:2410`) | the `switch_assert` there, and "we won't tolerate an invalid state change" (2408) |
| `CauseBeforeHandlers` | `Session.cfg`, as it is | `hangup_cause` is written (`switch_channel.c:3188`) after the state is published (3185) | `switch_channel.h:538`, "the appropriate hangup cause" |
| `AnnouncedIsListed` | `Scheduler.cfg`, `CreateFails = FALSE` | `add_task` reads the container (`switch_scheduler.c:243-254`) after the unlock at 240 | `switch_scheduler.h:63`, "the id of the task" |
| `AskedOnceIsOnce` | the same | a task asked for this second is an interval when the clock moves on (`switch_scheduler.c:215`; the heartbeat of `switch_core.c:1719` asks so) | `switch_scheduler.h:56`, "the time in epoch seconds to execute the task" |
| `DueIsRun` | `SchedulerLive.cfg`: `OwnThread <- Never`, `Intervals <- Hourly`, `EventLen = 1` | the task thread pushes to the queue that only it empties (`switch_scheduler.c:76`, `153`) | the same line |
| `HeldIsLive` without `givenup` | `TableOwner.cfg` | an owner that gives up destroys its session (`switch_core_session.c:2259`) without waiting for those who found and hold it | `switch_core.h:506`, as above |
| `OwnerIsLive` without `preempted` | `TableOwner.cfg` | a session is listed (`switch_core_session.c:2392`) before its requester has a lock | line 2352: "its all private it will be passed to the thread run function" |
| `RunningIsNotDestroyed` | `TableOwner.cfg`, without symmetry | `perform_destroy` (`switch_core_session.c:1428`) logs and goes on | line 1430: "Cowardly ignoring an attempt to call destroy on a running session." |
| `TableIsExact` without `raced` | `TableOwner.cfg` | the look-up at `switch_core_session.c:2283` and the insertion at 2392 are not atomic | `switch_hashtable.c:160`: duplicate keys "shouldn't be used" |
| `WithinLimit` | `TableOwner.cfg`: `Limit = 1`, `SpsTotal = 3` | count read (2311) and written (2394) under different mutexes | `switch.conf.xml:49`: "Max number of sessions to allow at any given time." |
| `LimitIsReduced` | the same, without symmetry | the limit is set to ten below the count, whatever it was (1713) | line 1719: "reduces the max sessions" |
| `RefusedOverRate` | `TableOwner.cfg`: `SpsTotal = 1`, without symmetry | `sps` is decremented before the comparison (2315): a rate of one lets nobody in | `switch.conf.xml:56`: "Most channels to create per second" |
| `HupAllComplete` without `renamed` | `TableOwner.cfg` | uuids collected under the mutex are looked up after it was released (378); a rename in between hides the session | `switch_core.h:930`: "Hangup all sessions" |
| `GivenOnce` with `mine` for `Owned` | `Port.cfg` | `free_port` takes a port from whoever has it (`switch_core_port_allocator.c:236`); a failed `switch_rtp_new` (`switch_rtp.c:3500`) and the media engine (`switch_core_media.c:4595`) may both release it | `switch_core.h:432`: "Return unused port to the port allocator" |
| `InRange` | `Port.cfg`: `Flags = {"odd"}` | ports are computed as twice a number (177) | `switch_core.h:414`: "only even/odd portnumbers" |
| `InRange` | `Port.cfg`: `Flags = {"even", "odd"}` | `track_len` is one too large when it is not halved (98) | `switch_core.h:413`: "the ending port" |
| a request always returns: `\A c : holder = c ~> holder # c` | `Port.cfg` | with every free port bound by others the loop does not end and holds the mutex (153) | `switch_core_media.c:4481`: "No %s RTP ports available!" |
| `LaunchedIsRun` without `failures > 0` | `Pool.cfg` | a failed `switch_thread_create` is counted as a starting worker for good (`switch_core_session.c:1790`) | `switch_core.h:810`: "SWITCH_STATUS_SUCCESS if the thread was launched" |
| `NoneDropped` without `taken` | `Bug.cfg` | a bug popped after `remove`'s test of `SMBF_LOCK` (`switch_core_media_bug.c:823`) is unlinked and never closed | `switch_core.h:343`, as above |
| `NoneDropped` without `spared` | `Bug.cfg` | `remove_all_function` empties the list (782) of the bugs it has skipped for their lock or their function | line 767: "BUG is thread locked skipping."; `mod_dptools.c:5738`: `[<function>]` |
| `OneOfFunction` without `crossed` | `Bug.cfg`: `Adders = {t1, t2}` | test (427) and insertion (535) are two critical sections | line 432: "Only one bug of this type allowed!" |
| `LostInShutdownOnly` | `Event.cfg`: `Firers = {f1, f2}`, `QueueLen = 1` | a push woken to a slot that another took returns, and the event is neither queued nor destroyed (`switch_event.c:383`, `apr_queue.c:163-186`) | `switch_event.h:231`: "Fire an event with full arguement list" |
| `EventIsDispatched` without `CallbackBlocked` | `Event.cfg`: `QueueLen = 1` | a callback that fires into the full queue waits for its own thread, holding `RWLOCK` (383) | the same line |
| `ShutdownEnds` | `Event.cfg`: `DispatchCount = 2`, `QueueLen = 1`, `MaxEvents = 1` | a `NULL` is dropped by `trypush` on the full queue (546), a thread that ends meanwhile lowers the count so that no other is offered, and the interrupt comes when the other thread has tested `SYSTEM_RUNNING` and does not wait yet: it then waits for ever, and the join (554) with it | `switch_event.h:138`: "Stop the eventing system" |
| `TransferIsKept` without `expired` | `Bridge.cfg` | the hangup on `bridge_answer_timeout` (`switch_ivr_bridge.c:489`) does not test `CF_TRANSFER`, which was last tested at 350: a leg transferred in between is hung up | `switch_ivr.h:542`: "Transfer an existing session to another location" |
| `BridgeReturns` without `early` | `Bridge.cfg` | leg b, transferred just before `switch_ivr_bridge.c:1460` puts it into `CS_EXCHANGE_MEDIA`, has no handlers there; leg a spins at 1469 for as long as it stays | `switch_ivr.h:520`: "Bridge Audio from one session to another" |
| `NoOrphan` without `early` | `Bridge.cfg` | the same: leg b stays in `CS_EXCHANGE_MEDIA` with nobody | the same line |
| `OriginateReturns` without `opt.reject # "cause"` | `Originate.cfg` | with a list of causes in `fail_on_single_reject` the time limit only counts when a leg has ended with one of them (`switch_ivr_originate.c:3019-3052`) | `switch_ivr.h:484`: "timeout in seconds for outgoing call" |
| `NoneLeftBehind` without `abandoned` | `Originate.cfg` | a leg that is refused with `fail_on_single_reject` ends the call by `goto outer_for` (2722-2725), past the loop that hangs up and unlocks the legs made before | `switch_ivr.h:479`: "Make an outgoing call" |
| `LegIsLive` with `pc = "next"` for all of `slots` | `Originate.cfg` | after the unlock at 3788 the causes are read from the legs (3797-3825) | the lock taken at 2731 |
| `[][Answer(FALSE) => ~status']_vars` | `Originate.cfg` | a winner whose caller's media cannot be set up (3506-3524) is hung up and returned with success | `switch_ivr.h:491`: "SWITCH_STATUS_SUCCESS if bleg is a running session." |
| `[][(pc \in {"launch", "limits"} /\ Call) => \A l \in safe : IsUp(l) => ~Down(state'[l])]_vars` | `MCOriginate`: a limit of 1 for the legs of the call with `takes = 1` | the limits of a leg are applied to one that was transferred away (317-333: no test of `CF_ORIGINATING`) | 3410: `peer_eligible` |

## 6. Not modelled, and the plan

Not modelled in the components above:

- the content of handlers, messages and events; channel flags other than those a
  module names; the enumerations of the table that follow hupall's pattern; the
  destruction of the port allocator; the transfer of bugs between sessions and the
  audio read from them; real time;
- events: channels of events and live arrays (`switch_event.c:2700-3250`), reserved
  subclasses, headers and their encoding, `events_use_dispatch` off (where an event is
  delivered in a thread of its own);
- bridge: the frames and DTMF, suspended and bypassed media, inner bridges, signal
  bonds (`switch_ivr_signal_bridge`), the synchronisation inside
  `switch_ivr_uuid_bridge` (the intercepted leg leaves for it), `CF_XFER_ZOMBIE`;
  causes of a hangup;
- originate: the holding branch (3260-3407), `leg_required`, pickup, swapped
  channels, `SOF_NOBLOCK`, enterprise originate, ringback, `monitor_early_media_*`,
  `return_ring_ready`, errors in the dial string, a transfer of a leg before the
  call has locked it.

The whole repository has 2.27 million lines of implementation, of which the core
(`src/*.c`) is 90 thousand: most of the rest is vendored (`libs/`), generated
(the language wrappers) or a protocol stack or application over the core
(`src/mod`). The modules are about the parts of the core where threads meet. The
share of the repository that the map names is therefore small and will stay so.

Order of what is to come:

1. proofs: how `InOrder` weakens with several dispatch threads;
2. the rest of `switch_channel.c`: flags with counts, `callstate`, the DTMF queue;
3. transfers of media bugs between two sessions: `transfer_callback`
   (`switch_core_media_bug.c:645`) adds to the new session with the old one's lock
   held, so that two opposite transfers can wait for each other;
4. small modules: limits (`mod_hash`), `switch_buffer`, the SQL queue manager, log,
   jitter buffer.
