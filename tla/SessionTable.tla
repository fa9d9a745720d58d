---------------------------- MODULE SessionTable ----------------------------
(***************************************************************************)
(* switch_core_session.c and switch_core_rwlock.c: the table of sessions.  *)
(* Threads of the program request sessions, rename, launch or give them    *)
(* up, find the sessions of others by uuid, hold them with a read lock and *)
(* hang them up; every launched session has a thread that, once the        *)
(* channel is down, takes the write lock and frees the session.            *)
(*                                                                         *)
(* What a session does while it runs is SessionThread's subject; here its  *)
(* channel is up until someone hangs it up, and then its run ends.         *)
(*                                                                         *)
(* session_hash_mutex is held from the lookup in the table to the attempt  *)
(* at the session's lock (and, for a message sent by uuid, to the end of   *)
(* its delivery), and within one step everywhere else.                     *)
(***************************************************************************)
EXTENDS Integers, Sequences, FiniteSets

CONSTANTS
    Threads,        \* threads that use sessions of their own and of others
    Names,          \* uuids that callers choose
    RequestNames,   \* those a request for a session may ask for
    Ops,            \* what threads do to others' sessions: subset of AllOps
    SpsTotal,       \* runtime.sps_total, sessions-per-second
    Limit,          \* session_manager.session_limit at first, max-sessions
    FailFloor,      \* 110 in thread_launch_failure
    FailCut,        \* 10 in thread_launch_failure
    NoLimits,       \* may a request carry SOF_NO_LIMITS?  Subset of BOOLEAN
    CreateFails,    \* may switch_thread_create fail?
    OwnerFails,     \* may the owner of a new session fail to set it up?
    MaxSessions     \* bound: sessions made, in all

Sessions == 1 .. MaxSessions
Keys == Sessions \cup Names     \* the uuid switch_uuid_get makes for s is s
AllOps == {"locate", "force", "send", "hupall"}

ASSUME NamesAssumption ==
    Names \cap (0 .. MaxSessions) = {} /\ RequestNames \subseteq Names
ASSUME NumbersAssumption ==
    /\ MaxSessions \in Nat /\ SpsTotal \in Nat \ {0} /\ Limit \in Nat \ {0}
    /\ FailFloor \in Nat /\ FailCut \in Nat /\ FailCut < FailFloor
ASSUME FlagsAssumption ==
    /\ Ops \subseteq AllOps /\ NoLimits \subseteq BOOLEAN
    /\ {CreateFails, OwnerFails} \subseteq BOOLEAN

VARIABLES
    table,      \* session_table: the entries of each key, latest first
    count,      \* session_count
    limit,      \* session_limit
    sps,        \* runtime.sps; what is below zero counts as zero
    admitted,   \* history: requests let through since sps was refilled
    made,       \* number of sessions made, the latest one's number
    uuid,       \* uuid_str
    down,       \* is the channel at CS_HANGUP or later?
    started,    \* SSF_THREAD_STARTED
    threads,    \* history: session threads created for the session
    spc,        \* where the session's thread is
    readers,    \* threads that hold the session's rwlock for reading
    freed,      \* sessions whose memory pool is destroyed
    user,       \* where each thread is
    late,       \* history: sessions locked after they were marked destroyed
    givenup,    \* history: sessions that their owners destroy, without a lock
    preempted,  \* history: sessions hung up by a holder before their launch
    renamed,    \* history: sessions renamed while some hupall had them listed
    raced       \* history: uuids given to two sessions, or under which the table
                \* was changed for a session that was no longer in it

admission == <<count, limit, sps, admitted>>
session == <<uuid, down, started, threads>>
history == <<late, givenup, preempted, renamed, raced>>
vars == <<table, admission, made, session, spc, readers, freed, user, history>>

\* uuid is what a request asked for (0: none), s the session at hand, todo the
\* uuids switch_core_session_hupall has collected, seen the sessions behind them.
Idle == [pc |-> "idle", op |-> "none", use |-> 0, s |-> 0, todo |-> {}, seen |-> {}]

Init ==
    /\ table = [k \in Keys |-> <<>>]
    /\ count = 0 /\ limit = Limit /\ sps = SpsTotal /\ admitted = 0
    /\ made = 0
    /\ uuid = [s \in Sessions |-> s]
    /\ down = [s \in Sessions |-> FALSE]
    /\ started = [s \in Sessions |-> FALSE]
    /\ threads = [s \in Sessions |-> 0]
    /\ spc = [s \in Sessions |-> "none"]
    /\ readers = [s \in Sessions |-> {}]
    /\ freed = {}
    /\ user = [t \in Threads |-> Idle]
    /\ late = {} /\ givenup = {} /\ preempted = {} /\ renamed = {} /\ raced = {}

\* Is no thread between its lookup and its try at the lock, or delivering?
HashMutexFree ==
    \A t \in Threads :
        /\ user[t].pc # "deliver"
        /\ ~(user[t].pc = "found" /\ user[t].op # "own")

Destroyed(s) == spc[s] \in {"gone", "unlisted", "done"}     \* SSF_DESTROYED

Listed == UNION {{table[k][i] : i \in 1 .. Len(table[k])} : k \in Keys}

\* Sessions inserted and not yet deleted from the table by their destruction.
Members ==
    {s \in 1 .. made :
        /\ spc[s] \notin {"unlisted", "done"} /\ s \notin freed
        /\ \A t \in Threads : ~(user[t].pc = "free" /\ user[t].s = s)}

-----------------------------------------------------------------------------
(* switch_core_session_request_uuid                                        *)

\* A uuid that is asked for is looked up, without the mutex.
Request(t, use, unlimited) ==
    /\ user[t].pc = "idle"
    /\ made + Cardinality({v \in Threads : user[v].pc \in {"admit", "insert"}}) < MaxSessions
    /\ use # 0 => table[use] = <<>>
    /\ user' = [user EXCEPT ![t] = [@ EXCEPT !.pc = IF unlimited THEN "insert" ELSE "admit", !.use = use]]
    /\ UNCHANGED <<table, admission, made, session, spc, readers, freed, history>>

\* The limits are tested against numbers read under throttle_mutex.
LetsThrough == sps - 1 > 0 /\ count + 1 <= limit

Admit(t) ==
    /\ user[t].pc = "admit"
    /\ sps' = IF sps = 0 THEN 0 ELSE sps - 1
    /\ IF LetsThrough
       THEN /\ admitted' = admitted + 1
            /\ user' = [user EXCEPT ![t] = [@ EXCEPT !.pc = "insert"]]
       ELSE /\ UNCHANGED admitted
            /\ user' = [user EXCEPT ![t] = Idle]
    /\ UNCHANGED <<table, count, limit, made, session, spc, readers, freed, history>>

Insert(t) ==
    /\ user[t].pc = "insert"
    /\ HashMutexFree
    /\ made < MaxSessions
    /\ LET s == made + 1
           k == IF user[t].use = 0 THEN s ELSE user[t].use
       IN  /\ table' = [table EXCEPT ![k] = <<s>> \o @]
           /\ uuid' = [uuid EXCEPT ![s] = k]
           /\ raced' = IF table[k] = <<>> THEN raced ELSE raced \cup {k}
           /\ user' = [user EXCEPT ![t] = [Idle EXCEPT !.pc = "own", !.op = "own", !.s = s]]
    /\ made' = made + 1
    /\ count' = count + 1
    /\ UNCHANGED <<limit, sps, admitted, down, started, threads, spc, readers, freed,
                   late, givenup, preempted, renamed>>

\* Once a second, by the timer thread.
Refill ==
    /\ sps < SpsTotal
    /\ sps' = SpsTotal
    /\ admitted' = 0
    /\ UNCHANGED <<table, count, limit, made, session, spc, readers, freed, user, history>>

-----------------------------------------------------------------------------
(* switch_core_session_perform_destroy, in two steps: the session leaves   *)
(* the table, then its pool is destroyed.                                  *)

\* switch_core_hash_delete takes out the first entry of the session's uuid,
\* whichever session it is an entry of.
Delete(k) == IF table[k] = <<>> THEN <<>> ELSE Tail(table[k])

Unlist(s) ==
    /\ HashMutexFree
    /\ table' = [table EXCEPT ![uuid[s]] = Delete(uuid[s])]
    /\ count' = IF count = 0 THEN 0 ELSE count - 1
    /\ raced' = IF s \in Members THEN raced ELSE raced \cup {uuid[s]}
    /\ UNCHANGED <<late, preempted, renamed>>

-----------------------------------------------------------------------------
(* The owner of a new session: the thread that requested it.               *)

Owns(t) == user[t].op = "own" /\ user[t].pc \in {"own", "hold"}
Live(t) == user[t].s \notin freed

\* An owner that holds and has launched its session is a holder like others.
Op(t) == IF user[t].op = "own" THEN "locate" ELSE user[t].op

\* The new uuid, and what history keeps of it.
Renamed(s, use) ==
    /\ uuid' = [uuid EXCEPT ![s] = use]
    /\ raced' = IF s \in Members THEN raced ELSE raced \cup {uuid[s], use}
    /\ renamed' = IF \E v \in Threads : s \in user[v].seen THEN renamed \cup {s} ELSE renamed
    /\ UNCHANGED <<late, givenup, preempted>>

\* Mutant: the entry under the old uuid stays.
RenameKeepsOld(t, use) ==
    /\ user[t].pc = "own" /\ Live(t)
    /\ HashMutexFree
    /\ use # uuid[user[t].s]
    /\ table[use] = <<>>
    /\ table' = [table EXCEPT ![use] = <<user[t].s>>]
    /\ Renamed(user[t].s, use)
    /\ UNCHANGED <<admission, made, down, started, threads, spc, readers, freed, user>>

\* switch_core_session_set_uuid.
Rename(t, use) ==
    /\ user[t].pc = "own" /\ Live(t)
    /\ HashMutexFree
    /\ use # uuid[user[t].s]
    /\ table[use] = <<>>
    /\ table' = [table EXCEPT ![uuid[user[t].s]] = Delete(uuid[user[t].s]),
                              ![use] = <<user[t].s>>]
    /\ Renamed(user[t].s, use)
    /\ UNCHANGED <<admission, made, down, started, threads, spc, readers, freed, user>>

\* A failed owner destroys its session, or leaves it to the session's thread.
AfterFailure(t) ==
    IF OwnerFails THEN [user[t] EXCEPT !.pc = "destroy"] ELSE Idle

OwnerFail(t) ==
    /\ OwnerFails /\ Owns(t) /\ Live(t)
    /\ user' = [user EXCEPT ![t] = AfterFailure(t)]
    /\ UNCHANGED <<table, admission, made, session, spc, readers, freed, history>>

OwnerUnlist(t) ==
    /\ user[t].pc = "destroy" /\ Live(t)
    /\ Unlist(user[t].s)
    /\ user' = [user EXCEPT ![t] = [@ EXCEPT !.pc = "free"]]
    /\ givenup' = givenup \cup {user[t].s}
    /\ UNCHANGED <<limit, sps, admitted, made, session, spc, readers, freed>>

OwnerFree(t) ==
    /\ user[t].pc = "free" /\ Live(t)
    /\ freed' = freed \cup {user[t].s}
    /\ readers' = [readers EXCEPT ![user[t].s] = @ \ {t}]
    /\ user' = [user EXCEPT ![t] = Idle]
    /\ UNCHANGED <<table, admission, made, session, spc, history>>

\* What a thread does to a session that was freed under it is undefined; here
\* it gives up.  OwnerIsLive and HeldIsLive say when this can happen.
Lost(t) ==
    /\ user[t].s # 0 /\ ~Live(t) /\ user[t].pc # "found"
    /\ user' = [user EXCEPT ![t] = Idle]
    /\ readers' = [readers EXCEPT ![user[t].s] = @ \ {t}]
    /\ UNCHANGED <<table, admission, made, session, spc, freed, history>>

-----------------------------------------------------------------------------
(* switch_core_session_thread_launch, first without the session's mutex    *)
(* and then again under it.                                                *)

Launch(t) ==
    /\ Owns(t) /\ Live(t)
    /\ user' = [user EXCEPT ![t] =
                  IF ~started[user[t].s] THEN [@ EXCEPT !.pc = "launch"]
                  ELSE IF t \in readers[user[t].s] THEN [@ EXCEPT !.op = Op(t)]
                  ELSE AfterFailure(t)]
    /\ UNCHANGED <<table, admission, made, session, spc, readers, freed, history>>

\* Mutant: the owner goes on using the session it has launched.
LaunchedKept(t, success) ==
    IF t \in readers[user[t].s]
    THEN [user[t] EXCEPT !.pc = "hold", !.op = Op(t)]
    ELSE IF success THEN [user[t] EXCEPT !.pc = "own"] ELSE AfterFailure(t)

\* Where the launch leaves its caller: a holder goes on holding the session.
Launched(t, success) ==
    IF t \in readers[user[t].s]
    THEN [user[t] EXCEPT !.pc = "hold", !.op = Op(t)]
    ELSE IF success THEN Idle ELSE AfterFailure(t)

LaunchInUse(t) ==
    /\ user[t].pc = "launch" /\ Live(t)
    /\ started[user[t].s]
    /\ user' = [user EXCEPT ![t] = Launched(t, FALSE)]
    /\ UNCHANGED <<table, admission, made, session, spc, readers, freed, history>>

\* Mutant: the flags are not tested again under the mutex.
LaunchThreadBlindly(t) ==
    /\ user[t].pc = "launch" /\ Live(t)
    /\ started' = [started EXCEPT ![user[t].s] = TRUE]
    /\ threads' = [threads EXCEPT ![user[t].s] = @ + 1]
    /\ spc' = [spc EXCEPT ![user[t].s] = "run"]
    /\ user' = [user EXCEPT ![t] = Launched(t, TRUE)]
    /\ UNCHANGED <<table, admission, made, uuid, down, readers, freed, history>>

LaunchThread(t) ==
    /\ user[t].pc = "launch" /\ Live(t)
    /\ ~started[user[t].s]
    /\ started' = [started EXCEPT ![user[t].s] = TRUE]
    /\ threads' = [threads EXCEPT ![user[t].s] = @ + 1]
    /\ spc' = [spc EXCEPT ![user[t].s] = "run"]
    /\ user' = [user EXCEPT ![t] = Launched(t, TRUE)]
    /\ UNCHANGED <<table, admission, made, uuid, down, readers, freed, history>>

\* thread_launch_failure sets a limit below the present count.
LaunchFails(t) ==
    /\ CreateFails
    /\ user[t].pc = "launch" /\ Live(t)
    /\ ~started[user[t].s]
    /\ limit' = IF count > FailFloor THEN count - FailCut ELSE limit
    /\ user' = [user EXCEPT ![t] = Launched(t, FALSE)]
    /\ UNCHANGED <<table, count, sps, admitted, made, session, spc, readers, freed, history>>

-----------------------------------------------------------------------------
(* Finding and holding sessions.                                           *)

\* switch_core_session_read_lock: the check, before the try at the lock.  The
\* forced lookup takes sessions whose channel is down, too.
MayLock(s, op) == ~Destroyed(s) /\ (op = "force" \/ ~down[s])

\* Mutant: hupall stops after the first session.
BackEarly(t) ==
    IF user[t].op = "hupall" THEN [user[t] EXCEPT !.pc = "hup", !.s = 0, !.todo = {}] ELSE Idle

\* Where a thread goes on after it has failed to lock, or has unlocked.
Back(t) == IF user[t].op = "hupall" THEN [user[t] EXCEPT !.pc = "hup", !.s = 0] ELSE Idle

\* switch_core_session_locate, force_locate, message_send and event_send.  A
\* lookup that finds nothing, or whose check fails, changes nothing.
Locate(t, k, op) ==
    /\ user[t].pc = "idle"
    /\ HashMutexFree
    /\ table[k] # <<>> /\ MayLock(Head(table[k]), op)
    /\ user' = [user EXCEPT ![t] = [@ EXCEPT !.pc = "found", !.op = op, !.s = Head(table[k])]]
    /\ UNCHANGED <<table, admission, made, session, spc, readers, freed, history>>

\* The owner locks its session by pointer, without session_hash_mutex.
OwnerLock(t) ==
    /\ user[t].pc = "own" /\ Live(t)
    /\ user' = [user EXCEPT ![t] =
                  IF MayLock(user[t].s, "locate") THEN [@ EXCEPT !.pc = "found"]
                  ELSE AfterFailure(t)]
    /\ UNCHANGED <<table, admission, made, session, spc, readers, freed, history>>

\* switch_thread_rwlock_tryrdlock fails only while the writer is in; the check
\* before it is not repeated.
TryLock(t) ==
    /\ user[t].pc = "found"
    /\ IF spc[user[t].s] # "locked"
       THEN /\ readers' = [readers EXCEPT ![user[t].s] = @ \cup {t}]
            /\ user' = [user EXCEPT ![t] = [@ EXCEPT !.pc = IF user[t].op = "send" THEN "deliver" ELSE "hold"]]
            /\ late' = IF Destroyed(user[t].s) THEN late \cup {user[t].s} ELSE late
       ELSE /\ user' = [user EXCEPT ![t] = IF user[t].op = "own" THEN AfterFailure(t) ELSE Back(t)]
            /\ UNCHANGED <<readers, late>>
    /\ UNCHANGED <<table, admission, made, session, spc, freed, givenup, preempted, renamed, raced>>

Unlocked(t) == [readers EXCEPT ![user[t].s] = @ \ {t}]

\* The endpoint's receive_message has returned.
Deliver(t) ==
    /\ user[t].pc = "deliver" /\ Live(t)
    /\ readers' = Unlocked(t)
    /\ user' = [user EXCEPT ![t] = Idle]
    /\ UNCHANGED <<table, admission, made, session, spc, freed, history>>

\* switch_channel_hangup by a holder; it launches a session without a thread.
Hangup(t) ==
    /\ user[t].pc = "hold" /\ Live(t)
    /\ ~down[user[t].s]
    /\ down' = [down EXCEPT ![user[t].s] = TRUE]
    /\ user' = [user EXCEPT ![t] = [@ EXCEPT !.pc = IF started[user[t].s] THEN "hold" ELSE "launch",
                                         !.op = Op(t)]]
    /\ preempted' = IF started[user[t].s] THEN preempted ELSE preempted \cup {user[t].s}
    /\ UNCHANGED <<table, admission, made, uuid, started, threads, spc, readers, freed,
                   late, givenup, renamed, raced>>

\* Mutant: a lock that is not given back.
UnlockForgotten(t) ==
    /\ user[t].pc = "hold" /\ Live(t)
    /\ user[t].op # "own"
    /\ user[t].op = "hupall" => down[user[t].s]
    /\ user' = [user EXCEPT ![t] = Back(t)]
    /\ UNCHANGED <<table, admission, made, session, spc, readers, freed, history>>

\* switch_core_session_rwunlock.
Unlock(t) ==
    /\ user[t].pc = "hold" /\ Live(t)
    /\ user[t].op # "own"
    /\ user[t].op = "hupall" => down[user[t].s]
    /\ readers' = Unlocked(t)
    /\ user' = [user EXCEPT ![t] = Back(t)]
    /\ UNCHANGED <<table, admission, made, session, spc, freed, history>>

-----------------------------------------------------------------------------
(* switch_core_session_hupall and switch_core_session_hupall_endpoint      *)

\* The uuids of all sessions, or of those of one endpoint, are collected.
HupAll(t, found) ==
    /\ user[t].pc = "idle"
    /\ HashMutexFree
    /\ \A s \in found : MayLock(s, "hupall") /\ spc[s] # "locked"
    /\ user' = [user EXCEPT ![t] = [Idle EXCEPT !.pc = "hup", !.op = "hupall", !.seen = found,
                                                !.todo = {uuid[s] : s \in found}]]
    /\ UNCHANGED <<table, admission, made, session, spc, readers, freed, history>>

HupNext(t, k) ==
    /\ user[t].pc = "hup" /\ k \in user[t].todo
    /\ HashMutexFree
    /\ IF table[k] # <<>> /\ MayLock(Head(table[k]), "hupall")
       THEN user' = [user EXCEPT ![t] = [@ EXCEPT !.pc = "found", !.s = Head(table[k]),
                                                  !.todo = user[t].todo \ {k}]]
       ELSE user' = [user EXCEPT ![t] = [@ EXCEPT !.todo = user[t].todo \ {k}]]
    /\ UNCHANGED <<table, admission, made, session, spc, readers, freed, history>>

HupDone(t) ==
    /\ user[t].pc = "hup" /\ user[t].todo = {}
    /\ user' = [user EXCEPT ![t] = Idle]
    /\ UNCHANGED <<table, admission, made, session, spc, readers, freed, history>>

-----------------------------------------------------------------------------
(* switch_core_session_thread, of session s.                               *)

\* The session hangs itself up.
RunHangup(s) ==
    /\ spc[s] = "run" /\ ~down[s]
    /\ down' = [down EXCEPT ![s] = TRUE]
    /\ UNCHANGED <<table, admission, made, uuid, started, threads, spc, readers, freed, user, history>>

\* switch_core_session_run returns.
RunEnds(s) ==
    /\ spc[s] = "run" /\ down[s]
    /\ spc' = [spc EXCEPT ![s] = "ended"]
    /\ UNCHANGED <<table, admission, made, session, readers, freed, user, history>>

\* Mutant: the session's thread does not wait for readers.
WriteLockAnyway(s) ==
    /\ spc[s] = "ended"
    /\ spc' = [spc EXCEPT ![s] = "locked"]
    /\ UNCHANGED <<table, admission, made, session, readers, freed, user, history>>

WriteLock(s) ==
    /\ spc[s] = "ended"
    /\ readers[s] = {}
    /\ spc' = [spc EXCEPT ![s] = "locked"]
    /\ UNCHANGED <<table, admission, made, session, readers, freed, user, history>>

\* SSF_DESTROYED is set and the write lock given back.
MarkDestroyed(s) ==
    /\ spc[s] = "locked"
    /\ spc' = [spc EXCEPT ![s] = "gone"]
    /\ UNCHANGED <<table, admission, made, session, readers, freed, user, history>>

DestroyUnlist(s) ==
    /\ spc[s] = "gone"
    /\ Unlist(s)
    /\ spc' = [spc EXCEPT ![s] = "unlisted"]
    /\ UNCHANGED <<limit, sps, admitted, made, session, readers, freed, user, givenup>>

DestroyFree(s) ==
    /\ spc[s] = "unlisted"
    /\ spc' = [spc EXCEPT ![s] = "done"]
    /\ freed' = freed \cup {s}
    /\ UNCHANGED <<table, admission, made, session, readers, user, history>>

-----------------------------------------------------------------------------
ThreadStep(t) ==
    \/ \E use \in RequestNames \cup {0}, unlimited \in NoLimits : Request(t, use, unlimited)
    \/ Admit(t) \/ Insert(t)
    \/ \E use \in Names : Rename(t, use)
    \/ OwnerFail(t) \/ OwnerUnlist(t) \/ OwnerFree(t) \/ Lost(t)
    \/ Launch(t) \/ LaunchInUse(t) \/ LaunchThread(t) \/ LaunchFails(t)
    \/ \E k \in Keys, op \in Ops \ {"hupall"} : Locate(t, k, op)
    \/ OwnerLock(t) \/ TryLock(t) \/ Deliver(t) \/ Hangup(t) \/ Unlock(t)
    \/ "hupall" \in Ops /\ \E found \in SUBSET Listed : HupAll(t, found)
    \/ \E k \in Keys : HupNext(t, k)
    \/ HupDone(t)

SessionStep(s) ==
    \/ RunHangup(s) \/ RunEnds(s)
    \/ WriteLock(s) \/ MarkDestroyed(s) \/ DestroyUnlist(s) \/ DestroyFree(s)

Next ==
    \/ \E t \in Threads : ThreadStep(t)
    \/ Refill
    \/ \E s \in Sessions : SessionStep(s)

Spec == Init /\ [][Next]_vars

\* Threads finish what they have begun and release what they hold; they need
\* not begin anything.  Mutexes are handed to whoever keeps waiting for them.
Fairness ==
    /\ \A t \in Threads :
        /\ WF_vars(TryLock(t)) /\ WF_vars(Deliver(t)) /\ WF_vars(Unlock(t))
        /\ WF_vars(user[t].op = "hupall" /\ Hangup(t))
        /\ WF_vars(Launch(t)) /\ WF_vars(LaunchInUse(t) \/ LaunchThread(t) \/ LaunchFails(t))
        /\ WF_vars(Lost(t))
    /\ \A s \in Sessions :
        /\ WF_vars(RunEnds(s)) /\ SF_vars(WriteLock(s)) /\ WF_vars(MarkDestroyed(s))
        /\ SF_vars(DestroyUnlist(s)) /\ WF_vars(DestroyFree(s))

FairSpec == Spec /\ Fairness

-----------------------------------------------------------------------------
UserPC == {"idle", "admit", "insert", "own", "destroy", "free", "launch", "found", "hold",
           "deliver", "hup"}
User == [pc : UserPC, op : AllOps \cup {"own", "none"}, use : RequestNames \cup {0},
         s : Sessions \cup {0}, todo : SUBSET Keys, seen : SUBSET Sessions]

\* Every variable has its type; a limit is never set to zero or below, which
\* would refuse every call, and sps_total requests at most pass in a second.
TypeOK ==
    /\ table \in [Keys -> Seq(Sessions)]
    /\ count \in Nat /\ limit \in Nat \ {0}
    /\ sps \in 0 .. SpsTotal /\ admitted \in 0 .. SpsTotal
    /\ made \in 0 .. MaxSessions
    /\ uuid \in [Sessions -> Keys]
    /\ down \in [Sessions -> BOOLEAN] /\ started \in [Sessions -> BOOLEAN]
    /\ threads \in [Sessions -> Nat]
    /\ spc \in [Sessions -> {"none", "run", "ended", "locked", "gone", "unlisted", "done"}]
    /\ readers \in [Sessions -> SUBSET Threads]
    /\ freed \subseteq Sessions
    /\ user \in [Threads -> User]
    /\ late \subseteq Sessions /\ givenup \subseteq Sessions /\ preempted \subseteq Sessions
    /\ renamed \subseteq Sessions /\ raced \subseteq Keys

\* A session that a thread holds with a read lock is not freed, unless the lock
\* was taken after the session was marked destroyed (the check before the try at
\* the lock is stale by then) or its owner destroys it without waiting for anyone.
\* And the session whose lock a thread is about to try is not freed under it, late
\* or not: session_hash_mutex is held from the lookup to the try.
HeldIsLive ==
    /\ \A s \in Sessions : readers[s] # {} /\ s \in freed => s \in late \cup givenup
    /\ \A t \in Threads :
        user[t].pc = "found" /\ user[t].op # "own" => user[t].s \notin freed \ givenup

\* The thread that requested a session can use it, without a lock, until it
\* has launched it, though it is listed and others find it, lock it and send it
\* messages: it has no thread yet, so that its owner destroys no running session,
\* and is not freed; unless a thread that held it hung it up meanwhile.
OwnerIsLive ==
    \A t \in Threads :
        user[t].pc \in {"own", "destroy", "free"} \/ (user[t].pc = "launch" /\ user[t].op = "own")
            => user[t].s \in preempted \/ (Live(t) /\ spc[user[t].s] = "none")

\* The table finds every session that is not yet destroyed under its present
\* uuid, and nothing else: requests, renames and destructions by any thread
\* leave no dangling, lost or hidden entry.  session_count, which admission and
\* the shutdown loop read, is the number of these sessions.  Excepted are uuids that
\* two sessions were given at once, and those of a session that was renamed or
\* removed after it had been removed; they may make the count too small, never
\* too large, and leave the entries of all other uuids right.
TableIsExact ==
    /\ count <= Cardinality(Members)
    /\ raced = {} => count = Cardinality(Members)
    /\ \A s \in Members : uuid[s] \notin raced => table[uuid[s]] = <<s>>
    /\ \A k \in Keys \ raced : table[k] # <<>> => /\ Head(table[k]) \in Members
                                                 /\ uuid[Head(table[k])] = k

\* However the owner's launch races with the launch by a thread that hangs the
\* session up, the session gets one thread.
LaunchedOnce == \A s \in Sessions : threads[s] <= 1

\* When hupall has gone through the uuids it collected, every session that was
\* up when it collected them is hung up or no longer in the table, though they are
\* looked up again one by one; unless the session was renamed meanwhile or has to
\* share its uuid.
HupAllComplete ==
    \A t \in Threads :
        user[t].pc = "hup" /\ user[t].todo = {} =>
            \A s \in user[t].seen :
                down[s] \/ s \notin Members \/ s \in renamed \/ uuid[s] \in raced

\* A launched session whose channel is down is freed in the end.
EndsFreed == \A s \in Sessions : (started[s] /\ down[s]) ~> s \in freed

(* What comments, messages and documents say and the code does not keep.   *)

\* perform_destroy: "Cowardly ignoring an attempt to call destroy on a running
\* session."
RunningIsNotDestroyed == [][\A t \in Threads : OwnerUnlist(t) => spc[user[t].s] # "run"]_vars

\* switch.conf.xml on max-sessions: "Max number of sessions to allow at any
\* given time."
WithinLimit == count <= limit

\* thread_launch_failure: it "reduces the max sessions".
LimitIsReduced == [][limit' <= limit]_vars

\* A request is refused for its rate ("Over Session Rate of %d!") only when as
\* many sessions as the rate allows were let through in this second.
RefusedOverRate ==
    [][\A t \in Threads :
         user[t].pc = "admit" /\ user'[t].pc = "idle" /\ count < limit => admitted >= SpsTotal]_vars
=============================================================================
