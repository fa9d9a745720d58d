------------------------- MODULE SessionTableProofs -------------------------
(***************************************************************************)
(* Proofs about the session table: its types, that a session gets one      *)
(* thread, that no session is freed while it is held or while its owner    *)
(* uses it, that the table and session_count are exact and that a hupall   *)
(* reaches every session, each but for the races that history records, for *)
(* any number of threads and sessions, any limits, uuids and failures.     *)
(***************************************************************************)
EXTENDS SessionTable, FiniteSetTheorems, TLAPS

-----------------------------------------------------------------------------
(* Types *)

\* A thread that is busy with a session has one.
Busy == UserPC \ {"idle", "admit", "insert", "hup"}
GoodUser == {u \in User : u.pc \in Busy => u.s \in Sessions}

\* What was let through in a second and what is left of it is at most the rate.
TInv ==
    /\ TypeOK
    /\ user \in [Threads -> GoodUser]
    /\ admitted + sps <= SpsTotal

LEMMA IdleTyped == Idle \in GoodUser
BY DEF Idle, GoodUser, User, UserPC, Busy

LEMMA Moved ==
    ASSUME user \in [Threads -> GoodUser], NEW t \in Threads, NEW u \in GoodUser
    PROVE  [user EXCEPT ![t] = u] \in [Threads -> GoodUser]
OBVIOUS

\* A step that changes nothing but the place of one thread.
LEMMA PlaceTyped ==
    ASSUME TInv, NEW t \in Threads, NEW u \in GoodUser,
           user' = [user EXCEPT ![t] = u],
           UNCHANGED <<table, admission, made, session, spc, readers, freed, history>>
    PROVE  TInv'
<1>1. user' \in [Threads -> GoodUser] BY Moved DEF TInv
<1>2. user' \in [Threads -> User] BY <1>1 DEF GoodUser
<1> QED BY <1>1, <1>2 DEF TInv, TypeOK, admission, session, history

LEMMA AfterFailureTyped ==
    ASSUME TInv, NEW t \in Threads, user[t].s \in Sessions
    PROVE  AfterFailure(t) \in GoodUser
BY IdleTyped DEF TInv, AfterFailure, GoodUser, User, UserPC, Busy

LEMMA OpTyped ==
    ASSUME TInv, NEW t \in Threads
    PROVE  Op(t) \in AllOps \cup {"own", "none"}
BY DEF TInv, GoodUser, User, Op, AllOps

LEMMA LaunchedTyped ==
    ASSUME TInv, NEW t \in Threads, user[t].s \in Sessions, NEW b \in BOOLEAN
    PROVE  Launched(t, b) \in GoodUser
<1>1. [user[t] EXCEPT !.pc = "hold", !.op = Op(t)] \in GoodUser
  BY OpTyped, ZenonT(40) DEF TInv, GoodUser, User, UserPC, Busy
<1> QED BY <1>1, IdleTyped, AfterFailureTyped DEF Launched

LEMMA BackTyped ==
    ASSUME TInv, NEW t \in Threads
    PROVE  Back(t) \in GoodUser
BY IdleTyped DEF TInv, Back, GoodUser, User, UserPC, Busy

(* Requests. *)
LEMMA RequestTyped ==
    ASSUME TInv, NEW t \in Threads,
           \/ \E use \in RequestNames \cup {0}, unlimited \in NoLimits : Request(t, use, unlimited)
           \/ Admit(t) \/ Insert(t)
    PROVE  TInv'
<1> USE NumbersAssumption, NamesAssumption
<1>1. ASSUME NEW use \in RequestNames \cup {0}, NEW b \in NoLimits, Request(t, use, b)
      PROVE  TInv'
  <2>1. [user[t] EXCEPT !.pc = IF b THEN "insert" ELSE "admit", !.use = use] \in GoodUser
    BY ZenonT(40) DEF TInv, GoodUser, User, UserPC, Busy
  <2> QED BY <1>1, <2>1, PlaceTyped DEF Request
<1>2. CASE Admit(t)
  <2>1. [user[t] EXCEPT !.pc = "insert"] \in GoodUser
    BY DEF TInv, GoodUser, User, UserPC, Busy
  <2>2. user' \in [Threads -> GoodUser] BY <1>2, <2>1, IdleTyped, Moved DEF Admit, TInv
  <2>3. user' \in [Threads -> User] BY <2>2 DEF GoodUser
  <2>4. /\ sps' \in 0 .. SpsTotal /\ admitted' \in 0 .. SpsTotal
        /\ admitted' + sps' <= SpsTotal
    BY <1>2, SMTT(40) DEF Admit, LetsThrough, TInv, TypeOK
  <2> QED BY <1>2, <2>2, <2>3, <2>4 DEF Admit, TInv, TypeOK, session, history
<1>3. CASE Insert(t)
  <2> DEFINE s == made + 1
             k == IF user[t].use = 0 THEN s ELSE user[t].use
             u == [Idle EXCEPT !.pc = "own", !.op = "own", !.s = s]
  <2>0. made \in 0 .. MaxSessions /\ made < MaxSessions /\ user[t].use \in RequestNames \cup {0}
    BY <1>3 DEF Insert, TInv, TypeOK, User
  <2>1. s \in Sessions /\ k \in Keys BY <2>0 DEF Sessions, Keys
  <2>2. u \in GoodUser BY <2>1 DEF Idle, GoodUser, User, UserPC, Busy
  <2>3. user' = [user EXCEPT ![t] = u] BY <1>3 DEF Insert
  <2>4. user' \in [Threads -> GoodUser] BY <2>2, <2>3, Moved DEF TInv
  <2>5. user' \in [Threads -> User] BY <2>4 DEF GoodUser
  <2>6. table' = [table EXCEPT ![k] = <<s>> \o @] /\ uuid' = [uuid EXCEPT ![s] = k]
    BY <1>3 DEF Insert
  <2>7. table[k] \in Seq(Sessions) /\ <<s>> \in Seq(Sessions)
    BY <2>1 DEF TInv, TypeOK
  <2>8. <<s>> \o table[k] \in Seq(Sessions) BY <2>7
  <2>9. table' \in [Keys -> Seq(Sessions)] BY <2>6, <2>8 DEF TInv, TypeOK
  <2>10. uuid' \in [Sessions -> Keys] BY <2>1, <2>6 DEF TInv, TypeOK
  <2>11. made' \in 0 .. MaxSessions /\ count' \in Nat BY <1>3 DEF Insert, TInv, TypeOK
  <2>12. raced' \subseteq Keys BY <1>3, <2>1 DEF Insert, TInv, TypeOK
  <2> QED BY <1>3, <2>4, <2>5, <2>9, <2>10, <2>11, <2>12 DEF Insert, TInv, TypeOK
<1> QED BY <1>1, <1>2, <1>3

(* Destruction. *)
LEMMA UnlistTyped ==
    ASSUME TInv, NEW s \in Sessions, Unlist(s)
    PROVE  table' \in [Keys -> Seq(Sessions)] /\ count' \in Nat /\ raced' \subseteq Keys
<1>1. uuid[s] \in Keys /\ table[uuid[s]] \in Seq(Sessions) BY DEF TInv, TypeOK
<1>2. Delete(uuid[s]) \in Seq(Sessions) BY <1>1 DEF Delete
<1> QED BY <1>1, <1>2 DEF Unlist, TInv, TypeOK

(* What owners do to their sessions. *)
LEMMA OwnerTyped ==
    ASSUME TInv, NEW t \in Threads,
           \/ \E use \in Names : Rename(t, use)
           \/ OwnerFail(t) \/ OwnerUnlist(t) \/ OwnerFree(t) \/ Lost(t)
    PROVE  TInv'
<1>1. ASSUME NEW use \in Names, Rename(t, use)
      PROVE  TInv'
  <2>1. user[t].s \in Sessions BY <1>1 DEF Rename, TInv, GoodUser, Busy, UserPC
  <2>2. uuid[user[t].s] \in Keys /\ use \in Keys BY <2>1 DEF TInv, TypeOK, Keys
  <2>3. Delete(uuid[user[t].s]) \in Seq(Sessions) /\ <<user[t].s>> \in Seq(Sessions)
    BY <2>1, <2>2 DEF Delete, TInv, TypeOK
  <2>4. table' \in [Keys -> Seq(Sessions)] BY <1>1, <2>3 DEF Rename, TInv, TypeOK
  <2>5. uuid' \in [Sessions -> Keys] BY <1>1, <2>2 DEF Rename, Renamed, TInv, TypeOK
  <2>6. raced' \subseteq Keys /\ renamed' \subseteq Sessions
    BY <1>1, <2>1, <2>2 DEF Rename, Renamed, TInv, TypeOK
  <2> QED BY <1>1, <2>4, <2>5, <2>6 DEF Rename, Renamed, TInv, TypeOK, admission
<1>2. CASE OwnerFail(t)
  <2>1. user[t].s \in Sessions BY <1>2 DEF OwnerFail, Owns, TInv, GoodUser, Busy, UserPC
  <2> QED BY <1>2, <2>1, AfterFailureTyped, PlaceTyped DEF OwnerFail
<1>3. CASE OwnerUnlist(t)
  <2>1. user[t].s \in Sessions BY <1>3 DEF OwnerUnlist, TInv, GoodUser, Busy, UserPC
  <2>2. table' \in [Keys -> Seq(Sessions)] /\ count' \in Nat /\ raced' \subseteq Keys
    BY <1>3, <2>1, UnlistTyped DEF OwnerUnlist
  <2>3. [user[t] EXCEPT !.pc = "free"] \in GoodUser
    BY <2>1 DEF TInv, GoodUser, User, UserPC, Busy
  <2>4. user' \in [Threads -> GoodUser] BY <1>3, <2>3, Moved DEF OwnerUnlist, TInv
  <2>5. user' \in [Threads -> User] BY <2>4 DEF GoodUser
  <2>6. givenup' \subseteq Sessions BY <1>3, <2>1 DEF OwnerUnlist, TInv, TypeOK
  <2> QED BY <1>3, <2>2, <2>4, <2>5, <2>6 DEF OwnerUnlist, Unlist, TInv, TypeOK, session
<1>4. CASE OwnerFree(t)
  <2>1. user[t].s \in Sessions BY <1>4 DEF OwnerFree, TInv, GoodUser, Busy, UserPC
  <2>2. user' \in [Threads -> GoodUser] BY <1>4, IdleTyped, Moved DEF OwnerFree, TInv
  <2>3. user' \in [Threads -> User] BY <2>2 DEF GoodUser
  <2>4. readers' \in [Sessions -> SUBSET Threads] BY <1>4, <2>1 DEF OwnerFree, TInv, TypeOK
  <2>5. freed' \subseteq Sessions BY <1>4, <2>1 DEF OwnerFree, TInv, TypeOK
  <2> QED BY <1>4, <2>2, <2>3, <2>4, <2>5 DEF OwnerFree, TInv, TypeOK, admission, session, history
<1>5. CASE Lost(t)
  <2>1. user[t].s \in Sessions BY <1>5 DEF Lost, TInv, GoodUser, User
  <2>2. user' \in [Threads -> GoodUser] BY <1>5, IdleTyped, Moved DEF Lost, TInv
  <2>3. user' \in [Threads -> User] BY <2>2 DEF GoodUser
  <2>4. readers' \in [Sessions -> SUBSET Threads] BY <1>5, <2>1 DEF Lost, TInv, TypeOK
  <2> QED BY <1>5, <2>2, <2>3, <2>4 DEF Lost, TInv, TypeOK, admission, session, history
<1> QED BY <1>1, <1>2, <1>3, <1>4, <1>5

(* Launches. *)
LEMMA LaunchTyped ==
    ASSUME TInv, NEW t \in Threads,
           Launch(t) \/ LaunchInUse(t) \/ LaunchThread(t) \/ LaunchFails(t)
    PROVE  TInv'
<1> USE NumbersAssumption
<1>1. user[t].s \in Sessions
  BY DEF Launch, Owns, LaunchInUse, LaunchThread, LaunchFails, TInv, GoodUser, Busy, UserPC
<1>2. CASE Launch(t)
  <2>1. [user[t] EXCEPT !.pc = "launch"] \in GoodUser
    BY <1>1 DEF TInv, GoodUser, User, UserPC, Busy
  <2>2. [user[t] EXCEPT !.op = Op(t)] \in GoodUser
    BY <1>1, OpTyped DEF TInv, GoodUser, User, UserPC, Busy
  <2> DEFINE u == IF ~started[user[t].s] THEN [user[t] EXCEPT !.pc = "launch"]
                  ELSE IF t \in readers[user[t].s] THEN [user[t] EXCEPT !.op = Op(t)]
                  ELSE AfterFailure(t)
  <2>3. u \in GoodUser BY <1>1, <2>1, <2>2, AfterFailureTyped
  <2>4. user' = [user EXCEPT ![t] = u] BY <1>2 DEF Launch
  <2> HIDE DEF u
  <2> QED BY <1>2, <2>3, <2>4, PlaceTyped DEF Launch
<1>3. CASE LaunchInUse(t)
  BY <1>1, <1>3, LaunchedTyped, PlaceTyped DEF LaunchInUse
<1>4. CASE LaunchThread(t)
  <2>1. user' \in [Threads -> GoodUser] BY <1>1, <1>4, LaunchedTyped, Moved DEF LaunchThread, TInv
  <2>2. user' \in [Threads -> User] BY <2>1 DEF GoodUser
  <2>3. started' \in [Sessions -> BOOLEAN] BY <1>4 DEF LaunchThread, TInv, TypeOK
  <2>4. threads[user[t].s] + 1 \in Nat BY <1>1 DEF TInv, TypeOK
  <2>5. threads' \in [Sessions -> Nat] BY <1>4, <2>4 DEF LaunchThread, TInv, TypeOK
  <2>6. spc' \in [Sessions -> {"none", "run", "ended", "locked", "gone", "unlisted", "done"}]
    BY <1>4 DEF LaunchThread, TInv, TypeOK
  <2> QED BY <1>4, <2>1, <2>2, <2>3, <2>5, <2>6 DEF LaunchThread, TInv, TypeOK, admission, history
<1>5. CASE LaunchFails(t)
  <2>1. user' \in [Threads -> GoodUser] BY <1>1, <1>5, LaunchedTyped, Moved DEF LaunchFails, TInv
  <2>2. user' \in [Threads -> User] BY <2>1 DEF GoodUser
  <2>3. limit' \in Nat \ {0} BY <1>5 DEF LaunchFails, TInv, TypeOK
  <2> QED BY <1>5, <2>1, <2>2, <2>3 DEF LaunchFails, TInv, TypeOK, session, history
<1> QED BY <1>2, <1>3, <1>4, <1>5

LEMMA HeadTyped ==
    ASSUME TInv, NEW k \in Keys, table[k] # <<>>
    PROVE  Head(table[k]) \in Sessions
<1>1. table[k] \in Seq(Sessions) BY DEF TInv, TypeOK
<1> QED BY <1>1

(* Lookups and locks. *)
LEMMA LockTyped ==
    ASSUME TInv, NEW t \in Threads,
           \/ \E k \in Keys, op \in Ops \ {"hupall"} : Locate(t, k, op)
           \/ OwnerLock(t) \/ TryLock(t) \/ Deliver(t) \/ Hangup(t) \/ Unlock(t)
    PROVE  TInv'
<1>1. ASSUME NEW k \in Keys, NEW op \in Ops \ {"hupall"}, Locate(t, k, op)
      PROVE  TInv'
  <2>1. [user[t] EXCEPT !.pc = "found", !.op = op, !.s = Head(table[k])] \in GoodUser
    BY <1>1, HeadTyped, FlagsAssumption, ZenonT(40) DEF Locate, TInv, GoodUser, User, UserPC, Busy
  <2> QED BY <1>1, <2>1, PlaceTyped DEF Locate
<1>2. CASE OwnerLock(t)
  <2>1. user[t].s \in Sessions BY <1>2 DEF OwnerLock, TInv, GoodUser, Busy, UserPC
  <2>2. [user[t] EXCEPT !.pc = "found"] \in GoodUser
    BY <2>1 DEF TInv, GoodUser, User, UserPC, Busy
  <2> DEFINE u == IF MayLock(user[t].s, "locate") THEN [user[t] EXCEPT !.pc = "found"]
                  ELSE AfterFailure(t)
  <2>3. u \in GoodUser BY <2>1, <2>2, AfterFailureTyped
  <2>4. user' = [user EXCEPT ![t] = u] BY <1>2 DEF OwnerLock
  <2> HIDE DEF u
  <2> QED BY <1>2, <2>3, <2>4, PlaceTyped DEF OwnerLock
<1>3. CASE TryLock(t)
  <2>1. user[t].s \in Sessions BY <1>3 DEF TryLock, TInv, GoodUser, Busy, UserPC
  <2>2. [user[t] EXCEPT !.pc = IF user[t].op = "send" THEN "deliver" ELSE "hold"] \in GoodUser
    BY <2>1 DEF TInv, GoodUser, User, UserPC, Busy
  <2>3. (IF user[t].op = "own" THEN AfterFailure(t) ELSE Back(t)) \in GoodUser
    BY <2>1, AfterFailureTyped, BackTyped
  <2>4. user' \in [Threads -> GoodUser] BY <1>3, <2>2, <2>3, Moved DEF TryLock, TInv
  <2>5. user' \in [Threads -> User] BY <2>4 DEF GoodUser
  <2>6. readers \in [Sessions -> SUBSET Threads] /\ readers[user[t].s] \cup {t} \in SUBSET Threads
    BY <2>1 DEF TInv, TypeOK
  <2>7. \/ readers' = [readers EXCEPT ![user[t].s] = readers[user[t].s] \cup {t}]
        \/ readers' = readers
    BY <1>3 DEF TryLock
  <2>8. readers' \in [Sessions -> SUBSET Threads] BY <2>6, <2>7
  <2>9. late' \subseteq Sessions BY <1>3, <2>1 DEF TryLock, TInv, TypeOK
  <2> QED BY <1>3, <2>4, <2>5, <2>8, <2>9 DEF TryLock, TInv, TypeOK, admission, session
<1>4. CASE Deliver(t)
  <2>1. user[t].s \in Sessions BY <1>4 DEF Deliver, TInv, GoodUser, Busy, UserPC
  <2>2. user' \in [Threads -> GoodUser] BY <1>4, IdleTyped, Moved DEF Deliver, TInv
  <2>3. user' \in [Threads -> User] BY <2>2 DEF GoodUser
  <2>4. readers' \in [Sessions -> SUBSET Threads] BY <1>4, <2>1 DEF Deliver, Unlocked, TInv, TypeOK
  <2> QED BY <1>4, <2>2, <2>3, <2>4 DEF Deliver, TInv, TypeOK, admission, session, history
<1>5. CASE Hangup(t)
  <2>1. user[t].s \in Sessions BY <1>5 DEF Hangup, TInv, GoodUser, Busy, UserPC
  <2>2. [user[t] EXCEPT !.pc = IF started[user[t].s] THEN "hold" ELSE "launch",
                        !.op = Op(t)] \in GoodUser
    BY <2>1, OpTyped, ZenonT(40) DEF TInv, GoodUser, User, UserPC, Busy
  <2>3. user' \in [Threads -> GoodUser] BY <1>5, <2>2, Moved DEF Hangup, TInv
  <2>4. user' \in [Threads -> User] BY <2>3 DEF GoodUser
  <2>5. down' \in [Sessions -> BOOLEAN] BY <1>5 DEF Hangup, TInv, TypeOK
  <2>6. preempted' \subseteq Sessions BY <1>5, <2>1 DEF Hangup, TInv, TypeOK
  <2> QED BY <1>5, <2>3, <2>4, <2>5, <2>6 DEF Hangup, TInv, TypeOK, admission
<1>6. CASE Unlock(t)
  <2>1. user[t].s \in Sessions BY <1>6 DEF Unlock, TInv, GoodUser, Busy, UserPC
  <2>2. user' \in [Threads -> GoodUser] BY <1>6, BackTyped, Moved DEF Unlock, TInv
  <2>3. user' \in [Threads -> User] BY <2>2 DEF GoodUser
  <2>4. readers' \in [Sessions -> SUBSET Threads] BY <1>6, <2>1 DEF Unlock, Unlocked, TInv, TypeOK
  <2> QED BY <1>6, <2>2, <2>3, <2>4 DEF Unlock, TInv, TypeOK, admission, session, history
<1> QED BY <1>1, <1>2, <1>3, <1>4, <1>5, <1>6

LEMMA ListedTyped ==
    ASSUME TInv
    PROVE  Listed \subseteq Sessions
BY DEF TInv, TypeOK, Listed

(* Hanging all sessions up. *)
LEMMA HupTyped ==
    ASSUME TInv, NEW t \in Threads,
           \/ \E found \in SUBSET Listed : HupAll(t, found)
           \/ \E k \in Keys : HupNext(t, k)
           \/ HupDone(t)
    PROVE  TInv'
<1>1. ASSUME NEW found \in SUBSET Listed, HupAll(t, found)
      PROVE  TInv'
  <2>1. found \in SUBSET Sessions BY ListedTyped
  <2>2. {uuid[s] : s \in found} \in SUBSET Keys BY <2>1 DEF TInv, TypeOK
  <2>3. [Idle EXCEPT !.pc = "hup", !.op = "hupall", !.seen = found,
                     !.todo = {uuid[s] : s \in found}] \in GoodUser
    BY <2>1, <2>2 DEF Idle, GoodUser, User, UserPC, Busy, AllOps
  <2> QED BY <1>1, <2>3, PlaceTyped DEF HupAll
<1>2. ASSUME NEW k \in Keys, HupNext(t, k)
      PROVE  TInv'
  <2>1. ASSUME table[k] # <<>>
        PROVE  [user[t] EXCEPT !.pc = "found", !.s = Head(table[k]),
                               !.todo = user[t].todo \ {k}] \in GoodUser
    BY <2>1, HeadTyped DEF TInv, GoodUser, User, UserPC, Busy
  <2>2. [user[t] EXCEPT !.todo = user[t].todo \ {k}] \in GoodUser
    BY DEF TInv, GoodUser, User
  <2> QED BY <1>2, <2>1, <2>2, PlaceTyped DEF HupNext
<1>3. CASE HupDone(t)
  BY <1>3, IdleTyped, PlaceTyped DEF HupDone
<1> QED BY <1>1, <1>2, <1>3

(* The sessions' threads, and the timer. *)
LEMMA SessionTyped ==
    ASSUME TInv, NEW s \in Sessions, SessionStep(s)
    PROVE  TInv'
<1>1. spc' \in [Sessions -> {"none", "run", "ended", "locked", "gone", "unlisted", "done"}]
  BY DEF SessionStep, RunHangup, RunEnds, WriteLock, MarkDestroyed, DestroyUnlist, DestroyFree,
         TInv, TypeOK
<1>2. CASE RunHangup(s)
  <2>1. down' \in [Sessions -> BOOLEAN] BY <1>2 DEF RunHangup, TInv, TypeOK
  <2> QED BY <1>1, <1>2, <2>1 DEF RunHangup, TInv, TypeOK, admission, history
<1>3. CASE RunEnds(s) \/ WriteLock(s) \/ MarkDestroyed(s)
  BY <1>1, <1>3 DEF RunEnds, WriteLock, MarkDestroyed, TInv, TypeOK, admission, session, history
<1>4. CASE DestroyUnlist(s)
  <2>1. table' \in [Keys -> Seq(Sessions)] /\ count' \in Nat /\ raced' \subseteq Keys
    BY <1>4, UnlistTyped DEF DestroyUnlist
  <2> QED BY <1>1, <1>4, <2>1 DEF DestroyUnlist, Unlist, TInv, TypeOK, session
<1>5. CASE DestroyFree(s)
  <2>1. freed' \subseteq Sessions BY <1>5 DEF DestroyFree, TInv, TypeOK
  <2> QED BY <1>1, <1>5, <2>1 DEF DestroyFree, TInv, TypeOK, admission, session, history
<1> QED BY <1>2, <1>3, <1>4, <1>5 DEF SessionStep

LEMMA RefillTyped ==
    ASSUME TInv, Refill
    PROVE  TInv'
BY NumbersAssumption DEF Refill, TInv, TypeOK, session, history

LEMMA InitTyped ==
    ASSUME Init
    PROVE  TInv
<1> USE NumbersAssumption
<1>1. user \in [Threads -> GoodUser] BY IdleTyped DEF Init
<1>2. user \in [Threads -> User] BY <1>1 DEF GoodUser
<1>3. table \in [Keys -> Seq(Sessions)] BY DEF Init
<1>4. uuid \in [Sessions -> Keys] BY DEF Init, Keys
<1>5. down \in [Sessions -> BOOLEAN] /\ started \in [Sessions -> BOOLEAN] BY DEF Init
<1> QED BY <1>1, <1>2, <1>3, <1>4, <1>5 DEF Init, TInv, TypeOK

LEMMA NextTyped ==
    ASSUME TInv, [Next]_vars
    PROVE  TInv'
<1>1. ASSUME NEW t \in Threads, ThreadStep(t)
      PROVE  TInv'
  BY <1>1, RequestTyped, OwnerTyped, LaunchTyped, LockTyped, HupTyped DEF ThreadStep
<1>2. ASSUME NEW s \in Sessions, SessionStep(s)
      PROVE  TInv'
  BY <1>2, SessionTyped
<1>3. CASE UNCHANGED vars
  BY <1>3 DEF vars, admission, session, history, TInv, TypeOK
<1> QED BY <1>1, <1>2, <1>3, RefillTyped DEF Next

(* Every variable of the session table keeps its type: in particular the    *)
(* limit that thread_launch_failure sets is positive, and at most sps_total *)
(* requests are let through between two refills.                            *)
THEOREM TypeCorrect == Spec => []TypeOK
<1>1. TInv => TypeOK BY DEF TInv
<1> QED BY <1>1, InitTyped, NextTyped, PTL DEF Spec

-----------------------------------------------------------------------------
(* One thread for a session *)

OnceInv == \A s \in Sessions : threads[s] <= 1 /\ (~started[s] => threads[s] = 0)

LEMMA NextOnce ==
    ASSUME TInv, OnceInv, [Next]_vars
    PROVE  OnceInv'
<1>1. ASSUME NEW t \in Threads, LaunchThread(t)
      PROVE  OnceInv'
  <2>1. user[t].s \in Sessions BY <1>1 DEF LaunchThread, TInv, GoodUser, Busy, UserPC
  <2>2. threads[user[t].s] = 0 BY <1>1, <2>1 DEF LaunchThread, OnceInv
  <2>3. threads' = [threads EXCEPT ![user[t].s] = 1] BY <1>1, <2>2 DEF LaunchThread
  <2>4. started' = [started EXCEPT ![user[t].s] = TRUE] BY <1>1 DEF LaunchThread
  <2> QED BY <2>1, <2>3, <2>4 DEF OnceInv, TInv, TypeOK
<1>2. CASE UNCHANGED <<threads, started>>
  BY <1>2 DEF OnceInv
<1>3. ASSUME NEW t \in Threads, ThreadStep(t), ~LaunchThread(t)
      PROVE  UNCHANGED <<threads, started>>
  BY <1>3 DEF ThreadStep, Request, Admit, Insert, Rename, OwnerFail, OwnerUnlist, OwnerFree, Lost,
              Launch, LaunchInUse, LaunchFails, Locate, OwnerLock, TryLock, Deliver, Hangup,
              Unlock, HupAll, HupNext, HupDone, session
<1>4. ASSUME NEW s \in Sessions, SessionStep(s)
      PROVE  UNCHANGED <<threads, started>>
  BY <1>4 DEF SessionStep, RunHangup, RunEnds, WriteLock, MarkDestroyed, DestroyUnlist,
              DestroyFree, session
<1>5. CASE Refill
  BY <1>2, <1>5 DEF Refill, session
<1>6. CASE UNCHANGED vars
  BY <1>2, <1>6 DEF vars, session
<1> QED BY <1>1, <1>2, <1>3, <1>4, <1>5, <1>6 DEF Next

(* A session gets one thread, whoever launches it: the unlocked test of     *)
(* switch_core_session_thread_launch is repeated under the session's mutex. *)
THEOREM OneThread == Spec => []LaunchedOnce
<1>1. Init => OnceInv BY DEF Init, OnceInv
<1>2. TInv /\ OnceInv /\ [Next]_vars => OnceInv' BY NextOnce
<1>3. OnceInv => LaunchedOnce BY DEF OnceInv, LaunchedOnce
<1>4. Init => TInv BY InitTyped
<1>5. TInv /\ [Next]_vars => TInv' BY NextTyped
<1> QED BY <1>1, <1>2, <1>3, <1>4, <1>5, PTL DEF Spec

-----------------------------------------------------------------------------
(* The inductive invariant *)

Open == {"none", "run", "ended"}        \* before the write lock

\* Is this the place of a thread that has requested a session and not launched it?
Owning(u) ==
    \/ u.pc \in {"own", "destroy", "free"}
    \/ u.op = "own" /\ u.pc \in {"found", "hold", "launch"}

\* What a thread at u has in hand is a session that was made; what it has looked
\* up is not out of the table; what it frees is given up.
Hands(u) ==
    /\ u.pc \in Busy => u.s <= made
    /\ u.seen \subseteq 1 .. made
    /\ u.pc \in {"idle", "admit", "insert"} => u.op = "none"
    /\ u.pc = "hup" => u.op = "hupall"
    /\ u.op = "hupall" => u.pc \in {"hup", "found", "hold", "launch"}
    /\ u.pc = "free" => u.s \in givenup
    /\ u.pc = "found" /\ u.op # "own" => spc[u.s] \notin {"unlisted", "done"}

\* A holder has its read lock; one that launches the session has hung it up.
Held(t, u) ==
    /\ u.pc = "hold" => t \in readers[u.s]
    /\ u.pc = "launch" /\ u.op # "own" => t \in readers[u.s] /\ u.s \in preempted

\* The session of an owner has no thread and is not freed.
Owned(u) == Owning(u) => u.s \in preempted \/ (~started[u.s] /\ u.s \notin freed)

\* A session that hupall has seen is hung up, gone, still to come, or at hand.
Covered(u, s) ==
    \/ down[s] \/ s \notin Members \/ s \in renamed \/ uuid[s] \in raced
    \/ uuid[s] \in u.todo \/ (u.pc # "hup" /\ u.s = s)
Hupped(u) == u.op = "hupall" => \A s \in u.seen : Covered(u, s)

PlaceInv ==
    /\ \A t \in Threads : Hands(user[t]) /\ Held(t, user[t]) /\ Owned(user[t]) /\ Hupped(user[t])
    /\ \A t, v \in Threads : Owning(user[t]) /\ Owning(user[v]) /\ user[t].s = user[v].s => t = v

\* A session that is held has not passed its thread's write lock, unless it was
\* locked late.
LifeInv ==
    /\ \A s \in Sessions : ~started[s] => spc[s] = "none"
    /\ \A s \in Sessions : started[s] => s <= made
    /\ \A s \in freed : s <= made /\ (s \in givenup \/ spc[s] = "done")
    /\ \A s \in Sessions : spc[s] \in {"none", "run"} \/ down[s]
    /\ \A s \in Sessions : readers[s] # {} /\ s \notin late => spc[s] \in Open

\* Every uuid that no race has touched has one entry if a session that is not yet
\* destroyed has it, and none otherwise.
EntryInv ==
    /\ table \in [Keys -> Seq(1 .. made)]
    /\ \A s \in Members : uuid[s] \notin raced => table[uuid[s]] = <<s>>
    /\ \A k \in Keys \ raced : table[k] = <<>> \/ \E s \in Members : table[k] = <<s>> /\ uuid[s] = k
    /\ count <= Cardinality(Members)
    /\ raced = {} => count = Cardinality(Members)

TableInv == TInv /\ PlaceInv /\ LifeInv /\ EntryInv

LEMMA MembersTyped ==
    ASSUME TInv
    PROVE  /\ IsFiniteSet(Members) /\ Members \subseteq Sessions /\ Cardinality(Members) \in Nat
           /\ 1 .. made \subseteq Sessions /\ made \in Nat
<1>1. made \in Nat /\ IsFiniteSet(1 .. made) BY FS_Interval DEF TInv, TypeOK
<1>2. Members \subseteq 1 .. made BY DEF Members
<1>3. 1 .. made \subseteq Sessions BY NumbersAssumption DEF Sessions, TInv, TypeOK
<1> QED BY <1>1, <1>2, <1>3, FS_Subset, FS_CardinalityType

\* The table's entries are sessions that were made.
LEMMA HeadMade ==
    ASSUME TInv, EntryInv, NEW k \in Keys, table[k] # <<>>
    PROVE  Head(table[k]) \in 1 .. made
<1>1. PICK S : S = 1 .. made OBVIOUS
<1>2. table[k] \in Seq(S) BY <1>1 DEF EntryInv
<1>3. Head(table[k]) \in S BY <1>2
<1> QED BY <1>1, <1>3

LEMMA ListedMade ==
    ASSUME EntryInv
    PROVE  Listed \subseteq 1 .. made
<1>1. ASSUME NEW k \in Keys, NEW i \in 1 .. Len(table[k]) PROVE table[k][i] \in 1 .. made
  <2>1. PICK S : S = 1 .. made OBVIOUS
  <2>2. table[k] \in Seq(S) BY <2>1 DEF EntryInv
  <2>3. table[k][i] \in S BY <2>2
  <2> QED BY <2>1, <2>3
<1> QED BY <1>1 DEF Listed

\* A step that moves one thread, and takes no session out of the table.
LEMMA MembersSame ==
    ASSUME TInv, NEW t \in Threads, NEW u, user' = [user EXCEPT ![t] = u], u.pc # "free",
           user[t].pc = "free" => user[t].s \in freed, UNCHANGED <<made, freed>>,
           \A s \in Sessions : spc'[s] \in {"unlisted", "done"} <=> spc[s] \in {"unlisted", "done"}
    PROVE  Members' = Members
<1>1. \A v \in Threads : user'[v] = IF v = t THEN u ELSE user[v] BY DEF TInv
<1>2. 1 .. made \subseteq Sessions BY MembersTyped
<1>3. ASSUME NEW s \in 1 .. made, s \notin freed
      PROVE  (\A v \in Threads : ~(user'[v].pc = "free" /\ user'[v].s = s))
               <=> (\A v \in Threads : ~(user[v].pc = "free" /\ user[v].s = s))
  BY <1>1, <1>3
<1> QED BY <1>2, <1>3 DEF Members

LEMMA EntrySame ==
    ASSUME EntryInv, UNCHANGED <<table, uuid, count, made, raced>>, Members' = Members
    PROVE  EntryInv'
BY DEF EntryInv

\* A step that moves one thread, and at most hangs a session up, locks or unlocks it.
LEMMA MoveKept ==
    ASSUME TableInv, TInv', NEW t \in Threads, NEW u, user' = [user EXCEPT ![t] = u],
           Hands(u), Held(t, u)', Hupped(u),
           u.pc # "free", user[t].pc = "free" => user[t].s \in freed,
           Owning(u) => Owning(user[t]) /\ u.s = user[t].s,
           UNCHANGED <<table, count, made, uuid, started, spc, freed, givenup, renamed, raced>>,
           \A s \in Sessions : down[s] => down'[s],
           preempted \subseteq preempted', late \subseteq late',
           \A s \in Sessions : readers'[s] \ {t} = readers[s] \ {t},
           \A s \in Sessions : readers'[s] # {} /\ s \notin late' => spc[s] \in Open
    PROVE  TableInv'
<1> USE DEF TableInv
<1>1. \A v \in Threads : user'[v] = IF v = t THEN u ELSE user[v] BY DEF TInv
<1>2. Members' = Members BY MembersSame
<1>3. EntryInv' BY <1>2, EntrySame
<1>4. LifeInv' BY DEF LifeInv, TInv, TypeOK
<1>5. ASSUME NEW v \in Threads PROVE (Hands(user[v]) /\ Held(v, user[v]) /\ Owned(user[v]) /\ Hupped(user[v]))'
  <2>1. Hands(user'[v]) BY <1>1 DEF PlaceInv
  <2>2. Hands(user[v])' BY <2>1 DEF Hands
  <2>3. Held(v, user[v])'
    <3>1. CASE v = t BY <1>1, <3>1 DEF Held
    <3>2. CASE v # t
      <4>1. user'[v] = user[v] /\ Held(v, user[v]) BY <1>1, <3>2 DEF PlaceInv
      <4>2. user[v].pc \in {"hold", "launch"} => user[v].s \in Sessions BY DEF TInv, GoodUser, Busy, UserPC
      <4> QED BY <3>2, <4>1, <4>2 DEF Held
    <3> QED BY <3>1, <3>2
  <2>4. Owned(user'[v]) BY <1>1 DEF PlaceInv, Owned
  <2>5. Owned(user[v])' BY <2>4 DEF Owned, Owning
  <2>6. Hupped(user'[v]) BY <1>1 DEF PlaceInv
  <2>7. \A s \in user'[v].seen : s \in Sessions BY DEF TInv, GoodUser, User
  <2>8. Hupped(user[v])' BY <1>2, <2>6, <2>7 DEF Hupped, Covered
  <2> QED BY <2>2, <2>3, <2>5, <2>8
<1>6. \A v, w \in Threads : Owning(user'[v]) /\ Owning(user'[w]) /\ user'[v].s = user'[w].s => v = w
  BY <1>1 DEF PlaceInv
<1>7. PlaceInv' BY <1>5, <1>6 DEF PlaceInv, Owning
<1> QED BY <1>3, <1>4, <1>7

\* The steps that move one thread only.
LEMMA ThreadKept ==
    ASSUME TableInv, TInv', NEW t \in Threads, ThreadStep(t)
    PROVE  \/ TableInv'
           \/ Insert(t) \/ OwnerUnlist(t) \/ OwnerFree(t) \/ LaunchThread(t) \/ \E use \in Names : Rename(t, use)
<1> USE DEF TableInv
<1>a. /\ user[t] \in User /\ (user[t].pc \in Busy => user[t].s \in Sessions) /\ made \in Nat
      /\ Hands(user[t]) /\ Held(t, user[t]) /\ Owned(user[t]) /\ Hupped(user[t])
  BY DEF TInv, TypeOK, GoodUser, PlaceInv
<1>b. Idle.pc = "idle" /\ Idle.op = "none" /\ Hands(Idle) /\ Held(t, Idle)' /\ Hupped(Idle) /\ ~Owning(Idle)
  BY DEF Idle, Hands, Held, Hupped, Owning, Busy, UserPC
<1>c. "idle" \notin Busy /\ "admit" \notin Busy /\ "insert" \notin Busy /\ "hup" \notin Busy
  BY DEF Busy, UserPC
<1>r. readers \in [Sessions -> SUBSET Threads] /\ \A s \in Sessions : readers[s] # {} /\ s \notin late => spc[s] \in Open
  BY DEF LifeInv, TInv, TypeOK
\* The lemma on moves, for the steps that leave channels and locks alone.
<1>d. ASSUME NEW u, Hands(u), Held(t, u), Hupped(u), user' = [user EXCEPT ![t] = u], u.pc # "free",
             user[t].pc # "free", Owning(u) => Owning(user[t]) /\ u.s = user[t].s,
             UNCHANGED <<table, count, made, session, spc, readers, freed, history>>
      PROVE  TableInv'
  <2>1. Held(t, u)' BY <1>d DEF Held, history
  <2> QED BY <1>d, <1>r, <2>1, MoveKept DEF session, history
\* A thread that gives its session back.
<1>e. ASSUME user' = [user EXCEPT ![t] = Idle], user[t].pc = "free" => user[t].s \in freed,
             UNCHANGED <<table, count, made, session, spc, freed, history>>,
             \A s \in Sessions : readers'[s] = readers[s] \/ readers'[s] = readers[s] \ {t}
      PROVE  TableInv'
  <2>1. \A s \in Sessions : readers'[s] \ {t} = readers[s] \ {t} BY <1>e
  <2>2. \A s \in Sessions : readers'[s] # {} /\ s \notin late' => spc[s] \in Open BY <1>e, <1>r DEF history
  <2> QED BY <1>e, <1>b, <2>1, <2>2, MoveKept DEF session, history
\* An owner that gives up.
<1>f. ASSUME Owning(user[t])
      PROVE  /\ Hands(AfterFailure(t)) /\ Held(t, AfterFailure(t)) /\ Hupped(AfterFailure(t)) /\ AfterFailure(t).pc # "free"
             /\ Owning(AfterFailure(t)) => AfterFailure(t).s = user[t].s
  <2>1. user[t].pc \in Busy /\ user[t].op # "hupall" BY <1>a, <1>f DEF Owning, Hands, Busy, UserPC
  <2>2. PICK u : u = [user[t] EXCEPT !.pc = "destroy"] OBVIOUS
  <2>3. u.pc = "destroy" /\ u.s = user[t].s /\ u.op = user[t].op /\ u.seen = user[t].seen BY <1>a, <2>2 DEF User
  <2>4. Hands(u) /\ Held(t, u) /\ Hupped(u) BY <1>a, <2>1, <2>3 DEF Hands, Held, Hupped
  <2>5. AfterFailure(t) = u \/ AfterFailure(t) = Idle BY <2>2 DEF AfterFailure
  <2>6. Held(t, Idle) BY <1>b DEF Held
  <2> QED BY <1>b, <2>3, <2>4, <2>5, <2>6
\* The end of a launch that made no thread.
<1>g. ASSUME user[t].pc = "launch", user' = [user EXCEPT ![t] = Launched(t, FALSE)],
             UNCHANGED <<table, count, made, session, spc, readers, freed, history>>
      PROVE  TableInv'
  <2>1. PICK u : u = [user[t] EXCEPT !.pc = "hold", !.op = Op(t)] OBVIOUS
  <2>2. u.pc = "hold" /\ u.s = user[t].s /\ u.op = Op(t) /\ u.seen = user[t].seen /\ u.todo = user[t].todo
    BY <1>a, <2>1 DEF User
  <2>3. Op(t) # "own" /\ (Op(t) = "hupall" <=> user[t].op = "hupall") BY DEF Op
  <2>4. user[t].pc \in Busy BY <1>g DEF Busy, UserPC
  <2>5. CASE t \in readers[user[t].s]
    <3>1. Hands(u) BY <1>a, <2>2, <2>3, <2>4 DEF Hands
    <3>2. Held(t, u) BY <2>2, <2>5 DEF Held
    <3>3. Hupped(u) BY <1>a, <1>g, <2>2, <2>3 DEF Hupped, Covered
    <3>4. ~Owning(u) BY <2>2, <2>3 DEF Owning
    <3>5. user' = [user EXCEPT ![t] = u] BY <1>g, <2>1, <2>5 DEF Launched
    <3> QED BY <1>d, <1>g, <2>2, <3>1, <3>2, <3>3, <3>4, <3>5
  <2>6. CASE t \notin readers[user[t].s]
    <3>1. Owning(user[t]) BY <1>a, <1>g, <2>6 DEF Held, Owning
    <3>2. user' = [user EXCEPT ![t] = AfterFailure(t)] BY <1>g, <2>6 DEF Launched
    <3> QED BY <1>d, <1>f, <1>g, <3>1, <3>2
  <2> QED BY <2>5, <2>6
<1>1. ASSUME NEW use \in RequestNames \cup {0}, NEW b \in NoLimits, Request(t, use, b)
      PROVE  TableInv'
  <2>1. PICK u : u = [user[t] EXCEPT !.pc = IF b THEN "insert" ELSE "admit", !.use = use] OBVIOUS
  <2>2. u.pc \in {"insert", "admit"} /\ u.op = user[t].op /\ u.seen = user[t].seen BY <1>a, <2>1 DEF User
  <2>3. user[t].pc = "idle" /\ u.op = "none" BY <1>1, <1>a, <2>2 DEF Request, Hands
  <2>4. Hands(u) /\ Held(t, u) /\ Hupped(u) /\ ~Owning(u)
    BY <1>a, <1>c, <2>2, <2>3 DEF Hands, Held, Hupped, Owning
  <2>5. user' = [user EXCEPT ![t] = u] BY <1>1, <2>1 DEF Request
  <2> QED BY <1>1, <1>d, <2>2, <2>3, <2>4, <2>5 DEF Request, admission
<1>2. CASE Admit(t)
  <2>1. PICK u : u = [user[t] EXCEPT !.pc = "insert"] OBVIOUS
  <2>2. u.pc = "insert" /\ u.op = user[t].op /\ u.seen = user[t].seen BY <1>a, <2>1 DEF User
  <2>3. user[t].pc = "admit" /\ u.op = "none" BY <1>2, <1>a, <2>2 DEF Admit, Hands
  <2>4. Hands(u) /\ Held(t, u) /\ Hupped(u) /\ ~Owning(u)
    BY <1>a, <1>c, <2>2, <2>3 DEF Hands, Held, Hupped, Owning
  <2>5. user' = [user EXCEPT ![t] = u] \/ user' = [user EXCEPT ![t] = Idle] BY <1>2, <2>1 DEF Admit
  <2>6. UNCHANGED <<table, count, made, session, spc, readers, freed, history>> BY <1>2 DEF Admit
  <2> QED BY <1>d, <1>e, <2>2, <2>3, <2>4, <2>5, <2>6
<1>3. CASE OwnerFail(t)
  <2>1. Owning(user[t]) /\ user[t].pc # "free" BY <1>3 DEF OwnerFail, Owns, Owning
  <2> QED BY <1>3, <1>d, <1>f, <2>1 DEF OwnerFail, admission
<1>4. CASE Lost(t)
  <2>1. user[t].s \in Sessions BY <1>4, <1>a DEF Lost, User
  <2>2. \A s \in Sessions : readers'[s] = readers[s] \/ readers'[s] = readers[s] \ {t}
    BY <1>4, <1>r, <2>1 DEF Lost
  <2> QED BY <1>4, <1>e, <2>2 DEF Lost, Live, admission
<1>5. CASE Launch(t)
  <2>1. Owning(user[t]) /\ user[t].pc \in {"own", "hold"} /\ user[t].pc \in Busy /\ user[t].op = "own"
    BY <1>5 DEF Launch, Owns, Owning, Busy, UserPC
  <2>2. PICK u : u = [user[t] EXCEPT !.pc = "launch"] OBVIOUS
  <2>3. u.pc = "launch" /\ u.s = user[t].s /\ u.op = user[t].op /\ u.seen = user[t].seen BY <1>a, <2>2 DEF User
  <2>4. Hands(u) /\ Held(t, u) /\ Hupped(u) BY <1>a, <2>1, <2>3 DEF Hands, Held, Hupped
  <2>5. PICK w : w = [user[t] EXCEPT !.op = Op(t)] OBVIOUS
  <2>6. w.pc = user[t].pc /\ w.s = user[t].s /\ w.op = "locate" /\ w.seen = user[t].seen
    BY <1>a, <2>1, <2>5 DEF User, Op
  <2>7. Owning(w) => Owning(user[t]) BY <2>1
  <2>8. Hands(w) /\ Held(t, w) /\ Hupped(w) BY <1>a, <2>1, <2>6 DEF Hands, Held, Hupped
  <2>9. user' \in {[user EXCEPT ![t] = u], [user EXCEPT ![t] = w], [user EXCEPT ![t] = AfterFailure(t)]}
    BY <1>5, <2>2, <2>5 DEF Launch
  <2>10. UNCHANGED <<table, count, made, session, spc, readers, freed, history>> BY <1>5 DEF Launch, admission
  <2>11. CASE user' = [user EXCEPT ![t] = u] BY <1>d, <2>1, <2>3, <2>4, <2>10, <2>11
  <2>12. CASE user' = [user EXCEPT ![t] = w] BY <1>d, <2>1, <2>6, <2>8, <2>10, <2>12
  <2>13. CASE user' = [user EXCEPT ![t] = AfterFailure(t)] BY <1>d, <1>f, <2>1, <2>10, <2>13
  <2> QED BY <2>9, <2>11, <2>12, <2>13
<1>6. CASE LaunchInUse(t)
  BY <1>6, <1>g DEF LaunchInUse, admission
<1>7. CASE LaunchFails(t)
  BY <1>7, <1>g DEF LaunchFails
<1>8. ASSUME NEW k \in Keys, NEW op \in Ops \ {"hupall"}, Locate(t, k, op)
      PROVE  TableInv'
  <2>1. PICK u : u = [user[t] EXCEPT !.pc = "found", !.op = op, !.s = Head(table[k])] OBVIOUS
  <2>2. u.pc = "found" /\ u.s = Head(table[k]) /\ u.op = op /\ u.seen = user[t].seen BY <1>a, <2>1 DEF User
  <2>3. op \notin {"own", "hupall", "none"} BY FlagsAssumption DEF AllOps
  <2>4. u.s \in 1 .. made /\ ~Destroyed(u.s) BY <1>8, <2>2, HeadMade DEF Locate, MayLock
  <2>5. Hands(u) /\ Held(t, u) /\ Hupped(u) /\ ~Owning(u)
    BY <1>a, <2>2, <2>3, <2>4 DEF Hands, Held, Hupped, Owning, Destroyed
  <2>6. user' = [user EXCEPT ![t] = u] /\ user[t].pc = "idle" BY <1>8, <2>1 DEF Locate
  <2> QED BY <1>8, <1>d, <2>2, <2>5, <2>6 DEF Locate, admission
<1>9. CASE OwnerLock(t)
  <2>1. Owning(user[t]) /\ user[t].pc = "own" /\ user[t].op # "hupall" /\ user[t].pc \in Busy
    BY <1>9, <1>a DEF OwnerLock, Owning, Hands, Busy, UserPC
  <2>2. PICK u : u = [user[t] EXCEPT !.pc = "found"] OBVIOUS
  <2>3. u.pc = "found" /\ u.s = user[t].s /\ u.op = user[t].op /\ u.seen = user[t].seen BY <1>a, <2>2 DEF User
  <2>4. \/ user' = [user EXCEPT ![t] = u] /\ ~Destroyed(u.s)
        \/ user' = [user EXCEPT ![t] = AfterFailure(t)]
    BY <1>9, <2>2, <2>3 DEF OwnerLock, MayLock
  <2>5. UNCHANGED <<table, count, made, session, spc, readers, freed, history>> BY <1>9 DEF OwnerLock, admission
  <2>6. CASE user' = [user EXCEPT ![t] = u] /\ ~Destroyed(u.s)
    <3>1. Hands(u) /\ Held(t, u) /\ Hupped(u)
      BY <1>a, <2>1, <2>3, <2>6 DEF Hands, Held, Hupped, Destroyed
    <3> QED BY <1>d, <2>1, <2>3, <2>5, <2>6, <3>1
  <2>7. CASE user' = [user EXCEPT ![t] = AfterFailure(t)] BY <1>d, <1>f, <2>1, <2>5, <2>7
  <2> QED BY <2>4, <2>6, <2>7
\* A hupall that comes back from a session: it has hung up the one at hand.
<1>h. ASSUME user[t].pc \in Busy, user[t].op = "hupall" => down[user[t].s]
      PROVE  /\ Hands(Back(t)) /\ Held(t, Back(t)) /\ Hupped(Back(t)) /\ ~Owning(Back(t))
             /\ Back(t).pc \in {"hup", "idle"}
  <2>1. CASE user[t].op = "hupall"
    <3>1. PICK u : u = [user[t] EXCEPT !.pc = "hup", !.s = 0] OBVIOUS
    <3>2. u.pc = "hup" /\ u.op = "hupall" /\ u.seen = user[t].seen /\ u.todo = user[t].todo
      BY <1>a, <2>1, <3>1 DEF User
    <3>3. Hupped(u) BY <1>a, <1>h, <2>1, <3>2 DEF Hupped, Covered
    <3>4. Hands(u) /\ Held(t, u) /\ ~Owning(u) BY <1>a, <1>c, <3>2 DEF Hands, Held, Owning
    <3>5. Back(t) = u BY <2>1, <3>1 DEF Back
    <3> QED BY <3>2, <3>3, <3>4, <3>5
  <2>2. CASE user[t].op # "hupall"
    <3>1. Held(t, Idle) BY <1>b DEF Held
    <3> QED BY <1>b, <2>2, <3>1 DEF Back
  <2> QED BY <2>1, <2>2
<1>10. CASE TryLock(t)
  <2>0. PICK s : s = user[t].s OBVIOUS
  <2>1. user[t].pc = "found" /\ user[t].pc \in Busy /\ s \in Sessions BY <1>10, <1>a, <2>0 DEF TryLock, Busy, UserPC
  <2>2. UNCHANGED <<table, count, made, session, spc, freed, givenup, preempted, renamed, raced>>
    BY <1>10 DEF TryLock, admission
  <2>3. CASE spc[s] # "locked"
    <3>1. PICK u : u = [user[t] EXCEPT !.pc = IF user[t].op = "send" THEN "deliver" ELSE "hold"] OBVIOUS
    <3>2. /\ u.pc = (IF user[t].op = "send" THEN "deliver" ELSE "hold")
          /\ u.s = s /\ u.op = user[t].op /\ u.seen = user[t].seen /\ u.todo = user[t].todo
      BY <1>a, <2>0, <3>1 DEF User
    <3>3. /\ user' = [user EXCEPT ![t] = u] /\ readers' = [readers EXCEPT ![s] = readers[s] \cup {t}]
          /\ late' = IF Destroyed(s) THEN late \cup {s} ELSE late
      BY <1>10, <2>0, <2>3, <3>1 DEF TryLock
    <3>4. Owning(u) => Owning(user[t]) BY <2>1, <3>2 DEF Owning
    <3>5. Hands(u) BY <1>a, <2>0, <2>1, <3>2 DEF Hands
    <3>6. Held(t, u)' BY <1>r, <2>1, <3>2, <3>3 DEF Held
    <3>7. Hupped(u) BY <1>a, <2>0, <2>1, <3>2 DEF Hupped, Covered
    <3>8. \A r \in Sessions : readers'[r] \ {t} = readers[r] \ {t} BY <1>r, <3>3
    <3>9. s \notin late' => spc[s] \in Open BY <2>1, <2>3, <3>3 DEF Destroyed, Open, TInv, TypeOK
    <3>10. ASSUME NEW r \in Sessions, readers'[r] # {}, r \notin late' PROVE spc[r] \in Open
      <4>1. CASE r = s BY <3>9, <3>10, <4>1
      <4>2. CASE r # s BY <1>r, <3>3, <3>10, <4>2
      <4> QED BY <4>1, <4>2
    <3>11. late \subseteq late' BY <3>3
    <3> QED BY <2>0, <2>1, <2>2, <3>2, <3>3, <3>4, <3>5, <3>6, <3>7, <3>8, <3>10, <3>11, MoveKept DEF session
  <2>4. CASE spc[s] = "locked"
    <3>1. down[s] BY <2>1, <2>4 DEF LifeInv
    <3>2. UNCHANGED <<readers, late>> BY <1>10, <2>0, <2>4 DEF TryLock
    <3>3. UNCHANGED <<table, count, made, session, spc, readers, freed, history>> BY <2>2, <3>2 DEF history
    <3>4. CASE user[t].op = "own"
      <4>1. Owning(user[t]) BY <2>1, <3>4 DEF Owning
      <4>2. user' = [user EXCEPT ![t] = AfterFailure(t)] BY <1>10, <2>0, <2>4, <3>4 DEF TryLock
      <4> QED BY <1>d, <1>f, <2>1, <3>3, <4>1, <4>2
    <3>5. CASE user[t].op # "own"
      <4>1. user' = [user EXCEPT ![t] = Back(t)] BY <1>10, <2>0, <2>4, <3>5 DEF TryLock
      <4> QED BY <1>d, <1>h, <2>0, <2>1, <3>1, <3>3, <4>1
    <3> QED BY <3>4, <3>5
  <2> QED BY <2>3, <2>4
<1>11. CASE Deliver(t)
  <2>1. \A s \in Sessions : readers'[s] = readers[s] \/ readers'[s] = readers[s] \ {t}
    BY <1>11, <1>r DEF Deliver, Unlocked
  <2> QED BY <1>11, <1>e, <2>1 DEF Deliver, admission
<1>12. CASE Hangup(t)
  <2>0. PICK s : s = user[t].s OBVIOUS
  <2>1. PICK u : u = [user[t] EXCEPT !.pc = IF started[s] THEN "hold" ELSE "launch", !.op = Op(t)] OBVIOUS
  <2>2. /\ u.pc = (IF started[s] THEN "hold" ELSE "launch") /\ u.s = s /\ u.op = Op(t)
        /\ u.seen = user[t].seen /\ u.todo = user[t].todo
    BY <1>a, <2>0, <2>1 DEF User
  <2>3. /\ user[t].pc = "hold" /\ user' = [user EXCEPT ![t] = u]
        /\ down' = [down EXCEPT ![s] = TRUE]
        /\ preempted' = IF started[s] THEN preempted ELSE preempted \cup {s}
        /\ UNCHANGED <<table, count, made, uuid, started, spc, readers, freed, late, givenup, renamed, raced>>
    BY <1>12, <2>0, <2>1 DEF Hangup, admission
  <2>4. user[t].pc \in Busy BY <2>3 DEF Busy, UserPC
  <2>5. Op(t) # "own" /\ (Op(t) = "hupall" <=> user[t].op = "hupall") BY DEF Op
  <2>6. Hands(u) BY <1>a, <2>0, <2>2, <2>3, <2>4, <2>5 DEF Hands
  <2>7. Held(t, u)' BY <1>a, <2>0, <2>2, <2>3 DEF Held
  <2>8. Hupped(u) BY <1>a, <2>0, <2>2, <2>3, <2>5 DEF Hupped, Covered
  <2>9. ~Owning(u) BY <2>2, <2>5 DEF Owning
  <2>10. \A r \in Sessions : down[r] => down'[r] BY <2>3 DEF TInv, TypeOK
  <2>11. preempted \subseteq preempted' /\ u.pc # "free" BY <2>2, <2>3
  <2> QED BY <1>r, <2>3, <2>6, <2>7, <2>8, <2>9, <2>10, <2>11, MoveKept
<1>13. CASE Unlock(t)
  <2>1. /\ user[t].pc = "hold" /\ (user[t].op = "hupall" => down[user[t].s])
        /\ user' = [user EXCEPT ![t] = Back(t)] /\ UNCHANGED <<table, count, made, session, spc, freed, history>>
        /\ readers' = [readers EXCEPT ![user[t].s] = readers[user[t].s] \ {t}]
    BY <1>13 DEF Unlock, Unlocked, admission
  <2>2. user[t].pc \in Busy BY <2>1 DEF Busy, UserPC
  <2>3. \A r \in Sessions : readers'[r] = readers[r] \/ readers'[r] = readers[r] \ {t} BY <1>r, <2>1
  <2>4. \A r \in Sessions : readers'[r] \ {t} = readers[r] \ {t} BY <2>3
  <2>5. \A r \in Sessions : readers'[r] # {} /\ r \notin late' => spc[r] \in Open BY <1>r, <2>1, <2>3 DEF history
  <2>6. PICK u : u = Back(t) OBVIOUS
  <2>7. Hands(u) /\ Held(t, u)' /\ Hupped(u) /\ ~Owning(u) /\ u.pc # "free"
    <3>1. Hands(u) /\ Hupped(u) /\ ~Owning(u) /\ u.pc \in {"hup", "idle"} BY <1>h, <2>1, <2>2, <2>6
    <3> QED BY <3>1 DEF Held
  <2> QED BY <2>1, <2>4, <2>5, <2>6, <2>7, MoveKept DEF session, history
<1>14. ASSUME NEW found \in SUBSET Listed, HupAll(t, found)
       PROVE  TableInv'
  <2>1. PICK u : u = [Idle EXCEPT !.pc = "hup", !.op = "hupall", !.seen = found, !.todo = {uuid[s] : s \in found}]
    OBVIOUS
  <2>2. u.pc = "hup" /\ u.op = "hupall" /\ u.seen = found /\ u.todo = {uuid[s] : s \in found}
    BY <2>1 DEF Idle
  <2>3. found \subseteq 1 .. made BY ListedMade
  <2>4. Hupped(u) BY <2>2 DEF Hupped, Covered
  <2>5. Hands(u) /\ Held(t, u) /\ ~Owning(u) BY <1>c, <2>2, <2>3 DEF Hands, Held, Owning
  <2>6. /\ user' = [user EXCEPT ![t] = u] /\ user[t].pc = "idle"
        /\ UNCHANGED <<table, count, made, session, spc, readers, freed, history>>
    BY <1>14, <2>1 DEF HupAll, admission
  <2> QED BY <1>d, <2>2, <2>4, <2>5, <2>6
<1>15. ASSUME NEW k \in Keys, HupNext(t, k)
       PROVE  TableInv'
  <2>1. user[t].pc = "hup" /\ user[t].op = "hupall"
        /\ UNCHANGED <<table, count, made, session, spc, readers, freed, history>>
    BY <1>15, <1>a DEF HupNext, Hands, admission
  \* A session that is seen and still up has its entry, and is found by it.
  <2>2. ASSUME NEW s \in user[t].seen, ~down[s], s \in Members, uuid[s] \notin raced, uuid[s] = k
        PROVE  table[k] # <<>> /\ Head(table[k]) = s /\ MayLock(s, "hupall")
    <3>1. s \in Sessions BY <1>a DEF User
    <3>2. spc[s] \in {"none", "run"} BY <2>2, <3>1 DEF LifeInv
    <3>4. table[k] = <<s>> BY <2>2 DEF EntryInv
    <3>5. table[k] # <<>> /\ Head(table[k]) = s BY <3>4
    <3> QED BY <2>2, <3>2, <3>5 DEF MayLock, Destroyed
  <2>3. CASE table[k] # <<>> /\ MayLock(Head(table[k]), "hupall")
    <3>1. PICK u : u = [user[t] EXCEPT !.pc = "found", !.s = Head(table[k]), !.todo = user[t].todo \ {k}] OBVIOUS
    <3>2. /\ u.pc = "found" /\ u.s = Head(table[k]) /\ u.op = "hupall"
          /\ u.seen = user[t].seen /\ u.todo = user[t].todo \ {k}
      BY <1>a, <2>1, <3>1 DEF User
    <3>3. u.s \in 1 .. made /\ ~Destroyed(u.s) BY <2>3, <3>2, HeadMade DEF MayLock
    <3>4. Hupped(u) BY <1>a, <2>1, <2>2, <3>2 DEF Hupped, Covered
    <3>5. Hands(u) /\ Held(t, u) /\ ~Owning(u) BY <1>a, <3>2, <3>3 DEF Hands, Held, Owning, Destroyed
    <3>6. user' = [user EXCEPT ![t] = u] BY <1>15, <2>3, <3>1 DEF HupNext
    <3> QED BY <1>d, <2>1, <3>2, <3>4, <3>5, <3>6
  <2>4. CASE ~(table[k] # <<>> /\ MayLock(Head(table[k]), "hupall"))
    <3>1. PICK u : u = [user[t] EXCEPT !.todo = user[t].todo \ {k}] OBVIOUS
    <3>2. u.pc = "hup" /\ u.op = "hupall" /\ u.seen = user[t].seen /\ u.todo = user[t].todo \ {k}
      BY <1>a, <2>1, <3>1 DEF User
    <3>3. Hupped(u) BY <1>a, <2>1, <2>2, <2>4, <3>2 DEF Hupped, Covered
    <3>4. Hands(u) /\ Held(t, u) /\ ~Owning(u) BY <1>a, <1>c, <3>2 DEF Hands, Held, Owning
    <3>5. user' = [user EXCEPT ![t] = u] BY <1>15, <2>4, <3>1 DEF HupNext
    <3> QED BY <1>d, <2>1, <3>2, <3>3, <3>4, <3>5
  <2> QED BY <2>3, <2>4
<1>16. CASE HupDone(t)
  BY <1>16, <1>e DEF HupDone, admission
<1> QED BY <1>1, <1>2, <1>3, <1>4, <1>5, <1>6, <1>7, <1>8, <1>9, <1>10, <1>11, <1>12, <1>13, <1>14, <1>15, <1>16
        DEF ThreadStep

\* What leaves the table is taken out of it, with its entry if no race has touched
\* its uuid.
LEMMA UnlistEntry ==
    ASSUME TInv, EntryInv, NEW s \in Sessions, Unlist(s), UNCHANGED <<uuid, made>>, Members' = Members \ {s}
    PROVE  EntryInv'
<1>1. IsFiniteSet(Members) /\ Members \subseteq Sessions /\ Cardinality(Members) \in Nat BY MembersTyped
<1>2. uuid[s] \in Keys /\ count \in Nat BY DEF TInv, TypeOK
<1>3. /\ raced' = IF s \in Members THEN raced ELSE raced \cup {uuid[s]}
      /\ count' = IF count = 0 THEN 0 ELSE count - 1
      /\ table' = [table EXCEPT ![uuid[s]] = Delete(uuid[s])]
  BY DEF Unlist
<1>4. table' \in [Keys -> Seq(1 .. made')]
  <2>1. PICK S : S = 1 .. made /\ S = 1 .. made' OBVIOUS
  <2>2. table \in [Keys -> Seq(S)] BY <2>1 DEF EntryInv
  <2>3. table[uuid[s]] \in Seq(S) BY <1>2, <2>2
  <2>4. Delete(uuid[s]) \in Seq(S) BY <2>3 DEF Delete
  <2> QED BY <1>3, <2>1, <2>2, <2>4
<1>5. \A k \in Keys : table'[k] = IF k = uuid[s] THEN Delete(k) ELSE table[k]
  BY <1>2, <1>3 DEF TInv, TypeOK
<1>6. s \in Members /\ uuid[s] \notin raced => Delete(uuid[s]) = <<>>
  <2>1. Tail(<<s>>) = <<>> OBVIOUS
  <2> QED BY <2>1 DEF Delete, EntryInv
<1>7. ASSUME NEW m \in Members', uuid'[m] \notin raced' PROVE table'[uuid'[m]] = <<m>>
  <2>1. m \in Members /\ m # s /\ uuid[m] \in Keys /\ uuid[m] \notin raced BY <1>1, <1>3, <1>7 DEF TInv, TypeOK
  <2>2. table[uuid[m]] = <<m>> BY <2>1 DEF EntryInv
  <2>3. <<m>> # <<s>> BY <2>1
  <2>4. uuid[m] # uuid[s] BY <1>3, <1>7, <2>1, <2>2, <2>3 DEF EntryInv
  <2> QED BY <1>5, <2>1, <2>2, <2>4
<1>8. ASSUME NEW k \in Keys, k \notin raced', table'[k] # <<>>
      PROVE  \E m \in Members' : table'[k] = <<m>> /\ uuid'[m] = k
  <2>1. k \notin raced BY <1>3, <1>8
  <2>2. k # uuid[s] /\ table'[k] = table[k] BY <1>3, <1>5, <1>6, <1>8, <2>1
  <2>3. PICK m \in Members : table[k] = <<m>> /\ uuid[m] = k BY <1>8, <2>1, <2>2 DEF EntryInv
  <2>4. m # s BY <2>2, <2>3
  <2> QED BY <2>2, <2>3, <2>4
<1>9. count' <= Cardinality(Members') /\ (raced' = {} => count' = Cardinality(Members'))
  <2>1. CASE s \in Members
    <3>1. Cardinality(Members') = Cardinality(Members) - 1 BY <1>1, <2>1, FS_RemoveElement
    <3>2. Cardinality(Members) # 0 BY <1>1, <2>1, FS_EmptySet
    <3>3. raced' = raced BY <1>3, <2>1
    <3> QED BY <1>1, <1>2, <1>3, <3>1, <3>2, <3>3 DEF EntryInv
  <2>2. CASE s \notin Members
    <3>1. Members' = Members /\ raced' # {} BY <1>3, <2>2
    <3>2. count <= Cardinality(Members) BY DEF EntryInv
    <3>3. count' <= Cardinality(Members) BY <1>1, <1>2, <1>3, <3>2
    <3> QED BY <3>1, <3>3
  <2> QED BY <2>1, <2>2
<1> QED BY <1>4, <1>7, <1>8, <1>9 DEF EntryInv

\* What the steps of others leave alone of a thread's place.
LEMMA PlaceKept ==
    ASSUME TableInv, TInv', NEW v \in Threads, user'[v] = user[v],
           made <= made', givenup \subseteq givenup', preempted \subseteq preempted', renamed \subseteq renamed',
           raced \subseteq raced',
           user[v].pc = "found" /\ user[v].op # "own" => spc'[user[v].s] \notin {"unlisted", "done"},
           \A s \in Sessions : v \in readers[s] => v \in readers'[s],
           Owning(user[v]) => \/ user[v].s \in preempted
                              \/ started'[user[v].s] = started[user[v].s] /\ (user[v].s \in freed' => user[v].s \in freed),
           \A s \in Sessions : s <= made => /\ (down[s] => down'[s]) /\ (s \in Members' => s \in Members)
                                            /\ uuid'[s] = uuid[s] \/ s \in renamed' \/ ~\E w \in Threads : s \in user[w].seen
    PROVE  (Hands(user[v]) /\ Held(v, user[v]) /\ Owned(user[v]) /\ Hupped(user[v]))'
<1> USE DEF TableInv
<1>1. /\ Hands(user[v]) /\ Held(v, user[v]) /\ Owned(user[v]) /\ Hupped(user[v])
      /\ made \in Nat /\ made' \in Nat /\ (user[v].pc \in Busy => user[v].s \in Sessions)
  BY DEF PlaceInv, TInv, TypeOK, GoodUser
<1>2. Hands(user[v])'
  <2>1. user[v].pc \in Busy => user[v].s <= made' BY <1>1 DEF Hands, Sessions
  <2>2. user[v].seen \subseteq 1 .. made' BY <1>1 DEF Hands
  <2> QED BY <1>1, <2>1, <2>2 DEF Hands
<1>3. Held(v, user[v])' BY <1>1 DEF Held, Busy, UserPC
<1>4. Owned(user[v])' BY <1>1 DEF Owned, Owning
<1>5. Hupped(user[v])'
  <2>1. ASSUME NEW s \in user[v].seen, user[v].op = "hupall" PROVE Covered(user[v], s)'
    <3>1. s \in Sessions /\ s <= made BY <1>1 DEF Hands, TInv, GoodUser, User
    <3>2. Covered(user[v], s) BY <1>1, <2>1 DEF Hupped
    <3> QED BY <3>1, <3>2 DEF Covered
  <2> QED BY <2>1 DEF Hupped
<1> QED BY <1>2, <1>3, <1>4, <1>5

LEMMA InsertKept ==
    ASSUME TableInv, TInv', NEW t \in Threads, Insert(t)
    PROVE  TableInv'
<1> USE NumbersAssumption DEF TableInv
<1>1. PICK s : s = made + 1 OBVIOUS
<1>2. s \in Sessions /\ made \in Nat BY <1>1 DEF Insert, TInv, TypeOK, Sessions
<1>3. PICK k : k = IF user[t].use = 0 THEN s ELSE user[t].use OBVIOUS
<1>4. k \in Keys
  <2>1. user[t].use \in RequestNames \cup {0} BY DEF TInv, GoodUser, User
  <2> QED BY <1>2, <1>3, <2>1, NamesAssumption DEF Keys
<1>5. /\ table' = [table EXCEPT ![k] = <<s>> \o table[k]] /\ uuid' = [uuid EXCEPT ![s] = k]
      /\ raced' = IF table[k] = <<>> THEN raced ELSE raced \cup {k}
      /\ made' = s /\ count' = count + 1
      /\ UNCHANGED <<down, started, spc, readers, freed, late, givenup, preempted, renamed>>
  BY <1>1, <1>3 DEF Insert
<1>0. PICK u : u = [Idle EXCEPT !.pc = "own", !.op = "own", !.s = s] OBVIOUS
<1>6. user' = [user EXCEPT ![t] = u] /\ u.pc = "own" /\ u.op = "own" /\ u.s = s /\ u.seen = {}
  BY <1>0, <1>1 DEF Insert, Idle
<1>7. \A v \in Threads : user'[v] = IF v = t THEN u ELSE user[v] BY <1>6 DEF TInv
\* The session is new to everybody.
<1>8. ~started[s] /\ s \notin freed /\ s \notin Members /\ spc[s] = "none"
  BY <1>1, <1>2 DEF LifeInv, Members
<1>9. \A v \in Threads : user[v].pc \in Busy => user[v].s # s /\ user[v].s <= made
  BY <1>1, <1>2 DEF PlaceInv, Hands
<1>10. \A r \in Sessions : r # s => uuid'[r] = uuid[r] BY <1>5 DEF TInv, TypeOK
<1>11. Members' = Members \cup {s}
  <2>1. \A v \in Threads : ~(user'[v].pc = "free" /\ user'[v].s = s) BY <1>6, <1>7, <1>9 DEF Busy, UserPC
  <2>2. s \in Members' BY <1>1, <1>2, <1>5, <1>8, <2>1 DEF Members
  <2>3. ASSUME NEW r, r # s PROVE r \in Members' <=> r \in Members
    <3>1. (\A v \in Threads : ~(user'[v].pc = "free" /\ user'[v].s = r))
            <=> (\A v \in Threads : ~(user[v].pc = "free" /\ user[v].s = r))
      <4>1. user[t].pc # "free" BY DEF Insert
      <4> QED BY <1>6, <1>7, <4>1
    <3>2. r \in 1 .. made' <=> r \in 1 .. made BY <1>1, <1>2, <1>5, <2>3
    <3> QED BY <1>5, <3>1, <3>2 DEF Members
  <2> QED BY <2>2, <2>3
<1>12. ASSUME NEW v \in Threads PROVE (Hands(user[v]) /\ Held(v, user[v]) /\ Owned(user[v]) /\ Hupped(user[v]))'
  <2>1. CASE v = t
    <3>1. user'[v] = u /\ s <= made' BY <1>2, <1>1, <1>5, <1>7, <2>1
    <3> QED BY <1>5, <1>6, <1>8, <3>1 DEF Hands, Held, Owned, Hupped
  <2>2. CASE v # t
    <3>1. user'[v] = user[v] /\ made <= made' BY <1>1, <1>2, <1>5, <1>7, <2>2
    <3>2. user[v].pc = "found" /\ user[v].op # "own" => spc'[user[v].s] \notin {"unlisted", "done"}
      BY <1>5 DEF PlaceInv, Hands
    <3>3. ASSUME NEW r \in Sessions, r <= made
          PROVE  /\ (down[r] => down'[r]) /\ (r \in Members' => r \in Members) /\ uuid'[r] = uuid[r]
      <4>1. r # s BY <1>1, <1>2, <3>3
      <4> QED BY <1>5, <1>10, <1>11, <4>1
    <3>4. raced \subseteq raced' BY <1>5
    <3> QED BY <1>5, <3>1, <3>2, <3>3, <3>4, PlaceKept
  <2> QED BY <2>1, <2>2
<1>13. \A v, w \in Threads : Owning(user'[v]) /\ Owning(user'[w]) /\ user'[v].s = user'[w].s => v = w
  <2>1. \A v \in Threads : Owning(user[v]) => user[v].s # s BY <1>9 DEF Owning, Busy, UserPC
  <2> QED BY <1>6, <1>7, <2>1 DEF PlaceInv
<1>14. PlaceInv' BY <1>12, <1>13 DEF PlaceInv, Owning
<1>15. \A r \in Sessions : r <= made => r <= made' BY <1>1, <1>2, <1>5 DEF Sessions
<1>16. LifeInv' BY <1>5, <1>15 DEF LifeInv, TInv, TypeOK
<1>17. table' \in [Keys -> Seq(1 .. made')]
  <2>1. PICK S, T : S = 1 .. made /\ T = 1 .. made' OBVIOUS
  <2>2. S \subseteq T /\ s \in T BY <1>1, <1>2, <1>5, <2>1
  <2>3. table \in [Keys -> Seq(S)] BY <2>1 DEF EntryInv
  <2>4. \A q \in Seq(S) : q \in Seq(T) BY <2>2
  <2>5. table \in [Keys -> Seq(T)] BY <2>3, <2>4
  <2>6. <<s>> \in Seq(T) /\ table[k] \in Seq(T) BY <1>4, <2>2, <2>5
  <2>7. <<s>> \o table[k] \in Seq(T) BY <2>6
  <2> QED BY <1>5, <2>1, <2>5, <2>7
<1>18. \A j \in Keys : table'[j] = IF j = k THEN <<s>> \o table[k] ELSE table[j] BY <1>5 DEF TInv, TypeOK
<1>19. <<s>> \o <<>> = <<s>> BY <1>2
<1>20. uuid'[s] = k BY <1>2, <1>5 DEF TInv, TypeOK
<1>21. ASSUME NEW r \in Members', uuid'[r] \notin raced' PROVE table'[uuid'[r]] = <<r>>
  <2>0. k \notin raced' => table[k] = <<>> BY <1>5
  <2>1. CASE r = s
    <3>1. uuid'[r] = k BY <1>20, <2>1
    <3>2. table[k] = <<>> BY <1>21, <2>0, <3>1
    <3>3. table'[k] = <<s>> BY <1>4, <1>18, <1>19, <3>2
    <3> QED BY <2>1, <3>1, <3>3
  <2>2. CASE r # s
    <3>1. r \in Members /\ r \in Sessions /\ uuid[r] \in Keys /\ uuid'[r] = uuid[r]
      BY <1>10, <1>11, <2>2, MembersTyped DEF TInv, TypeOK
    <3>2. table[uuid[r]] = <<r>> /\ <<r>> # <<>> BY <1>5, <1>21, <3>1 DEF EntryInv
    <3>3. uuid[r] # k BY <1>21, <2>0, <3>1, <3>2
    <3> QED BY <1>18, <3>1, <3>2, <3>3
  <2> QED BY <2>1, <2>2
<1>22. ASSUME NEW j \in Keys, j \notin raced', table'[j] # <<>>
       PROVE  \E r \in Members' : table'[j] = <<r>> /\ uuid'[r] = j
  <2>1. CASE j = k BY <1>5, <1>11, <1>18, <1>19, <1>20, <1>22, <2>1
  <2>2. CASE j # k
    <3>1. table'[j] = table[j] /\ j \notin raced BY <1>5, <1>18, <1>22, <2>2
    <3>2. PICK r \in Members : table[j] = <<r>> /\ uuid[r] = j BY <1>22, <3>1 DEF EntryInv
    <3>3. r \in Sessions /\ r # s BY <1>8, MembersTyped
    <3> QED BY <1>10, <1>11, <3>1, <3>2, <3>3
  <2> QED BY <2>1, <2>2
<1>23. count' <= Cardinality(Members') /\ (raced' = {} => count' = Cardinality(Members'))
  <2>1. IsFiniteSet(Members) /\ Cardinality(Members) \in Nat /\ count \in Nat BY MembersTyped DEF TInv, TypeOK
  <2>2. Cardinality(Members \cup {s}) = Cardinality(Members) + 1 BY <1>8, <2>1, FS_AddElement
  <2>3. count <= Cardinality(Members) /\ (raced = {} => count = Cardinality(Members)) BY DEF EntryInv
  <2>4. raced' = {} => raced = {} BY <1>5
  <2> QED BY <1>5, <1>11, <2>1, <2>2, <2>3, <2>4
<1>24. EntryInv' BY <1>17, <1>21, <1>22, <1>23 DEF EntryInv
<1> QED BY <1>14, <1>16, <1>24

LEMMA RenameKept ==
    ASSUME TableInv, TInv', NEW t \in Threads, NEW use \in Names, Rename(t, use)
    PROVE  TableInv'
<1> USE DEF TableInv
<1>1. PICK s : s = user[t].s OBVIOUS
<1>2. s \in Sessions /\ s <= made
  BY <1>1 DEF Rename, TInv, GoodUser, Busy, UserPC, PlaceInv, Hands
<1>3. /\ table' = [table EXCEPT ![uuid[s]] = Delete(uuid[s]), ![use] = <<s>>]
      /\ uuid' = [uuid EXCEPT ![s] = use] /\ use # uuid[s] /\ table[use] = <<>>
      /\ raced' = IF s \in Members THEN raced ELSE raced \cup {uuid[s], use}
      /\ renamed' = IF \E v \in Threads : s \in user[v].seen THEN renamed \cup {s} ELSE renamed
      /\ UNCHANGED <<count, made, down, started, spc, readers, freed, user, late, givenup, preempted>>
  BY <1>1 DEF Rename, Renamed, admission
<1>4. uuid'[s] = use /\ \A r \in Sessions : r # s => uuid'[r] = uuid[r] BY <1>2, <1>3 DEF TInv, TypeOK
<1>5. uuid[s] \in Keys /\ use \in Keys BY <1>2 DEF TInv, TypeOK, Keys
<1>6. Members' = Members BY <1>3 DEF Members
\* A session that a hupall has listed is known as renamed.
<1>7. ASSUME NEW v \in Threads PROVE (Hands(user[v]) /\ Held(v, user[v]) /\ Owned(user[v]) /\ Hupped(user[v]))'
  <2>1. user[v].pc = "found" /\ user[v].op # "own" => spc'[user[v].s] \notin {"unlisted", "done"}
    BY <1>3 DEF PlaceInv, Hands
  <2>2. ASSUME NEW r \in Sessions
        PROVE  uuid'[r] = uuid[r] \/ r \in renamed' \/ ~\E w \in Threads : r \in user[w].seen
    BY <1>3, <1>4
  <2>3. made <= made' /\ raced \subseteq raced' /\ renamed \subseteq renamed' /\ user'[v] = user[v]
    BY <1>3 DEF TInv, TypeOK
  <2> QED BY <1>3, <1>6, <2>1, <2>2, <2>3, PlaceKept
<1>8. PlaceInv' BY <1>3, <1>7 DEF PlaceInv, Owning
<1>9. LifeInv' BY <1>3 DEF LifeInv
<1>10. table' \in [Keys -> Seq(1 .. made')]
  <2>1. PICK S : S = 1 .. made /\ S = 1 .. made' BY <1>3
  <2>2. table \in [Keys -> Seq(S)] BY <2>1 DEF EntryInv
  <2>3. table[uuid[s]] \in Seq(S) BY <1>5, <2>2
  <2>4. Delete(uuid[s]) \in Seq(S) BY <2>3 DEF Delete
  <2>5. s \in S BY <1>2, <2>1 DEF Sessions, TInv, TypeOK
  <2>6. <<s>> \in Seq(S) BY <2>5
  <2> QED BY <1>3, <1>5, <2>1, <2>2, <2>4, <2>6
<1>11. \A k \in Keys : table'[k] = IF k = use THEN <<s>> ELSE IF k = uuid[s] THEN Delete(k) ELSE table[k]
  BY <1>3, <1>5 DEF TInv, TypeOK
<1>12. s \in Members /\ uuid[s] \notin raced => table[uuid[s]] = <<s>> /\ Delete(uuid[s]) = <<>>
  <2>1. Tail(<<s>>) = <<>> OBVIOUS
  <2> QED BY <2>1 DEF Delete, EntryInv
<1>13. ASSUME NEW r \in Members, uuid'[r] \notin raced' PROVE table'[uuid'[r]] = <<r>>
  <2>1. CASE r = s BY <1>4, <1>5, <1>11, <2>1
  <2>2. CASE r # s
    <3>1. r \in Sessions /\ uuid[r] \in Keys /\ uuid'[r] = uuid[r] /\ uuid[r] \notin raced
      BY <1>3, <1>4, <1>13, <2>2, MembersTyped DEF TInv, TypeOK
    <3>2. table[uuid[r]] = <<r>> /\ <<r>> # <<s>> /\ <<r>> # <<>> BY <2>2, <3>1 DEF EntryInv
    <3>3. uuid[r] # use BY <1>3, <3>2
    <3>4. uuid[r] # uuid[s] BY <1>3, <1>12, <1>13, <3>1, <3>2
    <3> QED BY <1>11, <3>1, <3>2, <3>3, <3>4
  <2> QED BY <2>1, <2>2
<1>14. ASSUME NEW k \in Keys, k \notin raced', table'[k] # <<>>
       PROVE  \E r \in Members : table'[k] = <<r>> /\ uuid'[r] = k
  <2>1. CASE k = use
    <3>1. s \in Members BY <1>3, <1>14, <2>1
    <3> QED BY <1>4, <1>11, <2>1, <3>1
  <2>2. CASE k # use
    <3>1. k \notin raced BY <1>3, <1>14
    <3>2. k # uuid[s] /\ table'[k] = table[k] BY <1>3, <1>11, <1>12, <1>14, <2>2, <3>1
    <3>3. PICK r \in Members : table[k] = <<r>> /\ uuid[r] = k BY <1>14, <3>1, <3>2 DEF EntryInv
    <3>4. r \in Sessions /\ r # s BY <3>2, <3>3, MembersTyped
    <3> QED BY <1>4, <3>2, <3>3, <3>4
  <2> QED BY <2>1, <2>2
<1>15. count' <= Cardinality(Members') /\ (raced' = {} => count' = Cardinality(Members'))
  BY <1>3, <1>6 DEF EntryInv
<1>16. EntryInv' BY <1>6, <1>10, <1>13, <1>14, <1>15 DEF EntryInv
<1> QED BY <1>8, <1>9, <1>16

\* An owner that gives its session up is the only one to own it.
LEMMA OwnerUnlistKept ==
    ASSUME TableInv, TInv', NEW t \in Threads, OwnerUnlist(t)
    PROVE  TableInv'
<1> USE DEF TableInv
<1>1. PICK s : s = user[t].s OBVIOUS
<1>2. user[t] \in User /\ user[t].pc = "destroy" /\ s \notin freed /\ s \in Sessions /\ s <= made
  BY <1>1 DEF OwnerUnlist, Live, TInv, GoodUser, Busy, UserPC, PlaceInv, Hands
<1>3. PICK u : u = [user[t] EXCEPT !.pc = "free"] OBVIOUS
<1>4. u.pc = "free" /\ u.s = s /\ u.op = user[t].op /\ u.seen = user[t].seen BY <1>1, <1>2, <1>3 DEF User
<1>5. /\ user' = [user EXCEPT ![t] = u] /\ Unlist(s) /\ givenup' = givenup \cup {s}
      /\ UNCHANGED <<made, uuid, down, started, spc, readers, freed, late, preempted, renamed>>
      /\ raced \subseteq raced'
  BY <1>1, <1>3 DEF OwnerUnlist, Unlist, session
<1>6. \A v \in Threads : user'[v] = IF v = t THEN u ELSE user[v] BY <1>5 DEF TInv
<1>7. Members' = Members \ {s}
  <2>1. s \notin Members' BY <1>4, <1>6 DEF Members
  <2>2. ASSUME NEW r, r # s
        PROVE  (\A v \in Threads : ~(user'[v].pc = "free" /\ user'[v].s = r))
                 <=> (\A v \in Threads : ~(user[v].pc = "free" /\ user[v].s = r))
    BY <1>2, <1>4, <1>6, <2>2
  <2>3. ASSUME NEW r, r # s PROVE r \in Members' <=> r \in Members BY <1>5, <2>2, <2>3 DEF Members
  <2> QED BY <2>1, <2>3
<1>8. EntryInv' BY <1>2, <1>5, <1>7, UnlistEntry
<1>9. LifeInv' BY <1>5 DEF LifeInv
<1>10. Hands(user[t]) /\ Owned(user[t]) /\ Owning(user[t]) BY <1>2 DEF PlaceInv, Owning
<1>11. ASSUME NEW v \in Threads PROVE (Hands(user[v]) /\ Held(v, user[v]) /\ Owned(user[v]) /\ Hupped(user[v]))'
  <2>1. CASE v = t
    <3>1. user'[v] = u BY <1>6, <2>1
    <3>2. user[t].op # "hupall" BY <1>2, <1>10 DEF Hands
    <3>3. u.seen \subseteq 1 .. made' /\ u.s <= made' BY <1>2, <1>4, <1>5, <1>10 DEF Hands
    <3>4. u.s \in preempted' \/ (~started'[u.s] /\ u.s \notin freed') BY <1>1, <1>4, <1>5, <1>10 DEF Owned
    <3> QED BY <1>4, <1>5, <3>1, <3>2, <3>3, <3>4 DEF Hands, Held, Owned, Hupped
  <2>2. CASE v # t
    <3>1. user'[v] = user[v] /\ made <= made' BY <1>5, <1>6, <2>2 DEF TInv, TypeOK
    <3>2. user[v].pc = "found" /\ user[v].op # "own" => spc'[user[v].s] \notin {"unlisted", "done"}
      BY <1>5 DEF PlaceInv, Hands
    <3> QED BY <1>5, <1>7, <3>1, <3>2, PlaceKept
  <2> QED BY <2>1, <2>2
<1>12. Owning(u) => Owning(user[t]) /\ u.s = user[t].s BY <1>1, <1>4, <1>10
<1>13. \A v, w \in Threads : Owning(user'[v]) /\ Owning(user'[w]) /\ user'[v].s = user'[w].s => v = w
  BY <1>6, <1>12 DEF PlaceInv
<1>14. PlaceInv' BY <1>11, <1>13 DEF PlaceInv, Owning
<1> QED BY <1>8, <1>9, <1>14

LEMMA OwnerFreeKept ==
    ASSUME TableInv, TInv', NEW t \in Threads, OwnerFree(t)
    PROVE  TableInv'
<1> USE DEF TableInv
<1>1. PICK s : s = user[t].s OBVIOUS
<1>2. user[t].pc = "free" /\ s \notin freed /\ s \in Sessions /\ s <= made /\ s \in givenup
  BY <1>1 DEF OwnerFree, Live, TInv, GoodUser, Busy, UserPC, PlaceInv, Hands
<1>3. /\ user' = [user EXCEPT ![t] = Idle] /\ freed' = freed \cup {s}
      /\ readers' = [readers EXCEPT ![s] = readers[s] \ {t}]
      /\ UNCHANGED <<table, count, made, uuid, down, started, spc, late, givenup, preempted, renamed, raced>>
  BY <1>1 DEF OwnerFree, admission, session, history
<1>4. \A v \in Threads : user'[v] = IF v = t THEN Idle ELSE user[v] BY <1>3 DEF TInv
<1>5. Idle.pc = "idle" /\ Idle.op = "none" /\ Idle.seen = {} BY DEF Idle
<1>6. Members' = Members
  <2>1. s \notin Members /\ s \notin Members' BY <1>1, <1>2, <1>3 DEF Members
  <2>2. ASSUME NEW r, r # s
        PROVE  (\A v \in Threads : ~(user'[v].pc = "free" /\ user'[v].s = r))
                 <=> (\A v \in Threads : ~(user[v].pc = "free" /\ user[v].s = r))
    BY <1>1, <1>4, <1>5, <2>2
  <2>3. ASSUME NEW r, r # s PROVE r \in Members' <=> r \in Members BY <1>3, <2>2, <2>3 DEF Members
  <2> QED BY <2>1, <2>3
<1>7. EntryInv' BY <1>3, <1>6, EntrySame
<1>8. \A r \in Sessions : readers'[r] = readers[r] \/ readers'[r] = readers[r] \ {t}
  BY <1>2, <1>3 DEF TInv, TypeOK
<1>9. LifeInv' BY <1>2, <1>3, <1>8 DEF LifeInv
<1>10. Owning(user[t]) BY <1>2 DEF Owning
<1>11. ASSUME NEW v \in Threads PROVE (Hands(user[v]) /\ Held(v, user[v]) /\ Owned(user[v]) /\ Hupped(user[v]))'
  <2>1. CASE v = t
    <3>1. user'[v] = Idle BY <1>4, <2>1
    <3> QED BY <1>5, <3>1 DEF Hands, Held, Owned, Owning, Hupped, Busy
  <2>2. CASE v # t
    <3>1. user'[v] = user[v] /\ made <= made' BY <1>3, <1>4, <2>2 DEF TInv, TypeOK
    <3>2. user[v].pc = "found" /\ user[v].op # "own" => spc'[user[v].s] \notin {"unlisted", "done"}
      BY <1>3 DEF PlaceInv, Hands
    <3>3. Owning(user[v]) => user[v].s # s BY <1>1, <1>10, <2>2 DEF PlaceInv
    <3>4. \A r \in Sessions : v \in readers[r] => v \in readers'[r] BY <1>8, <2>2
    <3> QED BY <1>3, <1>6, <3>1, <3>2, <3>3, <3>4, PlaceKept
  <2> QED BY <2>1, <2>2
<1>12. ~Owning(Idle) BY <1>5 DEF Owning
<1>13. \A v, w \in Threads : Owning(user'[v]) /\ Owning(user'[w]) /\ user'[v].s = user'[w].s => v = w
  BY <1>4, <1>12 DEF PlaceInv
<1>14. PlaceInv' BY <1>11, <1>13 DEF PlaceInv, Owning
<1> QED BY <1>7, <1>9, <1>14

\* A session is launched by its owner, or by a holder that hung it up.
LEMMA LaunchThreadKept ==
    ASSUME TableInv, TInv', NEW t \in Threads, LaunchThread(t)
    PROVE  TableInv'
<1> USE DEF TableInv
<1>1. PICK s : s = user[t].s OBVIOUS
<1>2. user[t] \in User /\ user[t].pc = "launch" /\ s \notin freed /\ s \in Sessions /\ s <= made /\ ~started[s]
  BY <1>1 DEF LaunchThread, Live, TInv, GoodUser, Busy, UserPC, PlaceInv, Hands
<1>3. PICK u : u = Launched(t, TRUE) OBVIOUS
<1>4. /\ user' = [user EXCEPT ![t] = u] /\ started' = [started EXCEPT ![s] = TRUE]
      /\ spc' = [spc EXCEPT ![s] = "run"]
      /\ UNCHANGED <<table, count, made, uuid, down, readers, freed, late, givenup, preempted, renamed, raced>>
  BY <1>1, <1>3 DEF LaunchThread, admission, history
<1>5. \A v \in Threads : user'[v] = IF v = t THEN u ELSE user[v] BY <1>4 DEF TInv
<1>6. Hands(user[t]) /\ Held(t, user[t]) /\ Hupped(user[t]) BY DEF PlaceInv
<1>7. /\ ~Owning(u) /\ u.pc \in {"hold", "idle"} /\ u.seen \subseteq 1 .. made
      /\ (u.pc = "hold" => u.s = s /\ t \in readers[s])
      /\ (u.pc = "idle" => u.op = "none") /\ (u.op = "hupall" => u.pc = "hold" /\ user[t].op = "hupall")
      /\ (u.op = "hupall" => u.seen = user[t].seen /\ u.todo = user[t].todo)
  <2>1. CASE t \in readers[s]
    <3>1. PICK w : w = [user[t] EXCEPT !.pc = "hold", !.op = Op(t)] OBVIOUS
    <3>2. w.pc = "hold" /\ w.s = s /\ w.op = Op(t) /\ w.seen = user[t].seen /\ w.todo = user[t].todo
      BY <1>1, <1>2, <3>1 DEF User
    <3>3. Op(t) # "own" /\ (Op(t) = "hupall" <=> user[t].op = "hupall") BY DEF Op
    <3>4. u = w BY <1>1, <1>3, <2>1, <3>1 DEF Launched
    <3> QED BY <1>6, <2>1, <3>2, <3>3, <3>4 DEF Owning, Hands
  <2>2. CASE t \notin readers[s]
    <3>1. u = Idle BY <1>1, <1>3, <2>2 DEF Launched
    <3> QED BY <3>1 DEF Idle, Owning
  <2> QED BY <2>1, <2>2
<1>8. \A r \in Sessions : spc'[r] = IF r = s THEN "run" ELSE spc[r] BY <1>4 DEF TInv, TypeOK
<1>9. spc[s] = "none" BY <1>2 DEF LifeInv
<1>10. Members' = Members
  <2>1. u.pc # "free" /\ user[t].pc # "free" BY <1>2, <1>7
  <2>2. \A r \in Sessions : spc'[r] \in {"unlisted", "done"} <=> spc[r] \in {"unlisted", "done"} BY <1>8, <1>9
  <2> QED BY <1>4, <2>1, <2>2, MembersSame
<1>11. EntryInv' BY <1>4, <1>10, EntrySame
<1>12. \A r \in Sessions : started'[r] <=> started[r] \/ r = s BY <1>2, <1>4 DEF TInv, TypeOK
<1>13. LifeInv'
  <2>1. \A r \in freed : r \in Sessions /\ r # s BY <1>2 DEF TInv, TypeOK
  <2> QED BY <1>2, <1>4, <1>8, <1>12, <2>1 DEF LifeInv, Open
<1>14. ASSUME NEW v \in Threads PROVE (Hands(user[v]) /\ Held(v, user[v]) /\ Owned(user[v]) /\ Hupped(user[v]))'
  <2>1. CASE v = t
    <3>1. user'[v] = u BY <1>5, <2>1
    <3>2. Hands(u)' BY <1>2, <1>4, <1>7 DEF Hands, Busy
    <3>3. Held(t, u)' BY <1>4, <1>7 DEF Held
    <3>4. Owned(u)' BY <1>7 DEF Owned, Owning
    <3>5. ASSUME u.op = "hupall", NEW r \in u.seen PROVE Covered(u, r)'
      <4>1. Covered(user[t], r) BY <1>6, <1>7, <3>5 DEF Hupped
      <4> QED BY <1>1, <1>2, <1>4, <1>7, <1>10, <3>5, <4>1 DEF Covered
    <3>6. Hupped(u)' BY <3>5 DEF Hupped
    <3> QED BY <2>1, <3>1, <3>2, <3>3, <3>4, <3>6 DEF Hands, Held, Owned, Owning, Hupped, Covered
  <2>2. CASE v # t
    <3>1. user'[v] = user[v] /\ made <= made' BY <1>4, <1>5, <2>2 DEF TInv, TypeOK
    <3>2. user[v].pc \in Busy => user[v].s \in Sessions BY DEF TInv, GoodUser
    <3>3. user[v].pc = "found" /\ user[v].op # "own" => spc'[user[v].s] \notin {"unlisted", "done"}
      BY <1>8, <3>2 DEF PlaceInv, Hands, Busy, UserPC
    <3>4. Owning(user[v]) => user[v].s \in Sessions BY <3>2 DEF Owning, Busy, UserPC
    <3>5. Owning(user[v]) /\ user[v].s = s => s \in preempted
      <4>1. CASE user[t].op = "own" BY <1>1, <1>2, <2>2, <4>1 DEF PlaceInv, Owning
      <4>2. CASE user[t].op # "own" BY <1>1, <1>2, <1>6, <4>2 DEF Held
      <4> QED BY <4>1, <4>2
    <3>6. Owning(user[v]) => user[v].s \in preempted \/ started'[user[v].s] = started[user[v].s]
      BY <1>4, <3>4, <3>5 DEF TInv, TypeOK
    <3> QED BY <1>4, <1>10, <3>1, <3>3, <3>6, PlaceKept
  <2> QED BY <2>1, <2>2
<1>15. \A v, w \in Threads : Owning(user'[v]) /\ Owning(user'[w]) /\ user'[v].s = user'[w].s => v = w
  BY <1>5, <1>7 DEF PlaceInv
<1>16. PlaceInv' BY <1>14, <1>15 DEF PlaceInv, Owning
<1> QED BY <1>11, <1>13, <1>16

\* A session's own thread moves it on, and frees it when nobody owns it any more.
LEMMA SessionKept ==
    ASSUME TableInv, TInv', NEW s \in Sessions, SessionStep(s)
    PROVE  TableInv'
<1> USE DEF TableInv
<1>1. /\ UNCHANGED <<made, uuid, started, readers, user, late, givenup, preempted, renamed>>
      /\ freed' = freed \/ (spc[s] = "unlisted" /\ freed' = freed \cup {s})
      /\ raced \subseteq raced'
  BY DEF SessionStep, RunHangup, RunEnds, WriteLock, MarkDestroyed, DestroyUnlist, DestroyFree, Unlist, session, history
<1>2. \A r \in Sessions : down[r] => down'[r]
  BY DEF SessionStep, RunHangup, RunEnds, WriteLock, MarkDestroyed, DestroyUnlist, DestroyFree, session, TInv, TypeOK
<1>3. \A r \in Sessions : r # s => spc'[r] = spc[r]
  BY DEF SessionStep, RunHangup, RunEnds, WriteLock, MarkDestroyed, DestroyUnlist, DestroyFree, TInv, TypeOK
<1>4. spc[s] # "none" /\ started[s] /\ s <= made
  <2>1. spc[s] # "none"
    BY DEF SessionStep, RunHangup, RunEnds, WriteLock, MarkDestroyed, DestroyUnlist, DestroyFree
  <2> QED BY <2>1 DEF LifeInv
<1>5. spc \in [Sessions -> {"none", "run", "ended", "locked", "gone", "unlisted", "done"}] BY DEF TInv, TypeOK
<1>6. PlaceInv' /\ LifeInv' /\ EntryInv'
      <=> /\ \A v \in Threads : (Hands(user[v]) /\ Held(v, user[v]) /\ Owned(user[v]) /\ Hupped(user[v]))'
          /\ LifeInv' /\ EntryInv'
  BY <1>1 DEF PlaceInv, Owning
\* The threads keep their places if nobody has looked the session up as it goes.
<1>7. ASSUME Members' \subseteq Members,
             \A v \in Threads : user[v].pc = "found" /\ user[v].op # "own"
                                  => spc'[user[v].s] \notin {"unlisted", "done"}
      PROVE  \A v \in Threads : (Hands(user[v]) /\ Held(v, user[v]) /\ Owned(user[v]) /\ Hupped(user[v]))'
  <2> TAKE v \in Threads
  <2>1. made <= made' BY <1>1 DEF TInv, TypeOK
  <2>2. Owning(user[v]) => user[v].s \in preempted \/ (user[v].s \in freed' => user[v].s \in freed)
    <3>1. Owning(user[v]) /\ user[v].s = s => s \in preempted BY <1>4 DEF PlaceInv, Owned
    <3> QED BY <1>1, <3>1
  <2> QED BY <1>1, <1>2, <1>7, <2>1, <2>2, PlaceKept
<1>8. \A v \in Threads : /\ user[v].pc = "found" => user[v].s \in Sessions
                         /\ user[v].pc = "found" /\ user[v].op # "own" => spc[user[v].s] \notin {"unlisted", "done"}
  BY DEF TInv, GoodUser, Busy, UserPC, PlaceInv, Hands
<1>9. ASSUME spc'[s] \notin {"unlisted", "done"}, spc[s] \notin {"unlisted", "done"}, UNCHANGED <<table, count, raced, freed>>,
             LifeInv'
      PROVE  TableInv'
  <2>1. \A r \in 1 .. made : spc'[r] \in {"unlisted", "done"} <=> spc[r] \in {"unlisted", "done"}
    BY <1>3, <1>9, MembersTyped
  <2>2. Members' = Members BY <1>1, <1>9, <2>1 DEF Members
  <2>3. EntryInv' BY <1>1, <1>9, <2>2, EntrySame
  <2>4. \A v \in Threads : user[v].pc = "found" /\ user[v].op # "own"
                             => spc'[user[v].s] \notin {"unlisted", "done"}
    BY <1>3, <1>8, <1>9
  <2> QED BY <1>6, <1>7, <1>9, <2>2, <2>3, <2>4
<1>10. CASE RunHangup(s)
  <2>1. /\ spc[s] = "run" /\ spc' = spc /\ down' = [down EXCEPT ![s] = TRUE]
        /\ UNCHANGED <<table, count, raced, freed>>
    BY <1>10 DEF RunHangup, admission, history
  <2>2. LifeInv' BY <1>1, <1>2, <2>1 DEF LifeInv
  <2> QED BY <1>9, <2>1, <2>2
<1>11. CASE RunEnds(s) \/ WriteLock(s) \/ MarkDestroyed(s)
  <2>1. /\ \/ spc' = [spc EXCEPT ![s] = "ended"] /\ spc[s] = "run" /\ down[s]
           \/ spc' = [spc EXCEPT ![s] = "locked"] /\ spc[s] = "ended" /\ readers[s] = {}
           \/ spc' = [spc EXCEPT ![s] = "gone"] /\ spc[s] = "locked"
        /\ UNCHANGED <<table, count, raced, freed, down>>
    BY <1>11 DEF RunEnds, WriteLock, MarkDestroyed, admission, history, session
  <2>2. \/ spc'[s] = "ended" /\ spc[s] = "run" /\ down[s]
        \/ spc'[s] = "locked" /\ spc[s] = "ended" /\ readers[s] = {}
        \/ spc'[s] = "gone" /\ spc[s] = "locked"
    BY <1>5, <2>1
  <2>3. LifeInv'
    <3>1. \A r \in Sessions : ~started[r] => spc'[r] = "none" BY <1>3, <1>4 DEF LifeInv
    <3>2. \A r \in freed : r \in Sessions /\ r <= made /\ (r \in givenup \/ spc'[r] = "done")
      BY <1>3, <2>2 DEF LifeInv, TInv, TypeOK
    <3>3. \A r \in Sessions : spc'[r] \in {"none", "run"} \/ down[r] BY <1>3, <2>2 DEF LifeInv
    <3>4. \A r \in Sessions : readers[r] # {} /\ r \notin late => spc'[r] \in Open
      BY <1>3, <2>2 DEF LifeInv, Open
    <3> QED BY <1>1, <2>1, <3>1, <3>2, <3>3, <3>4 DEF LifeInv
  <2> QED BY <1>9, <2>1, <2>2, <2>3
<1>12. CASE DestroyUnlist(s)
  <2>1. /\ spc[s] = "gone" /\ Unlist(s) /\ HashMutexFree /\ spc' = [spc EXCEPT ![s] = "unlisted"]
        /\ UNCHANGED <<freed, down>>
    BY <1>12 DEF DestroyUnlist, Unlist, session
  <2>2. spc'[s] = "unlisted" BY <1>5, <2>1
  <2>3. Members' = Members \ {s}
    <3>1. s \notin Members' BY <2>2 DEF Members
    <3>2. ASSUME NEW r \in 1 .. made, r # s PROVE r \in Members' <=> r \in Members
      <4>1. spc'[r] = spc[r] BY <1>3, <3>2, MembersTyped
      <4> QED BY <1>1, <2>1, <4>1 DEF Members
    <3> QED BY <1>1, <3>1, <3>2 DEF Members
  <2>4. EntryInv' BY <1>1, <2>1, <2>3, UnlistEntry
  <2>5. \A v \in Threads : ~(user[v].pc = "found" /\ user[v].op # "own") BY <2>1 DEF HashMutexFree
  <2>6. LifeInv'
    <3>1. \A r \in Sessions : ~started[r] => spc'[r] = "none" BY <1>3, <1>4 DEF LifeInv
    <3>2. \A r \in freed : r \in Sessions /\ r <= made /\ (r \in givenup \/ spc'[r] = "done")
      BY <1>3, <2>1 DEF LifeInv, TInv, TypeOK
    <3>3. \A r \in Sessions : spc'[r] \in {"none", "run"} \/ down[r] BY <1>3, <2>1 DEF LifeInv
    <3>4. \A r \in Sessions : readers[r] # {} /\ r \notin late => spc'[r] \in Open
      BY <1>3, <2>1 DEF LifeInv, Open
    <3> QED BY <1>1, <2>1, <3>1, <3>2, <3>3, <3>4 DEF LifeInv
  <2> QED BY <1>6, <1>7, <2>3, <2>4, <2>5, <2>6
<1>13. CASE DestroyFree(s)
  <2>1. /\ spc[s] = "unlisted" /\ spc' = [spc EXCEPT ![s] = "done"] /\ freed' = freed \cup {s}
        /\ UNCHANGED <<table, count, raced, down>>
    BY <1>13 DEF DestroyFree, admission, history, session
  <2>2. spc'[s] = "done" BY <1>5, <2>1
  <2>3. Members' = Members
    <3>1. s \notin Members' /\ s \notin Members BY <2>1, <2>2 DEF Members
    <3>2. ASSUME NEW r \in 1 .. made, r # s PROVE r \in Members' <=> r \in Members
      <4>1. spc'[r] = spc[r] BY <1>3, <3>2, MembersTyped
      <4> QED BY <1>1, <2>1, <3>2, <4>1 DEF Members
    <3> QED BY <1>1, <3>1, <3>2 DEF Members
  <2>4. EntryInv' BY <1>1, <2>1, <2>3, EntrySame
  <2>5. \A v \in Threads : user[v].pc = "found" /\ user[v].op # "own"
                             => spc'[user[v].s] \notin {"unlisted", "done"}
    BY <1>3, <1>8, <2>1
  <2>6. LifeInv'
    <3>1. \A r \in Sessions : ~started[r] => spc'[r] = "none" BY <1>3, <1>4 DEF LifeInv
    <3>2. \A r \in freed' : r \in Sessions /\ r <= made /\ (r \in givenup \/ spc'[r] = "done")
      BY <1>3, <1>4, <2>1, <2>2 DEF LifeInv, TInv, TypeOK
    <3>3. \A r \in Sessions : spc'[r] \in {"none", "run"} \/ down[r] BY <1>3, <2>1 DEF LifeInv
    <3>4. \A r \in Sessions : readers[r] # {} /\ r \notin late => spc'[r] \in Open
      BY <1>3, <2>1 DEF LifeInv, Open
    <3> QED BY <1>1, <2>1, <3>1, <3>2, <3>3, <3>4 DEF LifeInv
  <2> QED BY <1>6, <1>7, <2>3, <2>4, <2>5, <2>6
<1> QED BY <1>10, <1>11, <1>12, <1>13 DEF SessionStep

LEMMA InitTable ==
    ASSUME Init
    PROVE  TableInv
<1> USE NumbersAssumption
<1>1. TInv BY InitTyped
<1>2. Members = {} BY DEF Init, Members
<1>3. EntryInv
  <2>1. PICK S : S = 1 .. made OBVIOUS
  <2>2. <<>> \in Seq(S) OBVIOUS
  <2>3. table \in [Keys -> Seq(1 .. made)] BY <2>1, <2>2 DEF Init
  <2> QED BY <1>2, <2>3, FS_EmptySet DEF Init, EntryInv
<1>4. LifeInv BY DEF Init, LifeInv
<1>5. PlaceInv
  <2>1. \A t \in Threads : user[t] = Idle BY DEF Init
  <2>2. ~Owning(Idle) /\ Hands(Idle) /\ Owned(Idle) /\ Hupped(Idle) /\ \A t \in Threads : Held(t, Idle)
    BY DEF Idle, Owning, Hands, Owned, Hupped, Held, Busy, UserPC
  <2> QED BY <2>1, <2>2 DEF PlaceInv
<1> QED BY <1>1, <1>3, <1>4, <1>5 DEF TableInv

LEMMA NextTable ==
    ASSUME TableInv, [Next]_vars
    PROVE  TableInv'
<1>0. TInv' BY NextTyped DEF TableInv
<1>1. ASSUME NEW t \in Threads, ThreadStep(t)
      PROVE  TableInv'
  BY <1>0, <1>1, ThreadKept, InsertKept, RenameKept, OwnerUnlistKept, OwnerFreeKept, LaunchThreadKept
<1>2. ASSUME NEW s \in Sessions, SessionStep(s)
      PROVE  TableInv'
  BY <1>0, <1>2, SessionKept
<1>3. CASE Refill \/ UNCHANGED vars
  <2>1. UNCHANGED <<table, count, made, uuid, down, started, spc, readers, freed, user, history>>
    BY <1>3 DEF Refill, vars, admission, session
  <2>2. Members' = Members BY <2>1 DEF Members
  <2>3. EntryInv' BY <2>1, <2>2, EntrySame DEF TableInv, history
  <2>4. LifeInv' BY <2>1 DEF LifeInv, TableInv, history
  <2>5. PlaceInv'
    BY <2>1, <2>2 DEF PlaceInv, TableInv, Hands, Held, Owned, Owning, Hupped, Covered, history
  <2> QED BY <1>0, <2>3, <2>4, <2>5 DEF TableInv
<1> QED BY <1>1, <1>2, <1>3 DEF Next

-----------------------------------------------------------------------------
(* What follows from it *)

(* No session is freed under the read lock of a thread, whatever the owners *)
(* and the other threads do, unless the lock was taken behind the check of  *)
(* SSF_DESTROYED or the session is one that its owner destroys; and none is *)
(* freed between its lookup and the try at its lock.                        *)
THEOREM NothingHeldIsFreed == Spec => []HeldIsLive
<1>1. TableInv => HeldIsLive
  <2> SUFFICES ASSUME TableInv PROVE HeldIsLive OBVIOUS
  <2>1. ASSUME NEW s \in Sessions, readers[s] # {}, s \in freed PROVE s \in late \cup givenup
    BY <2>1 DEF TableInv, LifeInv, Open
  <2>2. ASSUME NEW t \in Threads, user[t].pc = "found", user[t].op # "own"
        PROVE  user[t].s \notin freed \ givenup
    BY <2>2 DEF TableInv, LifeInv, PlaceInv, Hands
  <2> QED BY <2>1, <2>2 DEF HeldIsLive
<1>2. Init => TableInv BY InitTable
<1>3. TableInv /\ [Next]_vars => TableInv' BY NextTable
<1> QED BY <1>1, <1>2, <1>3, PTL DEF Spec

(* The owner of a session that is not launched yet finds it there and with  *)
(* no thread, though others find it in the table, hold it, send it messages *)
(* or rename their own; unless one of them hung it up, which launches it.   *)
THEOREM OwnerUsesLiveSession == Spec => []OwnerIsLive
<1>1. TableInv => OwnerIsLive
  <2> SUFFICES ASSUME TableInv, NEW t \in Threads,
                      \/ user[t].pc \in {"own", "destroy", "free"}
                      \/ user[t].pc = "launch" /\ user[t].op = "own",
                      user[t].s \notin preempted
               PROVE  Live(t) /\ spc[user[t].s] = "none"
    BY DEF OwnerIsLive
  <2>1. Owning(user[t]) BY DEF Owning
  <2>2. ~started[user[t].s] /\ user[t].s \notin freed BY <2>1 DEF TableInv, PlaceInv, Owned
  <2>3. user[t].s \in Sessions BY DEF TableInv, TInv, GoodUser, Busy, UserPC
  <2> QED BY <2>2, <2>3 DEF Live, TableInv, LifeInv
<1>2. Init => TableInv BY InitTable
<1>3. TableInv /\ [Next]_vars => TableInv' BY NextTable
<1> QED BY <1>1, <1>2, <1>3, PTL DEF Spec

(* session_table finds every session under its uuid and nothing else, and   *)
(* session_count is their number, through any requests, renames, launches,  *)
(* failures and destructions; but for the uuids that the unlocked test in   *)
(* switch_core_session_request_uuid gave to two sessions and those changed  *)
(* for a session that had already left the table.                           *)
THEOREM TableExact == Spec => []TableIsExact
<1>1. TableInv => TableIsExact
  <2> SUFFICES ASSUME TableInv PROVE TableIsExact OBVIOUS
  <2>1. ASSUME NEW k \in Keys \ raced, table[k] # <<>>
        PROVE  Head(table[k]) \in Members /\ uuid[Head(table[k])] = k
    <3>1. PICK s \in Members : table[k] = <<s>> /\ uuid[s] = k BY <2>1 DEF TableInv, EntryInv
    <3>2. Head(<<s>>) = s OBVIOUS
    <3> QED BY <3>1, <3>2
  <2> QED BY <2>1 DEF TableIsExact, TableInv, EntryInv
<1>2. Init => TableInv BY InitTable
<1>3. TableInv /\ [Next]_vars => TableInv' BY NextTable
<1> QED BY <1>1, <1>2, <1>3, PTL DEF Spec

(* switch_core_session_hupall leaves no session up that it had collected,   *)
(* though sessions end, are launched, renamed and replaced between its      *)
(* lookups; but for those renamed meanwhile or that share their uuid.       *)
THEOREM HupAllHangsUpAll == Spec => []HupAllComplete
<1>1. TableInv => HupAllComplete
  <2> SUFFICES ASSUME TableInv, NEW t \in Threads, user[t].pc = "hup", user[t].todo = {}, NEW s \in user[t].seen
               PROVE  down[s] \/ s \notin Members \/ s \in renamed \/ uuid[s] \in raced
    BY DEF HupAllComplete
  <2>1. user[t].op = "hupall" BY DEF TableInv, PlaceInv, Hands
  <2>2. Covered(user[t], s) BY <2>1 DEF TableInv, PlaceInv, Hupped
  <2> QED BY <2>2 DEF Covered
<1>2. Init => TableInv BY InitTable
<1>3. TableInv /\ [Next]_vars => TableInv' BY NextTable
<1> QED BY <1>1, <1>2, <1>3, PTL DEF Spec
=============================================================================
