------------------------------ MODULE MediaBug ------------------------------
(***************************************************************************)
(* The media bugs of one session (switch_core_media_bug.c): the linked     *)
(* list session->bugs, guarded by bug_rwlock, and the threads that add,    *)
(* remove, pop and prune its elements.  Several threads do so at once: the *)
(* session's own, a bridge peer's that writes its audio, an API's.         *)
(*                                                                         *)
(* What a function does with the write lock held is one action; what it    *)
(* tests or does before or after is another.  The list is kept as the C    *)
(* pointers it is made of, because prune keeps one across two passes.      *)
(***************************************************************************)
EXTENDS Naturals, FiniteSets

CONSTANTS
    Threads,
    Adders,         \* the threads that add bugs
    Kinds,          \* a function name, with its callback and flags
    OneOnly,        \* the kinds added with SMBF_ONE_ONLY
    Native,         \* the kinds added with SMBF_TAP_NATIVE_READ or _WRITE
    ThreadLocked,   \* the kinds added with SMBF_THREAD_LOCK
    Popped,         \* the kinds that are popped: the eavesdrop bugs
    FunctionSets,   \* what remove_all_function is called for: Kinds for no
                    \* function, {k} for one
    MaxBugs         \* bound: bugs added, in all

ASSUME BugAssumption ==
    /\ Adders \subseteq Threads
    /\ OneOnly \cup Native \cup ThreadLocked \cup Popped \subseteq Kinds
    /\ FunctionSets \subseteq SUBSET Kinds
    /\ MaxBugs \in Nat

NULL == 0
Bugs == 1 .. MaxBugs

VARIABLES
    head,       \* session->bugs
    next,       \* bp->next
    kind,       \* bp->function, callback and flags of each bug that was added
    thread_id,  \* the thread that locked the bug, if any: {} or {t}
    locked,     \* the bugs with SMBF_LOCK
    pruned,     \* the bugs with SMBF_PRUNE
    ready,      \* the bugs with bp->ready
    closed,     \* history: CLOSE callbacks of each bug, counted up to two
    tapOnly,    \* SSF_MEDIA_BUG_TAP_ONLY
    user,       \* where each thread is
    taken,      \* history: the bugs that a pop has handed to an eavesdropper
    spared,     \* history: the bugs that the removal of all did not close,
                \* because of their function or of a lock, when it emptied the
                \* list
    misled,     \* history: has a pass of prune unlinked the head of the list
                \* by way of a last that an earlier pass left behind?
    crossed,    \* history: the kinds that were added while another thread was
                \* past the test for the same kind
    overtaken,  \* history: the threads that have looked at the list to set the
                \* tap flag, and another bug was added since
    stale       \* history: was the tap flag last set by such a thread?

flags == <<thread_id, locked, pruned>>
drops == <<taken, spared>>
races == <<crossed, overtaken, stale>>
bugs == <<head, next, kind, flags, ready, closed, tapOnly, user, drops, misled, races>>

Attached == DOMAIN kind
Idle == [pc |-> "idle"]
Goto(t, at) == user' = [user EXCEPT ![t] = at]
At(pc) == {t \in Threads : user[t].pc = pc}

(***************************************************************************)
(* The list.                                                               *)
(***************************************************************************)
\* Where a loop that starts at b and goes on from the bugs in S is after each step.
Steps(S, b) == LET at[n \in 0 .. MaxBugs] ==
                     IF n = 0 THEN b
                     ELSE IF at[n - 1] \in S THEN next[at[n - 1]] ELSE at[n - 1]
               IN  at

\* The bug that a loop over the list is at after n steps; NULL at its end.
Walk == Steps(Bugs, head)

Listed == {Walk[n] : n \in 0 .. MaxBugs} \ {NULL}

\* Where a loop that stops at the first bug of S, or at the end, stops.
Stop(S) == CHOOSE n \in 0 .. MaxBugs :
             /\ Walk[n] \in S \cup {NULL}
             /\ \A m \in 0 .. n - 1 : Walk[m] \notin S \cup {NULL}

\* The value of last in the loop that stops there, with its value before.
LastAt(n, before) == IF n = 0 THEN before ELSE Walk[n - 1]

\* Mutant: the head of the list is never replaced.
UnlinkInner(last, bp) ==
    /\ next' = IF last = NULL THEN next ELSE [next EXCEPT ![last] = next[bp]]
    /\ UNCHANGED head

Unlink(last, bp) ==
    /\ head' = IF last = NULL THEN next[bp] ELSE head
    /\ next' = IF last = NULL THEN next ELSE [next EXCEPT ![last] = next[bp]]

Insert(new) == head' = new /\ next' = [next EXCEPT ![new] = head]

\* The first bug from b on that is not in S.
After(S, b) == Steps(S, b)[MaxBugs]

\* Does the thread lock of a bug let t remove it?
Mine(t, b) == thread_id[b] \subseteq {t}

Count2(n) == IF n = 2 THEN 2 ELSE n + 1

\* The CLOSE callbacks of the bugs in S.
Closing(S) == closed' = [b \in Bugs |-> IF b \in S THEN Count2(closed[b]) ELSE closed[b]]

(***************************************************************************)
(* switch_core_media_bug_add: the test for another bug of the function,    *)
(* the INIT callback, which may refuse, the insertion with a look at the   *)
(* whole list, and, after the unlock, the flag of the session.             *)
(***************************************************************************)
AddCheck(t, k) ==
    /\ user[t] = Idle /\ t \in Adders
    /\ Cardinality(Attached) < MaxBugs
    /\ k \in OneOnly => \A b \in Listed : kind[b] # k
    /\ Goto(t, [pc |-> "add", kind |-> k])
    /\ UNCHANGED <<head, next, kind, flags, ready, closed, tapOnly, drops, misled, races>>

\* The channel has no media, or the INIT callback returns SWITCH_FALSE.
AddRefused(t) ==
    /\ user[t].pc = "add"
    /\ Goto(t, Idle)
    /\ UNCHANGED <<head, next, kind, flags, ready, closed, tapOnly, drops, misled, races>>

TapAfter(k) ==
    k \in Native /\ \A b \in Listed \cap ready : kind[b] \in Native

AddInsert(t) ==
    /\ user[t].pc = "add"
    /\ Cardinality(Attached) < MaxBugs
    /\ LET new == Cardinality(Attached) + 1
           k   == user[t].kind
       IN  /\ Insert(new)
           /\ kind' = [b \in Attached \cup {new} |-> IF b = new THEN k ELSE kind[b]]
           /\ thread_id' = [thread_id EXCEPT ![new] =
                              IF k \in ThreadLocked THEN {t} ELSE {}]
           /\ ready' = ready \cup {new}
           /\ Goto(t, [pc |-> "tap", tap |-> TapAfter(k)])
           /\ crossed' = crossed \cup ({k} \cap {user[u].kind : u \in At("add") \ {t}})
    /\ overtaken' = overtaken \cup At("tap")
    /\ UNCHANGED <<locked, pruned, closed, tapOnly, drops, misled, stale>>

AddTap(t) ==
    /\ user[t].pc = "tap"
    /\ tapOnly' = user[t].tap
    /\ stale' = (t \in overtaken)
    /\ overtaken' = overtaken \ {t}
    /\ Goto(t, Idle)
    /\ UNCHANGED <<head, next, kind, flags, ready, closed, drops, misled, crossed>>

(***************************************************************************)
(* switch_core_media_bug_remove, by whoever kept the bug's pointer: the    *)
(* test of SMBF_LOCK, the unlinking, and the close after the unlock.  Its  *)
(* tap_only is never anything but 0, so that it clears the flag.           *)
(***************************************************************************)
RemoveCheck(t, b) ==
    /\ user[t] = Idle
    /\ b \notin locked
    /\ Goto(t, [pc |-> "remove", bug |-> b])
    /\ UNCHANGED <<head, next, kind, flags, ready, closed, tapOnly, drops, misled, races>>

RemoveUnlink(t) ==
    /\ user[t].pc = "remove"
    /\ LET b == user[t].bug
           n == Stop({b})
       IN  IF b \in Listed \cap ready /\ Mine(t, b)
           THEN Unlink(LastAt(n, NULL), b) /\ Goto(t, [pc |-> "close", bug |-> b])
           ELSE Goto(t, Idle) /\ UNCHANGED <<head, next>>
    /\ tapOnly' = FALSE
    /\ stale' = FALSE
    /\ UNCHANGED <<kind, flags, ready, closed, drops, misled, crossed, overtaken>>

\* Mutant: remove forgets to close what it has unlinked.
CloseForgotten(t) ==
    /\ user[t].pc = "close"
    /\ Goto(t, Idle)
    /\ UNCHANGED <<head, next, kind, flags, ready, closed, tapOnly, drops, misled, races>>

\* switch_core_media_bug_close
Close(t) ==
    /\ user[t].pc = "close"
    /\ LET S == {b \in {user[t].bug} : Mine(t, b) /\ b \notin locked}
       IN  Closing(S) /\ ready' = ready \ S
    /\ Goto(t, Idle)
    /\ UNCHANGED <<head, next, kind, flags, tapOnly, drops, misled, races>>

(***************************************************************************)
(* Removal of many bugs, with the lock held throughout.                    *)
(***************************************************************************)
\* switch_core_media_bug_remove_callback: the bugs of the callback leave the
\* list, and those of them that are not locked are closed.
RemoveCallback(t, k) ==
    /\ user[t] = Idle
    /\ LET out == {b \in Listed \cap ready : kind[b] = k /\ Mine(t, b)}
       IN  /\ out # {}
           /\ head' = After(out, head)
           /\ next' = [b \in Bugs |-> IF b \in Listed \ out THEN After(out, next[b]) ELSE next[b]]
           /\ Closing(out \ locked)
           /\ ready' = ready \ (out \ locked)
    /\ UNCHANGED <<kind, flags, tapOnly, user, drops, misled, races>>

\* switch_core_media_bug_remove_all_function: the bugs of the kinds K that are
\* neither locked nor another thread's are closed; the list is then emptied.
RemoveAllFunction(t, K) ==
    /\ user[t] = Idle /\ head # NULL
    /\ LET out == {b \in Listed : kind[b] \in K /\ Mine(t, b) /\ b \notin locked}
       IN  Closing(out) /\ spared' = spared \cup (Listed \ out)
    /\ head' = NULL
    /\ UNCHANGED <<next, kind, flags, ready, tapOnly, user, taken, misled, races>>

(***************************************************************************)
(* SMBF_PRUNE is set by the media threads, on a bug of the list whose time *)
(* is over or whose callback returns SWITCH_FALSE, and by a callback       *)
(* itself (with set_flag, which also clears SMBF_LOCK), without the write  *)
(* lock.  Whoever sees it calls prune.                                     *)
(***************************************************************************)
Flag(t, b, setFlag) ==
    /\ user[t] = Idle
    /\ b \in (Listed \cap ready) \ pruned
    /\ pruned' = pruned \cup {b}
    /\ locked' = IF setFlag THEN locked \ {b} ELSE locked
    /\ UNCHANGED <<head, next, kind, thread_id, ready, closed, tapOnly, user, drops, misled, races>>

\* switch_core_media_bug_pop, by eavesdrop_pop_eavesdropper, which sets
\* SMBF_PRUNE after the unlock unless the bug is its own session's.
Pop(t, k) ==
    /\ user[t] = Idle /\ k \in Popped
    /\ LET b == Walk[Stop({c \in Listed : kind[c] = k})]
       IN  /\ b # NULL
           /\ locked' = locked \cup {b}
           /\ taken' = taken \cup {b}
           /\ Goto(t, [pc |-> "popped", bug |-> b])
    /\ UNCHANGED <<head, next, kind, thread_id, pruned, ready, closed, tapOnly, spared, misled, races>>

PopFlag(t) ==
    /\ user[t].pc = "popped"
    /\ pruned' = pruned \cup {user[t].bug}
    /\ locked' = locked \ {user[t].bug}
    /\ Goto(t, Idle)
    /\ UNCHANGED <<head, next, kind, thread_id, ready, closed, tapOnly, drops, misled, races>>

(***************************************************************************)
(* switch_core_media_bug_prune: one pass unlinks the first bug that is     *)
(* flagged, which is closed after the unlock; then the next pass.  last is *)
(* not reset at the label top.                                             *)
(***************************************************************************)
Prune(t) ==
    /\ user[t] = Idle
    /\ Listed \cap pruned # {}
    /\ Goto(t, [pc |-> "prune", last |-> NULL])
    /\ UNCHANGED <<head, next, kind, flags, ready, closed, tapOnly, drops, misled, races>>

PruneScan(t) ==
    /\ user[t].pc = "prune"
    /\ LET n    == Stop(pruned)
           last == LastAt(n, user[t].last)
       IN  IF Walk[n] = NULL
           THEN Goto(t, Idle) /\ UNCHANGED <<head, next, misled>>
           ELSE /\ Unlink(last, Walk[n])
                /\ Goto(t, [pc |-> "prune_close", last |-> last, bug |-> Walk[n]])
                /\ misled' = (misled \/ (n = 0 /\ last # NULL))
    /\ UNCHANGED <<kind, flags, ready, closed, tapOnly, drops, races>>

PruneClose(t) ==
    /\ user[t].pc = "prune_close"
    /\ LET b == user[t].bug
       IN  /\ locked' = locked \ {b}
           /\ thread_id' = [thread_id EXCEPT ![b] = {}]
           /\ Closing({b})
           /\ ready' = ready \ {b}
    /\ Goto(t, [pc |-> "prune", last |-> user[t].last])
    /\ UNCHANGED <<head, next, kind, pruned, tapOnly, drops, misled, races>>

BugInit ==
    /\ head = NULL
    /\ next = [b \in Bugs |-> NULL]
    /\ kind = [b \in {} |-> NULL]
    /\ thread_id = [b \in Bugs |-> {}]
    /\ locked = {} /\ pruned = {} /\ ready = {}
    /\ closed = [b \in Bugs |-> 0]
    /\ tapOnly = FALSE
    /\ user = [t \in Threads |-> Idle]
    /\ taken = {} /\ spared = {} /\ misled = FALSE
    /\ crossed = {} /\ overtaken = {} /\ stale = FALSE

\* A list with a cycle holds whoever walks it for ever.
Ends == Walk[MaxBugs] = NULL

BugNext ==
    /\ Ends
    /\ \E t \in Threads :
         \/ \E k \in Kinds : AddCheck(t, k) \/ RemoveCallback(t, k) \/ Pop(t, k)
         \/ AddRefused(t) \/ AddInsert(t) \/ AddTap(t)
         \/ \E b \in Attached :
              \/ RemoveCheck(t, b)
              \/ \E setFlag \in BOOLEAN : Flag(t, b, setFlag)
         \/ RemoveUnlink(t) \/ Close(t)
         \/ \E K \in FunctionSets : RemoveAllFunction(t, K)
         \/ PopFlag(t) \/ Prune(t) \/ PruneScan(t) \/ PruneClose(t)

BugSpec == BugInit /\ [][BugNext]_bugs

-----------------------------------------------------------------------------
(***************************************************************************)
(* Properties.                                                             *)
(***************************************************************************)
(* The pointers point to bugs that were added, the flags belong to them,   *)
(* and the list has an end, so that the loops over it do: unless prune was *)
(* misled.                                                                 *)
BugTypeOK ==
    misled \/
      /\ \E n \in 0 .. MaxBugs : kind \in [1 .. n -> Kinds]
      /\ head \in Attached \cup {NULL}
      /\ next \in [Bugs -> Attached \cup {NULL}]
      /\ thread_id \in [Bugs -> SUBSET Threads]
      /\ locked \cup pruned \cup ready \cup taken \cup spared \subseteq Attached
      /\ closed \in [Bugs -> 0 .. 2] /\ tapOnly \in BOOLEAN
      /\ crossed \subseteq Kinds /\ overtaken \subseteq Threads /\ stale \in BOOLEAN
      /\ Ends

(* A bug's CLOSE callback, which ends a recording and frees what the bug's *)
(* user keeps, runs once, whoever adds, flags, removes and prunes bugs at  *)
(* the same time, and a bug in the list, whose callback the media threads  *)
(* call, has not been closed.  The one way to break it is the last that    *)
(* switch_core_media_bug_prune does not reset, used in place of the head.  *)
ClosedOnce ==
    misled \/
      /\ \A b \in Bugs : closed[b] <= 1
      /\ \A b \in Listed : closed[b] = 0

(* A bug that was attached is in the list, is closed, or is in the hands   *)
(* of a thread that is about to close it: none is dropped without its      *)
(* CLOSE callback.  The exceptions are what a pop has locked, which a      *)
(* removal in course then does not close, and what the removal of all bugs *)
(* of a function left in the list that it empties.                         *)
NoneDropped ==
    misled \/
      \A b \in Attached :
        \/ b \in Listed \cup taken \cup spared
        \/ closed[b] > 0
        \/ \E t \in Threads :
             user[t].pc \in {"close", "prune_close"} /\ user[t].bug = b

(* Of a function that is added with SMBF_ONE_ONLY the list has one bug,    *)
(* unless two threads were between the test for another one, under the     *)
(* lock, and the insertion, under the lock again, at the same time.        *)
OneOfFunction ==
    misled \/
      \A b, c \in Listed : kind[b] = kind[c] /\ kind[b] \in OneOnly \ crossed => b = c

(* While no thread is about to write it, SSF_MEDIA_BUG_TAP_ONLY, which     *)
(* makes read_frame skip the decoding of the audio, is not set while a bug *)
(* of the list needs the decoded audio, unless the thread that wrote it    *)
(* last had looked at the list before another bug was added.               *)
TapOnlyIsRight ==
    misled \/
      (tapOnly /\ ~stale /\ At("tap") = {}
         => \A b \in Listed \cap ready : kind[b] \in Native)
=============================================================================
