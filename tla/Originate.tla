----------------------------- MODULE Originate -----------------------------
(***************************************************************************)
(* Outgoing calls (switch_ivr_originate): the thread that places a call    *)
(* dials groups of legs, one group after the other.  The legs of a group   *)
(* ring at the same time, each with a session and a thread of its own; the *)
(* first one that is answered (or confirms with a key, which a third       *)
(* thread collects) is returned to the caller, read-locked, and the others *)
(* are hung up.  Meanwhile the far ends ring, answer and hang up, the      *)
(* caller hangs up, timeouts pass, and other threads transfer a leg away.  *)
(*                                                                         *)
(* A pass over the legs is one step where it only reads (a leg that is     *)
(* down or taken stays so) and one step per leg where it acts on what it   *)
(* read.  Variables, codecs, ringback, holding (attended transfer), pickup *)
(* and swapped channels, leg_required and SOF_NOBLOCK are left out.        *)
(***************************************************************************)
EXTENDS ChannelStates, Sequences, FiniteSets, FiniteSetsExt

CONSTANTS
    Legs,           \* the sessions the call may create
    None,           \* no leg
    Options,        \* what the variables of the call may ask for
    Timelimit,      \* timelimit_sec
    ProgressLimit   \* progress_timelimit_sec

Rejects == {"off", "any", "cause"}          \* fail_on_single_reject: 0, 1, -1
Causes == {"none", "listed", "other"}       \* of a hangup: in fail_on_single_reject, or not
Media == {"RING_READY", "EARLY_MEDIA", "ANSWERED"}
Flags == Media \cup {"ORIGINATING", "BLOCK_STATE", "TAGGED", "WINNER"}
Limit == [delay : Nat, limit : Nat, progress : Nat]
MaxElapsed == Timelimit + 1

\* Every leg that is dialled is a new session.
Fresh(dial) ==
    \A g, h \in DOMAIN dial : \A k \in DOMAIN dial[g], m \in DOMAIN dial[h] :
      dial[g][k] = dial[h][m] => g = h /\ k = m

ASSUME OriginateAssumption ==
    /\ Legs \cap {None, "nada", "cancel", "timeout"} = {}
    /\ Timelimit \in Nat \ {0} /\ ProgressLimit \in Nat \ {0}
    /\ \A o \in Options :
         /\ o.dial \in Seq(Seq(Legs)) /\ o.dial # <<>> /\ \A g \in DOMAIN o.dial : o.dial[g] # <<>>
         /\ Fresh(o.dial)
         /\ o.caller \in BOOLEAN /\ o.key \in BOOLEAN /\ o.reject \in Rejects
         /\ o.early_ok \in BOOLEAN /\ o.continue \in BOOLEAN /\ o.cancel_timeout \in BOOLEAN
         /\ o.cancel \in BOOLEAN /\ o.takes \in Nat
         /\ o.media \subseteq Media /\ o.limits \in [Legs -> Limit]

VARIABLES
    opt,            \* the variables of this call
    pc,             \* where the thread of the call is
    group,          \* the group that is dialled: r, of all tries
    i,              \* the leg of the group a loop is at
    idx,            \* oglobals.idx: a leg, "nada", "cancel" or "timeout"
    hup,            \* oglobals.hups > 0
    ring_ready,     \* oglobals.ring_ready, kept from group to group
    sent_ring,      \* oglobals.sent_ring
    progress,       \* oglobals.progress
    to,             \* the time limit was reached
    check_reject,
    status,         \* status = SWITCH_STATUS_SUCCESS
    bleg,           \* *bleg
    slots,          \* the legs in originate_status
    limits,         \* their per_channel_delay_start and time limits
    elapsed,        \* seconds since the group rings
    caller,         \* the caller's channel: "none", "up" or "down"
    cancel,         \* *cancel_cause is set
    state,          \* channel->state of each leg; CS_NEW: not created
    flags,          \* its channel flags
    cause,          \* its hangup cause
    started,        \* its thread was launched
    freed,          \* its session is destroyed
    locks,          \* who holds a read lock on it: "call", "collect"
    collect,        \* its key collecting thread
    taken,          \* legs that others transferred away
    safe,           \* history: those taken when their hangup was not decided
    abandoned       \* history: legs left when creating another one failed

dialling == <<opt, group, slots, limits>>
scan == <<hup, ring_ready, sent_ring, progress>>
verdict == <<to, check_reject, status, bleg>>
call == <<dialling, pc, i, idx, scan, verdict>>
leg == <<state, flags, cause, started>>
sessions == <<freed, locks, collect, abandoned>>
outside == <<caller, cancel, taken, safe>>
world == <<elapsed, outside, leg, sessions>>
vars == <<call, world>>

Dialled == opt.dial[group]
N == Len(Dialled)
Has(l, f) == f \in flags[l]
IsUp(l) == ~Down(state[l])
Created(l) == state[l] # CS_NEW

(***************************************************************************)
(* switch_channel_perform_hangup of the legs in S: the thread of a leg     *)
(* that had none is launched, and a delayed leg is let go.                 *)
(***************************************************************************)
HangUp(S, why) ==
    LET H == {l \in S : IsUp(l)} IN
    /\ state' = [l \in Legs |-> IF l \in H THEN CS_HANGUP ELSE state[l]]
    /\ cause' = [l \in Legs |-> IF l \in H THEN why ELSE cause[l]]
    /\ started' = [l \in Legs |-> l \in H \/ started[l]]
    /\ flags' = [l \in Legs |-> flags[l] \ (IF l \in H THEN {"BLOCK_STATE"} ELSE {})]

(***************************************************************************)
(* Creating the legs of a group.                                           *)
(***************************************************************************)
AGroupIsLeft == group < Len(opt.dial) /\ ~cancel

\* The loop over the groups: no further one once the call is cancelled.
StartGroup ==
    /\ pc = "group"
    /\ IF AGroupIsLeft
       THEN /\ pc' = "create" /\ group' = group + 1 /\ i' = 1
            /\ slots' = {} /\ hup' = FALSE /\ to' = FALSE /\ check_reject' = TRUE
            /\ sent_ring' = FALSE /\ progress' = FALSE
       ELSE pc' = "return" /\ UNCHANGED <<group, i, slots, hup, to, check_reject, sent_ring, progress>>
    /\ UNCHANGED <<opt, idx, ring_ready, status, bleg, limits, world>>

\* The next leg of the group; or the group rings.
NextLeg ==
    /\ pc' = IF i < N THEN "create" ELSE "launch"
    /\ i' = IF i < N THEN i + 1 ELSE i
    /\ elapsed' = IF i < N THEN elapsed ELSE 0

\* The caller has hung up: no more legs.
CreateLate ==
    /\ pc = "create" /\ caller = "down"
    /\ status' = FALSE /\ pc' = "done"
    /\ UNCHANGED <<dialling, i, idx, to, check_reject, bleg, scan, world>>

\* switch_core_session_outgoing_channel fails.  With fail_on_single_reject that
\* is the end of the call, and the legs created before are left as they are.
CreateRefused(why) ==
    /\ pc = "create" /\ caller # "down"
    /\ IF opt.reject = "any" \/ (opt.reject = "cause" /\ why = "listed")
       THEN /\ status' = FALSE /\ pc' = "return"
            /\ check_reject' = FALSE /\ abandoned' = abandoned \cup slots
            /\ UNCHANGED <<i, elapsed>>
       ELSE /\ NextLeg
            /\ check_reject' = (check_reject /\ opt.reject = "off")
            /\ UNCHANGED <<status, abandoned>>
    /\ UNCHANGED <<dialling, idx, to, bleg, scan, freed, locks, collect, outside, leg>>

\* The endpoint creates the session and puts it into CS_INIT.
CreateLeg ==
    /\ pc = "create" /\ caller # "down"
    /\ state' = [state EXCEPT ![Dialled[i]] = CS_INIT]
    /\ pc' = "lock"
    /\ UNCHANGED <<dialling, i, idx, scan, verdict, elapsed, flags, cause, started, outside, sessions>>

\* The read lock, which a leg that is already down refuses; flags, handlers and
\* the thread.
LockLeg ==
    /\ pc = "lock"
    /\ LET l == Dialled[i]
           block == IF limits[l].delay > 0 /\ ~started[l] THEN {"BLOCK_STATE"} ELSE {} IN
       IF IsUp(l)
       THEN /\ locks' = [locks EXCEPT ![l] = @ \cup {"call"}]
            /\ flags' = [flags EXCEPT ![l] = @ \cup {"ORIGINATING"} \cup block]
            /\ started' = [started EXCEPT ![l] = TRUE]
            /\ slots' = slots \cup {l}
            /\ NextLeg /\ UNCHANGED status
       ELSE /\ status' = FALSE /\ pc' = "done"
            /\ UNCHANGED <<slots, i, locks, flags, started, elapsed>>
    /\ UNCHANGED <<opt, group, idx, to, check_reject, bleg, limits, scan, state, cause, freed, collect,
                   abandoned, outside>>

(***************************************************************************)
(* check_per_channel_timeouts: delayed legs are let go when their time     *)
(* comes, or all the others have ended; then the limits of a leg count     *)
(* from there.  Legs over their limit are hung up, whoever has them now.   *)
(***************************************************************************)
\* A difference of unsigned numbers that would be negative is larger than any limit.
Shorten(limit, min) ==
    IF limit = 0 THEN 0
    ELSE IF elapsed <= min /\ limit > min - elapsed THEN limit - (min - elapsed) ELSE 1

TimersOff == opt.cancel_timeout /\ \E l \in Legs : Has(l, "TAGGED")

Delayed == {l \in slots : limits[l].delay > 0}
AllEnded(S) == \A l \in S : state[l] \in {CS_REPORTING, CS_DESTROY}
OnlyDelayed == AllEnded(slots \ Delayed) /\ ~AllEnded(Delayed)

NewLimits ==
    [l \in Legs |->
       IF l \in Delayed /\ OnlyDelayed
       THEN LET min == Min({limits[d].delay : d \in Delayed}) IN
            [delay |-> limits[l].delay - min, limit |-> Shorten(limits[l].limit, min),
             progress |-> Shorten(limits[l].progress, min)]
       ELSE IF l \in Delayed /\ elapsed > limits[l].delay THEN [limits[l] EXCEPT !.delay = 0]
       ELSE limits[l]]

LegIsLate(l, limit) ==
    \/ limit.limit > 0 /\ elapsed > limit.limit
    \/ limit.progress > 0 /\ elapsed > limit.progress /\ flags[l] \cap Media = {}

CheckTimeouts ==
    IF TimersOff THEN UNCHANGED <<limits, leg>>
    ELSE LET late == {l \in slots : IsUp(l) /\ LegIsLate(l, NewLimits[l])}
             due  == {l \in Delayed : NewLimits[l].delay = 0} IN
         /\ limits' = NewLimits
         /\ state' = [l \in Legs |-> IF l \in late THEN CS_HANGUP ELSE state[l]]
         /\ cause' = [l \in Legs |-> IF l \in late THEN "other" ELSE cause[l]]
         /\ flags' = [l \in Legs |-> flags[l] \ (IF l \in late \cup due THEN {"BLOCK_STATE"} ELSE {})]
         /\ UNCHANGED started

(***************************************************************************)
(* Waiting for the legs.                                                   *)
(***************************************************************************)
ProgressIsLate == ~sent_ring /\ ~progress /\ elapsed > ProgressLimit

\* The loop until one leg is at least in CS_ROUTING: the first leg that is up
\* and is not there yet looks at the caller and at the clock.
Launch ==
    /\ pc = "launch"
    /\ LET ups    == {k \in 1 .. N : Dialled[k] \in slots /\ IsUp(Dialled[k])}
           routed == {k \in ups : state[Dialled[k]] >= CS_ROUTING}
           late   == elapsed > Timelimit \/ ProgressIsLate IN
       \/ /\ ups # {} /\ (Min(ups) \in routed \/ (routed # {} /\ caller # "down" /\ ~late))
          /\ pc' = "check" /\ UNCHANGED <<idx, to, status, limits, leg>>
       \/ /\ ups # {} /\ Min(ups) \notin routed /\ (caller = "down" \/ late)
          /\ pc' = "notready"
          /\ idx' = IF caller = "down" THEN idx ELSE "timeout"
          /\ to' = (caller # "down") /\ UNCHANGED <<status, limits, leg>>
       \/ /\ ups # {} /\ routed = {} /\ caller # "down" /\ ~late
          /\ CheckTimeouts /\ UNCHANGED <<pc, idx, to, status>>
       \/ /\ ups = {}
          /\ CheckTimeouts /\ status' = FALSE /\ pc' = "done" /\ UNCHANGED <<idx, to>>
    /\ UNCHANGED <<opt, group, i, check_reject, bleg, slots, scan, elapsed, outside, sessions>>

(* check_channel_status.  A leg counts while it is up and nobody else has taken it. *)
Candidate(l) == l \in slots /\ IsUp(l) /\ Has(l, "ORIGINATING")
Accepted(l) == Has(l, "ANSWERED") \/ (opt.early_ok /\ Has(l, "EARLY_MEDIA"))

\* Mutant: a leg wins that was answered but has not confirmed.
WinsUnconfirmed(l) == Candidate(l) /\ (Accepted(l) \/ Has(l, "WINNER"))

Wins(l) ==
    /\ Candidate(l)
    /\ IF opt.key THEN Has(l, "WINNER") ELSE Accepted(l) /\ ~Has(l, "TAGGED")

\* The legs are looked at in order up to the first that wins.  Those that are
\* answered get a thread that collects the key, if there is one.
Check ==
    /\ pc = "check" /\ caller # "down"
    /\ LET winners == {k \in 1 .. N : Wins(Dialled[k])}
           seen    == 1 .. (IF winners = {} THEN N ELSE Min(winners))
           alive   == {k \in seen : Dialled[k] \in slots}
           asked   == {l \in {Dialled[k] : k \in alive} :
                         opt.key /\ Candidate(l) /\ Accepted(l) /\ ~Has(l, "TAGGED")}
           sounds  == {k \in alive : flags[Dialled[k]] \cap {"RING_READY", "EARLY_MEDIA"} # {}}
           lost    == {k \in 1 .. N : ~Candidate(Dialled[k])} IN
       /\ ring_ready' = (ring_ready \/ sounds # {})
       /\ sent_ring' = (\/ sent_ring
                        \/ /\ caller = "up" /\ ~ring_ready /\ sounds # {}
                           /\ Has(Dialled[Min(sounds)], "RING_READY"))
       /\ progress' = (progress \/ \E k \in alive : Has(Dialled[k], "EARLY_MEDIA"))
       /\ hup' = (lost # {})
       /\ flags' = [l \in Legs |-> flags[l] \cup (IF l \in asked THEN {"TAGGED"} ELSE {})]
       /\ collect' = [l \in Legs |-> IF l \in asked THEN "new" ELSE collect[l]]
       /\ idx' = IF winners = {} THEN "nada" ELSE Dialled[Min(winners)]
       /\ pc' = IF winners # {} \/ lost = 1 .. N THEN "notready" ELSE "limits"
    /\ UNCHANGED <<dialling, i, verdict, elapsed, state, cause, started, freed, locks, abandoned, outside>>

CheckLate ==
    /\ pc = "check" /\ caller = "down"
    /\ pc' = "notready"
    /\ UNCHANGED <<dialling, i, idx, scan, verdict, world>>

\* Mutant: the limit of the call counts only until the caller hears it ring.
OverdueUnlessRinging == elapsed >= Timelimit /\ ~sent_ring

Overdue == elapsed >= Timelimit
IsListed(l) == l \in slots /\ ~IsUp(l) /\ cause[l] = "listed"

\* The rest of the loop: the cancel cause, the limits of the legs, of progress
\* and of the call.  A list of causes in fail_on_single_reject leaves the
\* decision to the causes of the legs, the time limit's too.
Limits ==
    /\ pc = "limits"
    /\ IF cancel
       THEN idx' = "cancel" /\ pc' = "notready" /\ UNCHANGED <<to, limits, leg>>
       ELSE LET over == Overdue \/ (opt.reject # "off" /\ hup)
                ends == opt.reject # "cause" \/ \E l \in Legs : IsListed(l)
                stop == ProgressIsLate \/ (over /\ ends) IN
            /\ CheckTimeouts
            /\ to' = IF ProgressIsLate THEN to ELSE Overdue
            /\ idx' = IF stop THEN "timeout" ELSE idx
            /\ pc' = IF stop THEN "notready" ELSE "check"
    /\ UNCHANGED <<opt, group, i, check_reject, status, bleg, slots, scan, elapsed, outside, sessions>>

\* The caller presses the cancel key, or its audio cannot be read any more.
CallerLeaves ==
    /\ pc = "limits" /\ caller = "up" /\ ~cancel
    /\ pc' = "notready"
    /\ UNCHANGED <<dialling, i, idx, scan, verdict, world>>

(***************************************************************************)
(* The end of a group: losers, the winner, and cleaning up.                *)
(***************************************************************************)
NotReady ==
    /\ pc = "notready"
    /\ idx' = IF caller = "down" THEN "cancel" ELSE idx
    /\ i' = 1 /\ pc' = "lose"
    /\ UNCHANGED <<dialling, scan, verdict, world>>

\* Mutant: a leg that others have taken is the call's to hang up.
EligibleEvenTaken(l) == l \in slots

\* peer_eligible
Eligible(l) == l \in slots /\ Has(l, "ORIGINATING")

\* The leg at i is to be hung up, is passed over, or there is none.
LoseTest ==
    /\ pc = "lose"
    /\ \/ i <= N /\ Eligible(Dialled[i]) /\ Dialled[i] # idx /\ pc' = "losehang" /\ UNCHANGED i
       \/ i <= N /\ ~(Eligible(Dialled[i]) /\ Dialled[i] # idx) /\ i' = i + 1 /\ UNCHANGED pc
       \/ i > N /\ pc' = "answer" /\ UNCHANGED i
    /\ UNCHANGED <<dialling, idx, scan, verdict, world>>

LoseHang ==
    /\ pc = "losehang"
    /\ HangUp({Dialled[i]}, "other")
    /\ i' = i + 1 /\ pc' = "lose"
    /\ UNCHANGED <<dialling, idx, scan, verdict, elapsed, outside, sessions>>

\* The winner, if there is one: the caller is answered as the winner was.  If
\* that fails the winner is hung up, and returned all the same.
Answer(ok) ==
    /\ pc = "answer" /\ idx \in Legs
    /\ LET answers == caller # "none" /\ flags[idx] \cap {"ANSWERED", "EARLY_MEDIA"} # {}
       IN  /\ ~answers => ok
           /\ answers /\ caller = "down" => ~ok
    /\ IF ok THEN UNCHANGED leg ELSE HangUp({idx}, "other")
    /\ status' = Accepted(idx)
    /\ bleg' = IF Accepted(idx) THEN idx ELSE bleg
    /\ pc' = "done"
    /\ UNCHANGED <<dialling, i, idx, to, check_reject, scan, elapsed, outside, sessions>>

NoWinner ==
    /\ pc = "answer" /\ idx \notin Legs
    /\ status' = FALSE /\ pc' = "done"
    /\ UNCHANGED <<dialling, i, idx, to, check_reject, bleg, scan, world>>

\* done: a caller that is gone has no use for a leg.
Done ==
    /\ pc = "done"
    /\ status' = (status /\ caller # "down")
    /\ i' = 1 /\ pc' = "clean"
    /\ UNCHANGED <<dialling, idx, to, check_reject, bleg, scan, world>>

Kept(l) == status /\ l = bleg
ToHangUp(l) == ~status /\ IsUp(l) /\ Has(l, "ORIGINATING")

\* The leg at i is not the call's any more: the flag and the read lock go.
LetGo(l) ==
    /\ locks' = [locks EXCEPT ![l] = @ \ {"call"}]
    /\ i' = i + 1 /\ pc' = "clean"

\* Mutant: the winner's lock is given back with the others'.
CleanWinnerToo ==
    /\ pc = "clean" /\ i <= N /\ Dialled[i] \in slots /\ ~ToHangUp(Dialled[i])
    /\ flags' = [flags EXCEPT ![Dialled[i]] = @ \ {"ORIGINATING"}]
    /\ LetGo(Dialled[i])
    /\ UNCHANGED <<dialling, idx, scan, verdict, elapsed, state, cause, started, freed,
                   collect, abandoned, outside>>

Clean ==
    /\ pc = "clean" /\ i <= N /\ Dialled[i] \in slots /\ ~ToHangUp(Dialled[i])
    /\ flags' = [flags EXCEPT ![Dialled[i]] = @ \ {"ORIGINATING"}]
    /\ IF Kept(Dialled[i]) THEN i' = i + 1 /\ UNCHANGED <<pc, locks>> ELSE LetGo(Dialled[i])
    /\ UNCHANGED <<dialling, idx, scan, verdict, elapsed, state, cause, started, freed,
                   collect, abandoned, outside>>

CleanPass ==
    /\ pc = "clean"
    /\ \/ i <= N /\ Dialled[i] \notin slots /\ i' = i + 1 /\ UNCHANGED pc
       \/ i <= N /\ Dialled[i] \in slots /\ ToHangUp(Dialled[i]) /\ pc' = "cleanhang" /\ UNCHANGED i
       \/ i > N /\ pc' = (IF status THEN "return" ELSE "next") /\ UNCHANGED i
    /\ UNCHANGED <<dialling, idx, scan, verdict, world>>

\* Mutant: the leg is let go, and rings on.
CleanRingsOn ==
    /\ pc = "cleanhang"
    /\ flags' = [flags EXCEPT ![Dialled[i]] = @ \ {"ORIGINATING"}]
    /\ LetGo(Dialled[i])
    /\ UNCHANGED <<dialling, idx, scan, verdict, elapsed, state, cause, started, freed,
                   collect, abandoned, outside>>

\* The hangup that was decided on, and the flag and the lock.
CleanHang ==
    /\ pc = "cleanhang"
    /\ LET l == Dialled[i] IN
       /\ state' = [state EXCEPT ![l] = IF IsUp(l) THEN CS_HANGUP ELSE @]
       /\ cause' = [cause EXCEPT ![l] = IF IsUp(l) THEN "other" ELSE @]
       /\ flags' = [flags EXCEPT ![l] = @ \ {"ORIGINATING", "BLOCK_STATE"}]
       /\ LetGo(l)
    /\ UNCHANGED <<dialling, idx, scan, verdict, elapsed, started, freed, collect, abandoned, outside>>

\* After a group that failed: a cause of the list ends the call, and so does the
\* time limit.  The causes are read from legs that are not locked any more.
NextGroup ==
    /\ pc = "next"
    /\ LET rejected == opt.reject = "cause" /\ check_reject /\ \E l \in Legs : IsListed(l) IN
       pc' = IF rejected \/ (to /\ ~opt.continue) THEN "return" ELSE "group"
    /\ UNCHANGED <<dialling, i, idx, scan, verdict, world>>

Return ==
    /\ pc = "return"
    /\ bleg' = IF status THEN bleg ELSE None
    /\ status' = (status /\ bleg # None)
    /\ pc' = "returned"
    /\ UNCHANGED <<dialling, i, idx, to, check_reject, scan, world>>

(***************************************************************************)
(* The legs and everybody else.  What they do after the call has returned  *)
(* is not the call's business.                                             *)
(***************************************************************************)
\* The thread of a leg: CS_INIT is followed by CS_ROUTING, which the handlers of
\* the call leave at once for CS_CONSUME_MEDIA; a transferred leg has lost them.
LegRun(l) ==
    /\ started[l] /\ ~Has(l, "BLOCK_STATE")
    /\ \/ state[l] = CS_INIT /\ state' = [state EXCEPT ![l] = CS_CONSUME_MEDIA]
       \/ state[l] = CS_ROUTING /\ state' = [state EXCEPT ![l] = CS_EXECUTE]
       \/ state[l] = CS_HANGUP /\ state' = [state EXCEPT ![l] = CS_DESTROY]
    /\ UNCHANGED <<call, elapsed, flags, cause, started, outside, sessions>>

\* switch_core_session_perform_destroy waits for the write lock.
Destroy(l) ==
    /\ state[l] = CS_DESTROY /\ ~freed[l] /\ locks[l] = {}
    /\ freed' = [freed EXCEPT ![l] = TRUE]
    /\ UNCHANGED <<call, elapsed, locks, collect, abandoned, outside, leg>>

\* collect_thread_run: the leg must still be up.
CollectStart(l) ==
    /\ collect[l] = "new"
    /\ IF IsUp(l)
       THEN /\ locks' = [locks EXCEPT ![l] = @ \cup {"collect"}]
            /\ collect' = [collect EXCEPT ![l] = "ask"]
       ELSE collect' = [collect EXCEPT ![l] = "done"] /\ UNCHANGED locks
    /\ UNCHANGED <<call, elapsed, freed, abandoned, outside, leg>>

CollectLeaves(l) ==
    /\ collect' = [collect EXCEPT ![l] = "done"]
    /\ locks' = [locks EXCEPT ![l] = @ \ {"collect"}]

CollectKey(l) ==
    /\ collect[l] = "ask"
    /\ flags' = [flags EXCEPT ![l] = @ \cup {"WINNER"}]
    /\ CollectLeaves(l)
    /\ UNCHANGED <<call, elapsed, state, cause, started, freed, abandoned, outside>>

\* The file to play cannot be played.
CollectFails(l) ==
    /\ collect[l] = "ask" /\ IsUp(l)
    /\ HangUp({l}, "other")
    /\ UNCHANGED <<call, elapsed, outside, sessions>>

\* Mutant: the thread goes without its lock.
CollectEndLocked(l) ==
    /\ collect[l] = "ask" /\ (~IsUp(l) \/ state[l] <= CS_ROUTING)
    /\ collect' = [collect EXCEPT ![l] = "done"]
    /\ UNCHANGED <<call, elapsed, freed, locks, abandoned, outside, leg>>

\* The leg is not ready any more.
CollectEnd(l) ==
    /\ collect[l] = "ask" /\ (~IsUp(l) \/ state[l] <= CS_ROUTING)
    /\ CollectLeaves(l)
    /\ UNCHANGED <<call, elapsed, freed, abandoned, outside, leg>>

\* The far end rings, sends early media or answers.
Remote(l, f) ==
    /\ pc # "returned" /\ started[l] /\ IsUp(l) /\ state[l] >= CS_ROUTING
    /\ f \notin flags[l] /\ ~Has(l, "ANSWERED")
    /\ flags' = [flags EXCEPT ![l] = @ \cup {f}]
    /\ UNCHANGED <<call, elapsed, state, cause, started, outside, sessions>>

\* The far end, or another thread, hangs the leg up.
LegHangup(l, why) ==
    /\ pc # "returned" /\ Created(l) /\ IsUp(l)
    /\ HangUp({l}, why)
    /\ UNCHANGED <<call, elapsed, outside, sessions>>

\* The leg a hangup has been decided on and not yet carried out.
Doomed == IF pc \in {"losehang", "cleanhang"} THEN {Dialled[i]} ELSE {}

\* Another thread transfers a leg (switch_ivr_session_transfer).
Take(l) ==
    /\ pc # "returned" /\ "call" \in locks[l] /\ IsUp(l) /\ l \notin taken /\ Cardinality(taken) < opt.takes
    /\ taken' = taken \cup {l}
    /\ safe' = safe \cup ({l} \ Doomed)
    /\ flags' = [flags EXCEPT ![l] = @ \ {"ORIGINATING"}]
    /\ state' = [state EXCEPT ![l] = CS_ROUTING]
    /\ UNCHANGED <<call, elapsed, caller, cancel, cause, started, sessions>>

CallerHangsUp ==
    /\ pc # "returned" /\ caller = "up"
    /\ caller' = "down"
    /\ UNCHANGED <<call, elapsed, cancel, taken, safe, leg, sessions>>

Cancel ==
    /\ pc # "returned" /\ opt.cancel /\ ~cancel
    /\ cancel' = TRUE
    /\ UNCHANGED <<call, elapsed, caller, taken, safe, leg, sessions>>

Tick ==
    /\ pc \in {"launch", "check", "limits"} /\ elapsed < MaxElapsed
    /\ elapsed' = elapsed + 1
    /\ UNCHANGED <<call, outside, leg, sessions>>

Init ==
    /\ opt \in Options
    /\ pc = "group" /\ group = 0 /\ i = 1 /\ idx = "nada" /\ hup = FALSE /\ ring_ready = FALSE
    /\ sent_ring = FALSE /\ progress = FALSE /\ to = FALSE /\ check_reject = TRUE /\ status = FALSE
    /\ bleg = None /\ slots = {} /\ limits = opt.limits /\ elapsed = 0
    /\ caller = (IF opt.caller THEN "up" ELSE "none") /\ cancel = FALSE
    /\ state = [l \in Legs |-> CS_NEW] /\ flags = [l \in Legs |-> {}] /\ cause = [l \in Legs |-> "none"]
    /\ started = [l \in Legs |-> FALSE]
    /\ freed = [l \in Legs |-> FALSE] /\ locks = [l \in Legs |-> {}] /\ collect = [l \in Legs |-> "none"]
    /\ taken = {} /\ safe = {} /\ abandoned = {}

Call ==
    \/ StartGroup \/ CreateLate \/ CreateLeg \/ LockLeg
    \/ \E why \in Causes \ {"none"} : CreateRefused(why)
    \/ Launch \/ Check \/ CheckLate \/ Limits \/ CallerLeaves
    \/ NotReady \/ LoseTest \/ LoseHang \/ NoWinner \/ \E ok \in BOOLEAN : Answer(ok)
    \/ Done \/ Clean \/ CleanPass \/ CleanHang \/ NextGroup \/ Return

Next ==
    \/ Call \/ Tick \/ CallerHangsUp \/ Cancel
    \/ \E l \in Legs :
         \/ LegRun(l) \/ Destroy(l) \/ Take(l)
         \/ CollectStart(l) \/ CollectKey(l) \/ CollectFails(l) \/ CollectEnd(l)
         \/ \E f \in opt.media : Remote(l, f)
         \/ \E why \in IF opt.reject = "cause" THEN {"listed", "other"} ELSE {"other"} : LegHangup(l, why)

\* The threads run and the clock goes on.  No far end has to answer or hang up,
\* and nobody has to press a key.
Fairness ==
    /\ WF_vars(Call) /\ WF_vars(Tick)
    /\ \A l \in Legs : /\ WF_vars(LegRun(l)) /\ WF_vars(Destroy(l))
                       /\ WF_vars(CollectStart(l)) /\ WF_vars(CollectEnd(l))

Spec == Init /\ [][Next]_vars /\ Fairness

(***************************************************************************)
(* Properties.                                                             *)
(***************************************************************************)
Creating == {"create", "lock"}
Waiting == {"launch", "check", "limits", "notready", "lose", "losehang", "answer", "done"}
Cleaning == {"clean", "cleanhang"}

\* The variables have their types.
TypeOK ==
    /\ opt \in Options /\ pc \in Creating \cup Waiting \cup Cleaning \cup {"group", "next", "return", "returned"}
    /\ group \in 0 .. Len(opt.dial) /\ i \in Nat \ {0} /\ idx \in Legs \cup {"nada", "cancel", "timeout"}
    /\ {hup, ring_ready, sent_ring, progress, to, check_reject, status, cancel} \subseteq BOOLEAN
    /\ bleg \in Legs \cup {None} /\ slots \subseteq Legs /\ limits \in [Legs -> Limit]
    /\ elapsed \in 0 .. MaxElapsed /\ caller \in {"none", "up", "down"}
    /\ state \in [Legs -> State] /\ flags \in [Legs -> SUBSET Flags] /\ cause \in [Legs -> Causes]
    /\ started \in [Legs -> BOOLEAN] /\ freed \in [Legs -> BOOLEAN]
    /\ locks \in [Legs -> SUBSET {"call", "collect"}]
    /\ collect \in [Legs -> {"none", "new", "ask", "done"}]
    /\ taken \subseteq Legs /\ safe \subseteq taken /\ abandoned \subseteq Legs

\* No session is destroyed under the call: not a leg it dials while it rings,
\* wins, loses or is cleaned up, and not the one it returns.  (The causes that
\* NextGroup reads are of legs it has already unlocked.)
LegIsLive ==
    /\ pc \in Creating \cup Waiting => \A l \in slots : ~freed[l]
    /\ pc \in Cleaning => \A k \in i .. N : Dialled[k] \in slots => ~freed[Dialled[k]]
    /\ pc \in Cleaning \cup {"return", "returned"} /\ status => ~freed[bleg]

\* When the call has returned, whichever way its groups ended, it holds a lock on
\* the leg it returns and on no other, and no other leg rings on with nobody
\* waiting for it: it is down, or another thread has it.  The legs it abandons
\* when another is refused are left as they are.
NoneLeftBehind ==
    pc = "returned" =>
      \A l \in Legs \ abandoned :
        /\ "call" \in locks[l] <=> l = bleg
        /\ Created(l) /\ l # bleg => ~IsUp(l) \/ l \in taken

\* With group_confirm_key the leg that is returned has pressed the key, however
\* many legs were answered before it.
ConfirmedWins == pc = "returned" /\ opt.key /\ bleg # None => Has(bleg, "WINNER")

\* A leg that another thread has transferred away is not hung up as a loser or
\* with the remains of a failed group, unless that was decided before.
TakenIsKept ==
    [][(pc \in {"losehang", "cleanhang"} /\ pc' # pc) => \A l \in safe : IsUp(l) => ~Down(state'[l])]_vars

\* The call returns, whatever the legs and the caller do.  With a list of causes
\* in fail_on_single_reject it may not: then its time limit does not count.
OriginateReturns == opt.reject # "cause" => <>(pc = "returned")

\* A leg that was created and not returned is destroyed in the end: neither the
\* call nor the thread that collects its key keeps it, and no delay holds it up.
LegsEnd ==
    \A l \in Legs :
      (pc = "returned" /\ Created(l) /\ l \notin taken \cup abandoned \cup {bleg}) ~> freed[l]
=============================================================================
