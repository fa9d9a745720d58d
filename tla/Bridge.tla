------------------------------- MODULE Bridge -------------------------------
(***************************************************************************)
(* A bridge of two sessions (switch_ivr_multi_threaded_bridge): leg a's    *)
(* thread is in CS_EXECUTE and runs the call; leg b's thread is brought    *)
(* into CS_EXCHANGE_MEDIA, where the state handler of the bridge runs the  *)
(* same audio_bridge_thread with the legs exchanged.  The two threads meet *)
(* only through channel states and flags, and meanwhile other threads hang *)
(* up, transfer, intercept or hold either leg.                             *)
(*                                                                         *)
(* A step is a test or a change of one channel's state or flags; a hangup  *)
(* and a state change are one step each (SessionThread has their inside).  *)
(* Frames, codecs and the variables that only describe a call are left     *)
(* out: what a read or a write of a frame may do to the bridge is end it.  *)
(***************************************************************************)
EXTENDS ChannelStates

CONSTANTS
    Outsiders,      \* the other threads
    Requests,       \* what they ask for: "hangup", "transfer", "intercept", "hold"
    Starts,         \* the flags of the legs when the bridge is called
    Plans,          \* the variables of the legs: hangup_after_bridge of a, what
                    \* its continue_on_fail and transfer_on_fail make of a bridge
                    \* without an answer, hold_hangup_xfer_exten, the legs with a
                    \* bridge_answer_timeout, and for each leg what is set to
                    \* follow the bridge
    MaxRequests     \* bound: requests made, in all

a == "a"
b == "b"
Legs == {a, b}
Other(l) == IF l = a THEN b ELSE a

Flags == {"RING_READY", "EARLY_MEDIA", "ANSWERED", "BRIDGED", "TRANSFER", "REDIRECT", "RESET",
          "INTERCEPTED", "HOLDING"}
After == {"none", "park", "transfer", "app"}

ASSUME BridgeAssumption ==
    /\ Requests \subseteq {"hangup", "transfer", "intercept", "hold"}
    /\ Starts \subseteq [Legs -> SUBSET {"RING_READY", "EARLY_MEDIA", "ANSWERED"}]
    /\ Plans \subseteq [hup : {"none", "true", "explicit"}, fail : {"hangup", "continue", "transfer"},
                        exten : BOOLEAN, limit : SUBSET Legs, after : [Legs -> After]]
    /\ MaxRequests \in Nat

VARIABLES
    state,      \* channel->state
    running,    \* channel->running_state
    flags,      \* the channel flags that are set
    handlers,   \* audio_bridge_peer_state_handlers are those of leg b
    data,       \* leg b's private "_bridge_" is set
    clean,      \* clean_exit of each leg's bridge data
    after,      \* what each leg's variables say is to follow the bridge
    plan,       \* the other variables
    pc,         \* where the two session threads are
    locks,      \* read locks on each session, the caller's on leg b included
    request,    \* what each outsider is at
    requests,   \* requests made so far
    early,      \* history: leg b was redirected before it was in the bridge
    moved,      \* history: legs transferred by an outsider out of the bridge
    dropped,    \* history: legs hung up by the bridge itself
    expired     \* history: those of them that their answer timeout ended

channel == <<state, running, flags, handlers>>
bridge == <<data, clean, after, plan, locks>>
outside == <<request, requests, early>>
history == <<moved, dropped, expired>>
vars == <<channel, bridge, pc, outside, history>>

InThread == {"join", "wait", "loop", "turn", "leave", "held"}     \* in audio_bridge_thread

Has(l, f) == f \in flags[l]
IsDown(l) == Down(state[l])
Moving(l) == Has(l, "TRANSFER") \/ Has(l, "REDIRECT")
Goto(l, at) == pc' = [pc EXCEPT ![l] = at]

\* switch_channel_ready, asked by the thread of leg t: a state change that is
\* pending counts in the channel's own thread only.
Ready(l, t) ==
    /\ state[l] > CS_ROUTING /\ ~IsDown(l) /\ state[l] # CS_RESET
    /\ ~Has(l, "TRANSFER")
    /\ t = l => running[l] = state[l]

MediaUp(l) == Has(l, "ANSWERED") \/ Has(l, "EARLY_MEDIA")

\* switch_channel_set_state and switch_channel_hangup
Becomes(l, s) ==
    state' = IF ~Ignored(state[l], s) /\ Legal(state[l], s)
             THEN [state EXCEPT ![l] = s] ELSE state
HungUp(l) == state' = IF IsDown(l) THEN state ELSE [state EXCEPT ![l] = CS_HANGUP]

\* The bridge hangs a leg up; and it does so if there is reason to.
Drop(l) ==
    /\ HungUp(l)
    /\ dropped' = IF IsDown(l) THEN dropped ELSE dropped \cup {l}
DropIf(p, l) == IF p THEN Drop(l) ELSE UNCHANGED <<state, dropped>>

(***************************************************************************)
(* switch_ivr_multi_threaded_bridge, up to the bridge itself.              *)
(***************************************************************************)
\* Mutant: the other leg is not hung up.
AbortQuietly == Goto(a, "unbridge") /\ UNCHANGED <<state, dropped>>

\* abort_call, and the hangup of leg b when the bridge failed
Abort == Drop(b) /\ Goto(a, "unbridge")

Answered == IF Has(b, "ANSWERED") THEN [flags EXCEPT ![a] = @ \cup {"ANSWERED"}] ELSE flags

\* The state handlers go to leg b, leg a is answered if leg b is, and leg b must
\* at least ring.
BridgeStart ==
    /\ pc[a] = "start"
    /\ handlers' = TRUE
    /\ flags' = Answered
    /\ IF Ready(a, a) /\ flags[b] \cap {"RING_READY", "EARLY_MEDIA", "ANSWERED"} # {}
       THEN Goto(a, "lock") /\ UNCHANGED <<state, dropped>>
       ELSE Abort
    /\ UNCHANGED <<running, bridge, outside, moved, expired>>

\* Leg b becomes passive and is locked, which a leg that is down refuses.
BridgeLock ==
    /\ pc[a] = "lock"
    /\ Becomes(b, CS_CONSUME_MEDIA)
    /\ \/ IsDown(b) /\ Goto(a, "unbridge") /\ UNCHANGED locks
       \/ /\ ~IsDown(b)
          /\ locks' = [locks EXCEPT ![b] = @ + 1]
          /\ Goto(a, "answer")
    /\ UNCHANGED <<running, flags, handlers, data, clean, after, plan, outside, history>>

\* Mutant: the session is not unlocked.
AbortLeaked == Abort /\ UNCHANGED locks

\* From here to the bridge leg b is aborted and unlocked if something is wrong.
AbortLocked == Abort /\ locks' = [locks EXCEPT ![b] = @ - 1]

\* If both legs have media the bridge goes on; else switch_ivr_wait_for_answer
\* waits for leg b's media, for as long as leg b is ready, leg a's state stays
\* what it is and no timeout, cancel key or read error ends it.
BridgeAnswer ==
    /\ pc[a] = "answer"
    /\ IF Ready(a, a) /\ MediaUp(b) /\ (MediaUp(a) \/ Ready(b, a))
       THEN Goto(a, "exchange") /\ UNCHANGED <<state, dropped, locks>>
       ELSE AbortLocked
    /\ UNCHANGED <<running, flags, handlers, data, clean, after, plan, outside, moved, expired>>

\* Leg a is answered; both endpoints are told of the bridge and may refuse it;
\* leg b is sent into the bridge.
BridgeExchange ==
    /\ pc[a] = "exchange"
    /\ flags' = Answered
    /\ \/ /\ AbortLocked
          /\ UNCHANGED data
       \/ /\ data' = TRUE
          /\ Becomes(b, CS_EXCHANGE_MEDIA)
          /\ Goto(a, "join")
          /\ UNCHANGED <<locks, dropped>>
    /\ UNCHANGED <<running, handlers, clean, after, plan, outside, moved, expired>>

(***************************************************************************)
(* audio_bridge_thread, for leg l.                                         *)
(***************************************************************************)
\* Where a leg continues when its bridge thread returns.
Returns(l) == Goto(l, IF l = a THEN "peer" ELSE "verdict")

\* switch_core_session_locate locks the other session, unless it is down.
ThreadJoin(l) ==
    /\ pc[l] = "join"
    /\ clean' = [clean EXCEPT ![l] = FALSE]
    /\ \/ IsDown(Other(l)) /\ Returns(l) /\ UNCHANGED <<locks, flags>>
       \/ /\ ~IsDown(Other(l))
          /\ locks' = [locks EXCEPT ![Other(l)] = @ + 1]
          /\ flags' = [flags EXCEPT ![l] = (@ \ {"INTERCEPTED"}) \cup {"BRIDGED"}]
          /\ Goto(l, "wait")
    /\ UNCHANGED <<state, running, handlers, data, after, plan, outside, history>>

\* switch_channel_wait_for_flag: until the other leg has CF_BRIDGED, this leg
\* is not ready, the other is down, or for ten seconds.  If the other leg did not
\* come it is hung up, unless it is on its way elsewhere.
ThreadWait(l) ==
    LET o == Other(l) IN
    /\ pc[l] = "wait"
    /\ IF Has(o, "BRIDGED")
       THEN Goto(l, "loop") /\ UNCHANGED <<state, dropped>>
       ELSE /\ DropIf(~Moving(o) /\ state[o] # CS_RESET, o)
            /\ Goto(l, "leave")
    /\ UNCHANGED <<running, flags, handlers, bridge, outside, moved, expired>>

\* Mutant: the other leg is not watched for leaving.
ThreadLoopBlind(l) ==
    LET o     == Other(l)
        Clean == Has(l, "TRANSFER") \/ (~Ready(l, l) /\ ~IsDown(l))
        Over  == Clean \/ ~Ready(l, l) \/ IsDown(o)
    IN
    /\ pc[l] = "loop"
    /\ clean' = [clean EXCEPT ![l] = Over /\ Clean]
    /\ Goto(l, IF Over THEN "leave" ELSE "turn")
    /\ UNCHANGED <<channel, data, after, plan, locks, outside, history>>

\* The tests at the top of the loop, which end it.  An exit is clean if the leg is
\* transferred, or is up and wanted in another state while the other is in the bridge.
ThreadLoop(l) ==
    LET o     == Other(l)
        Left  == Has(o, "TRANSFER") \/ ~Has(o, "BRIDGED")
        Clean == Has(l, "TRANSFER") \/ (~Left /\ ~Ready(l, l) /\ ~IsDown(l))
        Over  == Clean \/ Left \/ ~Ready(l, l) \/ IsDown(o)
    IN
    /\ pc[l] = "loop"
    /\ clean' = [clean EXCEPT ![l] = Over /\ Clean]
    /\ Goto(l, IF Over THEN "leave" ELSE "turn")
    /\ UNCHANGED <<channel, data, after, plan, locks, outside, history>>

\* The rest of a turn, in which none of them is made again: a frame is read from the
\* leg and written to the other.  Leg b's answer is passed on to leg a.
ThreadTurn(l) ==
    /\ pc[l] = "turn"
    /\ flags' = IF l = a THEN Answered ELSE flags
    /\ Goto(l, "loop")
    /\ UNCHANGED <<state, running, handlers, bridge, outside, history>>

\* The read, the write or the answer fails, or a DTMF callback ends the bridge.
TurnFails(l) ==
    /\ pc[l] = "turn"
    /\ Goto(l, "leave")
    /\ UNCHANGED <<channel, bridge, outside, history>>

\* bridge_answer_timeout is over: the leg is hung up by its own bridge thread, and
\* the turn goes on, to the read that fails or to the next tests.
AnswerTimeout(l) ==
    /\ pc[l] = "turn" /\ l \in plan.limit /\ ~Has(l, "ANSWERED")
    /\ Drop(l)
    /\ expired' = expired \cup {l}
    /\ \E at \in {"loop", "leave"} : Goto(l, at)
    /\ UNCHANGED <<running, flags, handlers, bridge, outside, moved>>

\* exec_after_bridge_app, and the leg is out of the bridge.
ThreadLeave(l) ==
    LET App  == ~IsDown(l) /\ after[l] = "app"
        Rest == flags[l] \ {"BRIDGED"}
    IN
    /\ pc[l] = "leave"
    /\ IF App /\ state[l] # CS_EXECUTE THEN Becomes(l, CS_EXECUTE) ELSE UNCHANGED state
    /\ flags' = [flags EXCEPT ![l] = IF App /\ state[l] = CS_EXECUTE THEN Rest \cup {"RESET"} ELSE Rest]
    /\ Goto(l, "held")
    /\ UNCHANGED <<running, handlers, bridge, outside, history>>

\* A leg that was on hold takes the other down with it, or sends it elsewhere;
\* the other session is unlocked.
ThreadHeld(l) ==
    LET o == Other(l)
        Takes == Has(l, "HOLDING") /\ Ready(o, l) /\ state[o] # CS_PARK /\ ~clean[o]
    IN
    /\ pc[l] = "held"
    /\ IF Takes /\ ~plan.exten THEN HungUp(o) ELSE UNCHANGED state
    /\ after' = IF Takes /\ plan.exten THEN [after EXCEPT ![o] = "transfer"] ELSE after
    /\ flags' = [flags EXCEPT ![l] = @ \ {"HOLDING"}]
    /\ locks' = [locks EXCEPT ![o] = @ - 1]
    /\ Returns(l)
    /\ UNCHANGED <<running, handlers, data, clean, plan, outside, history>>

(***************************************************************************)
(* Leg a, after its bridge thread.                                         *)
(***************************************************************************)
\* No test of leg a's own state ends this wait.  (The wait for CS_DESTROY before a
\* CDR is copied is made for a leg that is down, for which it ends at once.)
BridgePeer ==
    /\ pc[a] = "peer"
    /\ state[b] # CS_EXCHANGE_MEDIA
    /\ locks' = [locks EXCEPT ![b] = @ - 1]
    /\ Goto(a, "unbridge")
    /\ UNCHANGED <<channel, data, clean, after, plan, outside, history>>

\* switch_ivr_session_transfer by the leg's own thread: the flag, the state.
TransferAfter(l) ==
    /\ flags' = [flags EXCEPT ![l] = @ \cup {"TRANSFER"}]
    /\ Becomes(l, CS_ROUTING)

\* switch_ivr_park_session
ParkAfter(l) ==
    /\ Becomes(l, CS_PARK)
    /\ flags' = [flags EXCEPT ![l] = @ \cup {"TRANSFER"}]

\* What follows the bridge for leg a, if nobody has moved it: the state it is in now
\* counts for what is decided below.  switch_channel_handle_cause, if leg b was not
\* answered: leg a is hung up, sent elsewhere or left to its dialplan.
BridgeCause ==
    LET Acts == ~Moving(a) /\ ~clean[a]
        Past == state[a] \notin {CS_EXECUTE, CS_SOFT_EXECUTE, CS_PARK, CS_ROUTING}
        Fail == IF Acts /\ ~Has(b, "ANSWERED") /\ ~IsDown(a) THEN plan.fail ELSE "continue"
    IN
    /\ pc[a] = "unbridge"
    /\ \/ Fail = "transfer" /\ TransferAfter(a) /\ UNCHANGED dropped
       \/ Fail # "transfer" /\ DropIf(Fail = "hangup" /\ state[a] # CS_ROUTING, a) /\ UNCHANGED flags
    /\ Goto(a, CASE ~Acts -> "redirect" [] Acts /\ Past -> "past" [] OTHER -> "after")
    /\ UNCHANGED <<running, handlers, bridge, outside, moved, expired>>

\* hangup_after_bridge, park_after_bridge and transfer_after_bridge.  The state is the
\* one read before, the flag is tested again.
BridgeVerdict ==
    LET Past  == pc[a] = "past" \/ Has(b, "ANSWERED")
        Free  == Past /\ ~Has(a, "TRANSFER")
        Sends == Free /\ after[a] \in {"park", "transfer"}
        Ends  == plan.hup = "explicit" \/ (plan.hup = "true" /\ Free /\ ~Sends /\ Has(b, "ANSWERED"))
    IN
    /\ pc[a] \in {"after", "past"}
    /\ \/ /\ Sends /\ ~Ends
          /\ IF after[a] = "park" THEN ParkAfter(a) ELSE TransferAfter(a)
          /\ UNCHANGED dropped
       \/ /\ Ends \/ ~Sends
          /\ DropIf(Ends, a)
          /\ flags' = IF Sends THEN [flags EXCEPT ![a] = @ \cup {"TRANSFER"}] ELSE flags
    /\ Goto(a, "redirect")
    /\ UNCHANGED <<running, handlers, bridge, outside, moved, expired>>

BridgeRedirect ==
    /\ pc[a] = "redirect"
    /\ IF Has(a, "REDIRECT") /\ ~Has(a, "RESET") /\ state[a] \notin {CS_RESET, CS_PARK, CS_ROUTING}
       THEN Becomes(a, CS_RESET)
       ELSE UNCHANGED state
    /\ flags' = IF Has(a, "REDIRECT") THEN [flags EXCEPT ![a] = @ \ {"RESET"}] ELSE flags
    /\ Goto(a, "returned")
    /\ UNCHANGED <<running, handlers, bridge, outside, history>>

\* The application that called the bridge gives back its lock on leg b; leg a's
\* thread goes on, and when the leg is down destroys the session, which waits
\* for the read locks of others.
CallerUnlock ==
    /\ pc[a] = "returned"
    /\ locks' = [locks EXCEPT ![b] = @ - 1]
    /\ Goto(a, "elsewhere")
    /\ UNCHANGED <<channel, data, clean, after, plan, outside, history>>

\* Leg a's thread enters the state that it was sent to.
CallerEnter ==
    /\ pc[a] = "elsewhere" /\ state[a] # running[a] /\ ~IsDown(a)
    /\ running' = [running EXCEPT ![a] = state[a]]
    /\ flags' = [flags EXCEPT ![a] = @ \ {"TRANSFER", "REDIRECT"}]
    /\ UNCHANGED <<state, handlers, bridge, pc, outside, history>>

Destroy(l) ==
    /\ pc[l] = IF l = a THEN "elsewhere" ELSE "top"
    /\ IsDown(l) /\ locks[l] = 0
    /\ Goto(l, "destroyed")
    /\ UNCHANGED <<channel, bridge, outside, history>>

(***************************************************************************)
(* Leg b: its session thread enters the states that others set, and        *)
(* audio_bridge_on_routing and audio_bridge_on_exchange_media.             *)
(***************************************************************************)
PeerEnter ==
    /\ pc[b] = "top" /\ state[b] # running[b] /\ ~IsDown(b)
    /\ running' = [running EXCEPT ![b] = state[b]]
    /\ flags' = [flags EXCEPT ![b] = @ \ {"TRANSFER", "REDIRECT"}]
    /\ Goto(b, CASE state[b] = CS_ROUTING -> "routing"
                 [] state[b] = CS_EXCHANGE_MEDIA /\ handlers -> "data"
                 [] OTHER -> "top")
    /\ UNCHANGED <<state, handlers, bridge, outside, history>>

\* With the handlers of the bridge leg b is put into CS_CONSUME_MEDIA; else its
\* dialplan is looked up, which is not modelled.
PeerRouting ==
    /\ pc[b] = "routing"
    /\ Becomes(b, IF handlers THEN CS_CONSUME_MEDIA ELSE CS_EXECUTE)
    /\ Goto(b, "top")
    /\ UNCHANGED <<running, flags, handlers, bridge, outside, history>>

PeerData ==
    /\ pc[b] = "data"
    /\ data' = FALSE
    /\ IF data THEN Goto(b, "join") /\ UNCHANGED <<state, dropped>>
       ELSE Drop(b) /\ Goto(b, "verdict")
    /\ UNCHANGED <<running, flags, handlers, clean, after, plan, locks, outside, moved, expired>>

\* Mutant: a transfer is not looked for.
PeerVerdictAnyway ==
    LET Sent == ~IsDown(b) /\ after[b] \in {"park", "transfer"}
        Ends == ~Sent /\ ~clean[b] /\ state[b] = CS_EXCHANGE_MEDIA
    IN
    /\ pc[b] = "verdict"
    /\ handlers' = FALSE
    /\ \/ /\ Sent
          /\ IF after[b] = "park" THEN ParkAfter(b) ELSE TransferAfter(b)
          /\ UNCHANGED dropped
       \/ ~Sent /\ DropIf(Ends, b) /\ UNCHANGED flags
    /\ Goto(b, "park")
    /\ UNCHANGED <<running, bridge, outside, moved, expired>>

\* What follows the bridge for leg b: the state handlers go, it is parked or
\* transferred if its variables say so, and else hung up if it did not leave by
\* itself.
PeerVerdict ==
    LET Sent == ~IsDown(b) /\ after[b] \in {"park", "transfer"}
        Ends == ~Sent /\ ~Moving(b) /\ ~clean[b] /\ state[b] = CS_EXCHANGE_MEDIA
    IN
    /\ pc[b] = "verdict"
    /\ handlers' = FALSE
    /\ \/ /\ Sent
          /\ IF after[b] = "park" THEN ParkAfter(b) ELSE TransferAfter(b)
          /\ Goto(b, "park")
          /\ UNCHANGED dropped
       \/ /\ Ends /\ Has(b, "INTERCEPTED")
          /\ flags' = [flags EXCEPT ![b] = @ \ {"INTERCEPTED"}]
          /\ Goto(b, "top")
          /\ UNCHANGED <<state, dropped>>
       \/ /\ ~Sent /\ ~(Ends /\ Has(b, "INTERCEPTED"))
          /\ DropIf(Ends, b)
          /\ Goto(b, "park")
          /\ UNCHANGED flags
    /\ UNCHANGED <<running, bridge, outside, moved, expired>>

\* Whatever is still in CS_EXCHANGE_MEDIA is parked.
PeerPark ==
    /\ pc[b] = "park"
    /\ IF state[b] = CS_EXCHANGE_MEDIA THEN Becomes(b, CS_PARK) ELSE UNCHANGED state
    /\ Goto(b, "top")
    /\ UNCHANGED <<running, flags, handlers, bridge, outside, history>>

(***************************************************************************)
(* The other threads.                                                      *)
(***************************************************************************)
Idle == [at |-> "idle", leg |-> a, both |-> FALSE]

Ask(o, r) ==
    /\ request[o] = Idle /\ r \in Requests
    /\ requests < MaxRequests
    /\ requests' = requests + 1

Redirects(p) ==
    early' = (early \/ (p /\ pc[b] \notin InThread
                          /\ pc[a] \in {"start", "lock", "answer", "exchange", "join", "wait"}))

Step(o, at) == request' = [request EXCEPT ![o].at = at]
Done(o) == request' = [request EXCEPT ![o] = Idle]

HangUp(o, l) ==
    /\ Ask(o, "hangup") /\ ~IsDown(l)
    /\ HungUp(l)
    /\ UNCHANGED <<running, flags, handlers, bridge, pc, request, early, history>>

Hold(o, l) ==
    /\ Ask(o, "hold") /\ Has(l, "BRIDGED")
    /\ flags' = [flags EXCEPT ![l] = @ \cup {"HOLDING"}]
    /\ UNCHANGED <<state, running, handlers, bridge, pc, request, early, history>>

\* The far end of leg b answers.
PeerAnswers ==
    /\ ~IsDown(b) /\ ~Has(b, "ANSWERED")
    /\ flags' = [flags EXCEPT ![b] = @ \cup {"ANSWERED"}]
    /\ UNCHANGED <<state, running, handlers, bridge, pc, outside, history>>

\* switch_ivr_session_transfer: the state handlers, the flag, the state.
Transfer(o, l) ==
    /\ Ask(o, "transfer") /\ ~IsDown(l)
    /\ handlers' = (handlers /\ l = a)
    /\ request' = [request EXCEPT ![o] = [at |-> "transfer", leg |-> l, both |-> FALSE]]
    /\ Redirects(l = b)
    /\ UNCHANGED <<state, running, flags, bridge, pc, history>>

\* Both legs have met in the bridge, and what follows it is not decided for either.
InBridge ==
    \A l \in Legs : pc[l] \in (InThread \ {"join", "wait"}) \cup {"peer", "unbridge", "verdict"}

TransferFlag(o) ==
    LET l == request[o].leg IN
    /\ request[o].at = "transfer"
    /\ flags' = [flags EXCEPT ![l] = @ \cup {"TRANSFER"}]
    /\ moved' = IF ~IsDown(l) /\ InBridge THEN moved \cup {l} ELSE moved
    /\ Step(o, "transfer_state")
    /\ UNCHANGED <<state, running, handlers, bridge, pc, requests, early, dropped, expired>>

TransferState(o) ==
    /\ request[o].at = "transfer_state"
    /\ Becomes(request[o].leg, CS_ROUTING)
    /\ Done(o)
    /\ UNCHANGED <<running, flags, handlers, bridge, pc, requests, early, history>>

\* switch_ivr_intercept_session, of leg l.  Its partner is known from the signal bond,
\* which the legs have since leg b was originated and which nobody clears.
Intercept(o, l) ==
    LET both == ~IsDown(Other(l)) IN
    /\ Ask(o, "intercept") /\ ~IsDown(l)
    /\ flags' = [k \in Legs |->
                   IF k = l THEN (flags[l] \cup {"ANSWERED"}) \ {"HOLDING"} ELSE flags[k]]
    /\ request' = [request EXCEPT ![o] = [at |-> "intercept", leg |-> l, both |-> both]]
    /\ Redirects(l = b \/ both)
    /\ UNCHANGED <<state, running, handlers, bridge, pc, history>>

InterceptPark(o) ==
    /\ request[o].at = "intercept"
    /\ Becomes(request[o].leg, CS_PARK)
    /\ Step(o, IF request[o].both THEN "park_partner" ELSE "intercepted")
    /\ UNCHANGED <<running, flags, handlers, bridge, pc, requests, early, history>>

InterceptPartner(o) ==
    /\ request[o].at = "park_partner"
    /\ Becomes(Other(request[o].leg), CS_PARK)
    /\ Step(o, "intercepted")
    /\ UNCHANGED <<running, flags, handlers, bridge, pc, requests, early, history>>

InterceptMark(o) ==
    LET l == request[o].leg IN
    /\ request[o].at = "intercepted"
    /\ flags' = [flags EXCEPT ![l] = @ \cup {"INTERCEPTED"}]
    /\ Step(o, "redirect")
    /\ UNCHANGED <<state, running, handlers, bridge, pc, requests, early, history>>

\* switch_ivr_uuid_bridge takes the leg, unless it is down: its flags, the state
\* handlers, the state.
InterceptRedirect(o) ==
    LET l == request[o].leg IN
    /\ request[o].at = "redirect"
    /\ \/ IsDown(l) /\ Step(o, "pick_off") /\ UNCHANGED flags
       \/ /\ ~IsDown(l)
          /\ flags' = [flags EXCEPT ![l] = @ \cup {"REDIRECT"}]
          /\ Step(o, "bridge_flag")
    /\ UNCHANGED <<state, running, handlers, bridge, pc, requests, early, history>>

InterceptFlag(o) ==
    LET l == request[o].leg IN
    /\ request[o].at = "bridge_flag"
    /\ flags' = [flags EXCEPT ![l] = @ \cup {"TRANSFER"}]
    /\ Step(o, "handlers")
    /\ UNCHANGED <<state, running, handlers, bridge, pc, requests, early, history>>

InterceptHandlers(o) ==
    /\ request[o].at = "handlers"
    /\ handlers' = (handlers /\ request[o].leg = a)
    /\ Step(o, "hibernate")
    /\ UNCHANGED <<state, running, flags, bridge, pc, requests, early, history>>

InterceptHibernate(o) ==
    LET l == request[o].leg IN
    /\ request[o].at = "hibernate"
    /\ Becomes(l, IF state[l] = CS_HIBERNATE THEN CS_CONSUME_MEDIA ELSE CS_HIBERNATE)
    /\ Step(o, "pick_off")
    /\ UNCHANGED <<running, flags, handlers, bridge, pc, requests, early, history>>

InterceptPickOff(o) ==
    /\ request[o].at = "pick_off"
    /\ IF request[o].both THEN HungUp(Other(request[o].leg)) ELSE UNCHANGED state
    /\ Done(o)
    /\ UNCHANGED <<running, flags, handlers, bridge, pc, requests, early, history>>

(***************************************************************************)
(* The specification.                                                      *)
(***************************************************************************)
\* Leg b was originated: it is in CS_CONSUME_MEDIA, rings, has early media or is
\* answered, and the caller holds a read lock on it.
Init ==
    /\ state = [l \in Legs |-> IF l = a THEN CS_EXECUTE ELSE CS_CONSUME_MEDIA]
    /\ running = state
    /\ flags \in Starts
    /\ handlers = FALSE /\ data = FALSE
    /\ clean = [l \in Legs |-> FALSE]
    /\ plan \in Plans /\ after = plan.after
    /\ pc = [l \in Legs |-> IF l = a THEN "start" ELSE "top"]
    /\ locks = [l \in Legs |-> IF l = a THEN 0 ELSE 1]
    /\ request = [o \in Outsiders |-> Idle] /\ requests = 0 /\ early = FALSE
    /\ moved = {} /\ dropped = {} /\ expired = {}

Thread(l) ==
    \/ ThreadJoin(l) \/ ThreadWait(l) \/ ThreadLoop(l) \/ ThreadTurn(l)
    \/ ThreadLeave(l) \/ ThreadHeld(l) \/ Destroy(l)

LegA ==
    \/ BridgeStart \/ BridgeLock \/ BridgeAnswer \/ BridgeExchange \/ Thread(a)
    \/ BridgePeer \/ BridgeCause \/ BridgeVerdict \/ BridgeRedirect \/ CallerUnlock \/ CallerEnter

LegB ==
    PeerEnter \/ PeerRouting \/ PeerData \/ Thread(b) \/ PeerVerdict \/ PeerPark

Continue(o) ==
    \/ TransferFlag(o) \/ TransferState(o) \/ InterceptPark(o) \/ InterceptPartner(o)
    \/ InterceptMark(o) \/ InterceptRedirect(o) \/ InterceptFlag(o) \/ InterceptHandlers(o)
    \/ InterceptHibernate(o) \/ InterceptPickOff(o)

Next ==
    \/ LegA \/ LegB \/ PeerAnswers
    \/ \E l \in Legs : TurnFails(l) \/ AnswerTimeout(l)
    \/ \E o \in Outsiders :
         \/ Continue(o)
         \/ \E l \in Legs : HangUp(o, l) \/ Hold(o, l) \/ Transfer(o, l) \/ Intercept(o, l)

\* The threads run, and a read of a frame returns; no read has to fail, no timeout
\* has to be over, and nobody has to make a request or answer: the loop of a leg ends
\* by its own tests.
Fairness == WF_vars(LegA) /\ WF_vars(LegB) /\ \A o \in Outsiders : WF_vars(Continue(o))

Spec == Init /\ [][Next]_vars /\ Fairness

(***************************************************************************)
(* Properties.                                                             *)
(***************************************************************************)
PointsA == {"start", "lock", "answer", "exchange", "peer", "unbridge", "after", "past", "redirect",
            "returned", "elsewhere", "destroyed"}
PointsB == {"top", "routing", "data", "verdict", "park", "destroyed"}
Stages == {"idle", "transfer", "transfer_state", "intercept", "park_partner", "intercepted",
           "redirect", "bridge_flag", "handlers", "hibernate", "pick_off"}

\* The variables have their types.
TypeOK ==
    /\ state \in [Legs -> State] /\ running \in [Legs -> State]
    /\ flags \in [Legs -> SUBSET Flags]
    /\ handlers \in BOOLEAN /\ data \in BOOLEAN /\ clean \in [Legs -> BOOLEAN]
    /\ after \in [Legs -> After] /\ plan \in Plans
    /\ pc \in [Legs -> InThread \cup PointsA \cup PointsB]
    /\ pc[a] \in InThread \cup PointsA /\ pc[b] \in InThread \cup PointsB
    /\ locks \in [Legs -> 0 .. 3]
    /\ request \in [Outsiders -> [at : Stages, leg : Legs, both : BOOLEAN]]
    /\ requests \in 0 .. MaxRequests
    /\ early \in BOOLEAN /\ moved \subseteq Legs /\ dropped \subseteq Legs
    /\ expired \subseteq Legs

\* The read locks on a session are those of the threads that use it: one of the
\* other leg's bridge thread, one of the bridge call and one of its caller.  None
\* is lost or given back twice on the paths that abandon the bridge, so a session
\* is destroyed neither under the other leg nor never.
LocksBalance ==
    LET Held(p) == IF p THEN 1 ELSE 0 IN
    /\ locks[a] = Held(pc[b] \in InThread \ {"join"})
    /\ locks[b] = Held(pc[a] \in InThread \ {"join"})
                  + Held(pc[a] \in InThread \cup {"answer", "exchange", "peer"})
                  + Held(pc[a] \notin {"elsewhere", "destroyed"})

\* A leg that another thread transferred out of the bridge, at any point from the
\* meeting of the legs to the verdicts, is not hung up by either bridge thread or by
\* what follows the bridge, however the transfer's steps fall between theirs.  The one
\* exception is the leg's own answer timeout, before which CF_TRANSFER is not tested
\* again.  (A leg on hold takes the other down on purpose.)
TransferIsKept == moved \cap dropped \subseteq expired

\* The bridge call returns once one of the legs is down or has left its bridge thread:
\* the loop of leg a sees that leg b has gone, and its wait for leg b to leave
\* CS_EXCHANGE_MEDIA ends.  It need not end for a leg b that was redirected before it
\* was in the bridge: it has lost the state handlers of the bridge, and
\* CS_EXCHANGE_MEDIA without them is a state in which nothing happens.
BridgeReturns ==
    (IsDown(a) \/ IsDown(b) \/ pc[a] = "peer" \/ pc[b] = "verdict")
      ~> (pc[a] \in {"elsewhere", "destroyed"} \/ early)

\* No leg is left behind: when the caller is down, leg b does not stay in a state
\* in which it waits for the bridge, unless it was redirected before it was there.
NoOrphan == IsDown(a) ~> (state[b] \notin {CS_CONSUME_MEDIA, CS_EXCHANGE_MEDIA} \/ early)
=============================================================================
