-------------------------- MODULE ChannelLifecycle --------------------------
(***************************************************************************)
(* What a FreeSWITCH channel promises the rest of the system: while it is  *)
(* up its state moves as the table of perform_set_state allows; it goes    *)
(* down once, and from there only forward, through CS_HANGUP, in which the *)
(* on_hangup handlers run, and CS_REPORTING, in which the on_reporting     *)
(* handlers (the CDR) run, to CS_DESTROY.  Nothing is said of threads.     *)
(***************************************************************************)
EXTENDS ChannelStates

VARIABLES
    state,      \* the channel's state
    hangups,    \* times the on_hangup handlers ran
    reports     \* times the on_reporting handlers ran

lifecycle == <<state, hangups, reports>>

Init == state = CS_NEW /\ hangups = 0 /\ reports = 0

Move ==                 \* the call goes on in another state
    /\ ~Down(state)
    /\ \E s \in State : ~Down(s) /\ Legal(state, s) /\ state' = s
    /\ UNCHANGED <<hangups, reports>>

Hangup ==               \* from any state, once
    /\ ~Down(state)
    /\ state' = CS_HANGUP
    /\ UNCHANGED <<hangups, reports>>

OnHangup ==
    /\ state = CS_HANGUP /\ hangups = 0
    /\ hangups' = 1
    /\ UNCHANGED <<state, reports>>

Report ==
    /\ state = CS_HANGUP /\ hangups = 1
    /\ state' = CS_REPORTING
    /\ UNCHANGED <<hangups, reports>>

OnReporting ==
    /\ state = CS_REPORTING /\ reports = 0
    /\ reports' = 1
    /\ UNCHANGED <<state, hangups>>

Destroy ==
    /\ state = CS_REPORTING /\ reports = 1
    /\ state' = CS_DESTROY
    /\ UNCHANGED <<hangups, reports>>

Next == Move \/ Hangup \/ OnHangup \/ Report \/ OnReporting \/ Destroy

Spec == Init /\ [][Next]_lifecycle
FairSpec == Spec /\ WF_lifecycle(OnHangup \/ Report \/ OnReporting \/ Destroy)
=============================================================================
