--------------------------- MODULE ChannelStates ---------------------------
(***************************************************************************)
(* The channel states of FreeSWITCH (switch_channel_state_t) and the table *)
(* of state changes that switch_channel_perform_set_state accepts.  The    *)
(* states are numbers, as in the C enum, because the code orders them: a   *)
(* channel is down from CS_HANGUP on.                                      *)
(***************************************************************************)
EXTENDS Naturals

CS_NEW            == 0
CS_INIT           == 1
CS_ROUTING        == 2
CS_SOFT_EXECUTE   == 3
CS_EXECUTE        == 4
CS_EXCHANGE_MEDIA == 5
CS_PARK           == 6
CS_CONSUME_MEDIA  == 7
CS_HIBERNATE      == 8
CS_RESET          == 9
CS_HANGUP         == 10
CS_REPORTING      == 11
CS_DESTROY        == 12
CS_NONE           == 13

State == CS_NEW .. CS_DESTROY           \* what channel->state may hold
RunningState == CS_NEW .. CS_NONE       \* running_state starts as CS_NONE

Down(s) == s >= CS_HANGUP               \* switch_channel_down_nosig

(* The states between which a call moves while it is up. *)
Working == {CS_ROUTING, CS_SOFT_EXECUTE, CS_EXECUTE, CS_EXCHANGE_MEDIA,
            CS_PARK, CS_CONSUME_MEDIA, CS_HIBERNATE, CS_RESET}

(* The states with a row of their own in the table below: all but CS_NEW   *)
(* and CS_RESET, which may go anywhere.                                    *)
Up == ({CS_INIT} \cup Working) \ {CS_RESET}

(* A request that perform_set_state silently ignores. *)
Ignored(last, s) == last = s \/ (Down(last) /\ s < last)

(* The switch (last_state) table: the requests that are carried out.  A    *)
(* request that is neither ignored nor legal reaches the switch_assert.    *)
Legal(last, s) ==
    CASE last \in {CS_NEW, CS_RESET}    -> TRUE
      [] last \in Up                    -> \/ s \in Working
                                           \/ last = CS_HIBERNATE /\ s = CS_INIT
      [] last = CS_HANGUP               -> s \in {CS_REPORTING, CS_DESTROY}
      [] last = CS_REPORTING            -> s = CS_DESTROY
      [] OTHER                          -> FALSE
=============================================================================
