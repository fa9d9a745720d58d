---------------------------- MODULE MCOriginate ----------------------------
\* The calls in the run of Originate.
EXTENDS Originate

CONSTANTS l1, l2

Ring(media, times, dial) ==
    [dial |-> dial, media |-> media, limits |-> times, caller |-> TRUE, key |-> FALSE, reject |-> "off",
     early_ok |-> TRUE, continue |-> FALSE, cancel_timeout |-> FALSE, cancel |-> FALSE, takes |-> 0]

Unlimited == [l \in Legs |-> [delay |-> 0, limit |-> 0, progress |-> 0]]
Answers == {"ANSWERED"}

Together == <<<<l1, l2>>>>
InTurn == <<<<l1>>, <<l2>>>>

MCOptions ==
    {Ring(Media, Unlimited, <<<<l1>>>>),
     [Ring({"RING_READY"}, Unlimited, InTurn) EXCEPT !.early_ok = FALSE],
     [Ring(Answers, Unlimited, InTurn) EXCEPT !.continue = TRUE, !.caller = FALSE, !.cancel = TRUE],
     [Ring(Answers, Unlimited, Together) EXCEPT !.takes = 1],
     [Ring(Answers, Unlimited, Together) EXCEPT !.key = TRUE, !.caller = FALSE],
     [Ring(Answers, [Unlimited EXCEPT ![l1] = [delay |-> 0, limit |-> 1, progress |-> 0],
                                      ![l2] = [delay |-> 1, limit |-> 2, progress |-> 1]], Together)
        EXCEPT !.key = TRUE, !.cancel_timeout = TRUE],
     [Ring(Answers, Unlimited, Together) EXCEPT !.reject = "any"],
     [Ring(Answers, Unlimited, Together) EXCEPT !.reject = "cause"],
     [Ring({"RING_READY", "ANSWERED"}, Unlimited, <<<<l1>>>>) EXCEPT !.reject = "cause"]}
=============================================================================
