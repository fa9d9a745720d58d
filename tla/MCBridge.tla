------------------------------ MODULE MCBridge ------------------------------
\* The flags and the variables of the legs in the runs of Bridge.
EXTENDS Bridge

Pair(x, y) == [l \in Legs |-> IF l = a THEN x ELSE y]

MCStarts ==
    {Pair({}, {}), Pair({}, {"RING_READY"}), Pair({}, {"EARLY_MEDIA"}), Pair({"ANSWERED"}, {"ANSWERED"})}

Plan(hup, fail, exten, limit, afterA, afterB) ==
    [hup |-> hup, fail |-> fail, exten |-> exten, limit |-> limit, after |-> Pair(afterA, afterB)]

MCPlans ==
    {Plan("none", "hangup", FALSE, Legs, "none", "none"),
     Plan("true", "transfer", TRUE, {}, "app", "park"),
     Plan("explicit", "continue", TRUE, {a}, "transfer", "app")}
=============================================================================
