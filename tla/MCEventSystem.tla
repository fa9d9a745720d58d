--------------------------- MODULE MCEventSystem ---------------------------
\* The events and nodes of the runs of EventSystem.
EXTENDS EventSystem

CONSTANTS custom, talk, sub, other

MCTypes == {custom, talk}
MCKinds == {[type |-> custom, sub |-> sub], [type |-> custom, sub |-> other]}

NodeSub == [id |-> 1, type |-> custom, sub |-> sub, callback |-> "module"]
NodeAll == [id |-> 2, type |-> ALL, sub |-> None, callback |-> "logger"]
MCNodes == {NodeSub, NodeAll}
MCReentrant == {NodeSub}
=============================================================================
