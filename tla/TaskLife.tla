------------------------------ MODULE TaskLife ------------------------------
(***************************************************************************)
(* What the scheduler promises of each task, whoever runs it and whoever   *)
(* deletes it: it is run by one thread at a time, a deleted task is not    *)
(* started again, and its container is freed once, when nobody runs it.    *)
(***************************************************************************)
EXTENDS Naturals

CONSTANT MaxTasks       \* bound: tasks added, in all

Tasks == 1 .. MaxTasks
Status == {"none", "waiting", "running", "doomed", "dead", "freed"}

VARIABLE status         \* "doomed" is running and deleted

Init == status = [c \in Tasks |-> "none"]

Becomes(c, from, to) == status[c] = from /\ status' = [status EXCEPT ![c] = to]

Add(c)    == Becomes(c, "none", "waiting")
Start(c)  == Becomes(c, "waiting", "running")
Finish(c) == Becomes(c, "running", "waiting") \/ Becomes(c, "doomed", "dead")
Free(c)   == Becomes(c, "dead", "freed")

(* Deletion of any number of tasks, running or not. *)
Delete ==
    \E D \in SUBSET {c \in Tasks : status[c] \in {"waiting", "running"}} :
        status' = [c \in Tasks |-> IF c \notin D THEN status[c]
                                   ELSE IF status[c] = "running" THEN "doomed" ELSE "dead"]

Next == Delete \/ \E c \in Tasks : Add(c) \/ Start(c) \/ Finish(c) \/ Free(c)

Spec == Init /\ [][Next]_status
=============================================================================
