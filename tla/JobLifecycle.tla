---------------------------- MODULE JobLifecycle ----------------------------
(***************************************************************************)
(* What the job queue promises of each job: it has one state, it never     *)
(* vanishes, it may be started and, after a crash, reset to pending, and   *)
(* it finishes once. (queues/journal.py; the states are its STATES.)       *)
(***************************************************************************)
CONSTANT Jobs

VARIABLE state      \* where a reader of the queue finds the job

States == {"absent", "pending", "in_progress", "completed", "failed"}

Init == state = [j \in Jobs |-> "absent"]

Becomes(j, old, new) ==
    /\ state[j] \in old
    /\ state' = [state EXCEPT ![j] = new]

Enqueue(j) == Becomes(j, {"absent"}, "pending")
Start(j)   == Becomes(j, {"pending"}, "in_progress")
Reset(j)   == Becomes(j, {"in_progress"}, "pending")
Finish(j)  == \E final \in {"completed", "failed"} :
                  Becomes(j, {"pending", "in_progress"}, final)

Next == \E j \in Jobs : Enqueue(j) \/ Start(j) \/ Reset(j) \/ Finish(j)

Spec == Init /\ [][Next]_state
=============================================================================
