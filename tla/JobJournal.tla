----------------------------- MODULE JobJournal -----------------------------
(***************************************************************************)
(* The filesystem job queue of queues/journal.py: a JSON file per job, in  *)
(* the directory of the job's state. A job changes state in two steps, the *)
(* new file is renamed into place and then the old one is unlinked, and    *)
(* the process may stop, or the file operation fail, before either.        *)
(*                                                                         *)
(* The campaign enqueues, awaits and marks a sample's job from one thread  *)
(* at a time, so a job has at most one operation under way; operations on  *)
(* different jobs interleave freely. What a record holds besides its state *)
(* (payload, priority, times, error) is left out, and with it the order in *)
(* which dequeue() picks jobs. Several processes on one directory, which   *)
(* the source does not support, and the subscriber thread of               *)
(* DistributedJobQueue, which repeats the operations of other processes on *)
(* the same JobQueue, are outside this model.                              *)
(***************************************************************************)
EXTENDS Naturals, FiniteSets

CONSTANT Jobs

VARIABLES
    held,     \* the state directories that hold a file of the job
    move,     \* the operation under way on the job
    phase,    \* of the orchestrator process
    taken,    \* jobs this process has picked up with dequeue (history)
    torn      \* jobs an interrupted move has left in two places (history)

vars == <<held, move, phase, taken, torn>>

STATES == {"pending", "in_progress", "completed", "failed"}
Active == {"pending", "in_progress"}

NoMove == [pc |-> "none", from |-> "none", to |-> "pending"]
Moves  == [pc : {"none", "write", "unlink"}, from : Active \union {"none"}, to : STATES]

TypeOK ==
    /\ held \in [Jobs -> SUBSET STATES]
    /\ move \in [Jobs -> Moves]
    /\ phase \in {"down", "recover", "run"}
    /\ taken \subseteq Jobs /\ torn \subseteq Jobs

Idle(j) == move[j].pc = "none"

(* The directory an active job is moved out of.                            *)
Source(j) == IF "pending" \in held[j] THEN "pending"
             ELSE IF "in_progress" \in held[j] THEN "in_progress"
             ELSE "none"

(* Where a search in the order of STATES finds the job.                    *)
Find(j) == IF Source(j) # "none" THEN Source(j)
           ELSE IF "completed" \in held[j] THEN "completed"
           ELSE IF "failed" \in held[j] THEN "failed"
           ELSE "absent"

Init ==
    /\ held = [j \in Jobs |-> {}]
    /\ move = [j \in Jobs |-> NoMove]
    /\ phase = "down"
    /\ taken = {} /\ torn = {}

-----------------------------------------------------------------------------
(* The operations, up to their first change on disk.                       *)

Begin(j, from, to) ==
    /\ Idle(j)
    /\ move' = [move EXCEPT ![j] = [pc |-> "write", from |-> from, to |-> to]]
    /\ UNCHANGED <<held, phase, torn>>

(* A slip the checks must catch: only pending/ is searched for the job.    *)
EnqueueNotPending(j) ==
    /\ phase = "run"
    /\ "pending" \notin held[j]
    /\ Begin(j, "none", "pending")
    /\ UNCHANGED taken

Enqueue(j) ==
    /\ phase = "run"
    /\ Find(j) = "absent"
    /\ Begin(j, "none", "pending")
    /\ UNCHANGED taken

Dequeue(j) ==
    /\ phase = "run"
    /\ "pending" \in held[j]
    /\ Begin(j, "pending", "in_progress")
    /\ taken' = taken \union {j}

(* mark_completed and mark_failed; a job that is not active is skipped.    *)
Mark(j) ==
    /\ phase = "run"
    /\ Source(j) # "none"
    /\ \E final \in {"completed", "failed"} : Begin(j, Source(j), final)
    /\ UNCHANGED taken

(* recover(), one file at a time.                                          *)
Recover(j) ==
    /\ phase = "recover"
    /\ \A k \in Jobs : Idle(k)
    /\ "in_progress" \in held[j]
    /\ Begin(j, "in_progress", "pending")
    /\ UNCHANGED taken

(* A slip the checks must catch: one file may be left behind.              *)
RecoverEndsEarly ==
    /\ phase = "recover"
    /\ \A j \in Jobs : Idle(j)
    /\ Cardinality({j \in Jobs : "in_progress" \in held[j]}) < 2
    /\ phase' = "run"
    /\ UNCHANGED <<held, move, taken, torn>>

RecoverEnds ==
    /\ phase = "recover"
    /\ \A j \in Jobs : Idle(j) /\ "in_progress" \notin held[j]
    /\ phase' = "run"
    /\ UNCHANGED <<held, move, taken, torn>>

-----------------------------------------------------------------------------
(* Their steps on disk. The new file is complete when it appears.          *)

Write(j) ==
    /\ move[j].pc = "write"
    /\ held' = [held EXCEPT ![j] = @ \union {move[j].to}]
    /\ move' = [move EXCEPT ![j] = IF @.from = "none" THEN NoMove
                                   ELSE [@ EXCEPT !.pc = "unlink"]]
    /\ UNCHANGED <<phase, taken, torn>>

Unlink(j) ==
    /\ move[j].pc = "unlink"
    /\ held' = [held EXCEPT ![j] = @ \ {move[j].from}]
    /\ move' = [move EXCEPT ![j] = NoMove]
    /\ UNCHANGED <<phase, taken, torn>>

Torn == {j \in Jobs : move[j].pc = "unlink"}

(* The write or the unlink raises OSError: the caller sees it and goes on. *)
MoveFails(j) ==
    /\ phase = "run"
    /\ ~Idle(j)
    /\ move' = [move EXCEPT ![j] = NoMove]
    /\ torn' = torn \union (Torn \intersect {j})
    /\ UNCHANGED <<held, phase, taken>>

(* The process ends, by a crash, an exception in recover() or normally.    *)
Stop ==
    /\ phase # "down"
    /\ phase' = "down"
    /\ move' = [j \in Jobs |-> NoMove]
    /\ torn' = torn \union Torn
    /\ taken' = {}
    /\ UNCHANGED held

Restart ==
    /\ phase = "down"
    /\ phase' = "recover"
    /\ UNCHANGED <<held, move, taken, torn>>

Next ==
    \/ \E j \in Jobs : \/ Enqueue(j) \/ Dequeue(j) \/ Mark(j) \/ Recover(j)
                       \/ Write(j) \/ Unlink(j) \/ MoveFails(j)
    \/ RecoverEnds \/ Stop \/ Restart

Spec == Init /\ [][Next]_vars

-----------------------------------------------------------------------------
Lifecycle == INSTANCE JobLifecycle WITH state <- [j \in Jobs |-> Find(j)]

(* Whatever interrupts the moves, a reader that searches the directories   *)
(* in the order of STATES sees a job that never vanishes, that only a      *)
(* recovery takes back from in_progress, and that, once found in completed *)
(* or failed, stays there: enqueue() searches every directory, a move      *)
(* writes before it unlinks, and only active jobs are moved.               *)
ImplementsLifecycle == Lifecycle!Spec

(* After recover(), a job in in_progress is one this process picked up: no *)
(* job that a dead process was working on stays hidden from pending_jobs().*)
NoOrphanInProgress ==
    phase = "run" => \A j \in Jobs : "in_progress" \in held[j] => j \in taken

(* A job at rest has two files only if one of its moves was interrupted    *)
(* between the rename and the unlink. In particular completed and failed   *)
(* never both hold a job without such an interruption.                     *)
TwoFilesOnlyWhenTorn ==
    \A j \in Jobs : Idle(j) /\ j \notin torn
        => \A a, b \in held[j] : a = b

=============================================================================
