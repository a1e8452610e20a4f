------------------------------- MODULE FanOut -------------------------------
(***************************************************************************)
(* One fan-out step of a campaign (RUN_OPENSTUDIO_SIM), for the samples    *)
(* that missed the cache: campaign/steps.py submits them to the executor   *)
(* in chunks; campaign/fanout.py awaits each chunk on a pool of threads,   *)
(* records every outcome and honours cancel and pause; steps.py then marks *)
(* what is left as failed.                                                 *)
(*                                                                         *)
(* "main" is the thread that runs the step. Each submitted sample has a    *)
(* task, the call of _await_one for it; a task runs on a pool thread, or   *)
(* on main when MaxWorkers <= 1. A task's frame is the innermost handler   *)
(* an exception raised now would reach:                                    *)
(*   "inner"    the try around the bookkeeping of a result,                *)
(*   "outer"    the try around that one and handle.result(),               *)
(*   "handler"  none: inside "except Exception as e" of the outer try,     *)
(*   "tail"     none: after it.                                            *)
(*                                                                         *)
(* A job that reaches its await deadline raises like any failed job, but   *)
(* stays on the substrate. The BaseException clause of _await_one is left  *)
(* out: every error a handle raises, concurrent.futures.CancelledError     *)
(* included, is an Exception and is taken by the clause before it.         *)
(***************************************************************************)
EXTENDS Naturals, FiniteSets

CONSTANTS Samples,         \* samples with a cache miss
          ChunkSize,       \* samples submitted before they are awaited
          MaxWorkers,      \* max_workers: with one, there is no pool
          PoolSize,        \* effective_max_workers(): MaxWorkers, or less by quota
          Recovery,        \* cfg.worker_auto_recovery
          MaxRetries,      \* cfg.max_sample_retries
          MaxAttempts,     \* BOOKKEEPING_MAX_ATTEMPTS
          MaxStrikes,      \* consecutive checkpoint failures that abort
          FreshJournal,    \* FALSE: the outdir has the journal of earlier runs
          Faults,          \* operations that may raise in this instance
          Signals          \* requests that may arrive, and limits that may trip

ASSUME FanOutAssumption ==
    /\ IsFiniteSet(Samples)
    /\ {ChunkSize, PoolSize, MaxAttempts, MaxStrikes} \subseteq Nat \ {0}
    /\ {MaxWorkers, MaxRetries} \subseteq Nat
    /\ {Recovery, FreshJournal} \subseteq BOOLEAN
    /\ Faults \subseteq {"submit", "enqueue", "journal", "bookkeeping",
                         "checkpoint", "report"}
    /\ Signals \subseteq {"cancel", "pause", "quota"}

VARIABLES
    main,        \* where the thread that runs the step is
    todo,        \* samples not submitted yet
    batch,       \* samples of the current call of submit_and_await_all
    undrained,   \* pending_futures of the wait loop
    done,        \* done_futures still to be drained
    task,        \* the _await_one call of each sample
    live,        \* samples with a job running on the substrate
    simulated,   \* samples whose handle has returned a result (history)
    status,      \* _sample_state[s]["sim_status"]
    class,       \* _sample_state[s]["failure_class"]
    row,         \* the sample's row in the result cache
    journal,     \* state directories of the job queue that hold the job
    strikes,     \* consecutive_checkpoint_failures
    accounting,  \* samples in trace.accounting_errors
    cancel,      \* the sticky cancel flag or the .stop file
    pause,       \* the .pause file
    swept,       \* a cancel sweep of the executor has been issued (history)
    judging,     \* samples the step's closing pass has not looked at yet
    marking,     \* the sample it is marking as failed, if any
    dropped      \* samples whose future a pause left undrained (history)

waitVars    == <<undrained, done>>
mainVars    == <<main, todo, batch, waitVars>>
closingVars == <<judging, marking, dropped>>
jobVars     == <<live, simulated>>
recordVars  == <<status, class, row, journal, strikes, accounting>>
envVars     == <<cancel, pause, swept>>
vars == <<mainVars, closingVars, task, jobVars, recordVars, envVars>>

Sequential == MaxWorkers <= 1

Tasks == [pc    : {"none", "queued", "await", "book", "complete", "checkpoint",
                   "markJournal", "markCheckpoint", "report", "recover",
                   "returned", "raised", "aborted", "cancelled"},
          frame : {"inner", "outer", "handler", "tail"},
          tries : 0..MaxAttempts,   \* attempts of the bookkeeping callback
          retry : 0..MaxRetries,    \* _recovery_attempts
          rounds : 0..MaxRetries,   \* of the loop "for _ in range(max_sample_retries)"
          stored : BOOLEAN]         \* BookkeepingOnce has done "cache_store"

Resolved(s) == task[s].pc \in {"returned", "raised", "aborted", "cancelled"}
Busy(s)     == task[s].pc \notin {"none", "queued"} /\ ~Resolved(s)

TypeOK ==
    /\ main \in {"submit", "enqueue", "wait", "drain", "join", "joinAbort",
                 "joinCancel", "post", "finished", "failed", "paused", "interrupted"}
    /\ {todo, batch, undrained, done, live, simulated, accounting,
        judging, marking, dropped} \subseteq SUBSET Samples
    /\ task \in [Samples -> Tasks]
    /\ status \in [Samples -> {"none", "ok", "failed"}]
    /\ class \in [Samples -> {"none", "simulation_error", "bookkeeping_error"}]
    /\ row \in [Samples -> {"none", "ok", "failed"}]
    /\ journal \in [Samples -> SUBSET {"pending", "completed", "failed"}]
    /\ strikes \in 0..MaxStrikes
    /\ {cancel, pause, swept} \subseteq BOOLEAN

Init ==
    /\ main = "submit"
    /\ todo = Samples
    /\ batch = {} /\ undrained = {} /\ done = {} /\ judging = {} /\ marking = {}
    /\ dropped = {}
    /\ live = {} /\ simulated = {}
    /\ task = [s \in Samples |->
                 [pc |-> "none", frame |-> "outer", tries |-> 0, retry |-> 0,
                  rounds |-> 0, stored |-> FALSE]]
    /\ status = [s \in Samples |-> "none"]
    /\ class = [s \in Samples |-> "none"]
    /\ row = [s \in Samples |-> "none"]
    /\ journal \in [Samples -> IF FreshJournal THEN {{}}
                               ELSE {{}, {"pending"}, {"completed"}, {"failed"}}]
    /\ strikes = 0
    /\ accounting = {}
    /\ cancel = FALSE /\ pause = FALSE /\ swept = FALSE

-----------------------------------------------------------------------------
(* Submission: the chunk loop of step_run_openstudio_sim.                  *)

SubmitOne(s) ==
    /\ main = "submit"
    /\ s \in todo
    /\ Cardinality(batch) < ChunkSize
    /\ ~pause
    /\ batch' = batch \union {s}
    /\ todo' = todo \ {s}
    /\ task' = [task EXCEPT ![s].pc = "queued"]
    /\ live' = live \union {s}
    /\ UNCHANGED <<main, waitVars, closingVars, simulated, recordVars, envVars>>

(* executor.submit raises: the exception leaves the step.                  *)
SubmitRaises ==
    /\ "submit" \in Faults
    /\ main = "submit"
    /\ todo # {} /\ Cardinality(batch) < ChunkSize
    /\ ~pause
    /\ main' = "failed"
    /\ UNCHANGED <<todo, batch, waitVars, closingVars, task, jobVars, recordVars, envVars>>

CloseChunk ==
    /\ main = "submit"
    /\ batch # {}
    /\ todo = {} \/ Cardinality(batch) = ChunkSize
    /\ main' = "enqueue"
    /\ UNCHANGED <<todo, batch, waitVars, closingVars, task, jobVars, recordVars, envVars>>

(* A pause inside a chunk: the rest of the chunk is passed over for good,  *)
(* the loop goes on with the next chunk.                                   *)
CutChunkShort ==
    /\ main = "submit"
    /\ pause
    /\ \E skipped \in SUBSET todo :
         /\ skipped # {}
         /\ \/ Cardinality(skipped) = ChunkSize - Cardinality(batch)
            \/ skipped = todo /\ Cardinality(todo) < ChunkSize - Cardinality(batch)
         /\ todo' = todo \ skipped
    /\ main' = IF batch = {} THEN "submit" ELSE "enqueue"
    /\ UNCHANGED <<batch, waitVars, closingVars, task, jobVars, recordVars, envVars>>

(* Every chunk was submitted, or a pause or a resource quota found between *)
(* two chunks stops the loop.                                              *)
EndSubmission ==
    /\ main = "submit"
    /\ batch = {}
    /\ todo = {} \/ pause \/ "quota" \in Signals
    /\ main' = "post"
    /\ judging' = Samples
    /\ UNCHANGED <<todo, batch, waitVars, marking, dropped, task, jobVars, recordVars, envVars>>

-----------------------------------------------------------------------------
(* submit_and_await_all: journal the chunk, start the pool, wait.          *)

(* enqueue() leaves a job alone that is in any state directory already.    *)
Enqueued(s) == IF journal[s] = {} THEN {"pending"} ELSE journal[s]

Enqueue ==
    /\ main = "enqueue"
    /\ \E some \in SUBSET batch :
         /\ journal' = [s \in Samples |-> IF s \in some THEN Enqueued(s) ELSE journal[s]]
         /\ \/ some = batch /\ main' = "wait"
            \/ "enqueue" \in Faults /\ main' = "failed"
    /\ undrained' = batch
    /\ UNCHANGED <<todo, batch, done, closingVars, task, jobVars, status, class, row, strikes,
                   accounting, envVars>>

(* submit_and_await_all returns to the chunk loop.                         *)
ReturnToChunkLoop == main' = "submit" /\ batch' = {} /\ undrained' = {} /\ done' = {}

(* concurrent.futures.wait came back with some resolved futures and        *)
(* neither flag is up.                                                     *)
WaitReturns ==
    /\ main = "wait" /\ ~Sequential
    /\ ~cancel /\ ~pause
    /\ \E D \in SUBSET undrained :
         /\ D # {} /\ \A s \in D : Resolved(s)
         /\ done' = D
         /\ undrained' = undrained \ D
    /\ main' = "drain"
    /\ UNCHANGED <<todo, batch, closingVars, task, jobVars, recordVars, envVars>>

(* Slips the checks must catch in the drain: accounting errors are         *)
(* dropped, and an abort is taken for one.                                 *)
NoAccountingError(s) == {}
NeverAborts(s)       == FALSE

AccountingError(s) == IF task[s].pc = "raised" THEN {s} ELSE {}
CarriesAbort(s)    == task[s].pc = "aborted"

(* A future that carries an exception other than the abort is recorded on  *)
(* the trace.                                                              *)
Drain(s) ==
    /\ main = "drain" /\ s \in done
    /\ ~CarriesAbort(s)
    /\ done' = done \ {s}
    /\ accounting' = accounting \union AccountingError(s)
    /\ UNCHANGED <<main, todo, batch, undrained, closingVars, task, jobVars, status, class, row,
                   journal, strikes, envVars>>

Cancelled(S) == [s \in Samples |->
    IF s \in S /\ task[s].pc = "queued" THEN [task[s] EXCEPT !.pc = "cancelled"] ELSE task[s]]

(* The abort is re-raised through the wait loop; queued tasks are          *)
(* cancelled and the pool is joined on the way out.                        *)
DrainAbort(s) ==
    /\ main = "drain" /\ s \in done
    /\ CarriesAbort(s)
    /\ task' = Cancelled(batch)
    /\ main' = "joinAbort"
    /\ UNCHANGED <<todo, batch, waitVars, closingVars, jobVars, recordVars, envVars>>

Drained ==
    /\ main = "drain" /\ done = {}
    /\ IF undrained # {}
       THEN main' = "wait" /\ UNCHANGED <<batch, waitVars>>
       ELSE ReturnToChunkLoop
    /\ UNCHANGED <<todo, closingVars, task, jobVars, recordVars, envVars>>

(* The wait loop sees the cancel flag: kill the substrate jobs, then       *)
(* cancel the queued tasks.                                                *)
SeeCancel ==
    /\ main = "wait" /\ ~Sequential
    /\ cancel
    /\ live' = {}
    /\ swept' = TRUE
    /\ task' = Cancelled(batch)
    /\ main' = "joinCancel"
    /\ UNCHANGED <<todo, batch, waitVars, closingVars, simulated, recordVars, cancel, pause>>

(* The wait loop sees the pause file: futures are neither cancelled nor    *)
(* drained.                                                                *)
SeePause ==
    /\ main = "wait" /\ ~Sequential
    /\ ~cancel /\ pause
    /\ main' = "join"
    /\ dropped' = dropped \union undrained
    /\ UNCHANGED <<todo, batch, waitVars, judging, marking, task, jobVars, recordVars, envVars>>

(* A slip the checks must catch: the pool is not joined.                   *)
PoolAbandoned == TRUE

(* pool.shutdown(wait=True): every task has ended, queued ones included.   *)
PoolEnded == \A s \in batch : Resolved(s)

(* After the join the abort continues to propagate.                        *)
JoinAbort ==
    /\ main = "joinAbort"
    /\ PoolEnded
    /\ main' = "failed"
    /\ UNCHANGED <<todo, batch, waitVars, closingVars, task, jobVars, recordVars, envVars>>

Join ==
    /\ main = "join"
    /\ PoolEnded
    /\ ReturnToChunkLoop
    /\ UNCHANGED <<todo, closingVars, task, jobVars, recordVars, envVars>>

(* A slip the checks must catch: an unbounded join on the cancel path.     *)
PoolDrainUnbounded == \A s \in batch : Resolved(s)

(* The bounded drain ends when every thread has, or at its deadline: at    *)
(* any moment, and possibly with tasks that are still busy.                *)
PoolDrainEnds == TRUE

JoinCancel ==
    /\ main = "joinCancel"
    /\ PoolDrainEnds
    /\ ReturnToChunkLoop
    /\ UNCHANGED <<todo, closingVars, task, jobVars, recordVars, envVars>>

-----------------------------------------------------------------------------
(* max_workers <= 1: main runs the tasks itself, checking the flags before *)
(* each, and whatever a task raises goes straight up.                      *)

SeqStart(s) ==
    /\ main = "wait" /\ Sequential
    /\ \A t \in batch \ undrained : task[t].pc = "returned"
    /\ s \in undrained
    /\ ~cancel /\ ~pause
    /\ undrained' = undrained \ {s}
    /\ task' = [task EXCEPT ![s].pc = "await"]
    /\ UNCHANGED <<main, todo, batch, done, closingVars, jobVars, recordVars, envVars>>

SeqRaise ==
    /\ main = "wait" /\ Sequential
    /\ \E s \in batch : task[s].pc \in {"raised", "aborted"}
    /\ main' = "failed"
    /\ UNCHANGED <<todo, batch, waitVars, closingVars, task, jobVars, recordVars, envVars>>

(* A slip the checks must catch: the loop is left, nothing is raised.      *)
SeqCancelReturns ==
    /\ main = "wait" /\ Sequential
    /\ \A t \in batch \ undrained : task[t].pc = "returned"
    /\ cancel
    /\ live' = {}
    /\ swept' = TRUE
    /\ ReturnToChunkLoop
    /\ UNCHANGED <<todo, closingVars, task, simulated, recordVars, cancel, pause>>

(* KeyboardInterrupt, which run() answers with a cancel sweep.             *)
SeqCancel ==
    /\ main = "wait" /\ Sequential
    /\ \A t \in batch \ undrained : task[t].pc = "returned"
    /\ cancel
    /\ live' = {}
    /\ swept' = TRUE
    /\ main' = "interrupted"
    /\ UNCHANGED <<todo, batch, waitVars, closingVars, task, simulated, recordVars, cancel, pause>>

SeqPause ==
    /\ main = "wait" /\ Sequential
    /\ \A t \in batch \ undrained : task[t].pc = "returned"
    /\ undrained # {}
    /\ ~cancel /\ pause
    /\ main' = "paused"
    /\ UNCHANGED <<todo, batch, waitVars, closingVars, task, jobVars, recordVars, envVars>>

(* The flag check after the loop reads no .stop file, so a cancel may go   *)
(* unseen here.                                                            *)
SeqReturn ==
    /\ main = "wait" /\ Sequential
    /\ undrained = {}
    /\ \A t \in batch : task[t].pc = "returned"
    /\ ReturnToChunkLoop
    /\ UNCHANGED <<todo, closingVars, task, jobVars, recordVars, envVars>>

-----------------------------------------------------------------------------
(* The closing pass of the step: every sample that is not "ok" is failed.  *)

PostCheck(s) ==
    /\ main = "post" /\ marking = {}
    /\ s \in judging
    /\ judging' = judging \ {s}
    /\ IF status[s] = "ok"
       THEN UNCHANGED <<marking, status>>
       ELSE marking' = {s} /\ status' = [status EXCEPT ![s] = "failed"]
    /\ UNCHANGED <<mainVars, dropped, task, jobVars, class, row, journal, strikes, accounting,
                   envVars>>

PostStore(s) ==
    /\ main = "post"
    /\ s \in marking
    /\ row' = IF class[s] = "bookkeeping_error" THEN row ELSE [row EXCEPT ![s] = "failed"]
    /\ marking' = {}
    /\ UNCHANGED <<mainVars, judging, dropped, task, jobVars, status, class, journal, strikes,
                   accounting, envVars>>

(* The step returns. The entry checks of the next step turn a cancel into  *)
(* KeyboardInterrupt and so a second sweep, and a pause into a paused run. *)
PostEnd ==
    /\ main = "post" /\ judging = {} /\ marking = {}
    /\ \/ /\ cancel
          /\ main' = "interrupted"
          /\ live' = {} /\ swept' = TRUE
       \/ /\ ~cancel
          /\ main' = IF pause THEN "paused" ELSE "finished"
          /\ UNCHANGED <<live, swept>>
    /\ UNCHANGED <<todo, batch, waitVars, closingVars, task, simulated, recordVars, cancel, pause>>

-----------------------------------------------------------------------------
(* A task: _await_one.                                                     *)

(* The task after an Exception is raised in it. The outer handler starts   *)
(* recovery when it is enabled, else mark_sample_failed.                   *)
OuterHandler(t) ==
    [t EXCEPT !.frame = "handler", !.pc = IF Recovery THEN "recover" ELSE "markJournal"]

(* A slip the checks must catch: no handler of its own for bookkeeping.    *)
RaisedNoInner(t, kind) ==
    IF t.frame \in {"inner", "outer"} THEN OuterHandler(t) ELSE [t EXCEPT !.pc = kind]

Raised(t, kind) ==
    CASE t.frame = "inner" -> [t EXCEPT !.frame = "outer", !.pc = "markJournal"]
      [] t.frame = "outer" -> OuterHandler(t)
      [] OTHER             -> [t EXCEPT !.pc = kind]

Goes(s, t) == task' = [task EXCEPT ![s] = t]

Start(s) ==
    /\ main \in {"wait", "drain", "join"} /\ ~Sequential
    /\ s \in batch /\ task[s].pc = "queued"
    /\ Cardinality({t \in batch : Busy(t)}) < PoolSize
    /\ task' = [task EXCEPT ![s].pc = "await"]
    /\ UNCHANGED <<mainVars, closingVars, jobVars, recordVars, envVars>>

(* handle.result() returns; on_success is next.                            *)
AwaitOk(s) ==
    /\ task[s].pc = "await"
    /\ Goes(s, [task[s] EXCEPT !.pc = "book", !.tries = 0,
                               !.frame = IF @ = "outer" THEN "inner" ELSE @])
    /\ live' = live \ {s}
    /\ simulated' = simulated \union {s}
    /\ UNCHANGED <<mainVars, closingVars, recordVars, envVars>>

(* handle.result() raises: the job failed, was killed or was cancelled, or *)
(* the await deadline passed with the job still on the substrate. In the   *)
(* recovery loop the next attempt follows.                                 *)
AwaitFails(s) ==
    /\ task[s].pc = "await"
    /\ Goes(s, IF task[s].frame = "outer" THEN OuterHandler(task[s])
               ELSE [task[s] EXCEPT !.pc = "recover"])
    /\ live' \in {live, live \ {s}}
    /\ UNCHANGED <<mainVars, closingVars, simulated, recordVars, envVars>>

Stored(s) == [row EXCEPT ![s] = "ok"]

(* on_success returns. BookkeepingOnce skips what an earlier attempt did.  *)
BookOk(s) ==
    /\ task[s].pc = "book"
    /\ Goes(s, [task[s] EXCEPT !.pc = "complete", !.stored = TRUE])
    /\ row' = IF task[s].stored THEN row ELSE Stored(s)
    /\ status' = [status EXCEPT ![s] = "ok"]
    /\ UNCHANGED <<mainVars, closingVars, jobVars, class, journal, strikes, accounting, envVars>>

(* on_success raises, before or after the cache row was stored; only the   *)
(* first await's bookkeeping is retried.                                   *)
BookRaises(s) ==
    /\ "bookkeeping" \in Faults
    /\ task[s].pc = "book"
    /\ \E stored \in {task[s].stored, TRUE} :
         /\ row' = IF stored /\ ~task[s].stored THEN Stored(s) ELSE row
         /\ LET t == [task[s] EXCEPT !.stored = stored]
            IN  Goes(s, IF t.frame = "inner" /\ t.tries + 1 < MaxAttempts
                        THEN [t EXCEPT !.tries = @ + 1]
                        ELSE Raised(t, "raised"))
    /\ UNCHANGED <<mainVars, closingVars, jobVars, status, class, journal, strikes, accounting,
                   envVars>>

(* A slip the checks must catch: a finished job stays where it is.         *)
NotMoved(s, to) == journal

(* mark_completed / mark_failed: a job in no active directory is skipped.  *)
Moved(s, to) ==
    IF "pending" \in journal[s]
    THEN [journal EXCEPT ![s] = (@ \ {"pending"}) \union {to}]
    ELSE journal

(* The same call failing: before the new file is written, or before the    *)
(* old one is removed.                                                     *)
HalfMoved(s, to) ==
    {journal, [journal EXCEPT ![s] = IF "pending" \in @ THEN @ \union {to} ELSE @]}

(* mark_completed, and the reset of the recovery attempts.                 *)
Complete(s) ==
    /\ task[s].pc = "complete"
    /\ \/ /\ journal' = Moved(s, "completed")
          /\ Goes(s, [task[s] EXCEPT !.pc = "checkpoint", !.retry = 0,
                                     !.frame = IF @ = "inner" THEN "tail" ELSE @])
       \/ /\ "journal" \in Faults
          /\ journal' \in HalfMoved(s, "completed")
          /\ Goes(s, Raised(task[s], "raised"))
    /\ UNCHANGED <<mainVars, closingVars, jobVars, status, class, row, strikes, accounting, envVars>>

(* A slip the checks must catch: one strike too many.                      *)
OneStrikeLate(n) == n > MaxStrikes

StruckOut(n) == n >= MaxStrikes

(* checkpoint_sample: the write succeeds and clears the counter, or it is  *)
(* counted, and the third failure in a row raises CampaignAbortError. The  *)
(* counter is saturated at MaxStrikes, which is all the code tests.        *)
CheckpointThen(s, next) ==
    \/ /\ strikes' = 0
       /\ Goes(s, next)
    \/ /\ "checkpoint" \in Faults
       /\ strikes' = IF strikes < MaxStrikes THEN strikes + 1 ELSE strikes
       /\ Goes(s, IF StruckOut(strikes') THEN Raised(task[s], "aborted") ELSE next)

(* The checkpoint of a sample that succeeded.                              *)
Checkpoint(s) ==
    /\ task[s].pc = "checkpoint"
    /\ CheckpointThen(s, [task[s] EXCEPT !.pc = "returned"])
    /\ UNCHANGED <<mainVars, closingVars, jobVars, status, class, row, journal, accounting, envVars>>

-----------------------------------------------------------------------------
(* mark_sample_failed, called from the inner handler (frame "outer") or    *)
(* from the outer one (frame "handler").                                   *)

(* A slip the checks must catch: every failure is a simulation failure.    *)
FailureClassOfAll(s) == "simulation_error"

FailureClass(s) ==
    IF task[s].frame = "outer" THEN "bookkeeping_error" ELSE "simulation_error"

(* job_queue.mark_failed, then the sample's state.                         *)
MarkJournal(s) ==
    /\ task[s].pc = "markJournal"
    /\ \/ /\ journal' = Moved(s, "failed")
          /\ status' = [status EXCEPT ![s] = "failed"]
          /\ class' = [class EXCEPT ![s] = FailureClass(s)]
          /\ Goes(s, [task[s] EXCEPT !.pc = "markCheckpoint"])
       \/ /\ "journal" \in Faults
          /\ journal' \in HalfMoved(s, "failed")
          /\ Goes(s, Raised(task[s], "raised"))
          /\ UNCHANGED <<status, class>>
    /\ UNCHANGED <<mainVars, closingVars, jobVars, row, strikes, accounting, envVars>>

MarkCheckpoint(s) ==
    /\ task[s].pc = "markCheckpoint"
    /\ CheckpointThen(s, [task[s] EXCEPT !.pc = "report"])
    /\ UNCHANGED <<mainVars, closingVars, jobVars, status, class, row, journal, accounting, envVars>>

(* obs.record_sample_status and the alert.                                 *)
Report(s) ==
    /\ task[s].pc = "report"
    /\ \/ Goes(s, [task[s] EXCEPT !.pc = "returned"])
       \/ "report" \in Faults /\ Goes(s, Raised(task[s], "raised"))
    /\ UNCHANGED <<mainVars, closingVars, jobVars, recordVars, envVars>>

-----------------------------------------------------------------------------
(* The recovery loop of the outer handler.                                 *)

(* A slip the checks must catch: recovery goes on while the heartbeat is   *)
(* stale, and neither the loop nor the manager counts.                     *)
NotAttempted(t) == t

(* Two counts bound it: the manager's of the sample, and the loop's own.   *)
BudgetLeft(t) == t.rounds < MaxRetries /\ t.retry < MaxRetries
Attempted(t)  == [t EXCEPT !.retry = @ + 1, !.rounds = @ + 1]

(* The heartbeat is stale and the budget is not spent: forget the failure  *)
(* and submit the sample again. The submission itself may raise.           *)
Resubmit(s) ==
    /\ task[s].pc = "recover"
    /\ BudgetLeft(task[s])
    /\ status' = [status EXCEPT ![s] = "none"]
    /\ class' = [class EXCEPT ![s] = "none"]
    /\ \/ /\ live' = live \union {s}
          /\ Goes(s, [Attempted(task[s]) EXCEPT !.pc = "await"])
       \/ /\ "submit" \in Faults
          /\ live' = live
          /\ Goes(s, Raised(Attempted(task[s]), "raised"))
    /\ UNCHANGED <<mainVars, closingVars, simulated, row, journal, strikes, accounting, envVars>>

(* The worker is alive after all, or the budget is spent.                  *)
GiveUp(s) ==
    /\ task[s].pc = "recover"
    /\ Goes(s, [task[s] EXCEPT !.pc = "markJournal"])
    /\ UNCHANGED <<mainVars, closingVars, jobVars, recordVars, envVars>>

-----------------------------------------------------------------------------
(* Requests from outside. The pause file may be removed again.             *)

RequestCancel ==
    /\ "cancel" \in Signals /\ ~cancel
    /\ cancel' = TRUE
    /\ UNCHANGED <<mainVars, closingVars, task, jobVars, recordVars, pause, swept>>

TogglePause ==
    /\ "pause" \in Signals
    /\ pause' = ~pause
    /\ UNCHANGED <<mainVars, closingVars, task, jobVars, recordVars, cancel, swept>>

Ended == main \in {"finished", "failed", "paused", "interrupted"}

Main ==
    \/ SubmitRaises \/ CloseChunk \/ CutChunkShort \/ EndSubmission \/ Enqueue
    \/ WaitReturns \/ Drained \/ SeeCancel \/ SeePause
    \/ JoinAbort \/ Join \/ JoinCancel
    \/ SeqRaise \/ SeqCancel \/ SeqPause \/ SeqReturn \/ PostEnd
    \/ \E s \in Samples :
         SubmitOne(s) \/ Drain(s) \/ DrainAbort(s) \/ SeqStart(s) \/ PostCheck(s) \/ PostStore(s)

Await(s) == AwaitOk(s) \/ AwaitFails(s)

Task(s) ==
    \/ Start(s) \/ BookOk(s) \/ BookRaises(s) \/ Complete(s)
    \/ Checkpoint(s) \/ MarkJournal(s) \/ MarkCheckpoint(s) \/ Report(s)
    \/ Resubmit(s) \/ GiveUp(s)

Next ==
    \/ Main
    \/ \E s \in Samples : Await(s) \/ Task(s)
    \/ ~Ended /\ (RequestCancel \/ TogglePause)

Spec == Init /\ [][Next]_vars

(* The threads keep running; a job may never end.                          *)
FairSpec ==
    /\ Spec
    /\ WF_vars(Main)
    /\ \A s \in Samples : WF_vars(Task(s))

-----------------------------------------------------------------------------
(* Safety.                                                                 *)

(* When the step returns to the campaign, every sample that was awaited is *)
(* "ok", is "failed" with a class, or is listed in accounting_errors: "it  *)
(* is never swallowed". Not so for a sample whose future the wait loop     *)
(* drops when it sees a pause that is lifted in time.                      *)
EverySampleAccounted ==
    main = "finished" =>
      \A s \in Samples \ dropped : task[s].pc # "none" =>
        \/ status[s] = "ok"
        \/ status[s] = "failed" /\ class[s] # "none"
        \/ s \in accounting

(* "It is re-raised from the as_completed loop so the abort crosses the    *)
(* worker-thread boundary": no campaign goes on past an aborted task, but  *)
(* for one whose future a pause dropped, which nobody reads.               *)
AbortPropagates ==
    (\E s \in Samples \ dropped : task[s].pc = "aborted") => main \notin {"finished", "paused"}

(* "After N consecutive failures in checkpoint_sample we abort instead of  *)
(* silently continuing": the task that makes the last strike ends with the *)
(* abort, unless it recorded a bookkeeping failure, whose abort the outer  *)
(* handler takes for a failure to record.                                  *)
ThirdStrikeAborts ==
    [][strikes < MaxStrikes /\ strikes' = MaxStrikes
         => \E s \in Samples : \/ task'[s].pc = "aborted"
                               \/ task[s].frame = "outer" /\ task'[s].frame = "handler"]_vars

(* A step that was not cancelled leaves no thread behind: when control is  *)
(* back in the chunk loop or has left the step, no task is running.        *)
NoThreadLeftBehind ==
    /\ ~swept
    /\ main \in {"post", "finished", "failed", "paused"} \/ (main = "submit" /\ batch = {})
    => \A s \in Samples : ~Busy(s)

(* "The simulation is never re-run" once its handle returned a result,     *)
(* whatever goes wrong in the bookkeeping after it.                        *)
SuccessIsNotRerun ==
    [][\A s \in simulated : s \in live' => s \in live]_vars

(* The row of a simulation that succeeded and was cached is never replaced *)
(* by a failed one; failure_class exists for the closing pass to know. Not *)
(* after a cancel, which leaves threads in the middle of their books, nor  *)
(* for a sample that recovery submitted again, whose failed books nobody   *)
(* classifies.                                                             *)
CachedSuccessSurvives ==
    [][\A s \in simulated :
         row[s] = "ok" /\ ~swept /\ task[s].retry = 0 => row'[s] = "ok"]_vars

(* The journal tells a restarted campaign what the records say: each       *)
(* awaited sample's job is "marked completed/failed after".                *)
JournalAgrees ==
    main = "finished" =>
      \A s \in Samples : task[s].pc = "returned" =>
        journal[s] = {IF status[s] = "ok" THEN "completed" ELSE "failed"}

(* Once the cancel sweep has killed the substrate jobs, no new one starts. *)
NoJobAfterSweep ==
    [][swept => live' \subseteq live]_vars

(* "Deleting the .pause file immediately unblocks new submissions": a step *)
(* that completes has not failed samples it never submitted.               *)
UnpausedSamplesRun ==
    main = "finished" => \A s \in Samples : status[s] = "failed" => task[s].pc # "none"

-----------------------------------------------------------------------------
(* Liveness.                                                               *)

(* If every await ends, as it does when the await deadline is set, so does *)
(* the step, retries, recovery and failures of every kind included.        *)
StepEnds == (\A s \in Samples : []<>(task[s].pc # "await")) => <>Ended

(* A cancelled step ends even when the jobs never do: "the cancelled run() *)
(* proceeds to write status=cancelled instead of hanging until SIGKILL".   *)
CancelEnds == cancel ~> Ended
=============================================================================
