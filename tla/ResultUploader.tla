--------------------------- MODULE ResultUploader ---------------------------
(***************************************************************************)
(* ResultStorageUploader of storage/__init__.py: calls of upload_file()    *)
(* check the uploader and then put their file on a bounded FIFO queue,     *)
(* worker threads upload with retries, and close() drains the queue under  *)
(* an optional deadline, abandons what is left, and stops the workers with *)
(* one marker each.                                                        *)
(*                                                                         *)
(* A call of upload_file() is identified with the file it uploads: fate[f] *)
(* is where the call and then the file are. The storage may fail an        *)
(* attempt, and it may never answer one. On Azure an attempt runs on a     *)
(* thread pool, which close() shuts down after the workers: pool is what   *)
(* that waits for, and always empty on other storages. Backoff sleeps,     *)
(* messages, and calls of close() after the first, which return at once,   *)
(* are left out.                                                           *)
(***************************************************************************)
EXTENDS Integers, Sequences, FiniteSets

CONSTANTS Files,       \* one per call of upload_file()
          Callers,     \* how many calls of upload_file() run at once
          Workers,     \* the upload threads
          MaxQueue,    \* max_queue_size
          MaxRetries   \* retries of one file

ASSUME UploaderAssumption ==
    /\ IsFiniteSet(Files) /\ IsFiniteSet(Workers) /\ Workers # {}
    /\ MaxQueue \in Nat \ {0}
    /\ MaxRetries \in Nat
    /\ Callers \in Nat \ {0}

STOP == "stop"  \* the None that tells a worker to return

ASSUME StopAssumption == STOP \notin Files

VARIABLES
    fate,        \* of each file
    queue,       \* files and STOP markers, oldest first
    unfinished,  \* Queue.unfinished_tasks
    worker,      \* the threads
    close,       \* the call of close()
    pool,        \* workers whose attempt the shutdown of the Azure pool awaits
    late         \* files put on the queue after close() began (history)

vars == <<fate, queue, unfinished, worker, close, pool, late>>

Fates == {"new", "checked", "refused", "queued", "uploading",
          "stored", "failed", "abandoned"}
Busy(w) == worker[w].pc = "busy"
Closing == {"drain", "abandon", "stop", "join", "shutdown"}

Getting == [pc |-> "get"]
Gone    == [pc |-> "gone"]

TypeOK ==
    /\ fate \in [Files -> Fates]
    /\ queue \in Seq(Files \union {STOP})
    /\ unfinished \in Nat
    /\ worker \in [Workers -> {Getting, Gone} \union
                     [pc : {"busy"}, file : Files, attempt : 0..MaxRetries]]
    /\ close \in [pc : {"open", "closed"} \union Closing, bounded : BOOLEAN,
                  drained : BOOLEAN, stops : 0..Cardinality(Workers)]
    /\ pool \subseteq Workers
    /\ late \subseteq Files

Init ==
    /\ fate = [f \in Files |-> "new"]
    /\ queue = <<>> /\ unfinished = 0
    /\ worker = [w \in Workers |-> Getting]
    /\ close = [pc |-> "open", bounded |-> FALSE, drained |-> FALSE, stops |-> 0]
    /\ pool = {} /\ late = {}

FateOf(f, new) == fate' = [fate EXCEPT ![f] = new]
HasRoom == Len(queue) < MaxQueue

-----------------------------------------------------------------------------
(* upload_file(), from a recording thread of the campaign.                 *)

Failures == {f \in Files : fate[f] = "failed"}

(* _raise_if_failed() and the look at _closed under the close lock.        *)
Check(f) ==
    /\ fate[f] = "new"
    /\ Cardinality({g \in Files : fate[g] = "checked"}) < Callers
    /\ FateOf(f, IF Failures # {} \/ close.pc # "open" THEN "refused" ELSE "checked")
    /\ UNCHANGED <<queue, unfinished, worker, close, pool, late>>

(* queue.put(), which waits for room, outside the lock.                    *)
Put(f) ==
    /\ fate[f] = "checked"
    /\ HasRoom
    /\ queue' = Append(queue, f)
    /\ unfinished' = unfinished + 1
    /\ FateOf(f, "queued")
    /\ late' = IF close.pc = "open" THEN late ELSE late \union {f}
    /\ UNCHANGED <<worker, close, pool>>

-----------------------------------------------------------------------------
(* _worker_loop().                                                         *)

(* A slip the checks must catch: task_done() as soon as the item is taken. *)
TakeDone(w) ==
    /\ worker[w] = Getting
    /\ queue # <<>> /\ Head(queue) # STOP
    /\ queue' = Tail(queue)
    /\ worker' = [worker EXCEPT ![w] = [pc |-> "busy", file |-> Head(queue), attempt |-> 0]]
    /\ FateOf(Head(queue), "uploading")
    /\ unfinished' = unfinished - 1
    /\ UNCHANGED <<close, pool, late>>

Take(w) ==
    /\ worker[w] = Getting
    /\ queue # <<>> /\ Head(queue) # STOP
    /\ queue' = Tail(queue)
    /\ worker' = [worker EXCEPT ![w] = [pc |-> "busy", file |-> Head(queue), attempt |-> 0]]
    /\ FateOf(Head(queue), "uploading")
    /\ UNCHANGED <<unfinished, close, pool, late>>

TakeStop(w) ==
    /\ worker[w] = Getting
    /\ queue # <<>> /\ Head(queue) = STOP
    /\ queue' = Tail(queue)
    /\ unfinished' = unfinished - 1
    /\ worker' = [worker EXCEPT ![w] = Gone]
    /\ UNCHANGED <<fate, close, pool, late>>

(* The upload is over, and task_done() is called.                          *)
Finish(w, outcome) ==
    /\ FateOf(worker[w].file, outcome)
    /\ worker' = [worker EXCEPT ![w] = Getting]
    /\ unfinished' = unfinished - 1

AttemptSucceeds(w) ==
    /\ Busy(w)
    /\ Finish(w, "stored")
    /\ pool' = pool \ {w}
    /\ UNCHANGED <<queue, close, late>>

AttemptFails(w) ==
    /\ Busy(w)
    /\ \/ /\ worker[w].attempt < MaxRetries
          /\ worker' = [worker EXCEPT ![w].attempt = @ + 1]
          /\ UNCHANGED <<fate, unfinished>>
       \/ /\ worker[w].attempt = MaxRetries
          /\ Finish(w, "failed")
    /\ pool' = pool \ {w}
    /\ UNCHANGED <<queue, close, late>>

-----------------------------------------------------------------------------
(* close(timeout_s): bounded is a timeout_s that is not None.              *)

CloseTo(pc) == close' = [close EXCEPT !.pc = pc]

BeginClose ==
    /\ close.pc = "open"
    /\ \E b \in BOOLEAN : close' = [close EXCEPT !.pc = "drain", !.bounded = b]
    /\ UNCHANGED <<fate, queue, unfinished, worker, pool, late>>

Drained ==
    /\ close.pc = "drain"
    /\ unfinished = 0
    /\ close' = [close EXCEPT !.pc = "stop", !.drained = TRUE]
    /\ UNCHANGED <<fate, queue, unfinished, worker, pool, late>>

DrainTimesOut ==
    /\ close.pc = "drain"
    /\ close.bounded
    /\ CloseTo("abandon")
    /\ UNCHANGED <<fate, queue, unfinished, worker, pool, late>>

(* _abandon_pending(), one get_nowait() at a time.                         *)
Abandon ==
    /\ close.pc = "abandon"
    /\ queue # <<>>
    /\ queue' = Tail(queue)
    /\ FateOf(Head(queue), "abandoned")
    /\ unfinished' = unfinished - 1
    /\ UNCHANGED <<worker, close, pool, late>>

(* A slip the checks must catch: only the files seen at the first look are *)
(* discarded.                                                              *)
AbandonEndsEarly ==
    /\ close.pc = "abandon"
    /\ CloseTo("stop")
    /\ UNCHANGED <<fate, queue, unfinished, worker, pool, late>>

AbandonEnds ==
    /\ close.pc = "abandon"
    /\ queue = <<>>
    /\ CloseTo("stop")
    /\ UNCHANGED <<fate, queue, unfinished, worker, pool, late>>

(* _stop_workers(): put(None) for each worker, which waits for room.       *)
PutStop ==
    /\ close.pc = "stop"
    /\ close.stops < Cardinality(Workers)
    /\ HasRoom
    /\ queue' = Append(queue, STOP)
    /\ unfinished' = unfinished + 1
    /\ close' = [close EXCEPT !.stops = @ + 1]
    /\ UNCHANGED <<fate, worker, pool, late>>

StopsPut ==
    /\ close.pc = "stop"
    /\ close.stops = Cardinality(Workers)
    /\ CloseTo("join")
    /\ UNCHANGED <<fate, queue, unfinished, worker, pool, late>>

(* The workers are joined, or the deadline passes first. If the queue was  *)
(* drained, the Azure pool is then shut down with wait=True: it may hold   *)
(* the attempt of any worker still busy. (Not of every one: it may be      *)
(* between two attempts, or have made a pool of its own in the race of the *)
(* first attempts, of which one pool is kept.)                             *)
WorkersJoined ==
    /\ close.pc = "join"
    /\ close.bounded \/ \A w \in Workers : worker[w] = Gone

(* A slip the checks must catch: the shutdown waits without a look at      *)
(* drained.                                                                *)
ShutdownAlways ==
    /\ WorkersJoined
    /\ CloseTo("shutdown")
    /\ pool' \in SUBSET {w \in Workers : Busy(w)}
    /\ UNCHANGED <<fate, queue, unfinished, worker, late>>

JoinUndrained ==
    /\ WorkersJoined
    /\ ~close.drained
    /\ CloseTo("closed")
    /\ UNCHANGED <<fate, queue, unfinished, worker, pool, late>>

JoinDrained ==
    /\ WorkersJoined
    /\ close.drained
    /\ CloseTo("shutdown")
    /\ pool' \in SUBSET {w \in Workers : Busy(w)}
    /\ UNCHANGED <<fate, queue, unfinished, worker, late>>

ShutdownEnds ==
    /\ close.pc = "shutdown"
    /\ pool = {}
    /\ CloseTo("closed")
    /\ UNCHANGED <<fate, queue, unfinished, worker, pool, late>>

-----------------------------------------------------------------------------
Work(w)  == Take(w) \/ TakeStop(w)
CloseStep == Drained \/ DrainTimesOut \/ Abandon \/ AbandonEnds
             \/ PutStop \/ StopsPut
             \/ JoinUndrained \/ JoinDrained \/ ShutdownEnds

Next ==
    \/ \E f \in Files : Check(f) \/ Put(f)
    \/ \E w \in Workers : Work(w) \/ AttemptSucceeds(w) \/ AttemptFails(w)
    \/ BeginClose \/ CloseStep

Spec == Init /\ [][Next]_vars

(* Threads run; an attempt may hang, so nothing is assumed of attempts.    *)
FairSpec ==
    /\ Spec
    /\ WF_vars(CloseStep)
    /\ \A w \in Workers : WF_vars(Work(w))
    /\ \A f \in Files : WF_vars(Put(f))

-----------------------------------------------------------------------------
(* unfinished_tasks counts what is queued or being uploaded, whoever took  *)
(* the items off the queue: it is what the join() of the drain waits for,  *)
(* and _abandon_pending() promises to keep it consistent.                  *)
CountsAgree ==
    unfinished = Len(queue) + Cardinality({w \in Workers : Busy(w)})

(* close() that drained the queue has seen the end of every upload whose   *)
(* file was on the queue when it was called: each was stored or is in      *)
(* _errors, none is left on the queue, abandoned or in flight.             *)
DrainedIsComplete ==
    close.pc \in {"stop", "join", "shutdown", "closed"} /\ close.drained =>
        \A f \in Files \ late : fate[f] \notin {"queued", "uploading", "abandoned"}

(* Once close() returns, nobody looks at the queue again. A file stays on  *)
(* it, neither stored nor reported nor counted as abandoned, only if its   *)
(* put() raced with close(), having seen the uploader open.                *)
OnlyLateFilesAreStranded ==
    close.pc = "closed" => \A f \in Files : fate[f] = "queued" => f \in late

(* Uploads end: no attempt hangs for ever.                                 *)
UploadsReturn == \A w \in Workers : []<>~Busy(w)

(* The shutdown of the Azure pool waits for the upload of a file that was  *)
(* put on the queue after close() began.                                   *)
WaitsForLateFile ==
    close.pc = "shutdown" /\ \E w \in pool : Busy(w) /\ worker[w].file \in late

(* close() with a timeout returns even if the storage never answers, with  *)
(* one exception to "an auxiliary storage outage must never stall teardown *)
(* past the bound": on Azure, after a drain in time, it waits for a late   *)
(* file's attempt without a bound. Without a timeout it returns if the     *)
(* uploads do. The markers of _stop_workers() are put without a timeout,   *)
(* so this needs room for them beside the files of the calls that raced    *)
(* with close(): Callers + |Workers| <= MaxQueue, which the defaults of    *)
(* 128 and 2 give to every pool of at most 126 threads.                    *)
CloseEnds ==
    /\ []<>~WaitsForLateFile =>
         (close.pc \in Closing /\ close.bounded ~> close.pc = "closed")
    /\ UploadsReturn => (close.pc \in Closing ~> close.pc = "closed")
=============================================================================
