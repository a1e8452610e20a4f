---------------------------- MODULE FanOutProofs ----------------------------
(***************************************************************************)
(* Proofs about the fan-out step, for any number of samples, any chunk     *)
(* size, any pool and any number of retries.                               *)
(*                                                                         *)
(* First the records: EverySampleAccounted and AbortPropagates only speak  *)
(* of the last states, AccountedSoFar carries them there. While nothing    *)
(* was cancelled, no abort is on its way out and no pause has stopped the  *)
(* run, each sample is untouched, or is Outstanding in the wait loop, or   *)
(* has been settled, or its future was dropped when the wait loop saw a    *)
(* pause.                                                                  *)
(*                                                                         *)
(* Then TaskHops, what a step does to a task's program counter and frame,  *)
(* and what follows from it in every run: the threads (ThreadsInv), the    *)
(* handlers (FramesFit), the journal (JournalInv), and a simulation that   *)
(* succeeded (NoRerun, KeptInv).                                           *)
(***************************************************************************)
EXTENDS FanOut, FiniteSetTheorems, TLAPS

Recorded(s) == status[s] = "ok" \/ (status[s] = "failed" /\ class[s] # "none")

(* What the program counter of a task says of the sample's record.         *)
RecordsFollow(s) ==
    /\ task[s].pc \in {"complete", "checkpoint"} => status[s] = "ok"
    /\ task[s].pc \in {"markCheckpoint", "report"} => status[s] = "failed" /\ class[s] # "none"
    /\ task[s].pc = "returned" => Recorded(s)

(* Samples of the current chunk that the main thread still has to collect. *)
Outstanding ==
    IF main \in {"wait", "drain", "join"} /\ ~Sequential THEN undrained \union done ELSE batch

Settled(s) ==
    \/ task[s].pc = "returned"
    \/ task[s].pc = "raised" /\ s \in accounting

Leaving == main \in {"joinAbort", "failed", "interrupted"}

(* Samples that the one-worker loop has not reached.                       *)
InLine == IF main = "wait" THEN undrained ELSE batch

AccountedSoFar ==
    /\ main \in {"submit", "enqueue", "wait", "drain", "join", "post", "finished"}
    /\ main \in {"drain", "join"} => ~Sequential
    /\ main = "join" => undrained \subseteq dropped
    /\ main # "drain" => done = {}
    /\ undrained \subseteq batch
    /\ main \in {"post", "finished"} => batch = {}
    /\ \A s \in Samples \ (Outstanding \union dropped) : task[s].pc = "none" \/ Settled(s)
    /\ \A s \in Samples : task[s].pc # "cancelled"
    /\ \A s \in Samples : main = "drain" /\ s \in done => Resolved(s)
    /\ \A s \in Samples : Sequential /\ s \in InLine => task[s].pc = "queued"

(* A pause between two samples of the one-worker loop, or after the last.  *)
Stopped ==
    /\ main = "paused"
    /\ \A s \in Samples \ dropped : task[s].pc \in {"none", "queued", "returned", "raised"}

AccInv ==
    /\ TypeOK
    /\ cancel => main \notin {"finished", "paused"}
    /\ \A s \in Samples : RecordsFollow(s)
    /\ cancel \/ Leaving \/ Stopped \/ AccountedSoFar
-----------------------------------------------------------------------------
(* What the helpers of the handlers return.                                *)

(* An exception leaves a well-formed task behind, at a handler or ended.   *)
LEMMA RaisedTyping ==
    ASSUME NEW t \in Tasks, NEW kind \in {"raised", "aborted"}
    PROVE  /\ Raised(t, kind) \in Tasks
           /\ Raised(t, kind).pc \in {"markJournal", "recover", kind}
<1>1. CASE t.frame = "inner"
  BY <1>1 DEF Raised, Tasks
<1>2. CASE t.frame = "outer"
  BY <1>2 DEF Raised, OuterHandler, Tasks
<1>3. CASE t.frame \notin {"inner", "outer"}
  BY <1>3 DEF Raised, Tasks
<1>4. QED BY <1>1, <1>2, <1>3

(* Another attempt within the budget.                                      *)
LEMMA AttemptedTyping ==
    ASSUME NEW t \in Tasks, BudgetLeft(t)
    PROVE  /\ Attempted(t) \in Tasks
           /\ Attempted(t).frame = t.frame /\ Attempted(t).retry = t.retry + 1
<1>1. MaxRetries \in Nat /\ t.retry \in 0..MaxRetries /\ t.rounds \in 0..MaxRetries
  BY FanOutAssumption DEF Tasks
<1>2. t.retry + 1 \in 0..MaxRetries /\ t.rounds + 1 \in 0..MaxRetries
  BY <1>1 DEF BudgetLeft
<1> DEFINE more == t.retry + 1
           next == t.rounds + 1
<1>3. Attempted(t) = [t EXCEPT !.retry = more, !.rounds = next]
  BY DEF Attempted
<1> HIDE DEF more, next
<1>4. Attempted(t) \in Tasks
  BY <1>2, <1>3 DEF Tasks, more, next
<1>5. Attempted(t).frame = t.frame /\ Attempted(t).retry = more
  BY <1>3 DEF Tasks
<1>6. QED BY <1>4, <1>5 DEF more

(* A job that is moved, or half moved, is in state directories.            *)
LEMMA JournalTyping ==
    ASSUME TypeOK, NEW s \in Samples, NEW to \in {"completed", "failed"}
    PROVE  /\ Moved(s, to) \in [Samples -> SUBSET {"pending", "completed", "failed"}]
           /\ HalfMoved(s, to)
                \subseteq [Samples -> SUBSET {"pending", "completed", "failed"}]
<1>1. journal \in [Samples -> SUBSET {"pending", "completed", "failed"}]
  BY DEF TypeOK
<1>2. Moved(s, to) \in [Samples -> SUBSET {"pending", "completed", "failed"}]
  BY <1>1 DEF Moved
<1>3. HalfMoved(s, to) \subseteq [Samples -> SUBSET {"pending", "completed", "failed"}]
  BY <1>1 DEF HalfMoved
<1>4. QED BY <1>2, <1>3

(* The cancel sweep keeps tasks well-formed and only touches queued ones.  *)
LEMMA CancelledTyping ==
    ASSUME TypeOK, NEW S
    PROVE  Cancelled(S) \in [Samples -> Tasks]
<1>1. \A s \in Samples : task[s] \in Tasks
  BY DEF TypeOK
<1>2. \A s \in Samples : [task[s] EXCEPT !.pc = "cancelled"] \in Tasks
  BY <1>1 DEF Tasks
<1>3. QED BY <1>1, <1>2 DEF Cancelled

(* checkpoint_sample counts up to the limit, and its task goes on or is    *)
(* raised out of.                                                          *)
LEMMA CheckpointMoves ==
    ASSUME TypeOK, NEW s \in Samples, NEW next \in Tasks, CheckpointThen(s, next)
    PROVE  /\ strikes' \in 0..MaxStrikes
           /\ \E t \in {next, Raised(task[s], "aborted")} : Goes(s, t)
           /\ task' \in [Samples -> Tasks]
<1>1. strikes \in 0..MaxStrikes /\ task \in [Samples -> Tasks] /\ MaxStrikes \in Nat
  BY FanOutAssumption DEF TypeOK
<1>2. strikes' \in 0..MaxStrikes
  BY <1>1 DEF CheckpointThen
<1>3. PICK t \in {next, Raised(task[s], "aborted")} : Goes(s, t)
  BY DEF CheckpointThen
<1>4. t \in Tasks
  BY <1>1, <1>3, RaisedTyping
<1>5. task' \in [Samples -> Tasks]
  BY <1>1, <1>3, <1>4 DEF Goes
<1>6. QED BY <1>2, <1>3, <1>5

-----------------------------------------------------------------------------
(* Type correctness: recovery stays within its budget, the bookkeeping     *)
(* callback within its attempts, the strike counter within its limit.      *)
THEOREM Typing == Spec => []TypeOK
<1>1. Init => TypeOK
  <2> SUFFICES ASSUME Init PROVE TypeOK
    OBVIOUS
  <2>1. task \in [Samples -> Tasks]
    BY FanOutAssumption DEF Init, Tasks
  <2>2. journal \in [Samples -> SUBSET {"pending", "completed", "failed"}]
    BY DEF Init
  <2>3. strikes \in 0..MaxStrikes
    BY FanOutAssumption DEF Init
  <2>4. QED BY <2>1, <2>2, <2>3 DEF Init, TypeOK
<1>2. TypeOK /\ [Next]_vars => TypeOK'
  <2> SUFFICES ASSUME TypeOK, [Next]_vars PROVE TypeOK'
    OBVIOUS
  <2>0. /\ task \in [Samples -> Tasks]
        /\ journal \in [Samples -> SUBSET {"pending", "completed", "failed"}]
        /\ strikes \in 0..MaxStrikes
        /\ \A s \in Samples : task[s] \in Tasks
    BY DEF TypeOK
  <2>a. /\ MaxAttempts \in Nat /\ MaxRetries \in Nat
        /\ 0 \in 0..MaxAttempts /\ 0 \in 0..MaxRetries
    BY FanOutAssumption
  <2> USE DEF mainVars, waitVars, closingVars, jobVars, recordVars, envVars
  <2>1. CASE SubmitRaises \/ CloseChunk \/ CutChunkShort \/ EndSubmission
    BY <2>1 DEF SubmitRaises, CloseChunk, CutChunkShort, EndSubmission, TypeOK
  <2>2. CASE Enqueue
    <3>1. journal' \in [Samples -> SUBSET {"pending", "completed", "failed"}]
      BY <2>0, <2>2 DEF Enqueue, Enqueued
    <3>2. QED BY <2>2, <3>1 DEF Enqueue, TypeOK
  <2>3. CASE WaitReturns \/ Drained \/ SeePause \/ JoinAbort \/ Join \/ JoinCancel
    BY <2>3 DEF WaitReturns, Drained, SeePause, JoinAbort, Join, JoinCancel,
                ReturnToChunkLoop, TypeOK
  <2>4. CASE SeeCancel
    BY <2>4, CancelledTyping DEF SeeCancel, TypeOK
  <2>5. CASE SeqRaise \/ SeqCancel \/ SeqPause \/ SeqReturn \/ PostEnd
    BY <2>5 DEF SeqRaise, SeqCancel, SeqPause, SeqReturn, PostEnd, ReturnToChunkLoop, TypeOK
  <2>6. ASSUME NEW s \in Samples, SubmitOne(s) PROVE TypeOK'
    <3>1. task' \in [Samples -> Tasks]
      BY <2>0, <2>6 DEF SubmitOne, Tasks
    <3>2. QED BY <2>6, <3>1 DEF SubmitOne, TypeOK
  <2>7. ASSUME NEW s \in Samples, Drain(s) PROVE TypeOK'
    BY <2>7 DEF Drain, AccountingError, TypeOK
  <2>8. ASSUME NEW s \in Samples, DrainAbort(s) PROVE TypeOK'
    BY <2>8, CancelledTyping DEF DrainAbort, TypeOK
  <2>9. ASSUME NEW s \in Samples, SeqStart(s) \/ Start(s) PROVE TypeOK'
    <3>1. task' \in [Samples -> Tasks]
      BY <2>0, <2>9 DEF SeqStart, Start, Tasks
    <3>2. QED BY <2>9, <3>1 DEF SeqStart, Start, TypeOK
  <2>10. ASSUME NEW s \in Samples, PostCheck(s) \/ PostStore(s) PROVE TypeOK'
    BY <2>10 DEF PostCheck, PostStore, TypeOK
  <2>11. ASSUME NEW s \in Samples, Await(s) PROVE TypeOK'
    <3>1. task' \in [Samples -> Tasks]
      <4>1. CASE AwaitOk(s)
        <5>1. [task[s] EXCEPT !.pc = "book", !.tries = 0,
                              !.frame = IF @ = "outer" THEN "inner" ELSE @] \in Tasks
          BY <2>0, <2>a DEF Tasks
        <5>2. QED BY <2>0, <4>1, <5>1 DEF AwaitOk, Goes
      <4>2. CASE AwaitFails(s)
        <5>1. OuterHandler(task[s]) \in Tasks
          BY <2>0 DEF OuterHandler, Tasks
        <5>2. [task[s] EXCEPT !.pc = "recover"] \in Tasks
          BY <2>0 DEF Tasks
        <5>3. QED BY <2>0, <4>2, <5>1, <5>2 DEF AwaitFails, Goes
      <4>3. QED BY <2>11, <4>1, <4>2 DEF Await
    <3>2. live' \subseteq Samples /\ simulated' \subseteq Samples
      BY <2>11 DEF Await, AwaitOk, AwaitFails, TypeOK
    <3>3. QED BY <2>11, <3>1, <3>2 DEF Await, AwaitOk, AwaitFails, TypeOK
  <2>12. ASSUME NEW s \in Samples, BookOk(s) PROVE TypeOK'
    <3>1. [task[s] EXCEPT !.pc = "complete", !.stored = TRUE] \in Tasks
      BY <2>0 DEF Tasks
    <3>2. task' \in [Samples -> Tasks]
      BY <2>0, <2>12, <3>1 DEF BookOk, Goes
    <3>3. QED BY <2>12, <3>2 DEF BookOk, Stored, TypeOK
  <2>13. ASSUME NEW s \in Samples, BookRaises(s) PROVE TypeOK'
    <3>1. PICK stored \in {task[s].stored, TRUE} :
            /\ row' = IF stored /\ ~task[s].stored THEN Stored(s) ELSE row
            /\ LET t == [task[s] EXCEPT !.stored = stored]
               IN  Goes(s, IF t.frame = "inner" /\ t.tries + 1 < MaxAttempts
                           THEN [t EXCEPT !.tries = @ + 1]
                           ELSE Raised(t, "raised"))
      BY <2>13 DEF BookRaises
    <3> DEFINE t == [task[s] EXCEPT !.stored = stored]
    <3>2. t \in Tasks
      BY <2>0, <3>1 DEF Tasks
    <3>3. t.tries + 1 < MaxAttempts => [t EXCEPT !.tries = @ + 1] \in Tasks
      <4>1. t.tries \in 0..MaxAttempts
        BY <3>2 DEF Tasks
      <4>2. t.tries + 1 < MaxAttempts => t.tries + 1 \in 0..MaxAttempts
        BY <2>a, <4>1
      <4> HIDE DEF t
      <4>3. QED BY <3>2, <4>2 DEF Tasks
    <3>4. Raised(t, "raised") \in Tasks
      BY <3>2, RaisedTyping
    <3>5. task' \in [Samples -> Tasks]
      BY <2>0, <3>1, <3>3, <3>4 DEF Goes
    <3>6. QED BY <2>13, <3>1, <3>5 DEF BookRaises, Stored, TypeOK
  <2>14. ASSUME NEW s \in Samples, Complete(s) PROVE TypeOK'
    <3>0. [task[s] EXCEPT !.pc = "checkpoint", !.retry = 0,
                          !.frame = IF @ = "inner" THEN "tail" ELSE @] \in Tasks
      BY <2>0, <2>a DEF Tasks
    <3>1. Raised(task[s], "raised") \in Tasks
      BY <2>0, RaisedTyping
    <3>2. task' \in [Samples -> Tasks]
      BY <2>0, <2>14, <3>0, <3>1 DEF Complete, Goes
    <3>3. journal' \in [Samples -> SUBSET {"pending", "completed", "failed"}]
      BY <2>14, JournalTyping DEF Complete
    <3>4. QED BY <2>14, <3>2, <3>3 DEF Complete, TypeOK
  <2>15. ASSUME NEW s \in Samples, Checkpoint(s) \/ MarkCheckpoint(s) PROVE TypeOK'
    <3>1. /\ [task[s] EXCEPT !.pc = "returned"] \in Tasks
          /\ [task[s] EXCEPT !.pc = "report"] \in Tasks
      BY <2>0 DEF Tasks
    <3>2. strikes' \in 0..MaxStrikes /\ task' \in [Samples -> Tasks]
      BY <2>15, <3>1, CheckpointMoves DEF Checkpoint, MarkCheckpoint
    <3>3. QED BY <2>15, <3>2 DEF Checkpoint, MarkCheckpoint, TypeOK
  <2>16. ASSUME NEW s \in Samples, MarkJournal(s) PROVE TypeOK'
    <3>1. /\ [task[s] EXCEPT !.pc = "markCheckpoint"] \in Tasks
          /\ Raised(task[s], "raised") \in Tasks
      BY <2>0, RaisedTyping DEF Tasks
    <3>2. task' \in [Samples -> Tasks]
      BY <2>0, <2>16, <3>1 DEF MarkJournal, Goes
    <3>3. journal' \in [Samples -> SUBSET {"pending", "completed", "failed"}]
      BY <2>16, JournalTyping DEF MarkJournal
    <3>4. QED BY <2>16, <3>2, <3>3 DEF MarkJournal, FailureClass, TypeOK
  <2>17. ASSUME NEW s \in Samples, Report(s) \/ GiveUp(s) PROVE TypeOK'
    <3>1. /\ [task[s] EXCEPT !.pc = "returned"] \in Tasks
          /\ [task[s] EXCEPT !.pc = "markJournal"] \in Tasks
          /\ Raised(task[s], "raised") \in Tasks
      BY <2>0, RaisedTyping DEF Tasks
    <3>2. task' \in [Samples -> Tasks]
      BY <2>0, <2>17, <3>1 DEF Report, GiveUp, Goes
    <3>3. QED BY <2>17, <3>2 DEF Report, GiveUp, TypeOK
  <2>18. ASSUME NEW s \in Samples, Resubmit(s) PROVE TypeOK'
    <3>1. Attempted(task[s]) \in Tasks
      BY <2>0, <2>18, AttemptedTyping DEF Resubmit
    <3>2. /\ [Attempted(task[s]) EXCEPT !.pc = "await"] \in Tasks
          /\ Raised(Attempted(task[s]), "raised") \in Tasks
      BY <3>1, RaisedTyping DEF Tasks
    <3>3. task' \in [Samples -> Tasks]
      BY <2>0, <2>18, <3>2 DEF Resubmit, Goes
    <3>4. live' \subseteq Samples
      BY <2>18 DEF Resubmit, TypeOK
    <3>5. /\ status' \in [Samples -> {"none", "ok", "failed"}]
          /\ class' \in [Samples -> {"none", "simulation_error", "bookkeeping_error"}]
      BY <2>18 DEF Resubmit, TypeOK
    <3>6. QED BY <2>18, <3>3, <3>4, <3>5 DEF Resubmit, TypeOK
  <2>19. CASE RequestCancel \/ TogglePause
    BY <2>19 DEF RequestCancel, TogglePause, TypeOK
  <2>20. CASE UNCHANGED vars
    BY <2>20 DEF vars, TypeOK
  <2>21. QED
    BY <2>1, <2>2, <2>3, <2>4, <2>5, <2>6, <2>7, <2>8, <2>9, <2>10, <2>11, <2>12, <2>13,
       <2>14, <2>15, <2>16, <2>17, <2>18, <2>19, <2>20
    DEF Next, Main, Task
<1>3. QED
  BY <1>1, <1>2, PTL DEF Spec

-----------------------------------------------------------------------------
(* A step of one task that the main thread still waits for keeps AccInv,   *)
(* when the task's own record follows and nothing else is disturbed.       *)
LEMMA TaskKeepsAccInv ==
    ASSUME AccInv, TypeOK', NEW s \in Samples,
           task[s].pc # "none", ~Resolved(s),
           task[s].pc = "queued" => ~Sequential /\ main # "paused",
           UNCHANGED <<mainVars, dropped, accounting, cancel>>,
           \A d \in Samples \ {s} :
             task'[d] = task[d] /\ status'[d] = status[d] /\ class'[d] = class[d],
           task'[s].pc \notin {"none", "cancelled"},
           RecordsFollow(s)'
    PROVE  AccInv'
<1> USE DEF mainVars, waitVars
<1>1. cancel' => main' \notin {"finished", "paused"}
  BY DEF AccInv
<1>2. \A d \in Samples : RecordsFollow(d)'
  <2>1. \A d \in Samples \ {s} : RecordsFollow(d)'
    BY DEF AccInv, RecordsFollow, Recorded
  <2>2. QED BY <2>1
<1>3. AccountedSoFar => AccountedSoFar'
  <2> SUFFICES ASSUME AccountedSoFar PROVE AccountedSoFar'
    OBVIOUS
  <2>1. Outstanding' = Outstanding
    BY DEF Outstanding
  <2>2. s \in Outstanding \union dropped
    BY DEF AccountedSoFar, Settled, Resolved
  <2>3. \A d \in Samples \ (Outstanding \union dropped) : task'[d].pc = "none" \/ Settled(d)'
    BY <2>2 DEF AccountedSoFar, Settled
  <2>4. \A d \in Samples : task'[d].pc # "cancelled"
    BY DEF AccountedSoFar
  <2>5. \A d \in Samples : main' = "drain" /\ d \in done' => Resolved(d)'
    BY DEF AccountedSoFar, Resolved
  <2>6. \A d \in Samples : Sequential /\ d \in InLine' => task'[d].pc = "queued"
    BY DEF AccountedSoFar, InLine
  <2>7. QED BY <2>1, <2>3, <2>4, <2>5, <2>6 DEF AccountedSoFar
<1>4. Stopped => Stopped'
  <2> SUFFICES ASSUME Stopped PROVE Stopped'
    OBVIOUS
  <2>1. s \in dropped
    BY DEF Stopped, Resolved
  <2>2. QED BY <2>1 DEF Stopped
<1>5. (cancel \/ Leaving \/ Stopped \/ AccountedSoFar)'
  BY <1>3, <1>4 DEF AccInv, Leaving
<1>6. QED BY <1>1, <1>2, <1>5 DEF AccInv

(* The step of a task, whichever it is.                                    *)
LEMMA TaskStepsKeepAccInv ==
    ASSUME AccInv, TypeOK', NEW s \in Samples, Await(s) \/ Task(s)
    PROVE  AccInv'
<1>0. /\ task \in [Samples -> Tasks] /\ \A d \in Samples : task[d] \in Tasks
      /\ status \in [Samples -> {"none", "ok", "failed"}]
      /\ class \in [Samples -> {"none", "simulation_error", "bookkeeping_error"}]
      /\ RecordsFollow(s)
  BY DEF AccInv, TypeOK
<1> USE DEF mainVars, waitVars, closingVars, jobVars, recordVars, envVars
<1> DEFINE Apart == \A d \in Samples \ {s} :
             task'[d] = task[d] /\ status'[d] = status[d] /\ class'[d] = class[d]
           Steady == UNCHANGED <<mainVars, dropped, accounting, cancel>>
           Underway == /\ task[s].pc # "none" /\ ~Resolved(s)
                       /\ task[s].pc = "queued" => ~Sequential /\ main # "paused"
           Onward == task'[s].pc \notin {"none", "cancelled"} /\ RecordsFollow(s)'
<1>1. CASE Start(s)
  <2>1. task'[s].pc = "await" /\ Apart
    BY <1>0, <1>1 DEF Start, Tasks
  <2>2. Onward
    BY <2>1 DEF RecordsFollow
  <2>3. Steady /\ Underway
    BY <1>1 DEF Start, Resolved
  <2>4. QED BY <2>1, <2>2, <2>3, TaskKeepsAccInv
<1>2. CASE AwaitOk(s)
  <2>1. task'[s].pc = "book" /\ Apart
    BY <1>0, <1>2 DEF AwaitOk, Goes, Tasks
  <2>2. Onward
    BY <2>1 DEF RecordsFollow
  <2>3. Steady /\ Underway
    BY <1>2 DEF AwaitOk, Resolved
  <2>4. QED BY <2>1, <2>2, <2>3, TaskKeepsAccInv
<1>3. CASE AwaitFails(s)
  <2>1. task'[s].pc \in {"recover", "markJournal"} /\ Apart
    BY <1>0, <1>3 DEF AwaitFails, Goes, OuterHandler, Tasks
  <2>2. Onward
    BY <2>1 DEF RecordsFollow
  <2>3. Steady /\ Underway
    BY <1>3 DEF AwaitFails, Resolved
  <2>4. QED BY <2>1, <2>2, <2>3, TaskKeepsAccInv
<1>4. CASE BookOk(s)
  <2>1. task'[s].pc = "complete" /\ status'[s] = "ok" /\ Apart
    BY <1>0, <1>4 DEF BookOk, Goes, Tasks
  <2>2. Onward
    BY <2>1 DEF RecordsFollow
  <2>3. Steady /\ Underway
    BY <1>4 DEF BookOk, Resolved
  <2>4. QED BY <2>1, <2>2, <2>3, TaskKeepsAccInv
<1>5. CASE BookRaises(s)
  <2>1. PICK stored \in {task[s].stored, TRUE} :
          LET t == [task[s] EXCEPT !.stored = stored]
          IN  Goes(s, IF t.frame = "inner" /\ t.tries + 1 < MaxAttempts
                      THEN [t EXCEPT !.tries = @ + 1]
                      ELSE Raised(t, "raised"))
    BY <1>5 DEF BookRaises
  <2> DEFINE t == [task[s] EXCEPT !.stored = stored]
  <2>2. t \in Tasks /\ t.pc = "book"
    BY <1>0, <1>5, <2>1 DEF BookRaises, Tasks
  <2>3. [t EXCEPT !.tries = @ + 1].pc = "book"
    BY <2>2 DEF Tasks
  <2>4. Raised(t, "raised").pc \in {"markJournal", "recover", "raised"}
    BY <2>2, RaisedTyping
  <2>5. task'[s].pc \in {"book", "markJournal", "recover", "raised"} /\ Apart
    <3>1. \/ Goes(s, [t EXCEPT !.tries = @ + 1])
          \/ Goes(s, Raised(t, "raised"))
      BY <2>1
    <3> HIDE DEF t
    <3>2. task'[s].pc \in {"book", "markJournal", "recover", "raised"}
      BY <1>0, <2>3, <2>4, <3>1 DEF Goes
    <3>3. \A d \in Samples \ {s} : task'[d] = task[d]
      BY <1>0, <3>1 DEF Goes
    <3>4. status' = status /\ class' = class
      BY <1>5 DEF BookRaises
    <3>5. QED BY <3>2, <3>3, <3>4
  <2>6. Onward
    BY <2>5 DEF RecordsFollow
  <2>7. Steady /\ Underway
    BY <1>5 DEF BookRaises, Resolved
  <2>8. QED BY <2>5, <2>6, <2>7, TaskKeepsAccInv
<1>6. CASE Complete(s)
  <2>1. Raised(task[s], "raised").pc \in {"markJournal", "recover", "raised"}
    BY <1>0, RaisedTyping
  <2>2. task'[s].pc \in {"checkpoint", "markJournal", "recover", "raised"} /\ Apart
    <3> DEFINE t == [task[s] EXCEPT !.pc = "checkpoint", !.retry = 0,
                                   !.frame = IF @ = "inner" THEN "tail" ELSE @]
    <3>1. t.pc = "checkpoint"
      BY <1>0 DEF Tasks
    <3>2. Goes(s, t) \/ Goes(s, Raised(task[s], "raised"))
      BY <1>6 DEF Complete
    <3>3. status' = status /\ class' = class
      BY <1>6 DEF Complete
    <3> HIDE DEF t
    <3>4. QED BY <1>0, <2>1, <3>1, <3>2, <3>3 DEF Goes
  <2>3. status[s] = "ok" /\ status' = status /\ class' = class
    BY <1>0, <1>6 DEF Complete, RecordsFollow
  <2>4. Onward
    BY <2>2, <2>3 DEF RecordsFollow
  <2>5. Steady /\ Underway
    BY <1>6 DEF Complete, Resolved
  <2>6. QED BY <2>2, <2>4, <2>5, TaskKeepsAccInv
<1>7. CASE Checkpoint(s)
  <2>1. [task[s] EXCEPT !.pc = "returned"] \in Tasks
        /\ [task[s] EXCEPT !.pc = "returned"].pc = "returned"
    BY <1>0 DEF Tasks
  <2>2. Raised(task[s], "aborted").pc \in {"markJournal", "recover", "aborted"}
    BY <1>0, RaisedTyping
  <2>3. \E t \in {[task[s] EXCEPT !.pc = "returned"], Raised(task[s], "aborted")} : Goes(s, t)
    BY <1>7, <2>1, CheckpointMoves DEF AccInv, Checkpoint
  <2>4. task'[s].pc \in {"returned", "markJournal", "recover", "aborted"} /\ Apart
    BY <1>0, <1>7, <2>1, <2>2, <2>3 DEF Checkpoint, Goes
  <2>5. status[s] = "ok" /\ status' = status /\ class' = class
    BY <1>0, <1>7 DEF Checkpoint, RecordsFollow
  <2>6. Onward
    BY <2>4, <2>5 DEF RecordsFollow, Recorded
  <2>7. Steady /\ Underway
    BY <1>7 DEF Checkpoint, Resolved
  <2>8. QED BY <2>4, <2>6, <2>7, TaskKeepsAccInv
<1>8. CASE MarkJournal(s)
  <2>1. Raised(task[s], "raised").pc \in {"markJournal", "recover", "raised"}
    BY <1>0, RaisedTyping
  <2>2. /\ Apart
        /\ \/ task'[s].pc \in {"markJournal", "recover", "raised"}
           \/ task'[s].pc = "markCheckpoint" /\ status'[s] = "failed" /\ class'[s] # "none"
    BY <1>0, <1>8, <2>1 DEF MarkJournal, FailureClass, Goes, Tasks
  <2>3. Onward
    BY <2>2 DEF RecordsFollow
  <2>4. Steady /\ Underway
    BY <1>8 DEF MarkJournal, Resolved
  <2>5. QED BY <2>2, <2>3, <2>4, TaskKeepsAccInv
<1>9. CASE MarkCheckpoint(s)
  <2>1. [task[s] EXCEPT !.pc = "report"] \in Tasks
        /\ [task[s] EXCEPT !.pc = "report"].pc = "report"
    BY <1>0 DEF Tasks
  <2>2. Raised(task[s], "aborted").pc \in {"markJournal", "recover", "aborted"}
    BY <1>0, RaisedTyping
  <2>3. \E t \in {[task[s] EXCEPT !.pc = "report"], Raised(task[s], "aborted")} : Goes(s, t)
    BY <1>9, <2>1, CheckpointMoves DEF AccInv, MarkCheckpoint
  <2>4. task'[s].pc \in {"report", "markJournal", "recover", "aborted"} /\ Apart
    BY <1>0, <1>9, <2>1, <2>2, <2>3 DEF MarkCheckpoint, Goes
  <2>5. status[s] = "failed" /\ class[s] # "none" /\ status' = status /\ class' = class
    BY <1>0, <1>9 DEF MarkCheckpoint, RecordsFollow
  <2>6. Onward
    BY <2>4, <2>5 DEF RecordsFollow
  <2>7. Steady /\ Underway
    BY <1>9 DEF MarkCheckpoint, Resolved
  <2>8. QED BY <2>4, <2>6, <2>7, TaskKeepsAccInv
<1>10. CASE Report(s)
  <2>1. Raised(task[s], "raised").pc \in {"markJournal", "recover", "raised"}
    BY <1>0, RaisedTyping
  <2>2. task'[s].pc \in {"returned", "markJournal", "recover", "raised"} /\ Apart
    BY <1>0, <1>10, <2>1 DEF Report, Goes, Tasks
  <2>3. status[s] = "failed" /\ class[s] # "none" /\ status' = status /\ class' = class
    BY <1>0, <1>10 DEF Report, RecordsFollow
  <2>4. Onward
    BY <2>2, <2>3 DEF RecordsFollow, Recorded
  <2>5. Steady /\ Underway
    BY <1>10 DEF Report, Resolved
  <2>6. QED BY <2>2, <2>4, <2>5, TaskKeepsAccInv
<1>11. CASE Resubmit(s)
  <2>1. Attempted(task[s]) \in Tasks
    BY <1>0, <1>11, AttemptedTyping DEF Resubmit
  <2>2. Raised(Attempted(task[s]), "raised").pc \in {"markJournal", "recover", "raised"}
    BY <2>1, RaisedTyping
  <2>3. [Attempted(task[s]) EXCEPT !.pc = "await"].pc = "await"
    BY <2>1 DEF Tasks
  <2>4. task'[s].pc \in {"await", "markJournal", "recover", "raised"} /\ Apart
    BY <1>0, <1>11, <2>2, <2>3 DEF Resubmit, Goes
  <2>5. Onward
    BY <2>4 DEF RecordsFollow
  <2>6. Steady /\ Underway
    BY <1>11 DEF Resubmit, Resolved
  <2>7. QED BY <2>4, <2>5, <2>6, TaskKeepsAccInv
<1>12. CASE GiveUp(s)
  <2>1. task'[s].pc = "markJournal" /\ Apart
    BY <1>0, <1>12 DEF GiveUp, Goes, Tasks
  <2>2. Onward
    BY <2>1 DEF RecordsFollow
  <2>3. Steady /\ Underway
    BY <1>12 DEF GiveUp, Resolved
  <2>4. QED BY <2>1, <2>2, <2>3, TaskKeepsAccInv
<1>13. QED
  BY <1>1, <1>2, <1>3, <1>4, <1>5, <1>6, <1>7, <1>8, <1>9, <1>10, <1>11, <1>12
  DEF Await, Task

-----------------------------------------------------------------------------
(* The steps of the main thread.                                           *)

(* Records follow the tasks through a step that changes neither.           *)
LEMMA RecordsStay ==
    ASSUME AccInv, UNCHANGED <<task, status, class>>
    PROVE  \A d \in Samples : RecordsFollow(d)'
BY DEF AccInv, RecordsFollow, Recorded

(* What AccountedSoFar reads.                                              *)
LEMMA AccountsStay ==
    ASSUME AccountedSoFar, UNCHANGED <<main, batch, undrained, done, dropped, task, accounting>>
    PROVE  AccountedSoFar'
BY DEF AccountedSoFar, Outstanding, Settled, Resolved, InLine

(* The submission loop.                                                    *)
LEMMA SubmissionKeepsAccInv ==
    ASSUME AccInv, TypeOK',
           \/ SubmitRaises \/ CloseChunk \/ CutChunkShort \/ EndSubmission \/ Enqueue
           \/ \E s \in Samples : SubmitOne(s)
    PROVE  AccInv'
<1> USE DEF mainVars, waitVars, closingVars, jobVars, recordVars, envVars
<1>0. /\ task \in [Samples -> Tasks] /\ \A d \in Samples : task[d] \in Tasks
      /\ cancel => main \notin {"finished", "paused"}
      /\ main = "paused" \/ cancel \/ Leaving \/ AccountedSoFar
  BY DEF AccInv, TypeOK, Stopped
<1>1. CASE SubmitRaises
  BY <1>0, <1>1, RecordsStay DEF SubmitRaises, AccInv, Leaving
<1>2. CASE CloseChunk
  <2>1. AccountedSoFar => AccountedSoFar'
    BY <1>2 DEF CloseChunk, AccountedSoFar, Outstanding, Settled, Resolved, InLine
  <2>2. QED BY <1>0, <1>2, <2>1, RecordsStay DEF CloseChunk, AccInv, Leaving
<1>3. CASE CutChunkShort
  <2>1. /\ main = "submit" /\ main' \in {"submit", "enqueue"}
        /\ UNCHANGED <<batch, undrained, done, dropped, task, status, class, accounting, cancel>>
    BY <1>3 DEF CutChunkShort
  <2>2. AccountedSoFar => AccountedSoFar'
    BY <2>1 DEF AccountedSoFar, Outstanding, Settled, Resolved, InLine
  <2>3. QED BY <1>0, <2>1, <2>2, RecordsStay DEF AccInv, Leaving
<1>4. CASE EndSubmission
  <2>1. AccountedSoFar => AccountedSoFar'
    BY <1>4 DEF EndSubmission, AccountedSoFar, Outstanding, Settled, Resolved, InLine
  <2>2. QED BY <1>0, <1>4, <2>1, RecordsStay DEF EndSubmission, AccInv, Leaving
<1>5. CASE Enqueue
  <2>1. CASE main' = "failed"
    BY <1>0, <1>5, <2>1, RecordsStay DEF Enqueue, AccInv, Leaving
  <2>2. CASE main' = "wait"
    <3>1. AccountedSoFar => AccountedSoFar'
      <4> SUFFICES ASSUME AccountedSoFar PROVE AccountedSoFar'
        OBVIOUS
      <4>1. Outstanding = batch /\ Outstanding' = batch
        BY <1>5, <2>2 DEF Enqueue, Outstanding, AccountedSoFar
      <4>2. QED BY <1>5, <2>2, <4>1 DEF Enqueue, AccountedSoFar, Settled, Resolved, InLine
    <3>2. QED BY <1>0, <1>5, <2>2, <3>1, RecordsStay DEF Enqueue, AccInv, Leaving
  <2>3. QED BY <1>5, <2>1, <2>2 DEF Enqueue
<1>6. ASSUME NEW s \in Samples, SubmitOne(s) PROVE AccInv'
  <2>1. /\ task'[s].pc = "queued"
        /\ \A d \in Samples \ {s} : task'[d] = task[d]
        /\ UNCHANGED <<main, done, undrained, dropped, status, class, accounting, cancel>>
        /\ main = "submit" /\ batch' = batch \union {s}
    BY <1>0, <1>6 DEF SubmitOne, Tasks
  <2>2. \A d \in Samples : RecordsFollow(d)'
    BY <2>1 DEF AccInv, RecordsFollow, Recorded
  <2>3. AccountedSoFar => AccountedSoFar'
    BY <2>1 DEF AccountedSoFar, Outstanding, Settled, Resolved, InLine
  <2>4. QED BY <1>0, <2>1, <2>2, <2>3 DEF AccInv, Leaving
<1>7. QED BY <1>1, <1>2, <1>3, <1>4, <1>5, <1>6

(* The wait loop, its drain and the joins of the pool.                     *)
LEMMA WaitLoopKeepsAccInv ==
    ASSUME AccInv, TypeOK',
           \/ WaitReturns \/ Drained \/ SeeCancel \/ SeePause
           \/ JoinAbort \/ Join \/ JoinCancel
           \/ \E s \in Samples : Drain(s) \/ DrainAbort(s)
    PROVE  AccInv'
<1> USE DEF mainVars, waitVars, closingVars, jobVars, recordVars, envVars
<1>0. /\ task \in [Samples -> Tasks] /\ \A d \in Samples : task[d] \in Tasks
      /\ cancel => main \notin {"finished", "paused"}
      /\ main = "paused" \/ cancel \/ Leaving \/ AccountedSoFar
  BY DEF AccInv, TypeOK, Stopped
<1>a. ASSUME NEW S, task' = Cancelled(S), UNCHANGED <<status, class>>
      PROVE  \A d \in Samples : RecordsFollow(d)'
  <2>1. \A d \in Samples : task'[d] = task[d] \/ task'[d].pc = "cancelled"
    BY <1>0, <1>a DEF Cancelled, Tasks
  <2>2. QED BY <1>a, <2>1 DEF AccInv, RecordsFollow, Recorded
<1>1. CASE WaitReturns
  <2>1. AccountedSoFar => AccountedSoFar'
    <3> SUFFICES ASSUME AccountedSoFar PROVE AccountedSoFar'
      OBVIOUS
    <3>1. Outstanding' = Outstanding
      BY <1>1 DEF WaitReturns, Outstanding, AccountedSoFar
    <3>2. QED BY <1>1, <3>1 DEF WaitReturns, AccountedSoFar, Settled, Resolved, InLine
  <2>2. QED BY <1>0, <1>1, <2>1, RecordsStay DEF WaitReturns, AccInv, Leaving
<1>2. CASE Drained
  <2>1. AccountedSoFar => AccountedSoFar'
    <3> SUFFICES ASSUME AccountedSoFar PROVE AccountedSoFar'
      OBVIOUS
    <3>1. Outstanding = undrained /\ Outstanding' = undrained
      BY <1>2 DEF Drained, ReturnToChunkLoop, Outstanding, AccountedSoFar
    <3>2. QED BY <1>2, <3>1
      DEF Drained, ReturnToChunkLoop, AccountedSoFar, Settled, Resolved, InLine
  <2>2. /\ main' \in {"wait", "submit"} /\ main = "drain"
        /\ UNCHANGED <<task, status, class, cancel>>
    BY <1>2 DEF Drained, ReturnToChunkLoop
  <2>3. QED BY <1>0, <2>1, <2>2, RecordsStay DEF AccInv, Leaving
<1>3. CASE SeeCancel
  BY <1>0, <1>3, <1>a DEF SeeCancel, AccInv
<1>4. CASE JoinAbort
  BY <1>0, <1>4, RecordsStay DEF JoinAbort, AccInv, Leaving
<1>5. CASE Join
  <2>1. /\ main = "join" /\ main' = "submit" /\ batch' = {} /\ undrained' = {} /\ done' = {}
        /\ UNCHANGED <<dropped, task, status, class, accounting, cancel>>
    BY <1>5 DEF Join, ReturnToChunkLoop
  <2>2. AccountedSoFar => AccountedSoFar'
    <3> SUFFICES ASSUME AccountedSoFar PROVE AccountedSoFar'
      OBVIOUS
    <3>1. Outstanding = undrained /\ Outstanding' = {} /\ InLine' = {} /\ undrained \subseteq dropped
      BY <2>1 DEF AccountedSoFar, Outstanding, InLine
    <3>2. \A d \in Samples \ dropped : task'[d].pc = "none" \/ Settled(d)'
      BY <2>1, <3>1 DEF AccountedSoFar, Settled
    <3>3. QED BY <2>1, <3>1, <3>2 DEF AccountedSoFar
  <2>3. QED BY <1>0, <2>1, <2>2, RecordsStay DEF AccInv, Leaving
<1>6. CASE JoinCancel
  <2>1. cancel
    BY <1>0, <1>6 DEF JoinCancel, Leaving, AccountedSoFar
  <2>2. main' = "submit" /\ UNCHANGED <<task, status, class, cancel>>
    BY <1>6 DEF JoinCancel, ReturnToChunkLoop
  <2>3. QED BY <1>0, <2>1, <2>2, RecordsStay DEF AccInv
<1>7. ASSUME NEW s \in Samples, Drain(s) PROVE AccInv'
  <2>1. AccountedSoFar => AccountedSoFar'
    <3> SUFFICES ASSUME AccountedSoFar PROVE AccountedSoFar'
      OBVIOUS
    <3>1. Outstanding = undrained \union done /\ Outstanding' = undrained \union (done \ {s})
      BY <1>7 DEF Drain, Outstanding, AccountedSoFar
    <3>2. Settled(s)'
      BY <1>7 DEF Drain, AccountedSoFar, Resolved, CarriesAbort, AccountingError, Settled
    <3>3. \A d \in Samples : Settled(d) => Settled(d)'
      BY <1>7 DEF Drain, Settled
    <3>4. QED BY <1>7, <3>1, <3>2, <3>3 DEF Drain, AccountedSoFar, Resolved, InLine
  <2>2. QED BY <1>0, <1>7, <2>1, RecordsStay DEF Drain, AccInv, Leaving
<1>8. ASSUME NEW s \in Samples, DrainAbort(s) PROVE AccInv'
  BY <1>0, <1>8, <1>a DEF DrainAbort, AccInv, Leaving
<1>9. CASE SeePause
  <2>1. /\ main = "wait" /\ main' = "join" /\ ~Sequential /\ dropped' = dropped \union undrained
        /\ UNCHANGED <<batch, undrained, done, task, status, class, accounting, cancel>>
    BY <1>9 DEF SeePause
  <2>2. AccountedSoFar => AccountedSoFar'
    <3> SUFFICES ASSUME AccountedSoFar PROVE AccountedSoFar'
      OBVIOUS
    <3>1. Outstanding' = Outstanding
      BY <2>1 DEF Outstanding
    <3>2. \A d \in Samples \ (Outstanding' \union dropped') : task'[d].pc = "none" \/ Settled(d)'
      BY <2>1, <3>1 DEF AccountedSoFar, Settled
    <3>3. QED BY <2>1, <3>2 DEF AccountedSoFar
  <2>3. QED BY <1>0, <2>1, <2>2, RecordsStay DEF AccInv, Leaving
<1>10. QED
  BY <1>1, <1>2, <1>3, <1>4, <1>5, <1>6, <1>7, <1>8, <1>9

(* A step that at most moves the pause file.                               *)
LEMMA OnlyPauseMoves ==
    ASSUME AccInv, TypeOK', UNCHANGED <<mainVars, dropped, task, status, class, accounting, cancel>>
    PROVE  AccInv'
<1>1. UNCHANGED <<main, batch, undrained, done>>
  BY DEF mainVars, waitVars
<1>2. AccountedSoFar => AccountedSoFar'
  BY <1>1, AccountsStay
<1>3. Stopped => Stopped'
  BY <1>1 DEF Stopped
<1>4. QED BY <1>1, <1>2, <1>3, RecordsStay DEF AccInv, Leaving

(* The one-worker loop, the closing pass and the requests from outside.    *)
LEMMA RestKeepsAccInv ==
    ASSUME AccInv, TypeOK',
           \/ SeqRaise \/ SeqCancel \/ SeqPause \/ SeqReturn \/ PostEnd
           \/ \E s \in Samples : SeqStart(s) \/ PostCheck(s) \/ PostStore(s)
           \/ ~Ended /\ (RequestCancel \/ TogglePause)
    PROVE  AccInv'
<1> USE DEF mainVars, waitVars, closingVars, jobVars, recordVars, envVars
<1>0. /\ task \in [Samples -> Tasks] /\ \A d \in Samples : task[d] \in Tasks
      /\ status \in [Samples -> {"none", "ok", "failed"}]
      /\ cancel => main \notin {"finished", "paused"}
      /\ main = "paused" \/ cancel \/ Leaving \/ AccountedSoFar
  BY DEF AccInv, TypeOK, Stopped
<1>1. CASE SeqRaise \/ SeqCancel
  BY <1>0, <1>1, RecordsStay DEF SeqRaise, SeqCancel, AccInv, Leaving
<1>2. CASE SeqPause
  <2>1. /\ AccountedSoFar /\ Sequential /\ main = "wait" /\ main' = "paused" /\ ~cancel
        /\ \A d \in batch \ undrained : task[d].pc = "returned"
        /\ UNCHANGED <<dropped, task, status, class, cancel>>
    BY <1>0, <1>2 DEF SeqPause, Leaving
  <2>2. /\ \A d \in Samples : d \in undrained => task[d].pc = "queued"
        /\ \A d \in Samples \ (batch \union dropped) : task[d].pc \in {"none", "returned", "raised"}
    BY <2>1 DEF AccountedSoFar, InLine, Outstanding, Settled
  <2>3. Stopped'
    BY <2>1, <2>2 DEF Stopped
  <2>4. QED BY <1>0, <2>1, <2>3, RecordsStay DEF AccInv
<1>3. CASE SeqReturn
  <2>1. AccountedSoFar => AccountedSoFar'
    BY <1>3 DEF SeqReturn, ReturnToChunkLoop, AccountedSoFar, Outstanding, Settled, Resolved, InLine
  <2>2. main' = "submit" /\ main = "wait" /\ UNCHANGED <<task, status, class, cancel>>
    BY <1>3 DEF SeqReturn, ReturnToChunkLoop
  <2>3. QED BY <1>0, <2>1, <2>2, RecordsStay DEF AccInv, Leaving
<1>4. CASE PostEnd
  <2>1. CASE cancel
    BY <1>0, <1>4, <2>1, RecordsStay DEF PostEnd, AccInv, Leaving
  <2>2. CASE ~cancel
    <3>1. /\ main' = (IF pause THEN "paused" ELSE "finished") /\ main = "post"
          /\ UNCHANGED <<batch, undrained, done, dropped, task, status, class, accounting, cancel>>
      BY <1>4, <2>2 DEF PostEnd
    <3>2. AccountedSoFar
      BY <1>0, <2>2, <3>1 DEF Leaving
    <3>3. CASE pause
      <4>1. \A d \in Samples \ dropped : task[d].pc \in {"none", "returned", "raised"}
        BY <3>1, <3>2 DEF AccountedSoFar, Outstanding, Settled
      <4>2. Stopped'
        BY <3>1, <3>3, <4>1 DEF Stopped
      <4>3. QED BY <2>2, <3>1, <4>2, RecordsStay DEF AccInv
    <3>4. CASE ~pause
      <4>1. AccountedSoFar'
        BY <3>1, <3>2, <3>4 DEF AccountedSoFar, Outstanding, Settled, Resolved, InLine
      <4>2. QED BY <2>2, <3>1, <3>4, <4>1, RecordsStay DEF AccInv
    <3>5. QED BY <3>3, <3>4
  <2>3. QED BY <2>1, <2>2
<1>5. ASSUME NEW s \in Samples, SeqStart(s) PROVE AccInv'
  <2>1. /\ task'[s].pc = "await"
        /\ \A d \in Samples \ {s} : task'[d] = task[d]
        /\ UNCHANGED <<main, batch, done, dropped, status, class, accounting, cancel>>
        /\ main = "wait" /\ Sequential
        /\ \A d \in batch \ undrained : task[d].pc = "returned"
    BY <1>0, <1>5 DEF SeqStart, Tasks
  <2>2. \A d \in Samples : RecordsFollow(d)'
    BY <2>1 DEF AccInv, RecordsFollow, Recorded
  <2>3. AccountedSoFar => AccountedSoFar'
    <3> SUFFICES ASSUME AccountedSoFar PROVE AccountedSoFar'
      OBVIOUS
    <3>1. Outstanding = batch /\ Outstanding' = batch
      BY <2>1 DEF Outstanding, AccountedSoFar
    <3>2. s \in batch /\ undrained' = undrained \ {s}
      BY <1>5 DEF SeqStart, AccountedSoFar
    <3>3. \A d \in Samples : d \in InLine' => task'[d].pc = "queued"
      BY <2>1, <3>2 DEF AccountedSoFar, InLine
    <3>4. \A d \in Samples \ (Outstanding' \union dropped') : task'[d].pc = "none" \/ Settled(d)'
      BY <2>1, <3>1, <3>2 DEF AccountedSoFar, Settled
    <3>5. \A d \in Samples : task'[d].pc # "cancelled"
      BY <2>1 DEF AccountedSoFar
    <3>6. QED BY <2>1, <3>2, <3>3, <3>4, <3>5 DEF AccountedSoFar
  <2>4. QED BY <1>0, <2>1, <2>2, <2>3 DEF AccInv, Leaving
<1>6. ASSUME NEW s \in Samples, PostCheck(s) PROVE AccInv'
  <2>1. /\ main = "post"
        /\ UNCHANGED <<main, batch, undrained, done, dropped, task, class, accounting, cancel>>
        /\ \A d \in Samples : status'[d] = status[d] \/ (status[d] # "ok" /\ status'[d] = "failed")
    BY <1>0, <1>6 DEF PostCheck
  <2>2. \A d \in Samples : RecordsFollow(d)'
    BY <1>0, <2>1 DEF AccInv, RecordsFollow, Recorded
  <2>3. AccountedSoFar => AccountedSoFar'
    BY <2>1, AccountsStay
  <2>4. QED BY <1>0, <2>1, <2>2, <2>3 DEF AccInv, Leaving
<1>7. ASSUME NEW s \in Samples, PostStore(s) PROVE AccInv'
  <2>1. AccountedSoFar => AccountedSoFar'
    BY <1>7, AccountsStay DEF PostStore
  <2>2. QED BY <1>0, <1>7, <2>1, RecordsStay DEF PostStore, AccInv, Leaving
<1>8. CASE ~Ended /\ RequestCancel
  BY <1>0, <1>8, RecordsStay DEF RequestCancel, Ended, AccInv
<1>9. CASE TogglePause
  BY <1>9, OnlyPauseMoves DEF TogglePause
<1>10. QED
  BY <1>1, <1>2, <1>3, <1>4, <1>5, <1>6, <1>7, <1>8, <1>9

(* Every step keeps AccInv.                                                *)
LEMMA StepKeepsAccInv ==
    ASSUME AccInv, TypeOK', [Next]_vars
    PROVE  AccInv'
<1>1. CASE Main
  BY <1>1, SubmissionKeepsAccInv, WaitLoopKeepsAccInv, RestKeepsAccInv DEF Main
<1>2. CASE \E s \in Samples : Await(s) \/ Task(s)
  BY <1>2, TaskStepsKeepAccInv
<1>3. CASE ~Ended /\ (RequestCancel \/ TogglePause)
  BY <1>3, RestKeepsAccInv
<1>4. CASE UNCHANGED vars
  BY <1>4, OnlyPauseMoves DEF vars, mainVars, waitVars, jobVars, recordVars, envVars,
                              closingVars
<1>5. QED
  BY <1>1, <1>2, <1>3, <1>4 DEF Next

(* Initially nothing is outstanding and every sample is untouched.         *)
LEMMA InitAccInv == Init => AccInv \/ ~TypeOK
<1> SUFFICES ASSUME Init, TypeOK PROVE AccInv
  OBVIOUS
<1>1. \A s \in Samples : task[s].pc = "none"
  BY DEF Init
<1>2. AccountedSoFar
  BY <1>1 DEF Init, AccountedSoFar, InLine
<1>3. QED BY <1>1, <1>2 DEF Init, AccInv, RecordsFollow, Stopped

-----------------------------------------------------------------------------
(* A step that finishes has accounted for every sample it awaited, whatever *)
(* failed on the way, in the one-worker loop and in the pool of any size,  *)
(* but for those whose futures a pause has dropped.                        *)
THEOREM Accounting == Spec => []EverySampleAccounted
<1>1. AccInv => EverySampleAccounted
  BY DEF AccInv, AccountedSoFar, Outstanding, Settled, Leaving, Stopped, RecordsFollow,
         Recorded, EverySampleAccounted
<1>2. AccInv /\ TypeOK' /\ [Next]_vars => AccInv'
  BY StepKeepsAccInv
<1>3. QED
  BY <1>1, <1>2, InitAccInv, Typing, PTL DEF Spec

(* A step one of whose tasks ended with CampaignAbortError neither         *)
(* finishes nor pauses, with the same exception.                           *)
THEOREM AbortIsNotSwallowed == Spec => []AbortPropagates
<1>1. AccInv => AbortPropagates
  BY DEF AccInv, AccountedSoFar, Outstanding, Settled, Leaving, Stopped, AbortPropagates
<1>2. AccInv /\ TypeOK' /\ [Next]_vars => AccInv'
  BY StepKeepsAccInv
<1>3. QED
  BY <1>1, <1>2, InitAccInv, Typing, PTL DEF Spec

(* Only TogglePause writes the pause file.                                 *)
LEMMA PauseIsRequested ==
    ASSUME "pause" \notin Signals, [Next]_vars
    PROVE  pause' = pause
<1> USE DEF mainVars, waitVars, closingVars, jobVars, recordVars, envVars
<1>1. CASE \/ SubmitRaises \/ CloseChunk \/ CutChunkShort \/ EndSubmission \/ Enqueue
           \/ \E s \in Samples : SubmitOne(s)
  BY <1>1 DEF SubmitRaises, CloseChunk, CutChunkShort, EndSubmission, Enqueue, SubmitOne
<1>2. CASE \/ WaitReturns \/ Drained \/ SeeCancel \/ SeePause \/ JoinAbort \/ Join \/ JoinCancel
           \/ \E s \in Samples : Drain(s) \/ DrainAbort(s)
  BY <1>2 DEF WaitReturns, Drained, SeeCancel, SeePause, JoinAbort, Join, JoinCancel, Drain,
              DrainAbort
<1>3. CASE \/ SeqRaise \/ SeqCancel \/ SeqPause \/ SeqReturn \/ PostEnd
           \/ \E s \in Samples : SeqStart(s) \/ PostCheck(s) \/ PostStore(s)
  BY <1>3 DEF SeqRaise, SeqCancel, SeqPause, SeqReturn, PostEnd, SeqStart, PostCheck, PostStore
<1>4. ASSUME NEW s \in Samples, Await(s) \/ Task(s)
      PROVE  pause' = pause
  <2>1. CASE Start(s) \/ Await(s) \/ BookOk(s) \/ BookRaises(s) \/ Complete(s)
    BY <2>1 DEF Start, Await, AwaitOk, AwaitFails, BookOk, BookRaises, Complete
  <2>2. CASE Checkpoint(s) \/ MarkJournal(s) \/ MarkCheckpoint(s) \/ Report(s)
    BY <2>2 DEF Checkpoint, MarkJournal, MarkCheckpoint, Report
  <2>3. CASE Resubmit(s) \/ GiveUp(s)
    BY <2>3 DEF Resubmit, GiveUp
  <2>4. QED BY <1>4, <2>1, <2>2, <2>3 DEF Task
<1>5. CASE RequestCancel \/ TogglePause
  BY <1>5 DEF RequestCancel, TogglePause
<1>6. CASE UNCHANGED vars
  BY <1>6 DEF vars
<1>7. QED BY <1>1, <1>2, <1>3, <1>4, <1>5, <1>6 DEF Next, Main

(* Only the wait loop of the pool drops futures.                           *)
LEMMA OnlyPausesDrop ==
    ASSUME ~SeePause, [Next]_vars
    PROVE  dropped' = dropped
<1> USE DEF closingVars
<1>1. CASE \/ SubmitRaises \/ CloseChunk \/ CutChunkShort \/ EndSubmission \/ Enqueue
           \/ \E s \in Samples : SubmitOne(s)
  BY <1>1 DEF SubmitRaises, CloseChunk, CutChunkShort, EndSubmission, Enqueue, SubmitOne
<1>2. CASE \/ WaitReturns \/ Drained \/ SeeCancel \/ JoinAbort \/ Join \/ JoinCancel
           \/ \E s \in Samples : Drain(s) \/ DrainAbort(s)
  BY <1>2 DEF WaitReturns, Drained, SeeCancel, JoinAbort, Join, JoinCancel, Drain, DrainAbort
<1>3. CASE \/ SeqRaise \/ SeqCancel \/ SeqPause \/ SeqReturn \/ PostEnd
           \/ \E s \in Samples : SeqStart(s) \/ PostCheck(s) \/ PostStore(s)
  BY <1>3 DEF SeqRaise, SeqCancel, SeqPause, SeqReturn, PostEnd, SeqStart, PostCheck, PostStore
<1>4. ASSUME NEW s \in Samples, Await(s) \/ Task(s)
      PROVE  dropped' = dropped
  <2>1. CASE Start(s) \/ Await(s) \/ BookOk(s) \/ BookRaises(s) \/ Complete(s)
    BY <2>1 DEF Start, Await, AwaitOk, AwaitFails, BookOk, BookRaises, Complete
  <2>2. CASE Checkpoint(s) \/ MarkJournal(s) \/ MarkCheckpoint(s) \/ Report(s)
    BY <2>2 DEF Checkpoint, MarkJournal, MarkCheckpoint, Report
  <2>3. CASE Resubmit(s) \/ GiveUp(s)
    BY <2>3 DEF Resubmit, GiveUp
  <2>4. QED BY <1>4, <2>1, <2>2, <2>3 DEF Task
<1>5. CASE RequestCancel \/ TogglePause
  BY <1>5 DEF RequestCancel, TogglePause
<1>6. CASE UNCHANGED vars
  BY <1>6 DEF vars
<1>7. QED BY <1>1, <1>2, <1>3, <1>4, <1>5, <1>6 DEF Next, Main

(* The exception is empty with one worker, whose loop leaves by SeqPause,  *)
(* and where nobody writes a pause file.                                   *)
THEOREM NothingIsDropped ==
    Sequential \/ "pause" \notin Signals => (Spec => [](dropped = {}))
<1>1. Init => dropped = {} /\ ~pause
  BY DEF Init
<1>2. ASSUME Sequential
      PROVE  Spec => [](dropped = {})
  <2>1. dropped = {} /\ [Next]_vars => (dropped = {})'
    BY <1>2, OnlyPausesDrop DEF SeePause
  <2>2. QED BY <1>1, <2>1, PTL DEF Spec
<1>3. ASSUME "pause" \notin Signals
      PROVE  Spec => [](dropped = {})
  <2>1. dropped = {} /\ ~pause /\ [Next]_vars => (dropped = {} /\ ~pause)'
    BY <1>3, PauseIsRequested, OnlyPausesDrop DEF SeePause
  <2>2. QED BY <1>1, <2>1, PTL DEF Spec
<1>4. QED BY <1>2, <1>3

-----------------------------------------------------------------------------
(* What a step of a task does to its program counter, frame and recovery   *)
(* budget: the twelve actions without their records.                       *)

(* The task of s goes to pc, frame and retry; the others stay.             *)
Hop(s, pc, frame, retry) ==
    /\ task'[s].pc = pc /\ task'[s].frame = frame /\ task'[s].retry = retry
    /\ \A d \in Samples \ {s} : task'[d] = task[d]

Ahead(s, pc) == Hop(s, pc, task[s].frame, task[s].retry)

(* An exception is raised in the task of s.                                *)
Throws(s, kind, retry) ==
    \/ task[s].frame = "inner" /\ Hop(s, "markJournal", "outer", retry)
    \/ /\ task[s].frame = "outer"
       /\ Hop(s, IF Recovery THEN "recover" ELSE "markJournal", "handler", retry)
    \/ task[s].frame \in {"handler", "tail"} /\ Hop(s, kind, task[s].frame, retry)

(* Going to a task record is a hop to its fields.                          *)
LEMMA GoesHops ==
    ASSUME TypeOK, NEW s \in Samples, NEW t \in Tasks, Goes(s, t)
    PROVE  Hop(s, t.pc, t.frame, t.retry)
BY DEF TypeOK, Goes, Hop

(* The handlers read nothing of a task but its frame.                      *)
LEMMA RaisedThrows ==
    ASSUME TypeOK, NEW s \in Samples, NEW t \in Tasks, NEW kind \in {"raised", "aborted"},
           t.frame = task[s].frame, Goes(s, Raised(t, kind))
    PROVE  Throws(s, kind, t.retry)
<1>1. Raised(t, kind) \in Tasks
  BY RaisedTyping
<1>2. Hop(s, Raised(t, kind).pc, Raised(t, kind).frame, Raised(t, kind).retry)
  BY <1>1, GoesHops
<1>3. CASE t.frame = "inner"
  <2>1. /\ Raised(t, kind).pc = "markJournal" /\ Raised(t, kind).frame = "outer"
        /\ Raised(t, kind).retry = t.retry
    BY <1>3 DEF Raised, Tasks
  <2>2. QED BY <1>2, <1>3, <2>1 DEF Throws
<1>4. CASE t.frame = "outer"
  <2>1. /\ Raised(t, kind).pc = IF Recovery THEN "recover" ELSE "markJournal"
        /\ Raised(t, kind).frame = "handler"
        /\ Raised(t, kind).retry = t.retry
    BY <1>4 DEF Raised, OuterHandler, Tasks
  <2>2. QED BY <1>2, <1>4, <2>1 DEF Throws
<1>5. CASE t.frame \in {"handler", "tail"}
  <2>1. /\ Raised(t, kind).pc = kind /\ Raised(t, kind).frame = t.frame
        /\ Raised(t, kind).retry = t.retry
    BY <1>5 DEF Raised, Tasks
  <2>2. QED BY <1>2, <1>5, <2>1 DEF Throws
<1>6. QED BY <1>3, <1>4, <1>5 DEF Tasks

(* checkpoint_sample: the task goes on, or the strike limit raises.        *)
LEMMA CheckpointHops ==
    ASSUME TypeOK, NEW s \in Samples, NEW next \in Tasks, CheckpointThen(s, next)
    PROVE  \/ Hop(s, next.pc, next.frame, next.retry)
              /\ (strikes' = MaxStrikes => strikes = MaxStrikes)
           \/ "checkpoint" \in Faults /\ Throws(s, "aborted", task[s].retry)
<1>0. task[s] \in Tasks /\ strikes \in 0..MaxStrikes /\ MaxStrikes \in Nat \ {0}
  BY FanOutAssumption DEF TypeOK
<1>1. CASE strikes' = 0 /\ Goes(s, next)
  BY <1>0, <1>1, GoesHops
<1>2. CASE /\ "checkpoint" \in Faults
           /\ strikes' = IF strikes < MaxStrikes THEN strikes + 1 ELSE strikes
           /\ Goes(s, IF StruckOut(strikes') THEN Raised(task[s], "aborted") ELSE next)
  <2>1. CASE StruckOut(strikes')
    BY <1>0, <1>2, <2>1, RaisedThrows
  <2>2. CASE ~StruckOut(strikes')
    <3>1. Goes(s, next)
      BY <1>2, <2>2
    <3>2. strikes' # MaxStrikes
      BY <1>0, <2>2 DEF StruckOut
    <3>3. QED BY <3>1, <3>2, GoesHops
  <2>3. QED BY <2>1, <2>2
<1>3. QED BY <1>1, <1>2 DEF CheckpointThen

(* The task steps. An action that may fail lists its normal end first.     *)
LEMMA TaskHops ==
    ASSUME TypeOK, NEW s \in Samples
    PROVE  /\ Start(s) => Ahead(s, "await")
           /\ AwaitOk(s) =>
                Hop(s, "book", IF task[s].frame = "outer" THEN "inner" ELSE task[s].frame,
                    task[s].retry)
           /\ AwaitFails(s) =>
                \/ task[s].frame = "outer" /\ Throws(s, "raised", task[s].retry)
                \/ task[s].frame # "outer" /\ Ahead(s, "recover")
           /\ BookOk(s) => Ahead(s, "complete")
           /\ BookRaises(s) => Ahead(s, "book") \/ Throws(s, "raised", task[s].retry)
           /\ Complete(s) =>
                \/ /\ journal' = Moved(s, "completed")
                   /\ Hop(s, "checkpoint",
                          IF task[s].frame = "inner" THEN "tail" ELSE task[s].frame, 0)
                \/ "journal" \in Faults /\ Throws(s, "raised", task[s].retry)
           /\ Checkpoint(s) =>
                \/ Ahead(s, "returned") /\ (strikes' = MaxStrikes => strikes = MaxStrikes)
                \/ "checkpoint" \in Faults /\ Throws(s, "aborted", task[s].retry)
           /\ MarkJournal(s) =>
                \/ /\ journal' = Moved(s, "failed")
                   /\ status' = [status EXCEPT ![s] = "failed"]
                   /\ class' = [class EXCEPT ![s] = FailureClass(s)]
                   /\ Ahead(s, "markCheckpoint")
                \/ /\ "journal" \in Faults /\ UNCHANGED <<status, class>>
                   /\ Throws(s, "raised", task[s].retry)
           /\ MarkCheckpoint(s) =>
                \/ Ahead(s, "report") /\ (strikes' = MaxStrikes => strikes = MaxStrikes)
                \/ "checkpoint" \in Faults /\ Throws(s, "aborted", task[s].retry)
           /\ Report(s) =>
                Ahead(s, "returned") \/ ("report" \in Faults /\ Throws(s, "raised", task[s].retry))
           /\ Resubmit(s) =>
                \/ live' = live \union {s} /\ Hop(s, "await", task[s].frame, task[s].retry + 1)
                \/ live' = live /\ Throws(s, "raised", task[s].retry + 1)
           /\ GiveUp(s) => Ahead(s, "markJournal")
<1>0. /\ task[s] \in Tasks /\ task \in [Samples -> Tasks]
      /\ 0 \in 0..MaxAttempts /\ 0 \in 0..MaxRetries
  BY FanOutAssumption DEF TypeOK
<1>a. ASSUME NEW t \in Tasks, t.frame = task[s].frame, t.retry = task[s].retry, Goes(s, t)
      PROVE  Ahead(s, t.pc)
  BY <1>a, GoesHops DEF Ahead
<1>b. ASSUME NEW pc \in {"recover", "complete", "returned", "markCheckpoint", "report",
                         "markJournal"}
      PROVE  LET t == [task[s] EXCEPT !.pc = pc]
             IN  t \in Tasks /\ t.pc = pc /\ t.frame = task[s].frame /\ t.retry = task[s].retry
  BY <1>0, <1>b DEF Tasks
<1>1. Start(s) => Ahead(s, "await")
  BY <1>0 DEF Start, Ahead, Hop, Tasks
<1>2. ASSUME AwaitOk(s)
      PROVE  Hop(s, "book", IF task[s].frame = "outer" THEN "inner" ELSE task[s].frame,
                 task[s].retry)
  <2> DEFINE t == [task[s] EXCEPT !.pc = "book", !.tries = 0,
                                  !.frame = IF @ = "outer" THEN "inner" ELSE @]
  <2>1. /\ t \in Tasks /\ t.pc = "book" /\ t.retry = task[s].retry
        /\ t.frame = IF task[s].frame = "outer" THEN "inner" ELSE task[s].frame
    BY <1>0 DEF Tasks
  <2>2. Goes(s, t)
    BY <1>2 DEF AwaitOk
  <2> HIDE DEF t
  <2>3. QED BY <2>1, <2>2, GoesHops
<1>3. ASSUME AwaitFails(s)
      PROVE  \/ task[s].frame = "outer" /\ Throws(s, "raised", task[s].retry)
             \/ task[s].frame # "outer" /\ Ahead(s, "recover")
  <2>1. CASE task[s].frame = "outer"
    <3>1. Raised(task[s], "raised") = OuterHandler(task[s])
      BY <2>1 DEF Raised
    <3>2. Goes(s, Raised(task[s], "raised"))
      BY <1>3, <2>1, <3>1 DEF AwaitFails
    <3>3. QED BY <1>0, <2>1, <3>2, RaisedThrows
  <2>2. CASE task[s].frame # "outer"
    <3>1. Goes(s, [task[s] EXCEPT !.pc = "recover"])
      BY <1>3, <2>2 DEF AwaitFails
    <3>2. QED BY <1>a, <1>b, <2>2, <3>1
  <2>3. QED BY <2>1, <2>2
<1>4. ASSUME BookOk(s) PROVE Ahead(s, "complete")
  <2> DEFINE t == [task[s] EXCEPT !.pc = "complete", !.stored = TRUE]
  <2>1. t \in Tasks /\ t.pc = "complete" /\ t.frame = task[s].frame /\ t.retry = task[s].retry
    BY <1>0 DEF Tasks
  <2>2. Goes(s, t)
    BY <1>4 DEF BookOk
  <2> HIDE DEF t
  <2>3. QED BY <1>a, <2>1, <2>2
<1>5. ASSUME BookRaises(s) PROVE Ahead(s, "book") \/ Throws(s, "raised", task[s].retry)
  <2>1. PICK stored \in {task[s].stored, TRUE} :
          LET t == [task[s] EXCEPT !.stored = stored]
          IN  Goes(s, IF t.frame = "inner" /\ t.tries + 1 < MaxAttempts
                      THEN [t EXCEPT !.tries = @ + 1]
                      ELSE Raised(t, "raised"))
    BY <1>5 DEF BookRaises
  <2> DEFINE t == [task[s] EXCEPT !.stored = stored]
  <2>2. t \in Tasks /\ t.pc = "book" /\ t.frame = task[s].frame /\ t.retry = task[s].retry
    BY <1>0, <1>5, <2>1 DEF BookRaises, Tasks
  <2>3. CASE t.frame = "inner" /\ t.tries + 1 < MaxAttempts
    <3> DEFINE u == [t EXCEPT !.tries = @ + 1]
    <3>1. Goes(s, u)
      BY <2>1, <2>3
    <3> HIDE DEF t
    <3>2. t.tries + 1 \in 0..MaxAttempts
      BY <2>2, <2>3, FanOutAssumption DEF Tasks
    <3>3. u \in Tasks /\ u.pc = t.pc /\ u.frame = t.frame /\ u.retry = t.retry
      BY <2>2, <3>2 DEF Tasks
    <3> HIDE DEF u
    <3>4. QED BY <1>a, <2>2, <3>1, <3>3
  <2>4. CASE ~(t.frame = "inner" /\ t.tries + 1 < MaxAttempts)
    <3>1. Goes(s, Raised(t, "raised"))
      BY <2>1, <2>4
    <3> HIDE DEF t
    <3>2. QED BY <2>2, <3>1, RaisedThrows
  <2>5. QED BY <2>3, <2>4
<1>6. ASSUME Complete(s)
      PROVE  \/ /\ journal' = Moved(s, "completed")
                /\ Hop(s, "checkpoint",
                       IF task[s].frame = "inner" THEN "tail" ELSE task[s].frame, 0)
             \/ "journal" \in Faults /\ Throws(s, "raised", task[s].retry)
  <2> DEFINE t == [task[s] EXCEPT !.pc = "checkpoint", !.retry = 0,
                                  !.frame = IF @ = "inner" THEN "tail" ELSE @]
  <2>1. /\ t \in Tasks /\ t.pc = "checkpoint" /\ t.retry = 0
        /\ t.frame = IF task[s].frame = "inner" THEN "tail" ELSE task[s].frame
    BY <1>0 DEF Tasks
  <2>2. \/ journal' = Moved(s, "completed") /\ Goes(s, t)
        \/ "journal" \in Faults /\ Goes(s, Raised(task[s], "raised"))
    BY <1>6 DEF Complete
  <2> HIDE DEF t
  <2>3. QED BY <1>0, <2>1, <2>2, GoesHops, RaisedThrows
<1>7. ASSUME Checkpoint(s)
      PROVE  \/ Ahead(s, "returned") /\ (strikes' = MaxStrikes => strikes = MaxStrikes)
             \/ "checkpoint" \in Faults /\ Throws(s, "aborted", task[s].retry)
  BY <1>7, <1>b, CheckpointHops DEF Checkpoint, Ahead
<1>8. ASSUME MarkJournal(s)
      PROVE  \/ /\ journal' = Moved(s, "failed")
                /\ status' = [status EXCEPT ![s] = "failed"]
                /\ class' = [class EXCEPT ![s] = FailureClass(s)]
                /\ Ahead(s, "markCheckpoint")
             \/ /\ "journal" \in Faults /\ UNCHANGED <<status, class>>
                /\ Throws(s, "raised", task[s].retry)
  <2>1. ASSUME Goes(s, [task[s] EXCEPT !.pc = "markCheckpoint"])
        PROVE  Ahead(s, "markCheckpoint")
    BY <1>a, <1>b, <2>1
  <2>2. ASSUME Goes(s, Raised(task[s], "raised"))
        PROVE  Throws(s, "raised", task[s].retry)
    BY <1>0, <2>2, RaisedThrows
  <2>3. QED BY <1>8, <2>1, <2>2 DEF MarkJournal
<1>9. ASSUME MarkCheckpoint(s)
      PROVE  \/ Ahead(s, "report") /\ (strikes' = MaxStrikes => strikes = MaxStrikes)
             \/ "checkpoint" \in Faults /\ Throws(s, "aborted", task[s].retry)
  BY <1>9, <1>b, CheckpointHops DEF MarkCheckpoint, Ahead
<1>10. ASSUME Report(s)
       PROVE  Ahead(s, "returned") \/ ("report" \in Faults /\ Throws(s, "raised", task[s].retry))
  <2>1. ASSUME Goes(s, [task[s] EXCEPT !.pc = "returned"]) PROVE Ahead(s, "returned")
    BY <1>a, <1>b, <2>1
  <2>2. ASSUME Goes(s, Raised(task[s], "raised"))
        PROVE  Throws(s, "raised", task[s].retry)
    BY <1>0, <2>2, RaisedThrows
  <2>3. QED BY <1>10, <2>1, <2>2 DEF Report
<1>11. ASSUME Resubmit(s)
       PROVE  \/ live' = live \union {s} /\ Hop(s, "await", task[s].frame, task[s].retry + 1)
              \/ live' = live /\ Throws(s, "raised", task[s].retry + 1)
  <2> DEFINE t == Attempted(task[s])
             u == [t EXCEPT !.pc = "await"]
  <2>1. t \in Tasks /\ t.frame = task[s].frame /\ t.retry = task[s].retry + 1
    BY <1>0, <1>11, AttemptedTyping DEF Resubmit
  <2>2. \/ live' = live \union {s} /\ Goes(s, u)
        \/ live' = live /\ Goes(s, Raised(t, "raised"))
    BY <1>11 DEF Resubmit
  <2> HIDE DEF t
  <2>3. u \in Tasks /\ u.pc = "await" /\ u.frame = t.frame /\ u.retry = t.retry
    BY <2>1 DEF Tasks
  <2> HIDE DEF u
  <2>4. ASSUME Goes(s, u) PROVE Hop(s, "await", task[s].frame, task[s].retry + 1)
    BY <2>1, <2>3, <2>4, GoesHops
  <2>5. ASSUME Goes(s, Raised(t, "raised")) PROVE Throws(s, "raised", task[s].retry + 1)
    BY <1>0, <2>1, <2>5, RaisedThrows
  <2>6. QED BY <2>2, <2>4, <2>5
<1>12. ASSUME GiveUp(s) PROVE Ahead(s, "markJournal")
  BY <1>12, <1>a, <1>b DEF GiveUp
<1>13. QED
  BY <1>1, <1>2, <1>3, <1>4, <1>5, <1>6, <1>7, <1>8, <1>9, <1>10, <1>11, <1>12
(* The only tasks a step of the main thread changes are those it submits,  *)
(* starts or cancels.                                                      *)
LEMMA MainHops ==
    ASSUME TypeOK, Main
    PROVE  \A d \in Samples :
             \/ task'[d] = task[d]
             \/ task'[d].pc = "cancelled" /\ task[d].pc = "queued"
             \/ /\ SubmitOne(d) /\ task'[d].pc = "queued"
                /\ task'[d].frame = task[d].frame /\ task'[d].retry = task[d].retry
             \/ /\ SeqStart(d) /\ task'[d].pc = "await"
                /\ task'[d].frame = task[d].frame /\ task'[d].retry = task[d].retry
<1>0. task \in [Samples -> Tasks] /\ \A d \in Samples : task[d] \in Tasks
  BY DEF TypeOK
<1> USE DEF mainVars, waitVars, closingVars, jobVars, recordVars, envVars
<1>1. CASE task' = task
  BY <1>1
<1>2. ASSUME NEW S, task' = Cancelled(S)
      PROVE  \A d \in Samples :
               task'[d] = task[d] \/ (task'[d].pc = "cancelled" /\ task[d].pc = "queued")
  BY <1>0, <1>2 DEF Cancelled, Tasks
<1>3. ASSUME NEW s \in Samples, SubmitOne(s)
      PROVE  /\ \A d \in Samples \ {s} : task'[d] = task[d]
             /\ task'[s].pc = "queued" /\ task'[s].frame = task[s].frame
             /\ task'[s].retry = task[s].retry
  BY <1>0, <1>3 DEF SubmitOne, Tasks
<1>4. ASSUME NEW s \in Samples, SeqStart(s)
      PROVE  /\ \A d \in Samples \ {s} : task'[d] = task[d]
             /\ task'[s].pc = "await" /\ task'[s].frame = task[s].frame
             /\ task'[s].retry = task[s].retry
  BY <1>0, <1>4 DEF SeqStart, Tasks
<1>5. \/ task' = task
      \/ task' = Cancelled(batch)
      \/ \E s \in Samples : SubmitOne(s) \/ SeqStart(s)
  BY DEF Main, SubmitRaises, CloseChunk, CutChunkShort, EndSubmission, Enqueue, WaitReturns,
         Drained, SeeCancel, SeePause, JoinAbort, Join, JoinCancel, SeqRaise, SeqCancel, SeqPause,
         SeqReturn, PostEnd, Drain, DrainAbort, PostCheck, PostStore
<1>6. QED BY <1>1, <1>2, <1>3, <1>4, <1>5

(* Requests from outside and stuttering change no task.                    *)
LEMMA OtherHops ==
    ASSUME (~Ended /\ (RequestCancel \/ TogglePause)) \/ UNCHANGED vars
    PROVE  UNCHANGED <<mainVars, closingVars, task, jobVars, recordVars, swept>>
BY DEF RequestCancel, TogglePause, vars, envVars

(* A step of a task is one of a queued task that starts or of a running    *)
(* one, and leaves the main thread and the other tasks alone.              *)
LEMMA TaskGoesOn ==
    ASSUME TypeOK, NEW s \in Samples, Await(s) \/ Task(s)
    PROVE  /\ Start(s) \/ Busy(s)
           /\ task'[s].pc \notin {"none", "queued", "cancelled"}
           /\ \A d \in Samples \ {s} : task'[d] = task[d]
           /\ UNCHANGED <<mainVars, closingVars, accounting, envVars>>
<1> USE DEF mainVars, waitVars, closingVars, jobVars, recordVars, envVars
<1>1. Start(s) \/ Busy(s)
  BY DEF Await, Task, AwaitOk, AwaitFails, BookOk, BookRaises, Complete, Checkpoint, MarkJournal,
         MarkCheckpoint, Report, Resubmit, GiveUp, Busy, Resolved
<1>2. UNCHANGED <<mainVars, closingVars, accounting, envVars>>
  BY DEF Await, Task, AwaitOk, AwaitFails, Start, BookOk, BookRaises, Complete, Checkpoint,
         MarkJournal, MarkCheckpoint, Report, Resubmit, GiveUp
<1>3. /\ task'[s].pc \notin {"none", "queued", "cancelled"}
      /\ \A d \in Samples \ {s} : task'[d] = task[d]
  <2>1. ASSUME NEW kind \in {"raised", "aborted"}, NEW retry, Throws(s, kind, retry)
        PROVE  /\ task'[s].pc \notin {"none", "queued", "cancelled"}
               /\ \A d \in Samples \ {s} : task'[d] = task[d]
    BY <2>1 DEF Throws, Hop
  <2>2. \/ \E kind \in {"raised", "aborted"} : \E retry : Throws(s, kind, retry)
        \/ \E pc \in {"await", "book", "recover", "complete", "checkpoint", "returned",
                      "markCheckpoint", "report", "markJournal"} :
             \E frame, retry : Hop(s, pc, frame, retry)
    BY TaskHops DEF Await, Task, Ahead
  <2>3. QED BY <2>1, <2>2 DEF Hop
<1>4. QED
  BY <1>1, <1>2, <1>3

-----------------------------------------------------------------------------
(* No thread is left behind.                                               *)

(* What has not been submitted, and what has not been started; the wait    *)
(* loop belongs to the pool.                                               *)
Untouched ==
    /\ \A s \in todo : task[s].pc = "none"
    /\ undrained \subseteq batch
    /\ main \in {"drain", "join", "joinAbort"} => ~Sequential
    /\ main \in {"submit", "enqueue"} => \A s \in batch : task[s].pc = "queued"
    /\ main = "wait" /\ Sequential => \A s \in undrained : task[s].pc = "queued"

(* The running tasks are those of the current chunk, and main is where the *)
(* pool exists: what it has drained has ended. In the one-worker loop at   *)
(* most one task of the chunk has been started and has not returned.       *)
Threads ==
    /\ main # "joinCancel"
    /\ swept => main = "interrupted"
    /\ \A s \in Samples :
         Busy(s) => s \in batch /\ main \in {"wait", "drain", "join", "joinAbort"}
    /\ main \in {"wait", "drain"} /\ ~Sequential => \A s \in batch \ undrained : Resolved(s)
    /\ main = "wait" /\ Sequential =>
         \A s, t \in batch \ undrained :
           s = t \/ task[s].pc = "returned" \/ task[t].pc = "returned"

(* The bounded drain of a cancelled pool may leave threads behind; the     *)
(* one-worker loop never does.                                             *)
ThreadsInv == TypeOK /\ Untouched /\ ((swept /\ ~Sequential) \/ Threads)

(* What the main thread does to a chunk.                                   *)
LEMMA MainKeepsUntouched ==
    ASSUME TypeOK, Untouched, Main
    PROVE  Untouched'
<1>0. task \in [Samples -> Tasks] /\ \A d \in Samples : task[d] \in Tasks
      /\ todo \subseteq Samples /\ batch \subseteq Samples
  BY DEF TypeOK
<1> USE DEF mainVars, waitVars, closingVars, jobVars, recordVars, envVars
<1>1. CASE SubmitRaises \/ CloseChunk \/ CutChunkShort \/ EndSubmission \/ Enqueue
  <2>1. CASE SubmitRaises \/ CloseChunk \/ CutChunkShort \/ EndSubmission
    <3>1. /\ main = "submit" /\ main' \in {"failed", "enqueue", "submit", "post"}
          /\ todo' \subseteq todo /\ UNCHANGED <<batch, undrained, task>>
      BY <2>1 DEF SubmitRaises, CloseChunk, CutChunkShort, EndSubmission
    <3>2. QED BY <3>1 DEF Untouched
  <2>2. CASE Enqueue
    BY <2>2 DEF Enqueue, Untouched
  <2>3. QED BY <1>1, <2>1, <2>2
<1>2. CASE WaitReturns \/ Drained \/ SeePause \/ JoinAbort \/ Join \/ JoinCancel
  BY <1>2 DEF WaitReturns, Drained, SeePause, JoinAbort, Join, JoinCancel, ReturnToChunkLoop,
              Untouched
<1>3. CASE SeqRaise \/ SeqCancel \/ SeqPause \/ SeqReturn \/ PostEnd
  BY <1>3 DEF SeqRaise, SeqCancel, SeqPause, SeqReturn, PostEnd, ReturnToChunkLoop, Untouched
<1>4. ASSUME SeeCancel \/ \E s \in Samples : DrainAbort(s) PROVE Untouched'
  <2>1. \A d \in todo : task'[d] = task[d]
    BY <1>0, <1>4 DEF SeeCancel, DrainAbort, Cancelled, Untouched
  <2>2. QED BY <1>4, <2>1 DEF SeeCancel, DrainAbort, Untouched
<1>5. ASSUME NEW s \in Samples, SubmitOne(s) PROVE Untouched'
  BY <1>0, <1>5 DEF SubmitOne, Untouched, Tasks
<1>6. ASSUME NEW s \in Samples, SeqStart(s) PROVE Untouched'
  BY <1>0, <1>6 DEF SeqStart, Untouched
<1>7. ASSUME NEW s \in Samples, Drain(s) \/ PostCheck(s) \/ PostStore(s) PROVE Untouched'
  BY <1>7 DEF Drain, PostCheck, PostStore, Untouched
<1>8. QED
  BY <1>1, <1>2, <1>3, <1>4, <1>5, <1>6, <1>7 DEF Main

(* The main thread never goes on with a thread of a chunk still running,   *)
(* except from the bounded drain.                                          *)
LEMMA MainKeepsThreads ==
    ASSUME TypeOK, Untouched, Threads, Main
    PROVE  (swept' /\ ~Sequential) \/ Threads'
<1>0. task \in [Samples -> Tasks] /\ \A d \in Samples : task[d] \in Tasks
      /\ batch \subseteq Samples
  BY DEF TypeOK
<1> USE DEF mainVars, waitVars, closingVars, jobVars, recordVars, envVars
<1>1. CASE SubmitRaises \/ CloseChunk \/ CutChunkShort \/ EndSubmission \/ Enqueue
  BY <1>1 DEF SubmitRaises, CloseChunk, CutChunkShort, EndSubmission, Enqueue, Untouched,
              Threads, Busy, Resolved
<1>2. CASE WaitReturns
  BY <1>2 DEF WaitReturns, Threads, Busy, Resolved
<1>3. CASE Drained
  BY <1>3 DEF Drained, ReturnToChunkLoop, Untouched, Threads, Busy, Resolved
<1>4. CASE SeeCancel
  BY <1>4 DEF SeeCancel
<1>5. CASE SeePause \/ JoinAbort \/ Join \/ JoinCancel
  BY <1>5 DEF SeePause, JoinAbort, Join, JoinCancel, PoolEnded, ReturnToChunkLoop, Untouched,
              Threads, Busy, Resolved
<1>6. CASE SeqRaise \/ SeqCancel \/ SeqPause \/ SeqReturn
  <2>1. \A s \in Samples : ~Busy(s)
    <3>1. CASE SeqRaise
      BY <1>0, <3>1 DEF SeqRaise, Untouched, Threads, Busy, Resolved
    <3>2. CASE SeqCancel \/ SeqPause
      BY <3>2 DEF SeqCancel, SeqPause, Untouched, Threads, Busy, Resolved
    <3>3. CASE SeqReturn
      BY <3>3 DEF SeqReturn, Threads, Busy, Resolved
    <3>4. QED BY <1>6, <3>1, <3>2, <3>3
  <2>2. QED
    BY <1>6, <2>1 DEF SeqRaise, SeqCancel, SeqPause, SeqReturn, ReturnToChunkLoop, Threads,
                      Busy, Resolved
<1>7. CASE PostEnd
  BY <1>7 DEF PostEnd, Threads, Busy, Resolved
<1>8. ASSUME NEW s \in Samples, SubmitOne(s) PROVE Threads'
  <2>1. task'[s].pc = "queued" /\ \A d \in Samples \ {s} : task'[d] = task[d]
    BY <1>0, <1>8 DEF SubmitOne, Tasks
  <2>2. QED BY <1>8, <2>1 DEF SubmitOne, Threads, Busy, Resolved
<1>9. ASSUME NEW s \in Samples, SeqStart(s) PROVE Threads'
  <2>1. /\ task'[s].pc = "await" /\ \A d \in Samples \ {s} : task'[d] = task[d]
        /\ s \in batch
    BY <1>0, <1>9 DEF SeqStart, Tasks, Untouched
  <2>2. QED BY <1>0, <1>9, <2>1 DEF SeqStart, Threads, Busy, Resolved
<1>10. ASSUME NEW s \in Samples, DrainAbort(s) PROVE Threads'
  <2>1. \A d \in Samples : task'[d] = task[d] \/ task'[d].pc = "cancelled"
    BY <1>0, <1>10 DEF DrainAbort, Cancelled, Tasks
  <2>2. QED BY <1>10, <2>1 DEF DrainAbort, Threads, Busy, Resolved
<1>11. ASSUME NEW s \in Samples, Drain(s) \/ PostCheck(s) \/ PostStore(s) PROVE Threads'
  BY <1>11 DEF Drain, PostCheck, PostStore, Threads, Busy, Resolved
<1>12. QED
  BY <1>1, <1>2, <1>3, <1>4, <1>5, <1>6, <1>7, <1>8, <1>9, <1>10, <1>11 DEF Main

LEMMA StepKeepsThreadsInv ==
    ASSUME ThreadsInv, TypeOK', [Next]_vars
    PROVE  ThreadsInv'
<1>0. TypeOK /\ Untouched /\ ((swept /\ ~Sequential) \/ Threads)
  BY DEF ThreadsInv
<1> USE DEF mainVars, waitVars, closingVars, jobVars, recordVars, envVars
<1>1. CASE Main
  <2>1. swept => swept'
    BY <1>1 DEF Main, SubmitRaises, CloseChunk, CutChunkShort, EndSubmission, Enqueue,
         WaitReturns, Drained, SeeCancel, SeePause, JoinAbort, Join, JoinCancel, SeqRaise,
         SeqCancel, SeqPause, SeqReturn, PostEnd, SubmitOne, SeqStart, Drain, DrainAbort,
         PostCheck, PostStore
  <2>2. QED BY <1>0, <1>1, <2>1, MainKeepsUntouched, MainKeepsThreads DEF ThreadsInv, Sequential
<1>2. ASSUME NEW s \in Samples, Await(s) \/ Task(s) PROVE ThreadsInv'
  <2>1. /\ Start(s) \/ Busy(s)
        /\ task'[s].pc \notin {"none", "queued", "cancelled"}
        /\ \A d \in Samples \ {s} : task'[d] = task[d]
        /\ UNCHANGED <<main, todo, batch, undrained, swept>>
    BY <1>0, <1>2, TaskGoesOn
  <2>2. todo \subseteq Samples /\ batch \subseteq Samples
    BY <1>0 DEF TypeOK
  <2>3. s \in batch \ undrained \/ ~Sequential \/ swept \/ main # "wait"
    BY <1>0, <2>1 DEF Start, Threads, Untouched, Busy
  <2>4. Untouched'
    <3>1. s \notin todo
      BY <1>0, <2>1 DEF Start, Untouched, Busy
    <3>2. main \in {"submit", "enqueue"} => s \notin batch
      BY <1>0, <2>1 DEF Start, Untouched, Busy
    <3>3. main = "wait" /\ Sequential => s \notin undrained
      BY <1>0, <2>1 DEF Start, Untouched, Busy
    <3>4. QED BY <1>0, <2>1, <2>2, <3>1, <3>2, <3>3 DEF Untouched, Sequential
  <2>5. Threads => Threads'
    <3> SUFFICES ASSUME Threads PROVE Threads'
      OBVIOUS
    <3>1. s \in batch /\ main \in {"wait", "drain", "join", "joinAbort"}
      BY <2>1 DEF Start, Threads
    <3>2. CASE Start(s)
      BY <2>1, <2>2, <3>1, <3>2 DEF Start, Threads, Busy, Resolved, Sequential
    <3>3. CASE Busy(s)
      BY <2>1, <2>2, <3>1, <3>3 DEF Threads, Busy, Resolved, Sequential
    <3>4. QED BY <2>1, <3>2, <3>3
  <2>6. QED BY <1>0, <2>1, <2>4, <2>5 DEF ThreadsInv, Sequential
<1>3. CASE (~Ended /\ (RequestCancel \/ TogglePause)) \/ UNCHANGED vars
  <2>1. UNCHANGED <<main, todo, batch, undrained, task, swept>>
    BY <1>3, OtherHops
  <2>2. QED BY <1>0, <2>1 DEF ThreadsInv, Untouched, Threads, Busy, Resolved, Sequential
<1>4. QED
  BY <1>1, <1>2, <1>3 DEF Next

LEMMA ThreadsAreJoined == Spec => []ThreadsInv
<1>1. Init /\ TypeOK => ThreadsInv
  BY DEF Init, ThreadsInv, Untouched, Threads, Busy
<1>2. ThreadsInv /\ TypeOK' /\ [Next]_vars => ThreadsInv'
  BY StepKeepsThreadsInv
<1>3. QED
  BY <1>1, <1>2, Typing, PTL DEF Spec

(* When a step that was not cancelled is back in its chunk loop, in its    *)
(* closing pass or at an end, none of its tasks is running.                *)
THEOREM PoolIsJoined == Spec => []NoThreadLeftBehind
<1>1. ThreadsInv => NoThreadLeftBehind
  BY DEF ThreadsInv, Threads, NoThreadLeftBehind
<1>2. QED
  BY <1>1, ThreadsAreJoined, PTL

(* In the one-worker loop nothing starts a job after the sweep.            *)
THEOREM SweepIsFinal == Sequential => (Spec => NoJobAfterSweep)
<1> SUFFICES ASSUME Sequential PROVE Spec => NoJobAfterSweep
  OBVIOUS
<1>1. ThreadsInv /\ [Next]_vars => (swept => live' \subseteq live)
  <2> SUFFICES ASSUME ThreadsInv, [Next]_vars, swept PROVE live' \subseteq live
    OBVIOUS
  <2> USE DEF mainVars, waitVars, closingVars, jobVars, recordVars, envVars
  <2>1. TypeOK /\ main = "interrupted" /\ \A s \in Samples : ~Busy(s)
    BY DEF ThreadsInv, Threads
  <2>2. CASE Main
    BY <2>1, <2>2
    DEF Main, SubmitRaises, CloseChunk, CutChunkShort, EndSubmission, Enqueue, WaitReturns,
        Drained, SeeCancel, SeePause, JoinAbort, Join, JoinCancel, SeqRaise, SeqCancel, SeqPause,
        SeqReturn, PostEnd, SubmitOne, SeqStart, Drain, DrainAbort, PostCheck, PostStore
  <2>3. ASSUME NEW s \in Samples, Await(s) \/ Task(s) PROVE FALSE
    BY <2>1, <2>3, TaskGoesOn DEF Start
  <2>4. CASE (~Ended /\ (RequestCancel \/ TogglePause)) \/ UNCHANGED vars
    BY <2>4, OtherHops
  <2>5. QED
    BY <2>2, <2>3, <2>4 DEF Next
<1>2. QED
  BY <1>1, ThreadsAreJoined, PTL DEF Spec, NoJobAfterSweep

-----------------------------------------------------------------------------
(* The third strike.                                                       *)

(* Which handlers a task can be under at each point, and how it got there: *)
(* only recovery awaits again under a handler, and only a failure of the   *)
(* books or of the journal is recorded by the inner handler.               *)
Fits(t) ==
    /\ t.pc \in {"none", "queued"} => t.frame = "outer"
    /\ t.pc = "await" => t.frame \in {"outer", "handler"}
    /\ t.pc \in {"book", "complete"} => t.frame \in {"inner", "handler"}
    /\ t.pc = "checkpoint" => t.frame \in {"tail", "handler"}
    /\ t.pc \in {"markJournal", "markCheckpoint", "report"} =>
         \/ t.frame = "handler"
         \/ t.frame = "outer" /\ {"bookkeeping", "journal"} \intersect Faults # {}
    /\ t.pc = "recover" => t.frame = "handler" /\ Recovery
    /\ t.pc \in {"await", "book", "complete"} /\ t.frame = "handler" =>
         Recovery /\ t.retry > 0

FramesFit == TypeOK /\ \A s \in Samples : Fits(task[s])

(* A task that raises is left under the handler it reached.                *)
LEMMA ThrowsFits ==
    ASSUME NEW s \in Samples, NEW kind \in {"raised", "aborted"}, NEW retry,
           Throws(s, kind, retry),
           task[s].frame = "inner" => {"bookkeeping", "journal"} \intersect Faults # {}
    PROVE  Fits(task'[s]) /\ \A d \in Samples \ {s} : task'[d] = task[d]
BY DEF Throws, Hop, Fits

(* Every step leaves every task under a handler that fits.                 *)
LEMMA StepKeepsFramesFit ==
    ASSUME FramesFit, Untouched, TypeOK', [Next]_vars
    PROVE  FramesFit'
<1>0. TypeOK /\ \A d \in Samples : Fits(task[d]) /\ task[d] \in Tasks
  BY DEF FramesFit, TypeOK
<1>1. CASE Main
  <2> SUFFICES ASSUME NEW d \in Samples PROVE Fits(task'[d])
    BY DEF FramesFit
  <2>1. CASE task'[d] = task[d]
    BY <1>0, <2>1
  <2>2. CASE task'[d].pc = "cancelled"
    BY <2>2 DEF Fits
  <2>3. CASE SubmitOne(d) /\ task'[d].pc = "queued" /\ task'[d].frame = task[d].frame
    BY <1>0, <2>3 DEF SubmitOne, Untouched, Fits
  <2>4. CASE SeqStart(d) /\ task'[d].pc = "await" /\ task'[d].frame = task[d].frame
    BY <1>0, <2>4 DEF SeqStart, Untouched, Fits
  <2>5. QED BY <1>0, <1>1, <2>1, <2>2, <2>3, <2>4, MainHops
<1>2. ASSUME NEW s \in Samples, Await(s) \/ Task(s) PROVE FramesFit'
  <2>0. Fits(task[s]) /\ task[s] \in Tasks
    BY <1>0
  <2> SUFFICES Fits(task'[s]) /\ \A d \in Samples \ {s} : task'[d] = task[d]
    BY <1>0 DEF FramesFit
  <2>1. CASE Start(s)
    BY <1>0, <2>0, <2>1, TaskHops DEF Start, Ahead, Hop, Fits
  <2>2. CASE AwaitOk(s)
    BY <1>0, <2>0, <2>2, TaskHops DEF AwaitOk, Hop, Fits
  <2>3. CASE AwaitFails(s)
    <3>1. CASE task[s].frame = "outer" /\ Throws(s, "raised", task[s].retry)
      BY <3>1, ThrowsFits
    <3>2. CASE task[s].frame # "outer" /\ Ahead(s, "recover")
      BY <2>0, <2>3, <3>2 DEF AwaitFails, Ahead, Hop, Fits
    <3>3. QED BY <1>0, <2>3, <3>1, <3>2, TaskHops
  <2>4. CASE BookOk(s)
    BY <1>0, <2>0, <2>4, TaskHops DEF BookOk, Ahead, Hop, Fits
  <2>5. CASE BookRaises(s)
    <3>1. CASE Ahead(s, "book")
      BY <2>0, <2>5, <3>1 DEF BookRaises, Ahead, Hop, Fits
    <3>2. CASE Throws(s, "raised", task[s].retry)
      BY <2>5, <3>2, ThrowsFits DEF BookRaises
    <3>3. QED BY <1>0, <2>5, <3>1, <3>2, TaskHops
  <2>6. CASE Complete(s)
    <3>1. CASE Hop(s, "checkpoint", IF task[s].frame = "inner" THEN "tail" ELSE task[s].frame, 0)
      BY <2>0, <2>6, <3>1 DEF Complete, Hop, Fits
    <3>2. CASE "journal" \in Faults /\ Throws(s, "raised", task[s].retry)
      BY <3>2, ThrowsFits
    <3>3. QED BY <1>0, <2>6, <3>1, <3>2, TaskHops
  <2>7. CASE Checkpoint(s)
    <3>1. CASE Ahead(s, "returned")
      BY <3>1 DEF Ahead, Hop, Fits
    <3>2. CASE Throws(s, "aborted", task[s].retry)
      BY <2>0, <2>7, <3>2, ThrowsFits DEF Checkpoint, Fits
    <3>3. QED BY <1>0, <2>7, <3>1, <3>2, TaskHops
  <2>8. CASE MarkJournal(s)
    <3>1. CASE Ahead(s, "markCheckpoint")
      BY <2>0, <2>8, <3>1 DEF MarkJournal, Ahead, Hop, Fits
    <3>2. CASE Throws(s, "raised", task[s].retry)
      BY <2>0, <2>8, <3>2, ThrowsFits DEF MarkJournal, Fits
    <3>3. QED BY <1>0, <2>8, <3>1, <3>2, TaskHops
  <2>9. CASE MarkCheckpoint(s)
    <3>1. CASE Ahead(s, "report")
      BY <2>0, <2>9, <3>1 DEF MarkCheckpoint, Ahead, Hop, Fits
    <3>2. CASE Throws(s, "aborted", task[s].retry)
      BY <2>0, <2>9, <3>2, ThrowsFits DEF MarkCheckpoint, Fits
    <3>3. QED BY <1>0, <2>9, <3>1, <3>2, TaskHops
  <2>10. CASE Report(s)
    <3>1. CASE Ahead(s, "returned")
      BY <3>1 DEF Ahead, Hop, Fits
    <3>2. CASE Throws(s, "raised", task[s].retry)
      BY <2>0, <2>10, <3>2, ThrowsFits DEF Report, Fits
    <3>3. QED BY <1>0, <2>10, <3>1, <3>2, TaskHops
  <2>11. CASE Resubmit(s)
    <3>1. task[s].pc = "recover" /\ task[s].retry \in Nat
      BY <2>0, <2>11, FanOutAssumption DEF Resubmit, Tasks
    <3>2. CASE Hop(s, "await", task[s].frame, task[s].retry + 1)
      BY <2>0, <3>1, <3>2 DEF Hop, Fits
    <3>3. CASE Throws(s, "raised", task[s].retry + 1)
      BY <2>0, <3>1, <3>3, ThrowsFits DEF Fits
    <3>4. QED BY <1>0, <2>11, <3>2, <3>3, TaskHops
  <2>12. CASE GiveUp(s)
    BY <1>0, <2>0, <2>12, TaskHops DEF GiveUp, Ahead, Hop, Fits
  <2>13. QED
    BY <1>2, <2>1, <2>2, <2>3, <2>4, <2>5, <2>6, <2>7, <2>8, <2>9, <2>10, <2>11, <2>12
    DEF Await, Task
<1>3. CASE (~Ended /\ (RequestCancel \/ TogglePause)) \/ UNCHANGED vars
  BY <1>0, <1>3, OtherHops DEF FramesFit
<1>4. QED
  BY <1>1, <1>2, <1>3 DEF Next

LEMMA Frames == Spec => []FramesFit
<1>1. Init /\ TypeOK => FramesFit
  BY DEF Init, FramesFit, Fits
<1>2. FramesFit /\ ThreadsInv /\ TypeOK' /\ [Next]_vars => FramesFit'
  BY StepKeepsFramesFit DEF ThreadsInv
<1>3. QED
  BY <1>1, <1>2, Typing, ThreadsAreJoined, PTL DEF Spec

(* The strike that reaches the limit ends its task with the abort, unless  *)
(* the task was recording a bookkeeping failure.                           *)
THEOREM StrikesAbort == Spec => ThirdStrikeAborts
<1>1. FramesFit /\ [Next]_vars =>
        (strikes < MaxStrikes /\ strikes' = MaxStrikes
           => \E s \in Samples : \/ task'[s].pc = "aborted"
                                 \/ task[s].frame = "outer" /\ task'[s].frame = "handler")
  <2> SUFFICES ASSUME FramesFit, [Next]_vars, strikes < MaxStrikes, strikes' = MaxStrikes
               PROVE  \E s \in Samples :
                        \/ task'[s].pc = "aborted"
                        \/ task[s].frame = "outer" /\ task'[s].frame = "handler"
    OBVIOUS
  <2> USE DEF mainVars, waitVars, closingVars, jobVars, recordVars, envVars
  <2>0. TypeOK /\ strikes' # strikes
    BY FanOutAssumption DEF FramesFit, TypeOK
  <2>1. \E s \in Samples : Checkpoint(s) \/ MarkCheckpoint(s)
    <3>1. ~Main
      BY <2>0
      DEF Main, SubmitRaises, CloseChunk, CutChunkShort, EndSubmission, Enqueue, WaitReturns,
          Drained, SeeCancel, SeePause, JoinAbort, Join, JoinCancel, SeqRaise, SeqCancel, SeqPause,
          SeqReturn, PostEnd, SubmitOne, SeqStart, Drain, DrainAbort, PostCheck, PostStore
    <3>2. ~((~Ended /\ (RequestCancel \/ TogglePause)) \/ UNCHANGED vars)
      BY <2>0, OtherHops
    <3>3. PICK s \in Samples : Await(s) \/ Task(s)
      BY <3>1, <3>2 DEF Next
    <3>4. QED
      BY <2>0, <3>3
      DEF Await, Task, AwaitOk, AwaitFails, Start, BookOk, BookRaises, Complete, MarkJournal,
          Report, Resubmit, GiveUp
  <2>2. PICK s \in Samples : Checkpoint(s) \/ MarkCheckpoint(s)
    BY <2>1
  <2>3. Throws(s, "aborted", task[s].retry)
    BY <2>0, <2>2, TaskHops
  <2>4. task[s].frame # "inner"
    BY <2>2 DEF FramesFit, Fits, Checkpoint, MarkCheckpoint
  <2>5. QED BY <2>3, <2>4 DEF Throws, Hop
<1>2. QED
  BY <1>1, Frames, PTL DEF Spec, ThirdStrikeAborts

-----------------------------------------------------------------------------
(* The journal.                                                            *)

(* Where the job of a sample is at each point of its task. A job that is   *)
(* marked failed before its task raises again is only met without recovery.*)
JournalTracks(s) ==
    /\ task[s].pc = "none" => journal[s] = {}
    /\ task[s].pc = "queued" =>
         /\ journal[s] \in {{}, {"pending"}}
         /\ main \in {"wait", "drain", "join"} /\ s \in batch => journal[s] = {"pending"}
    /\ task[s].pc \in {"await", "book", "complete", "recover"} => journal[s] = {"pending"}
    /\ task[s].pc \in {"complete", "checkpoint"} => status[s] = "ok"
    /\ task[s].pc = "checkpoint" => journal[s] = {"completed"}
    /\ task[s].pc = "markJournal" =>
         journal[s] = {"pending"} \/ (journal[s] = {"failed"} /\ ~Recovery)
    /\ task[s].pc \in {"markCheckpoint", "report"} =>
         journal[s] = {"failed"} /\ status[s] = "failed"
    /\ task[s].pc = "returned" =>
         journal[s] = {IF status[s] = "ok" THEN "completed" ELSE "failed"}

JournalInv == \A s \in Samples : JournalTracks(s)

(* When the journal can be kept: it is new, its own moves do not fail, and *)
(* no recovery resubmits a sample that the inner handler marked as failed. *)
JournalKept ==
    /\ FreshJournal
    /\ "journal" \notin Faults
    /\ \/ ~Recovery
       \/ "bookkeeping" \notin Faults
       \/ {"checkpoint", "report"} \intersect Faults = {}

(* A pending job ends up in the one directory it is moved to.              *)
LEMMA MovedJob ==
    ASSUME TypeOK, NEW s \in Samples, NEW to \in {"completed", "failed"}, journal' = Moved(s, to)
    PROVE  /\ journal[s] = {"pending"} => journal'[s] = {to}
           /\ "pending" \notin journal[s] => journal' = journal
           /\ \A d \in Samples \ {s} : journal'[d] = journal[d]
<1>1. journal \in [Samples -> SUBSET {"pending", "completed", "failed"}]
  BY DEF TypeOK
<1>2. ({"pending"} \ {"pending"}) \union {to} = {to}
  OBVIOUS
<1>3. QED BY <1>1, <1>2 DEF Moved

LEMMA MainKeepsJournal ==
    ASSUME TypeOK, Untouched, JournalInv, Main
    PROVE  JournalInv'
<1>0. /\ task \in [Samples -> Tasks] /\ \A d \in Samples : task[d] \in Tasks
      /\ batch \subseteq Samples
      /\ \A d \in Samples : JournalTracks(d)
  BY DEF TypeOK, JournalInv
<1> USE DEF mainVars, waitVars, closingVars, jobVars, recordVars, envVars
<1>1. CASE Enqueue
  <2>1. PICK some \in SUBSET batch :
          /\ journal' = [s \in Samples |-> IF s \in some THEN Enqueued(s) ELSE journal[s]]
          /\ \/ some = batch /\ main' = "wait"
             \/ "enqueue" \in Faults /\ main' = "failed"
    BY <1>1 DEF Enqueue
  <2>2. UNCHANGED <<task, status, batch>> /\ \A d \in batch : task[d].pc = "queued"
    BY <1>1 DEF Enqueue, Untouched
  <2> SUFFICES ASSUME NEW d \in Samples PROVE JournalTracks(d)'
    BY DEF JournalInv
  <2>3. CASE d \in batch
    <3>1. journal[d] \in {{}, {"pending"}} /\ task[d].pc = "queued"
      BY <1>0, <2>2, <2>3 DEF JournalTracks
    <3>2. Enqueued(d) = {"pending"}
      BY <3>1 DEF Enqueued
    <3>3. journal'[d] \in {{}, {"pending"}} /\ (main' = "wait" => journal'[d] = {"pending"})
      BY <2>1, <2>3, <3>1, <3>2
    <3>4. QED BY <2>1, <2>2, <3>1, <3>3 DEF JournalTracks
  <2>4. CASE d \notin batch
    BY <1>0, <2>1, <2>2, <2>4 DEF JournalTracks
  <2>5. QED BY <2>3, <2>4
<1>2. ASSUME NEW s \in Samples, PostCheck(s) PROVE JournalInv'
  <2>1. /\ UNCHANGED <<main, batch, task, journal>>
        /\ \A d \in Samples :
             status'[d] = status[d] \/ (status[d] # "ok" /\ status'[d] = "failed")
    BY <1>2 DEF PostCheck, TypeOK
  <2>2. QED BY <1>0, <2>1 DEF JournalInv, JournalTracks
<1>3. ASSUME NEW s \in Samples, SubmitOne(s) PROVE JournalInv'
  <2>1. /\ task'[s].pc = "queued" /\ \A d \in Samples \ {s} : task'[d] = task[d]
        /\ main = "submit" /\ main' = main /\ UNCHANGED <<journal, status>>
        /\ journal[s] = {}
    BY <1>0, <1>3 DEF SubmitOne, Tasks, Untouched, JournalTracks
  <2>2. QED BY <1>0, <2>1 DEF JournalInv, JournalTracks
<1>4. ASSUME NEW s \in Samples, SeqStart(s) PROVE JournalInv'
  <2>1. /\ task'[s].pc = "await" /\ \A d \in Samples \ {s} : task'[d] = task[d]
        /\ UNCHANGED <<main, batch, journal, status>>
        /\ journal[s] = {"pending"}
    BY <1>0, <1>4 DEF SeqStart, Tasks, Untouched, JournalTracks
  <2>2. QED BY <1>0, <2>1 DEF JournalInv, JournalTracks
<1>5. ASSUME ~Enqueue, ~\E s \in Samples : PostCheck(s) \/ SubmitOne(s) \/ SeqStart(s)
      PROVE  JournalInv'
  <2>1. /\ UNCHANGED <<journal, status>>
        /\ main' \in {"wait", "drain", "join"} =>
             main \in {"wait", "drain", "join"} /\ batch' = batch
    BY <1>5 DEF Main, SubmitRaises, CloseChunk, CutChunkShort, EndSubmission, WaitReturns, Drained,
         SeeCancel, SeePause, JoinAbort, Join, JoinCancel, SeqRaise, SeqCancel, SeqPause, SeqReturn,
         PostEnd, Drain, DrainAbort, PostStore, ReturnToChunkLoop
  <2>2. \A d \in Samples : task'[d] = task[d] \/ task'[d].pc = "cancelled"
    BY <1>5, MainHops
  <2> SUFFICES ASSUME NEW d \in Samples PROVE JournalTracks(d)'
    BY DEF JournalInv
  <2>3. QED BY <1>0, <2>1, <2>2 DEF JournalTracks
<1>6. QED BY <1>1, <1>2, <1>3, <1>4, <1>5

LEMMA TaskKeepsJournal ==
    ASSUME TypeOK, Untouched, FramesFit, JournalInv, JournalKept,
           NEW s \in Samples, Await(s) \/ Task(s)
    PROVE  JournalInv'
<1>0. /\ task[s] \in Tasks /\ Fits(task[s]) /\ JournalTracks(s)
      /\ status \in [Samples -> {"none", "ok", "failed"}]
      /\ "journal" \notin Faults
  BY DEF TypeOK, FramesFit, JournalInv, JournalKept
<1> USE DEF mainVars, waitVars, closingVars, jobVars, recordVars, envVars
<1>1. /\ \A d \in Samples \ {s} : task'[d] = task[d]
      /\ UNCHANGED <<main, batch>>
  BY TaskGoesOn
<1>2. /\ \A d \in Samples \ {s} : journal'[d] = journal[d] /\ status'[d] = status[d]
      /\ ~Complete(s) /\ ~MarkJournal(s) => journal' = journal
      /\ ~BookOk(s) /\ ~MarkJournal(s) /\ ~Resubmit(s) => status' = status
  <2>1. ~Complete(s) /\ ~MarkJournal(s) => journal' = journal
    BY DEF Await, Task, AwaitOk, AwaitFails, Start, BookOk, BookRaises, Checkpoint,
           MarkCheckpoint, Report, Resubmit, GiveUp
  <2>2. /\ ~BookOk(s) /\ ~MarkJournal(s) /\ ~Resubmit(s) => status' = status
        /\ \A d \in Samples \ {s} : status'[d] = status[d]
    BY <1>0 DEF Await, Task, AwaitOk, AwaitFails, Start, BookOk, BookRaises, Checkpoint, Complete,
           MarkJournal, MarkCheckpoint, Report, Resubmit, GiveUp
  <2>3. Complete(s) \/ MarkJournal(s) => \A d \in Samples \ {s} : journal'[d] = journal[d]
    BY <1>0, MovedJob, TaskHops
  <2>4. QED BY <2>1, <2>2, <2>3
<1> SUFFICES JournalTracks(s)'
  <2>1. \A d \in Samples \ {s} : JournalTracks(d)'
    BY <1>1, <1>2 DEF JournalInv, JournalTracks
  <2>2. QED BY <2>1 DEF JournalInv
<1>a. ASSUME journal'[s] = {"pending"}, NEW kind \in {"raised", "aborted"}, NEW retry,
             Throws(s, kind, retry)
      PROVE  JournalTracks(s)'
  BY <1>a DEF Throws, Hop, JournalTracks
<1>3. CASE Start(s)
  BY <1>0, <1>1, <1>2, <1>3, TaskHops
  DEF Start, Ahead, Hop, JournalTracks, Complete, MarkJournal
<1>4. CASE AwaitOk(s)
  BY <1>0, <1>2, <1>4, TaskHops DEF AwaitOk, Hop, JournalTracks, Complete, MarkJournal
<1>5. CASE AwaitFails(s)
  <2>1. journal'[s] = {"pending"}
    BY <1>0, <1>5 DEF AwaitFails, JournalTracks
  <2>2. QED BY <1>a, <1>5, <2>1, TaskHops DEF Ahead, Hop, JournalTracks
<1>6. CASE BookOk(s)
  BY <1>0, <1>6, TaskHops DEF BookOk, Ahead, Hop, JournalTracks
<1>7. CASE BookRaises(s)
  <2>1. journal'[s] = {"pending"}
    BY <1>0, <1>7 DEF BookRaises, JournalTracks
  <2>2. QED BY <1>a, <1>7, <2>1, TaskHops DEF Ahead, Hop, JournalTracks
<1>8. CASE Complete(s)
  <2>1. journal[s] = {"pending"} /\ status[s] = "ok" /\ status' = status
    BY <1>0, <1>8 DEF Complete, JournalTracks
  <2>2. /\ journal' = Moved(s, "completed")
        /\ task'[s].pc = "checkpoint"
    BY <1>0, <1>8, TaskHops DEF Hop
  <2>3. journal'[s] = {"completed"}
    BY <2>1, <2>2, MovedJob
  <2>4. QED BY <2>1, <2>2, <2>3 DEF JournalTracks
<1>9. CASE Checkpoint(s)
  <2>1. journal'[s] = {"completed"} /\ status'[s] = "ok"
    BY <1>0, <1>9 DEF Checkpoint, JournalTracks
  <2>2. task'[s].pc \in {"returned", "aborted"}
    BY <1>0, <1>9, TaskHops DEF Checkpoint, Ahead, Throws, Hop, Fits
  <2>3. QED BY <2>1, <2>2 DEF JournalTracks
<1>10. CASE MarkJournal(s)
  <2>1. /\ journal' = Moved(s, "failed") /\ status'[s] = "failed"
        /\ task'[s].pc = "markCheckpoint"
    BY <1>0, <1>10, TaskHops DEF Ahead, Hop
  <2>2. journal[s] \in {{"pending"}, {"failed"}}
    BY <1>0, <1>10 DEF MarkJournal, JournalTracks
  <2>3. journal'[s] = {"failed"}
    BY <2>1, <2>2, MovedJob
  <2>4. QED BY <2>1, <2>3 DEF JournalTracks
<1>11. CASE MarkCheckpoint(s)
  <2>1. journal'[s] = {"failed"} /\ status'[s] = "failed"
    BY <1>0, <1>11 DEF MarkCheckpoint, JournalTracks
  <2>2. task[s].frame = "outer" /\ "checkpoint" \in Faults => ~Recovery
    BY <1>0, <1>11 DEF MarkCheckpoint, Fits, JournalKept
  <2>3. \/ task'[s].pc \in {"report", "aborted"}
        \/ task'[s].pc = "markJournal" /\ ~Recovery
    BY <1>0, <1>11, <2>2, TaskHops DEF MarkCheckpoint, Ahead, Throws, Hop, Fits
  <2>4. QED BY <2>1, <2>3 DEF JournalTracks
<1>12. CASE Report(s)
  <2>1. journal'[s] = {"failed"} /\ status'[s] = "failed"
    BY <1>0, <1>12 DEF Report, JournalTracks
  <2>2. task[s].frame = "outer" /\ "report" \in Faults => ~Recovery
    BY <1>0, <1>12 DEF Report, Fits, JournalKept
  <2>3. \/ task'[s].pc \in {"returned", "raised"}
        \/ task'[s].pc = "markJournal" /\ ~Recovery
    BY <1>0, <1>12, <2>2, TaskHops DEF Report, Ahead, Throws, Hop, Fits
  <2>4. QED BY <2>1, <2>3 DEF JournalTracks
<1>13. CASE Resubmit(s)
  <2>1. journal'[s] = {"pending"}
    BY <1>0, <1>13 DEF Resubmit, JournalTracks
  <2>2. QED BY <1>a, <1>13, <2>1, TaskHops DEF Hop, JournalTracks
<1>14. CASE GiveUp(s)
  <2>1. journal'[s] = {"pending"}
    BY <1>0, <1>14 DEF GiveUp, JournalTracks
  <2>2. QED BY <1>14, <2>1, TaskHops DEF Ahead, Hop, JournalTracks
<1>15. QED
  BY <1>3, <1>4, <1>5, <1>6, <1>7, <1>8, <1>9, <1>10, <1>11, <1>12, <1>13, <1>14
  DEF Await, Task

(* When the step finishes, the journal of each sample that returned says   *)
(* what its record says.                                                   *)
THEOREM JournalIsKept == JournalKept => (Spec => []JournalAgrees)
<1> SUFFICES ASSUME JournalKept PROVE Spec => []JournalAgrees
  OBVIOUS
<1>1. Init => JournalInv
  BY DEF Init, JournalInv, JournalTracks, JournalKept
<1>2. JournalInv /\ FramesFit /\ ThreadsInv /\ [Next]_vars => JournalInv'
  <2> SUFFICES ASSUME JournalInv, FramesFit, ThreadsInv, [Next]_vars PROVE JournalInv'
    OBVIOUS
  <2>0. TypeOK /\ Untouched
    BY DEF ThreadsInv
  <2>1. CASE Main
    BY <2>0, <2>1, MainKeepsJournal
  <2>2. CASE \E s \in Samples : Await(s) \/ Task(s)
    BY <2>0, <2>2, TaskKeepsJournal
  <2>3. CASE (~Ended /\ (RequestCancel \/ TogglePause)) \/ UNCHANGED vars
    <3>1. UNCHANGED <<main, batch, task, status, journal>>
      BY <2>3, OtherHops DEF mainVars, recordVars
    <3>2. QED BY <3>1 DEF JournalInv, JournalTracks
  <2>4. QED BY <2>1, <2>2, <2>3 DEF Next
<1>3. JournalInv => JournalAgrees
  BY DEF JournalInv, JournalTracks, JournalAgrees
<1>4. QED
  BY <1>1, <1>2, <1>3, ThreadsAreJoined, Frames, PTL DEF Spec

-----------------------------------------------------------------------------
(* A simulation that succeeded.                                            *)

(* A job whose handle returned is past its await for good.                 *)
RunsOnce(s) ==
    task[s].pc \in {"none", "queued", "await", "recover", "cancelled"} => s \notin simulated

NoRerun == \A s \in Samples : RunsOnce(s)

(* Nothing is raised while the inner handler records a failure: marking    *)
(* cannot fail, or the books never do, or only checkpoints fail and there  *)
(* are too few samples for the limit, each having one checkpoint.          *)
FewSamples == {"journal", "report"} \intersect Faults = {} /\ Cardinality(Samples) < MaxStrikes

MarksHold ==
    \/ {"journal", "checkpoint", "report"} \intersect Faults = {}
    \/ {"bookkeeping", "journal"} \intersect Faults = {}
    \/ FewSamples

(* Strikes are made by samples that are past their checkpoint.             *)
PastCheckpoint == {"report", "returned", "raised", "aborted"}
Checkpointed   == {s \in Samples : task[s].pc \in PastCheckpoint}

StrikesInv == FewSamples => strikes <= Cardinality(Checkpointed)

LEMMA CheckpointedCount ==
    ASSUME NEW s \in Samples, task[s].pc \notin PastCheckpoint
    PROVE  /\ Cardinality(Checkpointed \union {s}) = Cardinality(Checkpointed) + 1
           /\ Cardinality(Checkpointed) + 1 <= Cardinality(Samples)
           /\ {Cardinality(Checkpointed), Cardinality(Samples)} \subseteq Nat
<1>1. IsFiniteSet(Checkpointed) /\ IsFiniteSet(Samples) /\ s \notin Checkpointed
  BY FanOutAssumption, FS_Subset DEF Checkpointed
<1>2. Cardinality(Checkpointed \union {s}) = Cardinality(Checkpointed) + 1
  BY <1>1, FS_AddElement
<1>3. Checkpointed \union {s} \subseteq Samples
  BY DEF Checkpointed
<1>4. Cardinality(Checkpointed \union {s}) <= Cardinality(Samples)
  BY <1>1, <1>3, FS_Subset
<1>5. QED BY <1>1, <1>2, <1>4, FS_CardinalityType

(* A failed checkpoint of few samples is not the one that aborts.          *)
LEMMA FewAreNotStruckOut ==
    ASSUME TypeOK, StrikesInv, FewSamples, NEW s \in Samples,
           Checkpoint(s) \/ MarkCheckpoint(s)
    PROVE  /\ task'[s].pc \in {"returned", "report"}
           /\ task[s].pc \notin PastCheckpoint /\ strikes' <= strikes + 1
<1>1. task[s] \in Tasks /\ task \in [Samples -> Tasks] /\ strikes \in Nat /\ MaxStrikes \in Nat
  BY FanOutAssumption DEF TypeOK
<1>2. task[s].pc \notin PastCheckpoint
  BY DEF Checkpoint, MarkCheckpoint, PastCheckpoint
<1>3. strikes + 1 < MaxStrikes
  <2>1. /\ {Cardinality(Checkpointed), Cardinality(Samples)} \subseteq Nat
        /\ Cardinality(Checkpointed) + 1 <= Cardinality(Samples)
    BY <1>2, CheckpointedCount
  <2>2. strikes <= Cardinality(Checkpointed) /\ Cardinality(Samples) < MaxStrikes
    BY DEF StrikesInv, FewSamples
  <2>3. QED BY <1>1, <2>1, <2>2
<1>4. PICK pc \in {"returned", "report"} : CheckpointThen(s, [task[s] EXCEPT !.pc = pc])
  BY DEF Checkpoint, MarkCheckpoint
<1>5. strikes' <= strikes + 1 /\ Goes(s, [task[s] EXCEPT !.pc = pc])
  <2>1. ~StruckOut(IF strikes < MaxStrikes THEN strikes + 1 ELSE strikes)
    BY <1>1, <1>3 DEF StruckOut
  <2>2. CASE strikes' = 0
    BY <1>1, <1>3, <1>4, <2>1, <2>2 DEF CheckpointThen
  <2>3. CASE strikes' # 0
    BY <1>1, <1>3, <1>4, <2>1, <2>3 DEF CheckpointThen
  <2>4. QED BY <2>2, <2>3
<1>6. QED BY <1>1, <1>2, <1>5 DEF Goes, Tasks

LEMMA StepKeepsStrikes ==
    ASSUME StrikesInv, TypeOK, Untouched, [Next]_vars
    PROVE  StrikesInv'
<1>. SUFFICES ASSUME FewSamples, FewSamples'
              PROVE  (strikes <= Cardinality(Checkpointed))'
  BY DEF StrikesInv
<1>. USE DEF mainVars, waitVars, closingVars, jobVars, recordVars, envVars
<1>1. CASE Main
  <2>1. strikes' = strikes
    BY <1>1 DEF Main, SubmitRaises, CloseChunk, CutChunkShort, EndSubmission, Enqueue,
         WaitReturns, Drained, SeeCancel, SeePause, JoinAbort, Join, JoinCancel, SeqRaise,
         SeqCancel, SeqPause, SeqReturn, PostEnd, SubmitOne, SeqStart, Drain, DrainAbort,
         PostCheck, PostStore
  <2>2. Checkpointed' = Checkpointed
    <3>1. ASSUME NEW d \in Samples
          PROVE  task'[d].pc \in PastCheckpoint <=> task[d].pc \in PastCheckpoint
      BY <1>1, MainHops DEF SubmitOne, SeqStart, Untouched, PastCheckpoint
    <3>2. QED BY <3>1 DEF Checkpointed
  <2>3. QED BY <2>1, <2>2 DEF StrikesInv
<1>2. ASSUME NEW s \in Samples, Await(s) \/ Task(s)
      PROVE  (strikes <= Cardinality(Checkpointed))'
  <2>1. \A d \in Samples \ {s} : task'[d] = task[d]
    BY <1>2, TaskGoesOn
  <2>2. CASE Checkpoint(s) \/ MarkCheckpoint(s)
    <3>1. /\ task'[s].pc \in PastCheckpoint /\ task[s].pc \notin PastCheckpoint
          /\ strikes' <= strikes + 1
      BY <2>2, FewAreNotStruckOut DEF PastCheckpoint
    <3>2. Checkpointed' = Checkpointed \union {s}
      BY <2>1, <3>1 DEF Checkpointed
    <3>3. strikes' \in Nat /\ strikes \in Nat
      BY <2>2, FanOutAssumption DEF TypeOK, Checkpoint, MarkCheckpoint, CheckpointThen
    <3>4. QED BY <3>1, <3>2, <3>3, CheckpointedCount DEF StrikesInv
  <2>3. CASE ~(Checkpoint(s) \/ MarkCheckpoint(s))
    <3>1. strikes' = strikes /\ (task[s].pc \in PastCheckpoint => Report(s))
      BY <1>2, <2>3 DEF Await, Task, AwaitOk, AwaitFails, Start, BookOk, BookRaises, Complete,
           MarkJournal, Report, Resubmit, GiveUp, PastCheckpoint
    <3>2. task[s].pc \in PastCheckpoint => task'[s].pc = "returned"
      BY <3>1, TaskHops DEF Ahead, Hop, FewSamples
    <3>3. CASE task'[s].pc \in PastCheckpoint <=> task[s].pc \in PastCheckpoint
      <4>1. Checkpointed' = Checkpointed
        BY <2>1, <3>3 DEF Checkpointed
      <4>2. QED BY <3>1, <4>1 DEF StrikesInv
    <3>4. CASE task'[s].pc \in PastCheckpoint /\ task[s].pc \notin PastCheckpoint
      <4>1. Checkpointed' = Checkpointed \union {s}
        BY <2>1, <3>4 DEF Checkpointed
      <4>2. strikes \in Nat
        BY FanOutAssumption DEF TypeOK
      <4>3. QED BY <3>1, <3>4, <4>1, <4>2, CheckpointedCount DEF StrikesInv
    <3>5. QED BY <3>2, <3>3, <3>4 DEF PastCheckpoint
  <2>4. QED BY <2>2, <2>3
<1>3. CASE (~Ended /\ (RequestCancel \/ TogglePause)) \/ UNCHANGED vars
  <2>1. UNCHANGED <<task, strikes>>
    BY <1>3, OtherHops
  <2>2. QED BY <2>1 DEF StrikesInv, Checkpointed
<1>4. QED BY <1>1, <1>2, <1>3 DEF Next

LEMMA StrikesAreCounted == Spec => []StrikesInv
<1>1. Init => StrikesInv
  <2>. SUFFICES ASSUME Init PROVE StrikesInv
    OBVIOUS
  <2>1. strikes = 0 /\ Cardinality(Checkpointed) \in Nat
    BY FanOutAssumption, FS_Subset, FS_CardinalityType DEF Init, Checkpointed
  <2>2. QED BY <2>1 DEF StrikesInv
<1>2. StrikesInv /\ ThreadsInv /\ [Next]_vars => StrikesInv'
  BY StepKeepsStrikes DEF ThreadsInv
<1>3. QED
  BY <1>1, <1>2, ThreadsAreJoined, PTL DEF Spec

(* A step into recovery comes from an await that failed.                   *)
LEMMA RecoveryFromAwait ==
    ASSUME TypeOK, FramesFit, StrikesInv, ~Recovery \/ MarksHold,
           NEW s \in Samples, Await(s) \/ Task(s), task'[s].pc = "recover"
    PROVE  task[s].pc \in {"await", "recover"}
<1>0. task[s] \in Tasks /\ Fits(task[s])
  BY DEF TypeOK, FramesFit
<1>1. ~Start(s) /\ ~AwaitOk(s) /\ ~BookOk(s) /\ ~GiveUp(s)
  BY TaskHops DEF Ahead, Hop
<1>2. ASSUME BookRaises(s) \/ Complete(s) PROVE FALSE
  BY <1>0, <1>2, TaskHops DEF BookRaises, Complete, Ahead, Hop, Throws, Fits
<1>3. ASSUME Checkpoint(s) PROVE FALSE
  BY <1>0, <1>3, TaskHops DEF Checkpoint, Ahead, Hop, Throws, Fits
<1>4. ASSUME MarkJournal(s) PROVE FALSE
  BY <1>0, <1>4, TaskHops DEF MarkJournal, Ahead, Hop, Throws, Fits, MarksHold, FewSamples
<1>5. ASSUME MarkCheckpoint(s) PROVE FALSE
  BY <1>0, <1>5, TaskHops, FewAreNotStruckOut
  DEF MarkCheckpoint, Ahead, Hop, Throws, Fits, MarksHold
<1>6. ASSUME Report(s) PROVE FALSE
  BY <1>0, <1>6, TaskHops DEF Report, Ahead, Hop, Throws, Fits, MarksHold, FewSamples
<1>7. QED
  BY <1>1, <1>2, <1>3, <1>4, <1>5, <1>6 DEF Await, Task, AwaitFails, Resubmit

(* A step into an await starts a task or resubmits it.                     *)
LEMMA AwaitFromQueueOrRecovery ==
    ASSUME TypeOK, NEW s \in Samples, Await(s) \/ Task(s), task'[s].pc = "await"
    PROVE  task[s].pc \in {"queued", "recover"}
<1>1. Start(s) \/ Resubmit(s)
  BY TaskHops DEF Await, Task, Ahead, Hop, Throws
<1>2. QED BY <1>1 DEF Start, Resubmit

LEMMA StepKeepsNoRerun ==
    ASSUME NoRerun, TypeOK, Untouched, FramesFit, StrikesInv, ~Recovery \/ MarksHold,
           [Next]_vars
    PROVE  NoRerun'
<1>0. \A d \in Samples : RunsOnce(d)
  BY DEF NoRerun
<1>1. CASE Main
  <2>1. simulated' = simulated
    BY <1>1 DEF mainVars, waitVars, closingVars, jobVars, recordVars, envVars, Main,
         SubmitRaises, CloseChunk, CutChunkShort, EndSubmission, Enqueue, WaitReturns, Drained,
         SeeCancel, SeePause, JoinAbort, Join, JoinCancel, SeqRaise, SeqCancel, SeqPause,
         SeqReturn, PostEnd, SubmitOne, SeqStart, Drain, DrainAbort, PostCheck, PostStore
  <2> SUFFICES ASSUME NEW d \in Samples PROVE RunsOnce(d)'
    BY DEF NoRerun
  <2>2. \/ task'[d] = task[d]
        \/ task[d].pc \in {"none", "queued"}
    BY <1>1, MainHops DEF SubmitOne, SeqStart, Untouched
  <2>3. QED BY <1>0, <2>1, <2>2 DEF RunsOnce
<1>2. ASSUME NEW s \in Samples, Await(s) \/ Task(s) PROVE NoRerun'
  <2>1. /\ task'[s].pc \notin {"none", "queued", "cancelled"}
        /\ \A d \in Samples \ {s} : task'[d] = task[d]
    BY <1>2, TaskGoesOn
  <2>2. CASE AwaitOk(s)
    <3>1. task'[s].pc = "book" /\ simulated' = simulated \union {s}
      BY <2>2, TaskHops DEF AwaitOk, Hop
    <3>2. QED BY <1>0, <2>1, <3>1 DEF NoRerun, RunsOnce
  <2>3. CASE ~AwaitOk(s)
    <3>1. simulated' = simulated
      BY <1>2, <2>3 DEF mainVars, closingVars, jobVars, recordVars, envVars, Await, Task,
           AwaitFails, Start, BookOk, BookRaises, Complete, Checkpoint, MarkJournal,
           MarkCheckpoint, Report, Resubmit, GiveUp
    <3>2. task'[s].pc \in {"await", "recover"} => s \notin simulated
      BY <1>0, <1>2, RecoveryFromAwait, AwaitFromQueueOrRecovery DEF RunsOnce
    <3>3. QED BY <1>0, <2>1, <3>1, <3>2 DEF NoRerun, RunsOnce
  <2>4. QED BY <2>2, <2>3
<1>3. CASE (~Ended /\ (RequestCancel \/ TogglePause)) \/ UNCHANGED vars
  <2>1. UNCHANGED <<task, simulated>>
    BY <1>3, OtherHops DEF jobVars
  <2>2. QED BY <1>0, <2>1 DEF NoRerun, RunsOnce
<1>4. QED BY <1>1, <1>2, <1>3 DEF Next

LEMMA EveryJobRunsOnce == ~Recovery \/ MarksHold => (Spec => []NoRerun)
<1> SUFFICES ASSUME ~Recovery \/ MarksHold PROVE Spec => []NoRerun
  OBVIOUS
<1>1. Init => NoRerun
  BY DEF Init, NoRerun, RunsOnce
<1>2. NoRerun /\ FramesFit /\ StrikesInv /\ ThreadsInv /\ [Next]_vars => NoRerun'
  BY StepKeepsNoRerun DEF ThreadsInv
<1>3. QED
  BY <1>1, <1>2, ThreadsAreJoined, Frames, StrikesAreCounted, PTL DEF Spec

(* Without recovery, or when nothing is raised while a bookkeeping failure *)
(* is recorded, a simulation that succeeded is never submitted again.      *)
THEOREM SimulationsRunOnce == ~Recovery \/ MarksHold => (Spec => SuccessIsNotRerun)
<1> SUFFICES ASSUME ~Recovery \/ MarksHold PROVE Spec => SuccessIsNotRerun
  OBVIOUS
<1>1. NoRerun /\ ThreadsInv /\ [Next]_vars => (\A s \in simulated : s \in live' => s \in live)
  <2> SUFFICES ASSUME NoRerun, ThreadsInv, [Next]_vars, NEW s \in simulated, s \in live'
               PROVE  s \in live
    OBVIOUS
  <2>0. /\ TypeOK /\ Untouched /\ s \in Samples
        /\ task[s].pc \notin {"none", "recover"}
    BY DEF ThreadsInv, TypeOK, NoRerun, RunsOnce
  <2>1. ~SubmitOne(s) /\ ~Resubmit(s)
    BY <2>0 DEF SubmitOne, Resubmit, Untouched
  <2>2. CASE Main
    BY <2>1, <2>2 DEF mainVars, waitVars, closingVars, jobVars, recordVars, envVars, Main,
         SubmitRaises, CloseChunk, CutChunkShort, EndSubmission, Enqueue, WaitReturns, Drained,
         SeeCancel, SeePause, JoinAbort, Join, JoinCancel, SeqRaise, SeqCancel, SeqPause,
         SeqReturn, PostEnd, SubmitOne, SeqStart, Drain, DrainAbort, PostCheck, PostStore
  <2>3. ASSUME NEW d \in Samples, Await(d) \/ Task(d) PROVE s \in live
    BY <2>1, <2>3 DEF mainVars, closingVars, jobVars, recordVars, envVars, Await, Task,
         AwaitOk, AwaitFails, Start, BookOk, BookRaises, Complete, Checkpoint, MarkJournal,
         MarkCheckpoint, Report, Resubmit, GiveUp
  <2>4. CASE (~Ended /\ (RequestCancel \/ TogglePause)) \/ UNCHANGED vars
    BY <2>4, OtherHops DEF jobVars
  <2>5. QED BY <2>2, <2>3, <2>4 DEF Next
<1>2. QED
  BY <1>1, EveryJobRunsOnce, ThreadsAreJoined, PTL DEF Spec, SuccessIsNotRerun

(* What is recorded of a sample that was simulated and not resubmitted     *)
(* since: its success, or the failure of its books.                        *)
Kept(s) ==
    /\ task[s].pc \in {"complete", "checkpoint"} => status[s] = "ok"
    /\ s \in simulated /\ task[s].retry = 0 =>
      /\ task[s].pc # "raised"
      /\ task[s].pc = "aborted" => status[s] = "ok"
      /\ task[s].pc \in {"markJournal", "markCheckpoint", "report"} => task[s].frame = "outer"
      /\ task[s].pc \in {"markCheckpoint", "report"} => class[s] = "bookkeeping_error"
      /\ task[s].pc = "returned" => status[s] = "ok" \/ class[s] = "bookkeeping_error"

(* The closing pass marks what has failed; only threads a sweep left       *)
(* behind could change that under it.                                      *)
Marking ==
    /\ marking # {} => main = "post"
    /\ swept \/ \A s \in marking : status[s] = "failed"

KeptInv == Marking /\ \A s \in Samples : Kept(s)

LEMMA MainKeepsMarking ==
    ASSUME TypeOK, Marking, Main
    PROVE  Marking'
<1> USE DEF mainVars, waitVars, closingVars, jobVars, recordVars, envVars
<1>1. ASSUME NEW s \in Samples, PostCheck(s) \/ PostStore(s) PROVE Marking'
  BY <1>1 DEF PostCheck, PostStore, Marking, TypeOK
<1>2. CASE PostEnd
  BY <1>2 DEF PostEnd, Marking
<1>3. ASSUME ~PostEnd, ~\E s \in Samples : PostCheck(s) \/ PostStore(s)
      PROVE  Marking'
  <2>1. /\ UNCHANGED <<status, marking>>
        /\ swept => swept'
        /\ main # "post"
    BY <1>3 DEF Main, SubmitRaises, CloseChunk, CutChunkShort, EndSubmission, Enqueue,
         WaitReturns, Drained, SeeCancel, SeePause, JoinAbort, Join, JoinCancel, SeqRaise,
         SeqCancel, SeqPause, SeqReturn, SubmitOne, SeqStart, Drain, DrainAbort
  <2>2. QED BY <2>1 DEF Marking
<1>4. QED BY <1>1, <1>2, <1>3

LEMMA MainKeepsKept ==
    ASSUME TypeOK, Untouched, NoRerun, Main, NEW d \in Samples, Kept(d)
    PROVE  Kept(d)'
<1> USE DEF mainVars, waitVars, closingVars, jobVars, recordVars, envVars
<1>1. UNCHANGED <<simulated, class>>
  BY DEF Main, SubmitRaises, CloseChunk, CutChunkShort, EndSubmission, Enqueue, WaitReturns,
         Drained, SeeCancel, SeePause, JoinAbort, Join, JoinCancel, SeqRaise, SeqCancel, SeqPause,
         SeqReturn, PostEnd, SubmitOne, SeqStart, Drain, DrainAbort, PostCheck, PostStore
<1>2. status'[d] = status[d] \/ status[d] # "ok"
  BY DEF Main, SubmitRaises, CloseChunk, CutChunkShort, EndSubmission, Enqueue, WaitReturns,
         Drained, SeeCancel, SeePause, JoinAbort, Join, JoinCancel, SeqRaise, SeqCancel, SeqPause,
         SeqReturn, PostEnd, SubmitOne, SeqStart, Drain, DrainAbort, PostCheck, PostStore, TypeOK
<1>3. \/ task'[d] = task[d]
      \/ /\ task[d].pc \in {"none", "queued"}
         /\ task'[d].pc \in {"queued", "await", "cancelled"}
  BY MainHops DEF SubmitOne, SeqStart, Untouched
<1>4. QED BY <1>1, <1>2, <1>3 DEF Kept, NoRerun, RunsOnce

LEMMA TaskKeepsKept ==
    ASSUME TypeOK, FramesFit, NoRerun, StrikesInv, MarksHold,
           NEW s \in Samples, Await(s) \/ Task(s), Kept(s)
    PROVE  Kept(s)'
<1>0. /\ task[s] \in Tasks /\ Fits(task[s]) /\ RunsOnce(s)
      /\ status \in [Samples -> {"none", "ok", "failed"}]
      /\ class \in [Samples -> {"none", "simulation_error", "bookkeeping_error"}]
      /\ task[s].retry \in Nat
  BY FanOutAssumption DEF TypeOK, FramesFit, NoRerun, Tasks
<1> USE DEF mainVars, waitVars, closingVars, jobVars, recordVars, envVars
<1>1. CASE Start(s) \/ AwaitFails(s) \/ Resubmit(s) \/ GiveUp(s)
  <2>1. s \notin simulated /\ simulated' = simulated
    BY <1>0, <1>1 DEF Start, AwaitFails, Resubmit, GiveUp, RunsOnce
  <2>2. task'[s].pc \notin {"complete", "checkpoint"}
    BY <1>1, TaskHops DEF Ahead, Hop, Throws
  <2>3. QED BY <2>1, <2>2 DEF Kept
<1>2. CASE AwaitOk(s)
  BY <1>0, <1>2, TaskHops DEF AwaitOk, Hop, Kept
<1>3. CASE BookOk(s)
  BY <1>0, <1>3, TaskHops DEF BookOk, Ahead, Hop, Kept
<1>4. CASE BookRaises(s)
  <2>1. UNCHANGED <<simulated, status, class>> /\ task[s].pc = "book"
    BY <1>4 DEF BookRaises
  <2>2. CASE Ahead(s, "book")
    BY <2>1, <2>2 DEF Ahead, Hop, Kept
  <2>3. CASE Throws(s, "raised", task[s].retry)
    BY <1>0, <2>1, <2>3 DEF Throws, Hop, Fits, Kept
  <2>4. QED BY <1>4, <2>2, <2>3, TaskHops
<1>5. CASE Complete(s)
  <2>1. UNCHANGED <<simulated, status, class>> /\ task[s].pc = "complete"
    BY <1>5 DEF Complete
  <2>2. CASE Hop(s, "checkpoint", IF task[s].frame = "inner" THEN "tail" ELSE task[s].frame, 0)
    BY <1>0, <2>1, <2>2 DEF Hop, Kept
  <2>3. CASE Throws(s, "raised", task[s].retry)
    <3>1. task[s].frame = "inner" \/ (task[s].frame = "handler" /\ task[s].retry > 0)
      BY <1>0, <2>1 DEF Fits
    <3>2. \/ task'[s].pc = "markJournal" /\ task'[s].frame = "outer"
          \/ task'[s].retry = task[s].retry /\ task[s].retry # 0
      BY <1>0, <2>3, <3>1 DEF Throws, Hop
    <3>3. QED BY <2>1, <3>2 DEF Kept
  <2>4. QED BY <1>5, <2>2, <2>3, TaskHops
<1>6. CASE Checkpoint(s)
  <2>1. UNCHANGED <<simulated, status, class>> /\ task[s].pc = "checkpoint"
    BY <1>6 DEF Checkpoint
  <2>2. task'[s].pc \in {"returned", "aborted"} /\ task'[s].retry = task[s].retry
    BY <1>0, <1>6, <2>1, TaskHops DEF Ahead, Throws, Hop, Fits
  <2>3. QED BY <2>1, <2>2 DEF Kept
<1>7. CASE MarkJournal(s)
  <2>1. /\ simulated' = simulated /\ task[s].pc = "markJournal"
    BY <1>7 DEF MarkJournal
  <2>2. CASE /\ class' = [class EXCEPT ![s] = FailureClass(s)]
             /\ Ahead(s, "markCheckpoint")
    BY <1>0, <2>1, <2>2 DEF Ahead, Hop, Kept, FailureClass
  <2>3. CASE "journal" \in Faults
    BY <2>3 DEF MarksHold, FewSamples
  <2>4. QED BY <1>7, <2>2, <2>3, TaskHops
<1>8. CASE MarkCheckpoint(s)
  <2>1. UNCHANGED <<simulated, status, class>> /\ task[s].pc = "markCheckpoint"
    BY <1>8 DEF MarkCheckpoint
  <2>2. CASE Ahead(s, "report")
    BY <2>1, <2>2 DEF Ahead, Hop, Kept
  <2>3. CASE "checkpoint" \in Faults /\ Throws(s, "aborted", task[s].retry)
    <3>1. /\ task[s].frame = "handler" /\ task'[s].retry = task[s].retry
          /\ task'[s].pc = "aborted"
      BY <1>0, <1>8, <2>1, <2>3, FewAreNotStruckOut DEF Fits, MarksHold, Throws, Hop
    <3>2. QED BY <2>1, <3>1 DEF Kept
  <2>4. QED BY <1>8, <2>2, <2>3, TaskHops
<1>9. CASE Report(s)
  <2>1. UNCHANGED <<simulated, status, class>> /\ task[s].pc = "report"
    BY <1>9 DEF Report
  <2>2. CASE Ahead(s, "returned")
    BY <2>1, <2>2 DEF Ahead, Hop, Kept
  <2>3. CASE "report" \in Faults /\ Throws(s, "raised", task[s].retry)
    <3>1. /\ task[s].frame = "handler" /\ task'[s].retry = task[s].retry
          /\ task'[s].pc = "raised"
      BY <1>0, <2>1, <2>3 DEF Fits, MarksHold, FewSamples, Throws, Hop
    <3>2. QED BY <2>1, <3>1 DEF Kept
  <2>4. QED BY <1>9, <2>2, <2>3, TaskHops
<1>10. QED
  BY <1>1, <1>2, <1>3, <1>4, <1>5, <1>6, <1>7, <1>8, <1>9 DEF Await, Task

LEMMA StepKeepsKeptInv ==
    ASSUME KeptInv, ThreadsInv, FramesFit, NoRerun, StrikesInv, MarksHold, [Next]_vars
    PROVE  KeptInv'
<1>0. TypeOK /\ Untouched /\ Marking /\ \A d \in Samples : Kept(d)
  BY DEF KeptInv, ThreadsInv
<1>1. CASE Main
  BY <1>0, <1>1, MainKeepsMarking, MainKeepsKept DEF KeptInv
<1>2. ASSUME NEW s \in Samples, Await(s) \/ Task(s) PROVE KeptInv'
  <2>1. /\ Start(s) \/ Busy(s)
        /\ \A d \in Samples \ {s} : task'[d] = task[d]
        /\ UNCHANGED <<main, marking, swept>>
    BY <1>0, <1>2, TaskGoesOn DEF mainVars, closingVars, envVars
  <2>2. ASSUME marking # {} PROVE swept
    BY <1>0, <2>1, <2>2 DEF Marking, Start, ThreadsInv, Threads
  <2>3. Marking'
    BY <1>0, <2>1, <2>2 DEF Marking
  <2>4. \A d \in Samples \ {s} :
          /\ status'[d] = status[d] /\ class'[d] = class[d]
          /\ d \in simulated' => d \in simulated
    BY <1>0, <1>2 DEF mainVars, closingVars, jobVars, recordVars, envVars, Await, Task,
         AwaitOk, AwaitFails, Start, BookOk, BookRaises, Complete, Checkpoint, MarkJournal,
         MarkCheckpoint, Report, Resubmit, GiveUp, TypeOK
  <2>5. \A d \in Samples \ {s} : Kept(d)'
    BY <1>0, <2>1, <2>4 DEF Kept
  <2>6. Kept(s)'
    BY <1>0, <1>2, TaskKeepsKept
  <2>7. QED BY <2>3, <2>5, <2>6 DEF KeptInv
<1>3. CASE (~Ended /\ (RequestCancel \/ TogglePause)) \/ UNCHANGED vars
  <2>1. UNCHANGED <<main, marking, swept, task, status, class, simulated>>
    BY <1>3, OtherHops DEF mainVars, closingVars, jobVars, recordVars
  <2>2. QED BY <1>0, <2>1 DEF KeptInv, Marking, Kept
<1>4. QED BY <1>1, <1>2, <1>3 DEF Next

(* When nothing is raised while a bookkeeping failure is recorded, the     *)
(* cached row of a simulation that succeeded is never replaced.            *)
THEOREM CachedRowSurvives == MarksHold => (Spec => CachedSuccessSurvives)
<1> SUFFICES ASSUME MarksHold PROVE Spec => CachedSuccessSurvives
  OBVIOUS
<1>1. Init => KeptInv
  BY DEF Init, KeptInv, Marking, Kept
<1>2. KeptInv /\ ThreadsInv /\ FramesFit /\ NoRerun /\ StrikesInv /\ [Next]_vars => KeptInv'
  BY StepKeepsKeptInv
<1>3. KeptInv /\ ThreadsInv /\ NoRerun /\ [Next]_vars =>
        (\A s \in simulated :
           row[s] = "ok" /\ ~swept /\ task[s].retry = 0 => row'[s] = "ok")
  <2> SUFFICES ASSUME KeptInv, ThreadsInv, NoRerun, [Next]_vars, NEW s \in simulated,
                      row[s] = "ok", ~swept, task[s].retry = 0
               PROVE  row'[s] = "ok"
    OBVIOUS
  <2>0. TypeOK /\ s \in Samples /\ task[s] \in Tasks
    BY DEF ThreadsInv, TypeOK
  <2> USE DEF mainVars, waitVars, closingVars, jobVars, recordVars, envVars
  <2>1. CASE PostStore(s)
    <3>1. ~Busy(s) /\ status[s] = "failed"
      BY <2>0, <2>1 DEF PostStore, KeptInv, Marking, ThreadsInv, Threads
    <3>2. task[s].pc \in {"returned", "aborted", "raised"}
      BY <2>0, <3>1 DEF Busy, Resolved, NoRerun, RunsOnce, Tasks
    <3>3. class[s] = "bookkeeping_error"
      BY <2>0, <3>1, <3>2 DEF KeptInv, Kept
    <3>4. QED BY <2>1, <3>3 DEF PostStore
  <2>2. CASE Main /\ ~PostStore(s)
    BY <2>0, <2>2 DEF Main, SubmitRaises, CloseChunk, CutChunkShort, EndSubmission, Enqueue,
         WaitReturns, Drained, SeeCancel, SeePause, JoinAbort, Join, JoinCancel, SeqRaise,
         SeqCancel, SeqPause, SeqReturn, PostEnd, SubmitOne, SeqStart, Drain, DrainAbort,
         PostCheck, PostStore, TypeOK
  <2>3. ASSUME NEW d \in Samples, Await(d) \/ Task(d) PROVE row'[s] = "ok"
    BY <2>0, <2>3 DEF Await, Task, AwaitOk, AwaitFails, Start, BookOk, BookRaises, Stored,
         Complete, Checkpoint, MarkJournal, MarkCheckpoint, Report, Resubmit, GiveUp, TypeOK
  <2>4. CASE (~Ended /\ (RequestCancel \/ TogglePause)) \/ UNCHANGED vars
    BY <2>4, OtherHops
  <2>5. QED BY <2>1, <2>2, <2>3, <2>4 DEF Next
<1>4. QED
  BY <1>1, <1>2, <1>3, ThreadsAreJoined, Frames, StrikesAreCounted, EveryJobRunsOnce, PTL
  DEF Spec, CachedSuccessSurvives
=============================================================================
