--------------------------- MODULE PollingHandles ---------------------------
(***************************************************************************)
(* executors/base.py: BaseExecutor.submit() registers the handle of every  *)
(* job it submits, PollingHandle.result() polls the job to its end,        *)
(* resubmits a job that lost its spot machine, falls back to on-demand     *)
(* capacity, and keeps one deadline over all of it, while                  *)
(* BaseExecutor.cancel() sweeps the registry and kills what it finds.      *)
(*                                                                         *)
(* Each handle has one call of submit() and one of result(), in a thread   *)
(* of its own; the sweeps are a thread's too. Time is counted in ticks of  *)
(* a poll's sleep. A kill is one step: reading the job's id and calling    *)
(* the substrate are not separated, for a job that is replaced between     *)
(* them has ended. Which substrate the executor is for is chosen in Init.  *)
(***************************************************************************)
EXTENDS Substrates, Integers, FiniteSets

CONSTANTS Handles,
          MaxRetries,  \* executor.max_retries, of spot interruptions
          Fallback,    \* the substrates run with fallback_to_on_demand
          Timeout,     \* ticks, the timeout of result()
          Threshold    \* _LIVE_HANDLE_SWEEP_THRESHOLD

ASSUME HandlesAssumption ==
    /\ IsFiniteSet(Handles)
    /\ MaxRetries \in Nat
    /\ Fallback \subseteq Substrates
    /\ Timeout \in Nat \ {0}
    /\ Threshold \in Nat

VARIABLES
    substrate,
    handle,    \* the handle, and where the thread that calls it is
    local,     \* the local variables of result()
    job,       \* the state of the job the handle names
    stray,     \* how live jobs that no handle names came about (history)
    registry,  \* _live_handles
    todo       \* the handles a sweep has taken and not killed yet

vars == <<substrate, handle, local, job, stray, registry, todo>>

Pcs == {"new", "submitted", "loop", "waiting", "backoff", "onDemand", "ended"}
Mirrors == {"unset", "result", "error"}
MaxSpent == 2 * Timeout + 1  \* the last backoff may pass the timeout

TypeOK ==
    /\ substrate \in Substrates
    /\ handle \in [Handles -> [pc : Pcs, mirror : Mirrors, cancelled : BOOLEAN,
                               spared : BOOLEAN, revived : BOOLEAN]]
    /\ local \in [Handles -> [attempt : 0..MaxRetries, spent : 0..MaxSpent,
                              remaining : 0..Timeout, waited : 0..Timeout,
                              last : BOOLEAN]]
    /\ job \in [Handles -> JobStates \union {"none"}]
    /\ stray \subseteq {"unanswered", "replaced"}
    /\ registry \subseteq Handles
    /\ todo \subseteq Handles

NoLocals == [attempt |-> 0, spent |-> 0, remaining |-> 0, waited |-> 0, last |-> FALSE]

Init ==
    /\ substrate \in Substrates
    /\ handle = [h \in Handles |->
                   [pc |-> "new", mirror |-> "unset", cancelled |-> FALSE,
                    spared |-> FALSE, revived |-> FALSE]]
    /\ local = [h \in Handles |-> NoLocals]
    /\ job = [h \in Handles |-> "none"]
    /\ stray = {} /\ registry = {} /\ todo = {}

At(h, pc) == handle[h].pc = pc
Goes(h, pc) == handle' = [handle EXCEPT ![h].pc = pc]
Local(h, new) == local' = [local EXCEPT ![h] = new]

(* result() returns or raises; mirror is what _future has been set to.     *)
EndsWith(h, mirror) ==
    /\ handle' = [handle EXCEPT ![h].pc = "ended", ![h].mirror = mirror]
    /\ Local(h, NoLocals)

-----------------------------------------------------------------------------
(* A submission for h, after which the thread is at pc if it is accepted.  *)
(* If it raises, the exception leaves submit() or result() and no mirror.  *)

Submission(h, pc, locals) ==
    \E answer \in Submits[substrate] :
        /\ IF answer \in {"accepted", "repeated"}
             THEN /\ handle' = [handle EXCEPT ![h].pc = pc,
                                              ![h].revived = handle[h].cancelled]
                  /\ Local(h, locals)
                  /\ job' = [job EXCEPT ![h] = "running"]
             ELSE /\ EndsWith(h, handle[h].mirror)
                  /\ UNCHANGED job
        /\ stray' = stray
              \union (IF answer \in {"orphaned", "repeated"} THEN {"unanswered"} ELSE {})
              \union (IF job[h] = "running" /\ answer # "refused" THEN {"replaced"} ELSE {})
        /\ UNCHANGED <<substrate, registry, todo>>

DoSubmit(h) ==
    /\ At(h, "new")
    /\ Submission(h, "submitted", NoLocals)

(* A slip the checks must catch: a full registry drops what it holds.      *)
RegisterDropping(h) ==
    /\ At(h, "submitted")
    /\ Goes(h, "loop")
    /\ registry' = IF Cardinality(registry) >= Threshold THEN {h} ELSE registry \union {h}
    /\ UNCHANGED <<substrate, local, job, stray, todo>>

(* _register_handle(), with its pruning of the handles that look done.     *)
Register(h) ==
    /\ At(h, "submitted")
    /\ Goes(h, "loop")
    /\ LET live == registry \union {h} IN
       registry' = IF Cardinality(live) > Threshold
                     THEN {g \in live : handle[g].mirror = "unset"}
                     ELSE live
    /\ UNCHANGED <<substrate, local, job, stray, todo>>

-----------------------------------------------------------------------------
(* result().                                                               *)

(* The top of the loop: what remains of the timeout is for this attempt.   *)
BeginWait(h) ==
    /\ At(h, "loop")
    /\ LET remaining == Timeout - local[h].spent IN
       IF remaining <= 0
         THEN EndsWith(h, "unset")
         ELSE /\ Goes(h, "waiting")
              /\ Local(h, [local[h] EXCEPT !.remaining = remaining, !.waited = 0])
    /\ UNCHANGED <<substrate, job, stray, registry, todo>>

(* What a poll of the job can show.                                        *)
Readings(h) == IF At(h, "waiting") THEN Poll[substrate][job[h]] ELSE {}

(* A slip the checks must catch: the loop sleeps on, whatever remains.     *)
PollsOnForEver(h) ==
    /\ "pending" \in Readings(h)
    /\ UNCHANGED vars

(* poll_until_terminal(): the deadline is looked at after each poll.       *)
PollsOn(h) ==
    /\ "pending" \in Readings(h)
    /\ IF local[h].waited >= local[h].remaining
         THEN EndsWith(h, "error")
         ELSE /\ Local(h, [local[h] EXCEPT !.waited = @ + 1, !.spent = @ + 1])
              /\ UNCHANGED handle
    /\ UNCHANGED <<substrate, job, stray, registry, todo>>

(* A slip the checks must catch: an error of the poll counts as the job's, *)
(* and the job is submitted again.                                         *)
PollFailsRetried(h) ==
    /\ "error" \in Readings(h)
    /\ IF local[h].attempt < MaxRetries THEN Goes(h, "backoff") /\ UNCHANGED local
                                       ELSE EndsWith(h, "error")
    /\ UNCHANGED <<substrate, job, stray, registry, todo>>

PollFails(h) ==
    /\ "error" \in Readings(h)
    /\ EndsWith(h, "error")
    /\ UNCHANGED <<substrate, job, stray, registry, todo>>

(* Retrieving the result may raise, and that error is not mirrored.        *)
PollSucceeds(h) ==
    /\ Readings(h) \intersect Succeeds[substrate] # {}
    /\ \E mirror \in {"result", "unset"} : EndsWith(h, mirror)
    /\ UNCHANGED <<substrate, job, stray, registry, todo>>

(* A failure that is no spot interruption, or any after the fallback.      *)
JobFailed(h) ==
    /\ \E status \in Readings(h) \ ({"pending", "error"} \union Succeeds[substrate]) :
          local[h].last \/ ~IsSpotInterruption(status)
    /\ EndsWith(h, "error")
    /\ UNCHANGED <<substrate, job, stray, registry, todo>>

SpotInterrupted(h) ==
    /\ \E status \in Readings(h) : IsSpotInterruption(status)
    /\ ~local[h].last
    /\ IF local[h].attempt = MaxRetries /\ substrate \notin Fallback
         THEN EndsWith(h, "unset")
         ELSE /\ Goes(h, IF local[h].attempt < MaxRetries THEN "backoff" ELSE "onDemand")
              /\ UNCHANGED local
    /\ UNCHANGED <<substrate, job, stray, registry, todo>>

(* The backoff, which nothing clamps, and then _resubmit().                *)
Resubmit(h) ==
    /\ At(h, "backoff")
    /\ \E slept \in {0, 1} :
          Submission(h, "loop", [local[h] EXCEPT !.attempt = @ + 1, !.spent = @ + slept])

(* _submit_on_demand(), after which `remaining' is what it was for the     *)
(* wait before.                                                            *)
FallBack(h) ==
    /\ At(h, "onDemand")
    /\ Submission(h, "waiting", [local[h] EXCEPT !.waited = 0, !.last = TRUE])

-----------------------------------------------------------------------------
(* BaseExecutor.cancel().                                                  *)

BeginSweep ==
    /\ registry # {} /\ todo = {}
    /\ todo' = registry
    /\ registry' = {}
    /\ UNCHANGED <<substrate, handle, local, job, stray>>

(* spared: the substrate refused the kill, or the call raised.             *)
Swept(h, new) ==
    handle' = [handle EXCEPT ![h].cancelled = TRUE, ![h].spared = (new = "running")]

(* A slip the checks must catch: the sweep passes over a job it believes   *)
(* is between two attempts.                                                *)
KillWaiting(h) ==
    /\ h \in todo
    /\ todo' = todo \ {h}
    /\ IF At(h, "waiting")
         THEN \E new \in Kills(substrate, job[h]) :
                /\ job' = [job EXCEPT ![h] = new]
                /\ Swept(h, new)
         ELSE /\ Swept(h, "killed")
              /\ UNCHANGED job
    /\ UNCHANGED <<substrate, local, stray, registry>>

(* Handle.cancel() and _cancel_job() of the next handle.                   *)
Kill(h) ==
    /\ h \in todo
    /\ todo' = todo \ {h}
    /\ \E new \in Kills(substrate, job[h]) :
          /\ job' = [job EXCEPT ![h] = new]
          /\ Swept(h, new)
    /\ UNCHANGED <<substrate, local, stray, registry>>

(* The substrate: spot and preemptible capacity is what three of them sell.*)
JobEnds(h) ==
    /\ job[h] = "running"
    /\ \E new \in Ended :
          /\ new = "interrupted" => substrate \in {"aws", "azure", "google"}
          /\ job' = [job EXCEPT ![h] = new]
    /\ UNCHANGED <<substrate, handle, local, stray, registry, todo>>

-----------------------------------------------------------------------------
Result(h) == BeginWait(h) \/ PollsOn(h) \/ PollFails(h) \/ PollSucceeds(h) \/ JobFailed(h)
             \/ SpotInterrupted(h) \/ Resubmit(h) \/ FallBack(h)

Next ==
    \/ \E h \in Handles : DoSubmit(h) \/ Register(h) \/ Result(h) \/ Kill(h) \/ JobEnds(h)
    \/ BeginSweep

Spec == Init /\ [][Next]_vars

(* The threads of result() run, clocks advance, and calls return.          *)
FairSpec == Spec /\ \A h \in Handles : WF_vars(Result(h))

-----------------------------------------------------------------------------
(* A live job is known to the registry, to the sweep that took it from     *)
(* there, or to the call of submit() about to register it; or a sweep has  *)
(* dealt with it; or its result() gave up on it, by its deadline, on an    *)
(* error of a poll or on a failure that was not the job's end, after which *)
(* the pruning may forget it, live as it is.                               *)
NoJobIsForgotten ==
    \A h \in Handles : job[h] = "running" =>
        \/ h \in registry \union todo
        \/ At(h, "submitted")
        \/ handle[h].cancelled
        \/ handle[h].mirror = "error"

(* The job of a handle the sweep has dealt with is dead, unless the kill   *)
(* was refused or raised, or result() resubmitted after it: cancel() asks  *)
(* once in the life of a handle, and _resubmit() does not look.            *)
SweepKills ==
    \A h \in Handles : handle[h].cancelled /\ job[h] = "running" =>
        handle[h].spared \/ handle[h].revived

(* No handle has two jobs running, unless the answer to a submission was   *)
(* lost: a job is replaced only once it has ended, in the substrate and    *)
(* not just in what a poll showed.                                         *)
OneJobRuns == "replaced" \notin stray

(* The deadline is shared by the retries: whatever the attempts and their  *)
(* backoffs, no wait goes past the timeout, except the one after the       *)
(* fallback. That one is given what remained before the wait it follows,   *)
(* so that result() may take twice its timeout, and no more.               *)
AwaitIsBounded ==
    \A h \in Handles : At(h, "waiting") =>
        local[h].spent <= (IF local[h].last THEN 2 * Timeout ELSE Timeout)

(* result() with a timeout ends, whatever the substrate answers.           *)
ResultEnds == \A h \in Handles : At(h, "loop") ~> At(h, "ended")
=============================================================================
