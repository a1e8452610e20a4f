--------------------------- MODULE DetachedSubmit ---------------------------
(* Detached submission of a campaign through the result bucket               *)
(* (osimflow/s3_campaign.py and the detach part of campaign/steps.py):       *)
(* invocations of `osimflow run --detach-s3` on any machine, the claims they *)
(* take in the bucket, the jobs they submit, and the handoff record.         *)
(*                                                                           *)
(* Every call on the bucket and on Batch is a step of its own; a listing and *)
(* the write that follows it are two steps. The bucket and Batch answer      *)
(* consistently (a write that returned is seen by the next listing). A       *)
(* generation submits a sample by one call of SubmitJob at most. That call   *)
(* has no client token and the SDK repeats it when its answer is lost, so it *)
(* may make two jobs: g, and Again(g). Two stand for the ten attempts.       *)
EXTENDS DetachedCampaign

CONSTANTS
    Invocations,    \* where the command is run; each may run it again
    MaxGenerations  \* bound on the claims of a campaign

ASSUME BoundsAssumption == MaxGenerations \in Nat \ {0}

Generations == 1 .. MaxGenerations

Again(g)   == MaxGenerations + g
Jobs       == 1 .. (2 * MaxGenerations)
MaybeJob   == Jobs \union {0}
ClaimOf(j) == IF j \in Generations THEN j ELSE j - MaxGenerations

VARIABLES
    run,         \* per invocation: where it is and what it holds
    latest,      \* the highest generation in <campaign>/_claims
    claimState,  \* per generation: "submitting" or "submitted"
    lease,       \* per generation: "fresh", "lapsed", or "revived" after a lapse
    record,      \* <campaign>/_jobs: the job recorded for a sample, 0 for none
    made,        \* the jobs Batch has for a sample
    failed,      \* those that are FAILED
    handoff,     \* <campaign>/_handoff.json: written or not, and its job ids
    late,        \* per generation: samples submitted after it was superseded
    passed       \* samples an invocation passed over for a pause or a quota

claimVars  == <<latest, claimState, lease>>
jobVars    == <<record, made, failed, late>>
bucketVars == <<claimVars, jobVars, handoff, passed>>
vars       == <<run, bucketVars, faults>>

Ends == {"detached", "already", "refused", "failed", "crashed"}
Steps == {"check", "list", "read", "create", "load", "loop", "look", "submit",
          "record", "handoff", "claimList", "claimPut"}

Gone == [s \in Samples |-> 0]

Runs == [at : {"idle"} \union Ends \union Steps,
         seen : 0 .. MaxGenerations,                \* what the listing showed
         gen : 0 .. MaxGenerations,                 \* the claim held, 0 for none
         todo : SUBSET Samples,
         sid : Samples,                             \* the sample in hand
         job : MaybeJob,                            \* and its job
         known : [Samples -> MaybeJob],             \* recorded_jobs
         mine : [Samples -> MaybeJob],              \* detached_jobs
         write : {"none", "renew", "finish", "release"}]

Idle == [at |-> "idle", seen |-> 0, gen |-> 0, todo |-> Samples,
         sid |-> CHOOSE s \in Samples : TRUE, job |-> 0,
         known |-> Gone, mine |-> Gone, write |-> "none"]

Init ==
    /\ run = [i \in Invocations |-> Idle]
    /\ latest = 0
    /\ claimState = [g \in Generations |-> "submitting"]
    /\ lease = [g \in Generations |-> "fresh"]
    /\ record = Gone
    /\ made = [s \in Samples |-> {}]
    /\ failed = [s \in Samples |-> {}]
    /\ handoff = [written |-> FALSE, jobs |-> Gone]
    /\ late = [g \in Generations |-> {}]
    /\ passed = {}
    /\ faults = 0

Busy(i)      == run[i].at \in Steps
Live(g)      == lease[g] # "lapsed"
Standing(s)  == made[s] \ failed[s]
At(i, place) == run[i].at = place

Moves(i, r)  == run' = [run EXCEPT ![i] = r]
Goes(i, place) == Moves(i, [run[i] EXCEPT !.at = place])
Ended(outcome) == [Idle EXCEPT !.at = outcome]
EndsAs(i, outcome) == Moves(i, Ended(outcome))
(* An exception leaves the step: run()'s finally block releases the claim,   *)
(* unless it is marked submitted in memory or there is none.                 *)
Raised(i) ==
    IF run[i].gen = 0 \/ run[i].write = "finish"
    THEN Ended("failed")
    ELSE [run[i] EXCEPT !.at = "claimList", !.write = "release"]

-----------------------------------------------------------------------------
(* claim_submission.                                                         *)

(* The command is run, for the first time or again.                          *)
Start(i) ==
    /\ ~Busy(i)
    /\ Moves(i, [Idle EXCEPT !.at = "check"])
    /\ UNCHANGED <<bucketVars, faults>>

Check(i) ==
    /\ At(i, "check")
    /\ IF handoff.written THEN EndsAs(i, "already") ELSE Goes(i, "list")
    /\ UNCHANGED <<bucketVars, faults>>

ListClaims(i) ==
    /\ At(i, "list")
    /\ Moves(i, [run[i] EXCEPT !.seen = latest,
                               !.at = IF latest = 0 THEN "create" ELSE "read"])
    /\ UNCHANGED <<bucketVars, faults>>

(* A slip the checks must catch: a live lease does not stop a takeover.      *)
TakesAnyLease(g) == IF claimState[g] = "submitted" THEN "already" ELSE "create"

(* Another: a lapsed lease is not taken over.                                *)
NeverTakesOver(g) == IF claimState[g] = "submitted" THEN "already" ELSE "refused"

Verdict(g) ==
    IF claimState[g] = "submitted" THEN "already"
    ELSE IF Live(g) THEN "refused" ELSE "create"

ReadClaim(i) ==
    /\ At(i, "read")
    /\ LET verdict == Verdict(run[i].seen)
       IN  IF verdict = "create" THEN Goes(i, "create") ELSE EndsAs(i, verdict)
    /\ UNCHANGED <<bucketVars, faults>>

(* put_if_absent of the next generation: created, or somebody else's; or the *)
(* call fails, before or after the object was created.                       *)
CreateClaim(i) ==
    /\ At(i, "create")
    /\ \/ /\ latest = run[i].seen /\ latest < MaxGenerations
          /\ latest' = latest + 1
          /\ \/ /\ Moves(i, [run[i] EXCEPT !.seen = 0, !.gen = latest + 1,
                                         !.at = "load"])
                /\ UNCHANGED faults
             \/ /\ EndsAs(i, "failed")
                /\ Fault
       \/ /\ latest # run[i].seen
          /\ EndsAs(i, "refused")
          /\ UNCHANGED <<latest, faults>>
    /\ UNCHANGED <<claimState, lease, jobVars, handoff, passed>>

-----------------------------------------------------------------------------
(* The submission loop of step_run_openstudio_sim.                           *)

LoadRecords(i) ==
    /\ At(i, "load")
    /\ Moves(i, [run[i] EXCEPT !.known = record, !.at = "loop"])
    /\ UNCHANGED <<bucketVars, faults>>

(* A slip the checks must catch: a recorded sample is skipped, and is gone.  *)
SkipsRecorded(r, s) == [r EXCEPT !.todo = @ \ {s}]

Adopts(r, s) == [r EXCEPT !.todo = @ \ {s}, !.mine[s] = r.known[s]]

(* A slip the checks must catch: only the third claim looks for jobs.        *)
ResumedLate(g) == g > 2

Resumed(g) == g > 1

NextSample(i) ==
    /\ At(i, "loop")
    /\ \E s \in run[i].todo :
         Moves(i, IF run[i].known[s] # 0 THEN Adopts(run[i], s)
                  ELSE [run[i] EXCEPT !.sid = s,
                            !.at = IF Resumed(run[i].gen) THEN "look" ELSE "submit"])
    /\ UNCHANGED <<bucketVars, faults>>

(* A pause passes over the rest of the chunk, and of the campaign unless it  *)
(* is lifted in between; an exceeded quota over the rest of the campaign.    *)
PassOver(i) ==
    /\ At(i, "loop")
    /\ \E skipped \in SUBSET run[i].todo :
         /\ skipped # {}
         /\ passed' = passed \union skipped
         /\ Moves(i, [run[i] EXCEPT !.todo = @ \ skipped])
    /\ UNCHANGED <<claimVars, jobVars, handoff, faults>>

(* A slip the checks must catch: the claim is finished, the handoff is not   *)
(* written.                                                                  *)
FinishesFirst(i) ==
    /\ At(i, "loop") /\ run[i].todo = {}
    /\ Moves(i, [run[i] EXCEPT !.write = "finish", !.at = "claimList"])
    /\ UNCHANGED <<bucketVars, faults>>

LoopEnds(i) ==
    /\ At(i, "loop") /\ run[i].todo = {}
    /\ Goes(i, "handoff")
    /\ UNCHANGED <<bucketVars, faults>>

(* _find_existing_job: any job of that name that is not FAILED.              *)
FindExistingJob(i) ==
    /\ At(i, "look")
    /\ \/ \E job \in Standing(run[i].sid) :
            Moves(i, [run[i] EXCEPT !.job = job, !.at = "record"])
       \/ Standing(run[i].sid) = {} /\ Goes(i, "submit")
    /\ UNCHANGED <<bucketVars, faults>>

(* The job that a call of SubmitJob creates next.                            *)
NewJob(s, g) == IF g \in made[s] THEN Again(g) ELSE g

(* SubmitJob creates a job and answers; or the answer is lost, and the call  *)
(* raises, or the SDK makes it again.                                        *)
SubmitJob(i) ==
    LET r   == run[i]
        job == NewJob(r.sid, r.gen)
    IN
    /\ At(i, "submit")
    /\ made' = [made EXCEPT ![r.sid] = @ \union {job}]
    /\ late' = IF r.gen = latest THEN late ELSE [late EXCEPT ![r.gen] = @ \union {r.sid}]
    /\ \/ /\ Moves(i, [r EXCEPT !.job = job, !.at = "record"])
          /\ UNCHANGED faults
       \/ /\ Moves(i, Raised(i))
          /\ Fault
       \/ /\ job = r.gen
          /\ UNCHANGED run
          /\ Fault
    /\ UNCHANGED <<claimVars, record, failed, handoff, passed>>

FirstRecorded(s, job) == IF record[s] = 0 THEN [record EXCEPT ![s] = job] ELSE record

(* record_job: the first record of a sample wins. The claim is renewed next. *)
RecordJob(i) ==
    LET r == run[i] IN
    /\ At(i, "record")
    /\ record' = FirstRecorded(r.sid, r.job)
    /\ Moves(i, [r EXCEPT !.mine[r.sid] = r.job, !.job = 0, !.todo = @ \ {r.sid},
                          !.write = "renew", !.at = "claimList"])
    /\ UNCHANGED <<claimVars, made, failed, late, handoff, passed, faults>>

(* write_handoff. It asks nothing of the claim.                              *)
WriteHandoff(i) ==
    /\ At(i, "handoff")
    /\ handoff' = [written |-> TRUE, jobs |-> run[i].mine]
    /\ Moves(i, [run[i] EXCEPT !.write = "finish", !.at = "claimList"])
    /\ UNCHANGED <<claimVars, jobVars, passed, faults>>

-----------------------------------------------------------------------------
(* _write_claim, for renew_claim, finish_claim and release_claim.            *)

(* A slip the checks must catch: a superseded submitter is not told.         *)
NeverSuperseded(i) == FALSE

Superseded(i) == latest # run[i].gen

(* release_claim takes the error of a superseded claim, the others raise it. *)
ListBeforeWrite(i) ==
    /\ At(i, "claimList")
    /\ IF ~Superseded(i) THEN Goes(i, "claimPut")
       ELSE IF run[i].write = "release" THEN EndsAs(i, "failed")
       ELSE Moves(i, Raised(i))
    /\ UNCHANGED <<bucketVars, faults>>

Renewed(g) == [lease EXCEPT ![g] = IF @ = "lapsed" THEN "revived" ELSE @]

PutClaim(i) ==
    LET r == run[i] IN
    /\ At(i, "claimPut")
    /\ \/ /\ r.write = "renew"
          /\ lease' = Renewed(r.gen)
          /\ Goes(i, "loop")
          /\ UNCHANGED claimState
       \/ /\ r.write = "finish"
          /\ claimState' = [claimState EXCEPT ![r.gen] = "submitted"]
          /\ EndsAs(i, "detached")
          /\ UNCHANGED lease
       \/ /\ r.write = "release"
          /\ lease' = [lease EXCEPT ![r.gen] = "lapsed"]
          /\ EndsAs(i, "failed")
          /\ UNCHANGED claimState
    /\ UNCHANGED <<latest, jobVars, handoff, passed, faults>>

-----------------------------------------------------------------------------
(* Faults and the environment.                                               *)

(* A call on the bucket or on Batch raises and has done nothing.             *)
CallFails(i) ==
    /\ Busy(i) /\ run[i].at # "loop"
    /\ Fault
    /\ IF run[i].write = "release" THEN EndsAs(i, "failed") ELSE Moves(i, Raised(i))
    /\ UNCHANGED bucketVars

Crash(i) ==
    /\ Busy(i)
    /\ Fault
    /\ EndsAs(i, "crashed")
    /\ UNCHANGED bucketVars

HeldBy(g, i) == Busy(i) /\ run[i].gen = g

(* The lease of a claim nobody holds any more runs out.                      *)
LeaseLapses(g) ==
    /\ g <= latest /\ Live(g) /\ claimState[g] = "submitting"
    /\ \A i \in Invocations : ~HeldBy(g, i)
    /\ lease' = [lease EXCEPT ![g] = "lapsed"]
    /\ UNCHANGED <<run, latest, claimState, jobVars, handoff, passed, faults>>

(* A submitter that is still at work is slower than its lease.               *)
LeaseOutrun(g) ==
    /\ g <= latest /\ Live(g) /\ claimState[g] = "submitting"
    /\ \E i \in Invocations : HeldBy(g, i)
    /\ Fault
    /\ lease' = [lease EXCEPT ![g] = "lapsed"]
    /\ UNCHANGED <<run, latest, claimState, jobVars, handoff, passed>>

JobFails(s) ==
    /\ \E job \in Standing(s) : failed' = [failed EXCEPT ![s] = @ \union {job}]
    /\ Fault
    /\ UNCHANGED <<run, claimVars, record, made, late, handoff, passed>>

Step(i) ==
    \/ Check(i) \/ ListClaims(i) \/ ReadClaim(i) \/ CreateClaim(i) \/ LoadRecords(i)
    \/ NextSample(i) \/ PassOver(i) \/ LoopEnds(i) \/ FindExistingJob(i) \/ SubmitJob(i)
    \/ RecordJob(i) \/ WriteHandoff(i) \/ ListBeforeWrite(i) \/ PutClaim(i)

Next ==
    \/ \E i \in Invocations : Start(i) \/ Step(i) \/ CallFails(i) \/ Crash(i)
    \/ \E g \in Generations : LeaseLapses(g) \/ LeaseOutrun(g)
    \/ \E s \in Samples : JobFails(s)

Spec == Init /\ [][Next]_vars

(* Justified by: the machines that run, the clock, and the documented use,   *)
(* "re-running the same command after the lease lapses".                     *)
FairSpec ==
    /\ Spec
    /\ \A i \in Invocations : WF_vars(Start(i)) /\ WF_vars(Step(i))
    /\ \A g \in Generations : WF_vars(LeaseLapses(g))

-----------------------------------------------------------------------------
(* The values of every variable.                                             *)
TypeOK ==
    /\ run \in [Invocations -> Runs]
    /\ latest \in 0 .. MaxGenerations
    /\ claimState \in [Generations -> {"submitting", "submitted"}]
    /\ lease \in [Generations -> {"fresh", "lapsed", "revived"}]
    /\ record \in [Samples -> MaybeJob]
    /\ made \in [Samples -> SUBSET Jobs]
    /\ failed \in [Samples -> SUBSET Jobs]
    /\ handoff \in [written : BOOLEAN, jobs : [Samples -> MaybeJob]]
    /\ late \in [Generations -> SUBSET Samples]
    /\ passed \in SUBSET Samples
    /\ faults \in 0 .. MaxFaults

(* "Exactly one process owns a generation", and a claim is taken over only   *)
(* once its lease has lapsed, however late the taker acts on what it read:   *)
(* claim_submission.                                                         *)
LeaseIsRespected ==
    /\ \A i, j \in Invocations :
         Busy(i) /\ Busy(j) /\ i # j /\ run[i].gen # 0 => run[i].gen # run[j].gen
    /\ \A g \in Generations : g < latest => lease[g] # "fresh"

(* Jobs of a sample submitted under two claims stand only where a superseded *)
(* submitter submitted one: a crash, a failed call or a takeover alone, and  *)
(* jobs that a repeated call has doubled, make no other claim submit the     *)
(* sample again (reuse_existing_job, recorded_jobs). Two jobs of the one     *)
(* call may stand.                                                           *)
OneClaimPerSample ==
    (\A g \in Generations : late[g] = {}) =>
        \A s \in Samples : \A j, k \in Standing(s) : ClaimOf(j) = ClaimOf(k)

(* Whoever is told that the campaign was submitted finds the handoff record: *)
(* finish_claim comes "after the handoff record is durable".                 *)
SubmittedIsHandedOff ==
    /\ \A g \in Generations : claimState[g] = "submitted" => handoff.written
    /\ \A i \in Invocations : run[i].at \in {"detached", "already"} => handoff.written

(* The handoff names a job Batch has for every sample, whoever submitted it, *)
(* but for the samples a pause or a quota passed over (detached_jobs).       *)
HandoffNamesJobs ==
    handoff.written =>
        \A s \in Samples \ passed : handoff.jobs[s] \in made[s]

(* Whatever an invocation has decided on an old listing, the bucket and      *)
(* Batch change as if it had been decided on their state at that moment:     *)
(* claims only over a lapsed one, jobs only under an open claim, under a     *)
(* second claim of a sample only after a late one, by at most one call too   *)
(* late per claim, "a superseded owner notices on its next renew and aborts".*)
Store == INSTANCE SubmissionStore WITH
    taken     <- latest,
    lapsed    <- {g \in Generations : lease[g] # "fresh"},
    submitted <- {g \in Generations : claimState[g] = "submitted"},
    jobs      <- made,
    dead      <- failed,
    recorded  <- record

ImplementsStore == Store!Spec

(* Re-running the command gets the campaign handed off, after any number of  *)
(* crashes, failed calls and takeovers that come to an end.                  *)
EventuallyHandedOff == <>handoff.written

=============================================================================
