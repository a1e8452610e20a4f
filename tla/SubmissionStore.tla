--------------------------- MODULE SubmissionStore ---------------------------
(***************************************************************************)
(* What the result bucket and Batch may show of the submission of a        *)
(* detached campaign (osimflow/s3_campaign.py), whoever submits it. There  *)
(* are no submitters here: each change is decided on what the bucket and   *)
(* Batch hold at that moment, where the code decides on what it has read   *)
(* some time before.                                                       *)
(***************************************************************************)
EXTENDS Naturals

CONSTANTS Samples, MaxGenerations

VARIABLES
    taken,      \* the number of claims, which is the latest generation
    lapsed,     \* generations whose lease has lapsed once
    submitted,  \* generations marked as submitted
    jobs,       \* per sample: the jobs Batch has, g and Again(g) of claim g
    dead,       \* per sample: those that are FAILED
    late,       \* per generation: samples submitted after the next claim
    recorded,   \* per sample: the job recorded for it, 0 for none
    handoff,    \* the handoff record: written or not, and the jobs it names
    passed      \* samples passed over for a pause or a quota

claims == <<taken, lapsed, submitted>>
work   == <<jobs, dead, late>>
store  == <<claims, work, recorded, handoff, passed>>

Generations == 1 .. MaxGenerations
Again(g)    == MaxGenerations + g
Jobs        == 1 .. (2 * MaxGenerations)

Init ==
    /\ taken = 0 /\ lapsed = {} /\ submitted = {} /\ passed = {}
    /\ jobs = [s \in Samples |-> {}] /\ dead = [s \in Samples |-> {}]
    /\ late = [g \in Generations |-> {}]
    /\ recorded = [s \in Samples |-> 0]
    /\ handoff = [written |-> FALSE, jobs |-> [s \in Samples |-> 0]]

(* The next claim, over none or over one whose lease has lapsed.             *)
Claim ==
    /\ taken = 0 \/ taken \in lapsed
    /\ taken < MaxGenerations /\ taken' = taken + 1
    /\ UNCHANGED <<lapsed, submitted, work, recorded, handoff, passed>>

(* The lease of an open claim runs out, or is given back.                    *)
Lapse(g) ==
    /\ g \in (1 .. taken) \ submitted /\ lapsed' = lapsed \union {g}
    /\ UNCHANGED <<taken, submitted, work, recorded, handoff, passed>>

(* A claim is marked as submitted when the handoff record is durable.        *)
Submitted(g) ==
    /\ handoff.written
    /\ g \in 1 .. taken /\ submitted' = submitted \union {g}
    /\ UNCHANGED <<taken, lapsed, work, recorded, handoff, passed>>

(* A job under an open claim, the first of its call or one of the call made  *)
(* again: under the latest claim only for a sample that no job of another    *)
(* claim stands for, as long as none was submitted too late, and under an    *)
(* earlier claim for one sample at most.                                     *)
Submit(s, g) ==
    /\ g \in (1 .. taken) \ submitted
    /\ \E job \in {g, Again(g)} :
         /\ job = Again(g) => g \in jobs[s]
         /\ jobs' = [jobs EXCEPT ![s] = @ \union {job}]
    /\ \/ /\ g = taken /\ late' = late
          /\ \/ jobs[s] \ dead[s] \subseteq {g, Again(g)}
             \/ \E h \in Generations : late[h] # {}
       \/ /\ g # taken /\ late[g] \subseteq {s}
          /\ late' = [late EXCEPT ![g] = {s}]
    /\ UNCHANGED <<claims, dead, recorded, handoff, passed>>

Fail(s, job) ==
    /\ job \in jobs[s] /\ dead' = [dead EXCEPT ![s] = @ \union {job}]
    /\ UNCHANGED <<claims, jobs, late, recorded, handoff, passed>>

(* The first record of a sample stays.                                       *)
Record(s, job) ==
    /\ recorded[s] = 0
    /\ job \in jobs[s] /\ recorded' = [recorded EXCEPT ![s] = job]
    /\ UNCHANGED <<claims, work, handoff, passed>>

PassOver ==
    /\ \E skipped \in SUBSET Samples : passed' = passed \union skipped
    /\ UNCHANGED <<claims, work, recorded, handoff>>

(* The handoff record names a job of every sample that was not passed over.  *)
HandOff ==
    /\ \E named \in [Samples -> Jobs \union {0}] :
         /\ \A s \in Samples \ passed : named[s] \in jobs[s]
         /\ handoff' = [written |-> TRUE, jobs |-> named]
    /\ UNCHANGED <<claims, work, recorded, passed>>

Next ==
    \/ Claim \/ PassOver \/ HandOff
    \/ \E g \in Generations :
         \/ Lapse(g) \/ Submitted(g)
         \/ \E s \in Samples : Submit(s, g)
    \/ \E s \in Samples, job \in Jobs : Fail(s, job) \/ Record(s, job)

Spec == Init /\ [][Next]_store
=============================================================================
