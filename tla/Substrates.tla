----------------------------- MODULE Substrates -----------------------------
(***************************************************************************)
(* What the seven polling executors of executors/ make of their substrate: *)
(* what a submission can come to, what a poll can show of a job, and which *)
(* terminal statuses count as success. A substrate is an outside service,  *)
(* so every table is a set of possible answers.                            *)
(*                                                                         *)
(* The jobs of a substrate are running, completed, failed, interrupted (a  *)
(* spot or preemptible job that lost its machine), killed by a cancel, or  *)
(* removed by one after they had ended.                                    *)
(***************************************************************************)

Substrates == {"aws", "azure", "google", "kubernetes", "nomad", "swarm", "pbs"}

Ended     == {"completed", "failed", "interrupted"}
JobStates == {"running", "killed", "removed"} \union Ended

-----------------------------------------------------------------------------
(* What a submission comes to: "accepted"; "refused", the call raises and  *)
(* there is no job; "orphaned", the answer is lost, the call raises and    *)
(* there is a job; "repeated", the answer is lost, the client submits      *)
(* again and there are two. Staging inputs, signing the payload, pinning   *)
(* the image and the price ceiling may each refuse.                        *)

Once   == {"accepted", "refused", "orphaned"}
Retried == Once \union {"repeated"}

(* SubmitJob has no client token, and boto retries a lost answer.          *)
AwsSubmits        == Retried
(* Only throttling, which is an answer, is retried.                        *)
AzureSubmits      == Once
GoogleSubmits     == Once
KubernetesSubmits == Once
(* A dispatch is retried on a lost connection; each makes a child job.     *)
NomadSubmits      == Retried
SwarmSubmits      == Once
(* qsub is retried on "timeout" and "connection reset".                    *)
PbsSubmits        == Retried

Submits == [aws |-> AwsSubmits, azure |-> AzureSubmits, google |-> GoogleSubmits,
            kubernetes |-> KubernetesSubmits, nomad |-> NomadSubmits,
            swarm |-> SwarmSubmits, pbs |-> PbsSubmits]

-----------------------------------------------------------------------------
(* What one poll of a job in each state can show: "pending", "error" (the  *)
(* probe raises out of the poll loop), or a terminal status.               *)

(* A job that describe_jobs does not list is an error too.                 *)
AwsPoll ==
    [running     |-> {"pending", "error"},
     completed   |-> {"SUCCEEDED", "error"},
     failed      |-> {"FAILED", "error"},
     interrupted |-> {"preempted", "error"},
     killed      |-> {"FAILED", "error"},
     removed     |-> {"error"}]

(* Terminal is an end time. A task whose process never exited by itself    *)
(* has an end time and no exit code.                                       *)
AzurePoll ==
    [running     |-> {"pending", "error"},
     completed   |-> {"exit_0", "error"},
     failed      |-> {"exit_1", "no_exit_code", "error"},
     interrupted |-> {"preempted", "no_exit_code", "error"},
     killed      |-> {"exit_1", "no_exit_code", "error"},
     removed     |-> {"error"}]

(* A kill deletes the job: it is being deleted, and then it is not found.  *)
GooglePoll ==
    [running     |-> {"pending", "error"},
     completed   |-> {"SUCCEEDED", "error"},
     failed      |-> {"FAILED", "error"},
     interrupted |-> {"preempted", "error"},
     killed      |-> {"pending", "error"},
     removed     |-> {"error"}]

(* Probe errors are tolerated. The poll shows the first pod of the Job,    *)
(* which may have failed and been replaced where backoff_limit > 0. A Job  *)
(* that is gone, by a kill or by the TTL after it ended, reads Succeeded   *)
(* if its result can be retrieved or, with no object storage, if the       *)
(* result's local paths exist, and else Failed.                            *)
KubernetesPoll ==
    [running     |-> {"pending", "Failed"},
     completed   |-> {"Succeeded", "Failed", "pending"},
     failed      |-> {"Succeeded", "Failed", "pending"},
     interrupted |-> {"Succeeded", "Failed", "pending"},
     killed      |-> {"Succeeded", "Failed", "pending"},
     removed     |-> {"Succeeded", "Failed", "pending"}]

(* The poll follows one allocation. One that failed or was lost with its   *)
(* node is terminal though Nomad may reschedule the job, which then runs   *)
(* and ends in another; one that was stopped is complete or failed.        *)
(* Waiting for the allocation may raise too.                               *)
NomadPoll ==
    [running     |-> {"pending", "failed", "lost", "error"},
     completed   |-> {"complete", "failed", "lost", "error"},
     failed      |-> {"failed", "lost", "error"},
     interrupted |-> {"failed", "lost", "error"},
     killed      |-> {"complete", "failed", "lost", "error"},
     removed     |-> {"error"}]

(* _get_service_status() turns every error into an empty list of tasks,    *)
(* which is not terminal: a service that was removed is pending for ever.  *)
SwarmPoll ==
    [running     |-> {"pending"},
     completed   |-> {"complete", "pending"},
     failed      |-> {"failed", "pending"},
     interrupted |-> {"failed", "pending"},
     killed      |-> {"pending"},
     removed     |-> {"pending"}]

(* A transient qstat failure is pending, any other is state F; states E, F *)
(* and C are terminal, with exit status -1 while none can be read.         *)
PbsPoll ==
    [running     |-> {"pending", "exit_unknown"},
     completed   |-> {"exit_0", "exit_unknown", "pending"},
     failed      |-> {"exit_1", "exit_unknown", "pending"},
     interrupted |-> {"exit_1", "exit_unknown", "pending"},
     killed      |-> {"exit_1", "exit_unknown", "pending"},
     removed     |-> {"exit_unknown", "pending"}]

Poll == [aws |-> AwsPoll, azure |-> AzurePoll, google |-> GooglePoll,
         kubernetes |-> KubernetesPoll, nomad |-> NomadPoll,
         swarm |-> SwarmPoll, pbs |-> PbsPoll]

-----------------------------------------------------------------------------
(* The statuses _classify() maps to SUCCEEDED; of the others, those whose  *)
(* reason carries a spot marker may be retried. No substrate's poll ends   *)
(* on a status its _classify() finds INDETERMINATE.                        *)

AwsSucceeds        == {"SUCCEEDED"}
AzureSucceeds      == {"exit_0", "no_exit_code"}
GoogleSucceeds     == {"SUCCEEDED"}
KubernetesSucceeds == {"Succeeded"}
NomadSucceeds      == {"complete"}
SwarmSucceeds      == {"complete"}
PbsSucceeds        == {"exit_0"}

Succeeds == [aws |-> AwsSucceeds, azure |-> AzureSucceeds, google |-> GoogleSucceeds,
             kubernetes |-> KubernetesSucceeds, nomad |-> NomadSucceeds,
             swarm |-> SwarmSucceeds, pbs |-> PbsSucceeds]

IsSpotInterruption(status) == status = "preempted"

-----------------------------------------------------------------------------
(* A kill of a running job kills it, or is refused or raises. Deleting the *)
(* Kubernetes Job or the Swarm service works on one that has ended too.    *)
Kills(sub, job) ==
    CASE job = "running" -> {"running", "killed"}
      [] job \in Ended /\ sub \in {"kubernetes", "swarm"} -> {job, "removed"}
      [] OTHER -> {job}
=============================================================================
