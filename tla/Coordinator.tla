---------------------------- MODULE Coordinator ----------------------------
(***************************************************************************)
(* The Coordinator of api/coordinator.py: a campaign is handed off by the  *)
(* CLI, submitted as an AWS Batch array job, moved to aggregating when     *)
(* Batch says that every child ended, and aggregated from what the workers *)
(* left in object storage. Its records live in memory; the handlers have   *)
(* no await in them and run one at a time, and only the polling fallback   *)
(* sleeps between its attempts.                                            *)
(*                                                                         *)
(* Around it: the runs of one `osimflow run --detach` command in one       *)
(* outdir, Batch (external), and the publishing of results in work.py,     *)
(* whose reports to the Coordinator may arrive late or never. Campaigns of *)
(* other commands have records of their own and are left out, as are       *)
(* permissions, buckets, presigned URLs and the contents of results. A     *)
(* read of the storage by the aggregation is one step.                     *)
(***************************************************************************)
EXTENDS Naturals, Sequences

CONSTANTS Runs,          \* runs of the CLI command
          Samples,       \* of the campaign
          ArraySizes,    \* the sets of samples an array_size covers
          MaxCampaigns,  \* bounds the campaigns created
          MaxSubmits,    \* bounds the array jobs
          MaxRestarts,   \* bounds the restarts of the Coordinator
          MaxAttempts    \* max_attempts of the polling fallback

ASSUME CoordinatorAssumption ==
    /\ ArraySizes \subseteq SUBSET Samples
    /\ \A covered \in ArraySizes : covered # {}
    /\ {MaxCampaigns, MaxSubmits, MaxRestarts} \subseteq Nat
    /\ MaxAttempts \in Nat \ {0}

VARIABLES
    campaigns,  \* _campaigns
    keyed,      \* the campaign of the command's key in _idempotency_keys, or 0
    created,    \* how many campaigns were ever created; their ids
    restarts,
    cli,        \* the runs of the command
    handoff,    \* the campaign in the outdir's handoff record, or 0
    poller,     \* poll_array_job_to_completion()
    jobs,       \* the array jobs of Batch, oldest first
    manifests,  \* the status in _manifest.json, by campaign and sample
    kpis,       \* the samples whose kpis.json is stored, by campaign
    reports     \* PATCH requests of workers that have not arrived

server == <<campaigns, keyed, created, restarts>>
storage == <<manifests, kpis>>
vars == <<server, cli, handoff, poller, jobs, storage, reports>>

Ids == 1..MaxCampaigns
Arrays == 1..MaxSubmits
NONE == 0

ManifestStatuses == {"completed", "failed"}
Statuses == {"pending", "aggregating", "complete"} \union ManifestStatuses
\* _TERMINAL_OR_AGGREGATING; "succeeded", which nothing here writes, is left out.
TerminalOrAggregating == {"aggregating", "complete", "completed", "failed"}

ABSENT == [status |-> "absent"]
\* submits and told are history: array jobs recorded, completions notified.
Record == [status : Statuses, array : Arrays \union {NONE}, rows : SUBSET Samples,
           submits : Nat, told : Nat]

\* "ended" is SUCCEEDED or FAILED: only their sum is looked at.
Children == {"none", "running", "stored", "published", "ended"}
Job == [campaign : Ids, child : [Samples -> Children]]
Idle == [pc |-> "idle"]
Polling == [pc : {"polling"}, id : Ids, array : Arrays, left : 1..MaxAttempts]

TypeOK ==
    /\ campaigns \in [Ids -> Record \union {ABSENT}]
    /\ keyed \in Ids \union {NONE}
    /\ created \in 0..MaxCampaigns
    /\ restarts \in 0..MaxRestarts
    /\ cli \in [Runs -> [pc : {"new"}] \union [pc : {"answered"}, id : Ids]]
    /\ handoff \in Ids \union {NONE}
    /\ poller \in Polling \union {Idle}
    /\ jobs \in Seq(Job)
    /\ Len(jobs) <= MaxSubmits
    /\ manifests \in [Ids -> [Samples -> ManifestStatuses \union {"none"}]]
    /\ kpis \in [Ids -> SUBSET Samples]
    /\ reports \subseteq Ids \X ManifestStatuses

Init ==
    /\ campaigns = [id \in Ids |-> ABSENT] /\ keyed = NONE
    /\ created = 0 /\ restarts = 0
    /\ cli = [r \in Runs |-> [pc |-> "new"]] /\ handoff = NONE
    /\ poller = Idle
    /\ jobs = <<>>
    /\ manifests = [id \in Ids |-> [s \in Samples |-> "none"]]
    /\ kpis = [id \in Ids |-> {}]
    /\ reports = {}

Known(id) == campaigns[id] # ABSENT

-----------------------------------------------------------------------------
(* The handoff. A run that fails may be repeated, so it is "new" again.    *)

CliGoes(r, where) == cli' = [cli EXCEPT ![r] = where]

Fresh == [status |-> "pending", array |-> NONE, rows |-> {}, submits |-> 0, told |-> 0]

\* A slip the checks must catch: the key of a new campaign is not remembered.
NewCampaignUnkeyed(id) ==
    /\ created < MaxCampaigns /\ id = created + 1
    /\ campaigns' = [campaigns EXCEPT ![id] = Fresh]
    /\ created' = id
    /\ UNCHANGED keyed

NewCampaign(id) ==
    /\ created < MaxCampaigns /\ id = created + 1
    /\ campaigns' = [campaigns EXCEPT ![id] = Fresh]
    /\ created' = id
    /\ keyed' = id

\* _perform_detach_handoff() with coordinator_handoff(): a record in the outdir
\* ends the command before any request; the same key gets the same campaign. A
\* request that is refused or lost changes nothing.
Handoff(r) ==
    /\ cli[r].pc = "new" /\ handoff = NONE
    /\ \/ /\ keyed # NONE
          /\ CliGoes(r, [pc |-> "answered", id |-> keyed])
          /\ UNCHANGED <<campaigns, keyed, created>>
       \/ /\ keyed = NONE
          /\ NewCampaign(created + 1)
          /\ CliGoes(r, [pc |-> "answered", id |-> created + 1])
    /\ UNCHANGED <<restarts, handoff, poller, jobs, storage, reports>>

\* The answer is lost, or the CLI dies before it writes the record.
AnswerLost(r) ==
    /\ cli[r].pc = "answered"
    /\ CliGoes(r, [pc |-> "new"])
    /\ UNCHANGED <<server, handoff, poller, jobs, storage, reports>>

CliSaves(r) ==
    /\ cli[r].pc = "answered"
    /\ handoff' = cli[r].id
    /\ CliGoes(r, [pc |-> "new"])
    /\ UNCHANGED <<server, poller, jobs, storage, reports>>

\* Everything the process keeps is in memory.
Restart ==
    /\ restarts < MaxRestarts /\ restarts' = restarts + 1
    /\ campaigns' = [id \in Ids |-> ABSENT]
    /\ keyed' = NONE
    /\ poller' = Idle
    /\ UNCHANGED <<created, cli, handoff, jobs, storage, reports>>

-----------------------------------------------------------------------------
(* The array job and its children.                                         *)

RecordGoes(id, new) == campaigns' = [campaigns EXCEPT ![id] = new]

\* submit_campaign_array_job() asks nothing of the campaign's state, and does
\* not compare array_size with the samples. When Batch accepts the job and the
\* answer does not arrive, the array runs and the record does not change. A
\* submission that Batch does not see changes nothing.
Submit(id, covered) ==
    /\ Known(id) /\ Len(jobs) < MaxSubmits
    /\ jobs' = Append(jobs, [campaign |-> id,
                             child |-> [s \in Samples |-> IF s \in covered THEN "running"
                                                                           ELSE "none"]])
    /\ \/ RecordGoes(id, [campaigns[id] EXCEPT !.status = "pending",
                                               !.array = Len(jobs) + 1, !.submits = @ + 1])
       \/ UNCHANGED campaigns
    /\ UNCHANGED <<keyed, created, restarts, cli, handoff, poller, storage, reports>>

ChildGoes(a, s, where) == jobs' = [jobs EXCEPT ![a].child[s] = where]
Child(a, s) == jobs[a].child[s]

UploadKpis(a, s) ==
    /\ Child(a, s) = "running"
    /\ kpis' = [kpis EXCEPT ![jobs[a].campaign] = @ \union {s}]
    /\ ChildGoes(a, s, "stored")
    /\ UNCHANGED <<server, cli, handoff, poller, manifests, reports>>

\* The manifest comes last and says what became of kpis.json: it is stored, or
\* there is none or its upload failed. The report of it to the Coordinator is
\* best effort.
WriteManifest(a, s) ==
    /\ Child(a, s) \in {"running", "stored"}
    /\ LET id == jobs[a].campaign
           status == IF Child(a, s) = "stored" THEN "completed" ELSE "failed" IN
       /\ manifests' = [manifests EXCEPT ![id][s] = status]
       /\ reports' \in {reports, reports \union {<<id, status>>}}
    /\ ChildGoes(a, s, "published")
    /\ UNCHANGED <<server, cli, handoff, poller, kpis>>

\* A child is killed at any point; and it may succeed without a manifest,
\* because extract_kpis goes on when the publishing raises.
ChildEnds(a, s) ==
    /\ Child(a, s) \notin {"none", "ended"}
    /\ ChildGoes(a, s, "ended")
    /\ UNCHANGED <<server, cli, handoff, poller, storage, reports>>

\* update_coordinator_campaign_status(): the status of a sample becomes the
\* status of its campaign.
Patch(id, status) ==
    /\ <<id, status>> \in reports /\ reports' = reports \ {<<id, status>>}
    /\ \/ Known(id) /\ RecordGoes(id, [campaigns[id] EXCEPT !.status = status])
       \/ ~Known(id) /\ UNCHANGED campaigns
    /\ UNCHANGED <<keyed, created, restarts, cli, handoff, poller, jobs, storage>>

-----------------------------------------------------------------------------
(* Completion. A describe_jobs that fails changes nothing but the poller.  *)

\* A slip the checks must catch: one child that ended is enough.
CompleteAtFirst(a) == \E s \in Samples : Child(a, s) = "ended"

\* _parse_array_completion(): succeeded + failed >= arrayProperties.size.
Complete(a) == \A s \in Samples : Child(a, s) \in {"none", "ended"}

\* A slip the checks must catch: a campaign that is complete goes back.
MayAggregateAgain(id) == campaigns[id].status \notin TerminalOrAggregating \ {"complete"}

MayAggregate(id) == campaigns[id].status \notin TerminalOrAggregating

\* _apply_completion_transition()
Transition(id, a) ==
    /\ Complete(a) /\ MayAggregate(id)
    /\ RecordGoes(id, [campaigns[id] EXCEPT !.status = "aggregating"])

\* A poll or an event is repeated or late as it comes; one without effect is no
\* step.
PollArray(id) ==
    /\ Known(id) /\ campaigns[id].array # NONE
    /\ Transition(id, campaigns[id].array)
    /\ UNCHANGED <<keyed, created, restarts, cli, handoff, poller, jobs, storage, reports>>

\* array_complete(): an event about a job that is not the stored one is refused,
\* and what an event says of its job is not believed but looked up.
ArrayComplete(id, reported) ==
    /\ Known(id) /\ campaigns[id].array # NONE
    /\ reported = campaigns[id].array
    /\ Transition(id, reported)
    /\ UNCHANGED <<keyed, created, restarts, cli, handoff, poller, jobs, storage, reports>>

\* poll_array_job_to_completion() keeps the record and the job it started with.
PollerStarts(id) ==
    /\ poller = Idle
    /\ Known(id) /\ campaigns[id].array # NONE
    /\ poller' = [pc |-> "polling", id |-> id, array |-> campaigns[id].array,
                  left |-> MaxAttempts]
    /\ UNCHANGED <<server, cli, handoff, jobs, storage, reports>>

\* Lookup failure or children left: the poller sleeps, or gives up at the end.
PollerWaits ==
    /\ poller.pc = "polling" /\ MayAggregate(poller.id)
    /\ poller' = IF poller.left > 1 THEN [poller EXCEPT !.left = @ - 1] ELSE Idle
    /\ UNCHANGED <<server, cli, handoff, jobs, storage, reports>>

PollerSees ==
    /\ poller.pc = "polling"
    /\ Transition(poller.id, poller.array)
    /\ poller' = Idle
    /\ UNCHANGED <<keyed, created, restarts, cli, handoff, jobs, storage, reports>>

\* Somebody else moved the campaign on: the poller returns, or its last look fails.
PollerReturns ==
    /\ poller.pc = "polling" /\ ~MayAggregate(poller.id)
    /\ poller' = Idle
    /\ UNCHANGED <<server, cli, handoff, jobs, storage, reports>>

-----------------------------------------------------------------------------
\* compile_aggregation(): the rows of aggregated_results.csv. A manifest that
\* cannot be read is skipped; kpis.json that cannot be read is a failed row.
OkRows(id, unread) ==
    {s \in Samples \ unread : manifests[id][s] = "completed" /\ s \in kpis[id]}

\* aggregate_campaign_results(), which writes the files, then the record, then
\* notifies. Without a manifest, and when a file cannot be listed or written,
\* the campaign stays as it is.
Aggregate(id) ==
    /\ Known(id) /\ campaigns[id].status = "aggregating"
    /\ \E s \in Samples : manifests[id][s] # "none"
    /\ \E unread \in SUBSET Samples :
         RecordGoes(id, [campaigns[id] EXCEPT !.status = "complete", !.told = @ + 1,
                                              !.rows = OkRows(id, unread)])
    /\ UNCHANGED <<keyed, created, restarts, cli, handoff, poller, jobs, storage, reports>>

Next ==
    \/ \E r \in Runs : Handoff(r) \/ AnswerLost(r) \/ CliSaves(r)
    \/ Restart
    \/ \E id \in Ids, reported \in DOMAIN jobs : ArrayComplete(id, reported)
    \/ \E id \in Ids : PollArray(id) \/ PollerStarts(id) \/ Aggregate(id)
    \/ \E id \in Ids, covered \in ArraySizes : Submit(id, covered)
    \/ \E id \in Ids, status \in ManifestStatuses : Patch(id, status)
    \/ \E a \in DOMAIN jobs, s \in Samples :
         UploadKpis(a, s) \/ WriteManifest(a, s) \/ ChildEnds(a, s)
    \/ PollerWaits \/ PollerSees \/ PollerReturns

Spec == Init /\ [][Next]_vars

-----------------------------------------------------------------------------
\* While the Coordinator lives, all the runs of a command have one campaign,
\* whatever requests and answers are lost; and the record in the outdir names
\* that campaign or one of an earlier life (coordinator_handoff).
OneCampaignPerCommand ==
    /\ \A id, other \in Ids : Known(id) /\ Known(other) => id = other
    /\ handoff # NONE /\ Known(handoff) => handoff = keyed

NobodyWrites(a) == \A s \in Samples : Child(a, s) \notin {"running", "stored", "published"}
JobsOf(id) == {a \in DOMAIN jobs : jobs[a].campaign = id}

\* Results are compiled from a storage that nobody writes any more: when a
\* campaign had a single array job and is being aggregated or was aggregated,
\* every child of that job has ended, and each row has its manifest and its
\* kpis.json. A campaign submitted twice, or whose submission went unanswered,
\* has no such guarantee (_apply_completion_transition, aggregate).
ResultsAreFinal ==
    \A id \in Ids :
      Known(id) /\ (campaigns[id].told > 0 \/ campaigns[id].status \in {"aggregating", "complete"}) =>
        \A a \in JobsOf(id) : JobsOf(id) = {a} =>
          NobodyWrites(a) /\ campaigns[id].rows \subseteq OkRows(id, {})

\* However webhooks, polls, the polling fallback and late reports of workers
\* interleave, a campaign is aggregated and its completion notified at most
\* once for each array job recorded for it.
NotifiedOncePerArray ==
    \A id \in Ids : Known(id) => campaigns[id].told <= campaigns[id].submits
=============================================================================
