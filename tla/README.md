# OSimFlow in TLA+

TLA+ models of the parts of OSimFlow that run concurrently, fail partially and
restart, with the TLC runs that check them on small instances and the theorems
that TLAPS proves for all of them. Source paths below are relative to
`src/osimflow/` unless they start otherwise.

Contents: the system and its components; the modules and how they correspond to
the code; the runs, bounds and fairness; the proofs; the disagreements found;
what is not modelled; the plan.

## 1. The system

OSimFlow runs a parametric campaign of building-energy simulations. One
orchestrator process executes a fixed sequence of steps (prepare, sample, apply
parameters, run OpenStudio, extract KPIs, reduce). A step that concerns every
sample is a *fan-out*: one job per sample is submitted to an executor (a local
pool, Slurm, AWS Batch, Kubernetes, ...), the results are awaited by a pool of
threads, and each outcome is recorded in a result cache, a job journal and
`run.json`. Optional Redis services share the cache, the queue messages and the
documents between nodes; a FastAPI coordinator tracks campaigns that run as array
jobs.

| component | state it keeps | operations | hard behaviour | what makes it correct |
|---|---|---|---|---|
| circuit breaker (`circuit_breaker.py`) | state, consecutive failures, opening time, probe gate | `allow`, `check`, `state`, `record_success`, `record_failure` | results that arrive after the state they were sent in; threads racing for the half-open probe; callers that forget to report | at most one probe; the gate always has someone to release it; the circuit closes after an outage and throttles a lasting one |
| fan-out (`campaign/fanout.py`) | futures, the handles, per-sample recovery attempts | `submit_and_await_all`, `_await_one`, `mark_sample_failed`, the wait loop, drain and shutdown | exceptions that cross nested handlers and threads; cancel and pause at any moment; a failure while recording a failure; handles that never return | every sample is accounted for; aborts are not swallowed; a success is not re-run or overwritten; the step ends; no thread outlives it |
| campaign steps (`campaign/steps.py`) | `_sample_state`, chunks | one method per step | chunk loop against cancel, pause and quota; the closing pass against late threads | samples that did not run are failed once, and only those |
| sample trace recorder (`campaign/sample_trace.py`) | the strike counter | `checkpoint_sample`, `finalize_samples` | a counter shared by pool threads; an abort raised inside exception handlers | the third failed checkpoint in a row aborts the campaign |
| run trace, worker recovery (`observability/monitoring.py`) | `run.json`, heartbeats, attempts, accounting errors | `write`, `update_sample`, `check_and_recover` | whole-file writes against incremental ones; clocks of dead workers | no recorded sample disappears; the recovery budget holds |
| job journal (`queues/journal.py`) | one JSON file per job in `pending/ in_progress/ completed/ failed/` | `enqueue`, `dequeue`, `mark_completed`, `mark_failed`, `recover` | a crash between the rename of the new file and the unlink of the old one | jobs never vanish, finish once, and none stays hidden in `in_progress` after a restart |
| campaign runner, lifecycle, quota (`campaign/runner.py`, `lifecycle.py`, `quota.py`) | campaign status, cancel flag, `.stop` and `.pause` files, usage | `run`, `check_cancel_requested`, `check_pause_requested`, the sweep | signals and files read at different points; finalisation after a failure | the status written at the end is the one that happened; a cancelled campaign leaves no job behind |
| result cache, distributed cache (`cache.py`, `distributed_cache.py`) | SQLite rows; a Redis hash; per-process files | `lookup`, `store`, `invalidate_*`, `close` | backfill against invalidation; Redis outages | no stale or failed entry is served; nodes converge |
| control plane, dispatch (`queues/control_plane.py`, `queues/dispatch.py`) | a local journal per node, a Redis channel per sample | the journal's operations, broadcast and repeated by subscribers | messages lost, reordered, echoed to their sender | local queues converge; a message never un-finishes a job |
| document store (`document_store.py`) | campaign documents in Redis or SQLite | CRUD | breaker misuse; read-modify-write | updates are not lost |
| executors (`executors/*.py`) | the registry of live handles; per handle the job it names, its local result and its attempts | `submit`, `Handle.result`, `cancel` | lost answers to submissions; polls that err or mislead; retries and fallback under one deadline; a sweep against submissions and resubmissions | a running job stays within reach of the sweep; a job is replaced only when it has ended; waits keep the deadline |
| detached submission (`s3_campaign.py`, the `--detach-s3` part of `campaign/steps.py`, `campaign/sharding.py`) | claims with leases, job records and the handoff record in a bucket; the jobs of the batch service | `claim_submission`, `renew_claim`, `finish_claim`, `release_claim`, `record_job`, `write_handoff`, the submission loop | several machines that run the same command; a crash or a lost answer between a submission and its record; a submitter that is superseded while at work | one owner per claim; a sample gets jobs from a second claim only through a superseded submitter, and that one stops; the handoff names every job and precedes "submitted" |
| workers and download of a detached campaign (`remote_runner.py`, `s3_campaign.py`, `cli/s3.py`, `_work_scripts/aggregate_results.py`) | per sample a directory in the bucket with files and two markers; its copy on disk; the two tables | one attempt of a job with its uploads, `sample_states`, `pending_job_ids`, `download`, `extract_failure` | attempts killed between any two uploads and tried again over the same keys; a store without delete; downloads that are cut off and repeated while attempts go on | a success marker stands for results; a finished sample has its row; every campaign ends in a state that a download accepts |
| coordinator (`api/coordinator.py`, `handoff_record.py`, `work.py`, `manifest.py`, `aggregation.py`) | campaign records and idempotency keys in memory; the handoff record of an outdir; kpis and manifests in object storage | handoff, array submission, webhook, poll, polling fallback, status reports of workers, aggregation | repeated, late and lost messages; a restart that forgets every record; children killed between two uploads | one campaign per command; one aggregation per array, from results that nobody writes any more |
| storage uploader (`storage/__init__.py`) | bounded upload queue, worker threads, errors | `upload_file`, `close` | callers blocked on a full queue; retries; a drain with a deadline while the storage hangs; a caller that races with `close()` | a drain that ends has seen every upload through; `close()` with a deadline returns, but for Azure's wait for a racing file; only a racing file is stranded |
| data point manager (`data_point_manager.py`) | a JSON file of statuses | locked read-modify-write | several processes | no update is lost |
| alerting, webhooks (`notifications/`, `webhook.py`) | recent alerts | fire, deduplicate, deliver | repeated events | an alert per cooldown |

Interactions. The runner calls `recover()` on the journal and then the steps; a
step calls `submit_and_await_all`, which calls back into the step (`on_success`,
which writes the cache), the journal, the recorder (which may raise
`CampaignAbortError`), the observers and, with auto-recovery, the executor again.
The cancel flag and the `.stop` and `.pause` files are shared state that the
lifecycle writes and that the wait loop, the chunk loop and the entry of each
step read at different moments. The step hands each result to the uploader, which the
runner closes at the end; a cancel makes the lifecycle sweep the executor's registry of
handles. With `--detach` the CLI hands the campaign to the coordinator instead, whose
workers publish through object storage; with `--detach-s3` the simulation step submits the
jobs of all samples under a claim in the bucket, writes the handoff record and ends the run. The breaker is shared by all threads that use one
Redis service.

## 2. Modules

| module | models | composes |
|---|---|---|
| `CircuitBreaker` | the breaker: every method as a function on its record | |
| `BreakerClients` | threads that use one breaker, Redis and the clock | `CircuitBreaker` |
| `BreakerProofs` | theorems about both | |
| `FanOut` | one fan-out step: chunk loop, pool, exception handling, recovery, closing pass | |
| `FanOutProofs` | theorems about it | |
| `JobLifecycle` | the abstract promise of the job queue | |
| `JobJournal` | the filesystem journal, step by step on disk; implements `JobLifecycle` | `JobLifecycle` |
| `JobJournalProofs` | theorems about it, the refinement included | |
| `CampaignRun` | the runs of a campaign in one output directory, `run.json`, the flag files, their clients | |
| `CampaignProofs` | theorems about it | |
| `ResultUploader` | the background uploader: callers, queue, workers, `close()` | |
| `ResultUploaderProofs` | theorems about it | |
| `Substrates` | what submissions, polls and kills can come to on the seven polling executors | |
| `PollingHandles` | handles of one executor: submission, registry, `result()`, the sweep | `Substrates` |
| `PollingHandlesProofs` | theorems about both | |
| `Coordinator` | a detached command's campaign: CLI, coordinator, Batch array, workers, storage | |
| `CoordinatorProofs` | theorems about it | |
| `DetachedCampaign` | what the two parts of a detached campaign share: the samples and the count of faults | |
| `SubmissionStore` | what the bucket and Batch may show of a submission | |
| `DetachedSubmit` | the machines that submit a detached campaign through one bucket; implements `SubmissionStore` | extends `DetachedCampaign` |
| `DetachedResults` | the attempts of its jobs, their markers in the bucket, and the downloads | extends `DetachedCampaign` |
| `DetachedProofs` | theorems about both | |
| `MCBreakerClients`, `MCFanOut`, `MCJobJournal`, `MCCoordinator` | symmetry sets for TLC | |

### CircuitBreaker and BreakerClients

`breaker` is the object: `state`, `failures`, `probing` (the single-probe gate) and
`age`, the time since `_opened_at`, saturated at the cooldown because the code only
compares the two. The methods are the operators `Peeked` (the `state` property),
`Allows` and `Asked` (`allow`/`check`: answer and effect), `Succeeded`, `Failed`;
each runs under the breaker's lock, so each is one step.

A client thread goes through admission, the Redis call, its reply, and the report
to the breaker as separate steps: the reply may be recorded long after the state
has changed. The call is bounded by the socket timeout, `OpMax` ticks. `Protocols`
lists how callers use the breaker, and a behaviour picks one:

- `cache`: `DistributedCache._shared_store` and `_shared_lookup`: `allow`, call,
  report in every branch;
- `document`: `RedisDocumentStore._get_client` asks `check()` and the proxy it
  returns asks again for the same operation; until the first client is built, building it
  may fail and is recorded as a failure (`BuildFails`);
- `publish`: `DistributedJobQueue._publish` peeks, asks inside the coroutine, and
  one of its `except` clauses logs without reporting.

### FanOut

`main` is the thread that executes `step_run_openstudio_sim`; `task[s]` is the call
of `_await_one` for sample `s`, on a pool thread, or on `main` when
`max_workers <= 1`. Python's nested `try` statements are modelled by the task's
`frame`: the innermost handler an exception raised now would reach. `Raised` says
where it lands, so that a checkpoint abort inside an inner handler really is caught
by the outer one, as in the code. `MaxWorkers` decides between the pool and the one-worker
loop, `PoolSize` how many threads the pool has (the quotas may lower it). Recovery counts
twice, as the code does: `retry` is the manager's count of the sample, `rounds` that of the
loop it runs in. `dropped` is a history variable: the samples whose future was still in the
wait loop when that loop saw a pause.

| code | actions |
|---|---|
| chunk loop of the step | `SubmitOne`, `SubmitRaises`, `CloseChunk`, `CutChunkShort`, `EndSubmission` |
| enqueueing at the head of `submit_and_await_all` | `Enqueue` |
| `_wait_for_fanout_futures`, `_drain_fanout_future` | `WaitReturns`, `Drain`, `DrainAbort`, `Drained`, `SeeCancel`, `SeePause` |
| the `with` block of the pool, `_shutdown_fanout_pool_bounded` | `Join`, `JoinAbort`, `JoinCancel` |
| the one-worker loop | `SeqStart`, `SeqRaise`, `SeqCancel`, `SeqPause`, `SeqReturn` |
| `_await_one` and `on_success` | `Start`, `AwaitOk`, `AwaitFails`, `BookOk`, `BookRaises`, `Complete`, `Checkpoint` |
| `mark_sample_failed` | `MarkJournal`, `MarkCheckpoint`, `Report` |
| worker auto-recovery | `Resubmit`, `GiveUp` |
| closing pass of the step, entry of the next one | `PostCheck`, `PostStore`, `PostEnd` |
| signals, `.stop`, `.pause` | `RequestCancel`, `TogglePause` |

`Faults` and `Signals` say which operations may raise and which requests may arrive
in an instance; the code can meet all of them, and each run names those it needs.
The journal appears here only as the set of directories that hold a sample's job
(`in_progress` is missing because the campaign never calls `dequeue`), the cache as
one row per sample, `run.json` as a checkpoint that succeeds or fails. A job whose
await times out stays `live`. Everything else that a handle does is a result, an
error, or silence.

### JobLifecycle and JobJournal

`held[j]` is the set of state directories with a file of job `j`, `move[j]` the
operation under way on it. Every operation is the same pair of disk steps, `Write`
(temporary file and rename) and `Unlink`, with its own guard: `Enqueue` searches
all four directories, `Mark` (completed or failed) looks in `pending`, then
`in_progress`, `Recover` empties `in_progress`. Either disk step may raise
(`MoveFails`), and the process may `Stop` before either and `Restart`. The
campaign handles each sample in one thread at a time, hence one move per job.

`JobLifecycle` gives each job one state: absent, pending, in_progress, completed or
failed; it may be reset from in_progress to pending, finishes once and never
vanishes. The refinement maps the directories to the state that a search in the
order of `STATES` finds (`Find`, the code's `_find_job`).

### CampaignRun

The level above the fan-out: each launched `osimflow run` is a process `run[r]` with
its in-memory state (the trace's status, `finished_at` and `per_sample`, the latched
cancel flag, the samples' exit codes, `campaign_status`), and all of them share
`run.json` (`doc`) and the `.stop` and `.pause` files. `run[r].at` names the place in
the code and `run[r].step` the step.

| code | actions |
|---|---|
| `Campaign.run`, up to the steps | `Launch` (by `Run` or `Resume`), `Precheck`, `Start`, `StartFails` |
| the dry and single-sample paths | `Poll` |
| the generation loop and its end | `NextGeneration`, `LastGeneration`, `Wrap`, `Aggregates`, `Finish` |
| the head of every step | `Enter`, `PausesAt`, `FanOutBegins`, `PlainStep` |
| the simulation step under `--detach-s3` | `Detaches` |
| an exception anywhere | `Fails`, at the places of `MayRaise` |
| submission and the wait loops of a fan-out | `Skips`, `Takes`, `LoopHears`, `LoopPauses`, `WaitHears`, `WaitPauses`, `FanOutEnds` |
| `checkpoint_sample`, `RunTrace.update_sample` | `Completes` (merges a row into a copy), `Checkpoints` (renames it), `CheckpointFails` |
| the `try` of `Campaign.run` | `Settle`, `HandlePause`, `HandleInterrupt`, `HandleDetach`, `HandleFailure` |
| its `finally` | `Teardown`, `TeardownFails`, `Close` |
| signals, cancel requests | `Signal`, `Stop` |
| pause and unpause, by directory (CLI, `/campaign/pause`) and by id (`park`, `unpark`: `/campaigns/{id}/pause` and `resume`) | `Check`, `Flag`, `Stub` |

Clients read `run.json`, then touch the flag file, then, by id, replace `run.json` by a
stub with nothing but a status; each is a step of its own, since the code locks none of it.
`doc.by` is the run that `campaign_id` names, 0 in a stub.

A fan-out is coarse here, since `FanOut` has its inside: one chunk, no quota, a sample
ends well or badly, and the await, the books and the journal are the one step `Completes`.
Threads that a bounded drain abandons are not followed further. Under `--detach-s3`
(`plan.detach`, in the runs `Detachable` allows) the simulations are only submitted, which is
one place here, `submitting` (`DetachedSubmit` has its inside), and the run ends with the
outcome "detached". The writes of the pauses and of the handlers may fail (`TriesToWrite`): a
paused trace logs it, and from a handler the error leaves through the `finally` block, which
writes again. `osimflow resume` unlinks
the flag and launches in one step. `asked`, `resumed` and `disturbed` are history
variables: they record what the properties speak of and no guard reads them.
`Hurried` lets `osimflow resume` act on the status in `run.json` alone, as the code does;
`FALSE` assumes a user who waits until the paused process has exited.

### ResultUploader

A call of `upload_file()` is named by its file, and `fate[f]` follows the call and then the
file: checked, on the queue, uploading, stored, failed, abandoned. `unfinished` is the
queue's `unfinished_tasks`, which `Queue.join()` waits on, and counts apart from the queue
itself because the code pairs `get` and `task_done` by hand.

| code | actions |
|---|---|
| `upload_file`: the check of `_closed`, the `put` | `Check` (the only part under the lock), `Put` (blocks while the queue is full) |
| `_worker`: one round of its loop | `Take`, `AttemptSucceeds`, `AttemptFails` (retried or recorded), `TakeStop` |
| `close`, `_drain`, `_abandon_pending` | `BeginClose` with or without a deadline, `Drained`, `DrainTimesOut`, `Abandon`, `AbandonEnds`, `PutStop`, `StopsPut`, `JoinUndrained`, `JoinDrained`, `ShutdownEnds` |

An attempt may succeed, fail, or never answer. `late` is a history variable: the files put
on the queue after `close()` began. On Azure an attempt runs on a thread pool, and a
`close()` whose drain ended in time shuts the pool down with `wait=True`
(`storage/__init__.py:900`): `pool` are the workers whose attempt that waits for, any of the
busy ones, and none on other storages.

### Substrates and PollingHandles

`Substrates` holds, per executor, three tables translated from its module: what a
submission can come to (refused; accepted with the answer lost; submitted twice by a client
that retried), what one poll can show of a job in each state, and which terminal readings
`_classify` takes for success. `PollingHandles` is the code they share, `executors/base.py`;
`Init` picks the substrate, so that one run covers the seven.

| code | actions |
|---|---|
| `BaseExecutor.submit` | `DoSubmit`, `Register` (which prunes the registry past the threshold) |
| `PollingHandle.result` | `BeginWait` (the deadline check), `PollsOn`, `PollFails`, `PollSucceeds`, `JobFailed`, `SpotInterrupted`, `Resubmit`, `FallBack` |
| `BaseExecutor.cancel`, `PollingHandle.cancel` | `BeginSweep`, `Kill` |
| the substrate (external) | `JobEnds` |

`handle[h].mirror` is the local future that `cancel` and the pruning look at, `job[h]` the
truth about the job the handle names, and `stray` how live jobs that no handle names came
about. Time is counted in ticks of a poll's sleep; a backoff takes any number of them up to
the end of the model's clock, which is past the deadline because the code does not clamp it.

### Coordinator

| code | actions |
|---|---|
| `_perform_detach_handoff`, `coordinator_handoff`, the handoff record | `Handoff`, `AnswerLost` (the answer is lost or the CLI dies), `CliSaves` |
| the process | `Restart` (records and keys are in memory) |
| `submit_campaign_array_job` | `Submit` (recorded, or lost after Batch accepted it) |
| `publish_kpi_results` in the worker | `UploadKpis`, `WriteManifest` (last, and with it the report under way) |
| Batch (external) | `ChildEnds`, at any point of a child |
| `update_coordinator_campaign_status` | `Patch`, for any report under way, at any time |
| `array_complete`, `poll_array_job`, `_apply_completion_transition` | `ArrayComplete`, `PollArray`, with `Complete` and `MayAggregate` |
| `poll_array_job_to_completion` | `PollerStarts`, `PollerSees`, `PollerWaits`, `PollerReturns`; it keeps the array it started with across its sleeps |
| `aggregate_campaign_results`, `_classify_sample` | `Aggregate`, `OkRows` |

The handlers contain no `await`, so each is one step. Only the campaigns of one command in
one outdir are followed, because records of different commands do not touch. `submits` and
`told` are history: arrays recorded, completions notified.

### DetachedSubmit

`run[i]` is the last invocation of the command on machine `i`, `latest`, `claimState` and
`lease` the claims `<campaign>/_claims/<generation>.json`, `record` the recorded jobs, `made`
and `failed` what the batch service has, `handoff` the handoff record. Every call on the bucket
or the batch service is a step. Under generation `g` a sample is submitted by one call of
`SubmitJob` at most, which creates job `g`. The call has no client token, and the SDK repeats it
(adaptive mode, ten attempts) when its answer is lost: it then creates a second job, `Again(g)`,
and another submitter may act in between. Two jobs stand for the ten that are possible.

| code | actions |
|---|---|
| `osimflow run --detach-s3`, for the first time or again | `Start` |
| `claim_submission` | `Check`, `ListClaims`, `ReadClaim` with `Verdict`, `CreateClaim` (the conditional create) |
| the detached part of `step_run_openstudio_sim` | `LoadRecords`, `NextSample` with `Adopts` and `Resumed`, `PassOver` (pause or quota), `LoopEnds` |
| `_find_existing_job`, `_do_submit` | `FindExistingJob`, `SubmitJob` with `NewJob` (an answer may be lost, and the call raise or be repeated) |
| `_record_detached_job`, `_finish_detached_submit` | `RecordJob`, `WriteHandoff` |
| `_write_claim`, for renewal, finish and release | `ListBeforeWrite` with `Superseded`, then `PutClaim` |
| the `finally` block of the run | `Raised` |
| failures and time (external) | `CallFails`, `Crash`, `LeaseLapses`, `LeaseOutrun`, `JobFails` |

A lease is a state, not a clock: it lapses when nobody who holds the claim is at work, and
under a submitter at work only as a counted fault (`LeaseOutrun`: slower than the lease, or
a clock that is ahead). `late` and `passed` are history variables.

`SubmissionStore` is what the machines together promise: a claim, a job, a record, the handoff,
each decided on what the bucket and Batch hold at that moment, and no submitter in sight. In the
code every such decision is made on a listing or a reading that may be old by the time of the
write; `ImplementsStore` says that nothing shows it, but for one call per superseded claim.

### DetachedResults

What follows the handoff. `job[s]` is the sample's Batch job: which attempt it is at and where
in `remote_runner.main`; `remote[s]` and `local[s]` its directory in the bucket and on the disk
of the machine that downloads, reduced to what decides its fate: the success marker, the
failure marker and whether it says `retrying`, `eplusout.sql`, and whether `out.osw` or
`eplusout.err` tell of a failure. A failed attempt replaces the latter two by its own, where it
left any. Two jobs of one sample that stand (DetachedSubmit) would write the same keys; here a
sample has one job. `reader` is the download, `table` the two CSV files.

| code | actions |
|---|---|
| `main`, `_run_payload`, `_mark_retrying` | `StartAttempt` (marking is best effort), `Exit` |
| `_upload_artifacts_for_object_storage`, `_upload_dir_strict` | `UploadSql`, `UploadOsw`, `UploadMarker`, in the order of the names |
| an exception, `_upload_failure_artifacts` | `Raises`, `UploadFailedMarker` with `Diagnosed`; cut short it is `Killed` |
| Batch (external) | `Killed`, `AttemptOver`: tried again, or not when it ran too long |
| `sample_states`, `_is_retrying`, `pending_job_ids` | `Complete`, `Failed`, `Retrying`, `Pending`; an unreadable marker is a counted fault |
| `_substrate_failures` of the CLI | `Launch`, with or without an answer of Batch |
| `download` | `Look`, `Skip`, `Materialise`, `FetchMarker`, `FetchFiles`, `FetchEnds`, `WriteResults`, `CutOff` |
| `extract_failure`, the rest of `aggregate_results` | `Failure`, `WriteFailures` |

The states are read in `Launch` and again in `Look`, the keys in `FetchMarker` and `FetchFiles`,
and the attempts move in between. The failure marker is a step of its own because its name
sorts before the others. `lost` and `untold` are history variables: samples whose KPI
extraction raised, and samples that a cut-off download fetched without a table to show for it.

## 3. Runs

All bounds are constants of the cfg files; no run uses a state constraint.

| run | what it asks |
|---|---|
| `breaker` | 3 threads, all three protocols: `AtMostOneProbe`; with the cache's protocol `CacheGateHasAHolder`, `CacheRecoversAfterOutage`, `CacheOutageIsThrottled` |
| `fanout_recovery` | 2 samples, recovery with 2 retries, cancel, four kinds of faults: `EverySampleAccounted`, `SuccessIsNotRerun`, `CachedSuccessSurvives`, `StepEnds`, `CancelEnds` |
| `fanout_requests` | 2 workers, 3 samples in chunks of 2, two strikes, pause, unpause, quota, failing submissions, bookkeeping, checkpoints and reports: `NoThreadLeftBehind`, `JournalAgrees`, `AbortPropagates`, `ThirdStrikeAborts` |
| `fanout_sequential` | one worker, 3 samples, cancel, pause, five kinds of faults: `NoJobAfterSweep` |
| `journal` | 3 jobs, any number of crashes and failed file operations: `NoOrphanInProgress`, `ImplementsLifecycle` |
| `campaign` | one run in each mode and width, awaited or detached, 2 samples, 2 generations, all faults, cancel, signals, crash, pause by id: `CancelIsHonoured`, `OutcomeIsTold`, `SuccessIsComplete` |
| `campaign_resume` | 2 runs, pause, resume, resume by id: `ResumedRunSucceeds`, `RunsEnd` |
| `uploader` | 4 files, a queue of 3, 2 workers, 1 retry, attempts that fail or hang, `close()` with and without a deadline: `DrainedIsComplete`, `OnlyLateFilesAreStranded`, `CloseEnds` |
| `handles` | 2 handles of any of the 7 executors, 1 spot retry, fallback, lost answers, misleading polls, sweeps: `NoJobIsForgotten`, `SweepKills`, `OneJobRuns`, `ResultEnds` |
| `coordinator` | 2 runs of the command, 2 samples, 2 array submissions, a restart, a poller of 2 attempts, events and reports in any order: `OneCampaignPerCommand`, `ResultsAreFinal`, `NotifiedOncePerArray` |
| `detached` | 2 machines, 2 samples, up to 2 faults (crashes, failed calls, lost answers, outrun leases, failed jobs), pauses at any point: `LeaseIsRespected`, `OneClaimPerSample`, `SubmittedIsHandedOff`, `HandoffNamesJobs`, `EventuallyHandedOff`; and `ImplementsStore`: the submission is a `SubmissionStore` |
| `detached_results` | 2 samples, up to 2 attempts each, 1 fault (a kill, a failed call, an unreadable marker, a download cut off), any number of downloads, partial or not: `SuccessIsWhole`, `FinishedHasARow`, `EventuallyDownloadable` |

The type invariants are proved (section 4) and not repeated as invariants of the runs. Three more properties are left to their proofs:
`TwoFilesOnlyWhenTorn`, `CountsAgree` and `AwaitIsBounded`.

Bounds and why they are enough.

- Threads of the breaker: a probe, a late result and a third caller that tries to
  become a second probe; 3 is the least number with all of them. A threshold of 2
  distinguishes the first failure from the one that opens, and a cooldown of 3 with
  calls of at most 2 ticks keeps the code's relation (30 s cooldown, 5 s timeouts).
- Samples: 2 give every interleaving of two tasks, 3 a third that is queued behind a
  full pool, or a second chunk. Strikes are shared by the threads of a pool: with the two
  strikes of `fanout_requests` the last one can fall to either thread of a chunk, to a
  task of the second chunk, or to a task that is recording a bookkeeping failure; the abort then
  meets a wait loop with the other future in any state. The strike counter is saturated
  at `MaxStrikes` because the code only tests `>=`.
- `MaxAttempts = 2` distinguishes a retried bookkeeping from an exhausted one,
  `MaxRetries = 2` a spent recovery budget from a fresh one. Failing journals and
  reports are met in `fanout_sequential`; with recovery they make a success run again
  (section 5). The theorems on accounting and on the abort cover every combination.
- Campaign runs: one run meets every handler; two generations distinguish the first from
  a repeated one (an exit code left from the one before, a loop that ends early). A full
  campaign detaches in one generation only (`Detachable`), so that with two it is the single
  run of `campaign`, and the full one of `campaign_resume`, that are submitted. A run
  and its successor are what a resume needs, and one sample is then enough, because
  samples interact only through `run.json`, which `campaign` has with two.
- Jobs in the journal: two may be torn independently while a third is moved.
- Uploader: four files fill the queue of three with one waiting caller behind it; one
  worker may hang while the other works; one retry distinguishes a retried attempt from the
  last. `Callers` bounds the `upload_file` calls in flight: `CloseEnds` needs the waiting
  callers and the end markers to fit in the queue (`Callers + |Workers| <= MaxQueue`), as
  they do with the defaults 128 and 2; `close()` puts its markers without a deadline.
- Handles: one that is pruned or swept while another is submitted. One tick of timeout
  separates before, at and after the deadline; one retry separates a resubmission from the
  fallback. The registry threshold of 1 makes the second registration prune.
- Coordinator: two runs race for one key; two arrays are a resubmission, whose poller may
  still hold the first; the restart comes between any two steps. Two samples tell a complete
  array from a started one. A second restart would only repeat the first.
- Detached submission: two machines are a submitter and the one that supersedes it, and each
  may run the command any number of times. Two faults let a claim be lost and its successor
  fail too; the third generation is then the last that can be needed, so that
  `MaxGenerations = 3` cuts nothing off. Two samples tell a recorded one from the one in hand.
- Detached results: of two samples one may be finished while the other is retried, which is what
  a partial download meets. Two attempts are the one that leaves something behind and the one
  that finds it. With one fault an attempt is killed at any step, or a download is cut off; the
  step function may raise without a fault, as often as it is tried. The safety properties
  hold with two faults as well (5.4 million states).

Deadlock is checked in the breaker and journal runs. A fan-out step, a campaign run, an
uploader and a handle end, so their runs switch the deadlock check off; that they do not stop
anywhere else is `StepEnds`, `RunsEnd`, `CloseEnds` and `ResultEnds`. The coordinator's
environment may stop anywhere: its bounded runs, submissions and restarts are used up.

Fairness. `BreakerClients!FairSpec`: threads run and the clock advances; nothing is
assumed of Redis, the properties state it as `<>[]redisUp`. `FanOut!FairSpec`: the
main thread and the pool threads run (`WF` of `Main` and of each `Task`), awaits
may hang for ever. `StepEnds` makes the end of awaits its hypothesis, which is what a
configured await deadline gives; `CancelEnds` does without, and therefore speaks of
the concurrent mode: with one worker the loop waits inside `handle.result()` and
reads no flag. `CampaignRun!FairSpec`: each launched process runs
(`WF` of its `RunStep`), a coarse fan-out included, whose samples end; clients, launches,
signals and crashes have none. `ResultUploader!FairSpec`: the threads run (`WF` of each
worker's `Work`, of each blocked `Put`, of `CloseStep`), but no attempt need ever be
answered; `CloseEnds` therefore speaks of `close()` with a deadline, which is how the
campaign calls it, assuming only that no attempt of a late file hangs inside the Azure pool
while `close()` shuts it down, and assumes that uploads return for the one without.
`PollingHandles!FairSpec`: each thread inside `result()` runs; jobs need not end and polls
may lie or err for ever. The ticks are those of the thread's own sleeps, so that its
fairness is that of the clock. `Coordinator` has none: webhooks, polls and aggregation
requests come from outside the code, and a report that arrives first may keep a campaign
from ever being aggregated (section 5). `DetachedSubmit!FairSpec`: the machines run (`WF` of
`Step`), the lease of a dead submitter runs out (`WF` of `LeaseLapses`), and the command is run
again (`WF` of `Start`), as the message for a live lease asks the user to.
`DetachedResults!ResultsFairSpec`: Batch runs the attempts (`WF` of each sample's `Attempt`); nobody has
to run a download. No fairness is given to cancel, pause, crashes or restarts.

Each checked property is known to fail under some plausible slip in the code. Those
slips are the operators named as such next to the definitions they alter
(`AskedGateNotTaken`, `RaisedNoInner`, `EnqueueNotPending`, ...); nothing in the
specifications uses them.

## 4. Proofs

The assumptions are those of the constants (`BreakerAssumption`, `ClientsAssumption`
with `OpMax < Cooldown`, `FanOutAssumption`, `CampaignAssumption`, `UploaderAssumption`,
`StopAssumption`, `HandlesAssumption`, `CoordinatorAssumption`, `DetachedAssumption`,
`BoundsAssumption`, `AttemptsAssumption`); the journal needs none. Some theorems have a further
hypothesis, on the constants or on the behaviour, next to `Spec`; for each, section 5 has the behaviour of
the code that violates the property without it.

- `BreakerProofs`. `ProbeSafety`: `Spec => []AtMostOneProbe`, for all protocols. The
  property alone is not inductive: nothing in it prevents the circuit from cooling
  down while an old probe is still out. `ProbeInv` adds why it cannot: a probe that
  outlived its half-open period has been out at least as long as the circuit has been
  open (`breaker.age <= call[c].elapsed`), and calls time out before the cooldown ends.
  `CacheGateSafety`: `Spec => []CacheGateHasAHolder`, by `GateInv`: the gate is taken
  only in half-open and by a thread whose call is still to be reported.
- `FanOutProofs`. `Typing`: `Spec => []TypeOK`, with the recovery counter within its
  budget. `Accounting` and `AbortIsNotSwallowed`: `[]EverySampleAccounted` and
  `[]AbortPropagates` for any samples, chunk size, pool, retries, faults and requests. Both
  except the samples in `dropped`: the wait loop returns on a pause without draining the futures,
  so what they carry is lost (section 5). `NothingIsDropped` says when there are none: with
  one worker, or without pause requests. Both properties speak only of the last state;
  `AccInv` carries them there: unless a cancel or an exception
  is under way, or a pause has stopped the run (`Stopped`), every sample is dropped, untouched,
  outstanding in the wait loop, or settled (returned, or raised and in `accounting_errors`),
  and the program counter of a task says what its record holds. That the one-worker loop
  leaves no abort behind when it pauses is `InLine`: the samples it has not reached are
  queued. There is one lemma per group of actions, and one step per action.

  The other six properties hold in every behaviour, and rest on `TaskHops` (what each step does to
  a task's place, handler and attempts) and two invariants. `ThreadsInv` ties the tasks to the
  main thread: a running task belongs to the chunk, and main is where the pool exists, until a
  sweep of the pool abandons it. `FramesFit` says under which handler a task is at each place.
  `PoolIsJoined` (`[]NoThreadLeftBehind`) is the first alone. `SweepIsFinal` (`NoJobAfterSweep`)
  is for the one-worker loop, hypothesis `Sequential`. `StrikesAbort` (`ThirdStrikeAborts`) needs
  the handlers only. `JournalIsKept` (`[]JournalAgrees`) follows the job through the directories
  (`JournalTracks`); its hypothesis `JournalKept` asks for a new journal, moves that succeed,
  and, with recovery, that bookkeeping does not fail together with the checkpoint or the report
  of that failure. `SimulationsRunOnce` (`SuccessIsNotRerun`) and `CachedRowSurvives`
  (`CachedSuccessSurvives`) follow a sample from the return of its handle: `RunsOnce` keeps it out
  of every place from which it could be submitted, `Kept` its class in step with its record.
  Both assume `MarksHold` (the first only under recovery): nothing is raised while a bookkeeping
  failure is recorded, because marking cannot fail, or the books never do, or only checkpoints
  fail and the samples are fewer than the limit of strikes. That the third case suffices is an
  invariant of its own, `StrikesInv`: every strike is that of a sample past its checkpoint, which
  each passes once. The instances of the runs satisfy these hypotheses.
- `JobJournalProofs`. `JournalTypes`, `RecoverySafety`, `TornSafety` and
  `JournalImplementsLifecycle` (`Spec => ImplementsLifecycle`), for any set of jobs and
  any number of crashes. `JournalInv` says what is on disk in the middle of a move (the
  source until the unlink, the destination after the write), that only this process's
  dequeues fill `in_progress` after recovery, and that an untorn job has one file. For
  the refinement, only `Write` and `Unlink` change where a job is found: the write of an
  enqueue is `Enqueue`, the write of a recovery `Reset`, an unlink `Start` or `Finish`,
  everything else a stutter.
- `CampaignProofs`. `CampaignTyping`: `Spec => []TypeOK`. `CancelNotLost`:
  `Spec => []CancelIsHonoured`, without any hypothesis on modes, faults, requests or the
  number of runs alive at once. `CampaignInv` follows a cancel from the moment it is visible
  with a check ahead to the outcome: the flag that carries it stays, and the run is in
  front of a check (`Ahead`), in a handler or with a cancelled trace (`Bound`), or over.
  That a run in front of a check cannot slip past it depends on which steps can be under
  way at which place (`Placed`): only GENERATE_BASIC_PLOTS has no check after it.

  `ResumeSucceeds`: `Spec => []ResumedRunSucceeds`, also without a hypothesis. `Undisturbed`
  keeps a resumed run that no request and no fault reached away from every handler, since
  neither flag file is there to be found: only requests raise one, and a request disturbs
  every run that is alive.

  `LoneRunIsTold`: a run `w` that overlaps no other one (`[]Alone(w)`) leaves its outcome in the
  registry and in the `run.json` with its name, and every row after a success, whatever the
  runs before and after it do. `OutcomeAgrees` and `SuccessHasAllRows` (`[]OutcomeIsTold`,
  `[]SuccessIsComplete`) follow for the behaviours in which no two runs overlap (`[]Solo`), and
  `RunsTakeTurns` says where those are all: under `OneAtATime`, that is when `osimflow resume`
  is not used, or waits for the run before it. Without that a stale checkpoint of one run
  replaces the final `run.json` of another (section 5). `TellsInv(w)` says whose document each run
  may find at each place (`Hands`: `w` its own or the service's stub, the others any but that of
  `w`), that no half-done checkpoint outlives its fan-out (`Idle`), and that `w`, once it has come
  to its end, either lost the document to a later writer or finds in it what it wrote. `Filled`
  says that a run comes to its last write with an exit code for every sample and a row made from
  it. `QuietTells` and `WritesTell` are the frames: a step of one run keeps what the others told.
- `ResultUploaderProofs`. `UploaderTyping`, `TasksAreCounted`, `DrainIsComplete` and
  `OnlyRacersAreStranded`, for any files, callers, workers, queue length and retries.
  `UploaderInv` adds to the properties `Filed` (a file is queued, or uploading, exactly when
  the queue, or a worker, holds it, once) and `Closed` (past the drain or the abandonment
  only late files are queued, and after a drain only late ones are uploading). The step that
  ends the drain rests on `CountsAgree`: a count of zero means an empty queue and idle workers.
- `PollingHandlesProofs`. The five safety properties for any number of handles, retries and
  any timeout, and for all seven substrates at once: what the proof needs of a substrate are
  the two table facts `TableFacts` and `KillFacts` (a running job is never shown as succeeded,
  none is shown as preempted that was not, and a kill starts nothing). `HandlesInv` adds, at
  each place of `result()`: `Tracked` and `Started` (where a job is known), `Settled` (when
  it cannot be running) and `Timed` (elapsed and remaining time stay within the timeout).
- `CoordinatorProofs`. `CoordinatorTyping`, `OneCampaign`, `OneNoticePerArray` and
  `FinalResults`, for any runs, samples, array sizes and bounds. `CoordinatorInv` adds
  `Keyed` (the only record of this life is the keyed one), `Tracked` (the arrays that a
  record and the poller name are arrays of that campaign), `Counted` (`told` is behind
  `submits` as long as the campaign can still be aggregated), `Finished` (a campaign that was
  moved on has an array whose children have ended) and `Settled` (the rows of a campaign with
  one array are stored).

- `DetachedProofs`, submission. The four safety properties, the types and the refinement, for any
  number of machines, samples, claims and faults. `SubmitInv` adds what an invocation knows at each
  place (`Knows`): the lease it is about to take over has lapsed and cannot become fresh again;
  the job it is about to record exists; no job of another claim stands for the sample when it
  submits one under the latest claim; and once it has submitted a job too late it is on its way to the listing
  that stops it. The conditional create is what makes the step of two racing takers safe: only
  the one whose listing still is the latest gets a claim. `GrowingMove` and `LocalMove` are the
  frame: what an invocation knows survives every step of the others that only adds to the bucket.

  `SubmitImplementsStore`: `Spec => ImplementsStore`. The steps that write show as one step of the
  store each (`CreateShows`, `SubmitShows`, `WritesShow`, `EnvironmentShows`), all others are
  stutters (`QuietSteps`). What an invocation knows, `Knows`, is what the abstract guard asks for:
  the claim it takes over has lapsed, no job of another claim stands. One fact is new, `ClaimsOpen`:
  whoever holds a claim holds an open one. It is kept because only the holder marks a claim, lets
  go of it in the same step, and nobody else holds it (`HoldersStay`, `OwnersDiffer`).
- `DetachedProofs`, results. `MarkerStandsForResults` (`[]SuccessIsWhole`), `FinishedIsListed`
  (`[]FinishedHasARow`), `UndisturbedIsListed` and `ResultsTyping`, for any number of samples, attempts, faults and
  downloads. `ResultsInv` has one part for each reader of a state that others change.
  `PublishInv`: an attempt past its upload has left the results, one past its marker the marker,
  and the deaths of others take nothing back. `CopiesInv`: what a download listed as complete,
  copied or tabled is complete in the bucket for good, which is why it may look twice while the
  attempts go on. `ReadingInv`: how far a download has got with what it found at its look.
  `RowsInv`: a sample whose state is on the disk is rightly listed, except those that the
  running download has fetched, the one in its hand, and those that the last tables were
  written without (`UnderWay`). `FinishedHasARow` excepts the last kind, the others are gone when
  a download returns; it excepts as well what KPI extraction dropped. `UndisturbedIsListed` says
  when neither exists: in a behaviour without cut-off or partial downloads and without failed
  extractions, a download returns only of a finished campaign and every sample has its row.
  `PublishKeeps` is the frame between the attempts and the downloads.

Only model-checked: the liveness properties `RunsEnd`, `StepEnds`, `CancelEnds`, `CloseEnds`,
`ResultEnds`, `EventuallyHandedOff`, `EventuallyDownloadable`, `CacheRecoversAfterOutage` and
`CacheOutageIsThrottled`, which need fairness and `ENABLED`. Every invariant, the action
properties and the refinements that the runs check are theorems.

## 5. Where the code disagrees with what it says

These were met and reproduced with the modules; no run repeats them. The first group needs
only another cfg:

- `RecoversAfterOutage` with `Protocols = {"document"}`: `_get_client` and the proxy both ask
  the breaker; in half-open the first answer takes the gate, the second refuses, nothing is
  recorded and the circuit never closes (`document_store.py:322`), unlike what
  `circuit_breaker.py:15-16` says of the probe.
- `EverySampleAccounted` of all samples, without `\ dropped`, with `Recovery`, one retry, `"pause"` in `Signals` and failing
  submissions, enqueueing, bookkeeping and checkpoints: the wait loop leaves on a pause, recovery
  submits a failed sample again, the pause is lifted, and the step finishes with a sample that
  failed without a class and is in no accounting error (`fanout.py:885`).
- `RetrySucceeds` of `DetachedResults`: a sample downloaded with `--allow-partial` after a failed
  attempt keeps its local `_OSIMFLOW_FAILED`. When the retry has succeeded, the download passes
  over that key for a complete sample (`s3_campaign.py:477`) and leaves the local file, so
  `extract_failure` goes on listing the sample as failed, unlike what `s3_campaign.py:345` says.
- `RepeatIsHarmless` of `DetachedResults`, against "repeated calls are idempotent"
  (`s3_campaign.py:428`). A finished sample is in neither table, or in a stale one, when: the
  download was cut off between the last local marker and the aggregation, and the CSV exists;
  it was cut off between the two tables; it was cut off after the failure marker, the first
  key, so that the next one skips the sample's files; the sample was under way at the last
  aggregation and had failed once before, so that it is skipped for its old marker; its job is
  FAILED, its marker says `retrying` and its `eplusout.sql` is there; its KPI extraction raised,
  which is only logged; or its marker could not be read and passed for a failure.
- `OneClaimPerSample` of `DetachedSubmit` with `j = k` for its conclusion, which is how one would
  read "looks the deterministic job name up instead of creating a duplicate"
  (`aws_batch_executor.py:1442-1444`): the SDK's own retry of a `SubmitJob` whose answer was lost
  (`:696-698`) makes the duplicate under a live claim, where nobody looks the name up. Of the two
  one is recorded and handed off; both run and write the sample's keys.
- `CachedSuccessSurvives` with `"bookkeeping"` and `"report"` in `Faults`: a failure while a
  bookkeeping failure is recorded turns it into a simulation failure, and the closing pass
  overwrites the cached success (`fanout.py:563`). The property names two more such cases: a
  sample that recovery submitted again and whose bookkeeping then fails has no failure class
  at all (`fanout.py:583`), and after a cancel the closing pass does not wait for the threads
  that the bounded drain abandoned between the cache store and their books (`steps.py:1223`).
- `SuccessIsNotRerun` with `Recovery` and `"journal"` or `"report"`, or with a third sample: a
  failure, or a third strike, while a bookkeeping failure is recorded lands in the handler
  that submits the sample again, although its simulation succeeded (`fanout.py:563`).
- `OneDispatcher` with two concurrent runs, `"pause"` and `"resume"` in `Requests`, and
  `Hurried`: the concurrent wait loop writes "paused" and goes on; `osimflow resume` trusts
  the status, removes the flag and launches a second orchestrator, and the first one finds
  its next gates open (`fanout.py:886`). A stale checkpoint of the one may then replace the
  final `run.json` of the other, so that `OutcomeIsTold` fails as well in that instance.
- `RowsSurvive` with one concurrent run and `"pause"`: `write()` replaces `run.json` by a
  trace whose `per_sample` is empty until the end, so a pause, an interrupt or a failure
  drops the rows checkpointed so far (`monitoring.py:513`).
- `GateHasAHolder` with the publisher's protocol: a half-open publish that fails with a
  redis-py `RedisError` is logged and not recorded, so the gate stays taken
  (`control_plane.py:478`).
- `NoJobAfterSweep` with two chunks and a pool: after the cancel sweep the remaining chunks
  are still submitted and swept one after the other (`steps.py:1059`).
- `JournalAgrees` with the journal of an earlier run: a re-run sample keeps its old entry
  whatever happens (`journal.py:307`). With `"journal"` in `Faults` a torn move leaves a sample
  in two directories; with `Recovery`, `"bookkeeping"` and `"report"` a sample is marked failed,
  submitted again and then succeeds, and its job stays in `failed`.
- `UnpausedSamplesRun`: samples passed over during a pause that is lifted in time are failed
  without having been submitted (`steps.py:1060`).
- `PausedIsOpen` with concurrent runs: a pause lifted after the wait loop recorded it leaves
  a completed run with the status "paused" and a `finished_at` (`fanout.py:886`), unlike
  what `runner.py:178` says; the sequential loop is right.
- `AbortPropagates` of all samples, with `"pause"` in `Signals` on a pool: the wait loop drops the futures when it
  sees the pause file, an abort among them included (`fanout.py:885`).
- `ThirdStrikeAborts` has to except one case: the abort raised while a bookkeeping failure
  is recorded is taken by `except Exception` (`fanout.py:563`), and the campaign goes on
  unless the checkpoint that this handler then makes fails as well.
- `NoJobAfterSweep` with `Recovery`: `concurrent.futures.CancelledError` is an `Exception`,
  so recovery may submit a swept job again, unlike what `fanout.py:652-655` says.
- `CancelEnds` with `"pause"`: a pause joins the pool without a bound (`fanout.py:740`).
- `OutageIsThrottled` for the publisher: an outage that surfaces as `RedisError` never
  opens its breaker.

The second group shows in the actions of `CampaignRun`:

- The pause and resume by id replace `run.json` after a check that may be stale: the
  results of a run that finished in between are gone (`Stub`, `campaigns.py:1057`). Resume
  by id writes "running" with no orchestrator alive.
- Nothing removes `.stop`, so the next run in the directory is born cancelled (`Launch`).
- A rewrite of `run.json` that raises in the `finally` block skips the registry, the
  webhook and the cache's close (`TeardownFails`).
- Until that rewrite, `run.json` of a finished run says "running" with a `finished_at`
  (`Finish`, then `Settle`).
- A sample that has passed APPLY_PARAMETERS only is checkpointed as "failed" (`RowOf`;
  `sample_trace.py:223` says that every step that ran succeeded).

The third group shows in the exceptions that the properties of the later modules spell out:

- Handles (`AwaitIsBounded`, `SweepKills`, `NoJobIsForgotten`). After the fallback the wait is
  given the `remaining` computed before the wait it follows (`executors/base.py:508`), so
  that one `result()` may take twice its timeout, unlike what `base.py:453-455` says of the
  shared deadline. The backoff before a resubmission is not clamped either: a job may be
  resubmitted after the deadline, only for the next round to raise `TimeoutError` and leave
  it running. `_resubmit()` does not look at a kill that came before it. An error that ends
  the wait resolves the local mirror, so that the sweep passes a job that still runs.
- Substrates (`NomadPoll`, `AzureSucceeds`, `KubernetesPoll`, `SwarmPoll`, `PbsPoll`). A
  stopped Nomad allocation, an Azure task without exit code and a deleted Kubernetes job
  whose result paths exist read as successes; a removed Swarm service stays pending until
  the deadline (`docker_swarm_executor.py:374`); a PBS job in state E or purged reads as
  exit -1. A failed pod that Kubernetes replaces (`backoff_limit` > 0) and a failed or lost
  allocation that Nomad reschedules read as the job's failure: the job runs on with nobody
  waiting for it. A submission whose answer is lost leaves a job that no handle names.
- Uploader (`OnlyLateFilesAreStranded`). `upload_file()` checks `_closed` under the lock and
  puts outside it (`storage/__init__.py:774`): a file may land behind the end markers, and is
  then neither uploaded nor reported.
- Uploader (`CloseEnds`, `WaitsForLateFile`). "An auxiliary storage outage must never stall
  teardown past the bound", says `close()` (`storage/__init__.py:875`). On Azure it may: the
  drain ends in time, a file whose `put()` raced with `close()` is taken by a worker, its
  attempt hangs, the workers' join times out, and `shutdown(wait=True)` (line 900) waits for
  that attempt without a bound. `CloseEnds` excepts exactly this wait.
- Coordinator (`Patch`). The status of one sample, sent by its worker as
  `api-contracts/coordinator-and-result-streaming.md` asks (`.agents/skills/_shared/`, section
  3.2), is written into the campaign (`api/coordinator.py:694`): the first report makes the
  campaign `completed` or `failed`, after which no event moves it to `aggregating` and
  the aggregation refuses it, unlike what `ArrayCompletion` says of the aggregator deciding
  the final status. In this commit the worker sends its own run's campaign id, so the report
  reaches a record only if the ids agree.
- Coordinator (`Submit`, `ResultsAreFinal`). A second submission resets a campaign in any
  state, and the arrays of both then write the same keys; a submission whose answer is lost
  runs an array that no record names; `array_size` is not compared with the samples.
- Coordinator (`Restart`, `Handoff`). The records are lost and the outdir's handoff record
  still answers "already handed off", so that the same command cannot be handed off again. A
  lost answer is reported as "No campaign was created" (`__main__.py:223-233`), when one may
  have been; that re-running is safe is `OneCampaignPerCommand`.
- Coordinator (`ChildEnds`). A child that dies before it publishes, or whose publishing raised
  (`kpis.py:451` goes on), is in neither of the aggregated files.

- Detached submission (`PassOver`, `HandoffNamesJobs`). A pause or an exceeded quota breaks out
  of the submission loop, and `_finish_detached_submit` then lists every sample as submitted;
  those passed over have no job, a re-run answers "already submitted", and nobody submits them.
  The failure recording that the comment at `steps.py:1064-1068` relies on is not reached.
- Detached submission (`Adopts`). A recorded job that has failed since is adopted by the next
  submitter; only an unrecorded one is looked up with `_find_existing_job`, which passes over
  failed jobs (`steps.py:1085`).
- Detached submission (`WriteHandoff`, `SubmitJob`). A superseded submitter may still submit one
  sample, and as `write_handoff` does not look at the claim, replace the handoff of its successor.
  A cancel signal during the loop sets a flag that the loop does not read.

`mark_completed` documents a `FileNotFoundError` for a job that is not active
(`journal.py:184-186`); the code and its tests skip it silently, and so does `Mark`. A job
torn during one mark and given the other outcome by the next run ends in both
`completed` and `failed`; the search order then hides the later outcome. The refinement
allows it, since the source promises neither.

## 6. Not modelled

- Of the executors: local, Slurm and Dask handles, the development fallback of Swarm, the
  building of job descriptions, the rate limiter, `result(timeout=None)`.
- Of the uploader: the storage backends, and calls of `close()` after the first.
- Of the coordinator: permissions, bucket policy, presigned URLs, read-only endpoints, the
  notification backends, contents of results.
- Heartbeats and their clock: a heartbeat is stale or not. The cost, step and generation
  records of `run.json`, its corruption.
- Of detached campaigns: the status and list commands, which only read the bucket, the staging
  of inputs, the payload's signature and the shard manifests; two jobs of one sample publishing
  into the same keys. Hooks beyond their failure.
- Cache keys and eviction. The invalidation broadcasts of the distributed cache: outside the
  tests nothing calls `invalidate_*`, and a node subscribes only when it first calls one, so
  that a node which never does would not hear the others, unlike what the class says.
- The messages of the control plane, task dispatch, data points, alerting.
- Sampling and optimisation algorithms, configuration, measures, importers, exporters,
  CLI, HTTP routes: parsing, numerics and formatting without interacting state. They are most
  of the repository's lines, which is why the modules map to a small part of them.

## 7. Plan

1. `CircuitBreaker`, `BreakerClients`, `FanOut`, `JobJournal`, `CampaignRun`,
   `ResultUploader`, `PollingHandles`, `Coordinator`, `DetachedSubmit`, `DetachedResults`: done,
   and every safety property that a run checks is proved.
2. An abstract specification of the records of `CampaignRun` (what a reader of `run.json` may
   see), with the refinement proved.
3. `ControlPlane`: a `JobJournal` per node and a lossy, unordered channel; a message never
   un-finishes a job.
4. `DataPoints`: locked read-modify-write by several processes; task dispatch.
5. Quota in `CampaignRun`; Pareto ranking against a reference.
