-------------------------- MODULE DetachedResults ---------------------------
(* The results of a detached campaign: the attempts that Batch makes of a    *)
(* sample's job and what each leaves in the bucket (remote_runner.py), and   *)
(* `osimflow download --from-s3`, run again and again into one directory     *)
(* (cli/s3.py, s3_campaign.py, _work_scripts/aggregate_results.py).          *)
(*                                                                           *)
(* The handoff record is written and names a job for every sample, which is  *)
(* what DetachedSubmit shows of it. That job is here the only one of the     *)
(* sample: a second one that stands, which DetachedSubmit allows, would      *)
(* write the same keys. Of a sample's directory the model keeps              *)
(* the two markers, whether eplusout.sql is there, and whether its out.osw   *)
(* or eplusout.err tell of a failure. Keys are listed in their order, where  *)
(* a marker comes before the files, and the bucket is consistent.            *)
EXTENDS DetachedCampaign

CONSTANT MaxAttempts    \* of a job, by Batch's retry strategy

\* Samples are numbered in the order of their names.
ASSUME AttemptsAssumption == Samples \subseteq Nat /\ MaxAttempts \in Nat \ {0}

VARIABLES
    job,        \* per sample: the attempts of its job and where the last one is
    remote,     \* per sample: <campaign>/work/sim/<sample> in the bucket
    local,      \* per sample: <outdir>/work/sim/<sample>
    reader,     \* the download
    table,      \* aggregated_results.csv and failed_simulations.csv
    lost,       \* samples whose KPIs could not be read for the tables (history)
    untold      \* samples fetched and not in the tables since (history)

attemptVars == <<job, remote>>
diskVars    == <<local, table, lost, untold>>
resultsVars == <<attemptVars, diskVars, reader, faults>>

Working == {"running", "osw", "marker", "exit", "raised"}
Over    == {"SUCCEEDED", "FAILED"}
Places  == {"idle", "look", "fetch", "files", "aggregate",
            "failures", "returned"}

Markers == {"none", "failed", "retrying"}
Dirs    == [complete : BOOLEAN, marker : Markers, sql : BOOLEAN, bad : BOOLEAN]
Nothing == [complete |-> FALSE, marker |-> "none", sql |-> FALSE, bad |-> FALSE]

ResultsTypeOK ==
    /\ job \in [Samples -> [at : {"queued"} \union Working \union Over,
                            attempt : 0 .. MaxAttempts]]
    /\ {remote, local} \subseteq [Samples -> Dirs]
    /\ reader \in [at : Places,
                   partial : BOOLEAN,          \* --allow-partial
                   overlay : SUBSET Samples,   \* substrate_failures
                   complete : SUBSET Samples,  \* sample_states: "complete"
                   failed : SUBSET Samples,    \* and "failed"
                   todo : SUBSET Samples,
                   fetched : SUBSET Samples]
    /\ table \in [written : BOOLEAN, good : SUBSET Samples, failed : SUBSET Samples]
    /\ {lost, untold} \subseteq SUBSET Samples
    /\ faults \in 0 .. MaxFaults

NoDownload == [at |-> "idle", partial |-> FALSE, overlay |-> {}, complete |-> {},
               failed |-> {}, todo |-> {}, fetched |-> {}]

ResultsInit ==
    /\ job = [s \in Samples |-> [at |-> "queued", attempt |-> 0]]
    /\ remote = [s \in Samples |-> Nothing]
    /\ local = [s \in Samples |-> Nothing]
    /\ reader = NoDownload
    /\ table = [written |-> FALSE, good |-> {}, failed |-> {}]
    /\ lost = {} /\ untold = {}
    /\ faults = 0

-----------------------------------------------------------------------------
(* An attempt: remote_runner.main.                                           *)

JobAt(s, place)   == job[s].at = place
JobGoes(s, place) == job' = [job EXCEPT ![s].at = place]
Leaves(s, dir)    == remote' = [remote EXCEPT ![s] = dir]

(* Batch tries again an attempt that did not exit with 0, as often as the    *)
(* retry strategy says.                                                      *)
AttemptOver(s) ==
    JobGoes(s, IF job[s].attempt < MaxAttempts THEN "queued" ELSE "FAILED")

(* A later attempt first replaces the marker of an earlier one, if it can    *)
(* (_mark_retrying, best effort).                                            *)
StartAttempt(s) ==
    /\ JobAt(s, "queued")
    /\ job' = [job EXCEPT ![s] = [at |-> "running", attempt |-> @.attempt + 1]]
    /\ \/ job[s].attempt = 0 /\ UNCHANGED <<remote, faults>>
       \/ /\ job[s].attempt > 0
          /\ Leaves(s, [remote[s] EXCEPT !.marker = "retrying"])
          /\ UNCHANGED faults
       \/ job[s].attempt > 0 /\ Fault /\ UNCHANGED remote
    /\ UNCHANGED <<diskVars, reader>>

(* The step function raises, or an upload of what it returned does.          *)
Raises(s) ==
    /\ \/ JobAt(s, "running") /\ UNCHANGED faults
       \/ job[s].at \in {"running", "osw", "marker"} /\ Fault
    /\ JobGoes(s, "raised")
    /\ UNCHANGED <<remote, diskVars, reader>>

(* _upload_dir_strict, in the order of the names; the marker is last. The    *)
(* workflow may have failed although it left an eplusout.sql.                *)
(* A slip the checks must catch: a failed upload is logged and passed over.  *)
UploadsLeniently(s) ==
    /\ JobAt(s, "running")
    /\ \/ Leaves(s, [remote[s] EXCEPT !.sql = TRUE]) /\ UNCHANGED faults
       \/ Fault /\ UNCHANGED remote
    /\ JobGoes(s, "osw")
    /\ UNCHANGED <<diskVars, reader>>

UploadSql(s) ==
    /\ JobAt(s, "running")
    /\ Leaves(s, [remote[s] EXCEPT !.sql = TRUE])
    /\ JobGoes(s, "osw")
    /\ UNCHANGED <<diskVars, reader, faults>>

UploadOsw(s) ==
    /\ JobAt(s, "osw")
    /\ \E bad \in BOOLEAN : Leaves(s, [remote[s] EXCEPT !.bad = bad])
    /\ JobGoes(s, "marker")
    /\ UNCHANGED <<diskVars, reader, faults>>

UploadMarker(s) ==
    /\ JobAt(s, "marker")
    /\ Leaves(s, [remote[s] EXCEPT !.complete = TRUE])
    /\ JobGoes(s, "exit")
    /\ UNCHANGED <<diskVars, reader, faults>>

(* _upload_failure_artifacts: the diagnostics there are, over those of the   *)
(* attempts before, and the marker last.                                     *)
Diagnosed(s) == {[remote[s] EXCEPT !.bad = bad] : bad \in BOOLEAN}

UploadFailedMarker(s) ==
    /\ JobAt(s, "raised")
    /\ \E dir \in Diagnosed(s) : Leaves(s, [dir EXCEPT !.marker = "failed"])
    /\ AttemptOver(s)
    /\ UNCHANGED <<diskVars, reader, faults>>

Exit(s) ==
    /\ JobAt(s, "exit")
    /\ JobGoes(s, "SUCCEEDED")
    /\ UNCHANGED <<remote, diskVars, reader, faults>>

(* The container is killed, or fails outside the code above; or the upload   *)
(* of its diagnostics fails. Batch does not try again what ran too long or   *)
(* was terminated.                                                           *)
Killed(s) ==
    /\ job[s].at \in Working
    /\ Fault
    /\ AttemptOver(s) \/ JobGoes(s, "FAILED")
    /\ \E dir \in IF JobAt(s, "raised") THEN Diagnosed(s) ELSE {remote[s]} :
         Leaves(s, dir)
    /\ UNCHANGED <<diskVars, reader>>

-----------------------------------------------------------------------------
(* sample_states and pending_job_ids.                                        *)

Retrying == {s \in Samples : remote[s].marker = "retrying"}
Complete == {s \in Samples : remote[s].complete}

(* A marker that cannot be read is not known to say "retrying".              *)
Failed(misread) ==
    {s \in Samples \ Complete : \/ remote[s].marker = "failed"
                                \/ s \in Retrying \intersect misread}

Misread(misread) ==
    IF misread \intersect Retrying = {} THEN UNCHANGED faults ELSE Fault

(* A slip the checks must catch: any marker takes a sample off the list.     *)
Unmarked(misread) ==
    {s \in Samples \ Complete : remote[s].marker = "none" /\ s \notin misread}

Pending(misread) == Samples \ (Complete \union Failed(misread))

-----------------------------------------------------------------------------
(* osimflow download --from-s3.                                              *)

Reads(place) == reader.at = place

(* _substrate_failures: the jobs of samples without a terminal marker that   *)
(* are FAILED, or nothing when Batch cannot be asked. A marker that appears  *)
(* between the two calls is seen by the next look at the bucket.             *)
Launch ==
    /\ reader.at \in {"idle", "returned"}
    /\ \E partial \in BOOLEAN, misread \in SUBSET Retrying :
         \/ /\ Misread(misread)
            /\ reader' = [NoDownload EXCEPT !.at = "look", !.partial = partial,
                                  !.overlay = {s \in Pending(misread) : JobAt(s, "FAILED")}]
         \/ /\ Fault
            /\ reader' = [NoDownload EXCEPT !.at = "look", !.partial = partial]
    /\ UNCHANGED <<attemptVars, diskVars>>

(* download() reads the states again, and refuses an incomplete campaign.    *)
Look ==
    /\ Reads("look")
    /\ \E misread \in SUBSET Retrying :
         LET failed == Failed(misread) \union (reader.overlay \ Complete) IN
         /\ Misread(misread)
         /\ reader' =
              IF reader.partial \/ Complete \union failed = Samples
              THEN [reader EXCEPT !.complete = Complete, !.failed = failed,
                                  !.todo = Complete \union failed, !.at = "fetch",
                                  !.partial = FALSE]
              ELSE NoDownload
    /\ UNCHANGED <<attemptVars, diskVars>>

(* The local marker of the sample's state, for which it is skipped.          *)
IsLocal(s) == IF s \in reader.complete THEN local[s].complete
              ELSE local[s].marker # "none"

InHand  == CHOOSE s \in reader.todo : \A r \in reader.todo : s <= r
Fetched == [reader EXCEPT !.at = "fetch", !.todo = @ \ {InHand},
                          !.fetched = @ \union {InHand}]

Skip ==
    /\ Reads("fetch") /\ reader.todo # {}
    /\ IsLocal(InHand)
    /\ reader' = [reader EXCEPT !.todo = @ \ {InHand}]
    /\ UNCHANGED <<attemptVars, diskVars, faults>>

LeftNothing(s) == s \in reader.overlay /\ remote[s] = Nothing

(* A job that failed and left nothing: its reason becomes the marker. (With  *)
(* diagnostics alone, that tell of nothing, the sample is marked as well.)   *)
Materialise ==
    /\ Reads("fetch") /\ reader.todo # {}
    /\ ~IsLocal(InHand) /\ LeftNothing(InHand)
    /\ local' = [local EXCEPT ![InHand].marker = "failed"]
    /\ reader' = Fetched
    /\ UNCHANGED <<attemptVars, table, lost, untold, faults>>

(* The failure marker is the first key of the listing. It is passed over for *)
(* a complete sample.                                                        *)
FetchMarker ==
    /\ Reads("fetch") /\ reader.todo # {}
    /\ ~IsLocal(InHand) /\ ~LeftNothing(InHand)
    /\ local' = IF InHand \in reader.complete THEN local
                ELSE [local EXCEPT ![InHand].marker = remote[InHand].marker]
    /\ reader' = [reader EXCEPT !.at = "files"]
    /\ UNCHANGED <<attemptVars, table, lost, untold, faults>>

(* The files, and the local marker if it is not among them.                  *)
FetchFiles ==
    LET s == InHand IN
    /\ Reads("files")
    /\ local' = [local EXCEPT ![s] =
         [complete |-> @.complete \/ s \in reader.complete,
          marker   |-> IF s \in reader.failed /\ @.marker = "none" THEN "failed"
                       ELSE @.marker,
          sql      |-> @.sql \/ remote[s].sql,
          bad      |-> remote[s].bad]]
    /\ reader' = Fetched
    /\ UNCHANGED <<attemptVars, table, lost, untold, faults>>

(* A slip the checks must catch: the tables are written once.                *)
AggregatesOnce ==
    /\ Reads("fetch") /\ reader.todo = {}
    /\ reader' = [reader EXCEPT !.at = IF table.written THEN "returned" ELSE "aggregate",
                                !.overlay = {}]
    /\ UNCHANGED <<attemptVars, diskVars, faults>>

(* Nothing new, and the output is there: nothing is aggregated.              *)
FetchEnds ==
    /\ Reads("fetch") /\ reader.todo = {}
    /\ reader' = [reader EXCEPT !.at = IF reader.fetched = {} /\ table.written
                                       THEN "returned" ELSE "aggregate",
                                !.overlay = {}]
    /\ UNCHANGED <<attemptVars, diskVars, faults>>

-----------------------------------------------------------------------------
(* extract_kpis and aggregate_results.                                       *)

(* extract_failure, of what is on the disk.                                  *)
Failure(s) == local[s].marker = "failed" \/ local[s].bad \/ ~local[s].sql

(* An extraction that raises is logged, and the sample has no KPIs.          *)
WriteResults ==
    LET good == {s \in reader.complete : ~Failure(s)} IN
    /\ Reads("aggregate")
    /\ \E unread \in SUBSET good :
         /\ IF unread = {} THEN UNCHANGED faults ELSE Fault
         /\ lost' = unread
         /\ table' = [table EXCEPT !.written = TRUE, !.good = good \ unread]
    /\ reader' = [reader EXCEPT !.at = "failures"]
    /\ UNCHANGED <<attemptVars, local, untold>>

Told == reader.complete \union reader.failed

WriteFailures ==
    /\ Reads("failures")
    /\ table' = [table EXCEPT !.failed = {s \in Told : Failure(s)}]
    /\ untold' = {s \in Samples : local[s].complete \/ local[s].marker # "none"} \ Told
    /\ reader' = [reader EXCEPT !.at = "returned", !.fetched = {}]
    /\ UNCHANGED <<attemptVars, local, lost, faults>>

(* A call on the bucket or the aggregation raises, or the command is killed. *)
CutOff ==
    /\ reader.at \notin {"idle", "returned"}
    /\ Fault
    /\ reader' = NoDownload
    /\ untold' = untold \union reader.fetched
                  \union (IF Reads("files") THEN {InHand} ELSE {})
    /\ UNCHANGED <<attemptVars, local, table, lost>>

Attempt(s) ==
    \/ StartAttempt(s) \/ Raises(s) \/ UploadSql(s) \/ UploadOsw(s) \/ UploadMarker(s)
    \/ UploadFailedMarker(s) \/ Exit(s)

Download ==
    \/ Launch \/ Look
    \/ Skip \/ Materialise \/ FetchMarker \/ FetchFiles \/ FetchEnds
    \/ WriteResults \/ WriteFailures \/ CutOff

ResultsNext == Download \/ \E s \in Samples : Attempt(s) \/ Killed(s)

ResultsSpec == ResultsInit /\ [][ResultsNext]_resultsVars

(* Batch runs the attempts. Nobody has to run a download.                    *)
ResultsFairSpec == ResultsSpec /\ \A s \in Samples : WF_resultsVars(Attempt(s))

-----------------------------------------------------------------------------
(* "Workers finish it with an empty _OSIMFLOW_COMPLETE marker": a directory  *)
(* that has it, in the bucket or on the disk, has the results, whichever     *)
(* attempts died before; a job that succeeded has left one; and a row of     *)
(* results is that of a sample that has one.                                 *)
SuccessIsWhole ==
    \A s \in Samples :
        /\ remote[s].complete => remote[s].sql
        /\ local[s].complete => local[s].sql
        /\ JobAt(s, "SUCCEEDED") => remote[s].complete
        /\ s \in table.good => remote[s].complete

(* "mutually exclusive pass/fail rows": when a download returns, a finished  *)
(* sample is in one table and not in both, and a success with nothing bad on *)
(* the disk is a result. Not for what KPI extraction dropped, what the last  *)
(* tables were written without, and what was once fetched in another state.  *)
FinishedHasARow ==
    Reads("returned") =>
        \A s \in Told \ (lost \union untold) :
            /\ s \in table.good => s \notin table.failed
            /\ s \in reader.complete /\ local[s].marker # "failed" /\ ~local[s].bad =>
                 s \in table.good
            /\ s \in reader.failed /\ local[s].marker = "failed" => s \in table.failed

(* Every campaign comes to an end that a download accepts, however its jobs  *)
(* were killed and whatever markers they left.                               *)
FinishedNow == Complete \union Failed({})
                 \union {s \in Pending({}) : JobAt(s, "FAILED")}

EventuallyDownloadable == <>[](FinishedNow = Samples)

-----------------------------------------------------------------------------
(* Two sentences of s3_campaign.py that the code does not keep; no run       *)
(* checks them, README.md says how they fail.                                *)

(* "A Batch retry that eventually succeeds is reported as complete".         *)
RetrySucceeds ==
    Reads("returned") =>
        \A s \in reader.complete \ (lost \union untold) :
            ~local[s].bad => s \in table.good

(* "Repeated calls are idempotent".                                          *)
RepeatIsHarmless ==
    Reads("returned") => Told \ lost \subseteq table.good \union table.failed

=============================================================================
