---------------------------- MODULE CampaignRun ----------------------------
(***************************************************************************)
(* The runs of a campaign in one output directory: Campaign.run of         *)
(* campaign/runner.py over its steps, the run.json document that the runs  *)
(* and the REST service write, the .stop and .pause flag files, and the    *)
(* clients that raise and clear them.                                      *)
(*                                                                         *)
(* Runs are numbered in the order in which they are launched; each is a    *)
(* process. A fan-out step is coarse here (module FanOut has its inside):  *)
(* each of its samples ends well or badly and is checkpointed in run.json, *)
(* and the loop that awaits them reads the flags. The error paths inside   *)
(* a step are the action Fails. With --detach-s3 the simulations are only  *)
(* submitted (DetachedSubmit has that inside), and the run ends there.     *)
(***************************************************************************)
EXTENDS Naturals, FiniteSets

CONSTANTS Samples,         \* the samples of a full campaign
          Target,          \* the one that a dry or single-sample run processes
          MaxRuns,         \* bound on launches
          MaxGenerations,  \* cfg.max_generations
          Modes,           \* "full", "dry", "single": the modes of the instance
          Widths,          \* "sequential" (max_workers <= 1), "concurrent"
          Detach,          \* values of --detach-s3 in the instance
          Faults,          \* what may fail
          Requests,        \* what clients, signals and the machine may do
          Hurried          \* TRUE: "osimflow resume" follows run.json alone

ASSUME CampaignAssumption ==
    /\ IsFiniteSet(Samples) /\ Target \in Samples
    /\ {MaxRuns, MaxGenerations} \subseteq Nat \ {0}
    /\ Modes \subseteq {"full", "dry", "single"}
    /\ Widths \subseteq {"sequential", "concurrent"}
    /\ Detach \subseteq BOOLEAN
    /\ Faults \subseteq {"init", "step", "checkpoint", "write", "teardown"}
    /\ Requests \subseteq {"cancel", "signal", "crash", "pause", "unpause",
                           "park", "unpark", "resume"}
    /\ Hurried \in BOOLEAN

VARIABLES run,     \* the state of each run (process), see RunStates
          doc,     \* run.json
          stop,    \* the .stop file exists
          pause,   \* the .pause file exists
          client,  \* how far each client operation has got
          plan     \* the recorded invocation: mode, width and --detach-s3

vars == <<run, doc, stop, pause, client, plan>>

Runs    == 1..MaxRuns
FanOuts == {"apply", "simulate", "extract"}
Steps   == FanOuts \cup {"generate", "aggregate", "plots", "done"}
Clients == Requests \cap {"pause", "unpause", "park", "unpark"}

Rows     == [Samples -> {"none", "ok", "failed"}]
NoRows   == [s \in Samples |-> "none"]
Statuses == {"running", "success", "cancelled", "failure", "paused", "detached"}

(* by is the run named by campaign_id; 0 in the stub that the REST service *)
(* writes, which has nothing but a status. NoDoc also marks an idle copy.  *)
Docs  == [status : Statuses \cup {"absent"}, finished : BOOLEAN,
          rows : Rows, by : 0..MaxRuns]
NoDoc == [status |-> "absent", finished |-> FALSE, rows |-> NoRows, by |-> 0]

Locations == {"unborn", "entry", "start", "poll", "head", "enter", "gate", "work",
              "drain", "submitting", "wrap", "wrapGate", "finish", "settle", "pausing",
              "interrupted", "failing", "teardown", "close",
              "ended", "escaped", "dead"}

RunStates ==
    [at        : Locations,
     step      : Steps,
     gen       : 0..MaxGenerations,       \* generations completed
     todo      : SUBSET Samples,          \* submitted, not yet awaited
     busy      : SUBSET Samples,          \* the one the sequential loop awaits
     got       : SUBSET Samples,          \* outputs of the current or last step
     awaited   : BOOLEAN,                 \* the step's wait loop has had work
     known     : BOOLEAN,                 \* _sample_state has its keys
     exit      : [Samples -> [FanOuts -> {"none", "ok", "failed"}]],
     copy      : Docs,                    \* run.json merged with a row, not yet renamed
     rows      : Rows,                    \* trace.per_sample
     status    : Statuses,                \* trace.status
     finished  : BOOLEAN,                 \* trace.finished_at is set
     cancel    : BOOLEAN,                 \* the sticky in-memory flag
     signalled : BOOLEAN,                 \* a signal was handled before
     outcome   : Statuses,                \* campaign_status
     registry  : Statuses \cup {"none"},  \* the run's entry in the registry
     asked     : BOOLEAN,   \* history: a cancel was visible while a poll was ahead
     resumed   : BOOLEAN,   \* history: launched by osimflow resume
     disturbed : BOOLEAN]   \* history: a request or a fault reached a resumed run

Unborn ==
    [at |-> "unborn", step |-> "generate", gen |-> 0, todo |-> {}, busy |-> {},
     got |-> {}, awaited |-> FALSE, known |-> FALSE,
     exit |-> [s \in Samples |-> [f \in FanOuts |-> "none"]],
     copy |-> NoDoc, rows |-> NoRows, status |-> "running", finished |-> FALSE,
     cancel |-> FALSE, signalled |-> FALSE, outcome |-> "failure",
     registry |-> "none", asked |-> FALSE, resumed |-> FALSE, disturbed |-> FALSE]

\* --detach-s3 refuses several generations, and a dry run takes the local executor.
Detachable(mode) == mode = "single" \/ (mode = "full" /\ MaxGenerations = 1)

Init ==
    /\ run = [r \in Runs |-> Unborn]
    /\ doc = NoDoc
    /\ stop = FALSE /\ pause = FALSE
    /\ client = [c \in Clients |-> "idle"]
    /\ plan \in {p \in [mode : Modes, width : Widths, detach : Detach] :
                   p.detach => Detachable(p.mode)}

Full  == plan.mode = "full"
Scope == IF Full THEN Samples ELSE {Target}

\* The step that only submits its samples: nothing is awaited, no cancel is read any more.
Submits(step) == plan.detach /\ step = "simulate"

Ends       == {"unborn", "ended", "escaped", "dead"}
Alive(r)   == run[r].at \notin Ends
NobodyAlive == \A r \in Runs : ~Alive(r)

\* check_cancel_requested: the flag in memory, or the .stop file, which latches it.
Heard(r) == run[r].cancel \/ stop

\* _io_lock is free: no checkpoint of this run is between its read and its rename.
Unlocked(r) == run[r].copy = NoDoc

\* _build_sample_trace: "ok" when all three exit codes are 0, absent ones count as bad.
RowOf(codes) == IF \A f \in FanOuts : codes[f] = "ok" THEN "ok" ELSE "failed"

\* finalize_samples: trace.per_sample is filled from _sample_state.
Report(r) == [s \in Samples |-> IF run[r].known /\ s \in Scope
                                THEN RowOf(run[r].exit[s]) ELSE "none"]

\* RunTrace.write: the file becomes what the trace holds in memory.
Written(r, state) ==
    [status |-> state.status, finished |-> state.finished, rows |-> state.rows, by |-> r]

\* A run moves to a new state without, or with, a write of run.json.
Moves(r, state)  == run' = [run EXCEPT ![r] = state]
Writes(r, state) == Moves(r, state) /\ doc' = Written(r, state)

\* A write whose failure is logged, or leaves a handler and is followed by the finally
\* block all the same.
TriesToWrite(r, state) ==
    \/ Writes(r, state)
    \/ "write" \in Faults /\ Moves(r, state) /\ UNCHANGED doc

Flags == <<stop, pause, client, plan>>

-----------------------------------------------------------------------------
(* Start of a run.                                                         *)

\* Handlers installed, campaign registered; a re-run of the same invocation
\* keeps whatever flag files the directory has.
Launch(r, byResume) ==
    /\ run[r].at = "unborn"
    /\ \A q \in Runs : q < r => run[q].at # "unborn"
    /\ Moves(r, [run[r] EXCEPT !.at = "entry", !.registry = "running", !.asked = stop,
                               !.resumed = byResume, !.disturbed = byResume /\ stop])
    /\ UNCHANGED <<doc, stop, client, plan>>

Run(r) ==
    /\ NobodyAlive
    /\ Launch(r, FALSE)
    /\ UNCHANGED pause

\* A slip the checks must catch: resume leaves the pause file where it is.
ResumeKeepsPause(r) ==
    /\ "resume" \in Requests
    /\ r # 1 /\ doc.status = "paused"
    /\ Hurried \/ NobodyAlive
    /\ Launch(r, TRUE)
    /\ UNCHANGED pause

\* osimflow resume: refuses unless run.json says paused, clears the flag, launches
\* the invocation that an earlier run has recorded.
Resume(r) ==
    /\ "resume" \in Requests
    /\ r # 1 /\ doc.status = "paused"
    /\ Hurried \/ NobodyAlive
    /\ Launch(r, TRUE)
    /\ pause' = FALSE

Precheck(r) ==
    /\ run[r].at = "entry"
    /\ Moves(r, IF Heard(r) THEN [run[r] EXCEPT !.at = "interrupted", !.cancel = TRUE]
                            ELSE [run[r] EXCEPT !.at = "start"])
    /\ UNCHANGED <<doc, Flags>>

\* Quota and init hook passed: run.json is replaced by an empty running trace.
Start(r) ==
    /\ run[r].at = "start"
    /\ Writes(r, [run[r] EXCEPT
                    !.at   = IF Full THEN "head" ELSE "poll",
                    !.step = IF plan.mode = "single" THEN "apply" ELSE "generate"])
    /\ UNCHANGED Flags

\* The quota is exceeded or the init hook fails: run.json is not written here.
StartFails(r) ==
    /\ "init" \in Faults
    /\ run[r].at = "start"
    /\ Moves(r, [run[r] EXCEPT !.at = "failing", !.disturbed = run[r].resumed])
    /\ UNCHANGED <<doc, Flags>>

-----------------------------------------------------------------------------
(* The way through the steps.                                              *)

Following == [generate |-> "apply", apply |-> "simulate", simulate |-> "extract"]

\* A slip the checks must catch: the generation counter is not advanced.
AdvancedSameGeneration(me) ==
    CASE me.step = "aggregate" -> [me EXCEPT !.at = "enter", !.step = "plots"]
      [] me.step = "plots"     -> [me EXCEPT !.at = "finish", !.step = "done"]
      [] me.step = "extract"   -> IF Full THEN [me EXCEPT !.at = "head"]
                                          ELSE [me EXCEPT !.at = "poll", !.step = "done"]
      [] OTHER -> [me EXCEPT !.at = IF Full THEN "enter" ELSE "poll",
                             !.step = Following[me.step]]

\* Where a run goes when its step is over.
Advanced(me) ==
    CASE me.step = "aggregate" -> [me EXCEPT !.at = "enter", !.step = "plots"]
      [] me.step = "plots"     -> [me EXCEPT !.at = "finish", !.step = "done"]
      [] me.step = "extract"   -> IF Full
                                  THEN [me EXCEPT !.at = "head", !.gen = @ + 1]
                                  ELSE [me EXCEPT !.at = "poll", !.step = "done"]
      [] OTHER -> [me EXCEPT !.at = IF Full THEN "enter" ELSE "poll",
                             !.step = Following[me.step]]

\* A cancelled trace with the samples known so far; the run returns normally.
Partial(r) ==
    [run[r] EXCEPT !.at = "settle", !.cancel = TRUE, !.rows = Report(r),
                   !.status = "cancelled", !.finished = TRUE]

\* A slip the checks must catch: no poll before the last write (issue #621).
PollNotBeforeLastWrite(r) ==
    /\ run[r].at = "poll"
    /\ IF Heard(r) /\ run[r].step # "done"
       THEN Writes(r, Partial(r))
       ELSE /\ Moves(r, [run[r] EXCEPT !.at = IF run[r].step = "done" THEN "finish"
                                                                      ELSE "enter"])
            /\ UNCHANGED doc
    /\ UNCHANGED Flags

\* Dry and single-sample runs poll between their steps and before the last write.
Poll(r) ==
    /\ run[r].at = "poll"
    /\ IF Heard(r)
       THEN Writes(r, Partial(r))
       ELSE /\ Moves(r, [run[r] EXCEPT !.at = IF run[r].step = "done" THEN "finish"
                                                                      ELSE "enter"])
            /\ UNCHANGED doc
    /\ UNCHANGED Flags

\* The generation loop goes on, ...
NextGeneration(r) ==
    /\ run[r].at = "head"
    /\ ~Heard(r) /\ run[r].gen < MaxGenerations
    /\ Moves(r, [run[r] EXCEPT !.at = "enter", !.step = "generate"])
    /\ UNCHANGED <<doc, Flags>>

\* ... or ends: cancelled, exhausted, converged, or the algorithm is not iterative.
LastGeneration(r) ==
    /\ run[r].at = "head"
    /\ Heard(r) \/ run[r].gen > 0
    /\ Moves(r, [run[r] EXCEPT !.at = "wrap", !.step = "aggregate", !.cancel = Heard(r)])
    /\ UNCHANGED <<doc, Flags>>

\* Every step first reads the cancel request, and a fan-out then the pause file.
Enter(r) ==
    /\ run[r].at = "enter"
    /\ Moves(r, CASE Heard(r) -> [run[r] EXCEPT !.at = "interrupted", !.cancel = TRUE]
                  [] ~Heard(r) /\ run[r].step \in FanOuts -> [run[r] EXCEPT !.at = "gate"]
                  [] OTHER -> [run[r] EXCEPT !.at = "work"])
    /\ UNCHANGED <<doc, Flags>>

\* write_paused_trace, and raise CampaignPauseRequested.
PausesAt(r, location) ==
    /\ run[r].at = location
    /\ pause
    /\ TriesToWrite(r, [run[r] EXCEPT !.at = "pausing", !.status = "paused"])
    /\ UNCHANGED Flags

\* The fan-out begins: some of its inputs are cache hits, the others are submitted.
FanOutBegins(r) ==
    /\ run[r].at = "gate" /\ ~pause /\ ~Submits(run[r].step)
    /\ LET me     == run[r]
           inputs == IF me.step = "apply" THEN Scope ELSE me.got
       IN \E cached \in SUBSET inputs :
            Moves(r, [me EXCEPT
                !.at = "work", !.known = TRUE, !.awaited = FALSE,
                !.todo = inputs \ cached, !.got = cached,
                !.exit = [s \in Samples |->
                            IF s \in cached THEN [me.exit[s] EXCEPT ![me.step] = "ok"]
                                            ELSE me.exit[s]]])
    /\ UNCHANGED <<doc, Flags>>

\* The jobs are submitted and handed off, and CampaignDetached is raised.
Detaches(r) ==
    /\ run[r].at = "gate" /\ ~pause /\ Submits(run[r].step)
    /\ Moves(r, [run[r] EXCEPT !.at = "submitting"])
    /\ UNCHANGED <<doc, Flags>>

\* GENERATE_SAMPLES, AGGREGATE_RESULTS and GENERATE_BASIC_PLOTS have no samples to await.
PlainStep(r) ==
    /\ run[r].at = "work" /\ run[r].step \notin FanOuts
    /\ Moves(r, Advanced(run[r]))
    /\ UNCHANGED <<doc, Flags>>

\* Where an exception may come from: a step and its closing pass, the code between two
\* steps, the last write and what follows it, the partial trace before aggregation.
MayRaise(r) ==
    \/ run[r].at \in {"head", "poll", "work", "submitting", "finish"}
    \/ run[r].at = "drain" /\ (run[r].todo = {} \/ run[r].cancel)
    \/ run[r].at = "wrap" /\ Heard(r)
    \/ run[r].at = "settle" /\ run[r].status # "cancelled"

Fails(r) ==
    /\ "step" \in Faults
    /\ MayRaise(r) /\ Unlocked(r)
    /\ Moves(r, [run[r] EXCEPT !.at = "failing", !.disturbed = run[r].resumed])
    /\ UNCHANGED <<doc, Flags>>

-----------------------------------------------------------------------------
(* Inside a fan-out. The sequential loop awaits one sample at a time and   *)
(* reads the flags before each; the concurrent one has a thread for each   *)
(* and reads the flags whenever a wait returns.                            *)

Sequential == plan.width = "sequential"
InFanOut(r) == run[r].at = "work" /\ run[r].step \in FanOuts

\* The pause file appears while samples are submitted: s is passed over for good.
Skips(r, s) ==
    /\ InFanOut(r) /\ ~run[r].awaited
    /\ pause /\ s \in run[r].todo \ run[r].busy
    /\ Moves(r, [run[r] EXCEPT !.todo = @ \ {s}, !.exit[s][run[r].step] = "failed"])
    /\ UNCHANGED <<doc, Flags>>

Takes(r, s) ==
    /\ InFanOut(r) /\ Sequential
    /\ run[r].busy = {} /\ Unlocked(r) /\ s \in run[r].todo
    /\ ~Heard(r) /\ ~pause
    /\ Moves(r, [run[r] EXCEPT !.busy = {s}, !.awaited = TRUE])
    /\ UNCHANGED <<doc, Flags>>

\* s is done: its exit code is recorded and its checkpoint reads run.json.
Completes(r, s, code) ==
    LET me    == run[r]
        codes == [me.exit[s] EXCEPT ![me.step] = code]
    IN /\ me.at \in {"work", "drain"} /\ Unlocked(r)
       /\ s \in (IF Sequential THEN me.busy ELSE me.todo)
       /\ Moves(r, [me EXCEPT !.todo = @ \ {s}, !.busy = {}, !.awaited = TRUE,
                              !.got = IF code = "ok" THEN @ \cup {s} ELSE @,
                              !.exit[s] = codes,
                              !.copy = [doc EXCEPT !.rows[s] = RowOf(codes)]])
       /\ UNCHANGED <<doc, Flags>>

\* The checkpoint renames its copy over run.json.
Checkpoints(r) ==
    /\ ~Unlocked(r)
    /\ Moves(r, [run[r] EXCEPT !.copy = NoDoc])
    /\ doc' = run[r].copy
    /\ UNCHANGED Flags

\* The checkpoint fails; fewer than three in a row are only logged.
CheckpointFails(r) ==
    /\ "checkpoint" \in Faults
    /\ ~Unlocked(r)
    /\ Moves(r, [run[r] EXCEPT !.copy = NoDoc])
    /\ UNCHANGED <<doc, Flags>>

\* Sequential: KeyboardInterrupt from the loop, or after it for the flag in memory.
LoopHears(r) ==
    /\ InFanOut(r) /\ Sequential
    /\ run[r].busy = {} /\ Unlocked(r)
    /\ IF run[r].todo # {} THEN Heard(r) ELSE run[r].cancel /\ run[r].awaited
    /\ Moves(r, [run[r] EXCEPT !.at = "interrupted", !.cancel = TRUE])
    /\ UNCHANGED <<doc, Flags>>

LoopPauses(r) ==
    /\ InFanOut(r) /\ Sequential
    /\ run[r].busy = {} /\ Unlocked(r) /\ run[r].todo # {}
    /\ ~Heard(r)
    /\ PausesAt(r, "work")

\* Concurrent: the wait loop returns without an exception and the pool is drained.
WaitHears(r) ==
    /\ InFanOut(r) /\ ~Sequential
    /\ run[r].awaited \/ run[r].todo # {}
    /\ Heard(r)
    /\ Moves(r, [run[r] EXCEPT !.at = "drain", !.cancel = TRUE])
    /\ UNCHANGED <<doc, Flags>>

WaitPauses(r) ==
    /\ InFanOut(r) /\ ~Sequential /\ Unlocked(r)
    /\ run[r].awaited \/ run[r].todo # {}
    /\ ~Heard(r) /\ pause
    /\ TriesToWrite(r, [run[r] EXCEPT !.at = "drain", !.status = "paused"])
    /\ UNCHANGED Flags

\* The last wait saw no flag, or nothing was awaited, or the pool is drained; the
\* closing pass fails the samples that a bounded drain abandons.
FanOutEnds(r) ==
    LET me == run[r]
        quiet == IF Sequential THEN ~me.cancel ELSE ~Heard(r) /\ ~pause
    IN /\ me.step \in FanOuts /\ Unlocked(r) /\ me.busy = {}
       /\ \/ me.at = "work" /\ me.todo = {} /\ (quiet \/ ~me.awaited)
          \/ me.at = "drain" /\ (me.todo = {} \/ me.cancel)
       /\ Moves(r, Advanced([me EXCEPT
                     !.todo = {},
                     !.exit = [s \in Samples |->
                                 IF s \in me.todo
                                 THEN [me.exit[s] EXCEPT ![me.step] = "failed"]
                                 ELSE me.exit[s]]]))
       /\ UNCHANGED <<doc, Flags>>

-----------------------------------------------------------------------------
(* The end of a run.                                                       *)

Wrap(r) ==
    /\ run[r].at = "wrap"
    /\ IF Heard(r) THEN Writes(r, Partial(r))
                   ELSE Moves(r, [run[r] EXCEPT !.at = "wrapGate"]) /\ UNCHANGED doc
    /\ UNCHANGED Flags

Aggregates(r) ==
    /\ run[r].at = "wrapGate" /\ ~pause
    /\ Moves(r, [run[r] EXCEPT !.at = "enter"])
    /\ UNCHANGED <<doc, Flags>>

\* A slip the checks must catch: the trace is written without its samples.
FinishWithoutSamples(r) ==
    /\ run[r].at = "finish"
    /\ Writes(r, [run[r] EXCEPT !.at = "settle", !.finished = TRUE])
    /\ UNCHANGED Flags

\* finalize_samples, finalize and write; the status is not settled yet.
Finish(r) ==
    /\ run[r].at = "finish"
    /\ Writes(r, [run[r] EXCEPT !.at = "settle", !.rows = Report(r), !.finished = TRUE])
    /\ UNCHANGED Flags

\* A slip the checks must catch: the trace is not told the outcome.
SettleQuietly(r) ==
    /\ run[r].at = "settle"
    /\ Moves(r, [run[r] EXCEPT !.at = "teardown",
                               !.outcome = IF run[r].status = "cancelled"
                                           THEN "cancelled" ELSE "success"])
    /\ UNCHANGED <<doc, Flags>>

Settle(r) ==
    LET settled == IF run[r].status \in {"cancelled", "paused"}
                   THEN run[r].status ELSE "success"
    IN /\ run[r].at = "settle"
       /\ Moves(r, [run[r] EXCEPT !.at = "teardown", !.status = settled,
                                  !.outcome = settled])
       /\ UNCHANGED <<doc, Flags>>

\* except CampaignPauseRequested
HandlePause(r) ==
    /\ run[r].at = "pausing"
    /\ TriesToWrite(r, [run[r] EXCEPT !.at = "teardown", !.status = "paused",
                                      !.outcome = "paused"])
    /\ UNCHANGED Flags

\* except KeyboardInterrupt
HandleInterrupt(r) ==
    /\ run[r].at = "interrupted"
    /\ TriesToWrite(r, [run[r] EXCEPT !.at = "teardown", !.status = "cancelled",
                                      !.outcome = "cancelled", !.finished = TRUE])
    /\ UNCHANGED Flags

\* except CampaignDetached
HandleDetach(r) ==
    /\ run[r].at = "submitting"
    /\ TriesToWrite(r, [run[r] EXCEPT !.at = "teardown", !.status = "detached",
                                      !.outcome = "detached", !.finished = TRUE])
    /\ UNCHANGED Flags

\* except Exception
HandleFailure(r) ==
    /\ run[r].at = "failing"
    /\ Moves(r, [run[r] EXCEPT !.at = "teardown", !.status = "failure",
                               !.outcome = "failure", !.finished = TRUE])
    /\ UNCHANGED <<doc, Flags>>

\* finally: run.json, if there is one, is written again, ...
Teardown(r) ==
    /\ run[r].at = "teardown"
    /\ Moves(r, [run[r] EXCEPT !.at = "close"])
    /\ doc' = IF doc.status = "absent" THEN doc ELSE Written(r, run[r])
    /\ UNCHANGED Flags

\* ... unless that write raises, ...
TeardownFails(r) ==
    /\ "teardown" \in Faults
    /\ run[r].at = "teardown"
    /\ Moves(r, [run[r] EXCEPT !.at = "escaped", !.disturbed = run[r].resumed])
    /\ UNCHANGED <<doc, Flags>>

\* ... and the registry learns the outcome.
Close(r) ==
    /\ run[r].at = "close"
    /\ Moves(r, [run[r] EXCEPT !.at = "ended", !.registry = run[r].outcome])
    /\ UNCHANGED <<doc, Flags>>

-----------------------------------------------------------------------------
(* Requests.                                                               *)

\* A cancel that becomes visible now is read by a check that the run still has ahead.
PollAhead(r) ==
    \/ run[r].at \in {"entry", "start", "poll", "head", "enter", "drain", "wrap", "wrapGate"}
    \/ run[r].at = "gate" /\ ~Submits(run[r].step)
    \/ run[r].at = "work" /\ run[r].step # "plots"

Disturbed == [r \in Runs |-> IF Alive(r) THEN [run[r] EXCEPT !.disturbed = run[r].resumed]
                                         ELSE run[r]]

\* POST /campaign/stop writes the file unconditionally; osimflow cancel and
\* POST /campaigns/{id}/cancel do so while run.json has no finished_at.
Stop ==
    /\ "cancel" \in Requests
    /\ ~stop /\ stop' = TRUE
    /\ run' = [r \in Runs |-> [Disturbed[r] EXCEPT !.asked = @ \/ PollAhead(r)]]
    /\ UNCHANGED <<doc, pause, client, plan>>

\* The first signal requests a cancel and the second one kills; once the handlers
\* are restored, KeyboardInterrupt leaves the finally block.
Signal(r) ==
    /\ "signal" \in Requests
    /\ Alive(r)
    /\ LET me == Disturbed[r] IN
       Moves(r, IF me.at \in {"teardown", "close"} THEN [me EXCEPT !.at = "escaped"]
                ELSE IF me.signalled THEN [me EXCEPT !.at = "dead", !.copy = NoDoc]
                ELSE [me EXCEPT !.signalled = TRUE, !.cancel = TRUE,
                                !.asked = @ \/ PollAhead(r)])
    /\ UNCHANGED <<doc, Flags>>

Crash(r) ==
    /\ "crash" \in Requests
    /\ Alive(r)
    /\ Moves(r, [Disturbed[r] EXCEPT !.at = "dead", !.copy = NoDoc])
    /\ UNCHANGED <<doc, Flags>>

\* A client reads run.json. Operations on the campaign directory ("pause": CLI and
\* POST /campaign/pause, "unpause": DELETE) and by id ("park", "unpark") differ in
\* the conditions under which they refuse.
Accepts(c) ==
    CASE c \in {"pause", "park"} -> ~doc.finished /\ doc.status # "paused"
      [] c = "unpause" -> doc.status \in {"absent", "paused"}
      [] c = "unpark"  -> ~doc.finished /\ doc.status \in {"absent", "paused"}

Check(c) ==
    /\ client[c] = "idle" /\ Accepts(c)
    /\ client' = [client EXCEPT ![c] = "checked"]
    /\ UNCHANGED <<run, doc, stop, pause, plan>>

\* It then writes or removes the flag file, ...
Flag(c) ==
    /\ client[c] = "checked"
    /\ client' = [client EXCEPT ![c] = IF c \in {"park", "unpark"} THEN "flagged"
                                                                   ELSE "idle"]
    /\ pause' = (c \in {"pause", "park"})
    /\ run' = Disturbed
    /\ UNCHANGED <<doc, stop, plan>>

\* ... and the operations by id replace run.json by a status.
Stub(c) ==
    /\ client[c] = "flagged"
    /\ client' = [client EXCEPT ![c] = "idle"]
    /\ doc' = [NoDoc EXCEPT !.status = IF c = "park" THEN "paused" ELSE "running"]
    /\ run' = Disturbed
    /\ UNCHANGED <<stop, pause, plan>>

-----------------------------------------------------------------------------

FanOutStep(r) ==
    \/ FanOutBegins(r) \/ Detaches(r) \/ Checkpoints(r) \/ CheckpointFails(r)
    \/ LoopHears(r) \/ LoopPauses(r) \/ WaitHears(r) \/ WaitPauses(r) \/ FanOutEnds(r)
    \/ \E s \in Samples : \/ Skips(r, s) \/ Takes(r, s)
                          \/ \E code \in {"ok", "failed"} : Completes(r, s, code)

RunStep(r) ==
    \/ Precheck(r) \/ Start(r) \/ StartFails(r)
    \/ Poll(r) \/ NextGeneration(r) \/ LastGeneration(r) \/ Enter(r)
    \/ PausesAt(r, "gate") \/ PausesAt(r, "wrapGate")
    \/ PlainStep(r) \/ Fails(r) \/ FanOutStep(r)
    \/ Wrap(r) \/ Aggregates(r) \/ Finish(r) \/ Settle(r)
    \/ HandlePause(r) \/ HandleInterrupt(r) \/ HandleDetach(r) \/ HandleFailure(r)
    \/ Teardown(r) \/ TeardownFails(r) \/ Close(r)

Request ==
    \/ Stop
    \/ \E r \in Runs : Run(r) \/ Resume(r) \/ Signal(r) \/ Crash(r)
    \/ \E c \in Clients : Check(c) \/ Flag(c) \/ Stub(c)

Next == Request \/ \E r \in Runs : RunStep(r)

Spec     == Init /\ [][Next]_vars
FairSpec == Spec /\ \A r \in Runs : WF_vars(RunStep(r))

-----------------------------------------------------------------------------
(* Properties.                                                             *)

TypeOK ==
    /\ run \in [Runs -> RunStates]
    /\ doc \in Docs
    /\ {stop, pause} \subseteq BOOLEAN
    /\ client \in [Clients -> {"idle", "checked", "flagged"}]
    /\ plan \in [mode : Modes, width : Widths, detach : Detach]

\* A cancel that was visible while the run still had a check ahead is never followed by
\* a success or a detached submission, on any path through the steps (the polls of
\* runner.py:396-436, 515-539, 594, 633 and of the steps; issue #621 is a run that lost one).
CancelIsHonoured ==
    \A r \in Runs : run[r].asked => run[r].outcome \notin {"success", "detached"}

\* When a run has ended, the run.json that carries its name, its result and the
\* registry tell the same outcome (runner.py:164-170, the handlers and the finally).
OutcomeIsTold ==
    \A r \in Runs : run[r].at = "ended" =>
        /\ run[r].registry = run[r].outcome
        /\ doc.by = r => doc.status = run[r].outcome

\* A successful run's run.json has a row for every sample, and the row says what
\* happened to it in its last generation (runner.py:668, finalize_samples).
SuccessIsComplete ==
    \A r \in Runs :
        run[r].at = "ended" /\ run[r].outcome = "success" /\ doc.by = r =>
            \A s \in Scope : doc.rows[s] = RowOf(run[r].exit[s])

\* osimflow resume brings a paused campaign to its end, or to the submission of its
\* simulations: the run it launches is not born paused, and nothing left over from the
\* earlier run stops it.
ResumedRunSucceeds ==
    \A r \in Runs :
        run[r].resumed /\ ~run[r].disturbed /\ run[r].at \in Ends =>
            run[r].outcome \in {"success", "detached"}

\* A paused run has not finished, and can be resumed: finished_at is not set
\* (runner.py:178). Holds for sequential runs.
PausedIsOpen ==
    \A r \in Runs : run[r].at = "ended" /\ run[r].outcome = "paused" => ~run[r].finished

\* A launched run comes to an end, whatever the requests.
RunsEnd == \A r \in Runs : run[r].at = "entry" ~> run[r].at \in Ends

\* Two orchestrators never have samples under way in one output directory, outside a
\* drain: "a paused campaign has no live orchestrator" (__main__.py:320), which osimflow
\* resume relies on when it trusts the status in run.json.
Dispatches(r) == InFanOut(r) /\ run[r].todo # {}

OneDispatcher == \A q, r \in Runs : Dispatches(q) /\ Dispatches(r) => q = r

\* A row that a run has checkpointed in its run.json stays until the run's end
\* (monitoring.py:196: a last-writer-wins rename can never drop checkpointed rows).
RowsSurvive ==
    [][\A s \in Samples :
          doc.by # 0 /\ doc'.by = doc.by /\ doc.rows[s] # "none" => doc'.rows[s] # "none"]_doc
=============================================================================
