--------------------------- MODULE CampaignProofs ---------------------------
(***************************************************************************)
(* Proofs about the runs of a campaign, for any samples, any number of     *)
(* runs and generations, and all faults and requests.                      *)
(*                                                                         *)
(* CancelIsHonoured only compares a history variable with the outcome. It  *)
(* is inductive together with the way from one to the other: once a cancel *)
(* was visible with a check ahead, the flag that carries it stays, and the *)
(* run is in front of a check, in a handler, or over (Heeds). That in turn *)
(* needs to know which steps can be under way where (Placed). In the same  *)
(* way Undisturbed follows a resumed run past the places where a flag or a *)
(* fault would turn it away, and Filled follows the exit codes of the      *)
(* samples into the rows. None of these speaks of a second run:           *)
(* CampaignInv asks each of every run alone (Sound).                       *)
(*                                                                         *)
(* What run.json tells depends on who wrote it last. TellsInv(w) is about  *)
(* one run w that overlaps no other (Alone): whose document each run may   *)
(* find at each place (Hands), and what the end of w has left in it.       *)
(***************************************************************************)
EXTENDS CampaignRun, TLAPS

Over == {"teardown", "close", "ended", "escaped", "dead"}

\* PollAhead of a state, and the places from which no good end can be reached.
Ahead(me) ==
    \/ me.at \in {"entry", "start", "poll", "head", "enter", "drain", "wrap", "wrapGate"}
    \/ me.at = "gate" /\ ~Submits(me.step)
    \/ me.at = "work" /\ me.step # "plots"

Bound(me) ==
    \/ me.at \in Over \cup {"interrupted", "failing", "pausing"}
    \/ me.at = "settle" /\ me.status = "cancelled"

\* Where a step is under way it is one of the run's steps, and within the
\* generations.
Placed(me) ==
    /\ me.at \in {"enter", "gate", "work", "drain"} => me.step # "done"
    /\ me.at \in {"gate", "drain"} => me.step \in FanOuts
    /\ me.at \in {"wrap", "wrapGate"} => me.step = "aggregate"
    /\ me.at = "poll" => ~Full
    /\ Full /\ me.at \in {"enter", "gate", "work", "drain"}
            /\ me.step \in FanOuts \cup {"generate"} => me.gen < MaxGenerations

Heeds(me, stopped) ==
    /\ me.outcome \in {"success", "detached"} => me.at \in Over
    /\ me.asked => /\ me.cancel \/ stopped
                   /\ me.outcome \notin {"success", "detached"}
                   /\ Ahead(me) \/ Bound(me)

\* The samples have exit codes before a run comes to its last write, and the trace
\* has their rows after it.
Filled(me) ==
    /\ me.at \in {"work", "drain"} /\ me.step \in FanOuts => me.known
    /\ me.gen > 0 => me.known
    /\ me.at = "wrap" => me.cancel \/ me.gen > 0
    /\ me.at = "wrapGate" => me.gen > 0
    /\ me.at \in {"enter", "work"} /\ me.step \in {"aggregate", "plots"} => me.known
    /\ me.at = "poll" /\ me.step \notin FanOuts \cup {"generate"} => me.known
    /\ me.at = "finish" => me.known
    /\ (me.at = "settle" /\ me.status # "cancelled") \/ me.outcome = "success" =>
         \A s \in Scope : me.rows[s] = RowOf(me.exit[s])

\* A resumed run that no request and no fault reached has no flag to find.
Undisturbed(me, stopped, paused) ==
    /\ me.at = "unborn" => me.status = "running" /\ ~me.cancel /\ ~me.resumed
    /\ me.resumed /\ ~me.disturbed =>
        /\ me.at \notin {"interrupted", "pausing", "failing", "drain", "escaped", "dead"}
        /\ IF me.at \in {"teardown", "close", "ended"}
           THEN me.outcome \in {"success", "detached"}
           ELSE me.status = "running"
        /\ me.at # "ended" => ~stopped /\ ~paused /\ ~me.cancel

Sound(me, paused) ==
    /\ me \in RunStates
    /\ Placed(me) /\ Heeds(me, stop)
    /\ Filled(me) /\ Undisturbed(me, stop, paused)

CampaignInv == TypeOK /\ \A r \in Runs : Sound(run[r], pause)

-----------------------------------------------------------------------------
(* What the helpers return.                                                *)

\* The names of the places, statuses and steps, one by one.
LEMMA LocationsAre ==
    /\ "entry" \in Locations /\ "start" \in Locations /\ "poll" \in Locations
    /\ "head" \in Locations /\ "enter" \in Locations /\ "gate" \in Locations
    /\ "work" \in Locations /\ "drain" \in Locations /\ "wrap" \in Locations
    /\ "submitting" \in Locations
    /\ "wrapGate" \in Locations /\ "finish" \in Locations /\ "settle" \in Locations
    /\ "pausing" \in Locations /\ "interrupted" \in Locations /\ "failing" \in Locations
    /\ "teardown" \in Locations /\ "close" \in Locations /\ "ended" \in Locations
    /\ "escaped" \in Locations /\ "dead" \in Locations
BY DEF Locations

LEMMA StatusesAre ==
    /\ "running" \in Statuses /\ "success" \in Statuses /\ "cancelled" \in Statuses
    /\ "failure" \in Statuses /\ "paused" \in Statuses /\ "detached" \in Statuses
BY DEF Statuses

LEMMA StepsAre ==
    /\ "apply" \in Steps /\ "generate" \in Steps /\ "aggregate" \in Steps
    /\ "plots" \in Steps /\ "done" \in Steps /\ FanOuts \subseteq Steps
BY DEF Steps, FanOuts

\* The samples of a run are samples of the campaign.
LEMMA ScopeTyping == Scope \subseteq Samples
BY CampaignAssumption DEF Scope

\* finalize_samples gives every sample a row.
LEMMA ReportTyping ==
    ASSUME NEW r \in Runs
    PROVE  Report(r) \in Rows
BY DEF Report, Rows, RowOf

\* The absence of run.json counts as a document.
LEMMA NoDocTyping == NoDoc \in Docs
BY CampaignAssumption DEF NoDoc, Docs, NoRows, Rows

\* A write of run.json produces a well-formed document.
LEMMA WrittenTyping ==
    ASSUME NEW r \in Runs, NEW me \in RunStates
    PROVE  Written(r, me) \in Docs
<1>1. r \in 0..MaxRuns
  BY CampaignAssumption DEF Runs
<1>2. me.status \in Statuses /\ me.finished \in BOOLEAN /\ me.rows \in Rows
  BY DEF RunStates
<1>3. QED BY <1>1, <1>2 DEF Written, Docs

\* A step that ends sends the run on to a check or to the last write.
LEMMA AdvancedSound ==
    ASSUME NEW me \in RunStates, Placed(me), me.at \in {"work", "drain"}, Heeds(me, stop),
           Filled(me), Undisturbed(me, stop, pause)
    PROVE  Sound(Advanced(me), pause)
<1>. USE DEF RunStates
<1>0. me.step \in Steps /\ me.step # "done" /\ me.gen \in 0..MaxGenerations
  BY DEF Placed
<1>1. CASE me.step = "aggregate"
  <2>1. Advanced(me) = [me EXCEPT !.at = "enter", !.step = "plots"]
    BY <1>1 DEF Advanced
  <2>2. [me EXCEPT !.at = "enter", !.step = "plots"] \in RunStates
    BY LocationsAre, StepsAre
  <2>3. Placed(Advanced(me)) /\ Heeds(Advanced(me), stop)
    BY <2>1 DEF Placed, Heeds, Ahead, Bound, Over, FanOuts
  <2>4. Filled(Advanced(me)) /\ Undisturbed(Advanced(me), stop, pause)
    BY <1>1, <2>1 DEF Filled, Undisturbed, Placed, Heeds, Over, FanOuts
  <2>5. QED BY <2>1, <2>2, <2>3, <2>4 DEF Sound
<1>2. CASE me.step = "plots"
  <2>1. Advanced(me) = [me EXCEPT !.at = "finish", !.step = "done"]
    BY <1>2 DEF Advanced
  <2>2. [me EXCEPT !.at = "finish", !.step = "done"] \in RunStates
    BY LocationsAre, StepsAre
  <2>3. ~me.asked
    BY <1>2 DEF Heeds, Ahead, Bound, Over, FanOuts, Placed
  <2>4. Placed(Advanced(me)) /\ Heeds(Advanced(me), stop)
    BY <2>1, <2>3 DEF Placed, Heeds, Over
  <2>5. Filled(Advanced(me)) /\ Undisturbed(Advanced(me), stop, pause)
    BY <1>2, <2>1 DEF Filled, Undisturbed, Placed, Heeds, Over, FanOuts
  <2>6. QED BY <2>1, <2>2, <2>4, <2>5 DEF Sound
<1>3. CASE me.step = "extract" /\ Full
  <2>1. Advanced(me) = [me EXCEPT !.at = "head", !.gen = me.gen + 1]
    BY <1>3 DEF Advanced
  <2>2. me.gen + 1 \in 0..MaxGenerations
    BY <1>0, <1>3, CampaignAssumption DEF Placed, FanOuts
  <2>3. [me EXCEPT !.at = "head", !.gen = me.gen + 1] \in RunStates
    BY <2>2, LocationsAre
  <2>4. Placed(Advanced(me)) /\ Heeds(Advanced(me), stop)
    BY <2>1 DEF Placed, Heeds, Ahead, Bound, Over
  <2>5. Filled(Advanced(me)) /\ Undisturbed(Advanced(me), stop, pause)
    BY <1>3, <2>1 DEF Filled, Undisturbed, Placed, Heeds, Over, FanOuts
  <2>6. QED BY <2>1, <2>3, <2>4, <2>5 DEF Sound
<1>4. CASE me.step = "extract" /\ ~Full
  <2>1. Advanced(me) = [me EXCEPT !.at = "poll", !.step = "done"]
    BY <1>4 DEF Advanced
  <2>2. [me EXCEPT !.at = "poll", !.step = "done"] \in RunStates
    BY LocationsAre, StepsAre
  <2>3. QED BY <1>4, <2>1, <2>2
        DEF Sound, Placed, Heeds, Ahead, Bound, Over, FanOuts, Filled, Undisturbed
<1>5. CASE me.step \in {"generate", "apply", "simulate"}
  <2>. DEFINE next == [me EXCEPT !.at = IF Full THEN "enter" ELSE "poll",
                                 !.step = Following[me.step]]
  <2>1. Advanced(me) = next
    BY <1>5 DEF Advanced
  <2>2. Following[me.step] \in FanOuts
    BY <1>5 DEF Following, FanOuts
  <2>3. next \in RunStates
    BY <2>2, LocationsAre, StepsAre
  <2>4. Full => me.gen < MaxGenerations
    BY <1>5 DEF Placed, FanOuts
  <2>5. Placed(next)
    BY <2>2, <2>4 DEF Placed, FanOuts
  <2>6. Heeds(next, stop)
    BY DEF Heeds, Ahead, Bound, Over
  <2>7. Filled(next) /\ Undisturbed(next, stop, pause)
    BY <2>2 DEF Filled, Undisturbed, FanOuts
  <2>8. QED BY <2>1, <2>3, <2>5, <2>6, <2>7 DEF Sound
<1>6. QED BY <1>0, <1>1, <1>2, <1>3, <1>4, <1>5 DEF Steps, FanOuts

-----------------------------------------------------------------------------
(* Steps of a run.                                                         *)

\* In every step of a run, its state stays sound and the others keep theirs.
LEMMA MovesKeep ==
    ASSUME CampaignInv, NEW r \in Runs, NEW me, Sound(me, pause'), Moves(r, me),
           doc' \in Docs, pause' \in {pause, FALSE}, UNCHANGED <<stop, client, plan>>
    PROVE  CampaignInv'
<1>1. run' \in [Runs -> RunStates]
  BY DEF CampaignInv, TypeOK, Sound, Moves
<1>2. TypeOK'
  BY <1>1 DEF CampaignInv, TypeOK
<1>3. Full' = Full /\ Scope' = Scope /\ \A step : Submits(step)' = Submits(step)
  BY DEF Full, Scope, Submits
<1>4. ASSUME NEW q \in Runs
      PROVE  Sound(run[q], pause)'
  <2>1. run'[q] = IF q = r THEN me ELSE run[q]
    BY DEF Moves, CampaignInv, TypeOK
  <2>2. CASE q = r
    BY <1>3, <2>1, <2>2 DEF Sound, Placed, Heeds, Ahead, Bound, Filled, Undisturbed
  <2>3. CASE q # r
    <3>1. Sound(run[q], pause')
      <4>1. CASE pause' = pause
        BY <4>1 DEF CampaignInv
      <4>2. CASE pause' = FALSE
        BY <4>2 DEF CampaignInv, Sound, Undisturbed
      <4>3. QED BY <4>1, <4>2
    <3>2. QED BY <1>3, <2>1, <2>3, <3>1 DEF Sound, Placed, Heeds, Ahead, Bound, Filled,
                                            Undisturbed
  <2>4. QED BY <2>2, <2>3
<1>5. QED BY <1>2, <1>4 DEF CampaignInv

\* The same for a step that writes run.json, ...
LEMMA WritesKeep ==
    ASSUME CampaignInv, NEW r \in Runs, NEW me, Sound(me, pause), Writes(r, me),
           UNCHANGED Flags
    PROVE  CampaignInv'
<1>1. doc' \in Docs
  BY WrittenTyping DEF Writes, Sound
<1>2. pause' = pause /\ UNCHANGED <<stop, client, plan>>
  BY DEF Flags, CampaignInv, TypeOK
<1>3. QED BY <1>1, <1>2, MovesKeep DEF Writes

\* ... and for one that changes nothing but the run.
LEMMA QuietKeep ==
    ASSUME CampaignInv, NEW r \in Runs, NEW me, Sound(me, pause), Moves(r, me),
           UNCHANGED <<doc, Flags>>
    PROVE  CampaignInv'
<1>1. doc' \in Docs /\ pause' = pause /\ UNCHANGED <<stop, client, plan>>
  BY DEF Flags, CampaignInv, TypeOK
<1>2. QED BY <1>1, MovesKeep

\* A write that may fail is one or the other.
LEMMA TriesKeep ==
    ASSUME CampaignInv, NEW r \in Runs, NEW me, Sound(me, pause), TriesToWrite(r, me),
           UNCHANGED Flags
    PROVE  CampaignInv'
BY WritesKeep, QuietKeep DEF TriesToWrite

\* The launch of a run, its checks before the first step.
LEMMA StartsKeep ==
    ASSUME CampaignInv, NEW r \in Runs,
           Run(r) \/ Resume(r) \/ Precheck(r) \/ Start(r) \/ StartFails(r)
    PROVE  CampaignInv'
<1>0. /\ run[r] \in RunStates /\ Placed(run[r]) /\ Heeds(run[r], stop) /\ stop \in BOOLEAN
      /\ Filled(run[r]) /\ Undisturbed(run[r], stop, pause) /\ pause \in BOOLEAN
  BY DEF CampaignInv, TypeOK, Sound
<1>1. ASSUME NEW byResume \in BOOLEAN, Launch(r, byResume), pause' \in {pause, FALSE},
             byResume => ~pause'
      PROVE  CampaignInv'
  <2>. DEFINE next == [run[r] EXCEPT !.at = "entry", !.registry = "running", !.asked = stop,
                                     !.resumed = byResume, !.disturbed = byResume /\ stop]
  <2>0. ASSUME NEW b \in BOOLEAN, NEW c \in BOOLEAN
        PROVE  [run[r] EXCEPT !.at = "entry", !.registry = "running", !.asked = stop,
                              !.resumed = b, !.disturbed = c] \in RunStates
    BY <1>0, LocationsAre, StatusesAre DEF RunStates
  <2>1. next \in RunStates
    BY <2>0
  <2>2. Placed(next) /\ Heeds(next, stop)
    BY <1>0, <1>1 DEF RunStates, Placed, Heeds, Ahead, Bound, Over, Launch
  <2>3. doc' \in Docs /\ UNCHANGED <<stop, client, plan>> /\ Moves(r, next)
    BY <1>1 DEF Launch, CampaignInv, TypeOK
  <2>4. Filled(next) /\ Undisturbed(next, stop, pause')
    BY <1>0, <1>1, <2>1 DEF RunStates, Filled, Undisturbed, Heeds, Over, Launch
  <2>5. QED BY <1>1, <2>1, <2>2, <2>3, <2>4, MovesKeep DEF Sound
<1>2. CASE Run(r)
  BY <1>1, <1>2 DEF Run, CampaignInv, TypeOK
<1>3. CASE Resume(r)
  BY <1>1, <1>3 DEF Resume
<1>4. CASE Precheck(r)
  <2>. DEFINE next == IF Heard(r) THEN [run[r] EXCEPT !.at = "interrupted", !.cancel = TRUE]
                                  ELSE [run[r] EXCEPT !.at = "start"]
  <2>1. next \in RunStates
    BY <1>0, LocationsAre DEF RunStates
  <2>2. Placed(next) /\ Heeds(next, stop)
    BY <1>0, <1>4 DEF RunStates, Placed, Heeds, Ahead, Bound, Over, Precheck, Heard
  <2>3. Filled(next) /\ Undisturbed(next, stop, pause)
    BY <1>0, <1>4 DEF RunStates, Filled, Undisturbed, Heard, Precheck
  <2>4. QED BY <1>4, <2>1, <2>2, <2>3, QuietKeep DEF Precheck, Sound
<1>5. CASE Start(r)
  <2>. DEFINE next == [run[r] EXCEPT
                         !.at   = IF Full THEN "head" ELSE "poll",
                         !.step = IF plan.mode = "single" THEN "apply" ELSE "generate"]
  <2>1. next \in RunStates
    BY <1>0, LocationsAre, StepsAre DEF RunStates
  <2>2. Placed(next) /\ Heeds(next, stop)
    BY <1>0, <1>5 DEF RunStates, Placed, Heeds, Ahead, Bound, Over, Start
  <2>3. Filled(next) /\ Undisturbed(next, stop, pause)
    BY <1>0, <1>5 DEF RunStates, Filled, Undisturbed, Start, FanOuts
  <2>4. QED BY <1>5, <2>1, <2>2, <2>3, WritesKeep DEF Start, Sound
<1>6. CASE StartFails(r)
  <2>. DEFINE next == [run[r] EXCEPT !.at = "failing", !.disturbed = run[r].resumed]
  <2>1. next \in RunStates
    BY <1>0, LocationsAre DEF RunStates
  <2>2. Placed(next) /\ Heeds(next, stop)
    BY <1>0, <1>6 DEF RunStates, Placed, Heeds, Ahead, Bound, Over, StartFails
  <2>3. Filled(next) /\ Undisturbed(next, stop, pause)
    BY <1>0 DEF RunStates, Filled, Undisturbed
  <2>4. QED BY <1>6, <2>1, <2>2, <2>3, QuietKeep DEF StartFails, Sound
<1>7. QED BY <1>2, <1>3, <1>4, <1>5, <1>6

\* A partial cancelled trace lets the run go on to its outcome, "cancelled".
LEMMA PartialSound ==
    ASSUME CampaignInv, NEW r \in Runs, run[r].at \in {"poll", "wrap"}, Heard(r)
    PROVE  Sound(Partial(r), pause)
<1>0. /\ run[r] \in RunStates /\ Placed(run[r]) /\ Heeds(run[r], stop)
      /\ Filled(run[r]) /\ Undisturbed(run[r], stop, pause)
  BY DEF CampaignInv, TypeOK, Sound
<1>1. Report(r) \in Rows
  BY ReportTyping
<1>2. Partial(r) \in RunStates
  BY <1>0, <1>1, LocationsAre, StatusesAre DEF Partial, RunStates
<1>3. Placed(Partial(r)) /\ Heeds(Partial(r), stop)
  BY <1>0 DEF Partial, RunStates, Placed, Heeds, Ahead, Bound, Over
<1>4. Filled(Partial(r)) /\ Undisturbed(Partial(r), stop, pause)
  BY <1>0 DEF Partial, RunStates, Heeds, Over, Filled, Undisturbed, Heard
<1>5. QED BY <1>2, <1>3, <1>4 DEF Sound

\* The polls of the short runs and the generation loop of a full one.
LEMMA LoopKeeps ==
    ASSUME CampaignInv, NEW r \in Runs,
           Poll(r) \/ NextGeneration(r) \/ LastGeneration(r) \/ Wrap(r) \/ Aggregates(r)
    PROVE  CampaignInv'
<1>0. /\ run[r] \in RunStates /\ Placed(run[r]) /\ Heeds(run[r], stop) /\ stop \in BOOLEAN
      /\ Filled(run[r]) /\ Undisturbed(run[r], stop, pause) /\ pause \in BOOLEAN
  BY DEF CampaignInv, TypeOK, Sound
<1>1. CASE Poll(r)
  <2>1. CASE Heard(r)
    BY <1>1, <2>1, PartialSound, WritesKeep DEF Poll
  <2>2. CASE ~Heard(r)
    <3>. DEFINE next == [run[r] EXCEPT !.at = IF run[r].step = "done" THEN "finish"
                                                                    ELSE "enter"]
    <3>1. next \in RunStates
      BY <1>0, LocationsAre DEF RunStates
    <3>2. Placed(next)
      BY <1>0, <1>1, <2>2 DEF RunStates, Placed, Poll
    <3>3. Heeds(next, stop)
      BY <1>0, <1>1, <2>2 DEF RunStates, Heeds, Ahead, Bound, Over, Poll, Heard
    <3>4. Filled(next) /\ Undisturbed(next, stop, pause)
      BY <1>0, <1>1 DEF RunStates, Filled, Undisturbed, Poll, FanOuts
    <3>5. QED BY <1>1, <2>2, <3>1, <3>2, <3>3, <3>4, QuietKeep DEF Poll, Sound
  <2>3. QED BY <2>1, <2>2
<1>2. CASE NextGeneration(r)
  <2>. DEFINE next == [run[r] EXCEPT !.at = "enter", !.step = "generate"]
  <2>1. next \in RunStates
    BY <1>0, LocationsAre, StepsAre DEF RunStates
  <2>2. Placed(next) /\ Heeds(next, stop)
    BY <1>0, <1>2 DEF RunStates, Placed, Heeds, Ahead, Bound, Over, NextGeneration
  <2>3. Filled(next) /\ Undisturbed(next, stop, pause)
    BY <1>0, <1>2 DEF RunStates, Filled, Undisturbed, NextGeneration
  <2>4. QED BY <1>2, <2>1, <2>2, <2>3, QuietKeep DEF NextGeneration, Sound
<1>3. CASE LastGeneration(r)
  <2>. DEFINE next == [run[r] EXCEPT !.at = "wrap", !.step = "aggregate", !.cancel = Heard(r)]
  <2>1. next \in RunStates
    BY <1>0, LocationsAre, StepsAre DEF RunStates, Heard
  <2>2. Placed(next) /\ Heeds(next, stop)
    BY <1>0, <1>3 DEF RunStates, Placed, Heeds, Ahead, Bound, Over, LastGeneration, Heard
  <2>3. Filled(next) /\ Undisturbed(next, stop, pause)
    BY <1>0, <1>3 DEF RunStates, Filled, Undisturbed, Heard, LastGeneration
  <2>4. QED BY <1>3, <2>1, <2>2, <2>3, QuietKeep DEF LastGeneration, Sound
<1>4. CASE Wrap(r)
  <2>1. CASE Heard(r)
    BY <1>4, <2>1, PartialSound, WritesKeep DEF Wrap
  <2>2. CASE ~Heard(r)
    <3>. DEFINE next == [run[r] EXCEPT !.at = "wrapGate"]
    <3>1. next \in RunStates
      BY <1>0, LocationsAre DEF RunStates
    <3>2. Placed(next) /\ Heeds(next, stop)
      BY <1>0, <1>4 DEF RunStates, Placed, Heeds, Ahead, Bound, Over, Wrap
    <3>3. Filled(next) /\ Undisturbed(next, stop, pause)
      BY <1>0, <1>4, <2>2 DEF RunStates, Filled, Undisturbed, Heard, Wrap
    <3>4. QED BY <1>4, <2>2, <3>1, <3>2, <3>3, QuietKeep DEF Wrap, Sound
  <2>3. QED BY <2>1, <2>2
<1>5. CASE Aggregates(r)
  <2>. DEFINE next == [run[r] EXCEPT !.at = "enter"]
  <2>1. next \in RunStates
    BY <1>0, LocationsAre DEF RunStates
  <2>2. run[r].step = "aggregate"
    BY <1>0, <1>5 DEF Placed, Aggregates
  <2>3. Placed(next) /\ Heeds(next, stop)
    BY <1>0, <1>5, <2>2 DEF RunStates, Placed, Heeds, Ahead, Bound, Over, Aggregates, FanOuts
  <2>4. Filled(next) /\ Undisturbed(next, stop, pause)
    BY <1>0, <1>5 DEF RunStates, Filled, Undisturbed, Aggregates
  <2>5. QED BY <1>5, <2>1, <2>3, <2>4, QuietKeep DEF Aggregates, Sound
<1>6. QED BY <1>1, <1>2, <1>3, <1>4, <1>5

\* The head of a step, a step without samples, and an exception.
LEMMA StepsKeep ==
    ASSUME CampaignInv, NEW r \in Runs,
           \/ Enter(r) \/ PlainStep(r) \/ Fails(r)
           \/ \E location \in {"gate", "wrapGate", "work"} : PausesAt(r, location)
    PROVE  CampaignInv'
<1>0. /\ run[r] \in RunStates /\ Placed(run[r]) /\ Heeds(run[r], stop) /\ stop \in BOOLEAN
      /\ Filled(run[r]) /\ Undisturbed(run[r], stop, pause) /\ pause \in BOOLEAN
  BY DEF CampaignInv, TypeOK, Sound
<1>1. CASE Enter(r)
  <2>1. CASE Heard(r)
    <3>. DEFINE next == [run[r] EXCEPT !.at = "interrupted", !.cancel = TRUE]
    <3>1. next \in RunStates
      BY <1>0, LocationsAre DEF RunStates
    <3>2. Placed(next) /\ Heeds(next, stop)
      BY <1>0, <1>1 DEF RunStates, Placed, Heeds, Ahead, Bound, Over, Enter
    <3>3. Moves(r, next)
      BY <1>1, <2>1 DEF Enter
    <3>4. Filled(next) /\ Undisturbed(next, stop, pause)
      BY <1>0, <1>1, <2>1 DEF RunStates, Filled, Undisturbed, Heard, Enter
    <3>5. QED BY <1>1, <3>1, <3>2, <3>3, <3>4, QuietKeep DEF Enter, Sound
  <2>2. CASE ~Heard(r)
    <3>. DEFINE next == [run[r] EXCEPT !.at = IF run[r].step \in FanOuts THEN "gate" ELSE "work"]
    <3>1. next \in RunStates
      BY <1>0, LocationsAre DEF RunStates
    <3>2. Placed(next) /\ Heeds(next, stop)
      BY <1>0, <1>1, <2>2 DEF RunStates, Placed, Heeds, Ahead, Bound, Over, Enter, Heard
    <3>3. Moves(r, next)
      BY <1>1, <2>2 DEF Enter
    <3>4. Filled(next) /\ Undisturbed(next, stop, pause)
      BY <1>0, <1>1 DEF RunStates, Filled, Undisturbed, Enter
    <3>5. QED BY <1>1, <3>1, <3>2, <3>3, <3>4, QuietKeep DEF Enter, Sound
  <2>3. QED BY <2>1, <2>2
<1>2. CASE PlainStep(r)
  <2>1. Sound(Advanced(run[r]), pause)
    BY <1>0, <1>2, AdvancedSound DEF PlainStep
  <2>2. QED BY <1>2, <2>1, QuietKeep DEF PlainStep
<1>3. CASE Fails(r)
  <2>. DEFINE next == [run[r] EXCEPT !.at = "failing", !.disturbed = run[r].resumed]
  <2>1. next \in RunStates
    BY <1>0, LocationsAre DEF RunStates
  <2>2. Placed(next) /\ Heeds(next, stop)
    BY <1>0, <1>3 DEF RunStates, Placed, Heeds, Ahead, Bound, Over, Fails, MayRaise
  <2>3. Filled(next) /\ Undisturbed(next, stop, pause)
    BY <1>0 DEF RunStates, Filled, Undisturbed
  <2>4. QED BY <1>3, <2>1, <2>2, <2>3, QuietKeep DEF Fails, Sound
<1>4. ASSUME NEW location \in {"gate", "wrapGate", "work"}, PausesAt(r, location)
      PROVE  CampaignInv'
  <2>. DEFINE next == [run[r] EXCEPT !.at = "pausing", !.status = "paused"]
  <2>1. next \in RunStates
    BY <1>0, LocationsAre, StatusesAre DEF RunStates
  <2>2. Placed(next) /\ Heeds(next, stop)
    BY <1>0, <1>4 DEF RunStates, Placed, Heeds, Ahead, Bound, Over, PausesAt
  <2>3. Filled(next) /\ Undisturbed(next, stop, pause)
    BY <1>0, <1>4 DEF RunStates, Filled, Undisturbed, PausesAt
  <2>4. QED BY <1>4, <2>1, <2>2, <2>3, TriesKeep DEF PausesAt, Sound
<1>5. QED BY <1>1, <1>2, <1>3, <1>4

-----------------------------------------------------------------------------
(* A fan-out.                                                              *)

\* The run leaves the loop or the wait for the next step, a handler or a drain.
LEMMA FanOutLeaves ==
    ASSUME CampaignInv, NEW r \in Runs,
           LoopHears(r) \/ LoopPauses(r) \/ WaitHears(r) \/ WaitPauses(r) \/ FanOutEnds(r)
    PROVE  CampaignInv'
<1>0. /\ run[r] \in RunStates /\ Placed(run[r]) /\ Heeds(run[r], stop) /\ stop \in BOOLEAN
      /\ Filled(run[r]) /\ Undisturbed(run[r], stop, pause) /\ pause \in BOOLEAN
  BY DEF CampaignInv, TypeOK, Sound
<1>1. CASE LoopHears(r)
  <2>. DEFINE next == [run[r] EXCEPT !.at = "interrupted", !.cancel = TRUE]
  <2>1. next \in RunStates
    BY <1>0, LocationsAre DEF RunStates
  <2>2. Placed(next) /\ Heeds(next, stop)
    BY <1>0, <1>1 DEF RunStates, Placed, Heeds, Ahead, Bound, Over, LoopHears, InFanOut
  <2>3. Filled(next) /\ Undisturbed(next, stop, pause)
    BY <1>0, <1>1 DEF RunStates, Filled, Undisturbed, Heard, LoopHears, InFanOut
  <2>4. QED BY <1>1, <2>1, <2>2, <2>3, QuietKeep DEF LoopHears, Sound
<1>2. CASE LoopPauses(r)
  BY <1>2, StepsKeep DEF LoopPauses
<1>3. CASE WaitHears(r)
  <2>. DEFINE next == [run[r] EXCEPT !.at = "drain", !.cancel = TRUE]
  <2>1. next \in RunStates
    BY <1>0, LocationsAre DEF RunStates
  <2>2. Placed(next) /\ Heeds(next, stop)
    BY <1>0, <1>3 DEF RunStates, Placed, Heeds, Ahead, Bound, Over, WaitHears, InFanOut
  <2>3. Filled(next) /\ Undisturbed(next, stop, pause)
    BY <1>0, <1>3 DEF RunStates, Filled, Undisturbed, Heard, WaitHears, InFanOut
  <2>4. QED BY <1>3, <2>1, <2>2, <2>3, QuietKeep DEF WaitHears, Sound
<1>4. CASE WaitPauses(r)
  <2>. DEFINE next == [run[r] EXCEPT !.at = "drain", !.status = "paused"]
  <2>1. next \in RunStates
    BY <1>0, LocationsAre, StatusesAre DEF RunStates
  <2>2. Placed(next) /\ Heeds(next, stop)
    BY <1>0, <1>4 DEF RunStates, Placed, Heeds, Ahead, Bound, Over, WaitPauses, InFanOut
  <2>3. Filled(next) /\ Undisturbed(next, stop, pause)
    BY <1>0, <1>4 DEF RunStates, Filled, Undisturbed, WaitPauses, InFanOut
  <2>4. QED BY <1>4, <2>1, <2>2, <2>3, TriesKeep DEF WaitPauses, Sound
<1>5. CASE FanOutEnds(r)
  <2>. DEFINE codes == [s \in Samples |->
                          IF s \in run[r].todo
                          THEN [run[r].exit[s] EXCEPT ![run[r].step] = "failed"]
                          ELSE run[r].exit[s]]
              me    == [run[r] EXCEPT !.todo = {}, !.exit = codes]
  <2>1. codes \in [Samples -> [FanOuts -> {"none", "ok", "failed"}]]
    BY <1>0 DEF RunStates
  <2>2. me \in RunStates
    BY <1>0, <2>1 DEF RunStates
  <2>3. Placed(me) /\ Heeds(me, stop) /\ me.at \in {"work", "drain"} /\ me.step \in FanOuts
    BY <1>0, <1>5 DEF RunStates, Placed, Heeds, Ahead, Bound, FanOutEnds
  <2>4. Filled(me) /\ Undisturbed(me, stop, pause)
    BY <1>0, <1>5, <2>2, <2>3 DEF RunStates, Filled, Undisturbed, Heeds, Over
  <2>5. Sound(Advanced(me), pause)
    BY <2>2, <2>3, <2>4, AdvancedSound
  <2>6. Moves(r, Advanced(me)) /\ UNCHANGED <<doc, Flags>>
    BY <1>5 DEF FanOutEnds
  <2>7. QED BY <2>5, <2>6, QuietKeep
<1>6. QED BY <1>1, <1>2, <1>3, <1>4, <1>5

\* A fan-out begins or only submits, awaits its samples and checkpoints them.
LEMMA FanOutKeeps ==
    ASSUME CampaignInv, NEW r \in Runs,
           \/ FanOutBegins(r) \/ Detaches(r) \/ Checkpoints(r) \/ CheckpointFails(r)
           \/ \E s \in Samples : \/ Skips(r, s) \/ Takes(r, s)
                                 \/ \E code \in {"ok", "failed"} : Completes(r, s, code)
    PROVE  CampaignInv'
<1>. DEFINE Exits == [Samples -> [FanOuts -> {"none", "ok", "failed"}]]
<1>0. /\ run[r] \in RunStates /\ Placed(run[r]) /\ Heeds(run[r], stop) /\ stop \in BOOLEAN
      /\ Filled(run[r]) /\ Undisturbed(run[r], stop, pause) /\ pause \in BOOLEAN
  BY DEF CampaignInv, TypeOK, Sound
<1>1. run[r].exit \in Exits /\ doc \in Docs
  BY <1>0 DEF RunStates, CampaignInv, TypeOK
<1>2. NoDoc \in Docs
  BY NoDocTyping
<1>3. CASE FanOutBegins(r)
  <2>. DEFINE inputs == IF run[r].step = "apply" THEN Scope ELSE run[r].got
  <2>1. PICK cached \in SUBSET inputs :
            Moves(r, [run[r] EXCEPT
                !.at = "work", !.known = TRUE, !.awaited = FALSE,
                !.todo = inputs \ cached, !.got = cached,
                !.exit = [s \in Samples |->
                            IF s \in cached THEN [run[r].exit[s] EXCEPT ![run[r].step] = "ok"]
                                            ELSE run[r].exit[s]]])
    BY <1>3 DEF FanOutBegins
  <2>. DEFINE codes == [s \in Samples |->
                          IF s \in cached THEN [run[r].exit[s] EXCEPT ![run[r].step] = "ok"]
                                          ELSE run[r].exit[s]]
              next  == [run[r] EXCEPT !.at = "work", !.known = TRUE, !.awaited = FALSE,
                                      !.todo = inputs \ cached, !.got = cached, !.exit = codes]
  <2>2. codes \in Exits
    BY <1>1
  <2>3. inputs \subseteq Samples
    BY <1>0, ScopeTyping DEF RunStates
  <2>4. next \in RunStates
    BY <1>0, <2>2, <2>3, LocationsAre DEF RunStates
  <2>5. Placed(next) /\ Heeds(next, stop)
    BY <1>0, <1>3 DEF RunStates, Placed, Heeds, Ahead, Bound, Over, FanOutBegins, FanOuts
  <2>6. Moves(r, next)
    BY <2>1
  <2>7. Filled(next) /\ Undisturbed(next, stop, pause)
    BY <1>0, <1>3, <2>1
    DEF RunStates, Filled, Undisturbed, Heeds, Placed, Over, Heard, FanOutBegins, FanOuts
  <2>8. QED BY <1>3, <2>4, <2>5, <2>6, <2>7, QuietKeep DEF FanOutBegins, Sound
<1>4. CASE Checkpoints(r) \/ CheckpointFails(r)
  <2>. DEFINE next == [run[r] EXCEPT !.copy = NoDoc]
  <2>1. next \in RunStates
    BY <1>0, <1>2 DEF RunStates
  <2>2. Placed(next) /\ Heeds(next, stop)
    BY <1>0 DEF RunStates, Placed, Heeds, Ahead, Bound
  <2>3. Moves(r, next) /\ doc' \in Docs /\ UNCHANGED Flags
    BY <1>0, <1>1, <1>4 DEF Checkpoints, CheckpointFails, RunStates
  <2>4. pause' = pause /\ UNCHANGED <<stop, client, plan>>
    BY <2>3 DEF Flags
  <2>5. Filled(next) /\ Undisturbed(next, stop, pause)
    BY <1>0 DEF RunStates, Filled, Undisturbed
  <2>6. QED BY <2>1, <2>2, <2>3, <2>4, <2>5, MovesKeep DEF Sound
<1>5. ASSUME NEW s \in Samples, Skips(r, s)
      PROVE  CampaignInv'
  <2>. DEFINE codes == [run[r].exit EXCEPT ![s][run[r].step] = "failed"]
              next  == [run[r] EXCEPT !.todo = @ \ {s}, !.exit = codes]
  <2>1. codes \in Exits
    BY <1>1
  <2>2. next \in RunStates
    BY <1>0, <2>1 DEF RunStates
  <2>3. Placed(next) /\ Heeds(next, stop)
    BY <1>0 DEF RunStates, Placed, Heeds, Ahead, Bound
  <2>4. Moves(r, next)
    BY <1>5 DEF Skips
  <2>5. Filled(next) /\ Undisturbed(next, stop, pause)
    BY <1>0, <1>5, <2>1 DEF RunStates, Filled, Undisturbed, Heeds, Over, Skips, InFanOut
  <2>6. QED BY <1>5, <2>2, <2>3, <2>4, <2>5, QuietKeep DEF Skips, Sound
<1>6. ASSUME NEW s \in Samples, Takes(r, s)
      PROVE  CampaignInv'
  <2>. DEFINE next == [run[r] EXCEPT !.busy = {s}, !.awaited = TRUE]
  <2>1. next \in RunStates
    BY <1>0 DEF RunStates
  <2>2. Placed(next) /\ Heeds(next, stop)
    BY <1>0 DEF RunStates, Placed, Heeds, Ahead, Bound
  <2>3. Filled(next) /\ Undisturbed(next, stop, pause)
    BY <1>0 DEF RunStates, Filled, Undisturbed, Heeds, Placed, Over, Heard
  <2>4. QED BY <1>6, <2>1, <2>2, <2>3, QuietKeep DEF Takes, Sound
<1>7. ASSUME NEW s \in Samples, NEW code \in {"ok", "failed"}, Completes(r, s, code)
      PROVE  CampaignInv'
  <2>. DEFINE codes == [run[r].exit[s] EXCEPT ![run[r].step] = code]
              good  == IF code = "ok" THEN run[r].got \cup {s} ELSE run[r].got
              exits == [run[r].exit EXCEPT ![s] = codes]
              merge == [doc EXCEPT !.rows[s] = RowOf(codes)]
              next  == [run[r] EXCEPT !.todo = @ \ {s}, !.busy = {}, !.awaited = TRUE,
                                      !.got = good, !.exit = exits, !.copy = merge]
  <2>1. exits \in Exits
    BY <1>1
  <2>2. merge \in Docs
    BY <1>1 DEF Docs, Rows, RowOf
  <2>3. good \in SUBSET Samples
    BY <1>0 DEF RunStates
  <2>4. next \in RunStates
    BY <1>0, <2>1, <2>2, <2>3 DEF RunStates
  <2>5. Placed(next) /\ Heeds(next, stop)
    <3>1. /\ next.at = run[r].at /\ next.step = run[r].step /\ next.gen = run[r].gen
          /\ next.outcome = run[r].outcome /\ next.status = run[r].status
          /\ next.asked = run[r].asked /\ next.cancel = run[r].cancel
      BY <1>0 DEF RunStates
    <3>2. QED BY <1>0, <3>1 DEF Placed, Heeds, Ahead, Bound
  <2>6. Moves(r, next)
    BY <1>7 DEF Completes
  <2>7. Filled(next) /\ Undisturbed(next, stop, pause)
    BY <1>0, <1>7, <2>1
    DEF RunStates, Filled, Undisturbed, Heeds, Placed, Over, Heard, Completes, FanOuts
  <2>8. QED BY <1>7, <2>4, <2>5, <2>6, <2>7, QuietKeep DEF Completes, Sound
<1>8. CASE Detaches(r)
  <2>. DEFINE next == [run[r] EXCEPT !.at = "submitting"]
  <2>1. next \in RunStates
    BY <1>0, LocationsAre DEF RunStates
  <2>2. Placed(next) /\ Heeds(next, stop)
    BY <1>0, <1>8 DEF RunStates, Placed, Heeds, Ahead, Bound, Over, Detaches
  <2>3. Filled(next) /\ Undisturbed(next, stop, pause)
    BY <1>0, <1>8 DEF RunStates, Filled, Undisturbed, Heeds, Over, Detaches
  <2>4. QED BY <1>8, <2>1, <2>2, <2>3, QuietKeep DEF Detaches, Sound
<1>9. QED BY <1>3, <1>4, <1>5, <1>6, <1>7, <1>8

-----------------------------------------------------------------------------
(* The end of a run, and requests.                                         *)

\* The last write, the handlers and the finally block.
LEMMA EndsKeep ==
    ASSUME CampaignInv, NEW r \in Runs,
           \/ Finish(r) \/ Settle(r)
           \/ HandlePause(r) \/ HandleInterrupt(r) \/ HandleDetach(r) \/ HandleFailure(r)
           \/ Teardown(r) \/ TeardownFails(r) \/ Close(r)
    PROVE  CampaignInv'
<1>0. /\ run[r] \in RunStates /\ Placed(run[r]) /\ Heeds(run[r], stop) /\ stop \in BOOLEAN
      /\ Filled(run[r]) /\ Undisturbed(run[r], stop, pause) /\ pause \in BOOLEAN
  BY DEF CampaignInv, TypeOK, Sound
<1>1. CASE Finish(r)
  <2>. DEFINE next == [run[r] EXCEPT !.at = "settle", !.rows = Report(r), !.finished = TRUE]
  <2>1. next \in RunStates
    BY <1>0, ReportTyping, LocationsAre DEF RunStates
  <2>2. Placed(next) /\ Heeds(next, stop)
    BY <1>0, <1>1 DEF RunStates, Placed, Heeds, Ahead, Bound, Over, Finish
  <2>3. Filled(next) /\ Undisturbed(next, stop, pause)
    BY <1>0, <1>1, ScopeTyping DEF RunStates, Filled, Undisturbed, Heeds, Over, Finish, Report
  <2>4. QED BY <1>1, <2>1, <2>2, <2>3, WritesKeep DEF Finish, Sound
<1>2. CASE Settle(r)
  <2>. DEFINE settled == IF run[r].status \in {"cancelled", "paused"}
                         THEN run[r].status ELSE "success"
              next == [run[r] EXCEPT !.at = "teardown", !.status = settled,
                                     !.outcome = settled]
  <2>1. settled \in Statuses
    BY DEF Statuses
  <2>2. next \in RunStates
    BY <1>0, <2>1, LocationsAre DEF RunStates
  <2>3. Placed(next) /\ Heeds(next, stop)
    BY <1>0, <1>2 DEF RunStates, Placed, Heeds, Ahead, Bound, Over, Settle
  <2>4. Filled(next) /\ Undisturbed(next, stop, pause)
    BY <1>0, <1>2 DEF RunStates, Filled, Undisturbed, Settle
  <2>5. QED BY <1>2, <2>2, <2>3, <2>4, QuietKeep DEF Settle, Sound
<1>3. CASE HandlePause(r)
  <2>. DEFINE next == [run[r] EXCEPT !.at = "teardown", !.status = "paused",
                                     !.outcome = "paused"]
  <2>1. next \in RunStates
    BY <1>0, LocationsAre, StatusesAre DEF RunStates
  <2>2. Placed(next) /\ Heeds(next, stop)
    BY <1>0, <1>3 DEF RunStates, Placed, Heeds, Ahead, Bound, Over, HandlePause
  <2>3. Filled(next) /\ Undisturbed(next, stop, pause)
    BY <1>0, <1>3 DEF RunStates, Filled, Undisturbed, HandlePause
  <2>4. QED BY <1>3, <2>1, <2>2, <2>3, TriesKeep DEF HandlePause, Sound
<1>4. CASE HandleInterrupt(r)
  <2>. DEFINE next == [run[r] EXCEPT !.at = "teardown", !.status = "cancelled",
                                     !.outcome = "cancelled", !.finished = TRUE]
  <2>1. next \in RunStates
    BY <1>0, LocationsAre, StatusesAre DEF RunStates
  <2>2. Placed(next) /\ Heeds(next, stop)
    BY <1>0, <1>4 DEF RunStates, Placed, Heeds, Ahead, Bound, Over, HandleInterrupt
  <2>3. Filled(next) /\ Undisturbed(next, stop, pause)
    BY <1>0, <1>4 DEF RunStates, Filled, Undisturbed, HandleInterrupt
  <2>4. QED BY <1>4, <2>1, <2>2, <2>3, TriesKeep DEF HandleInterrupt, Sound
<1>5. CASE HandleFailure(r)
  <2>. DEFINE next == [run[r] EXCEPT !.at = "teardown", !.status = "failure",
                                     !.outcome = "failure", !.finished = TRUE]
  <2>1. next \in RunStates
    BY <1>0, LocationsAre, StatusesAre DEF RunStates
  <2>2. Placed(next) /\ Heeds(next, stop)
    BY <1>0, <1>5 DEF RunStates, Placed, Heeds, Ahead, Bound, Over, HandleFailure
  <2>3. Filled(next) /\ Undisturbed(next, stop, pause)
    BY <1>0, <1>5 DEF RunStates, Filled, Undisturbed, HandleFailure
  <2>4. QED BY <1>5, <2>1, <2>2, <2>3, QuietKeep DEF HandleFailure, Sound
<1>6. CASE Teardown(r)
  <2>. DEFINE next == [run[r] EXCEPT !.at = "close"]
  <2>1. next \in RunStates
    BY <1>0, LocationsAre DEF RunStates
  <2>2. Placed(next) /\ Heeds(next, stop)
    BY <1>0, <1>6 DEF RunStates, Placed, Heeds, Ahead, Bound, Over, Teardown
  <2>3. doc' \in Docs
    BY <1>0, <1>6, WrittenTyping DEF Teardown, CampaignInv, TypeOK
  <2>4. pause' = pause /\ UNCHANGED <<stop, client, plan>>
    BY <1>6 DEF Teardown, Flags
  <2>5. Filled(next) /\ Undisturbed(next, stop, pause)
    BY <1>0, <1>6 DEF RunStates, Filled, Undisturbed, Teardown
  <2>6. QED BY <1>6, <2>1, <2>2, <2>3, <2>4, <2>5, MovesKeep DEF Teardown, Sound
<1>7. CASE TeardownFails(r)
  <2>. DEFINE next == [run[r] EXCEPT !.at = "escaped", !.disturbed = run[r].resumed]
  <2>1. next \in RunStates
    BY <1>0, LocationsAre DEF RunStates
  <2>2. Placed(next) /\ Heeds(next, stop)
    BY <1>0, <1>7 DEF RunStates, Placed, Heeds, Ahead, Bound, Over, TeardownFails
  <2>3. Filled(next) /\ Undisturbed(next, stop, pause)
    BY <1>0 DEF RunStates, Filled, Undisturbed
  <2>4. QED BY <1>7, <2>1, <2>2, <2>3, QuietKeep DEF TeardownFails, Sound
<1>8. CASE Close(r)
  <2>. DEFINE next == [run[r] EXCEPT !.at = "ended", !.registry = run[r].outcome]
  <2>1. next \in RunStates
    BY <1>0, LocationsAre DEF RunStates
  <2>2. Placed(next) /\ Heeds(next, stop)
    BY <1>0, <1>8 DEF RunStates, Placed, Heeds, Ahead, Bound, Over, Close
  <2>3. Filled(next) /\ Undisturbed(next, stop, pause)
    BY <1>0, <1>8 DEF RunStates, Filled, Undisturbed, Close
  <2>4. QED BY <1>8, <2>1, <2>2, <2>3, QuietKeep DEF Close, Sound
<1>9. CASE HandleDetach(r)
  <2>. DEFINE next == [run[r] EXCEPT !.at = "teardown", !.status = "detached",
                                     !.outcome = "detached", !.finished = TRUE]
  <2>1. next \in RunStates
    BY <1>0, LocationsAre, StatusesAre DEF RunStates
  <2>2. Placed(next) /\ Heeds(next, stop)
    BY <1>0, <1>9 DEF RunStates, Placed, Heeds, Ahead, Bound, Over, HandleDetach
  <2>3. Filled(next) /\ Undisturbed(next, stop, pause)
    BY <1>0, <1>9 DEF RunStates, Filled, Undisturbed, Heeds, Over, HandleDetach
  <2>4. QED BY <1>9, <2>1, <2>2, <2>3, TriesKeep DEF HandleDetach, Sound
<1>10. QED BY <1>1, <1>2, <1>3, <1>4, <1>5, <1>6, <1>7, <1>8, <1>9

\* Requests change the states of the runs in a way that keeps them sound.
LEMMA DisturbedSound ==
    ASSUME CampaignInv, NEW r \in Runs
    PROVE  /\ Disturbed[r] \in RunStates
           /\ Placed(Disturbed[r]) /\ Heeds(Disturbed[r], stop)
           /\ Disturbed[r] \in {run[r], [run[r] EXCEPT !.disturbed = run[r].resumed]}
           /\ Filled(Disturbed[r])
           /\ \A stopped, paused \in BOOLEAN : Undisturbed(Disturbed[r], stopped, paused)
           /\ Alive(r) => Disturbed[r].disturbed = Disturbed[r].resumed
<1>1. /\ run[r] \in RunStates /\ Placed(run[r]) /\ Heeds(run[r], stop)
      /\ Filled(run[r]) /\ Undisturbed(run[r], stop, pause)
  BY DEF CampaignInv, TypeOK, Sound
<1>. DEFINE next == [run[r] EXCEPT !.disturbed = run[r].resumed]
<1>2. Disturbed[r] \in {run[r], next}
  BY DEF Disturbed
<1>3. next \in RunStates
  BY <1>1 DEF RunStates
<1>4. Placed(next) /\ Heeds(next, stop)
  BY <1>1 DEF RunStates, Placed, Heeds, Ahead, Bound
<1>5. Filled(next)
  BY <1>1 DEF RunStates, Filled
<1>6. ASSUME NEW stopped \in BOOLEAN, NEW paused \in BOOLEAN
      PROVE  Undisturbed(Disturbed[r], stopped, paused)
  <2>1. CASE Alive(r)
    <3>1. next.at = run[r].at /\ next.resumed = next.disturbed /\ Disturbed[r] = next
      BY <1>1, <2>1 DEF RunStates, Disturbed
    <3>2. QED BY <1>1, <2>1, <3>1 DEF RunStates, Undisturbed, Alive, Ends
  <2>2. CASE ~Alive(r)
    <3>1. Disturbed[r] = run[r]
      BY <2>2 DEF Disturbed
    <3>2. QED BY <1>1, <2>2, <3>1 DEF Undisturbed, Alive, Ends
  <2>3. QED BY <2>1, <2>2
<1>7. Alive(r) => Disturbed[r].disturbed = Disturbed[r].resumed
  BY <1>1 DEF Disturbed, RunStates
<1>8. QED BY <1>1, <1>2, <1>3, <1>4, <1>5, <1>6, <1>7

\* A cancel request by file.
LEMMA StopKeeps ==
    ASSUME CampaignInv, Stop
    PROVE  CampaignInv'
<1>1. ASSUME NEW r \in Runs
      PROVE  /\ run'[r] \in RunStates
             /\ Sound(run[r], pause)'
  <2>. DEFINE me   == Disturbed[r]
              next == [me EXCEPT !.asked = @ \/ PollAhead(r)]
  <2>1. /\ me \in RunStates /\ Placed(me) /\ Heeds(me, stop) /\ Filled(me)
        /\ Undisturbed(me, TRUE, pause)
    BY DisturbedSound DEF CampaignInv, TypeOK
  <2>2. run[r] \in RunStates /\ Heeds(run[r], stop)
    BY DEF CampaignInv, TypeOK, Sound
  <2>3. me.at = run[r].at /\ me.step = run[r].step /\ me.outcome = run[r].outcome
    BY <2>2, DisturbedSound DEF RunStates
  <2>4. PollAhead(r) = Ahead(me)
    BY <2>3 DEF PollAhead, Ahead
  <2>5. ASSUME NEW b \in BOOLEAN
        PROVE  [me EXCEPT !.asked = b] \in RunStates
    BY <2>1 DEF RunStates
  <2>6. next \in RunStates
    BY <2>1, <2>5 DEF PollAhead
  <2>7. Placed(next) /\ Heeds(next, TRUE)
    BY <2>1, <2>4 DEF RunStates, Placed, Heeds, Ahead, Over
  <2>8. Filled(next) /\ Undisturbed(next, TRUE, pause)
    BY <2>1 DEF RunStates, Filled, Undisturbed
  <2>9. /\ run'[r] = next /\ stop' = TRUE /\ pause' = pause /\ plan' = plan
        /\ Full' = Full /\ Scope' = Scope
    BY DEF Stop, Full, Scope
  <2>10. QED BY <2>6, <2>7, <2>8, <2>9 DEF Sound, Placed, Heeds, Ahead, Bound, Filled,
                                           Undisturbed, Submits
<1>2. run' \in [Runs -> RunStates]
  <2>1. run' = [r \in Runs |-> run'[r]]
    BY DEF Stop
  <2>2. QED BY <1>1, <2>1
<1>3. TypeOK'
  BY <1>2 DEF Stop, CampaignInv, TypeOK
<1>4. QED BY <1>1, <1>3 DEF CampaignInv

\* The operations of the clients.
LEMMA ClientsKeep ==
    ASSUME CampaignInv, NEW c \in Clients, Check(c) \/ Flag(c) \/ Stub(c)
    PROVE  CampaignInv'
<1>1. CASE Check(c)
  <2>1. TypeOK'
    BY <1>1 DEF Check, CampaignInv, TypeOK
  <2>2. QED BY <1>1, <2>1 DEF Check, CampaignInv, Sound, Placed, Heeds, Ahead, Bound, Filled,
                              Undisturbed, Full, Scope, Submits
<1>2. CASE Flag(c) \/ Stub(c)
  <2>1. run' = Disturbed /\ stop' = stop /\ plan' = plan
    BY <1>2 DEF Flag, Stub
  <2>5. pause' \in BOOLEAN
    <3>1. CASE Flag(c) /\ c \in {"pause", "park"}
      BY <3>1 DEF Flag
    <3>2. CASE Flag(c) /\ c \notin {"pause", "park"}
      BY <3>2 DEF Flag
    <3>3. CASE Stub(c)
      BY <3>3 DEF Stub, CampaignInv, TypeOK
    <3>4. QED BY <1>2, <3>1, <3>2, <3>3
  <2>2. ASSUME NEW r \in Runs
        PROVE  Sound(run[r], pause)'
    <3>. DEFINE me == Disturbed[r]
    <3>1. /\ me \in RunStates /\ Placed(me) /\ Heeds(me, stop) /\ Filled(me)
          /\ Undisturbed(me, stop, pause')
      BY <2>5, DisturbedSound DEF CampaignInv, TypeOK
    <3>2. run'[r] = me /\ Full' = Full /\ Scope' = Scope
      BY <2>1 DEF Disturbed, Full, Scope
    <3>3. QED BY <2>1, <3>1, <3>2 DEF Sound, Placed, Heeds, Ahead, Bound, Filled, Undisturbed,
                                      Submits
  <2>3. run' \in [Runs -> RunStates]
    BY <2>1, DisturbedSound DEF Disturbed
  <2>4. doc' \in Docs
    <3>1. CASE Flag(c)
      BY <3>1 DEF Flag, CampaignInv, TypeOK
    <3>2. CASE Stub(c)
      BY <3>2, NoDocTyping DEF Stub, Docs, Statuses
    <3>3. QED BY <1>2, <3>1, <3>2
  <2>6. client' \in [Clients -> {"idle", "checked", "flagged"}]
    BY <1>2 DEF Flag, Stub, CampaignInv, TypeOK
  <2>7. QED BY <2>1, <2>2, <2>3, <2>4, <2>5, <2>6 DEF CampaignInv, TypeOK
<1>3. QED BY <1>1, <1>2

\* Signals and crashes.
LEMMA SignalsKeep ==
    ASSUME CampaignInv, NEW r \in Runs, Signal(r) \/ Crash(r)
    PROVE  CampaignInv'
<1>. DEFINE me == Disturbed[r]
<1>0. /\ me \in RunStates /\ Placed(me) /\ Heeds(me, stop) /\ NoDoc \in Docs
      /\ Filled(me) /\ me.disturbed = me.resumed /\ me.at \notin Ends
  <2>1. Alive(r)
    BY DEF Signal, Crash
  <2>2. me.at = run[r].at
    BY DisturbedSound DEF CampaignInv, TypeOK, RunStates
  <2>3. QED BY <2>1, <2>2, DisturbedSound, NoDocTyping DEF Alive
<1>1. PollAhead(r) = Ahead(me)
  BY DisturbedSound DEF PollAhead, Ahead, CampaignInv, TypeOK, RunStates
<1>. DEFINE dead     == [me EXCEPT !.at = "dead", !.copy = NoDoc]
            escaped  == [me EXCEPT !.at = "escaped"]
            signaled == [me EXCEPT !.signalled = TRUE, !.cancel = TRUE,
                                   !.asked = @ \/ PollAhead(r)]
<1>2. Sound(dead, pause)
  <2>1. dead \in RunStates
    BY <1>0, LocationsAre DEF RunStates
  <2>2. Placed(dead) /\ Heeds(dead, stop)
    BY <1>0 DEF RunStates, Placed, Heeds, Ahead, Bound, Over
  <2>3. Filled(dead) /\ Undisturbed(dead, stop, pause)
    BY <1>0 DEF RunStates, Filled, Undisturbed
  <2>4. QED BY <2>1, <2>2, <2>3 DEF Sound
<1>3. Sound(escaped, pause)
  <2>1. escaped \in RunStates
    BY <1>0, LocationsAre DEF RunStates
  <2>2. Placed(escaped) /\ Heeds(escaped, stop)
    BY <1>0 DEF RunStates, Placed, Heeds, Ahead, Bound, Over
  <2>3. Filled(escaped) /\ Undisturbed(escaped, stop, pause)
    BY <1>0 DEF RunStates, Filled, Undisturbed
  <2>4. QED BY <2>1, <2>2, <2>3 DEF Sound
<1>4. Sound(signaled, pause)
  <2>1. ASSUME NEW b \in BOOLEAN
        PROVE  [me EXCEPT !.signalled = TRUE, !.cancel = TRUE, !.asked = b] \in RunStates
    BY <1>0 DEF RunStates
  <2>2. signaled \in RunStates
    BY <1>0, <2>1 DEF PollAhead
  <2>3. Placed(signaled)
    BY <1>0 DEF RunStates, Placed
  <2>4. Heeds(signaled, stop)
    BY <1>0, <1>1 DEF RunStates, Heeds, Ahead, Bound, Over
  <2>5. Filled(signaled) /\ Undisturbed(signaled, stop, pause)
    BY <1>0 DEF RunStates, Filled, Undisturbed, Ends
  <2>6. QED BY <2>2, <2>3, <2>4, <2>5 DEF Sound
<1>5. CASE Crash(r)
  BY <1>2, <1>5, QuietKeep DEF Crash
<1>6. CASE Signal(r)
  <2>1. CASE me.at \in {"teardown", "close"}
    BY <1>3, <1>6, <2>1, QuietKeep DEF Signal
  <2>2. CASE me.at \notin {"teardown", "close"} /\ me.signalled
    BY <1>2, <1>6, <2>2, QuietKeep DEF Signal
  <2>3. CASE me.at \notin {"teardown", "close"} /\ ~me.signalled
    BY <1>4, <1>6, <2>3, QuietKeep DEF Signal
  <2>4. QED BY <2>1, <2>2, <2>3
<1>7. QED BY <1>5, <1>6

-----------------------------------------------------------------------------
(* The theorems.                                                           *)

\* The first state.
LEMMA InitSound == Init => CampaignInv
<1>. SUFFICES ASSUME Init
              PROVE  CampaignInv
  OBVIOUS
<1>1. Unborn \in RunStates
  BY NoDocTyping, CampaignAssumption DEF Unborn, RunStates, Locations, Steps, FanOuts, Statuses,
                                         NoRows, Rows
<1>2. TypeOK
  BY <1>1, NoDocTyping DEF Init, TypeOK
<1>3. Placed(Unborn) /\ Heeds(Unborn, FALSE)
  BY DEF Unborn, Placed, Heeds
<1>4. Filled(Unborn) /\ Undisturbed(Unborn, FALSE, FALSE)
  BY DEF Unborn, Filled, Undisturbed
<1>5. QED BY <1>1, <1>2, <1>3, <1>4 DEF Init, CampaignInv, Sound

\* Every step.
LEMMA NextSound == CampaignInv /\ [Next]_vars => CampaignInv'
<1>. SUFFICES ASSUME CampaignInv, [Next]_vars
              PROVE  CampaignInv'
  OBVIOUS
<1>1. CASE UNCHANGED vars
  BY <1>1 DEF vars, CampaignInv, TypeOK, Sound, Placed, Heeds, Ahead, Bound, Filled,
              Undisturbed, Full, Scope, Submits
<1>2. CASE Request
  <2>1. CASE Stop
    BY <2>1, StopKeeps
  <2>2. ASSUME NEW r \in Runs, Run(r) \/ Resume(r) \/ Signal(r) \/ Crash(r)
        PROVE  CampaignInv'
    BY <2>2, StartsKeep, SignalsKeep
  <2>3. ASSUME NEW c \in Clients, Check(c) \/ Flag(c) \/ Stub(c)
        PROVE  CampaignInv'
    BY <2>3, ClientsKeep
  <2>4. QED BY <1>2, <2>1, <2>2, <2>3 DEF Request
<1>3. ASSUME NEW r \in Runs, RunStep(r)
      PROVE  CampaignInv'
  <2>1. CASE FanOutStep(r)
    BY <2>1, FanOutKeeps, FanOutLeaves DEF FanOutStep
  <2>2. CASE ~FanOutStep(r)
    BY <1>3, <2>2, StartsKeep, LoopKeeps, StepsKeep, EndsKeep DEF RunStep
  <2>3. QED BY <2>1, <2>2
<1>4. QED BY <1>1, <1>2, <1>3 DEF Next

\* Every variable keeps its type, the count of generations its bound, whatever fails and
\* whatever is requested.
THEOREM CampaignTyping == Spec => []TypeOK
<1>1. CampaignInv => TypeOK
  BY DEF CampaignInv
<1>2. QED BY <1>1, InitSound, NextSound, PTL DEF Spec

\* A cancel that a run could still hear is never followed by a success, or by a detached
\* submission (the polls of runner.py and of the steps), for any samples, generations,
\* faults and requests.
THEOREM CancelNotLost == Spec => []CancelIsHonoured
<1>1. CampaignInv => CancelIsHonoured
  BY DEF CampaignInv, Sound, CancelIsHonoured, Heeds
<1>2. QED BY <1>1, InitSound, NextSound, PTL DEF Spec

\* A run that osimflow resume launched, and that no request and no fault reached, ends
\* with success, or with its simulations submitted under --detach-s3: nothing that the earlier run left behind stops it.
THEOREM ResumeSucceeds == Spec => []ResumedRunSucceeds
<1>1. CampaignInv => ResumedRunSucceeds
  BY DEF CampaignInv, Sound, ResumedRunSucceeds, Undisturbed, Ends
<1>2. QED BY <1>1, InitSound, NextSound, PTL DEF Spec
-----------------------------------------------------------------------------
(* What the end of a run leaves to be read. The three places that tell it, *)
(* the result, run.json and the registry, agree for every run that meets   *)
(* no other one, whatever the others do: a run that overlaps another may   *)
(* rename its copy of the other's document back. w is the run whose end is *)
(* followed.                                                               *)

Alone(w) == Alive(w) => \A q \in Runs : Alive(q) => q = w

\* Where the document is the run's own, or a status that the service has put there.
Owning == {"poll", "head", "enter", "gate", "work", "drain", "wrap", "wrapGate"}

\* Between two fan-outs nothing is under way and no checkpoint is half done.
Idle(me) ==
    \/ me.at \in {"unborn", "entry", "start"} \cup (Owning \ {"work", "drain"})
    \/ me.at = "work" /\ me.step \notin FanOuts

\* Whose document r may find where it owns it: w its own or the service's stub, the
\* others any but that of w.
Hands(w, r) == IF r = w THEN {0, w} ELSE (0..MaxRuns) \ {w}

Tells(w, r, me, d) ==
    /\ me.copy # NoDoc => me.at \in {"work", "drain"} /\ me.step \in FanOuts
    /\ me.copy # NoDoc => me.copy.by \in Hands(w, r)
    /\ me.copy.status = "absent" => me.copy.by = 0
    /\ Idle(me) => me.todo = {} /\ me.busy = {}
    /\ me.at \in Owning => d.by \in Hands(w, r)
    /\ me.at \in {"teardown", "close", "ended"} => me.status = me.outcome
    /\ me.at = "ended" => me.registry = me.outcome
    /\ r = w /\ me.at \in {"close", "ended"} /\ d.by = w => d = Written(r, me)

TellsInv(w) ==
    /\ Alone(w)
    /\ doc.status = "absent" => doc.by = 0
    /\ \A r \in Runs : Tells(w, r, run[r], doc)

\* Every run may find its own document and the stub; no other may find that of w, and what
\* one of the others may find any of them may.
LEMMA HandsApart ==
    ASSUME NEW w \in Runs, NEW r \in Runs
    PROVE  /\ {0, r} \subseteq Hands(w, r) /\ NoDoc.by = 0 /\ r # 0
           /\ r # w => w \notin Hands(w, r)
           /\ \A q \in Runs \ {w}, k \in Hands(w, r) : r # w => k \in Hands(w, q)
BY CampaignAssumption DEF Runs, Hands, NoDoc

\* A step of one run keeps what the others have told. While w is alive only w moves.
LEMMA AloneStep ==
    ASSUME CampaignInv, NEW w \in Runs, TellsInv(w), Alone(w)', NEW r \in Runs, NEW me,
           Moves(r, me), Tells(w, r, me, doc'), doc'.status = "absent" => doc'.by = 0,
           doc' = doc \/ (Alive(r) /\ doc'.by \in Hands(w, r))
    PROVE  TellsInv(w)'
<1>1. ASSUME NEW q \in Runs
      PROVE  run'[q] = IF q = r THEN me ELSE run[q]
  BY DEF Moves, CampaignInv, TypeOK
<1>2. ASSUME NEW q \in Runs
      PROVE  Tells(w, q, run[q], doc)'
  <2>1. CASE q = r
    BY <1>1, <2>1 DEF Tells, Idle, Written
  <2>2. CASE q # r
    <3>1. run'[q] = run[q] /\ Tells(w, q, run[q], doc)
      BY <1>1, <2>2 DEF TellsInv
    <3>2. CASE doc' = doc
      BY <3>1, <3>2 DEF Tells, Idle, Written
    <3>3. CASE Alive(r) /\ doc'.by \in Hands(w, r)
      <4>1. CASE q = w \/ r = w
        <5>1. run[q].at \in Ends
          BY <2>2, <3>3, <4>1 DEF TellsInv, Alone, Alive
        <5>2. q = w => doc'.by # w
          BY <2>2, <3>3, HandsApart
        <5>3. Tells(w, q, run[q], doc')
          BY <3>1, <5>1, <5>2 DEF Tells, Ends, Owning
        <5>4. QED BY <3>1, <5>3 DEF Tells, Idle, Written
      <4>2. CASE q # w /\ r # w
        <5>1. doc'.by \in Hands(w, q)
          BY <3>3, <4>2, HandsApart
        <5>2. Tells(w, q, run[q], doc')
          BY <3>1, <4>2, <5>1 DEF Tells
        <5>3. QED BY <3>1, <5>2 DEF Tells, Idle, Written
      <4>3. QED BY <4>1, <4>2
    <3>4. QED BY <3>2, <3>3
  <2>3. QED BY <2>1, <2>2
<1>3. QED BY <1>2 DEF TellsInv

\* The same for a step that leaves run.json alone, ...
LEMMA QuietTells ==
    ASSUME CampaignInv, NEW w \in Runs, TellsInv(w), Alone(w)', NEW r \in Runs, NEW me,
           Moves(r, me), UNCHANGED doc, Tells(w, r, me, doc)
    PROVE  TellsInv(w)'
BY AloneStep DEF TellsInv

\* ... and for one that writes it.
LEMMA WritesTell ==
    ASSUME CampaignInv, NEW w \in Runs, TellsInv(w), Alone(w)', NEW r \in Runs, NEW me,
           me.status \in Statuses,
           Writes(r, me), Alive(r), Tells(w, r, me, Written(r, me))
    PROVE  TellsInv(w)'
<1>1. doc'.by \in Hands(w, r) /\ doc'.status # "absent"
  BY HandsApart DEF Writes, Written, Statuses
<1>2. QED BY <1>1, AloneStep DEF Writes

\* A write that may fail is one or the other.
LEMMA TriesTell ==
    ASSUME CampaignInv, NEW w \in Runs, TellsInv(w), Alone(w)', NEW r \in Runs, NEW me,
           me.status \in Statuses, TriesToWrite(r, me), Alive(r),
           Tells(w, r, me, Written(r, me)), Tells(w, r, me, doc)
    PROVE  TellsInv(w)'
BY WritesTell, QuietTells DEF TriesToWrite

\* The launch of a run, its checks before the first step.
LEMMA StartsTell ==
    ASSUME CampaignInv, NEW w \in Runs, TellsInv(w), Alone(w)', NEW r \in Runs,
           Run(r) \/ Resume(r) \/ Precheck(r) \/ Start(r) \/ StartFails(r)
    PROVE  TellsInv(w)'
<1>0. run[r] \in RunStates /\ Tells(w, r, run[r], doc)
  BY DEF CampaignInv, Sound, TellsInv
<1>1. ASSUME NEW byResume \in BOOLEAN, Launch(r, byResume)
      PROVE  TellsInv(w)'
  <2>. DEFINE next == [run[r] EXCEPT !.at = "entry", !.registry = "running", !.asked = stop,
                                     !.resumed = byResume, !.disturbed = byResume /\ stop]
  <2>1. Tells(w, r, next, doc)
    BY <1>0, <1>1 DEF RunStates, Tells, Idle, Owning, Launch
  <2>2. QED BY <1>1, <2>1, QuietTells DEF Launch
<1>2. CASE Run(r)
  BY <1>1, <1>2 DEF Run
<1>3. CASE Resume(r)
  BY <1>1, <1>3 DEF Resume
<1>4. CASE Precheck(r)
  <2>. DEFINE next == IF Heard(r) THEN [run[r] EXCEPT !.at = "interrupted", !.cancel = TRUE]
                                  ELSE [run[r] EXCEPT !.at = "start"]
  <2>1. Tells(w, r, next, doc)
    BY <1>0, <1>4 DEF RunStates, Tells, Idle, Owning, Precheck
  <2>2. QED BY <1>4, <2>1, QuietTells DEF Precheck, Alive, Ends
<1>5. CASE Start(r)
  <2>. DEFINE next == [run[r] EXCEPT
                         !.at   = IF Full THEN "head" ELSE "poll",
                         !.step = IF plan.mode = "single" THEN "apply" ELSE "generate"]
  <2>1. Tells(w, r, next, Written(r, next)) /\ next.status \in Statuses
    BY <1>0, <1>5, HandsApart DEF RunStates, Tells, Idle, Owning, Written, Start
  <2>2. QED BY <1>5, <2>1, WritesTell DEF Start, Alive, Ends
<1>6. CASE StartFails(r)
  <2>. DEFINE next == [run[r] EXCEPT !.at = "failing", !.disturbed = run[r].resumed]
  <2>1. Tells(w, r, next, doc)
    BY <1>0, <1>6 DEF RunStates, Tells, Idle, Owning, StartFails
  <2>2. QED BY <1>6, <2>1, QuietTells DEF StartFails, Alive, Ends
<1>7. QED BY <1>2, <1>3, <1>4, <1>5, <1>6

\* The polls of the short runs and the generation loop of a full one.
LEMMA LoopTells ==
    ASSUME CampaignInv, NEW w \in Runs, TellsInv(w), Alone(w)', NEW r \in Runs,
           Poll(r) \/ NextGeneration(r) \/ LastGeneration(r) \/ Wrap(r) \/ Aggregates(r)
    PROVE  TellsInv(w)'
<1>0. run[r] \in RunStates /\ Tells(w, r, run[r], doc)
  BY DEF CampaignInv, Sound, TellsInv
<1>1. ASSUME run[r].at \in {"poll", "wrap"}, Writes(r, Partial(r))
      PROVE  TellsInv(w)'
  <2>1. Tells(w, r, Partial(r), Written(r, Partial(r))) /\ Partial(r).status \in Statuses
    BY <1>0, <1>1 DEF Partial, RunStates, Tells, Idle, Owning, Statuses
  <2>2. QED BY <1>1, <2>1, WritesTell DEF Alive, Ends
<1>2. ASSUME NEW place \in {"enter", "finish", "wrapGate"}, UNCHANGED doc,
             run[r].at \in {"poll", "wrap", "wrapGate"}, Moves(r, [run[r] EXCEPT !.at = place])
      PROVE  TellsInv(w)'
  <2>1. Tells(w, r, [run[r] EXCEPT !.at = place], doc)
    BY <1>0, <1>2 DEF RunStates, Tells, Idle, Owning
  <2>2. QED BY <1>2, <2>1, QuietTells DEF Alive, Ends
<1>3. CASE Poll(r)
  BY <1>1, <1>2, <1>3 DEF Poll
<1>4. CASE Wrap(r) \/ Aggregates(r)
  BY <1>1, <1>2, <1>4 DEF Wrap, Aggregates
<1>5. CASE NextGeneration(r)
  <2>. DEFINE next == [run[r] EXCEPT !.at = "enter", !.step = "generate"]
  <2>1. Tells(w, r, next, doc)
    BY <1>0, <1>5 DEF RunStates, Tells, Idle, Owning, NextGeneration
  <2>2. QED BY <1>5, <2>1, QuietTells DEF NextGeneration, Alive, Ends
<1>6. CASE LastGeneration(r)
  <2>. DEFINE next == [run[r] EXCEPT !.at = "wrap", !.step = "aggregate", !.cancel = Heard(r)]
  <2>1. Tells(w, r, next, doc)
    BY <1>0, <1>6 DEF RunStates, Tells, Idle, Owning, LastGeneration
  <2>2. QED BY <1>6, <2>1, QuietTells DEF LastGeneration, Alive, Ends
<1>7. QED BY <1>3, <1>4, <1>5, <1>6

\* A step that ends with nothing under way sends the run on with nothing under way.
LEMMA AdvancedTells ==
    ASSUME NEW w \in Runs, NEW r \in Runs, NEW me \in RunStates, NEW d, Tells(w, r, me, d), Placed(me),
           me.at \in {"work", "drain"}, me.copy = NoDoc, me.todo = {}, me.busy = {}
    PROVE  Tells(w, r, Advanced(me), d)
<1>. DEFINE next == Advanced(me)
<1>1. /\ next.at \in {"enter", "finish", "head", "poll"}
      /\ next.copy = NoDoc /\ next.todo = {} /\ next.busy = {}
  <2>. USE DEF RunStates
  <2>1. CASE me.step = "aggregate"
    BY <2>1 DEF Advanced
  <2>2. CASE me.step = "plots"
    BY <2>2 DEF Advanced
  <2>3. CASE me.step = "extract"
    BY <2>3 DEF Advanced
  <2>4. CASE me.step \in {"generate", "apply", "simulate"}
    BY <2>4 DEF Advanced
  <2>5. QED BY <2>1, <2>2, <2>3, <2>4 DEF Steps, FanOuts, Placed
<1>2. d.by \in Hands(w, r)
  BY DEF Tells, Owning
<1>3. QED BY <1>1, <1>2 DEF Tells, Owning, Idle, NoDoc

\* The head of a step, a step without samples, a pause and an exception.
LEMMA StepsTell ==
    ASSUME CampaignInv, NEW w \in Runs, TellsInv(w), Alone(w)', NEW r \in Runs,
           \/ Enter(r) \/ PlainStep(r) \/ Fails(r) \/ PausesAt(r, "gate")
           \/ PausesAt(r, "wrapGate") \/ LoopPauses(r)
    PROVE  TellsInv(w)'
<1>0. run[r] \in RunStates /\ Tells(w, r, run[r], doc) /\ Placed(run[r])
  BY DEF CampaignInv, Sound, TellsInv
<1>1. CASE Enter(r)
  <2>. DEFINE next == CASE Heard(r) -> [run[r] EXCEPT !.at = "interrupted", !.cancel = TRUE]
                        [] ~Heard(r) /\ run[r].step \in FanOuts -> [run[r] EXCEPT !.at = "gate"]
                        [] OTHER -> [run[r] EXCEPT !.at = "work"]
  <2>1. Tells(w, r, next, doc)
    <3>1. CASE Heard(r)
      BY <1>0, <1>1, <3>1 DEF RunStates, Tells, Idle, Owning, Enter
    <3>2. CASE ~Heard(r) /\ run[r].step \in FanOuts
      BY <1>0, <1>1, <3>2 DEF RunStates, Tells, Idle, Owning, Enter
    <3>3. CASE ~Heard(r) /\ run[r].step \notin FanOuts
      BY <1>0, <1>1, <3>3 DEF RunStates, Tells, Idle, Owning, Enter
    <3>4. QED BY <3>1, <3>2, <3>3
  <2>2. QED BY <1>1, <2>1, QuietTells DEF Enter, Alive, Ends
<1>2. CASE PlainStep(r)
  <2>1. run[r].copy = NoDoc /\ run[r].todo = {} /\ run[r].busy = {}
    BY <1>0, <1>2 DEF PlainStep, Tells, Idle
  <2>2. Tells(w, r, Advanced(run[r]), doc)
    BY <1>0, <1>2, <2>1, AdvancedTells DEF PlainStep
  <2>3. QED BY <1>2, <2>2, QuietTells DEF PlainStep, Alive, Ends
<1>3. CASE Fails(r)
  <2>. DEFINE next == [run[r] EXCEPT !.at = "failing", !.disturbed = run[r].resumed]
  <2>1. Tells(w, r, next, doc)
    BY <1>0, <1>3 DEF RunStates, Tells, Idle, Owning, Fails, Unlocked
  <2>2. QED BY <1>3, <2>1, QuietTells DEF Fails, MayRaise, Alive, Ends
<1>4. ASSUME NEW location \in {"gate", "wrapGate", "work"}, PausesAt(r, location), Unlocked(r)
      PROVE  TellsInv(w)'
  <2>. DEFINE next == [run[r] EXCEPT !.at = "pausing", !.status = "paused"]
  <2>1. /\ Tells(w, r, next, Written(r, next)) /\ Tells(w, r, next, doc)
        /\ next.status \in Statuses
    BY <1>0, <1>4 DEF RunStates, Tells, Idle, Owning, PausesAt, Unlocked, Statuses
  <2>2. QED BY <1>4, <2>1, TriesTell DEF PausesAt, Alive, Ends
<1>5. CASE PausesAt(r, "gate") \/ PausesAt(r, "wrapGate")
  BY <1>0, <1>4, <1>5 DEF PausesAt, Unlocked, Tells
<1>6. CASE LoopPauses(r)
  BY <1>4, <1>6 DEF LoopPauses
<1>7. QED BY <1>1, <1>2, <1>3, <1>5, <1>6

\* The run leaves the loop or the wait for the next step, a handler or a drain.
LEMMA FanOutLeavesTold ==
    ASSUME CampaignInv, NEW w \in Runs, TellsInv(w), Alone(w)', NEW r \in Runs,
           LoopHears(r) \/ WaitHears(r) \/ WaitPauses(r) \/ FanOutEnds(r)
    PROVE  TellsInv(w)'
<1>0. run[r] \in RunStates /\ Tells(w, r, run[r], doc) /\ Placed(run[r])
  BY DEF CampaignInv, Sound, TellsInv
<1>1. CASE LoopHears(r)
  <2>. DEFINE next == [run[r] EXCEPT !.at = "interrupted", !.cancel = TRUE]
  <2>1. Tells(w, r, next, doc)
    BY <1>0, <1>1 DEF RunStates, Tells, Idle, Owning, LoopHears, Unlocked
  <2>2. QED BY <1>1, <2>1, QuietTells DEF LoopHears, InFanOut, Alive, Ends
<1>2. CASE WaitHears(r)
  <2>. DEFINE next == [run[r] EXCEPT !.at = "drain", !.cancel = TRUE]
  <2>1. Tells(w, r, next, doc)
    BY <1>0, <1>2 DEF RunStates, Tells, Idle, Owning, WaitHears, InFanOut
  <2>2. QED BY <1>2, <2>1, QuietTells DEF WaitHears, InFanOut, Alive, Ends
<1>3. CASE WaitPauses(r)
  <2>. DEFINE next == [run[r] EXCEPT !.at = "drain", !.status = "paused"]
  <2>1. /\ Tells(w, r, next, Written(r, next)) /\ Tells(w, r, next, doc)
        /\ next.status \in Statuses
    BY <1>0, <1>3, HandsApart
      DEF RunStates, Tells, Idle, Owning, WaitPauses, Unlocked, InFanOut, Written, Statuses
  <2>2. QED BY <1>3, <2>1, TriesTell DEF WaitPauses, InFanOut, Alive, Ends
<1>4. CASE FanOutEnds(r)
  <2>. DEFINE codes == [s \in Samples |->
                          IF s \in run[r].todo
                          THEN [run[r].exit[s] EXCEPT ![run[r].step] = "failed"]
                          ELSE run[r].exit[s]]
              me    == [run[r] EXCEPT !.todo = {}, !.exit = codes]
  <2>1. codes \in [Samples -> [FanOuts -> {"none", "ok", "failed"}]]
    BY <1>0 DEF RunStates
  <2>2. me \in RunStates
    BY <1>0, <2>1 DEF RunStates
  <2>3. /\ Placed(me) /\ Tells(w, r, me, doc) /\ me.at \in {"work", "drain"}
        /\ me.copy = NoDoc /\ me.todo = {} /\ me.busy = {}
    BY <1>0, <1>4 DEF RunStates, Placed, Tells, Idle, Owning, FanOutEnds, Unlocked
  <2>4. Tells(w, r, Advanced(me), doc)
    BY <2>2, <2>3, AdvancedTells
  <2>5. Moves(r, Advanced(me)) /\ UNCHANGED doc /\ Alive(r)
    BY <1>4 DEF FanOutEnds, Alive, Ends
  <2>6. QED BY <2>4, <2>5, QuietTells
<1>5. QED BY <1>1, <1>2, <1>3, <1>4

\* A fan-out begins or only submits, awaits its samples and checkpoints them.
LEMMA FanOutTells ==
    ASSUME CampaignInv, NEW w \in Runs, TellsInv(w), Alone(w)', NEW r \in Runs,
           \/ FanOutBegins(r) \/ Detaches(r) \/ Checkpoints(r) \/ CheckpointFails(r)
           \/ \E s \in Samples : \/ Skips(r, s) \/ Takes(r, s)
                                 \/ \E code \in {"ok", "failed"} : Completes(r, s, code)
    PROVE  TellsInv(w)'
<1>0. run[r] \in RunStates /\ Tells(w, r, run[r], doc) /\ Placed(run[r]) /\ doc \in Docs
  BY DEF CampaignInv, TypeOK, Sound, TellsInv
<1>1. ASSUME NEW me, Moves(r, me), UNCHANGED doc,
             run[r].at \in {"gate", "work", "drain"}, run[r].step \in FanOuts,
             me.at \in {"work", "drain"}, me.step = run[r].step,
             me.copy = NoDoc \/ me.copy.by \in Hands(w, r),
             me.copy.status = "absent" => me.copy.by = 0
      PROVE  TellsInv(w)'
  <2>1. Tells(w, r, me, doc)
    BY <1>0, <1>1 DEF Tells, Idle, Owning
  <2>2. QED BY <1>1, <2>1, QuietTells DEF Alive, Ends
<1>2. CASE FanOutBegins(r)
  <2>. DEFINE inputs == IF run[r].step = "apply" THEN Scope ELSE run[r].got
  <2>1. PICK cached \in SUBSET inputs :
            Moves(r, [run[r] EXCEPT
                !.at = "work", !.known = TRUE, !.awaited = FALSE,
                !.todo = inputs \ cached, !.got = cached,
                !.exit = [s \in Samples |->
                            IF s \in cached THEN [run[r].exit[s] EXCEPT ![run[r].step] = "ok"]
                                            ELSE run[r].exit[s]]])
    BY <1>2 DEF FanOutBegins
  <2>2. UNCHANGED doc /\ run[r].at = "gate" /\ run[r].step \in FanOuts
    BY <1>0, <1>2 DEF FanOutBegins, Placed
  <2>3. run[r].copy = NoDoc
    BY <1>0, <2>2 DEF Tells
  <2>. DEFINE codes == [s \in Samples |->
                          IF s \in cached THEN [run[r].exit[s] EXCEPT ![run[r].step] = "ok"]
                                          ELSE run[r].exit[s]]
              next  == [run[r] EXCEPT !.at = "work", !.known = TRUE, !.awaited = FALSE,
                                      !.todo = inputs \ cached, !.got = cached, !.exit = codes]
  <2>4. Moves(r, next)
    BY <2>1
  <2>5. next.at = "work" /\ next.step = run[r].step /\ next.copy = NoDoc
    BY <1>0, <2>3 DEF RunStates
  <2>6. NoDoc.by = 0
    BY DEF NoDoc
  <2>7. QED BY <1>1, <2>2, <2>4, <2>5, <2>6
<1>3. CASE Checkpoints(r) \/ CheckpointFails(r)
  <2>. DEFINE next == [run[r] EXCEPT !.copy = NoDoc]
  <2>1. /\ Moves(r, next) /\ doc' \in {doc, run[r].copy} /\ Alive(r)
        /\ run[r].at \in {"work", "drain"} /\ run[r].step \in FanOuts
        /\ run[r].copy.by \in Hands(w, r) /\ doc.by \in Hands(w, r)
    BY <1>0, <1>3 DEF Checkpoints, CheckpointFails, Unlocked, Tells, Owning, Alive, Ends
  <2>2. Tells(w, r, next, doc')
    BY <1>0, <2>1 DEF RunStates, Tells, Idle, Owning, NoDoc
  <2>3. doc'.status = "absent" => doc'.by = 0
    BY <1>0, <2>1 DEF Tells, TellsInv
  <2>4. QED BY <2>1, <2>2, <2>3, AloneStep
<1>4. ASSUME NEW s \in Samples, Skips(r, s)
      PROVE  TellsInv(w)'
  <2>. DEFINE next == [run[r] EXCEPT !.todo = @ \ {s}, !.exit[s][run[r].step] = "failed"]
  <2>1. Moves(r, next) /\ UNCHANGED doc /\ run[r].at = "work" /\ run[r].step \in FanOuts
    BY <1>4 DEF Skips, InFanOut
  <2>2. next.at = run[r].at /\ next.step = run[r].step /\ next.copy = run[r].copy
    BY <1>0 DEF RunStates
  <2>3. QED BY <1>0, <1>1, <2>1, <2>2 DEF Tells
<1>5. ASSUME NEW s \in Samples, Takes(r, s)
      PROVE  TellsInv(w)'
  <2>. DEFINE next == [run[r] EXCEPT !.busy = {s}, !.awaited = TRUE]
  <2>1. Moves(r, next) /\ UNCHANGED doc /\ run[r].at = "work" /\ run[r].step \in FanOuts
    BY <1>5 DEF Takes, InFanOut
  <2>2. next.at = run[r].at /\ next.step = run[r].step /\ next.copy = run[r].copy
    BY <1>0 DEF RunStates
  <2>3. QED BY <1>0, <1>1, <2>1, <2>2 DEF Tells
<1>6. ASSUME NEW s \in Samples, NEW code \in {"ok", "failed"}, Completes(r, s, code)
      PROVE  TellsInv(w)'
  <2>. DEFINE codes == [run[r].exit[s] EXCEPT ![run[r].step] = code]
              good  == IF code = "ok" THEN run[r].got \cup {s} ELSE run[r].got
              exits == [run[r].exit EXCEPT ![s] = codes]
              merge == [doc EXCEPT !.rows[s] = RowOf(codes)]
              next  == [run[r] EXCEPT !.todo = @ \ {s}, !.busy = {}, !.awaited = TRUE,
                                      !.got = good, !.exit = exits, !.copy = merge]
  <2>1. /\ Moves(r, next) /\ UNCHANGED doc /\ run[r].at \in {"work", "drain"}
        /\ run[r].todo # {} \/ run[r].busy # {}
    BY <1>6 DEF Completes
  <2>2. run[r].step \in FanOuts
    BY <1>0, <2>1 DEF Tells, Idle, Placed
  <2>3. next.at = run[r].at /\ next.step = run[r].step /\ next.copy = merge
    BY <1>0 DEF RunStates
  <2>4. merge.by = doc.by /\ merge.status = doc.status
    BY <1>0 DEF Docs
  <2>5. merge.by \in Hands(w, r) /\ (merge.status = "absent" => merge.by = 0)
    BY <1>0, <2>1, <2>4 DEF Tells, Owning, TellsInv
  <2>6. QED BY <1>1, <2>1, <2>2, <2>3, <2>5
<1>7. CASE Detaches(r)
  <2>. DEFINE next == [run[r] EXCEPT !.at = "submitting"]
  <2>1. Tells(w, r, next, doc)
    BY <1>0, <1>7 DEF RunStates, Tells, Idle, Owning, Detaches
  <2>2. QED BY <1>7, <2>1, QuietTells DEF Detaches, Alive, Ends
<1>8. QED BY <1>2, <1>3, <1>4, <1>5, <1>6, <1>7

\* The last write, the handlers and the finally block.
LEMMA EndsTell ==
    ASSUME CampaignInv, NEW w \in Runs, TellsInv(w), Alone(w)', NEW r \in Runs,
           \/ Finish(r) \/ Settle(r)
           \/ HandlePause(r) \/ HandleInterrupt(r) \/ HandleDetach(r) \/ HandleFailure(r)
           \/ Teardown(r) \/ TeardownFails(r) \/ Close(r)
    PROVE  TellsInv(w)'
<1>0. run[r] \in RunStates /\ Tells(w, r, run[r], doc)
  BY DEF CampaignInv, Sound, TellsInv
<1>1. CASE Finish(r)
  <2>. DEFINE next == [run[r] EXCEPT !.at = "settle", !.rows = Report(r), !.finished = TRUE]
  <2>1. Tells(w, r, next, Written(r, next)) /\ next.status \in Statuses
    BY <1>0, <1>1 DEF RunStates, Tells, Idle, Owning, Finish
  <2>2. QED BY <1>1, <2>1, WritesTell DEF Finish, Alive, Ends
<1>2. CASE Settle(r)
  <2>. DEFINE settled == IF run[r].status \in {"cancelled", "paused"}
                         THEN run[r].status ELSE "success"
              next == [run[r] EXCEPT !.at = "teardown", !.status = settled,
                                     !.outcome = settled]
  <2>1. Tells(w, r, next, doc)
    BY <1>0, <1>2 DEF RunStates, Tells, Idle, Owning, Settle
  <2>2. QED BY <1>2, <2>1, QuietTells DEF Settle, Alive, Ends
<1>3. CASE HandlePause(r)
  <2>. DEFINE next == [run[r] EXCEPT !.at = "teardown", !.status = "paused",
                                     !.outcome = "paused"]
  <2>1. /\ Tells(w, r, next, Written(r, next)) /\ Tells(w, r, next, doc)
        /\ next.status \in Statuses
    BY <1>0, <1>3 DEF RunStates, Tells, Idle, Owning, Statuses, HandlePause
  <2>2. QED BY <1>3, <2>1, TriesTell DEF HandlePause, Alive, Ends
<1>4. CASE HandleInterrupt(r)
  <2>. DEFINE next == [run[r] EXCEPT !.at = "teardown", !.status = "cancelled",
                                     !.outcome = "cancelled", !.finished = TRUE]
  <2>1. /\ Tells(w, r, next, Written(r, next)) /\ Tells(w, r, next, doc)
        /\ next.status \in Statuses
    BY <1>0, <1>4 DEF RunStates, Tells, Idle, Owning, Statuses, HandleInterrupt
  <2>2. QED BY <1>4, <2>1, TriesTell DEF HandleInterrupt, Alive, Ends
<1>5. CASE HandleFailure(r)
  <2>. DEFINE next == [run[r] EXCEPT !.at = "teardown", !.status = "failure",
                                     !.outcome = "failure", !.finished = TRUE]
  <2>1. Tells(w, r, next, doc)
    BY <1>0, <1>5 DEF RunStates, Tells, Idle, Owning, HandleFailure
  <2>2. QED BY <1>5, <2>1, QuietTells DEF HandleFailure, Alive, Ends
<1>6. CASE Teardown(r)
  <2>. DEFINE next == [run[r] EXCEPT !.at = "close"]
  <2>1. Written(r, next) = Written(r, run[r])
    BY <1>0 DEF RunStates, Written
  <2>2. CASE doc.status = "absent"
    <3>1. UNCHANGED doc /\ doc.by # r
      BY <1>6, <2>2 DEF Teardown, TellsInv, Runs
    <3>2. Tells(w, r, next, doc)
      BY <1>0, <1>6, <3>1 DEF RunStates, Tells, Idle, Owning, Teardown
    <3>3. QED BY <1>6, <3>1, <3>2, QuietTells DEF Teardown, Alive, Ends
  <2>3. CASE doc.status # "absent"
    <3>1. Tells(w, r, next, Written(r, next)) /\ next.status \in Statuses
      BY <1>0, <1>6 DEF RunStates, Tells, Idle, Owning, Teardown
    <3>2. Writes(r, next)
      BY <1>6, <2>1, <2>3 DEF Teardown, Writes
    <3>3. QED BY <1>6, <3>1, <3>2, WritesTell DEF Teardown, Alive, Ends
  <2>4. QED BY <2>2, <2>3
<1>7. CASE TeardownFails(r)
  <2>. DEFINE next == [run[r] EXCEPT !.at = "escaped", !.disturbed = run[r].resumed]
  <2>1. Tells(w, r, next, doc)
    BY <1>0, <1>7 DEF RunStates, Tells, Idle, Owning, TeardownFails
  <2>2. QED BY <1>7, <2>1, QuietTells DEF TeardownFails, Alive, Ends
<1>8. CASE Close(r)
  <2>. DEFINE next == [run[r] EXCEPT !.at = "ended", !.registry = run[r].outcome]
  <2>1. Written(r, next) = Written(r, run[r])
    BY <1>0 DEF RunStates, Written
  <2>2. Tells(w, r, next, doc)
    BY <1>0, <1>8, <2>1 DEF RunStates, Tells, Idle, Owning, Close
  <2>3. QED BY <1>8, <2>2, QuietTells DEF Close, Alive, Ends
<1>9. CASE HandleDetach(r)
  <2>. DEFINE next == [run[r] EXCEPT !.at = "teardown", !.status = "detached",
                                     !.outcome = "detached", !.finished = TRUE]
  <2>1. /\ Tells(w, r, next, Written(r, next)) /\ Tells(w, r, next, doc)
        /\ next.status \in Statuses
    BY <1>0, <1>9 DEF RunStates, Tells, Idle, Owning, Statuses, HandleDetach
  <2>2. QED BY <1>9, <2>1, TriesTell DEF HandleDetach, Alive, Ends
<1>10. QED BY <1>1, <1>2, <1>3, <1>4, <1>5, <1>6, <1>7, <1>8, <1>9

\* A request touches nothing of a run that its end is told from.
LEMMA DisturbedTells ==
    ASSUME CampaignInv, NEW w \in Runs, TellsInv(w), Alone(w)', NEW asks \in [Runs -> BOOLEAN],
           \/ run' = Disturbed
           \/ run' = [r \in Runs |-> [Disturbed[r] EXCEPT !.asked = asks[r]]],
           doc' = doc \/ doc'.by = 0
    PROVE  TellsInv(w)'
<1>1. ASSUME NEW r \in Runs
      PROVE  /\ run'[r].at = run[r].at /\ run'[r].step = run[r].step
             /\ run'[r].copy = run[r].copy
             /\ run'[r].todo = run[r].todo /\ run'[r].busy = run[r].busy
             /\ run'[r].status = run[r].status /\ run'[r].outcome = run[r].outcome
             /\ run'[r].registry = run[r].registry
             /\ Written(r, run'[r]) = Written(r, run[r])
  <2>1. run[r] \in RunStates /\ Disturbed[r] \in RunStates
        /\ Disturbed[r] \in {run[r], [run[r] EXCEPT !.disturbed = run[r].resumed]}
    BY DisturbedSound DEF CampaignInv, Sound
  <2>2. run'[r] \in {Disturbed[r], [Disturbed[r] EXCEPT !.asked = asks[r]]}
    BY DEF Disturbed
  <2>3. QED BY <2>1, <2>2 DEF RunStates, Written
<1>2. ASSUME NEW r \in Runs
      PROVE  Tells(w, r, run[r], doc)'
  <2>1. Tells(w, r, run'[r], doc)
    BY <1>1 DEF TellsInv, Tells, Idle
  <2>2. w # 0 /\ 0 \in Hands(w, r)
    BY HandsApart
  <2>3. Tells(w, r, run'[r], doc')
    BY <2>1, <2>2 DEF Tells
  <2>4. QED BY <2>3 DEF Tells, Idle, Written
<1>3. doc'.status = "absent" => doc'.by = 0
  BY DEF TellsInv
<1>4. QED BY <1>2, <1>3 DEF TellsInv

\* A cancel by file, the operations of the clients, signals and crashes.
LEMMA RequestsTell ==
    ASSUME CampaignInv, NEW w \in Runs, TellsInv(w), Alone(w)', Request
    PROVE  TellsInv(w)'
<1>1. CASE Stop
  <2>. DEFINE asks == [r \in Runs |-> Disturbed[r].asked \/ PollAhead(r)]
  <2>1. asks \in [Runs -> BOOLEAN]
    BY DEF PollAhead
  <2>2. run' = [r \in Runs |-> [Disturbed[r] EXCEPT !.asked = asks[r]]] /\ doc' = doc
    BY <1>1 DEF Stop
  <2>3. QED BY <2>1, <2>2, DisturbedTells
<1>2. ASSUME NEW c \in Clients, Check(c)
      PROVE  TellsInv(w)'
  BY <1>2 DEF Check, TellsInv, Tells, Idle, Written
<1>3. ASSUME NEW c \in Clients, Flag(c) \/ Stub(c)
      PROVE  TellsInv(w)'
  <2>1. run' = Disturbed
    BY <1>3 DEF Flag, Stub
  <2>2. doc' = doc \/ doc'.by = 0
    BY <1>3 DEF Flag, Stub, NoDoc
  <2>3. [r \in Runs |-> FALSE] \in [Runs -> BOOLEAN]
    OBVIOUS
  <2>4. QED BY <2>1, <2>2, <2>3, DisturbedTells
<1>4. ASSUME NEW r \in Runs, Signal(r) \/ Crash(r)
      PROVE  TellsInv(w)'
  <2>. DEFINE me       == Disturbed[r]
              dead     == [me EXCEPT !.at = "dead", !.copy = NoDoc]
              escaped  == [me EXCEPT !.at = "escaped"]
              signaled == [me EXCEPT !.signalled = TRUE, !.cancel = TRUE,
                                     !.asked = @ \/ PollAhead(r)]
  <2>1. /\ me \in RunStates /\ run[r] \in RunStates /\ Alive(r) /\ UNCHANGED doc
        /\ me \in {run[r], [run[r] EXCEPT !.disturbed = run[r].resumed]}
    BY <1>4, DisturbedSound DEF Signal, Crash, CampaignInv, Sound
  <2>2. Tells(w, r, me, doc)
    BY <2>1 DEF RunStates, TellsInv, Tells, Idle, Written
  <2>3. Tells(w, r, dead, doc)
    BY <2>1, <2>2 DEF RunStates, Tells, Idle, Owning, NoDoc
  <2>4. CASE Crash(r)
    BY <2>1, <2>3, <2>4, QuietTells DEF Crash
  <2>5. CASE Signal(r) /\ me.at \in {"teardown", "close"}
    <3>1. Tells(w, r, escaped, doc)
      BY <2>1, <2>2, <2>5 DEF RunStates, Tells, Idle, Owning
    <3>2. QED BY <2>1, <2>5, <3>1, QuietTells DEF Signal
  <2>6. CASE Signal(r) /\ me.at \notin {"teardown", "close"} /\ me.signalled
    BY <2>1, <2>3, <2>6, QuietTells DEF Signal
  <2>7. CASE Signal(r) /\ me.at \notin {"teardown", "close"} /\ ~me.signalled
    <3>1. /\ signaled.at = me.at /\ signaled.step = me.step /\ signaled.copy = me.copy
          /\ signaled.todo = me.todo /\ signaled.busy = me.busy
          /\ signaled.status = me.status /\ signaled.outcome = me.outcome
          /\ signaled.registry = me.registry /\ Written(r, signaled) = Written(r, me)
      BY <2>1 DEF RunStates, Written
    <3>2. Tells(w, r, signaled, doc)
      BY <2>2, <3>1 DEF Tells, Idle
    <3>3. QED BY <2>1, <2>7, <3>2, QuietTells DEF Signal
  <2>8. QED BY <1>4, <2>4, <2>5, <2>6, <2>7
<1>5. ASSUME NEW r \in Runs, Run(r) \/ Resume(r)
      PROVE  TellsInv(w)'
  BY <1>5, StartsTell
<1>6. QED BY <1>1, <1>2, <1>3, <1>4, <1>5 DEF Request

\* The first state, ...
LEMMA FirstTells ==
    ASSUME NEW w \in Runs, Init
    PROVE  TellsInv(w)
<1>1. Alone(w)
  BY DEF Init, Alone, Alive, Ends, Unborn
<1>2. ASSUME NEW r \in Runs
      PROVE  Tells(w, r, Unborn, NoDoc)
  BY DEF Unborn, NoDoc, Tells, Idle, Owning
<1>3. QED BY <1>1, <1>2 DEF Init, TellsInv, NoDoc

\* ... and every step, as long as w overlaps nobody.
LEMMA NextTells ==
    ASSUME CampaignInv, NEW w \in Runs, TellsInv(w), Alone(w)', [Next]_vars
    PROVE  TellsInv(w)'
<1>1. CASE UNCHANGED vars
  BY <1>1 DEF vars, TellsInv, Tells, Idle, Written
<1>2. CASE Request
  BY <1>2, RequestsTell
<1>3. ASSUME NEW r \in Runs, RunStep(r)
      PROVE  TellsInv(w)'
  <2>1. CASE FanOutStep(r)
    BY <2>1, FanOutTells, FanOutLeavesTold, StepsTell DEF FanOutStep
  <2>2. CASE ~FanOutStep(r)
    BY <1>3, <2>2, StartsTell, LoopTells, StepsTell, EndsTell DEF RunStep
  <2>3. QED BY <2>1, <2>2
<1>4. QED BY <1>1, <1>2, <1>3 DEF Next

\* What a reader finds at the end of w: the outcome in the registry and in a run.json that
\* carries the run's name, and after a success a row for every sample.
EndIsTold(w) ==
    run[w].at = "ended" =>
        /\ run[w].registry = run[w].outcome
        /\ doc.by = w => /\ doc.status = run[w].outcome
                         /\ run[w].outcome = "success" =>
                                \A s \in Scope : doc.rows[s] = RowOf(run[w].exit[s])

\* The step from the invariants to what is read.
LEMMA TellsEnd ==
    ASSUME CampaignInv, NEW w \in Runs, TellsInv(w)
    PROVE  EndIsTold(w)
<1>1. /\ Filled(run[w]) /\ run[w].at \in {"close", "ended"} /\ doc.by = w => doc = Written(w, run[w])
      /\ run[w].at = "ended" => run[w].registry = run[w].outcome /\ run[w].status = run[w].outcome
  BY DEF CampaignInv, Sound, TellsInv, Tells
<1>2. QED BY <1>1 DEF CampaignInv, Sound, Filled, EndIsTold, Written

\* A run that overlaps no other one leaves its outcome where it is read, and after a success
\* all its rows, whatever runs come before and after it, overlap one another and fail.
THEOREM LoneRunIsTold ==
    ASSUME NEW w \in Runs
    PROVE  Spec /\ []Alone(w) => []EndIsTold(w)
<1>1. Init => TellsInv(w)
  BY FirstTells
<1>2. CampaignInv /\ TellsInv(w) /\ [Next]_vars /\ Alone(w)' => TellsInv(w)'
  BY NextTells
<1>3. CampaignInv /\ TellsInv(w) => EndIsTold(w)
  BY TellsEnd
<1>4. QED BY <1>1, <1>2, <1>3, InitSound, NextSound, PTL DEF Spec

Solo == \A r \in Runs : Alone(r)

AllTell == \A w \in Runs : TellsInv(w)

\* Runs none of which overlaps another: all of them tell.
LEMMA SoloTells == Spec /\ []Solo => []AllTell
<1>1. Init => AllTell
  BY FirstTells DEF AllTell
<1>2. CampaignInv /\ AllTell /\ [Next]_vars /\ Solo' => AllTell'
  <2>. SUFFICES ASSUME CampaignInv, AllTell, [Next]_vars, Solo', NEW w \in Runs
                PROVE  TellsInv(w)'
    BY DEF AllTell
  <2>1. Alone(w)'
    BY DEF Solo
  <2>2. QED BY <2>1, NextTells DEF AllTell
<1>3. QED BY <1>1, <1>2, InitSound, NextSound, PTL DEF Spec

\* The result, the registry and a run.json that carries the run's name tell the same
\* outcome when it has ended, where no two runs overlap.
THEOREM OutcomeAgrees == Spec /\ []Solo => []OutcomeIsTold
<1>1. CampaignInv /\ AllTell => OutcomeIsTold
  BY TellsEnd DEF AllTell, OutcomeIsTold, EndIsTold
<1>2. QED BY <1>1, SoloTells, InitSound, NextSound, PTL DEF Spec

\* The run.json of a run that succeeded has a row for every sample, made from the exit
\* codes of its last generation, where no two runs overlap.
THEOREM SuccessHasAllRows == Spec /\ []Solo => []SuccessIsComplete
<1>1. CampaignInv /\ AllTell => SuccessIsComplete
  BY TellsEnd DEF AllTell, SuccessIsComplete, EndIsTold
<1>2. QED BY <1>1, SoloTells, InitSound, NextSound, PTL DEF Spec

-----------------------------------------------------------------------------
(* osimflow resume, when it follows run.json alone, is the only launch     *)
(* that does not wait for the run before it.                               *)

OneAtATime == ~Hurried \/ "resume" \notin Requests

\* A step of a run is one of a run that is alive, and moves no other.
LEMMA StepsAreOfTheLiving ==
    ASSUME CampaignInv, AllTell, NEW r \in Runs, RunStep(r)
    PROVE  Alive(r) /\ \A q \in Runs \ {r} : run'[q] = run[q]
<1>1. CASE \/ Precheck(r) \/ Start(r) \/ StartFails(r) \/ Poll(r) \/ NextGeneration(r)
           \/ LastGeneration(r) \/ Enter(r)
  BY <1>1 DEF Precheck, Start, StartFails, Poll, NextGeneration, LastGeneration, Enter,
              Moves, Writes, Alive, Ends, CampaignInv, TypeOK
<1>2. CASE \/ PausesAt(r, "gate") \/ PausesAt(r, "wrapGate") \/ LoopPauses(r)
           \/ PlainStep(r) \/ Fails(r) \/ Wrap(r) \/ Aggregates(r)
  BY <1>2 DEF PausesAt, LoopPauses, PlainStep, Fails, MayRaise, Wrap, Aggregates, TriesToWrite,
              Moves, Writes, Alive, Ends, CampaignInv, TypeOK
<1>3. CASE \/ Finish(r) \/ Settle(r) \/ HandlePause(r) \/ HandleInterrupt(r)
           \/ HandleDetach(r) \/ HandleFailure(r) \/ Teardown(r) \/ TeardownFails(r) \/ Close(r)
  BY <1>3 DEF Finish, Settle, HandlePause, HandleInterrupt, HandleDetach, HandleFailure,
              TriesToWrite, Teardown, TeardownFails, Close, Moves, Writes, Alive, Ends, CampaignInv, TypeOK
<1>4. CASE \/ FanOutBegins(r) \/ Detaches(r) \/ LoopHears(r) \/ WaitHears(r)
           \/ WaitPauses(r) \/ FanOutEnds(r)
  BY <1>4 DEF FanOutBegins, Detaches, LoopHears, WaitHears, WaitPauses, FanOutEnds, InFanOut,
              TriesToWrite,
              Moves, Writes, Alive, Ends, CampaignInv, TypeOK
<1>5. CASE Checkpoints(r) \/ CheckpointFails(r)
  <2>1. run[r].at \in {"work", "drain"}
    BY <1>5 DEF Checkpoints, CheckpointFails, Unlocked, AllTell, TellsInv, Tells
  <2>2. QED BY <1>5, <2>1 DEF Checkpoints, CheckpointFails, Moves, Alive, Ends, CampaignInv, TypeOK
<1>6. CASE \E s \in Samples : \/ Skips(r, s) \/ Takes(r, s)
                              \/ \E code \in {"ok", "failed"} : Completes(r, s, code)
  BY <1>6 DEF Skips, Takes, Completes, InFanOut, Moves, Alive, Ends, CampaignInv, TypeOK
<1>7. QED BY <1>1, <1>2, <1>3, <1>4, <1>5, <1>6 DEF RunStep, FanOutStep

\* No step but a launch makes a second run alive.
LEMMA LaunchesWait ==
    ASSUME OneAtATime, CampaignInv, AllTell, Solo, [Next]_vars
    PROVE  Solo'
<1>1. ASSUME NEW r \in Runs, NEW byResume \in BOOLEAN, Launch(r, byResume), NobodyAlive
      PROVE  Solo'
  <2>1. \A q \in Runs : Alive(q)' => q = r
    BY <1>1 DEF Launch, Moves, NobodyAlive, Alive, CampaignInv, TypeOK
  <2>2. QED BY <2>1 DEF Solo, Alone
<1>2. ASSUME \A q \in Runs : Alive(q)' => Alive(q)
      PROVE  Solo'
  BY <1>2 DEF Solo, Alone
<1>3. CASE \E r \in Runs : Run(r) \/ Resume(r)
  BY <1>1, <1>3 DEF Run, Resume, OneAtATime
<1>4. CASE UNCHANGED vars \/ \E c \in Clients : Check(c)
  BY <1>2, <1>4 DEF vars, Check, Alive
<1>5. CASE Stop \/ \E c \in Clients : Flag(c) \/ Stub(c)
  <2>1. \A r \in Runs : run[r] \in RunStates /\ run'[r].at = Disturbed[r].at
    BY <1>5, DisturbedSound DEF Stop, Flag, Stub, CampaignInv, Sound, RunStates
  <2>2. \A r \in Runs : Disturbed[r].at = run[r].at
    BY <2>1 DEF Disturbed, RunStates
  <2>3. QED BY <1>2, <2>1, <2>2 DEF Alive
<1>6. ASSUME NEW r \in Runs, Signal(r) \/ Crash(r) \/ RunStep(r)
      PROVE  Solo'
  <2>1. Alive(r) /\ \A q \in Runs \ {r} : run'[q] = run[q]
    BY <1>6, StepsAreOfTheLiving DEF Signal, Crash, Moves, CampaignInv, TypeOK
  <2>2. QED BY <1>2, <2>1 DEF Alive
<1>7. QED BY <1>3, <1>4, <1>5, <1>6 DEF Next, Request

\* Runs come one after the other where osimflow resume is not used, or waits for the run
\* before it: then the two theorems before hold of every behaviour.
THEOREM RunsTakeTurns == OneAtATime => (Spec => []Solo)
<1>. SUFFICES ASSUME OneAtATime
              PROVE  Spec => []Solo
  OBVIOUS
<1>1. Init => AllTell
  BY FirstTells DEF AllTell
<1>2. AllTell => Solo
  BY DEF AllTell, TellsInv, Solo
<1>3. CampaignInv /\ AllTell /\ [Next]_vars => AllTell'
  <2>. SUFFICES ASSUME CampaignInv, AllTell, [Next]_vars
                PROVE  AllTell'
    OBVIOUS
  <2>1. Solo'
    BY <1>2, LaunchesWait
  <2>2. ASSUME NEW w \in Runs
        PROVE  TellsInv(w)'
    BY <2>1, NextTells DEF AllTell, Solo
  <2>3. QED BY <2>2 DEF AllTell
<1>4. QED BY <1>1, <1>2, <1>3, InitSound, NextSound, PTL DEF Spec
=============================================================================
