------------------------ MODULE PollingHandlesProofs ------------------------
(***************************************************************************)
(* Proofs about submit(), result() and cancel() of the polling executors,  *)
(* for any number of handles, retries, timeouts and thresholds, and for    *)
(* all seven substrates.                                                   *)
(*                                                                         *)
(* None of the properties is inductive. HandlesInv adds what a place in    *)
(* the code knows: what the registry still holds (Tracked), when a job is  *)
(* known to have ended (Settled) and how the clock stands (Timed). What it *)
(* needs of the substrates is two facts about their tables (TableFacts).   *)
(***************************************************************************)
EXTENDS PollingHandles, TLAPS

HandleStates == [pc : Pcs, mirror : Mirrors, cancelled : BOOLEAN,
                 spared : BOOLEAN, revived : BOOLEAN]
Locals == [attempt : 0..MaxRetries, spent : 0..MaxSpent,
           remaining : 0..Timeout, waited : 0..Timeout, last : BOOLEAN]

\* Who still knows the job of a handle that has not been mirrored.
Tracked(hd, j, held) ==
    /\ j # "none" /\ hd.pc # "submitted" /\ hd.mirror = "unset" => held \/ hd.cancelled
    /\ hd.mirror # "unset" => hd.pc = "ended"

\* When the job of a handle cannot be running.
Settled(hd, j) ==
    /\ hd.pc = "new" => j = "none"
    /\ hd.pc \in {"backoff", "onDemand"} \/ hd.mirror = "result" => j # "running"
    /\ hd.cancelled /\ j = "running" => hd.spared \/ hd.revived

\* The clock at each place of result().
Timed(pc, l) ==
    /\ pc = "waiting" => /\ l.waited <= l.remaining
                         /\ l.spent - l.waited <= Timeout
                         /\ ~l.last => l.spent - l.waited + l.remaining <= Timeout
    /\ pc \in {"new", "submitted"} => l = NoLocals
    /\ pc \in {"loop", "backoff", "onDemand"} => ~l.last
    /\ pc = "loop" => l.spent <= Timeout + 1
    /\ pc \in {"backoff", "onDemand"} => l.spent <= Timeout
    /\ pc = "backoff" => l.attempt < MaxRetries

\* Past submit() there is a job.
Started(hd, j) == hd.pc \in {"submitted", "loop", "waiting", "backoff", "onDemand"} => j # "none"

Held(h) == h \in registry \union todo

Sound(h) == /\ Tracked(handle[h], job[h], Held(h))
            /\ Started(handle[h], job[h])
            /\ Settled(handle[h], job[h])
            /\ Timed(handle[h].pc, local[h])

HandlesInv == TypeOK /\ OneJobRuns /\ \A h \in Handles : Sound(h)

-----------------------------------------------------------------------------
(* What the tables of the substrates say.                                  *)

\* No substrate shows a running job as succeeded, and none shows a job as
\* interrupted that is not.
LEMMA TableFacts ==
    ASSUME NEW s \in Substrates, NEW j \in JobStates
    PROVE  /\ Poll[s]["running"] \intersect Succeeds[s] = {}
           /\ "preempted" \in Poll[s][j] => j = "interrupted"
           /\ "preempted" \notin Succeeds[s]
<1>1. CASE s = "aws"
  BY <1>1 DEF Poll, Succeeds, AwsPoll, AwsSucceeds, JobStates, Ended
<1>2. CASE s = "azure"
  BY <1>2 DEF Poll, Succeeds, AzurePoll, AzureSucceeds, JobStates, Ended
<1>3. CASE s = "google"
  BY <1>3 DEF Poll, Succeeds, GooglePoll, GoogleSucceeds, JobStates, Ended
<1>4. CASE s = "kubernetes"
  BY <1>4 DEF Poll, Succeeds, KubernetesPoll, KubernetesSucceeds, JobStates, Ended
<1>5. CASE s = "nomad"
  BY <1>5 DEF Poll, Succeeds, NomadPoll, NomadSucceeds, JobStates, Ended
<1>6. CASE s = "swarm"
  BY <1>6 DEF Poll, Succeeds, SwarmPoll, SwarmSucceeds, JobStates, Ended
<1>7. CASE s = "pbs"
  BY <1>7 DEF Poll, Succeeds, PbsPoll, PbsSucceeds, JobStates, Ended
<1>8. QED
  BY <1>1, <1>2, <1>3, <1>4, <1>5, <1>6, <1>7 DEF Substrates

\* A kill never revives a job, and never makes one out of nothing.
LEMMA KillFacts ==
    ASSUME NEW s, NEW j \in JobStates \union {"none"}, NEW new \in Kills(s, j)
    PROVE  /\ new \in JobStates \union {"none"}
           /\ new = "running" => j = "running"
           /\ new = "none" <=> j = "none"
BY DEF Kills, JobStates, Ended

\* The types are those of TypeOK.
LEMMA TypesAre ==
    TypeOK <=> /\ substrate \in Substrates
               /\ handle \in [Handles -> HandleStates]
               /\ local \in [Handles -> Locals]
               /\ job \in [Handles -> JobStates \union {"none"}]
               /\ stray \subseteq {"unanswered", "replaced"}
               /\ registry \subseteq Handles
               /\ todo \subseteq Handles
BY DEF TypeOK, HandleStates, Locals

LEMMA NoLocalsTyping == NoLocals \in Locals
BY HandlesAssumption DEF NoLocals, Locals, MaxSpent

-----------------------------------------------------------------------------
(* Steps of one handle.                                                    *)

\* A step that alters one handle, and takes none out of the registry and
\* the sweep, keeps the invariant if the handle stays sound.
LEMMA OneHandleMoves ==
    ASSUME HandlesInv, NEW h \in Handles,
           NEW hd \in HandleStates, NEW l \in Locals, NEW j \in JobStates \union {"none"},
           handle' = [handle EXCEPT ![h] = hd],
           local' = [local EXCEPT ![h] = l],
           job' = [job EXCEPT ![h] = j],
           stray' \subseteq {"unanswered"},
           \A g \in Handles \ {h} : Held(g) /\ handle[g].mirror = "unset" => Held(g)',
           registry' \subseteq Handles, todo' \subseteq Handles,
           UNCHANGED substrate,
           Tracked(hd, j, Held(h)'), Started(hd, j), Settled(hd, j), Timed(hd.pc, l)
    PROVE  HandlesInv'
<1>1. /\ handle' \in [Handles -> HandleStates]
      /\ local' \in [Handles -> Locals]
      /\ job' \in [Handles -> JobStates \union {"none"}]
  BY TypesAre DEF HandlesInv
<1>2. TypeOK'
  BY <1>1, TypesAre, Zenon DEF HandlesInv, TypeOK, HandleStates, Locals
<1>3. OneJobRuns'
  BY DEF OneJobRuns
<1>4. ASSUME NEW g \in Handles
      PROVE  Sound(g)'
  <2>1. CASE g = h
    <3>1. handle'[g] = hd /\ local'[g] = l /\ job'[g] = j
      BY <2>1, TypesAre DEF HandlesInv
    <3>2. QED BY <2>1, <3>1 DEF Sound, Started, Settled, Timed, Tracked
  <2>2. CASE g # h
    <3>1. handle'[g] = handle[g] /\ local'[g] = local[g] /\ job'[g] = job[g]
      BY <2>2, TypesAre DEF HandlesInv
    <3>2. Sound(g)
      BY DEF HandlesInv
    <3>3. QED BY <2>2, <3>1, <3>2 DEF Sound, Started, Settled, Timed, Tracked
  <2>3. QED BY <2>1, <2>2
<1>5. QED
  BY <1>2, <1>3, <1>4 DEF HandlesInv

\* The same for a step of result() that touches nothing but its handle.
LEMMA ResultMoves ==
    ASSUME HandlesInv, NEW h \in Handles, NEW pc \in Pcs, NEW mirror \in Mirrors,
           NEW l \in Locals,
           handle' = [handle EXCEPT ![h].pc = pc, ![h].mirror = mirror],
           local' = [local EXCEPT ![h] = l],
           UNCHANGED <<substrate, job, stray, registry, todo>>,
           handle[h].pc \notin {"new", "submitted"}, pc \notin {"new", "submitted"},
           mirror # handle[h].mirror => pc = "ended" /\ mirror # "unset",
           mirror = "result" \/ pc \in {"backoff", "onDemand"} => job[h] # "running",
           handle[h].mirror # "unset" => pc = "ended",
           pc # "ended" => job[h] # "none",
           Timed(pc, l)
    PROVE  HandlesInv'
<1>. DEFINE hd == [handle[h] EXCEPT !.pc = pc, !.mirror = mirror]
<1>1. handle[h] \in HandleStates /\ job[h] \in JobStates \union {"none"}
  BY TypesAre DEF HandlesInv
<1>2. hd \in HandleStates
  BY <1>1 DEF HandleStates
<1>3. handle' = [handle EXCEPT ![h] = hd] /\ job' = [job EXCEPT ![h] = job[h]]
  BY TypesAre DEF HandlesInv, HandleStates
<1>4. /\ hd.pc = pc /\ hd.mirror = mirror /\ hd.cancelled = handle[h].cancelled
      /\ hd.spared = handle[h].spared /\ hd.revived = handle[h].revived
  BY <1>1 DEF HandleStates
<1>5. Sound(h)
  BY DEF HandlesInv
<1>6. Tracked(hd, job[h], Held(h)')
  BY <1>4, <1>5 DEF Sound, Tracked, Held
<1>7. Started(hd, job[h]) /\ Settled(hd, job[h])
  BY <1>4, <1>5 DEF Sound, Started, Settled
<1>8. stray' \subseteq {"unanswered"}
  BY TypesAre DEF HandlesInv, OneJobRuns
<1>9. Timed(hd.pc, l)
  BY <1>4
<1>10. /\ registry' \subseteq Handles /\ todo' \subseteq Handles
       /\ \A g \in Handles \ {h} : Held(g) /\ handle[g].mirror = "unset" => Held(g)'
  BY TypesAre DEF HandlesInv, Held
<1>. HIDE DEF hd
<1>11. QED
  BY <1>1, <1>2, <1>3, <1>6, <1>7, <1>8, <1>9, <1>10, OneHandleMoves

\* A submission at a place where no job of the handle is running.
LEMMA SubmissionKeeps ==
    ASSUME HandlesInv, NEW h \in Handles, NEW pc \in {"submitted", "loop", "waiting"},
           NEW l \in Locals, Submission(h, pc, l), job[h] # "running",
           handle[h].mirror = "unset",
           pc # "submitted" => job[h] # "none" /\ handle[h].pc # "submitted",
           pc = "submitted" => job[h] = "none",
           Timed(pc, l)
    PROVE  HandlesInv'
<1>1. handle[h] \in HandleStates /\ job[h] \in JobStates \union {"none"} /\ Sound(h)
  BY TypesAre DEF HandlesInv
<1>2. PICK answer \in Submits[substrate] :
         /\ IF answer \in {"accepted", "repeated"}
              THEN /\ handle' = [handle EXCEPT ![h].pc = pc,
                                               ![h].revived = handle[h].cancelled]
                   /\ local' = [local EXCEPT ![h] = l]
                   /\ job' = [job EXCEPT ![h] = "running"]
              ELSE /\ EndsWith(h, handle[h].mirror)
                   /\ UNCHANGED job
         /\ stray' = stray
               \union (IF answer \in {"orphaned", "repeated"} THEN {"unanswered"} ELSE {})
               \union (IF job[h] = "running" /\ answer # "refused" THEN {"replaced"} ELSE {})
         /\ UNCHANGED <<substrate, registry, todo>>
  BY DEF Submission, Local
<1>3. stray' \subseteq {"unanswered"}
  BY <1>2, TypesAre DEF HandlesInv, OneJobRuns
<1>4. /\ registry' \subseteq Handles /\ todo' \subseteq Handles /\ UNCHANGED substrate
      /\ \A g \in Handles \ {h} : Held(g) /\ handle[g].mirror = "unset" => Held(g)'
      /\ Held(h) => Held(h)'
  BY <1>2, TypesAre DEF HandlesInv, Held
<1>5. CASE answer \in {"accepted", "repeated"}
  <2>. DEFINE hd == [handle[h] EXCEPT !.pc = pc, !.revived = handle[h].cancelled]
  <2>1. hd \in HandleStates
    BY <1>1 DEF HandleStates, Pcs
  <2>2. /\ hd.pc = pc /\ hd.mirror = handle[h].mirror /\ hd.cancelled = handle[h].cancelled
        /\ hd.spared = handle[h].spared /\ hd.revived = handle[h].cancelled
    BY <1>1 DEF HandleStates
  <2>3. handle' = [handle EXCEPT ![h] = hd]
    BY <1>2, <1>5, TypesAre DEF HandlesInv, HandleStates
  <2>4. local' = [local EXCEPT ![h] = l] /\ job' = [job EXCEPT ![h] = "running"]
    BY <1>2, <1>5
  <2>5. Tracked(hd, "running", Held(h)')
    BY <1>1, <1>4, <2>2 DEF Sound, Tracked
  <2>6. Started(hd, "running") /\ Settled(hd, "running")
    BY <1>1, <2>2 DEF Sound, Started, Settled
  <2>7. Timed(hd.pc, l)
    BY <2>2
  <2>8. "running" \in JobStates
    BY DEF JobStates
  <2>. HIDE DEF hd
  <2>9. QED
    BY <1>3, <1>4, <2>1, <2>3, <2>4, <2>5, <2>6, <2>7, <2>8, OneHandleMoves
<1>6. CASE answer \notin {"accepted", "repeated"}
  <2>. DEFINE hd == [handle[h] EXCEPT !.pc = "ended", !.mirror = handle[h].mirror]
  <2>1. hd \in HandleStates
    BY <1>1 DEF HandleStates, Pcs
  <2>2. /\ hd.pc = "ended" /\ hd.mirror = handle[h].mirror /\ hd.cancelled = handle[h].cancelled
        /\ hd.spared = handle[h].spared /\ hd.revived = handle[h].revived
    BY <1>1 DEF HandleStates
  <2>3. handle' = [handle EXCEPT ![h] = hd]
    BY <1>2, <1>6, TypesAre DEF EndsWith, HandlesInv, HandleStates
  <2>4. local' = [local EXCEPT ![h] = NoLocals] /\ job' = [job EXCEPT ![h] = job[h]]
    BY <1>2, <1>6, TypesAre DEF EndsWith, Local, HandlesInv
  <2>5. Tracked(hd, job[h], Held(h)')
    BY <1>1, <1>4, <2>2 DEF Sound, Tracked
  <2>6. Started(hd, job[h]) /\ Settled(hd, job[h])
    BY <1>1, <2>2 DEF Sound, Started, Settled
  <2>7. Timed(hd.pc, NoLocals)
    BY <2>2 DEF Timed
  <2>. HIDE DEF hd
  <2>8. QED
    BY <1>1, <1>3, <1>4, <2>1, <2>3, <2>4, <2>5, <2>6, <2>7, NoLocalsTyping, OneHandleMoves
<1>7. QED
  BY <1>5, <1>6

\* The three places that submit.
LEMMA SubmitsKeep ==
    ASSUME HandlesInv, NEW h \in Handles, DoSubmit(h) \/ Resubmit(h) \/ FallBack(h)
    PROVE  HandlesInv'
<1>1. local[h] \in Locals /\ handle[h] \in HandleStates /\ Sound(h)
  BY TypesAre DEF HandlesInv
<1>2. handle[h].pc \in {"new", "backoff", "onDemand"}
      => job[h] # "running" /\ handle[h].mirror = "unset"
  BY <1>1 DEF Sound, Settled, Tracked, HandleStates, Mirrors
<1>3. CASE DoSubmit(h)
  BY <1>1, <1>2, <1>3, NoLocalsTyping, SubmissionKeeps
  DEF DoSubmit, At, Sound, Settled, Timed
<1>4. CASE Resubmit(h)
  <2>1. PICK slept \in {0, 1} :
           Submission(h, "loop", [local[h] EXCEPT !.attempt = local[h].attempt + 1,
                                                  !.spent = local[h].spent + slept])
    BY <1>4 DEF Resubmit
  <2>. DEFINE l == [local[h] EXCEPT !.attempt = local[h].attempt + 1,
                                    !.spent = local[h].spent + slept]
  <2>2. handle[h].pc = "backoff"
    BY <1>4 DEF Resubmit, At
  <2>3. local[h].attempt < MaxRetries /\ local[h].spent <= Timeout /\ ~local[h].last
    BY <1>1, <2>2 DEF Sound, Timed
  <2>4. local[h].attempt + 1 \in 0..MaxRetries /\ local[h].spent + slept \in 0..MaxSpent
    BY <1>1, <2>3, HandlesAssumption DEF Locals, MaxSpent
  <2>5. l \in Locals
    BY <1>1, <2>4 DEF Locals
  <2>6. Timed("loop", l)
    <3>1. l.spent = local[h].spent + slept /\ l.last = local[h].last
      BY <1>1 DEF Locals
    <3>2. local[h].spent + slept <= Timeout + 1
      BY <1>1, <2>3, HandlesAssumption DEF Locals
    <3>3. QED BY <2>3, <3>1, <3>2 DEF Timed
  <2>7. job[h] # "none"
    BY <1>1, <2>2 DEF Sound, Started
  <2>. HIDE DEF l
  <2>8. QED
    BY <1>2, <2>1, <2>2, <2>5, <2>6, <2>7, SubmissionKeeps DEF l
<1>5. CASE FallBack(h)
  <2>. DEFINE l == [local[h] EXCEPT !.waited = 0, !.last = TRUE]
  <2>1. Submission(h, "waiting", l) /\ handle[h].pc = "onDemand"
    BY <1>5 DEF FallBack, At
  <2>2. l \in Locals
    <3>1. 0 \in 0..Timeout
      BY HandlesAssumption
    <3>2. QED BY <1>1, <3>1 DEF Locals
  <2>3. Timed("waiting", l)
    <3>1. /\ l.spent = local[h].spent /\ l.waited = 0 /\ l.last
          /\ l.remaining = local[h].remaining
      BY <1>1 DEF Locals
    <3>2. local[h].spent <= Timeout /\ local[h].spent \in Nat /\ local[h].remaining >= 0
      BY <1>1, <2>1, HandlesAssumption DEF Sound, Timed, Locals, MaxSpent
    <3>3. QED BY <3>1, <3>2, HandlesAssumption DEF Timed
  <2>4. job[h] # "none"
    BY <1>1, <2>1 DEF Sound, Started
  <2>. HIDE DEF l
  <2>5. QED
    BY <1>2, <2>1, <2>2, <2>3, <2>4, SubmissionKeeps
<1>6. QED BY <1>3, <1>4, <1>5

\* result() returns or raises: its handle has no place to go.
LEMMA EndingKeeps ==
    ASSUME HandlesInv, NEW h \in Handles, NEW mirror \in Mirrors, EndsWith(h, mirror),
           UNCHANGED <<substrate, job, stray, registry, todo>>,
           handle[h].pc \notin {"new", "submitted"}, handle[h].mirror = "unset",
           mirror = "result" => job[h] # "running"
    PROVE  HandlesInv'
<1>1. handle' = [handle EXCEPT ![h].pc = "ended", ![h].mirror = mirror]
  BY DEF EndsWith
<1>2. local' = [local EXCEPT ![h] = NoLocals]
  BY DEF EndsWith, Local
<1>3. Timed("ended", NoLocals) /\ "ended" \in Pcs
  BY DEF Timed, Pcs
<1>4. QED
  BY <1>1, <1>2, <1>3, NoLocalsTyping, ResultMoves

\* result() goes on, to a place where it holds the mirror as it was.
LEMMA GoingOnKeeps ==
    ASSUME HandlesInv, NEW h \in Handles, NEW pc \in Pcs \ {"new", "submitted", "ended"},
           NEW l \in Locals,
           handle' = [handle EXCEPT ![h].pc = pc], local' = [local EXCEPT ![h] = l],
           UNCHANGED <<substrate, job, stray, registry, todo>>,
           handle[h].pc \in {"loop", "waiting"},
           pc \in {"backoff", "onDemand"} => job[h] # "running",
           Timed(pc, l)
    PROVE  HandlesInv'
<1>1. handle[h] \in HandleStates /\ Sound(h)
  BY TypesAre DEF HandlesInv
<1>2. handle[h].mirror \in Mirrors /\ handle[h].mirror = "unset" /\ job[h] # "none"
  BY <1>1 DEF HandleStates, Sound, Tracked, Started
<1>3. handle' = [handle EXCEPT ![h].pc = pc, ![h].mirror = handle[h].mirror]
  BY <1>1, TypesAre DEF HandlesInv, HandleStates
<1>4. pc # "ended" /\ pc \in Pcs
  OBVIOUS
<1>5. handle[h].mirror # "result"
  BY <1>2
<1>6. QED
  BY <1>2, <1>3, <1>4, <1>5, ResultMoves

\* The top of the loop and the polls.
LEMMA PollsKeep ==
    ASSUME HandlesInv, NEW h \in Handles,
           \/ BeginWait(h) \/ PollsOn(h) \/ PollFails(h)
           \/ PollSucceeds(h) \/ JobFailed(h) \/ SpotInterrupted(h)
    PROVE  HandlesInv'
<1>1. /\ local[h] \in Locals /\ handle[h] \in HandleStates /\ Sound(h)
      /\ job[h] \in JobStates \union {"none"} /\ substrate \in Substrates
      /\ local = [local EXCEPT ![h] = local[h]] /\ handle = [handle EXCEPT ![h].pc = handle[h].pc]
  BY TypesAre DEF HandlesInv, HandleStates
<1>2. \A status : status \in Readings(h) => handle[h].pc = "waiting" /\ status \in Poll[substrate][job[h]]
  BY DEF Readings, At
<1>3. handle[h].pc \in {"loop", "waiting"} => handle[h].mirror = "unset" /\ job[h] \in JobStates
  BY <1>1 DEF Sound, Tracked, Started, HandleStates, Mirrors
<1>4. /\ local[h].spent \in 0..MaxSpent /\ local[h].waited \in 0..Timeout
      /\ local[h].remaining \in 0..Timeout /\ local[h].attempt \in 0..MaxRetries
      /\ local[h].last \in BOOLEAN /\ Timeout \in Nat /\ Timeout > 0 /\ MaxSpent = 2 * Timeout + 1
  BY <1>1, HandlesAssumption DEF Locals, MaxSpent
<1>5. {"result", "unset", "error"} = Mirrors
  BY DEF Mirrors
<1>6. CASE BeginWait(h)
  <2>1. handle[h].pc = "loop"
    BY <1>6 DEF BeginWait, At
  <2>2. CASE Timeout - local[h].spent <= 0
    BY <1>3, <1>5, <1>6, <2>1, <2>2, EndingKeeps DEF BeginWait
  <2>3. CASE ~(Timeout - local[h].spent <= 0)
    <3>. DEFINE l == [local[h] EXCEPT !.remaining = Timeout - local[h].spent, !.waited = 0]
    <3>1. handle' = [handle EXCEPT ![h].pc = "waiting"] /\ local' = [local EXCEPT ![h] = l]
      BY <1>6, <2>3 DEF BeginWait, Goes, Local
    <3>2. Timeout - local[h].spent \in 0..Timeout /\ 0 \in 0..Timeout
      BY <1>4, <2>3
    <3>3. l \in Locals
      BY <1>1, <3>2 DEF Locals
    <3>4. Timed("waiting", l)
      <4>1. /\ l.spent = local[h].spent /\ l.waited = 0
            /\ l.remaining = Timeout - local[h].spent
        BY <1>1 DEF Locals
      <4>2. QED BY <1>4, <2>3, <4>1 DEF Timed
    <3>. HIDE DEF l
    <3>5. QED
      BY <1>6, <2>1, <3>1, <3>3, <3>4, GoingOnKeeps DEF BeginWait, Pcs
  <2>4. QED BY <2>2, <2>3
<1>7. CASE PollsOn(h)
  <2>1. handle[h].pc = "waiting"
    BY <1>2, <1>7 DEF PollsOn
  <2>2. CASE local[h].waited >= local[h].remaining
    BY <1>3, <1>5, <1>7, <2>1, <2>2, EndingKeeps DEF PollsOn
  <2>3. CASE ~(local[h].waited >= local[h].remaining)
    <3>. DEFINE l == [local[h] EXCEPT !.waited = local[h].waited + 1, !.spent = local[h].spent + 1]
    <3>1. /\ local' = [local EXCEPT ![h] = l]
          /\ handle' = [handle EXCEPT ![h].pc = "waiting"]
      BY <1>1, <1>7, <2>1, <2>3 DEF PollsOn, Local
    <3>2. /\ local[h].waited <= local[h].remaining
          /\ local[h].spent - local[h].waited <= Timeout
          /\ ~local[h].last => local[h].spent - local[h].waited + local[h].remaining <= Timeout
      BY <1>1, <2>1 DEF Sound, Timed
    <3>3. local[h].waited + 1 \in 0..Timeout /\ local[h].spent + 1 \in 0..MaxSpent
      BY <1>4, <2>3, <3>2
    <3>4. l \in Locals
      BY <1>1, <3>3 DEF Locals
    <3>5. Timed("waiting", l)
      <4>1. /\ l.spent = local[h].spent + 1 /\ l.waited = local[h].waited + 1
            /\ l.remaining = local[h].remaining /\ l.last = local[h].last
        BY <1>1 DEF Locals
      <4>2. QED BY <1>4, <2>3, <3>2, <4>1 DEF Timed
    <3>. HIDE DEF l
    <3>6. QED
      BY <1>7, <2>1, <3>1, <3>4, <3>5, GoingOnKeeps DEF PollsOn, Pcs
  <2>4. QED BY <2>2, <2>3
<1>8. CASE PollFails(h)
  BY <1>2, <1>3, <1>5, <1>8, EndingKeeps DEF PollFails
<1>9. CASE PollSucceeds(h)
  <2>1. handle[h].pc = "waiting" /\ job[h] # "running"
    BY <1>1, <1>2, <1>3, <1>9, TableFacts DEF PollSucceeds
  <2>2. QED
    BY <1>3, <1>5, <1>9, <2>1, EndingKeeps DEF PollSucceeds
<1>10. CASE JobFailed(h)
  BY <1>2, <1>3, <1>5, <1>10, EndingKeeps DEF JobFailed
<1>11. CASE SpotInterrupted(h)
  <2>1. handle[h].pc = "waiting" /\ ~local[h].last
    BY <1>2, <1>11 DEF SpotInterrupted
  <2>2. job[h] = "interrupted"
    BY <1>1, <1>2, <1>3, <1>11, <2>1, TableFacts DEF SpotInterrupted, IsSpotInterruption
  <2>3. local[h].spent <= Timeout
    BY <1>1, <1>4, <2>1 DEF Sound, Timed
  <2>4. CASE local[h].attempt = MaxRetries /\ substrate \notin Fallback
    BY <1>3, <1>5, <1>11, <2>1, <2>4, EndingKeeps DEF SpotInterrupted
  <2>5. CASE ~(local[h].attempt = MaxRetries /\ substrate \notin Fallback)
    <3>. DEFINE pc == IF local[h].attempt < MaxRetries THEN "backoff" ELSE "onDemand"
    <3>1. handle' = [handle EXCEPT ![h].pc = pc] /\ local' = [local EXCEPT ![h] = local[h]]
      BY <1>1, <1>11, <2>5 DEF SpotInterrupted, Goes
    <3>2. Timed(pc, local[h])
      BY <2>1, <2>3 DEF Timed
    <3>3. pc \in Pcs \ {"new", "submitted", "ended"}
      BY DEF Pcs
    <3>. HIDE DEF pc
    <3>4. QED
      BY <1>1, <1>11, <2>1, <2>2, <3>1, <3>2, <3>3, GoingOnKeeps DEF SpotInterrupted
  <2>6. QED BY <2>4, <2>5
<1>12. QED
  BY <1>6, <1>7, <1>8, <1>9, <1>10, <1>11

-----------------------------------------------------------------------------
(* The registry, the sweep and the substrate.                              *)

\* Registration: what the pruning drops has a mirror.
LEMMA RegisterKeeps ==
    ASSUME HandlesInv, NEW h \in Handles, Register(h)
    PROVE  HandlesInv'
<1>1. /\ handle[h] \in HandleStates /\ Sound(h) /\ local[h] \in Locals
      /\ job[h] \in JobStates \union {"none"} /\ registry \subseteq Handles /\ todo \subseteq Handles
  BY TypesAre DEF HandlesInv
<1>2. handle[h].pc = "submitted" /\ handle[h].mirror = "unset"
  BY <1>1 DEF Register, At, Sound, Tracked, HandleStates, Mirrors
<1>. DEFINE hd == [handle[h] EXCEPT !.pc = "loop"]
<1>3. hd \in HandleStates
  BY <1>1 DEF HandleStates, Pcs
<1>4. /\ hd.pc = "loop" /\ hd.mirror = "unset" /\ hd.cancelled = handle[h].cancelled
      /\ hd.spared = handle[h].spared /\ hd.revived = handle[h].revived
  BY <1>1, <1>2 DEF HandleStates
<1>5. /\ handle' = [handle EXCEPT ![h] = hd] /\ local' = [local EXCEPT ![h] = NoLocals]
      /\ job' = [job EXCEPT ![h] = job[h]]
  <2>1. local[h] = NoLocals
    BY <1>1, <1>2 DEF Sound, Timed
  <2>2. QED BY <2>1, TypesAre DEF Register, Goes, HandlesInv, HandleStates
<1>6. /\ registry' \subseteq Handles /\ todo' \subseteq Handles /\ UNCHANGED substrate
      /\ \A g \in Handles \ {h} : Held(g) /\ handle[g].mirror = "unset" => Held(g)'
      /\ Held(h)'
  BY <1>1, <1>2 DEF Register, Held
<1>7. stray' \subseteq {"unanswered"}
  BY TypesAre DEF Register, HandlesInv, OneJobRuns
<1>8. Tracked(hd, job[h], Held(h)')
  BY <1>4, <1>6 DEF Tracked
<1>9. Started(hd, job[h]) /\ Settled(hd, job[h])
  BY <1>1, <1>2, <1>4 DEF Sound, Started, Settled
<1>10. Timed(hd.pc, NoLocals)
  BY <1>4, HandlesAssumption DEF Timed, NoLocals
<1>. HIDE DEF hd
<1>11. QED
  BY <1>1, <1>3, <1>5, <1>6, <1>7, <1>8, <1>9, <1>10, NoLocalsTyping, OneHandleMoves

\* A sweep takes over what the registry held.
LEMMA BeginSweepKeeps ==
    ASSUME HandlesInv, BeginSweep
    PROVE  HandlesInv'
<1>1. TypeOK'
  BY TypesAre DEF HandlesInv, BeginSweep, TypeOK
<1>2. ASSUME NEW g \in Handles
      PROVE  Sound(g)'
  <2>1. Sound(g) /\ Held(g)' = Held(g)
    BY DEF HandlesInv, BeginSweep, Held
  <2>2. QED BY <2>1 DEF BeginSweep, Sound, Tracked, Started, Settled, Timed
<1>3. OneJobRuns'
  BY DEF HandlesInv, BeginSweep, OneJobRuns
<1>4. QED
  BY <1>1, <1>2, <1>3 DEF HandlesInv

\* What a sweep has dealt with it has killed, or been refused.
LEMMA KillKeeps ==
    ASSUME HandlesInv, NEW h \in Handles, Kill(h)
    PROVE  HandlesInv'
<1>1. /\ handle[h] \in HandleStates /\ Sound(h) /\ local[h] \in Locals
      /\ job[h] \in JobStates \union {"none"} /\ registry \subseteq Handles /\ todo \subseteq Handles
  BY TypesAre DEF HandlesInv
<1>2. PICK new \in Kills(substrate, job[h]) :
         job' = [job EXCEPT ![h] = new] /\ Swept(h, new)
  BY DEF Kill
<1>3. /\ new \in JobStates \union {"none"}
      /\ new = "running" => job[h] = "running"
      /\ new = "none" <=> job[h] = "none"
  BY <1>1, KillFacts
<1>. DEFINE spared == new = "running"
            hd == [handle[h] EXCEPT !.cancelled = TRUE, !.spared = spared]
<1>4. hd \in HandleStates
  <2>1. ASSUME NEW b \in BOOLEAN
        PROVE  [handle[h] EXCEPT !.cancelled = TRUE, !.spared = b] \in HandleStates
    BY <1>1 DEF HandleStates
  <2>2. spared \in BOOLEAN
    OBVIOUS
  <2>3. QED BY <2>1, <2>2
<1>5. /\ hd.pc = handle[h].pc /\ hd.mirror = handle[h].mirror /\ hd.cancelled
      /\ hd.spared = (new = "running") /\ hd.revived = handle[h].revived
  BY <1>1 DEF HandleStates
<1>6. /\ handle' = [handle EXCEPT ![h] = hd] /\ local' = [local EXCEPT ![h] = local[h]]
  BY <1>2, TypesAre DEF Swept, Kill, HandlesInv, HandleStates
<1>7. /\ registry' \subseteq Handles /\ todo' \subseteq Handles /\ UNCHANGED substrate
      /\ \A g \in Handles \ {h} : Held(g) /\ handle[g].mirror = "unset" => Held(g)'
  BY <1>1 DEF Kill, Held
<1>8. stray' \subseteq {"unanswered"}
  BY TypesAre DEF Kill, HandlesInv, OneJobRuns
<1>9. Tracked(hd, new, Held(h)')
  BY <1>1, <1>5 DEF Sound, Tracked
<1>10. Started(hd, new) /\ Settled(hd, new)
  <2>1. new = "running" => hd.spared
    BY <1>5
  <2>2. /\ Started(handle[h], job[h]) /\ Settled(handle[h], job[h])
        /\ hd.pc = handle[h].pc /\ hd.mirror = handle[h].mirror
    BY <1>1, <1>5 DEF Sound
  <2>. HIDE DEF hd
  <2>3. Started(hd, new)
    BY <1>3, <2>2 DEF Started
  <2>4. Settled(hd, new)
    BY <1>3, <2>1, <2>2 DEF Settled
  <2>5. QED BY <2>3, <2>4
<1>11. Timed(hd.pc, local[h])
  BY <1>1, <1>5 DEF Sound
<1>12. new \in JobStates \union {"none"} /\ local[h] \in Locals
  BY <1>1, <1>3
<1>13. job' = [job EXCEPT ![h] = new]
  BY <1>2
<1>. HIDE DEF hd
<1>14. QED
  BY <1>12, <1>13, <1>4, <1>6, <1>7, <1>8, <1>9, <1>10, <1>11, OneHandleMoves

\* A job that ends was running.
LEMMA JobEndsKeeps ==
    ASSUME HandlesInv, NEW h \in Handles, JobEnds(h)
    PROVE  HandlesInv'
<1>1. /\ handle[h] \in HandleStates /\ Sound(h) /\ local[h] \in Locals
      /\ job[h] = "running" /\ registry \subseteq Handles /\ todo \subseteq Handles
  BY TypesAre DEF HandlesInv, JobEnds
<1>2. PICK new \in Ended : job' = [job EXCEPT ![h] = new]
  BY DEF JobEnds
<1>3. new \in JobStates /\ new # "running" /\ new # "none"
  BY DEF Ended, JobStates
<1>4. /\ handle' = [handle EXCEPT ![h] = handle[h]] /\ local' = [local EXCEPT ![h] = local[h]]
  BY TypesAre DEF JobEnds, HandlesInv
<1>5. /\ registry' \subseteq Handles /\ todo' \subseteq Handles /\ UNCHANGED substrate
      /\ \A g \in Handles \ {h} : Held(g) /\ handle[g].mirror = "unset" => Held(g)'
      /\ Held(h)' = Held(h) /\ stray' \subseteq {"unanswered"}
  BY <1>1, TypesAre DEF JobEnds, Held, HandlesInv, OneJobRuns
<1>6. /\ Tracked(handle[h], new, Held(h)') /\ Started(handle[h], new)
      /\ Settled(handle[h], new) /\ Timed(handle[h].pc, local[h])
  BY <1>1, <1>3, <1>5 DEF Sound, Tracked, Started, Settled
<1>7. QED
  BY <1>1, <1>2, <1>3, <1>4, <1>5, <1>6, OneHandleMoves

-----------------------------------------------------------------------------
(* The theorems.                                                           *)

LEMMA Invariance == Spec => []HandlesInv
<1>1. Init => HandlesInv
  <2> SUFFICES ASSUME Init PROVE HandlesInv
    OBVIOUS
  <2>1. TypeOK
    BY NoLocalsTyping, TypesAre
    DEF Init, HandleStates, Pcs, Mirrors
  <2>2. OneJobRuns
    BY DEF Init, OneJobRuns
  <2>3. ASSUME NEW h \in Handles PROVE Sound(h)
    BY DEF Init, Sound, Tracked, Started, Settled, Timed
  <2>4. QED BY <2>1, <2>2, <2>3 DEF HandlesInv
<1>2. HandlesInv /\ [Next]_vars => HandlesInv'
  <2> SUFFICES ASSUME HandlesInv, [Next]_vars PROVE HandlesInv'
    OBVIOUS
  <2>1. ASSUME NEW h \in Handles,
               DoSubmit(h) \/ Register(h) \/ Result(h) \/ Kill(h) \/ JobEnds(h)
        PROVE  HandlesInv'
    BY <2>1, SubmitsKeep, PollsKeep, RegisterKeeps, KillKeeps, JobEndsKeeps DEF Result
  <2>2. CASE BeginSweep
    BY <2>2, BeginSweepKeeps
  <2>3. CASE UNCHANGED vars
    BY <2>3 DEF vars, HandlesInv, TypeOK, OneJobRuns, Sound, Tracked, Started, Settled, Timed, Held
  <2>4. QED
    BY <2>1, <2>2, <2>3 DEF Next
<1>3. QED
  BY <1>1, <1>2, PTL DEF Spec

\* The state stays well-typed: in particular the retries stay within
\* max_retries and the time spent within MaxSpent.
THEOREM HandlesTyping == Spec => []TypeOK
<1>1. HandlesInv => TypeOK
  BY DEF HandlesInv
<1>2. QED BY <1>1, Invariance, PTL

\* submit() and cancel(): no live job is unknown to the registry, the
\* sweep and submit(), unless a sweep dealt with it or result() gave it up.
THEOREM NothingForgotten == Spec => []NoJobIsForgotten
<1>1. HandlesInv => NoJobIsForgotten
  <2> SUFFICES ASSUME HandlesInv, NEW h \in Handles, job[h] = "running",
                      ~At(h, "submitted"), ~handle[h].cancelled, handle[h].mirror # "error"
               PROVE  h \in registry \union todo
    BY DEF NoJobIsForgotten
  <2>1. Sound(h) /\ handle[h].mirror \in Mirrors
    BY TypesAre DEF HandlesInv, HandleStates
  <2>2. handle[h].mirror = "unset"
    BY <2>1 DEF Sound, Settled, Mirrors
  <2>3. QED BY <2>1, <2>2 DEF Sound, Tracked, Held, At
<1>2. QED BY <1>1, Invariance, PTL

\* BaseExecutor.cancel(): what it has dealt with is dead, with the
\* exceptions SweepKills names.
THEOREM SweptIsDead == Spec => []SweepKills
<1>1. HandlesInv => SweepKills
  BY DEF HandlesInv, Sound, Settled, SweepKills
<1>2. QED BY <1>1, Invariance, PTL

\* PollingHandle.result(): a job is replaced only after it has ended.
THEOREM NoDoubleRun == Spec => []OneJobRuns
<1>1. HandlesInv => OneJobRuns
  BY DEF HandlesInv
<1>2. QED BY <1>1, Invariance, PTL

\* PollingHandle.result(): the deadline over all its attempts.
THEOREM DeadlineIsShared == Spec => []AwaitIsBounded
<1>1. HandlesInv => AwaitIsBounded
  <2> SUFFICES ASSUME HandlesInv, NEW h \in Handles, At(h, "waiting")
               PROVE  local[h].spent <= (IF local[h].last THEN 2 * Timeout ELSE Timeout)
    BY DEF AwaitIsBounded
  <2>1. Sound(h) /\ local[h] \in Locals
    BY TypesAre DEF HandlesInv
  <2>2. /\ local[h].spent \in 0..MaxSpent /\ local[h].waited \in 0..Timeout
        /\ local[h].remaining \in 0..Timeout /\ Timeout \in Nat /\ MaxSpent = 2 * Timeout + 1
    BY <2>1, HandlesAssumption DEF Locals, MaxSpent
  <2>3. /\ local[h].waited <= local[h].remaining
        /\ local[h].spent - local[h].waited <= Timeout
        /\ ~local[h].last => local[h].spent - local[h].waited + local[h].remaining <= Timeout
    BY <2>1 DEF Sound, Timed, At
  <2>4. QED BY <2>2, <2>3
<1>2. QED BY <1>1, Invariance, PTL
=============================================================================
