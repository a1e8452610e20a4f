------------------------- MODULE CoordinatorProofs -------------------------
(***************************************************************************)
(* Proofs about the Coordinator, for any samples and array sizes, any runs *)
(* of the command, and any bound on campaigns, submissions and restarts.   *)
(*                                                                         *)
(* Everything rests on who may move a campaign on: somebody who looked at  *)
(* one of its own arrays (Tracked), after a submission that no completion  *)
(* answers yet (Counted), when that array is over (Finished); and an array *)
(* that is over writes nothing more, so rows stay what they were (Settled).*)
(***************************************************************************)
EXTENDS Coordinator, SequenceTheorems, TLAPS

Keyed == \A id \in Ids : Known(id) => id = keyed

\* Who looks for the end of an array looks at one of that campaign.
Tracked ==
    /\ \A id \in Ids : Known(id) /\ campaigns[id].array # NONE =>
         /\ campaigns[id].array \in DOMAIN jobs
         /\ jobs[campaigns[id].array].campaign = id
    /\ poller.pc = "polling" =>
         /\ Known(poller.id) /\ campaigns[poller.id].array # NONE
         /\ poller.array \in DOMAIN jobs
         /\ jobs[poller.array].campaign = poller.id

\* A campaign that has not been aggregated since its last submission.
Owed(c) == c.array # NONE /\ c.status \in {"pending", "aggregating"}

Counted ==
    \A id \in Ids : Known(id) =>
      /\ campaigns[id].told <= campaigns[id].submits
      /\ Owed(campaigns[id]) => campaigns[id].told < campaigns[id].submits
      /\ campaigns[id].array = NONE => campaigns[id].status # "aggregating"

Reached(c) == c.told > 0 \/ c.status \in {"aggregating", "complete"}

Finished ==
    \A id \in Ids : Known(id) /\ Reached(campaigns[id]) =>
      \E a \in DOMAIN jobs : jobs[a].campaign = id /\ NobodyWrites(a)

\* Every array of the campaign is the array a.
Only(id, a) == \A b \in DOMAIN jobs : jobs[b].campaign = id <=> b = a

Settled ==
    \A id \in Ids : Known(id) =>
      /\ campaigns[id].rows # {} => campaigns[id].told > 0
      /\ \A a \in DOMAIN jobs : Only(id, a) => campaigns[id].rows \subseteq OkRows(id, {})

CoordinatorInv == TypeOK /\ Keyed /\ Tracked /\ Counted /\ Finished /\ Settled

-----------------------------------------------------------------------------
(* What the steps do to the array jobs.                                    *)

\* A step of a child changes that child and nothing else.
LEMMA ChildStep ==
    ASSUME TypeOK, NEW a \in DOMAIN jobs, NEW s \in Samples, NEW w \in Children,
           ChildGoes(a, s, w)
    PROVE  /\ jobs' \in Seq(Job) /\ Len(jobs') = Len(jobs) /\ DOMAIN jobs' = DOMAIN jobs
           /\ \A b \in DOMAIN jobs : jobs'[b].campaign = jobs[b].campaign
           /\ \A b \in DOMAIN jobs, t \in Samples :
                jobs'[b].child[t] = IF b = a /\ t = s THEN w ELSE jobs[b].child[t]
<1> DEFINE new == [jobs[a] EXCEPT !.child[s] = w]
<1>1. jobs \in Seq(Job) /\ DOMAIN jobs = 1..Len(jobs) /\ jobs[a] \in Job
  BY DEF TypeOK
<1>2. new \in Job /\ new.campaign = jobs[a].campaign
  BY <1>1 DEF Job
<1>3. \A t \in Samples : new.child[t] = IF t = s THEN w ELSE jobs[a].child[t]
  BY <1>1 DEF Job
<1>4. jobs' = [jobs EXCEPT ![a] = new]
  BY DEF ChildGoes
<1> HIDE DEF new
<1>5. /\ jobs' \in Seq(Job) /\ Len(jobs') = Len(jobs)
      /\ \A b \in 1..Len(jobs) : jobs'[b] = IF b = a THEN new ELSE jobs[b]
  BY <1>1, <1>2, <1>4, ExceptSeq
<1> QED BY <1>1, <1>2, <1>3, <1>5

\* A submission adds an array and changes none.
LEMMA SubmitStep ==
    ASSUME TypeOK, NEW id \in Ids, NEW covered \in ArraySizes, Submit(id, covered)
    PROVE  /\ jobs' \in Seq(Job) /\ Len(jobs') = Len(jobs) + 1 /\ Len(jobs') \in Arrays
           /\ DOMAIN jobs' = 1..Len(jobs) + 1 /\ DOMAIN jobs = 1..Len(jobs) /\ Len(jobs) \in Nat
           /\ \A b \in DOMAIN jobs : jobs'[b] = jobs[b]
           /\ jobs'[Len(jobs) + 1].campaign = id
<1> DEFINE new == [campaign |-> id,
                   child |-> [s \in Samples |-> IF s \in covered THEN "running" ELSE "none"]]
<1>1. new \in Job /\ new.campaign = id
  BY DEF Job, Children
<1>2. jobs \in Seq(Job) /\ jobs' = Append(jobs, new) /\ Len(jobs) < MaxSubmits
  BY DEF TypeOK, Submit
<1> HIDE DEF new
<1>3. /\ jobs' \in Seq(Job) /\ Len(jobs') = Len(jobs) + 1
      /\ \A b \in 1..Len(jobs) : jobs'[b] = jobs[b]
      /\ jobs'[Len(jobs) + 1] = new
  BY <1>1, <1>2, AppendProperties
<1> QED BY <1>1, <1>2, <1>3, CoordinatorAssumption DEF Arrays

LEMMA JobTyped ==
    ASSUME TypeOK, NEW a \in DOMAIN jobs
    PROVE  jobs[a].campaign \in Ids /\ jobs[a].child \in [Samples -> Children]
<1>1. jobs \in Seq(Job) /\ DOMAIN jobs = 1..Len(jobs)
  BY DEF TypeOK
<1>2. jobs[a] \in Job
  BY <1>1
<1> QED BY <1>2 DEF Job

LEMMA RecordIsThere ==
    ASSUME NEW c \in Record
    PROVE  c # ABSENT
<1>1. c.status # ABSENT.status
  BY DEF Record, Statuses, ManifestStatuses, ABSENT
<1> QED BY <1>1

\* The three ways in which a record changes.
LEMMA StatusChanged ==
    ASSUME NEW c \in Record, NEW status \in Statuses
    PROVE  [c EXCEPT !.status = status] \in Record
BY DEF Record

LEMMA RecordSubmitted ==
    ASSUME NEW c \in Record, NEW n \in Arrays
    PROVE  [c EXCEPT !.status = "pending", !.array = n, !.submits = @ + 1] \in Record
<1>1. c.submits + 1 \in Nat
  BY DEF Record
<1> QED BY <1>1 DEF Record, Statuses

LEMMA RecordAggregated ==
    ASSUME NEW c \in Record, NEW rows \in SUBSET Samples
    PROVE  [c EXCEPT !.status = "complete", !.told = @ + 1, !.rows = rows] \in Record
<1>1. c.told + 1 \in Nat
  BY DEF Record
<1> QED BY <1>1 DEF Record, Statuses

LEMMA KnownIsRecord ==
    ASSUME TypeOK, NEW id \in Ids, Known(id)
    PROVE  campaigns[id] \in Record
BY DEF TypeOK, Known

-----------------------------------------------------------------------------
(* Typing.                                                                 *)

LEMMA TypeInit == Init => TypeOK
<1> SUFFICES ASSUME Init PROVE TypeOK
  OBVIOUS
<1>1. <<>> \in Seq(Job) /\ Len(<<>>) = 0
  OBVIOUS
<1> QED BY <1>1, CoordinatorAssumption DEF Init, TypeOK, server, storage

\* A campaign whose record a step replaces.
LEMMA RecordTyped ==
    ASSUME TypeOK, NEW id \in Ids, NEW r \in Record, RecordGoes(id, r)
    PROVE  campaigns' \in [Ids -> Record \union {ABSENT}]
BY DEF TypeOK, RecordGoes

\* A poller that moved a campaign nobody knows would leave no record of it.
LEMMA TypeStep == TypeOK /\ Tracked /\ [Next]_vars => TypeOK'
<1> SUFFICES ASSUME TypeOK, Tracked, [Next]_vars PROVE TypeOK'
  OBVIOUS
<1> USE DEF TypeOK
<1>1. ASSUME NEW r \in Runs, Handoff(r) PROVE TypeOK'
  <2>1. CASE keyed # NONE
    <3>1. /\ cli' = [cli EXCEPT ![r] = [pc |-> "answered", id |-> keyed]] /\ keyed \in Ids
          /\ UNCHANGED <<campaigns, keyed, created, restarts, handoff, poller, jobs, storage, reports>>
      BY <1>1, <2>1 DEF Handoff, CliGoes
    <3> QED BY <3>1 DEF storage
  <2>2. CASE keyed = NONE
    <3>1. /\ cli' = [cli EXCEPT ![r] = [pc |-> "answered", id |-> created + 1]]
          /\ NewCampaign(created + 1)
          /\ UNCHANGED <<restarts, handoff, poller, jobs, storage, reports>>
      BY <1>1, <2>2 DEF Handoff, CliGoes
    <3>2. created + 1 \in Ids /\ created' \in 0..MaxCampaigns /\ keyed' \in Ids
      BY <3>1, CoordinatorAssumption DEF NewCampaign, Ids
    <3>3. Fresh \in Record
      BY DEF Fresh, Record, Statuses
    <3>4. campaigns' \in [Ids -> Record \union {ABSENT}]
      BY <3>1, <3>2, <3>3 DEF NewCampaign
    <3> QED BY <3>1, <3>2, <3>4 DEF storage
  <2> QED BY <2>1, <2>2
<1>2. ASSUME NEW r \in Runs, AnswerLost(r) PROVE TypeOK'
  BY <1>2 DEF AnswerLost, CliGoes, server, storage
<1>3. ASSUME NEW r \in Runs, CliSaves(r) PROVE TypeOK'
  BY <1>3 DEF CliSaves, CliGoes, server, storage
<1>4. ASSUME Restart PROVE TypeOK'
  BY <1>4, CoordinatorAssumption DEF Restart, storage
<1>5. ASSUME NEW id \in Ids, NEW covered \in ArraySizes, Submit(id, covered) PROVE TypeOK'
  <2>1. jobs' \in Seq(Job) /\ Len(jobs') = Len(jobs) + 1 /\ Len(jobs') \in Arrays
    BY <1>5, SubmitStep
  <2>2. campaigns[id] \in Record
    BY <1>5, KnownIsRecord DEF Submit
  <2>3. [campaigns[id] EXCEPT !.status = "pending", !.array = Len(jobs) + 1, !.submits = @ + 1]
          \in Record
    <3>1. Len(jobs) + 1 \in Arrays
      BY <2>1
    <3> QED BY <3>1, <2>2, RecordSubmitted
  <2>4. campaigns' \in [Ids -> Record \union {ABSENT}]
    BY <1>5, <2>3, RecordTyped DEF Submit
  <2> QED BY <1>5, <2>1, <2>4, CoordinatorAssumption DEF Submit, storage, Arrays
<1>6. ASSUME NEW a \in DOMAIN jobs, NEW s \in Samples, UploadKpis(a, s) PROVE TypeOK'
  <2>1. jobs' \in Seq(Job) /\ Len(jobs') = Len(jobs)
    BY <1>6, ChildStep DEF UploadKpis, Children
  <2>2. jobs[a].campaign \in Ids
    BY JobTyped
  <2> QED BY <1>6, <2>1, <2>2 DEF UploadKpis, server
<1>7. ASSUME NEW a \in DOMAIN jobs, NEW s \in Samples, WriteManifest(a, s) PROVE TypeOK'
  <2> DEFINE id == jobs[a].campaign
             status == IF Child(a, s) = "stored" THEN "completed" ELSE "failed"
  <2>1. jobs' \in Seq(Job) /\ Len(jobs') = Len(jobs)
    BY <1>7, ChildStep DEF WriteManifest, Children
  <2>2. id \in Ids /\ status \in ManifestStatuses
    BY JobTyped DEF ManifestStatuses
  <2>3. /\ manifests' = [manifests EXCEPT ![id][s] = status]
        /\ reports' \in {reports, reports \union {<<id, status>>}}
        /\ UNCHANGED <<server, cli, handoff, poller, kpis>>
    BY <1>7 DEF WriteManifest
  <2> HIDE DEF id, status
  <2>4. manifests' \in [Ids -> [Samples -> ManifestStatuses \union {"none"}]]
    BY <2>2, <2>3
  <2>5. reports' \subseteq Ids \X ManifestStatuses
    BY <2>2, <2>3
  <2> QED BY <2>1, <2>3, <2>4, <2>5 DEF server
<1>8. ASSUME NEW a \in DOMAIN jobs, NEW s \in Samples, ChildEnds(a, s) PROVE TypeOK'
  <2>1. jobs' \in Seq(Job) /\ Len(jobs') = Len(jobs)
    BY <1>8, ChildStep DEF ChildEnds, Children
  <2> QED BY <1>8, <2>1 DEF ChildEnds, server, storage
<1>9. ASSUME NEW id \in Ids, NEW status \in ManifestStatuses, Patch(id, status) PROVE TypeOK'
  <2>1. CASE Known(id)
    <3>1. [campaigns[id] EXCEPT !.status = status] \in Record
      BY <2>1, KnownIsRecord DEF Record, Statuses
    <3>2. campaigns' \in [Ids -> Record \union {ABSENT}]
      BY <1>9, <2>1, <3>1, RecordTyped DEF Patch
    <3> QED BY <1>9, <3>2 DEF Patch, storage
  <2>2. CASE ~Known(id)
    BY <1>9, <2>2 DEF Patch, storage
  <2> QED BY <2>1, <2>2
<1>10. ASSUME NEW id \in Ids, NEW a, Known(id), Transition(id, a)
       PROVE  campaigns' \in [Ids -> Record \union {ABSENT}]
  <2>1. [campaigns[id] EXCEPT !.status = "aggregating"] \in Record
    BY <1>10, KnownIsRecord DEF Record, Statuses
  <2> QED BY <1>10, <2>1, RecordTyped DEF Transition
<1>11. ASSUME NEW id \in Ids, PollArray(id) PROVE TypeOK'
  BY <1>10, <1>11 DEF PollArray, storage
<1>12. ASSUME NEW id \in Ids, NEW reported, ArrayComplete(id, reported) PROVE TypeOK'
  BY <1>10, <1>12 DEF ArrayComplete, storage
<1>13. ASSUME NEW id \in Ids, PollerStarts(id) PROVE TypeOK'
  <2>1. campaigns[id].array \in Arrays
    BY <1>13, KnownIsRecord DEF PollerStarts, Record
  <2> QED BY <1>13, <2>1, CoordinatorAssumption DEF PollerStarts, Polling, server, storage
<1>14. ASSUME PollerWaits PROVE TypeOK'
  <2>1. poller \in Polling
    BY <1>14 DEF PollerWaits, Idle
  <2>2. poller.left > 1 => [poller EXCEPT !.left = @ - 1] \in Polling
    <3>1. poller.left > 1 => poller.left - 1 \in 1..MaxAttempts
      BY <2>1, CoordinatorAssumption DEF Polling
    <3>2. QED BY <2>1, <3>1 DEF Polling
  <2> QED BY <1>14, <2>2 DEF PollerWaits, server, storage
<1>15. ASSUME PollerSees PROVE TypeOK'
  <2>1. poller.id \in Ids /\ Known(poller.id)
    BY <1>15 DEF PollerSees, Polling, Idle, Tracked
  <2> QED BY <1>10, <1>15, <2>1 DEF PollerSees, storage
<1>16. ASSUME PollerReturns PROVE TypeOK'
  BY <1>16 DEF PollerReturns, server, storage
<1>17. ASSUME NEW id \in Ids, Aggregate(id) PROVE TypeOK'
  <2>1. PICK unread \in SUBSET Samples :
          RecordGoes(id, [campaigns[id] EXCEPT !.status = "complete", !.told = @ + 1,
                                               !.rows = OkRows(id, unread)])
    BY <1>17 DEF Aggregate
  <2>2. [campaigns[id] EXCEPT !.status = "complete", !.told = @ + 1,
                              !.rows = OkRows(id, unread)] \in Record
    <3>1. campaigns[id] \in Record /\ OkRows(id, unread) \in SUBSET Samples
      BY <1>17, KnownIsRecord DEF Aggregate, OkRows
    <3> QED BY <3>1, RecordAggregated
  <2>3. campaigns' \in [Ids -> Record \union {ABSENT}]
    BY <2>1, <2>2, RecordTyped
  <2> QED BY <1>17, <2>3 DEF Aggregate, storage
<1>18. CASE UNCHANGED vars
  BY <1>18 DEF vars, server, storage
<1> QED BY <1>1, <1>2, <1>3, <1>4, <1>5, <1>6, <1>7, <1>8, <1>9, <1>11, <1>12, <1>13,
           <1>14, <1>16, <1>17, <1>18, <1>15 DEF Next

-----------------------------------------------------------------------------
(* The invariant, by what the steps change.                                *)

\* Steps of the CLI and of the poller.
LEMMA ElsewhereKept ==
    ASSUME CoordinatorInv, TypeOK', UNCHANGED <<campaigns, keyed, jobs, manifests, kpis>>,
           poller'.pc = "polling" =>
             /\ campaigns[poller'.id] # ABSENT /\ campaigns[poller'.id].array # NONE
             /\ poller'.array \in DOMAIN jobs
             /\ jobs[poller'.array].campaign = poller'.id
    PROVE  CoordinatorInv'
<1>1. Keyed'
  BY DEF CoordinatorInv, Keyed, Known
<1>2. Tracked'
  BY DEF CoordinatorInv, Tracked, Known
<1>3. Counted'
  BY DEF CoordinatorInv, Counted, Known
<1>4. Finished'
  BY DEF CoordinatorInv, Finished, Known, NobodyWrites, Child
<1>5. Settled'
  BY DEF CoordinatorInv, Settled, Known, Only, OkRows
<1> QED BY <1>1, <1>2, <1>3, <1>4, <1>5 DEF CoordinatorInv

\* Steps that replace the record of a campaign by r.
LEMMA RecordKept ==
    ASSUME CoordinatorInv, TypeOK', NEW id \in Ids, Known(id), NEW r \in Record,
           RecordGoes(id, r), UNCHANGED <<keyed, jobs, manifests, kpis>>,
           poller' \in {poller, Idle},
           r.array = campaigns[id].array,
           r.told <= r.submits,
           Owed(r) => r.told < r.submits,
           r.array = NONE => r.status # "aggregating",
           Reached(r) => \E a \in DOMAIN jobs : jobs[a].campaign = id /\ NobodyWrites(a),
           r.rows # {} => r.told > 0,
           \A a \in DOMAIN jobs : Only(id, a) => r.rows \subseteq OkRows(id, {})
    PROVE  CoordinatorInv'
<1>1. /\ r # ABSENT
      /\ \A other \in Ids : campaigns'[other] = IF other = id THEN r ELSE campaigns[other]
  BY RecordIsThere DEF CoordinatorInv, TypeOK, RecordGoes
<1>2. Keyed'
  BY <1>1 DEF CoordinatorInv, Keyed, Known
<1>3. Tracked'
  <2>1. \A other \in Ids : campaigns'[other] # ABSENT /\ campaigns'[other].array # NONE =>
          campaigns'[other].array \in DOMAIN jobs /\ jobs[campaigns'[other].array].campaign = other
    BY <1>1 DEF CoordinatorInv, Tracked, Known
  <2>2. poller'.pc = "polling" =>
          /\ poller' = poller /\ poller.id \in Ids
          /\ campaigns'[poller.id] # ABSENT /\ campaigns'[poller.id].array # NONE
          /\ poller.array \in DOMAIN jobs /\ jobs[poller.array].campaign = poller.id
    BY <1>1 DEF CoordinatorInv, Tracked, Known, TypeOK, Idle, Polling
  <2> QED BY <2>1, <2>2 DEF Tracked, Known
<1>4. Counted'
  BY <1>1 DEF CoordinatorInv, Counted, Known
<1>5. Finished'
  BY <1>1 DEF CoordinatorInv, Finished, Known, NobodyWrites, Child
<1>6. Settled'
  BY <1>1 DEF CoordinatorInv, Settled, Known, Only, OkRows
<1> QED BY <1>2, <1>3, <1>4, <1>5, <1>6 DEF CoordinatorInv

LEMMA HandoffKept ==
    ASSUME CoordinatorInv, TypeOK', NEW r \in Runs, Handoff(r)
    PROVE  CoordinatorInv'
<1>1. CASE keyed # NONE
  <2>1. UNCHANGED <<campaigns, keyed, jobs, manifests, kpis, poller>>
    BY <1>1 DEF Handoff, storage
  <2> QED BY <2>1, ElsewhereKept DEF CoordinatorInv, Tracked, Known
<1>2. CASE keyed = NONE
  <2>1. /\ keyed' \in Ids /\ campaigns' = [campaigns EXCEPT ![keyed'] = Fresh]
        /\ UNCHANGED <<jobs, manifests, kpis, poller>>
    BY <1>2, CoordinatorAssumption DEF Handoff, NewCampaign, storage, CoordinatorInv, TypeOK, Ids
  <2>2. \A id \in Ids : campaigns[id] = ABSENT
    BY <1>2 DEF CoordinatorInv, Keyed, Known, Ids, NONE
  <2>3. \A id \in Ids : campaigns'[id] = IF id = keyed' THEN Fresh ELSE ABSENT
    BY <2>1, <2>2 DEF CoordinatorInv, TypeOK
  <2>4. poller.pc # "polling"
    BY <2>2 DEF CoordinatorInv, TypeOK, Tracked, Known, Polling, Idle
  <2>5. Keyed' /\ Tracked'
    BY <2>1, <2>3, <2>4 DEF Keyed, Tracked, Known, Fresh
  <2>6. Counted' /\ Finished' /\ Settled'
    BY <2>3 DEF Counted, Finished, Settled, Reached, Owed, Known, Fresh, NONE
  <2> QED BY <2>5, <2>6 DEF CoordinatorInv
<1> QED BY <1>1, <1>2

LEMMA RestartKept ==
    ASSUME CoordinatorInv, TypeOK', Restart
    PROVE  CoordinatorInv'
<1>1. \A id \in Ids : campaigns'[id] = ABSENT
  BY DEF Restart
<1>2. poller'.pc # "polling"
  BY DEF Restart, Idle
<1> QED BY <1>1, <1>2 DEF CoordinatorInv, Keyed, Tracked, Counted, Finished, Settled, Known

LEMMA SubmitKept ==
    ASSUME CoordinatorInv, TypeOK', NEW id \in Ids, NEW covered \in ArraySizes,
           Submit(id, covered)
    PROVE  CoordinatorInv'
<1> DEFINE n == Len(jobs) + 1
           r == [campaigns[id] EXCEPT !.status = "pending", !.array = n, !.submits = @ + 1]
<1>1. /\ n \in Arrays /\ n \notin DOMAIN jobs
      /\ DOMAIN jobs' = DOMAIN jobs \union {n}
      /\ \A b \in DOMAIN jobs : jobs'[b] = jobs[b]
      /\ jobs'[n].campaign = id
  <2>1. /\ Len(jobs') = n /\ n \in Arrays /\ DOMAIN jobs' = 1..n
        /\ DOMAIN jobs = 1..Len(jobs) /\ Len(jobs) \in Nat
        /\ \A b \in DOMAIN jobs : jobs'[b] = jobs[b]
        /\ jobs'[n].campaign = id
    BY SubmitStep DEF CoordinatorInv
  <2>2. 1..n = 1..Len(jobs) \union {n} /\ n \notin 1..Len(jobs)
    BY <2>1
  <2> QED BY <2>1, <2>2
<1>2. campaigns[id] \in Record /\ r \in Record
  BY <1>1, KnownIsRecord, RecordSubmitted DEF Submit, CoordinatorInv
<1>3. /\ r.array = n /\ r.status = "pending" /\ r.rows = campaigns[id].rows
      /\ r.told = campaigns[id].told /\ r.submits = campaigns[id].submits + 1
  BY <1>2 DEF Record
<1>4. campaigns' \in {[campaigns EXCEPT ![id] = r], campaigns}
  BY DEF Submit, RecordGoes
<1>5. Known(id) /\ n # NONE /\ UNCHANGED <<keyed, poller, manifests, kpis>>
  BY DEF Submit, storage, CoordinatorInv, TypeOK, NONE
<1> HIDE DEF n, r
<1>6. /\ r # ABSENT
      /\ \/ \A other \in Ids : campaigns'[other] = IF other = id THEN r ELSE campaigns[other]
         \/ campaigns' = campaigns
  BY <1>2, <1>4, RecordIsThere DEF CoordinatorInv, TypeOK
<1>7. \A other \in Ids : campaigns'[other] # ABSENT =>
        /\ campaigns[other] # ABSENT
        /\ \/ campaigns'[other] = campaigns[other]
           \/ other = id /\ campaigns'[other] = r
  BY <1>5, <1>6 DEF Known
<1>8. Keyed'
  BY <1>5, <1>7 DEF CoordinatorInv, Keyed, Known
<1>9. Tracked'
  <2>1. \A other \in Ids : campaigns'[other] # ABSENT /\ campaigns'[other].array # NONE =>
          /\ campaigns'[other].array \in DOMAIN jobs'
          /\ jobs'[campaigns'[other].array].campaign = other
    BY <1>1, <1>3, <1>7 DEF CoordinatorInv, Tracked, Known
  <2>2. poller.pc = "polling" =>
          /\ poller.id \in Ids
          /\ campaigns'[poller.id] # ABSENT /\ campaigns'[poller.id].array # NONE
          /\ poller.array \in DOMAIN jobs' /\ jobs'[poller.array].campaign = poller.id
    <3> SUFFICES ASSUME poller.pc = "polling"
                 PROVE  /\ poller.id \in Ids
                        /\ campaigns'[poller.id] # ABSENT /\ campaigns'[poller.id].array # NONE
                        /\ poller.array \in DOMAIN jobs'
                        /\ jobs'[poller.array].campaign = poller.id
      OBVIOUS
    <3>1. poller.id \in Ids
      BY DEF CoordinatorInv, TypeOK, Idle, Polling
    <3>2. /\ campaigns[poller.id] # ABSENT /\ campaigns[poller.id].array # NONE
          /\ poller.array \in DOMAIN jobs /\ jobs[poller.array].campaign = poller.id
      BY DEF CoordinatorInv, Tracked, Known
    <3>3. campaigns'[poller.id] # ABSENT /\ campaigns'[poller.id].array # NONE
      BY <1>3, <1>5, <1>6, <3>1, <3>2
    <3> QED BY <1>1, <3>1, <3>2, <3>3
  <2> QED BY <1>5, <2>1, <2>2 DEF Tracked, Known
<1>10. Counted'
  <2>1. campaigns[id].told \in Nat /\ campaigns[id].submits \in Nat
    BY <1>2 DEF Record
  <2> QED BY <1>3, <1>5, <1>7, <2>1 DEF CoordinatorInv, Counted, Known, Owed
<1>11. Finished'
  <2>1. \A other \in Ids : campaigns'[other] # ABSENT /\ Reached(campaigns'[other]) =>
          campaigns[other] # ABSENT /\ Reached(campaigns[other])
    BY <1>3, <1>7 DEF Reached
  <2>2. \A other \in Ids : campaigns'[other] # ABSENT /\ Reached(campaigns'[other]) =>
          \E a \in DOMAIN jobs : jobs[a].campaign = other /\ NobodyWrites(a)
    BY <2>1 DEF CoordinatorInv, Finished, Known
  <2>3. \A a \in DOMAIN jobs : NobodyWrites(a) => a \in DOMAIN jobs' /\ NobodyWrites(a)'
    BY <1>1 DEF NobodyWrites, Child
  <2> QED BY <1>1, <2>2, <2>3 DEF Finished, Known
<1>12. Settled'
  <2> SUFFICES ASSUME NEW other \in Ids, campaigns'[other] # ABSENT
               PROVE  /\ campaigns'[other].rows # {} => campaigns'[other].told > 0
                      /\ \A a \in DOMAIN jobs' : Only(other, a)' =>
                           campaigns'[other].rows \subseteq OkRows(other, {})
    BY <1>5 DEF Settled, Known, OkRows
  <2>1. /\ campaigns[other] # ABSENT
        /\ campaigns'[other].rows = campaigns[other].rows
        /\ campaigns'[other].told = campaigns[other].told
    BY <1>3, <1>7
  <2>2. campaigns[other].rows # {} => campaigns[other].told > 0
    BY <2>1 DEF CoordinatorInv, Settled, Known
  <2>3. CASE other # id
    <3>1. \A a \in DOMAIN jobs' : Only(other, a)' => a \in DOMAIN jobs /\ Only(other, a)
      BY <1>1, <2>3 DEF Only
    <3> QED BY <2>1, <2>2, <3>1 DEF CoordinatorInv, Settled, Known
  <2>4. CASE other = id
    <3>1. ASSUME NEW a \in DOMAIN jobs', Only(id, a)' PROVE campaigns[id].rows = {}
      <4>1. a = n /\ \A b \in DOMAIN jobs : jobs[b].campaign # id
        BY <1>1, <3>1 DEF Only
      <4> QED BY <1>5, <2>2, <2>4, <4>1 DEF CoordinatorInv, Finished, Reached
    <3> QED BY <2>1, <2>2, <2>4, <3>1
  <2> QED BY <2>3, <2>4
<1> QED BY <1>8, <1>9, <1>10, <1>11, <1>12 DEF CoordinatorInv

\* A child that has not ended changes its state, and perhaps what its campaign
\* has in the storage.
LEMMA ChildKept ==
    ASSUME CoordinatorInv, TypeOK', NEW a \in DOMAIN jobs, NEW s \in Samples,
           NEW w \in Children, ChildGoes(a, s, w),
           Child(a, s) \in {"running", "stored", "published"},
           UNCHANGED <<campaigns, keyed, poller>>,
           \A other \in Ids : other # jobs[a].campaign =>
             manifests'[other] = manifests[other] /\ kpis'[other] = kpis[other]
    PROVE  CoordinatorInv'
<1>1. /\ DOMAIN jobs' = DOMAIN jobs
      /\ \A b \in DOMAIN jobs : jobs'[b].campaign = jobs[b].campaign
      /\ \A b \in DOMAIN jobs, t \in Samples :
           jobs'[b].child[t] = IF b = a /\ t = s THEN w ELSE jobs[b].child[t]
  BY ChildStep DEF CoordinatorInv
<1>2. Keyed' /\ Counted'
  BY DEF CoordinatorInv, Keyed, Counted, Known
<1>3. Tracked'
  BY <1>1 DEF CoordinatorInv, Tracked, Known
<1>4. ~NobodyWrites(a)
  BY DEF NobodyWrites
<1>5. \A b \in DOMAIN jobs : NobodyWrites(b) => NobodyWrites(b)'
  BY <1>1, <1>4 DEF NobodyWrites, Child
<1>6. Finished'
  BY <1>1, <1>5 DEF CoordinatorInv, Finished, Known
<1>7. Settled'
  <2> SUFFICES ASSUME NEW other \in Ids, campaigns[other] # ABSENT
               PROVE  /\ campaigns[other].rows # {} => campaigns[other].told > 0
                      /\ \A b \in DOMAIN jobs' : Only(other, b)' =>
                           campaigns[other].rows \subseteq OkRows(other, {})'
    BY DEF Settled, Known, OkRows
  <2>1. campaigns[other].rows # {} => campaigns[other].told > 0
    BY DEF CoordinatorInv, Settled, Known
  <2>2. ASSUME NEW b \in DOMAIN jobs', Only(other, b)'
        PROVE  campaigns[other].rows \subseteq OkRows(other, {})'
    <3>1. b \in DOMAIN jobs /\ Only(other, b)
      BY <1>1, <2>2 DEF Only
    <3>2. campaigns[other].rows \subseteq OkRows(other, {})
      BY <3>1 DEF CoordinatorInv, Settled, Known
    <3>3. CASE b # a
      <4>1. manifests'[other] = manifests[other] /\ kpis'[other] = kpis[other]
        BY <3>1, <3>3 DEF Only
      <4> QED BY <3>2, <4>1 DEF OkRows
    <3>4. CASE b = a
      <4>1. \A c \in DOMAIN jobs : jobs[c].campaign = other => ~NobodyWrites(c)
        BY <1>4, <3>1, <3>4 DEF Only
      <4> QED BY <2>1, <4>1 DEF CoordinatorInv, Finished, Reached, Known
    <3> QED BY <3>3, <3>4
  <2> QED BY <2>1, <2>2
<1> QED BY <1>2, <1>3, <1>6, <1>7 DEF CoordinatorInv

\* Who sees the end of an array of a campaign that may aggregate.
LEMMA TransitionKept ==
    ASSUME CoordinatorInv, TypeOK', NEW id \in Ids, NEW a \in DOMAIN jobs,
           Known(id), campaigns[id].array # NONE, jobs[a].campaign = id,
           Transition(id, a), UNCHANGED <<keyed, jobs, manifests, kpis>>,
           poller' \in {poller, Idle}
    PROVE  CoordinatorInv'
<1> DEFINE c == campaigns[id]
           r == [c EXCEPT !.status = "aggregating"]
<1>1. c \in Record /\ r \in Record
  BY KnownIsRecord, StatusChanged DEF CoordinatorInv, Statuses
<1>2. /\ r.array = c.array /\ r.status = "aggregating" /\ r.rows = c.rows
      /\ r.told = c.told /\ r.submits = c.submits
  BY <1>1 DEF Record
<1>3. c.status = "pending" /\ RecordGoes(id, r)
  BY <1>1 DEF Transition, MayAggregate, TerminalOrAggregating, Record, Statuses, ManifestStatuses
<1>4. NobodyWrites(a)
  BY DEF Transition, Complete, NobodyWrites
<1>5. /\ c.told < c.submits /\ c.told <= c.submits
      /\ c.rows # {} => c.told > 0
      /\ \A b \in DOMAIN jobs : Only(id, b) => c.rows \subseteq OkRows(id, {})
  BY <1>3 DEF CoordinatorInv, Counted, Settled, Owed
<1> HIDE DEF r
<1> QED BY <1>1, <1>2, <1>3, <1>4, <1>5, RecordKept

LEMMA PatchKept ==
    ASSUME CoordinatorInv, TypeOK', NEW id \in Ids, NEW status \in ManifestStatuses,
           Patch(id, status)
    PROVE  CoordinatorInv'
<1>1. CASE Known(id)
  <2> DEFINE c == campaigns[id]
             r == [c EXCEPT !.status = status]
  <2>1. c \in Record /\ r \in Record
    BY <1>1, KnownIsRecord, StatusChanged DEF CoordinatorInv, Statuses
  <2>2. /\ r.array = c.array /\ r.status \in {"completed", "failed"} /\ r.rows = c.rows
        /\ r.told = c.told /\ r.submits = c.submits
    BY <2>1 DEF Record, ManifestStatuses
  <2>3. RecordGoes(id, r) /\ UNCHANGED <<keyed, jobs, manifests, kpis, poller>>
    BY <1>1 DEF Patch, storage
  <2>4. /\ c.told <= c.submits
        /\ c.rows # {} => c.told > 0
        /\ \A b \in DOMAIN jobs : Only(id, b) => c.rows \subseteq OkRows(id, {})
        /\ c.told > 0 => \E a \in DOMAIN jobs : jobs[a].campaign = id /\ NobodyWrites(a)
    BY <1>1 DEF CoordinatorInv, Counted, Settled, Finished, Reached
  <2> HIDE DEF r
  <2>5. ~Owed(r) /\ (Reached(r) => c.told > 0)
    BY <2>2 DEF Owed, Reached
  <2> QED BY <1>1, <2>1, <2>2, <2>3, <2>4, <2>5, RecordKept
<1>2. CASE ~Known(id)
  <2>1. UNCHANGED <<campaigns, keyed, jobs, manifests, kpis, poller>>
    BY <1>2 DEF Patch, storage
  <2> QED BY <2>1, ElsewhereKept DEF CoordinatorInv, Tracked, Known
<1> QED BY <1>1, <1>2

LEMMA AggregateKept ==
    ASSUME CoordinatorInv, TypeOK', NEW id \in Ids, Aggregate(id)
    PROVE  CoordinatorInv'
<1>1. PICK unread \in SUBSET Samples :
        RecordGoes(id, [campaigns[id] EXCEPT !.status = "complete", !.told = @ + 1,
                                             !.rows = OkRows(id, unread)])
  BY DEF Aggregate
<1> DEFINE c == campaigns[id]
           rows == OkRows(id, unread)
           r == [c EXCEPT !.status = "complete", !.told = @ + 1, !.rows = rows]
<1>2. rows \in SUBSET Samples /\ rows \subseteq OkRows(id, {})
  BY DEF OkRows
<1>3. c \in Record /\ r \in Record
  BY <1>2, KnownIsRecord, RecordAggregated DEF CoordinatorInv, Aggregate
<1> HIDE DEF rows
<1>4. /\ r.array = c.array /\ r.status = "complete" /\ r.rows = rows
      /\ r.told = c.told + 1 /\ r.submits = c.submits
      /\ c.told \in Nat /\ c.submits \in Nat
  BY <1>3 DEF Record
<1>5. RecordGoes(id, r) /\ Known(id) /\ c.status = "aggregating"
      /\ UNCHANGED <<keyed, jobs, manifests, kpis, poller>>
  BY <1>1 DEF Aggregate, storage, rows
<1>6. /\ c.array # NONE /\ c.told < c.submits
      /\ \E a \in DOMAIN jobs : jobs[a].campaign = id /\ NobodyWrites(a)
  BY <1>5 DEF CoordinatorInv, Counted, Owed, Finished, Reached
<1> HIDE DEF r
<1>7. ~Owed(r) /\ r.told <= r.submits /\ r.told > 0
  BY <1>4, <1>6 DEF Owed
<1> QED BY <1>2, <1>3, <1>4, <1>5, <1>6, <1>7, RecordKept

LEMMA InvInit == Init => CoordinatorInv
<1> SUFFICES ASSUME Init PROVE CoordinatorInv
  OBVIOUS
<1>1. \A id \in Ids : ~Known(id)
  BY DEF Init, Known
<1>2. poller.pc # "polling"
  BY DEF Init, Idle
<1> QED BY <1>1, <1>2, TypeInit
     DEF CoordinatorInv, Keyed, Tracked, Counted, Finished, Settled

LEMMA InvStep == CoordinatorInv /\ [Next]_vars => CoordinatorInv'
<1> SUFFICES ASSUME CoordinatorInv, [Next]_vars PROVE CoordinatorInv'
  OBVIOUS
<1>1. TypeOK'
  BY TypeStep DEF CoordinatorInv
<1>2. ASSUME UNCHANGED <<campaigns, keyed, jobs, manifests, kpis, poller>>
      PROVE  CoordinatorInv'
  BY <1>1, <1>2, ElsewhereKept DEF CoordinatorInv, Tracked, Known
<1>3. ASSUME NEW r \in Runs, Handoff(r) PROVE CoordinatorInv'
  BY <1>1, <1>3, HandoffKept
<1>4. ASSUME NEW r \in Runs, AnswerLost(r) \/ CliSaves(r) PROVE CoordinatorInv'
  BY <1>2, <1>4 DEF AnswerLost, CliSaves, server, storage
<1>5. ASSUME Restart PROVE CoordinatorInv'
  BY <1>1, <1>5, RestartKept
<1>6. ASSUME NEW id \in Ids, NEW covered \in ArraySizes, Submit(id, covered)
      PROVE  CoordinatorInv'
  BY <1>1, <1>6, SubmitKept
<1>7. ASSUME NEW a \in DOMAIN jobs, NEW s \in Samples,
             UploadKpis(a, s) \/ WriteManifest(a, s) \/ ChildEnds(a, s)
      PROVE  CoordinatorInv'
  <2>1. Child(a, s) \in {"running", "stored", "published"}
    BY <1>7, JobTyped DEF UploadKpis, WriteManifest, ChildEnds, Child, Children, CoordinatorInv
  <2>2. UNCHANGED <<campaigns, keyed, poller>>
    BY <1>7 DEF UploadKpis, WriteManifest, ChildEnds, server
  <2>3. \A other \in Ids : other # jobs[a].campaign =>
          manifests'[other] = manifests[other] /\ kpis'[other] = kpis[other]
    BY <1>7 DEF UploadKpis, WriteManifest, ChildEnds, storage, CoordinatorInv, TypeOK
  <2>4. \E w \in Children : ChildGoes(a, s, w)
    BY <1>7 DEF UploadKpis, WriteManifest, ChildEnds, Children
  <2> QED BY <1>1, <2>1, <2>2, <2>3, <2>4, ChildKept
<1>8. ASSUME NEW id \in Ids, NEW status \in ManifestStatuses, Patch(id, status)
      PROVE  CoordinatorInv'
  BY <1>1, <1>8, PatchKept
<1>9. ASSUME NEW id \in Ids, PollArray(id) PROVE CoordinatorInv'
  <2>1. Known(id) /\ campaigns[id].array # NONE /\ Transition(id, campaigns[id].array)
        /\ UNCHANGED <<keyed, jobs, manifests, kpis, poller>>
    BY <1>9 DEF PollArray, storage
  <2>2. campaigns[id].array \in DOMAIN jobs /\ jobs[campaigns[id].array].campaign = id
    BY <2>1 DEF CoordinatorInv, Tracked
  <2> QED BY <1>1, <2>1, <2>2, TransitionKept
<1>10. ASSUME NEW id \in Ids, NEW reported, ArrayComplete(id, reported) PROVE CoordinatorInv'
  <2>1. Known(id) /\ campaigns[id].array # NONE /\ Transition(id, campaigns[id].array)
        /\ UNCHANGED <<keyed, jobs, manifests, kpis, poller>>
    BY <1>10 DEF ArrayComplete, storage
  <2>2. campaigns[id].array \in DOMAIN jobs /\ jobs[campaigns[id].array].campaign = id
    BY <2>1 DEF CoordinatorInv, Tracked
  <2> QED BY <1>1, <2>1, <2>2, TransitionKept
<1>11. ASSUME NEW id \in Ids, PollerStarts(id) PROVE CoordinatorInv'
  <2>1. /\ UNCHANGED <<campaigns, keyed, jobs, manifests, kpis>>
        /\ poller'.id = id /\ poller'.array = campaigns[id].array
        /\ campaigns[id] # ABSENT /\ campaigns[id].array # NONE
    BY <1>11 DEF PollerStarts, server, storage, Known
  <2> QED BY <1>1, <2>1, ElsewhereKept DEF CoordinatorInv, Tracked, Known
<1>12. ASSUME PollerWaits \/ PollerReturns PROVE CoordinatorInv'
  <2>1. /\ UNCHANGED <<campaigns, keyed, jobs, manifests, kpis>>
        /\ poller.pc = "polling"
        /\ poller'.pc = "polling" => poller'.id = poller.id /\ poller'.array = poller.array
    <3>1. poller \in Polling
      BY <1>12 DEF PollerWaits, PollerReturns, CoordinatorInv, TypeOK, Idle
    <3> QED BY <1>12, <3>1 DEF PollerWaits, PollerReturns, server, storage, Polling, Idle
  <2> QED BY <1>1, <2>1, ElsewhereKept DEF CoordinatorInv, Tracked, Known
<1>13. ASSUME PollerSees PROVE CoordinatorInv'
  <2>1. poller.id \in Ids /\ Transition(poller.id, poller.array) /\ poller' = Idle
        /\ UNCHANGED <<keyed, jobs, manifests, kpis>>
    BY <1>13 DEF PollerSees, storage, CoordinatorInv, TypeOK, Polling, Idle
  <2>2. /\ Known(poller.id) /\ campaigns[poller.id].array # NONE
        /\ poller.array \in DOMAIN jobs /\ jobs[poller.array].campaign = poller.id
    BY <1>13 DEF PollerSees, CoordinatorInv, Tracked
  <2> QED BY <1>1, <2>1, <2>2, TransitionKept
<1>14. ASSUME NEW id \in Ids, Aggregate(id) PROVE CoordinatorInv'
  BY <1>1, <1>14, AggregateKept
<1>15. CASE UNCHANGED vars
  BY <1>2, <1>15 DEF vars, server, storage
<1> QED BY <1>3, <1>4, <1>5, <1>6, <1>7, <1>8, <1>9, <1>10, <1>11, <1>12, <1>13, <1>14,
           <1>15 DEF Next

LEMMA InvHolds == Spec => []CoordinatorInv
BY InvInit, InvStep, PTL DEF Spec

-----------------------------------------------------------------------------
\* The records, the array jobs and the stored results keep their shape, and a
\* status is one that the handlers know (coordinator.py).
THEOREM CoordinatorTyping == Spec => []TypeOK
<1>1. CoordinatorInv => TypeOK
  BY DEF CoordinatorInv
<1> QED BY <1>1, InvHolds, PTL

\* Whatever answers are lost, and however often the command is run again, a
\* life of the Coordinator has one campaign for it (coordinator_handoff).
THEOREM OneCampaign == Spec => []OneCampaignPerCommand
<1>1. CoordinatorInv => OneCampaignPerCommand
  BY DEF CoordinatorInv, Keyed, OneCampaignPerCommand, TypeOK
<1> QED BY <1>1, InvHolds, PTL

\* A completion is notified at most once for each array job recorded: only a
\* submission makes a campaign aggregate again (_apply_completion_transition,
\* _apply_aggregation_transition).
THEOREM OneNoticePerArray == Spec => []NotifiedOncePerArray
<1>1. CoordinatorInv => NotifiedOncePerArray
  BY DEF CoordinatorInv, Counted, NotifiedOncePerArray
<1> QED BY <1>1, InvHolds, PTL

\* The results of a campaign submitted once are compiled when every child of
\* its array has ended, and every row still has its manifest and kpis.json
\* (aggregate_campaign_results, publish_kpi_results).
THEOREM FinalResults == Spec => []ResultsAreFinal
<1>1. ASSUME CoordinatorInv, NEW id \in Ids, Known(id),
             campaigns[id].told > 0 \/ campaigns[id].status \in {"aggregating", "complete"},
             NEW a \in JobsOf(id), JobsOf(id) = {a}
      PROVE  NobodyWrites(a) /\ campaigns[id].rows \subseteq OkRows(id, {})
  <2>1. a \in DOMAIN jobs /\ Only(id, a)
    BY <1>1 DEF JobsOf, Only
  <2>2. \E b \in DOMAIN jobs : jobs[b].campaign = id /\ NobodyWrites(b)
    BY <1>1 DEF CoordinatorInv, Finished, Reached
  <2>3. NobodyWrites(a)
    BY <2>1, <2>2 DEF Only
  <2> QED BY <1>1, <2>1, <2>3 DEF CoordinatorInv, Settled
<1>2. CoordinatorInv => ResultsAreFinal
  BY <1>1 DEF ResultsAreFinal
<1> QED BY <1>2, InvHolds, PTL
=============================================================================
