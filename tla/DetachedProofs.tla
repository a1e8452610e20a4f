--------------------------- MODULE DetachedProofs ---------------------------
(***************************************************************************)
(* Proofs about the detached campaigns, for any number of machines,        *)
(* samples, claims, attempts and faults: first their submission            *)
(* (DetachedSubmit), then what becomes of their results (DetachedResults). *)
(*                                                                         *)
(* SubmitInv adds to the properties what an invocation knows at each place *)
(* (Knows): which claim it holds, that the lease it is about to take over  *)
(* has lapsed, that no job of another claim stands for the sample when it  *)
(* submits one under the latest claim, however often the SDK repeats the   *)
(* call, and where it can be once it has submitted a job too late. A step  *)
(* that leaves the bucket alone only has to establish Knows of the         *)
(* invocation it moves (LocalMove). With it, and ClaimsOpen, every step is *)
(* one of SubmissionStore or shows nothing of itself.                      *)
(*                                                                         *)
(* ResultsInv says what an attempt has left in the bucket at each place,   *)
(* that what a download has copied or listed stays true of the bucket, how *)
(* far a download has got, and which samples the tables list while it is   *)
(* under way. An attempt never takes back a success, so that the downloads *)
(* do not see it move (PublishKeeps). HistoryInv adds the types of what    *)
(* ResultsShape leaves open.                                               *)
(***************************************************************************)
EXTENDS DetachedSubmit, DetachedResults, WellFoundedInduction, TLAPS

-----------------------------------------------------------------------------
(* The submission.                                                         *)

Holding == {"load", "loop", "look", "submit", "record", "handoff", "claimList", "claimPut"}

NoneLate == \A g \in Generations : late[g] = {}

\* The claim an invocation holds, and what it has seen of the others.
KnowsClaim(r) ==
    /\ r.seen <= latest /\ r.gen <= latest
    /\ r.gen # 0 <=> r.at \in Holding
    /\ r.at = "read" => r.seen # 0
    /\ r.at = "create" /\ r.seen # 0 => lease[r.seen] # "fresh"
    /\ r.gen # 0 /\ r.at \notin {"record", "claimList"} =>
         late[r.gen] \subseteq (IF r.at = "submit" THEN {r.sid} ELSE {})

\* The jobs an invocation knows of, and the one it is about to submit.
KnowsJobs(r) ==
    /\ \A s \in Samples : r.known[s] # 0 => r.known[s] \in made[s]
    /\ \A s \in Samples : s \in r.todo \/ s \in passed \/ r.mine[s] \in made[s]
    /\ r.at = "record" => r.job \in made[r.sid]
    /\ NoneLate /\ r.at = "submit" /\ r.gen = latest /\ r.gen > 1 =>
         Standing(r.sid) \subseteq {r.gen, Again(r.gen)}

\* What an invocation knows of the handoff.
KnowsHandoff(r) ==
    /\ r.at = "handoff" => r.todo = {}
    /\ r.at \in {"claimList", "claimPut"} /\ r.write = "finish" => handoff.written
    /\ r.at \in {"detached", "already"} => handoff.written

Knows(r) == KnowsClaim(r) /\ KnowsJobs(r) /\ KnowsHandoff(r)

OwnersDiffer ==
    \A i, j \in Invocations : i # j /\ run[i].gen # 0 => run[i].gen # run[j].gen

LeasesLapsed == \A g \in Generations : g < latest => lease[g] # "fresh"

\* Only a claim that is not the latest is late, and with one sample.
LatenessInv ==
    \A g \in Generations : /\ late[g] # {} => g < latest
                           /\ \A s, t \in late[g] : s = t

JobsInv ==
    \A s \in Samples : /\ \A j \in made[s] : ClaimOf(j) <= latest
                       /\ record[s] # 0 => record[s] \in made[s]

ClaimsHandedOff == \A g \in Generations : claimState[g] = "submitted" => handoff.written

SubmitInv ==
    /\ TypeOK
    /\ \A i \in Invocations : Knows(run[i])
    /\ OwnersDiffer
    /\ LeasesLapsed
    /\ LatenessInv
    /\ JobsInv
    /\ OneClaimPerSample
    /\ ClaimsHandedOff
    /\ HandoffNamesJobs

-----------------------------------------------------------------------------
(* Well-formed invocations.                                                *)

\* The bounds, as the provers use them.
LEMMA BoundsAre ==
    /\ MaxGenerations \in Nat /\ MaxFaults \in Nat
    /\ 0 \in 0 .. MaxGenerations
    /\ \A g : g \in Generations <=> g \in 0 .. MaxGenerations /\ g # 0
  BY BoundsAssumption, DetachedAssumption DEF Generations

\* The jobs of a claim, and the claim of a job.
LEMMA JobsAre ==
    /\ 0 \in MaybeJob /\ Jobs \subseteq MaybeJob
    /\ \A j \in MaybeJob : j # 0 => j \in Jobs
    /\ \A j \in Jobs : j # 0 /\ ClaimOf(j) \in Generations
    /\ \A g \in Generations : /\ g \in Jobs /\ ClaimOf(g) = g
                              /\ Again(g) \in Jobs /\ ClaimOf(Again(g)) = g
  BY BoundsAssumption DEF MaybeJob, Jobs, Generations, Again, ClaimOf

\* A fresh invocation, and one that has ended, know nothing.
LEMMA IdleTyping ==
    ASSUME NEW place \in {"idle", "check"} \union Ends
    PROVE  LET r == [Idle EXCEPT !.at = place]
           IN  /\ r \in Runs /\ r.at = place /\ r.gen = 0 /\ r.seen = 0
               /\ r.todo = Samples /\ r.known = Gone
<1>1. (CHOOSE s \in Samples : TRUE) \in Samples
  BY BoundsAssumption, DetachedAssumption
<1>2. Gone \in [Samples -> MaybeJob]
  BY JobsAre DEF Gone
<1>3. QED
  BY <1>1, <1>2, BoundsAre, JobsAre DEF Idle, Runs, Ends, Steps

\* And Knows holds of them, wherever they may be told of the handoff.
LEMMA IdleKnows ==
    ASSUME TypeOK, NEW place \in {"idle", "check"} \union Ends,
           place \in {"detached", "already"} => handoff.written
    PROVE  Knows([Idle EXCEPT !.at = place])
<1>. DEFINE r == [Idle EXCEPT !.at = place]
<1>1. /\ r.at = place /\ r.gen = 0 /\ r.seen = 0 /\ r.todo = Samples /\ r.known = Gone
  BY IdleTyping
<1>. HIDE DEF r
<1>2. KnowsClaim(r)
  BY <1>1 DEF KnowsClaim, Holding, Ends, TypeOK
<1>3. KnowsJobs(r)
  BY <1>1 DEF KnowsJobs, Gone, Ends
<1>4. KnowsHandoff(r)
  BY <1>1 DEF KnowsHandoff, Ends
<1>5. Knows(r)
  BY <1>2, <1>3, <1>4 DEF Knows
<1>6. QED
  BY <1>5 DEF r

-----------------------------------------------------------------------------
(* Steps that leave the bucket alone.                                      *)

\* Moves replaces one invocation.
LEMMA OneMoves ==
    ASSUME TypeOK, NEW i \in Invocations, NEW r \in Runs, Moves(i, r)
    PROVE  /\ run' \in [Invocations -> Runs]
           /\ \A j \in Invocations : run'[j] = IF j = i THEN r ELSE run[j]
  BY DEF TypeOK, Moves

\* What the bucket says of the invariant stays, when the bucket stays.
LEMMA BucketStays ==
    ASSUME SubmitInv, UNCHANGED bucketVars
    PROVE  /\ \A r \in Runs : Knows(r) => Knows(r)'
           /\ LeasesLapsed' /\ LatenessInv' /\ JobsInv' /\ OneClaimPerSample'
           /\ ClaimsHandedOff' /\ HandoffNamesJobs'
<1>. USE DEF bucketVars, claimVars, jobVars
<1>1. \A r \in Runs : KnowsClaim(r) => KnowsClaim(r)'
  BY DEF KnowsClaim
<1>2. \A r \in Runs : KnowsJobs(r) => KnowsJobs(r)'
  BY DEF KnowsJobs, NoneLate, Standing
<1>3. \A r \in Runs : KnowsHandoff(r) => KnowsHandoff(r)'
  BY DEF KnowsHandoff
<1>4. LeasesLapsed' /\ LatenessInv' /\ JobsInv' /\ ClaimsHandedOff'
  BY DEF SubmitInv, LeasesLapsed, LatenessInv, JobsInv, ClaimsHandedOff
<1>5. OneClaimPerSample' /\ HandoffNamesJobs'
  BY DEF SubmitInv, OneClaimPerSample, HandoffNamesJobs, Standing
<1>6. QED
  BY <1>1, <1>2, <1>3, <1>4, <1>5 DEF Knows

\* Nobody comes to hold a claim that another one holds.
LEMMA OwnersStay ==
    ASSUME TypeOK, OwnersDiffer, NEW i \in Invocations, NEW r \in Runs, Moves(i, r),
           r.gen \in {0, run[i].gen}
    PROVE  OwnersDiffer'
<1>1. \A j \in Invocations : run'[j] = IF j = i THEN r ELSE run[j]
  BY OneMoves
<1>2. \A j \in Invocations : run'[j].gen # 0 => run'[j].gen = run[j].gen
  BY <1>1
<1>3. \A j, k \in Invocations :
        j # k /\ run'[j].gen # 0 => run'[j].gen # run'[k].gen
  BY <1>2 DEF OwnersDiffer
<1>4. QED
  BY <1>3 DEF OwnersDiffer

\* A step that leaves the bucket alone keeps the invariant, if what the
\* invocation then knows is true.
LEMMA LocalMove ==
    ASSUME SubmitInv, NEW i \in Invocations, NEW r \in Runs, Moves(i, r),
           UNCHANGED bucketVars, faults' \in 0 .. MaxFaults,
           Knows(r), r.gen \in {0, run[i].gen}
    PROVE  SubmitInv'
<1>1. TypeOK /\ OwnersDiffer /\ (\A j \in Invocations : run[j] \in Runs /\ Knows(run[j]))
  BY DEF SubmitInv, TypeOK
<1>2. /\ run' \in [Invocations -> Runs]
      /\ \A j \in Invocations : run'[j] = IF j = i THEN r ELSE run[j]
  BY <1>1, OneMoves
<1>3. TypeOK'
  BY <1>1, <1>2 DEF TypeOK, bucketVars, claimVars, jobVars
<1>4. OwnersDiffer'
  BY <1>1, OwnersStay
<1>5. \A q \in Runs : Knows(q) => Knows(q)'
  BY BucketStays
<1>6. \A j \in Invocations : (Knows(run[j]))'
  BY <1>1, <1>2, <1>5
<1>7. QED
  BY <1>3, <1>4, <1>6, BucketStays DEF SubmitInv

\* An invocation that is over keeps the invariant.
LEMMA EndMove ==
    ASSUME SubmitInv, NEW i \in Invocations, NEW outcome \in Ends, EndsAs(i, outcome),
           UNCHANGED bucketVars, faults' \in 0 .. MaxFaults,
           outcome \in {"detached", "already"} => handoff.written
    PROVE  SubmitInv'
<1>. DEFINE r == [Idle EXCEPT !.at = outcome]
<1>1. TypeOK
  BY DEF SubmitInv
<1>2. r \in Runs /\ r.gen = 0 /\ Knows(r) /\ Moves(i, r)
  BY <1>1, IdleTyping, IdleKnows DEF EndsAs, Ended
<1>. HIDE DEF r
<1>3. QED
  BY <1>2, LocalMove

\* The fields of a record, for the provers.
LEMMA FieldsAre ==
    ASSUME SubmitInv, NEW i \in Invocations
    PROVE  LET r == run[i]
           IN  /\ r \in Runs /\ Knows(r)
               /\ r.seen \in 0 .. MaxGenerations /\ r.gen \in 0 .. MaxGenerations
               /\ r.job \in MaybeJob /\ r.sid \in Samples /\ r.todo \subseteq Samples
               /\ r.known \in [Samples -> MaybeJob]
               /\ r.mine \in [Samples -> MaybeJob]
<1>1. run[i] \in Runs /\ Knows(run[i])
  BY DEF SubmitInv, TypeOK
<1>2. QED
  BY <1>1 DEF Runs

\* A fault is counted.
LEMMA FaultTyping == TypeOK /\ Fault => faults' \in 0 .. MaxFaults
  BY BoundsAre DEF TypeOK, Fault

\* Going to another place changes that field alone.
LEMMA GoesTo ==
    ASSUME NEW r \in Runs, NEW place \in Steps
    PROVE  LET q == [r EXCEPT !.at = place]
           IN  /\ q \in Runs /\ q.at = place /\ q.seen = r.seen /\ q.gen = r.gen
               /\ q.todo = r.todo /\ q.sid = r.sid /\ q.job = r.job
               /\ q.known = r.known /\ q.mine = r.mine /\ q.write = r.write
  BY DEF Runs

LEMMA PlacesAre ==
    {"list", "create", "load", "loop", "look", "submit", "record", "handoff",
     "claimPut"} \subseteq Steps
  BY DEF Steps

\* What becomes of an invocation when a call raises: it is over, or it
\* releases the claim it holds.
LEMMA RaisedKnows ==
    ASSUME SubmitInv, NEW i \in Invocations
    PROVE  /\ Raised(i) \in Runs /\ Raised(i).gen \in {0, run[i].gen}
           /\ Knows(Raised(i))
           /\ Raised(i).at \in {"failed", "claimList"}
<1>1. TypeOK /\ run[i] \in Runs /\ Knows(run[i])
  BY FieldsAre DEF SubmitInv
<1>2. CASE run[i].gen = 0 \/ run[i].write = "finish"
  BY <1>1, <1>2, IdleTyping, IdleKnows DEF Raised, Ended, Ends
<1>3. CASE ~(run[i].gen = 0 \/ run[i].write = "finish")
  <2>. DEFINE r == [run[i] EXCEPT !.at = "claimList", !.write = "release"]
  <2>1. /\ r \in Runs /\ r.at = "claimList" /\ r.write = "release" /\ r.gen = run[i].gen
        /\ r.seen = run[i].seen /\ r.todo = run[i].todo /\ r.known = run[i].known
        /\ r.mine = run[i].mine
    BY <1>1 DEF Runs, Steps
  <2>2. Raised(i) = r
    BY <1>3 DEF Raised
  <2>. HIDE DEF r
  <2>3. KnowsClaim(r) /\ KnowsJobs(r) /\ KnowsHandoff(r)
    BY <1>1, <1>3, <2>1 DEF Knows, KnowsClaim, KnowsJobs, KnowsHandoff, Holding
  <2>4. QED
    BY <2>1, <2>2, <2>3 DEF Knows
<1>4. QED
  BY <1>2, <1>3

\* claim_submission, up to the conditional create.
LEMMA ClaimingKeeps ==
    ASSUME SubmitInv, NEW i \in Invocations,
           Start(i) \/ Check(i) \/ ListClaims(i) \/ ReadClaim(i)
    PROVE  SubmitInv'
<1>1. /\ TypeOK /\ LeasesLapsed /\ ClaimsHandedOff /\ faults \in 0 .. MaxFaults
      /\ latest \in 0 .. MaxGenerations
      /\ run[i] \in Runs /\ Knows(run[i])
  BY FieldsAre DEF SubmitInv, TypeOK
<1>2. CASE Start(i)
  <2>1. [Idle EXCEPT !.at = "check"] \in Runs /\ [Idle EXCEPT !.at = "check"].gen = 0
    BY IdleTyping
  <2>2. Knows([Idle EXCEPT !.at = "check"])
    BY <1>1, IdleKnows
  <2>3. QED
    BY <1>1, <1>2, <2>1, <2>2, LocalMove DEF Start
<1>3. CASE Check(i)
  <2>1. CASE handoff.written
    BY <1>1, <1>3, <2>1, EndMove DEF Check, Ends
  <2>2. CASE ~handoff.written
    <3>. DEFINE r == [run[i] EXCEPT !.at = "list"]
    <3>1. /\ r \in Runs /\ r.at = "list" /\ r.gen = run[i].gen /\ r.seen = run[i].seen
          /\ r.todo = run[i].todo /\ r.known = run[i].known /\ r.mine = run[i].mine
      BY <1>1, GoesTo, PlacesAre
    <3>2. Moves(i, r) /\ run[i].at = "check" /\ UNCHANGED <<bucketVars, faults>>
      BY <1>3, <2>2 DEF Check, Goes, At
    <3>. HIDE DEF r
    <3>3. Knows(r)
      BY <1>1, <3>1, <3>2 DEF Knows, KnowsClaim, KnowsJobs, KnowsHandoff, Holding
    <3>4. QED
      BY <1>1, <3>1, <3>2, <3>3, LocalMove
  <2>3. QED
    BY <2>1, <2>2
<1>4. CASE ListClaims(i)
  <2>. DEFINE r == [run[i] EXCEPT !.seen = latest,
                                  !.at = IF latest = 0 THEN "create" ELSE "read"]
  <2>1. /\ r \in Runs /\ r.at = (IF latest = 0 THEN "create" ELSE "read")
        /\ r.gen = run[i].gen /\ r.seen = latest
        /\ r.todo = run[i].todo /\ r.known = run[i].known /\ r.mine = run[i].mine
    BY <1>1 DEF Runs, Steps
  <2>2. Moves(i, r) /\ run[i].at = "list" /\ UNCHANGED <<bucketVars, faults>>
    BY <1>4 DEF ListClaims, At
  <2>. HIDE DEF r
  <2>3. Knows(r)
    BY <1>1, <2>1, <2>2 DEF Knows, KnowsClaim, KnowsJobs, KnowsHandoff, Holding
  <2>4. QED
    BY <1>1, <2>1, <2>2, <2>3, LocalMove
<1>5. CASE ReadClaim(i)
  <2>1. run[i].at = "read" /\ run[i].seen \in Generations /\ UNCHANGED <<bucketVars, faults>>
    BY <1>1, <1>5, FieldsAre, BoundsAre DEF ReadClaim, At, Knows, KnowsClaim
  <2>2. CASE Verdict(run[i].seen) = "create"
    <3>. DEFINE r == [run[i] EXCEPT !.at = "create"]
    <3>1. /\ r \in Runs /\ r.at = "create" /\ r.gen = run[i].gen /\ r.seen = run[i].seen
          /\ r.todo = run[i].todo /\ r.known = run[i].known /\ r.mine = run[i].mine
      BY <1>1, GoesTo, PlacesAre
    <3>2. Moves(i, r)
      BY <1>5, <2>2 DEF ReadClaim, Goes
    <3>3. lease[run[i].seen] # "fresh"
      BY <2>2 DEF Verdict, Live
    <3>. HIDE DEF r
    <3>4. Knows(r)
      BY <1>1, <2>1, <3>1, <3>3 DEF Knows, KnowsClaim, KnowsJobs, KnowsHandoff, Holding
    <3>5. QED
      BY <1>1, <2>1, <3>1, <3>2, <3>4, LocalMove
  <2>3. CASE Verdict(run[i].seen) # "create"
    <3>1. /\ Verdict(run[i].seen) \in Ends
          /\ Verdict(run[i].seen) = "already" => handoff.written
          /\ Verdict(run[i].seen) # "detached"
      BY <1>1, <2>1, <2>3 DEF Verdict, Ends, ClaimsHandedOff
    <3>2. EndsAs(i, Verdict(run[i].seen))
      BY <1>5, <2>3 DEF ReadClaim
    <3>3. QED
      BY <1>1, <2>1, <3>1, <3>2, EndMove
  <2>4. QED
    BY <2>2, <2>3
<1>6. QED
  BY <1>2, <1>3, <1>4, <1>5

-----------------------------------------------------------------------------
\* The submission loop, but for what it submits, records and passes over.
LEMMA LoopKeeps ==
    ASSUME SubmitInv, NEW i \in Invocations,
           LoadRecords(i) \/ NextSample(i) \/ LoopEnds(i) \/ FindExistingJob(i)
    PROVE  SubmitInv'
<1>1. /\ TypeOK /\ JobsInv /\ faults \in 0 .. MaxFaults
      /\ record \in [Samples -> MaybeJob]
      /\ made \in [Samples -> SUBSET Jobs]
      /\ latest \in 0 .. MaxGenerations
      /\ run[i] \in Runs /\ Knows(run[i])
  BY FieldsAre DEF SubmitInv, TypeOK
<1>2. CASE LoadRecords(i)
  <2>. DEFINE r == [run[i] EXCEPT !.known = record, !.at = "loop"]
  <2>1. /\ r \in Runs /\ r.at = "loop" /\ r.gen = run[i].gen /\ r.seen = run[i].seen
        /\ r.todo = run[i].todo /\ r.known = record /\ r.mine = run[i].mine
    BY <1>1 DEF Runs, Steps
  <2>2. Moves(i, r) /\ run[i].at = "load" /\ UNCHANGED <<bucketVars, faults>>
    BY <1>2 DEF LoadRecords, At
  <2>. HIDE DEF r
  <2>3. Knows(r)
    BY <1>1, <2>1, <2>2 DEF Knows, KnowsClaim, KnowsJobs, KnowsHandoff, Holding, JobsInv
  <2>4. QED
    BY <1>1, <2>1, <2>2, <2>3, LocalMove
<1>3. CASE NextSample(i)
  <2>1. /\ run[i].at = "loop" /\ UNCHANGED <<bucketVars, faults>>
        /\ run[i].gen \in 0 .. MaxGenerations
    BY <1>3, FieldsAre DEF NextSample, At
  <2>2. PICK s \in run[i].todo :
          Moves(i, IF run[i].known[s] # 0 THEN Adopts(run[i], s)
                   ELSE [run[i] EXCEPT !.sid = s,
                             !.at = IF Resumed(run[i].gen) THEN "look" ELSE "submit"])
    BY <1>3 DEF NextSample
  <2>3. s \in Samples /\ run[i].known \in [Samples -> MaybeJob]
    BY FieldsAre
  <2>4. CASE run[i].known[s] # 0
    <3>. DEFINE r == Adopts(run[i], s)
    <3>1. /\ r \in Runs /\ r.at = "loop" /\ r.gen = run[i].gen /\ r.seen = run[i].seen
          /\ r.todo = run[i].todo \ {s} /\ r.known = run[i].known
          /\ r.mine = [run[i].mine EXCEPT ![s] = run[i].known[s]]
      BY <1>1, <2>1, <2>3 DEF Adopts, Runs
    <3>2. Moves(i, r)
      BY <2>2, <2>4
    <3>. HIDE DEF r
    <3>3. \A t \in Samples : t \in r.todo \/ t \in passed \/ r.mine[t] \in made[t]
      <4>1. TAKE t \in Samples
      <4>2. run[i].mine \in [Samples -> MaybeJob]
        BY FieldsAre
      <4>3. CASE t = s
        BY <1>1, <2>3, <2>4, <3>1, <4>2, <4>3 DEF Knows, KnowsJobs
      <4>4. CASE t # s
        BY <1>1, <3>1, <4>2, <4>4 DEF Knows, KnowsJobs
      <4>5. QED
        BY <4>3, <4>4
    <3>4. Knows(r)
      BY <1>1, <2>1, <3>1, <3>3 DEF Knows, KnowsClaim, KnowsJobs, KnowsHandoff, Holding
    <3>5. QED
      BY <1>1, <2>1, <3>1, <3>2, <3>4, LocalMove
  <2>5. CASE run[i].known[s] = 0
    <3>. DEFINE r == [run[i] EXCEPT !.sid = s,
                          !.at = IF Resumed(run[i].gen) THEN "look" ELSE "submit"]
    <3>1. /\ r \in Runs /\ r.at = (IF run[i].gen > 1 THEN "look" ELSE "submit")
          /\ r.gen = run[i].gen /\ r.seen = run[i].seen /\ r.sid = s
          /\ r.todo = run[i].todo /\ r.known = run[i].known /\ r.mine = run[i].mine
      BY <1>1, <2>3 DEF Runs, Steps, Resumed
    <3>2. Moves(i, r)
      BY <2>2, <2>5
    <3>. HIDE DEF r
    <3>3. Knows(r)
      BY <1>1, <2>1, <3>1 DEF Knows, KnowsClaim, KnowsJobs, KnowsHandoff, Holding
    <3>4. QED
      BY <1>1, <2>1, <3>1, <3>2, <3>3, LocalMove
  <2>6. QED
    BY <2>4, <2>5
<1>4. CASE LoopEnds(i)
  <2>. DEFINE r == [run[i] EXCEPT !.at = "handoff"]
  <2>1. /\ r \in Runs /\ r.at = "handoff" /\ r.gen = run[i].gen /\ r.seen = run[i].seen
        /\ r.todo = run[i].todo /\ r.known = run[i].known /\ r.mine = run[i].mine
    BY <1>1, GoesTo, PlacesAre
  <2>2. /\ Moves(i, r) /\ run[i].at = "loop" /\ run[i].todo = {}
        /\ UNCHANGED <<bucketVars, faults>>
    BY <1>4 DEF LoopEnds, Goes, At
  <2>. HIDE DEF r
  <2>3. Knows(r)
    BY <1>1, <2>1, <2>2 DEF Knows, KnowsClaim, KnowsJobs, KnowsHandoff, Holding
  <2>4. QED
    BY <1>1, <2>1, <2>2, <2>3, LocalMove
<1>5. CASE FindExistingJob(i)
  <2>1. run[i].at = "look" /\ run[i].sid \in Samples /\ UNCHANGED <<bucketVars, faults>>
    BY <1>5, FieldsAre DEF FindExistingJob, At
  <2>2. ASSUME NEW g \in Standing(run[i].sid),
               Moves(i, [run[i] EXCEPT !.job = g, !.at = "record"])
        PROVE  SubmitInv'
    <3>. DEFINE r == [run[i] EXCEPT !.job = g, !.at = "record"]
    <3>1. g \in made[run[i].sid] /\ g \in MaybeJob
      BY <1>1, <2>1, <2>2, JobsAre DEF Standing
    <3>2. /\ r \in Runs /\ r.at = "record" /\ r.gen = run[i].gen /\ r.seen = run[i].seen
          /\ r.todo = run[i].todo /\ r.known = run[i].known /\ r.mine = run[i].mine
          /\ r.job = g /\ r.sid = run[i].sid
      BY <1>1, <3>1 DEF Runs, Steps
    <3>. HIDE DEF r
    <3>3. Knows(r)
      BY <1>1, <2>1, <3>1, <3>2 DEF Knows, KnowsClaim, KnowsJobs, KnowsHandoff, Holding
    <3>. USE DEF r
    <3>4. Moves(i, r)
      BY <2>2
    <3>. HIDE DEF r
    <3>5. QED
      BY <1>1, <2>1, <3>2, <3>3, <3>4, LocalMove
  <2>3. CASE Standing(run[i].sid) = {} /\ Goes(i, "submit")
    <3>. DEFINE r == [run[i] EXCEPT !.at = "submit"]
    <3>1. /\ r \in Runs /\ r.at = "submit" /\ r.gen = run[i].gen /\ r.seen = run[i].seen
          /\ r.todo = run[i].todo /\ r.known = run[i].known /\ r.mine = run[i].mine
          /\ r.sid = run[i].sid
      BY <1>1, GoesTo, PlacesAre
    <3>2. Moves(i, r)
      BY <2>3 DEF Goes
    <3>. HIDE DEF r
    <3>3. Knows(r)
      BY <1>1, <2>1, <2>3, <3>1 DEF Knows, KnowsClaim, KnowsJobs, KnowsHandoff, Holding
    <3>4. QED
      BY <1>1, <2>1, <3>1, <3>2, <3>3, LocalMove
  <2>4. QED
    BY <1>5, <2>2, <2>3 DEF FindExistingJob
<1>6. QED
  BY <1>2, <1>3, <1>4, <1>5

\* The listing before a claim is written, a call that raises, and a crash.
LEMMA LeavingKeeps ==
    ASSUME SubmitInv, NEW i \in Invocations,
           ListBeforeWrite(i) \/ CallFails(i) \/ Crash(i)
    PROVE  SubmitInv'
<1>1. TypeOK /\ faults \in 0 .. MaxFaults /\ run[i] \in Runs /\ Knows(run[i])
  BY FieldsAre DEF SubmitInv, TypeOK
<1>2. ASSUME Moves(i, Raised(i)), UNCHANGED bucketVars, faults' \in 0 .. MaxFaults
      PROVE  SubmitInv'
  BY <1>2, RaisedKnows, LocalMove
<1>3. ASSUME EndsAs(i, "failed") \/ EndsAs(i, "crashed"), UNCHANGED bucketVars,
             faults' \in 0 .. MaxFaults
      PROVE  SubmitInv'
  BY <1>3, EndMove DEF Ends
<1>4. CASE ListBeforeWrite(i)
  <2>1. run[i].at = "claimList" /\ UNCHANGED <<bucketVars, faults>>
    BY <1>4 DEF ListBeforeWrite, At
  <2>2. CASE ~Superseded(i)
    <3>. DEFINE r == [run[i] EXCEPT !.at = "claimPut"]
    <3>1. /\ r \in Runs /\ r.at = "claimPut" /\ r.gen = run[i].gen /\ r.seen = run[i].seen
          /\ r.todo = run[i].todo /\ r.known = run[i].known /\ r.mine = run[i].mine
          /\ r.write = run[i].write
      BY <1>1, GoesTo, PlacesAre
    <3>2. Moves(i, r)
      BY <1>4, <2>2 DEF ListBeforeWrite, Goes
    <3>3. r.gen # 0 => late[r.gen] = {}
      <4>1. r.gen = latest /\ r.gen \in 0 .. MaxGenerations
        BY <2>2, <3>1, FieldsAre DEF Superseded
      <4>2. r.gen # 0 => r.gen \in Generations
        BY <4>1, BoundsAre
      <4>3. QED
        BY <4>1, <4>2 DEF SubmitInv, LatenessInv
    <3>. HIDE DEF r
    <3>4. Knows(r)
      BY <1>1, <2>1, <3>1, <3>3 DEF Knows, KnowsClaim, KnowsJobs, KnowsHandoff, Holding
    <3>5. QED
      BY <1>1, <2>1, <3>1, <3>2, <3>4, LocalMove
  <2>3. CASE Superseded(i) /\ run[i].write = "release"
    BY <1>1, <1>3, <1>4, <2>1, <2>3 DEF ListBeforeWrite
  <2>4. CASE Superseded(i) /\ run[i].write # "release"
    BY <1>1, <1>2, <1>4, <2>1, <2>4 DEF ListBeforeWrite
  <2>5. QED
    BY <2>2, <2>3, <2>4
<1>5. CASE CallFails(i)
  BY <1>1, <1>2, <1>3, <1>5, FaultTyping DEF CallFails
<1>6. CASE Crash(i)
  BY <1>1, <1>3, <1>6, FaultTyping DEF Crash
<1>7. QED
  BY <1>4, <1>5, <1>6

-----------------------------------------------------------------------------
(* Steps that change the bucket.                                           *)

\* The invariant after a step that moves one invocation, in parts.
LEMMA Recompose ==
    ASSUME SubmitInv, NEW i \in Invocations, NEW r \in Runs, Moves(i, r), TypeOK',
           Knows(r)', OwnersDiffer',
           \A j \in Invocations \ {i} : (Knows(run[j]))',
           LeasesLapsed', LatenessInv', JobsInv', OneClaimPerSample',
           ClaimsHandedOff', HandoffNamesJobs'
    PROVE  SubmitInv'
<1>1. \A j \in Invocations : run'[j] = IF j = i THEN r ELSE run[j]
  BY OneMoves DEF SubmitInv
<1>2. run'[i] = r
  BY <1>1
<1>3. (Knows(run[i]))'
  BY <1>2 DEF Knows, KnowsClaim, KnowsJobs, KnowsHandoff
<1>4. \A j \in Invocations : (Knows(run[j]))'
  BY <1>3
<1>5. QED
  BY <1>4 DEF SubmitInv

\* A conditional create: the generation is new, and the one before it is
\* not fresh.
LEMMA CreateKeeps ==
    ASSUME SubmitInv, NEW i \in Invocations, CreateClaim(i)
    PROVE  SubmitInv'
<1>1. /\ TypeOK /\ OwnersDiffer /\ LeasesLapsed /\ LatenessInv /\ JobsInv
      /\ faults \in 0 .. MaxFaults /\ latest \in 0 .. MaxGenerations
      /\ \A j \in Invocations : run[j] \in Runs /\ Knows(run[j])
      /\ run[i].at = "create"
      /\ UNCHANGED <<claimState, lease, jobVars, handoff, passed>>
  BY FieldsAre DEF SubmitInv, TypeOK, CreateClaim, At
<1>2. CASE latest # run[i].seen /\ EndsAs(i, "refused") /\ UNCHANGED <<latest, faults>>
  <2>1. UNCHANGED bucketVars
    BY <1>1, <1>2 DEF bucketVars, claimVars
  <2>2. QED
    BY <1>1, <1>2, <2>1, EndMove DEF Ends
<1>3. ASSUME latest = run[i].seen, latest < MaxGenerations, latest' = latest + 1,
             faults' \in 0 .. MaxFaults,
             NEW r \in Runs, Moves(i, r), Knows(r)', r.gen \in {0, latest + 1}
      PROVE  SubmitInv'
  <2>. USE DEF jobVars
  <2>1. latest' \in 0 .. MaxGenerations /\ latest + 1 \in Generations
    BY <1>1, <1>3, BoundsAre
  <2>2. /\ run' \in [Invocations -> Runs]
        /\ \A j \in Invocations : run'[j] = IF j = i THEN r ELSE run[j]
    BY <1>1, <1>3, OneMoves
  <2>3. TypeOK'
    BY <1>1, <1>3, <2>1, <2>2 DEF TypeOK
  <2>4. ASSUME NEW j \in Invocations \ {i} PROVE (Knows(run[j]))'
    <3>1. run'[j] = run[j] /\ Knows(run[j]) /\ run[j].gen \in 0 .. MaxGenerations
          /\ run[j].seen \in 0 .. MaxGenerations
      BY <1>1, <2>2, FieldsAre
    <3>2. (KnowsClaim(run[j]))'
      BY <1>1, <1>3, <3>1 DEF Knows, KnowsClaim
    <3>3. (KnowsJobs(run[j]))'
      BY <1>1, <1>3, <3>1 DEF Knows, KnowsClaim, KnowsJobs, NoneLate, Standing
    <3>4. (KnowsHandoff(run[j]))'
      BY <1>1, <3>1 DEF Knows, KnowsHandoff
    <3>5. QED
      BY <3>2, <3>3, <3>4 DEF Knows
  <2>5. OwnersDiffer'
    <3>1. \A j \in Invocations : run[j].gen \in 0 .. MaxGenerations /\ run[j].gen <= latest
      BY <1>1, FieldsAre DEF Knows, KnowsClaim
    <3>2. \A j \in Invocations :
            run'[j].gen = IF j = i THEN r.gen ELSE run[j].gen
      BY <2>2
    <3>3. \A j, k \in Invocations :
            j # k /\ run'[j].gen # 0 => run'[j].gen # run'[k].gen
      BY <1>1, <1>3, <3>1, <3>2 DEF OwnersDiffer
    <3>4. QED
      BY <3>3 DEF OwnersDiffer
  <2>6. LeasesLapsed'
    BY <1>1, <1>3, BoundsAre DEF LeasesLapsed, Knows, KnowsClaim
  <2>7. LatenessInv'
    BY <1>1, <1>3, BoundsAre DEF LatenessInv
  <2>8. JobsInv'
    <3>1. \A s \in Samples : \A j \in made[s] : ClaimOf(j) \in Nat
      BY <1>1, JobsAre DEF TypeOK, Generations
    <3>2. \A s \in Samples : \A j \in made[s] : ClaimOf(j) <= latest + 1
      BY <1>1, <3>1, BoundsAre DEF JobsInv
    <3>3. made' = made /\ record' = record
      BY <1>1
    <3>4. QED
      BY <1>1, <1>3, <3>2, <3>3 DEF JobsInv
  <2>9. OneClaimPerSample' /\ ClaimsHandedOff' /\ HandoffNamesJobs'
    BY <1>1 DEF SubmitInv, OneClaimPerSample, ClaimsHandedOff, HandoffNamesJobs, Standing
  <2>10. QED
    BY <1>3, <2>3, <2>4, <2>5, <2>6, <2>7, <2>8, <2>9, Recompose
<1>4. ASSUME latest = run[i].seen, latest < MaxGenerations, latest' = latest + 1,
             Moves(i, [run[i] EXCEPT !.seen = 0, !.gen = latest + 1, !.at = "load"]),
             UNCHANGED faults
      PROVE  SubmitInv'
  <2>1. latest + 1 \in 0 .. MaxGenerations /\ latest + 1 \in Generations /\ latest + 1 # 0
    BY <1>1, <1>4, BoundsAre
  <2>2. PICK r \in Runs :
          /\ Moves(i, r) /\ r.at = "load" /\ r.gen = latest + 1 /\ r.seen = 0
          /\ r.todo = run[i].todo /\ r.known = run[i].known /\ r.mine = run[i].mine
    <3>. DEFINE q == [run[i] EXCEPT !.seen = 0, !.gen = latest + 1, !.at = "load"]
    <3>1. /\ q \in Runs /\ q.at = "load" /\ q.gen = latest + 1 /\ q.seen = 0
          /\ q.todo = run[i].todo /\ q.known = run[i].known /\ q.mine = run[i].mine
      BY <1>1, <2>1, BoundsAre DEF Runs, Steps
    <3>2. Moves(i, q)
      BY <1>4
    <3>. HIDE DEF q
    <3>3. QED
      BY <3>1, <3>2
  <2>3. late' = late /\ late[latest + 1] = {}
    BY <1>1, <2>1 DEF LatenessInv, jobVars
  <2>4. (KnowsClaim(r))'
    BY <1>1, <1>4, <2>1, <2>2, <2>3 DEF KnowsClaim, Holding
  <2>5. (KnowsJobs(r))' /\ (KnowsHandoff(r))'
    BY <1>1, <2>2 DEF Knows, KnowsJobs, KnowsHandoff, jobVars
  <2>6. (Knows(r))' /\ r.gen \in {0, latest + 1} /\ faults' \in 0 .. MaxFaults
    BY <1>1, <1>4, <2>2, <2>4, <2>5 DEF Knows
  <2>7. QED
    BY <1>3, <1>4, <2>2, <2>6
<1>5. ASSUME latest = run[i].seen, latest < MaxGenerations, latest' = latest + 1,
             EndsAs(i, "failed"), Fault
      PROVE  SubmitInv'
  <2>. DEFINE r == [Idle EXCEPT !.at = "failed"]
  <2>1. /\ r \in Runs /\ r.at = "failed" /\ r.gen = 0 /\ r.seen = 0
        /\ r.todo = Samples /\ r.known = Gone
    BY IdleTyping DEF Ends
  <2>2. Moves(i, r)
    BY <1>5 DEF EndsAs, Ended
  <2>. HIDE DEF r
  <2>3. Knows(r)'
    BY <1>1, <1>5, <2>1
       DEF Knows, KnowsClaim, KnowsJobs, KnowsHandoff, Holding, Gone
  <2>4. QED
    BY <1>1, <1>3, <1>5, <2>1, <2>2, <2>3, FaultTyping
<1>6. QED
  BY <1>2, <1>4, <1>5 DEF CreateClaim

\* What is known stays known when leases lapse or revive, jobs fail, and
\* the handoff and the samples passed over are only ever added to.
LEMMA BucketGrows ==
    ASSUME SubmitInv, UNCHANGED <<latest, late, made>>,
           \A g \in Generations : lease[g] # "fresh" => lease'[g] # "fresh",
           \A s \in Samples : failed[s] \subseteq failed'[s],
           handoff.written => handoff'.written, passed \subseteq passed'
    PROVE  /\ \A q \in Runs : Knows(q) => Knows(q)'
           /\ LeasesLapsed' /\ LatenessInv' /\ OneClaimPerSample'
<1>1. \A q \in Runs : KnowsClaim(q) => KnowsClaim(q)'
  <2>1. TAKE q \in Runs
  <2>2. HAVE KnowsClaim(q)
  <2>3. q.seen \in 0 .. MaxGenerations
    BY DEF Runs
  <2>4. q.seen # 0 => q.seen \in Generations
    BY <2>3, BoundsAre
  <2>5. QED
    BY <2>2, <2>4 DEF KnowsClaim
<1>2. \A q \in Runs : KnowsJobs(q) => KnowsJobs(q)'
  <2>1. TAKE q \in Runs
  <2>2. HAVE KnowsJobs(q)
  <2>3. q.sid \in Samples
    BY DEF Runs
  <2>4. QED
    BY <2>2, <2>3 DEF KnowsJobs, NoneLate, Standing
<1>3. \A q \in Runs : KnowsHandoff(q) => KnowsHandoff(q)'
  BY DEF KnowsHandoff
<1>4. LeasesLapsed' /\ LatenessInv'
  BY DEF SubmitInv, LeasesLapsed, LatenessInv
<1>5. OneClaimPerSample'
  BY DEF SubmitInv, OneClaimPerSample, Standing
<1>6. QED
  BY <1>1, <1>2, <1>3, <1>4, <1>5 DEF Knows

\* A step of one invocation that only adds to the bucket.
LEMMA GrowingMove ==
    ASSUME SubmitInv, NEW i \in Invocations, NEW r \in Runs, Moves(i, r),
           UNCHANGED <<latest, late, made>>,
           \A g \in Generations : lease[g] # "fresh" => lease'[g] # "fresh",
           \A s \in Samples : failed[s] \subseteq failed'[s],
           handoff.written => handoff'.written, passed \subseteq passed',
           Knows(r)', r.gen \in {0, run[i].gen},
           TypeOK', JobsInv', ClaimsHandedOff', HandoffNamesJobs'
    PROVE  SubmitInv'
<1>1. TypeOK /\ OwnersDiffer /\ (\A j \in Invocations : run[j] \in Runs /\ Knows(run[j]))
  BY FieldsAre DEF SubmitInv
<1>2. \A j \in Invocations : run'[j] = IF j = i THEN r ELSE run[j]
  BY <1>1, OneMoves
<1>3. \A q \in Runs : Knows(q) => Knows(q)'
  BY BucketGrows
<1>4. \A j \in Invocations \ {i} : (Knows(run[j]))'
  <2>1. TAKE j \in Invocations \ {i}
  <2>2. PICK q \in Runs : q = run[j] /\ Knows(q) /\ q = run'[j]
    BY <1>1, <1>2
  <2>3. Knows(q)'
    BY <1>3, <2>2
  <2>4. QED
    BY <2>2, <2>3
<1>5. OwnersDiffer'
  BY <1>1, OwnersStay
<1>6. QED
  BY <1>4, <1>5, BucketGrows, Recompose

\* A pause or a quota that passes samples over.
LEMMA PassKeeps ==
    ASSUME SubmitInv, NEW i \in Invocations, PassOver(i)
    PROVE  SubmitInv'
<1>1. /\ TypeOK /\ run[i] \in Runs /\ Knows(run[i]) /\ run[i].at = "loop"
      /\ UNCHANGED <<claimVars, jobVars, handoff, faults>>
      /\ passed \subseteq Samples /\ run[i].todo \subseteq Samples
  BY FieldsAre DEF SubmitInv, TypeOK, PassOver, At
<1>2. PICK skipped \in SUBSET run[i].todo :
        /\ passed' = passed \union skipped
        /\ Moves(i, [run[i] EXCEPT !.todo = @ \ skipped])
  BY DEF PassOver
<1>3. PICK r \in Runs :
        /\ Moves(i, r) /\ r.at = "loop" /\ r.gen = run[i].gen /\ r.seen = run[i].seen
        /\ r.todo = run[i].todo \ skipped /\ r.known = run[i].known /\ r.mine = run[i].mine
  <2>. DEFINE q == [run[i] EXCEPT !.todo = @ \ skipped]
  <2>1. /\ q \in Runs /\ q.at = "loop" /\ q.gen = run[i].gen /\ q.seen = run[i].seen
        /\ q.todo = run[i].todo \ skipped /\ q.known = run[i].known /\ q.mine = run[i].mine
    BY <1>1 DEF Runs
  <2>2. Moves(i, q)
    BY <1>2
  <2>. HIDE DEF q
  <2>3. QED
    BY <2>1, <2>2
<1>4. UNCHANGED <<latest, late, made, lease, failed, handoff, record, claimState, faults>>
  BY <1>1 DEF claimVars, jobVars
<1>5. (KnowsClaim(r))' /\ (KnowsHandoff(r))'
  BY <1>1, <1>3, <1>4 DEF Knows, KnowsClaim, KnowsHandoff, Holding
<1>6. (KnowsJobs(r))'
  BY <1>1, <1>2, <1>3, <1>4 DEF Knows, KnowsJobs
<1>7. TypeOK'
  BY <1>1, <1>2, <1>3, <1>4, OneMoves DEF TypeOK
<1>8. JobsInv' /\ ClaimsHandedOff' /\ HandoffNamesJobs'
  BY <1>2, <1>4 DEF SubmitInv, JobsInv, ClaimsHandedOff, HandoffNamesJobs
<1>9. (Knows(r))' /\ passed \subseteq passed'
  BY <1>2, <1>5, <1>6 DEF Knows
<1>10. QED
  BY <1>3, <1>4, <1>7, <1>8, <1>9, GrowingMove

\* A job recorded in the bucket.
LEMMA RecordKeeps ==
    ASSUME SubmitInv, NEW i \in Invocations, RecordJob(i)
    PROVE  SubmitInv'
<1>1. /\ TypeOK /\ JobsInv /\ run[i] \in Runs /\ Knows(run[i]) /\ run[i].at = "record"
      /\ UNCHANGED <<claimVars, made, failed, late, handoff, passed, faults>>
      /\ record' = FirstRecorded(run[i].sid, run[i].job)
      /\ record \in [Samples -> MaybeJob]
  BY FieldsAre DEF SubmitInv, TypeOK, RecordJob, At
<1>2. /\ run[i].sid \in Samples /\ run[i].job \in MaybeJob
      /\ run[i].job \in made[run[i].sid]
      /\ run[i].todo \subseteq Samples /\ run[i].mine \in [Samples -> MaybeJob]
  BY <1>1, FieldsAre DEF Knows, KnowsJobs
<1>3. PICK r \in Runs :
        /\ Moves(i, r) /\ r.at = "claimList" /\ r.write = "renew"
        /\ r.gen = run[i].gen /\ r.seen = run[i].seen /\ r.known = run[i].known
        /\ r.todo = run[i].todo \ {run[i].sid}
        /\ r.mine = [run[i].mine EXCEPT ![run[i].sid] = run[i].job]
  <2>. DEFINE q == [run[i] EXCEPT !.mine[run[i].sid] = run[i].job, !.job = 0,
                                  !.todo = @ \ {run[i].sid},
                                  !.write = "renew", !.at = "claimList"]
  <2>1. /\ q \in Runs /\ q.at = "claimList" /\ q.write = "renew"
        /\ q.gen = run[i].gen /\ q.seen = run[i].seen /\ q.known = run[i].known
        /\ q.todo = run[i].todo \ {run[i].sid}
        /\ q.mine = [run[i].mine EXCEPT ![run[i].sid] = run[i].job]
    BY <1>1, <1>2, JobsAre DEF Runs, Steps
  <2>2. Moves(i, q)
    BY DEF RecordJob
  <2>. HIDE DEF q
  <2>3. QED
    BY <2>1, <2>2
<1>4. UNCHANGED <<latest, late, made, lease, failed, handoff, passed, claimState, faults>>
  BY <1>1 DEF claimVars
<1>5. (KnowsClaim(r))' /\ (KnowsHandoff(r))'
  BY <1>1, <1>3, <1>4 DEF Knows, KnowsClaim, KnowsHandoff, Holding
<1>6. (KnowsJobs(r))'
  <2>1. \A s \in Samples : s \in r.todo \/ s \in passed \/ r.mine[s] \in made[s]
    BY <1>1, <1>2, <1>3 DEF Knows, KnowsJobs
  <2>2. QED
    BY <1>1, <1>3, <1>4, <2>1 DEF Knows, KnowsJobs
<1>7. TypeOK'
  <2>1. record' \in [Samples -> MaybeJob]
    BY <1>1, <1>2 DEF FirstRecorded
  <2>2. QED
    BY <1>1, <1>3, <1>4, <2>1, OneMoves DEF TypeOK
<1>8. JobsInv'
  BY <1>1, <1>2, <1>4 DEF JobsInv, FirstRecorded
<1>9. ClaimsHandedOff' /\ HandoffNamesJobs'
  BY <1>4 DEF SubmitInv, ClaimsHandedOff, HandoffNamesJobs
<1>10. (Knows(r))'
  BY <1>5, <1>6 DEF Knows
<1>11. QED
  BY <1>3, <1>4, <1>7, <1>8, <1>9, <1>10, GrowingMove

\* The handoff: every sample the loop did not pass over has a job of its own.
LEMMA HandoffKeeps ==
    ASSUME SubmitInv, NEW i \in Invocations, WriteHandoff(i)
    PROVE  SubmitInv'
<1>1. /\ TypeOK /\ run[i] \in Runs /\ Knows(run[i]) /\ run[i].at = "handoff"
      /\ UNCHANGED <<claimVars, jobVars, passed, faults>>
      /\ handoff' = [written |-> TRUE, jobs |-> run[i].mine]
      /\ run[i].mine \in [Samples -> MaybeJob]
  BY FieldsAre DEF SubmitInv, WriteHandoff, At
<1>2. PICK r \in Runs :
        /\ Moves(i, r) /\ r.at = "claimList" /\ r.gen = run[i].gen /\ r.seen = run[i].seen
        /\ r.todo = run[i].todo /\ r.known = run[i].known /\ r.mine = run[i].mine
  <2>. DEFINE q == [run[i] EXCEPT !.write = "finish", !.at = "claimList"]
  <2>1. /\ q \in Runs /\ q.at = "claimList" /\ q.gen = run[i].gen /\ q.seen = run[i].seen
        /\ q.todo = run[i].todo /\ q.known = run[i].known /\ q.mine = run[i].mine
    BY <1>1 DEF Runs, Steps
  <2>2. Moves(i, q)
    BY DEF WriteHandoff
  <2>. HIDE DEF q
  <2>3. QED
    BY <2>1, <2>2
<1>3. UNCHANGED <<latest, late, made, lease, failed, record, passed, claimState, faults>>
  BY <1>1 DEF claimVars, jobVars
<1>4. handoff'.written /\ handoff'.jobs = run[i].mine
  BY <1>1
<1>5. (KnowsClaim(r))' /\ (KnowsJobs(r))' /\ (KnowsHandoff(r))'
  BY <1>1, <1>2, <1>3, <1>4 DEF Knows, KnowsClaim, KnowsJobs, KnowsHandoff, Holding
<1>6. TypeOK'
  BY <1>1, <1>2, <1>3, OneMoves DEF TypeOK
<1>7. JobsInv' /\ ClaimsHandedOff'
  BY <1>3, <1>4 DEF SubmitInv, JobsInv, ClaimsHandedOff
<1>8. HandoffNamesJobs'
  <2>1. run[i].todo = {}
    BY <1>1 DEF Knows, KnowsHandoff
  <2>2. \A s \in Samples \ passed : run[i].mine[s] \in made[s]
    BY <1>1, <2>1 DEF Knows, KnowsJobs
  <2>3. QED
    BY <1>3, <1>4, <2>2 DEF HandoffNamesJobs
<1>9. (Knows(r))'
  BY <1>5 DEF Knows
<1>10. QED
  BY <1>2, <1>3, <1>4, <1>6, <1>7, <1>8, <1>9, GrowingMove

\* A claim that is renewed, finished or released.
LEMMA PutKeeps ==
    ASSUME SubmitInv, NEW i \in Invocations, PutClaim(i)
    PROVE  SubmitInv'
<1>1. /\ TypeOK /\ run[i] \in Runs /\ Knows(run[i]) /\ run[i].at = "claimPut"
      /\ UNCHANGED <<latest, jobVars, handoff, passed, faults>>
      /\ run[i].gen \in Generations
      /\ lease \in [Generations -> {"fresh", "lapsed", "revived"}]
      /\ claimState \in [Generations -> {"submitting", "submitted"}]
  BY FieldsAre, BoundsAre DEF SubmitInv, TypeOK, PutClaim, At, Knows, KnowsClaim, Holding
<1>2. UNCHANGED <<latest, late, made, failed, record, handoff, passed, faults>>
  BY <1>1 DEF jobVars
<1>3. JobsInv' /\ HandoffNamesJobs'
  BY <1>2 DEF SubmitInv, JobsInv, HandoffNamesJobs
<1>4. ASSUME NEW r \in Runs, Moves(i, r), (Knows(r))', r.gen \in {0, run[i].gen},
             lease' \in [Generations -> {"fresh", "lapsed", "revived"}],
             \A g \in Generations : lease[g] # "fresh" => lease'[g] # "fresh",
             claimState' \in [Generations -> {"submitting", "submitted"}],
             ClaimsHandedOff'
      PROVE  SubmitInv'
  <2>1. TypeOK'
    BY <1>1, <1>2, <1>4, OneMoves DEF TypeOK
  <2>2. QED
    BY <1>2, <1>3, <1>4, <2>1, GrowingMove
<1>5. CASE /\ run[i].write = "renew"
           /\ lease' = Renewed(run[i].gen)
           /\ Goes(i, "loop")
           /\ UNCHANGED claimState
  <2>1. PICK r \in Runs :
          /\ Moves(i, r) /\ r.at = "loop" /\ r.gen = run[i].gen /\ r.seen = run[i].seen
          /\ r.todo = run[i].todo /\ r.known = run[i].known /\ r.mine = run[i].mine
    <3>. DEFINE q == [run[i] EXCEPT !.at = "loop"]
    <3>1. /\ q \in Runs /\ q.at = "loop" /\ q.gen = run[i].gen /\ q.seen = run[i].seen
          /\ q.todo = run[i].todo /\ q.known = run[i].known /\ q.mine = run[i].mine
      BY <1>1, GoesTo, PlacesAre
    <3>2. Moves(i, q)
      BY <1>5 DEF Goes
    <3>. HIDE DEF q
    <3>3. QED
      BY <3>1, <3>2
  <2>2. /\ lease' \in [Generations -> {"fresh", "lapsed", "revived"}]
        /\ \A g \in Generations : lease[g] # "fresh" => lease'[g] # "fresh"
    BY <1>1, <1>5 DEF Renewed
  <2>3. (KnowsClaim(r))' /\ (KnowsJobs(r))' /\ (KnowsHandoff(r))'
    BY <1>1, <1>2, <2>1 DEF Knows, KnowsClaim, KnowsJobs, KnowsHandoff, Holding
  <2>4. (Knows(r))'
    BY <2>3 DEF Knows
  <2>5. ClaimsHandedOff'
    BY <1>2, <1>5 DEF SubmitInv, ClaimsHandedOff
  <2>6. QED
    BY <1>1, <1>4, <1>5, <2>1, <2>2, <2>4, <2>5
<1>6. ASSUME NEW outcome \in {"detached", "failed"}, EndsAs(i, outcome),
             outcome = "detached" => handoff.written
      PROVE  \E r \in Runs : Moves(i, r) /\ (Knows(r))' /\ r.gen = 0
  <2>1. PICK r \in Runs :
          /\ Moves(i, r) /\ r.at = outcome /\ r.gen = 0 /\ r.seen = 0
          /\ r.todo = Samples /\ r.known = Gone
    BY <1>6, IdleTyping DEF EndsAs, Ended, Ends
  <2>2. latest \in 0 .. MaxGenerations
    BY <1>1 DEF TypeOK
  <2>3. (KnowsClaim(r))' /\ (KnowsJobs(r))' /\ (KnowsHandoff(r))'
    BY <1>2, <1>6, <2>1, <2>2
       DEF KnowsClaim, KnowsJobs, KnowsHandoff, Holding, Gone
  <2>4. QED
    BY <2>1, <2>3 DEF Knows
<1>7. CASE /\ run[i].write = "finish"
           /\ claimState' = [claimState EXCEPT ![run[i].gen] = "submitted"]
           /\ EndsAs(i, "detached")
           /\ UNCHANGED lease
  <2>1. handoff.written
    BY <1>1, <1>7 DEF Knows, KnowsHandoff
  <2>2. ClaimsHandedOff'
    BY <1>2, <2>1 DEF ClaimsHandedOff
  <2>3. claimState' \in [Generations -> {"submitting", "submitted"}]
    BY <1>1, <1>7
  <2>4. QED
    BY <1>1, <1>4, <1>6, <1>7, <2>1, <2>2, <2>3
<1>8. CASE /\ run[i].write = "release"
           /\ lease' = [lease EXCEPT ![run[i].gen] = "lapsed"]
           /\ EndsAs(i, "failed")
           /\ UNCHANGED claimState
  <2>1. ClaimsHandedOff'
    BY <1>2, <1>8 DEF SubmitInv, ClaimsHandedOff
  <2>2. /\ lease' \in [Generations -> {"fresh", "lapsed", "revived"}]
        /\ \A g \in Generations : lease[g] # "fresh" => lease'[g] # "fresh"
    BY <1>1, <1>8
  <2>3. QED
    BY <1>1, <1>4, <1>6, <1>8, <2>1, <2>2
<1>9. QED
  BY <1>5, <1>7, <1>8 DEF PutClaim

\* Leases that run out and jobs that fail move no invocation.
LEMMA EnvironmentKeeps ==
    ASSUME SubmitInv,
           \/ \E g \in Generations : LeaseLapses(g) \/ LeaseOutrun(g)
           \/ \E s \in Samples : JobFails(s)
    PROVE  SubmitInv'
<1>1. /\ TypeOK /\ faults \in 0 .. MaxFaults
      /\ lease \in [Generations -> {"fresh", "lapsed", "revived"}]
      /\ made \in [Samples -> SUBSET Jobs]
      /\ failed \in [Samples -> SUBSET Jobs]
      /\ \A j \in Invocations : run[j] \in Runs /\ Knows(run[j])
  BY FieldsAre DEF SubmitInv, TypeOK
<1>. DEFINE Grows ==
       /\ UNCHANGED <<run, latest, late, made, claimState, record, handoff, passed>>
       /\ lease' \in [Generations -> {"fresh", "lapsed", "revived"}]
       /\ \A g \in Generations : lease[g] # "fresh" => lease'[g] # "fresh"
       /\ failed' \in [Samples -> SUBSET Jobs]
       /\ \A s \in Samples : failed[s] \subseteq failed'[s]
       /\ faults' \in 0 .. MaxFaults
<1>2. Grows
  <2>1. ASSUME NEW g \in Generations, LeaseLapses(g) PROVE Grows
    BY <1>1, <2>1 DEF LeaseLapses, jobVars
  <2>2. ASSUME NEW g \in Generations, LeaseOutrun(g) PROVE Grows
    BY <1>1, <2>2, FaultTyping DEF LeaseOutrun, jobVars
  <2>3. ASSUME NEW s \in Samples, JobFails(s) PROVE Grows
    BY <1>1, <2>3, FaultTyping DEF JobFails, claimVars, Standing
  <2>4. QED
    BY <2>1, <2>2, <2>3
<1>3. TypeOK'
  BY <1>1, <1>2 DEF TypeOK
<1>4. \A q \in Runs : Knows(q) => Knows(q)'
  BY <1>2, BucketGrows
<1>5. \A j \in Invocations : (Knows(run[j]))'
  <2>1. TAKE j \in Invocations
  <2>2. PICK q \in Runs : q = run[j] /\ Knows(q) /\ q = run'[j]
    BY <1>1, <1>2
  <2>3. Knows(q)'
    BY <1>4, <2>2
  <2>4. QED
    BY <2>2, <2>3
<1>6. OwnersDiffer' /\ JobsInv' /\ ClaimsHandedOff' /\ HandoffNamesJobs'
  BY <1>2 DEF SubmitInv, OwnersDiffer, JobsInv, ClaimsHandedOff, HandoffNamesJobs
<1>7. QED
  BY <1>2, <1>3, <1>5, <1>6, BucketGrows DEF SubmitInv

\* A submitted job, the first of its call or one of the call made again.
\* Superseded, the call is the submitter's last, and the listing that follows
\* stops it; otherwise no job of another claim stands for the sample.
LEMMA SubmitKeeps ==
    ASSUME SubmitInv, NEW i \in Invocations, SubmitJob(i)
    PROVE  SubmitInv'
<1>1. /\ TypeOK /\ OwnersDiffer /\ LatenessInv /\ JobsInv /\ OneClaimPerSample
      /\ run[i] \in Runs /\ Knows(run[i]) /\ run[i].at = "submit"
      /\ UNCHANGED <<latest, claimState, lease, record, failed, handoff, passed>>
      /\ made \in [Samples -> SUBSET Jobs] /\ late \in [Generations -> SUBSET Samples]
      /\ latest \in 0 .. MaxGenerations /\ faults \in 0 .. MaxFaults
      /\ \A j \in Invocations : run[j] \in Runs /\ Knows(run[j])
  BY FieldsAre DEF SubmitInv, TypeOK, SubmitJob, At, claimVars
<1>. DEFINE g == run[i].gen
            s == run[i].sid
            new == NewJob(s, g)
<1>2. /\ s \in Samples /\ g \in Generations /\ g <= latest /\ late[g] \subseteq {s}
      /\ g \in Nat /\ 1 <= g /\ g \in 0 .. MaxGenerations
  BY <1>1, FieldsAre, BoundsAre DEF Knows, KnowsClaim, Holding, Generations
<1>3. /\ made' = [made EXCEPT ![s] = @ \union {new}]
      /\ late' = IF g = latest THEN late ELSE [late EXCEPT ![g] = @ \union {s}]
      /\ new \in Jobs /\ new \in MaybeJob /\ ClaimOf(new) = g
      /\ new \in {g, Again(g)}
  BY <1>2, JobsAre DEF SubmitJob, NewJob
<1>. HIDE DEF new
<1>4. /\ made' \in [Samples -> SUBSET Jobs] /\ late' \in [Generations -> SUBSET Samples]
      /\ \A t \in Samples : made[t] \subseteq made'[t]
      /\ \A h \in Generations : late[h] # {} => late'[h] # {}
      /\ NoneLate' => NoneLate /\ g = latest
      /\ \A h \in Generations : h # g => late'[h] = late[h]
      /\ late'[g] \subseteq {s}
  BY <1>1, <1>2, <1>3 DEF NoneLate
<1>5. NoneLate' /\ g > 1 => Standing(s) \subseteq {g, Again(g)}
  BY <1>1, <1>4 DEF Knows, KnowsJobs
<1>6. LeasesLapsed' /\ ClaimsHandedOff'
  BY <1>1 DEF SubmitInv, LeasesLapsed, ClaimsHandedOff
<1>7. LatenessInv'
  <2>1. ASSUME NEW h \in Generations
        PROVE  /\ late'[h] # {} => h < latest
               /\ \A t, u \in late'[h] : t = u
    <3>1. CASE h = g
      BY <1>1, <1>2, <1>3, <1>4, <3>1 DEF LatenessInv
    <3>2. CASE h # g
      BY <1>1, <1>4, <3>2 DEF LatenessInv
    <3>3. QED
      BY <3>1, <3>2
  <2>2. QED
    BY <1>1, <2>1 DEF LatenessInv
<1>8. JobsInv' /\ HandoffNamesJobs'
  <2>1. ASSUME NEW t \in Samples, NEW j \in made'[t]
        PROVE  ClaimOf(j) <= latest
    BY <1>1, <1>2, <1>3, <2>1 DEF JobsInv
  <2>2. QED
    BY <1>1, <1>4, <2>1 DEF SubmitInv, JobsInv, HandoffNamesJobs
<1>9. OneClaimPerSample'
  <2>1. SUFFICES ASSUME NoneLate', NEW t \in Samples,
                        NEW j \in made'[t] \ failed[t], NEW k \in made'[t] \ failed[t]
                 PROVE  ClaimOf(j) = ClaimOf(k)
    BY <1>1 DEF OneClaimPerSample, NoneLate, Standing
  <2>2. CASE t # s
    BY <1>1, <1>3, <1>4, <2>1, <2>2 DEF OneClaimPerSample, NoneLate, Standing
  <2>3. CASE t = s
    <3>1. made'[s] = made[s] \union {new}
      BY <1>1, <1>2, <1>3
    <3>2. CASE g > 1
      <4>1. \A h \in made[s] \ failed[s] : ClaimOf(h) = g
        BY <1>2, <1>5, <2>1, <3>2, JobsAre DEF Standing
      <4>2. QED
        BY <1>3, <2>1, <2>3, <3>1, <4>1
    <3>3. CASE g = 1
      <4>1. \A h \in made[s] : ClaimOf(h) <= 1 /\ ClaimOf(h) \in Generations
        BY <1>1, <1>2, <1>4, <2>1, <3>3, JobsAre DEF JobsInv
      <4>2. \A h \in made[s] : ClaimOf(h) = 1
        BY <4>1 DEF Generations
      <4>3. QED
        BY <1>3, <2>1, <2>3, <3>1, <3>3, <4>2
    <3>4. QED
      BY <1>2, <3>2, <3>3
  <2>4. QED
    BY <2>2, <2>3
<1>10. ASSUME NEW j \in Invocations \ {i} PROVE (Knows(run[j]))'
  <2>1. PICK q \in Runs : q = run[j] /\ Knows(q) /\ q = run'[j]
    <3>1. run'[j] = run[j]
      BY <1>1 DEF SubmitJob, Moves, TypeOK
    <3>2. QED
      BY <1>1, <3>1
  <2>2. q.gen # 0 => q.gen # g
    BY <1>1, <1>2, <2>1 DEF OwnersDiffer
  <2>3. q.gen # 0 => q.gen \in Generations
    BY <2>1, BoundsAre DEF Runs
  <2>4. KnowsClaim(q)'
    BY <1>1, <1>4, <2>1, <2>2, <2>3 DEF Knows, KnowsClaim
  <2>5. KnowsJobs(q)'
    <3>1. q.sid \in Samples
      BY DEF Runs
    <3>2. ~(NoneLate' /\ q.gen = latest /\ q.gen > 1)
      BY <1>4, <2>2, BoundsAre DEF Runs
    <3>3. QED
      BY <1>1, <1>4, <2>1, <3>1, <3>2 DEF Knows, KnowsJobs
  <2>6. KnowsHandoff(q)'
    BY <1>1, <2>1 DEF Knows, KnowsHandoff
  <2>7. Knows(q)'
    BY <2>4, <2>5, <2>6 DEF Knows
  <2>8. QED
    BY <2>1, <2>7
<1>11. \E r \in Runs :
         /\ Moves(i, r) /\ (Knows(r))' /\ r.gen \in {0, g} /\ faults' \in 0 .. MaxFaults
  <2>1. CASE Moves(i, [run[i] EXCEPT !.job = new, !.at = "record"]) /\ UNCHANGED faults
    <3>1. PICK r \in Runs :
            /\ Moves(i, r) /\ r.at = "record" /\ r.gen = g /\ r.seen = run[i].seen
            /\ r.todo = run[i].todo /\ r.known = run[i].known /\ r.mine = run[i].mine
            /\ r.job = new /\ r.sid = s
      <4>. DEFINE q == [run[i] EXCEPT !.job = new, !.at = "record"]
      <4>1. /\ q \in Runs /\ q.at = "record" /\ q.gen = g /\ q.seen = run[i].seen
            /\ q.todo = run[i].todo /\ q.known = run[i].known /\ q.mine = run[i].mine
            /\ q.job = new /\ q.sid = s
        BY <1>1, <1>3 DEF Runs, Steps
      <4>. HIDE DEF g, s
      <4>2. Moves(i, q)
        BY <2>1
      <4>. HIDE DEF q
      <4>3. QED
        BY <4>1, <4>2
    <3>2. new \in made'[s]
      BY <1>1, <1>2, <1>3
    <3>3. (KnowsClaim(r))' /\ (KnowsHandoff(r))'
      BY <1>1, <1>2, <3>1 DEF Knows, KnowsClaim, KnowsHandoff, Holding
    <3>4. (KnowsJobs(r))'
      BY <1>1, <1>2, <1>4, <3>1, <3>2 DEF Knows, KnowsJobs
    <3>5. QED
      BY <1>1, <2>1, <3>1, <3>3, <3>4 DEF Knows
  <2>2. CASE Moves(i, Raised(i)) /\ Fault
    <3>1. PICK r \in Runs :
            /\ Moves(i, r) /\ Knows(r) /\ r.gen \in {0, g} /\ r.at \in {"failed", "claimList"}
      BY <2>2, RaisedKnows
    <3>2. KnowsClaim(r)'
      BY <1>1, <3>1 DEF Knows, KnowsClaim, Holding
    <3>3. KnowsJobs(r)' /\ KnowsHandoff(r)'
      BY <1>1, <1>4, <3>1 DEF Knows, KnowsJobs, KnowsHandoff
    <3>4. QED
      BY <1>1, <2>2, <3>1, <3>2, <3>3, FaultTyping DEF Knows
  <2>3. CASE UNCHANGED run /\ Fault
    <3>1. PICK r \in Runs : r = run[i]
      BY <1>1
    <3>2. Moves(i, r)
      BY <1>1, <2>3, <3>1 DEF Moves, TypeOK
    <3>3. KnowsClaim(r)' /\ KnowsHandoff(r)'
      BY <1>1, <1>2, <1>4, <3>1 DEF Knows, KnowsClaim, KnowsHandoff, Holding
    <3>4. KnowsJobs(r)'
      <4>1. NoneLate' /\ g > 1 => made'[s] \ failed[s] \subseteq {g, Again(g)}
        BY <1>1, <1>2, <1>3, <1>5 DEF Standing
      <4>2. r.sid = s /\ r.gen = g /\ r.at = "submit" /\ KnowsJobs(r)
        BY <1>1, <3>1 DEF Knows
      <4>. HIDE DEF g, s
      <4>3. QED
        BY <1>1, <1>4, <4>1, <4>2 DEF KnowsJobs, Standing
    <3>5. QED
      BY <1>1, <2>3, <3>1, <3>2, <3>3, <3>4, FaultTyping DEF Knows
  <2>4. QED
    BY <2>1, <2>2, <2>3 DEF SubmitJob, new
<1>12. TypeOK'
  BY <1>1, <1>4, <1>11, OneMoves DEF TypeOK
<1>13. OwnersDiffer'
  BY <1>1, <1>11, OwnersStay
<1>14. QED
  BY <1>6, <1>7, <1>8, <1>9, <1>10, <1>11, <1>12, <1>13, Recompose

-----------------------------------------------------------------------------
(* The invariant and the properties.                                       *)

\* Nothing holds a claim at first, and nothing is known.
LEMMA InitInv == Init => SubmitInv
<1>1. SUFFICES ASSUME Init PROVE SubmitInv
  OBVIOUS
<1>2. /\ Idle \in Runs /\ Idle.at = "idle" /\ Idle.gen = 0 /\ Idle.seen = 0
      /\ Idle.todo = Samples /\ Idle.known = Gone
  <2>1. (CHOOSE s \in Samples : TRUE) \in Samples
    BY BoundsAssumption, DetachedAssumption
  <2>2. Gone \in [Samples -> MaybeJob]
    BY JobsAre DEF Gone
  <2>3. QED
    BY <2>1, <2>2, BoundsAre, JobsAre DEF Idle, Runs
<1>3. TypeOK
  BY <1>1, <1>2, BoundsAre, JobsAre DEF Init, TypeOK, Gone
<1>4. ASSUME NEW j \in Invocations PROVE Knows(run[j])
  <2>1. run[j] = Idle /\ latest = 0
    BY <1>1 DEF Init
  <2>2. QED
    BY <1>2, <2>1 DEF Knows, KnowsClaim, KnowsJobs, KnowsHandoff, Holding, Gone
<1>5. OwnersDiffer
  BY <1>1, <1>2 DEF Init, OwnersDiffer
<1>6. LeasesLapsed /\ LatenessInv
  BY <1>1, BoundsAre DEF Init, LeasesLapsed, LatenessInv, Generations
<1>7. JobsInv /\ OneClaimPerSample /\ ClaimsHandedOff /\ HandoffNamesJobs
  BY <1>1 DEF Init, JobsInv, OneClaimPerSample, Standing, ClaimsHandedOff, HandoffNamesJobs, Gone
<1>8. QED
  BY <1>3, <1>4, <1>5, <1>6, <1>7 DEF SubmitInv

\* Every step keeps the invariant.
LEMMA NextKeeps == SubmitInv /\ [Next]_vars => SubmitInv'
<1>1. SUFFICES ASSUME SubmitInv, [Next]_vars PROVE SubmitInv'
  OBVIOUS
<1>2. ASSUME NEW i \in Invocations, Step(i) PROVE SubmitInv'
  BY <1>1, <1>2, ClaimingKeeps, CreateKeeps, LoopKeeps, PassKeeps, SubmitKeeps,
     RecordKeeps, HandoffKeeps, LeavingKeeps, PutKeeps DEF Step
<1>3. ASSUME NEW i \in Invocations, Start(i) \/ CallFails(i) \/ Crash(i) PROVE SubmitInv'
  BY <1>1, <1>3, ClaimingKeeps, LeavingKeeps
<1>4. CASE UNCHANGED vars
  <2>1. UNCHANGED bucketVars /\ UNCHANGED <<run, faults>>
    BY <1>4 DEF vars
  <2>2. TypeOK'
    BY <1>1, <2>1 DEF SubmitInv, TypeOK, bucketVars, claimVars, jobVars
  <2>3. ASSUME NEW j \in Invocations PROVE (Knows(run[j]))'
    <3>1. PICK q \in Runs : q = run[j] /\ Knows(q) /\ q = run'[j]
      BY <1>1, <2>1, FieldsAre
    <3>2. Knows(q)'
      BY <1>1, <2>1, <3>1, BucketStays
    <3>3. QED
      BY <3>1, <3>2
  <2>4. OwnersDiffer'
    BY <1>1, <2>1 DEF SubmitInv, OwnersDiffer
  <2>5. QED
    BY <1>1, <2>1, <2>2, <2>3, <2>4, BucketStays DEF SubmitInv
<1>5. QED
  BY <1>1, <1>2, <1>3, <1>4, EnvironmentKeeps DEF Next

\* The invariant holds in every state.
THEOREM SubmitInvariant == Spec => []SubmitInv
<1>1. Init => SubmitInv
  BY InitInv
<1>2. SubmitInv /\ [Next]_vars => SubmitInv'
  BY NextKeeps
<1>3. QED
  BY <1>1, <1>2, PTL DEF Spec

\* The variables keep their types, however many machines run the command.
THEOREM SubmitTyping == Spec => []TypeOK
<1>1. SubmitInv => TypeOK
  BY DEF SubmitInv
<1>2. QED
  BY <1>1, SubmitInvariant, PTL

\* One process owns a generation, and the claims before the latest have all
\* lapsed: the conditional create decides every race (claim_submission).
THEOREM SubmitLeaseIsRespected == Spec => []LeaseIsRespected
<1>1. SubmitInv => LeaseIsRespected
  BY DEF SubmitInv, LeaseIsRespected, OwnersDiffer, LeasesLapsed
<1>2. QED
  BY <1>1, SubmitInvariant, PTL

\* Crashes, failed calls, calls of SubmitJob that the SDK repeats, and takeovers make no
\* second claim submit a sample whose job stands, unless a superseded submitter was in the
\* middle of a submission (reuse_existing_job).
THEOREM SubmitOneClaimPerSample == Spec => []OneClaimPerSample
<1>1. SubmitInv => OneClaimPerSample
  BY DEF SubmitInv
<1>2. QED
  BY <1>1, SubmitInvariant, PTL

\* Nobody is told "submitted" before the handoff is durable (finish_claim).
THEOREM SubmitIsHandedOff == Spec => []SubmittedIsHandedOff
<1>1. SubmitInv => SubmittedIsHandedOff
  BY DEF SubmitInv, SubmittedIsHandedOff, ClaimsHandedOff, Knows, KnowsHandoff
<1>2. QED
  BY <1>1, SubmitInvariant, PTL

\* The handoff names a job of every sample that was not passed over
\* (_finish_detached_submit, detached_jobs).
THEOREM SubmitHandoffNamesJobs == Spec => []HandoffNamesJobs
<1>1. SubmitInv => HandoffNamesJobs
  BY DEF SubmitInv
<1>2. QED
  BY <1>1, SubmitInvariant, PTL

-----------------------------------------------------------------------------
(* The submission implements SubmissionStore: Shown is what the bucket and *)
(* Batch show of it.                                                       *)

Shown == Store!store

LapsedOnce == {g \in Generations : lease[g] # "fresh"}
Marked     == {g \in Generations : claimState[g] = "submitted"}

\* A claim is open while somebody holds it, and before it is taken.
ClaimsOpen ==
    /\ \A i \in Invocations : run[i].gen # 0 => claimState[run[i].gen] = "submitting"
    /\ \A g \in Generations : g > latest => claimState[g] = "submitting"

\* What the store shows changes with the variables behind it.
LEMMA ShownIs ==
    /\ UNCHANGED bucketVars => UNCHANGED Shown
    /\ UNCHANGED lease => UNCHANGED LapsedOnce
    /\ UNCHANGED claimState => UNCHANGED Marked
  BY DEF Shown, Store!store, Store!claims, Store!work, bucketVars, claimVars, jobVars,
         LapsedOnce, Marked

\* A change of one claim, of the lease or of its state, is a step of the store.
LEMMA ClaimSteps ==
    ASSUME NEW g \in 1 .. MaxGenerations, Store!Lapse(g) \/ Store!Submitted(g)
    PROVE  Store!Next
  BY DEF Store!Next, Store!Generations

\* The steps that leave the bucket and Batch alone.
LEMMA QuietSteps ==
    ASSUME NEW i \in Invocations,
           \/ Start(i) \/ Check(i) \/ ListClaims(i) \/ ReadClaim(i) \/ LoadRecords(i)
           \/ NextSample(i) \/ LoopEnds(i) \/ FindExistingJob(i) \/ ListBeforeWrite(i)
           \/ CallFails(i) \/ Crash(i)
    PROVE  UNCHANGED bucketVars
  BY DEF Start, Check, ListClaims, ReadClaim, LoadRecords, NextSample, LoopEnds,
         FindExistingJob, ListBeforeWrite, CallFails, Crash

\* A claim is taken over the one that was listed, whose lease has lapsed for good.
LEMMA CreateShows ==
    ASSUME SubmitInv, NEW i \in Invocations, CreateClaim(i)
    PROVE  Store!Claim \/ UNCHANGED Shown
<1>1. CASE latest' = latest
  BY <1>1, ShownIs DEF CreateClaim, bucketVars, claimVars
<1>2. CASE latest' # latest
  <2>1. /\ latest = run[i].seen /\ latest < MaxGenerations /\ latest' = latest + 1
        /\ UNCHANGED <<claimState, lease, jobVars, handoff, passed>>
    BY <1>2 DEF CreateClaim
  <2>2. latest = 0 \/ latest \in LapsedOnce
    BY <2>1, FieldsAre, BoundsAre
      DEF SubmitInv, Knows, KnowsClaim, CreateClaim, At, LapsedOnce
  <2>3. UNCHANGED <<LapsedOnce, Marked, record, made, failed, late>>
    BY <2>1, ShownIs DEF jobVars
  <2>4. QED
    BY <2>1, <2>2, <2>3 DEF Store!Claim, Store!work, LapsedOnce, Marked
<1>3. QED
  BY <1>1, <1>2

\* A job is submitted under an open claim: none of another claim stands, or it is late.
LEMMA SubmitShows ==
    ASSUME SubmitInv, ClaimsOpen, NEW i \in Invocations, SubmitJob(i)
    PROVE  \E s \in Samples, g \in Store!Generations : Store!Submit(s, g)
<1>. DEFINE s == run[i].sid
            g == run[i].gen
<1>1. /\ run[i] \in Runs /\ s \in Samples /\ g \in Generations /\ g \in 1 .. latest
      /\ late[g] \subseteq {s} /\ claimState[g] = "submitting"
      /\ latest \in 0 .. MaxGenerations /\ late \in [Generations -> SUBSET Samples]
      /\ made \in [Samples -> SUBSET Jobs]
      /\ g \in Store!Generations
  <2>1. /\ latest \in 0 .. MaxGenerations /\ late \in [Generations -> SUBSET Samples]
        /\ made \in [Samples -> SUBSET Jobs]
    BY DEF SubmitInv, TypeOK
  <2>2. run[i].at = "submit" /\ run[i] \in Runs /\ Knows(run[i]) /\ s \in Samples
    BY FieldsAre DEF SubmitJob, At
  <2>3. g # 0 /\ g \in 0 .. MaxGenerations /\ g <= latest /\ late[g] \subseteq {s}
    BY <2>2, FieldsAre DEF Knows, KnowsClaim, Holding
  <2>4. g \in Generations /\ g \in 1 .. latest
    BY <2>1, <2>3, BoundsAre
  <2>5. QED
    BY <2>1, <2>2, <2>3, <2>4 DEF ClaimsOpen, Generations, Store!Generations
<1>2. /\ late' = IF g = latest THEN late ELSE [late EXCEPT ![g] = @ \union {s}]
      /\ UNCHANGED <<latest, claimState, lease, record, failed, handoff, passed>>
      /\ Store!Again(g) = Again(g)
  BY DEF SubmitJob, claimVars, Again, Store!Again
<1>3. PICK new \in {g, Again(g)} :
        /\ new = Again(g) => g \in made[s]
        /\ made' = [made EXCEPT ![s] = @ \union {new}]
  <2>1. Again(g) # g
    BY <1>1, BoundsAre DEF Again, Generations
  <2>2. QED
    BY <2>1 DEF SubmitJob, NewJob
<1>4. UNCHANGED <<LapsedOnce, Marked>> /\ g \in (1 .. latest) \ Marked
  BY <1>1, <1>2, ShownIs DEF Marked
<1>5. CASE g = latest
  <2>1. \/ made[s] \ failed[s] \subseteq {g, Again(g)}
        \/ \E h \in Store!Generations : late[h] # {}
    <3>1. SUFFICES ASSUME NoneLate
                   PROVE  Standing(s) \subseteq {g, Again(g)}
      BY DEF NoneLate, Standing, Store!Generations, Generations
    <3>2. CASE g > 1
      BY <1>5, <3>1, <3>2, FieldsAre DEF Knows, KnowsJobs, SubmitJob, At
    <3>3. CASE ~(g > 1)
      <4>1. g = 1
        BY <1>1, <3>3
      <4>2. \A j \in made[s] : ClaimOf(j) <= 1 /\ ClaimOf(j) \in Generations
        BY <1>1, <1>5, <4>1, JobsAre DEF SubmitInv, JobsInv
      <4>3. \A j \in made[s] : j \in {1, Again(1)}
        BY <1>1, <4>2, BoundsAre DEF ClaimOf, Generations, Jobs, Again
      <4>4. QED
        BY <4>1, <4>3 DEF Standing
    <3>4. QED
      BY <3>2, <3>3
  <2>2. late' = late
    BY <1>2, <1>5
  <2>3. QED
    BY <1>1, <1>2, <1>3, <1>4, <1>5, <2>1, <2>2
      DEF Store!Submit, Store!claims, LapsedOnce, Marked
<1>6. CASE g # latest
  <2>1. late' = [late EXCEPT ![g] = {s}]
    BY <1>1, <1>2, <1>6
  <2>2. QED
    BY <1>1, <1>2, <1>3, <1>4, <1>6, <2>1
      DEF Store!Submit, Store!claims, LapsedOnce, Marked
<1>7. QED
  BY <1>5, <1>6

\* The other writes of an invocation.
LEMMA WritesShow ==
    ASSUME SubmitInv, ClaimsOpen, NEW i \in Invocations,
           PassOver(i) \/ RecordJob(i) \/ WriteHandoff(i) \/ PutClaim(i)
    PROVE  [Store!Next]_Shown
<1>0. /\ run[i] \in Runs /\ Knows(run[i]) /\ run[i].sid \in Samples
      /\ run[i].gen \in 0 .. MaxGenerations /\ run[i].todo \subseteq Samples
      /\ run[i].mine \in [Samples -> MaybeJob]
      /\ record \in [Samples -> MaybeJob]
      /\ made \in [Samples -> SUBSET Jobs]
      /\ lease \in [Generations -> {"fresh", "lapsed", "revived"}]
      /\ claimState \in [Generations -> {"submitting", "submitted"}]
  BY FieldsAre DEF SubmitInv, TypeOK
<1>1. CASE PassOver(i)
  <2>1. /\ \E skipped \in SUBSET Samples : passed' = passed \union skipped
        /\ UNCHANGED <<latest, claimState, lease, record, made, failed, late, handoff>>
    BY <1>0, <1>1 DEF PassOver, claimVars, jobVars
  <2>2. Store!PassOver
    BY <2>1 DEF Store!PassOver, Store!claims, Store!work
  <2>3. QED
    BY <2>2 DEF Store!Next
<1>2. CASE RecordJob(i)
  <2>. DEFINE s == run[i].sid
              g == run[i].job
  <2>1. /\ record' = FirstRecorded(s, g) /\ g \in made[s] /\ g \in Store!Jobs
        /\ UNCHANGED <<latest, claimState, lease, made, failed, late, handoff, passed>>
    BY <1>0, <1>2 DEF RecordJob, Knows, KnowsJobs, At, claimVars, Jobs, Store!Jobs
  <2>2. CASE record[s] = 0
    <3>1. Store!Record(s, g)
      BY <2>1, <2>2 DEF FirstRecorded, Store!Record, Store!claims, Store!work
    <3>2. QED
      BY <1>0, <2>1, <3>1 DEF Store!Next
  <2>3. CASE record[s] # 0
    BY <2>1, <2>3, ShownIs DEF FirstRecorded, bucketVars, claimVars, jobVars
  <2>4. QED
    BY <2>2, <2>3
<1>3. CASE WriteHandoff(i)
  <2>1. /\ handoff' = [written |-> TRUE, jobs |-> run[i].mine]
        /\ \A s \in Samples \ passed : run[i].mine[s] \in made[s]
        /\ UNCHANGED <<latest, claimState, lease, record, made, failed, late, passed>>
    BY <1>0, <1>3
      DEF WriteHandoff, Knows, KnowsJobs, KnowsHandoff, At, claimVars, jobVars
  <2>2. Store!HandOff
    BY <1>0, <2>1 DEF Store!HandOff, Store!claims, Store!work, Store!Jobs, Jobs, MaybeJob
  <2>3. QED
    BY <2>2 DEF Store!Next
<1>4. CASE PutClaim(i)
  <2>1. PICK g :
          /\ g = run[i].gen /\ g \in 1 .. latest /\ g \in Generations
          /\ g \in 1 .. MaxGenerations
          /\ claimState[g] = "submitting" /\ latest \in 0 .. MaxGenerations
    BY <1>0, <1>4, BoundsAre
      DEF PutClaim, At, Knows, KnowsClaim, Holding, ClaimsOpen, SubmitInv, TypeOK, Generations
  <2>2. UNCHANGED <<latest, record, made, failed, late, handoff, passed>>
    BY <1>4 DEF PutClaim, jobVars
  <2>3. CASE run[i].write = "renew" /\ lease' = Renewed(g) /\ UNCHANGED claimState
    <3>1. UNCHANGED LapsedOnce
      BY <1>0, <2>1, <2>3 DEF Renewed, LapsedOnce
    <3>2. UNCHANGED Shown
      BY <2>2, <2>3, <3>1, ShownIs
        DEF Shown, Store!store, Store!claims, Store!work, LapsedOnce, Marked
    <3>3. QED
      BY <3>2
  <2>4. CASE /\ run[i].write = "finish"
             /\ claimState' = [claimState EXCEPT ![g] = "submitted"] /\ UNCHANGED lease
    <3>1. Marked' = Marked \union {g}
      BY <1>0, <2>1, <2>4 DEF Marked
    <3>2. handoff.written
      BY <1>0, <1>4, <2>4 DEF Knows, KnowsHandoff, PutClaim, At
    <3>3. Store!Submitted(g)
      BY <2>1, <2>2, <2>4, <3>1, <3>2, ShownIs
        DEF Store!Submitted, Store!work, LapsedOnce, Marked
    <3>4. QED
      BY <2>1, <3>3, ClaimSteps
  <2>5. CASE /\ run[i].write = "release"
             /\ lease' = [lease EXCEPT ![g] = "lapsed"] /\ UNCHANGED claimState
    <3>1. LapsedOnce' = LapsedOnce \union {g}
      BY <1>0, <2>1, <2>5 DEF LapsedOnce
    <3>2. g \in (1 .. latest) \ Marked
      BY <2>1 DEF Marked
    <3>3. Store!Lapse(g)
      BY <2>1, <2>2, <2>5, <3>1, <3>2, ShownIs
        DEF Store!Lapse, Store!work, LapsedOnce, Marked
    <3>4. QED
      BY <2>1, <3>3, ClaimSteps
  <2>6. QED
    BY <1>4, <2>1, <2>3, <2>4, <2>5 DEF PutClaim
<1>5. QED
  BY <1>1, <1>2, <1>3, <1>4

\* The clock and the jobs.
LEMMA EnvironmentShows ==
    ASSUME SubmitInv,
           \/ \E g \in Generations : LeaseLapses(g) \/ LeaseOutrun(g)
           \/ \E s \in Samples : JobFails(s)
    PROVE  Store!Next
<1>0. /\ latest \in 0 .. MaxGenerations /\ MaxGenerations \in Nat
      /\ made \in [Samples -> SUBSET Jobs]
      /\ lease \in [Generations -> {"fresh", "lapsed", "revived"}]
  BY BoundsAre DEF SubmitInv, TypeOK
<1>1. ASSUME NEW g \in Generations, LeaseLapses(g) \/ LeaseOutrun(g)
      PROVE  Store!Next
  <2>1. /\ g <= latest /\ claimState[g] = "submitting"
        /\ lease' = [lease EXCEPT ![g] = "lapsed"]
        /\ UNCHANGED <<latest, claimState, record, made, failed, late, handoff, passed>>
    BY <1>1 DEF LeaseLapses, LeaseOutrun, jobVars
  <2>2. LapsedOnce' = LapsedOnce \union {g}
    BY <1>0, <2>1 DEF LapsedOnce
  <2>3. g \in (1 .. latest) \ Marked /\ g \in 1 .. MaxGenerations
    BY <1>0, <2>1 DEF Marked, Generations
  <2>4. Store!Lapse(g)
    BY <2>1, <2>2, <2>3, ShownIs
      DEF Store!Lapse, Store!work, LapsedOnce, Marked
  <2>5. QED
    BY <2>3, <2>4, ClaimSteps
<1>2. ASSUME NEW s \in Samples, JobFails(s)
      PROVE  Store!Next
  <2>1. PICK g \in Standing(s) : failed' = [failed EXCEPT ![s] = @ \union {g}]
    BY <1>2 DEF JobFails
  <2>2. g \in made[s] /\ g \in Store!Jobs
    BY <1>0, <2>1 DEF Standing, Jobs, Store!Jobs
  <2>3. UNCHANGED <<latest, claimState, lease, record, made, late, handoff, passed>>
    BY <1>2 DEF JobFails, claimVars
  <2>4. Store!Fail(s, g)
    BY <2>1, <2>2, <2>3 DEF Store!Fail, Store!claims
  <2>5. QED
    BY <2>2, <2>4 DEF Store!Next
<1>3. QED
  BY <1>1, <1>2

\* Every step of the submission is one of the store, or shows nothing.
LEMMA StepShows == SubmitInv /\ ClaimsOpen /\ [Next]_vars => [Store!Next]_Shown
<1>. SUFFICES ASSUME SubmitInv, ClaimsOpen, [Next]_vars
              PROVE  [Store!Next]_Shown
  OBVIOUS
<1>1. ASSUME NEW i \in Invocations, Start(i) \/ Step(i) \/ CallFails(i) \/ Crash(i)
      PROVE  [Store!Next]_Shown
  <2>1. CASE CreateClaim(i)
    BY <2>1, CreateShows DEF Store!Next
  <2>2. CASE SubmitJob(i)
    BY <2>2, SubmitShows DEF Store!Next
  <2>3. CASE ~CreateClaim(i) /\ ~SubmitJob(i)
    BY <1>1, <2>3, WritesShow, QuietSteps, ShownIs DEF Step
  <2>4. QED
    BY <2>1, <2>2, <2>3
<1>2. CASE UNCHANGED vars
  BY <1>2, ShownIs DEF vars
<1>3. QED
  BY <1>1, <1>2, EnvironmentShows DEF Next

\* An invocation keeps the claim it holds or lets go of it, but for the one that creates it.
LEMMA HoldersStay ==
    ASSUME SubmitInv, NEW i \in Invocations, ~CreateClaim(i),
           Start(i) \/ Step(i) \/ CallFails(i) \/ Crash(i)
    PROVE  \A j \in Invocations : run'[j].gen \in {0, run[j].gen}
<1>0. run \in [Invocations -> Runs] /\ run[i] \in Runs
  BY DEF SubmitInv, TypeOK
<1>1. ASSUME NEW r, Moves(i, r), r.gen \in {0, run[i].gen}
      PROVE  \A j \in Invocations : run'[j].gen \in {0, run[j].gen}
  BY <1>0, <1>1 DEF Moves
<1>2. ASSUME NEW outcome \in Ends, EndsAs(i, outcome)
      PROVE  \A j \in Invocations : run'[j].gen \in {0, run[j].gen}
  BY <1>1, <1>2, IdleTyping DEF EndsAs, Ended
<1>3. ASSUME NEW place \in Steps, Goes(i, place)
      PROVE  \A j \in Invocations : run'[j].gen \in {0, run[j].gen}
  BY <1>0, <1>1, <1>3, GoesTo DEF Goes
<1>4. CASE Start(i)
  BY <1>1, <1>4, IdleTyping DEF Start
<1>5. CASE Check(i) \/ ReadClaim(i) \/ LoopEnds(i)
  BY <1>2, <1>3, <1>5, PlacesAre DEF Check, ReadClaim, LoopEnds, Verdict, Ends
<1>6. CASE ListClaims(i) \/ LoadRecords(i) \/ RecordJob(i) \/ WriteHandoff(i)
  BY <1>0, <1>1, <1>6 DEF ListClaims, LoadRecords, RecordJob, WriteHandoff, Runs
<1>7. CASE NextSample(i)
  <2>1. PICK s \in run[i].todo :
          Moves(i, IF run[i].known[s] # 0 THEN Adopts(run[i], s)
                   ELSE [run[i] EXCEPT !.sid = s,
                            !.at = IF Resumed(run[i].gen) THEN "look" ELSE "submit"])
    BY <1>7 DEF NextSample
  <2>2. CASE run[i].known[s] # 0
    BY <1>0, <1>1, <2>1, <2>2 DEF Adopts, Runs
  <2>3. CASE ~(run[i].known[s] # 0)
    BY <1>0, <1>1, <2>1, <2>3 DEF Runs
  <2>4. QED
    BY <2>2, <2>3
<1>8. CASE PassOver(i)
  BY <1>0, <1>1, <1>8 DEF PassOver, Runs
<1>9. CASE FindExistingJob(i)
  BY <1>0, <1>1, <1>3, <1>9, PlacesAre DEF FindExistingJob, Runs
<1>10. CASE SubmitJob(i)
  BY <1>0, <1>1, <1>10, RaisedKnows DEF SubmitJob, Runs
<1>11. CASE ListBeforeWrite(i)
  BY <1>1, <1>2, <1>3, <1>11, RaisedKnows, PlacesAre DEF ListBeforeWrite, Ends
<1>12. CASE PutClaim(i)
  BY <1>2, <1>3, <1>12, PlacesAre DEF PutClaim, Ends
<1>13. CASE CallFails(i) \/ Crash(i)
  BY <1>1, <1>2, <1>13, RaisedKnows DEF CallFails, Crash, Ends
<1>14. QED
  BY <1>4, <1>5, <1>6, <1>7, <1>8, <1>9, <1>10, <1>11, <1>12, <1>13 DEF Step

\* The steps that take no claim and mark none.
LEMMA ClaimsUntouched ==
    ASSUME NEW i \in Invocations, ~CreateClaim(i), ~PutClaim(i),
           Start(i) \/ Step(i) \/ CallFails(i) \/ Crash(i)
    PROVE  UNCHANGED <<latest, claimState>>
<1>1. UNCHANGED bucketVars \/ PassOver(i) \/ SubmitJob(i) \/ RecordJob(i) \/ WriteHandoff(i)
  BY QuietSteps DEF Step
<1>2. QED
  BY <1>1 DEF bucketVars, claimVars, PassOver, SubmitJob, RecordJob, WriteHandoff

\* A claim is marked by the one that holds it, which then lets go of it.
LEMMA ClaimsStayOpen == SubmitInv /\ ClaimsOpen /\ [Next]_vars => ClaimsOpen'
<1>. SUFFICES ASSUME SubmitInv, ClaimsOpen, [Next]_vars
              PROVE  ClaimsOpen'
  OBVIOUS
<1>0. /\ run \in [Invocations -> Runs] /\ latest \in 0 .. MaxGenerations
      /\ claimState \in [Generations -> {"submitting", "submitted"}]
      /\ \A i \in Invocations : run[i].gen \in 0 .. MaxGenerations /\ run[i].gen <= latest
  BY FieldsAre DEF SubmitInv, TypeOK, Knows, KnowsClaim
<1>1. CASE /\ UNCHANGED <<latest, claimState>>
           /\ \A j \in Invocations : run'[j].gen \in {0, run[j].gen}
  BY <1>1 DEF ClaimsOpen
<1>2. ASSUME NEW i \in Invocations, CreateClaim(i)
      PROVE  ClaimsOpen'
  <2>1. UNCHANGED claimState /\ latest' \in {latest, latest + 1}
    BY <1>2 DEF CreateClaim
  <2>2. \A j \in Invocations :
          \/ run'[j].gen \in {0, run[j].gen}
          \/ run'[j].gen = latest + 1 /\ latest < MaxGenerations
    <3>1. CASE \E outcome \in Ends : EndsAs(i, outcome)
      BY <1>0, <3>1, IdleTyping DEF EndsAs, Ended, Moves
    <3>2. CASE /\ Moves(i, [run[i] EXCEPT !.seen = 0, !.gen = latest + 1, !.at = "load"])
               /\ latest < MaxGenerations
      BY <1>0, <3>2 DEF Moves, Runs
    <3>3. QED
      BY <1>2, <3>1, <3>2 DEF CreateClaim, Ends
  <2>3. latest + 1 \in Generations \/ ~(latest < MaxGenerations)
    BY <1>0, BoundsAre
  <2>4. ASSUME NEW j \in Invocations, run'[j].gen # 0
        PROVE  claimState'[run'[j].gen] = "submitting"
    BY <1>0, <2>1, <2>2, <2>3, <2>4 DEF ClaimsOpen
  <2>5. ASSUME NEW g \in Generations, g > latest'
        PROVE  claimState'[g] = "submitting"
    BY <1>0, <2>1, <2>5, BoundsAre DEF ClaimsOpen
  <2>6. QED
    BY <2>4, <2>5 DEF ClaimsOpen
<1>3. ASSUME NEW i \in Invocations, PutClaim(i)
      PROVE  ClaimsOpen'
  <2>1. /\ latest' = latest /\ ~CreateClaim(i)
        /\ \/ UNCHANGED claimState
           \/ /\ claimState' = [claimState EXCEPT ![run[i].gen] = "submitted"]
              /\ EndsAs(i, "detached")
    BY <1>3 DEF PutClaim, CreateClaim, At
  <2>2. \A j \in Invocations : run'[j].gen \in {0, run[j].gen}
    BY <1>3, <2>1, HoldersStay DEF Step
  <2>3. CASE claimState' = claimState
    BY <1>1, <2>1, <2>2, <2>3
  <2>4. CASE /\ claimState' = [claimState EXCEPT ![run[i].gen] = "submitted"]
             /\ EndsAs(i, "detached")
    <3>1. /\ run'[i].gen = 0
          /\ \A j \in Invocations : j # i => run'[j] = run[j]
      BY <1>0, <2>4, IdleTyping DEF EndsAs, Ended, Moves, Ends
    <3>2. \A j \in Invocations : run'[j].gen # 0 => run'[j].gen # run[i].gen
      BY <3>1 DEF SubmitInv, OwnersDiffer
    <3>3. \A g \in Generations : g # run[i].gen => claimState'[g] = claimState[g]
      BY <1>0, <2>4
    <3>4. ASSUME NEW j \in Invocations, run'[j].gen # 0
          PROVE  claimState'[run'[j].gen] = "submitting"
      <4>1. run'[j].gen = run[j].gen /\ run[j].gen \in Generations
        BY <1>0, <2>2, <3>4, BoundsAre
      <4>2. QED
        BY <3>2, <3>3, <3>4, <4>1 DEF ClaimsOpen
    <3>5. ASSUME NEW g \in Generations, g > latest'
          PROVE  claimState'[g] = "submitting"
      <4>1. g # run[i].gen
        BY <1>0, <2>1, <3>5, BoundsAre
      <4>2. QED
        BY <2>1, <3>3, <3>5, <4>1 DEF ClaimsOpen
    <3>6. QED
      BY <3>4, <3>5 DEF ClaimsOpen
  <2>5. QED
    BY <2>1, <2>3, <2>4
<1>4. ASSUME NEW i \in Invocations, Start(i) \/ Step(i) \/ CallFails(i) \/ Crash(i)
      PROVE  ClaimsOpen'
  BY <1>1, <1>2, <1>3, <1>4, HoldersStay, ClaimsUntouched
<1>5. CASE \/ \E g \in Generations : LeaseLapses(g) \/ LeaseOutrun(g)
           \/ \E s \in Samples : JobFails(s)
  <2>1. UNCHANGED <<run, latest, claimState>>
    BY <1>5 DEF LeaseLapses, LeaseOutrun, JobFails, claimVars
  <2>2. QED
    BY <1>1, <2>1
<1>6. CASE UNCHANGED vars
  BY <1>1, <1>6 DEF vars, bucketVars, claimVars
<1>7. QED
  BY <1>4, <1>5, <1>6 DEF Next

\* Every behaviour of the submission, with its crashes, failed calls and lost answers, is one
\* of the store: whatever an invocation decides on an old listing, the bucket and Batch change
\* as if it had been decided on their state at that moment.
THEOREM SubmitImplementsStore == Spec => ImplementsStore
<1>1. Init => Store!Init /\ ClaimsOpen
  <2>. SUFFICES ASSUME Init
                PROVE  Store!Init /\ ClaimsOpen
    OBVIOUS
  <2>1. LapsedOnce = {} /\ Marked = {}
    BY DEF Init, LapsedOnce, Marked
  <2>2. Store!Init
    BY <2>1 DEF Init, Gone, Store!Init, Store!Generations, Generations, LapsedOnce, Marked
  <2>3. ClaimsOpen
    BY DEF Init, Idle, ClaimsOpen
  <2>4. QED
    BY <2>2, <2>3
<1>2. QED
  BY <1>1, StepShows, ClaimsStayOpen, SubmitInvariant, PTL
    DEF Spec, ImplementsStore, Store!Spec, Shown

-----------------------------------------------------------------------------
(* The attempts and the downloads.                                         *)

\* The variables but for the types of what only the history names.
ResultsShape ==
    /\ job \in [Samples -> [at : {"queued"} \union Working \union Over, attempt : Nat]]
    /\ {remote, local} \subseteq [Samples -> Dirs]
    /\ reader \in [at : Places, partial : BOOLEAN, overlay : SUBSET Samples,
                   complete : SUBSET Samples, failed : SUBSET Samples,
                   todo : SUBSET Samples, fetched : {reader.fetched}]
    /\ table \in [written : BOOLEAN, good : SUBSET Samples, failed : SUBSET Samples]

\* What an attempt has left in the bucket at each place.
PublishInv ==
    \A s \in Samples :
        /\ job[s].at \in {"osw", "marker"} => remote[s].sql
        /\ job[s].at \in {"exit", "SUCCEEDED"} => remote[s].complete
        /\ remote[s].complete => remote[s].sql

\* What was copied from the bucket or listed is still true of it.
CopiesInv ==
    /\ reader.complete \subseteq Complete /\ reader.complete \intersect reader.failed = {}
    /\ table.good \subseteq Complete
    /\ \A s \in Samples : local[s].complete => local[s].sql /\ remote[s].complete

\* How far a download has got, from its look at the bucket on.
Looked == {"fetch", "files", "aggregate", "failures", "returned"}

ReadingInv ==
    /\ reader.at \in Looked => /\ \A s \in Samples : local[s].complete => s \in reader.complete
                               /\ \A s \in Told \ reader.todo : IsLocal(s)
    /\ reader.at \in {"aggregate", "failures", "returned"} => reader.todo = {}
    /\ reader.at \in {"idle", "look", "returned"} => reader.fetched = {}
    /\ reader.at \in {"failures", "returned"} => table.written
    /\ reader.at = "failures" =>
         \A s \in Samples : s \in table.good <=>
                            s \in reader.complete /\ ~Failure(s) /\ s \notin lost

\* A sample whose state is on the disk is listed by it, except for those that the
\* running download has fetched and those that the last tables were written without.
UnderWay(s) == s \in untold \/ s \in reader.fetched \/ (Reads("files") /\ s = InHand)

Listed(s) ==
    /\ table.written
    /\ s \in table.failed <=> Failure(s)
    /\ s \in table.good => ~Failure(s)
    /\ local[s].complete /\ ~Failure(s) /\ s \notin lost => s \in table.good

RowsInv ==
    \A s \in Samples :
        (local[s].complete \/ local[s].marker # "none") /\ ~UnderWay(s) => Listed(s)

ResultsInv == ResultsShape /\ PublishInv /\ CopiesInv /\ ReadingInv /\ RowsInv

\* The sample in hand is the same as long as those to do are.
LEMMA HandStays == reader'.todo = reader.todo => InHand' = InHand
BY DEF InHand

\* Attempts never take back a success, and the download does not see them move.
LEMMA PublishKeeps ==
    ASSUME ResultsShape, CopiesInv, ReadingInv, RowsInv,
           job' \in [Samples -> [at : {"queued"} \union Working \union Over, attempt : Nat]],
           remote' \in [Samples -> Dirs], UNCHANGED <<diskVars, reader>>,
           \A s \in Samples : remote[s].complete => remote'[s].complete
    PROVE  ResultsShape' /\ CopiesInv' /\ ReadingInv' /\ RowsInv'
<1>. USE DEF diskVars
<1>1. ResultsShape'
  BY DEF ResultsShape
<1>2. CopiesInv'
  BY DEF CopiesInv, Complete
<1>3. ReadingInv'
  BY DEF ReadingInv, Told, IsLocal, Failure
<1>4. RowsInv'
  BY HandStays DEF RowsInv, UnderWay, Listed, Failure, Reads
<1>5. QED BY <1>1, <1>2, <1>3, <1>4

JobRecords == [at : {"queued"} \union Working \union Over, attempt : Nat]

\* A job that an attempt has moved, and a directory after each of its uploads.
LEMMA JobMoves ==
    ASSUME NEW s \in Samples, job[s] \in JobRecords,
           NEW place \in {"queued"} \union Working \union Over, JobGoes(s, place)
    PROVE  \E rec \in JobRecords : rec.at = place /\ job' = [job EXCEPT ![s] = rec]
<1>1. /\ [job[s] EXCEPT !.at = place] \in JobRecords
      /\ [job[s] EXCEPT !.at = place].at = place
  BY DEF JobRecords
<1>2. job' = [job EXCEPT ![s] = [job[s] EXCEPT !.at = place]]
  BY DEF JobGoes
<1>3. QED BY <1>1, <1>2

LEMMA DirAfter ==
    ASSUME NEW dir \in Dirs
    PROVE  /\ \A marker \in Markers :
                [dir EXCEPT !.marker = marker] \in
                    {d \in Dirs : d.complete = dir.complete /\ d.sql = dir.sql}
           /\ \A bad \in BOOLEAN :
                [dir EXCEPT !.bad = bad] \in
                    {d \in Dirs : d.complete = dir.complete /\ d.sql = dir.sql}
           /\ [dir EXCEPT !.sql = TRUE] \in
                {d \in Dirs : d.complete = dir.complete /\ d.sql}
           /\ [dir EXCEPT !.complete = TRUE] \in
                {d \in Dirs : d.complete /\ d.sql = dir.sql}
BY DEF Dirs

\* What the attempts of one sample have left behind, whatever they are at.
Fits(rec, dir) ==
    /\ rec.at \in {"osw", "marker"} => dir.sql
    /\ rec.at \in {"exit", "SUCCEEDED"} => dir.complete
    /\ dir.complete => dir.sql

\* Each step of an attempt, and its death, replaces the job's record and its directory by
\* ones that fit together, and takes no success back.
LEMMA AttemptMoves ==
    ASSUME NEW s \in Samples, job[s] \in JobRecords, remote \in [Samples -> Dirs],
           Fits(job[s], remote[s]), Attempt(s) \/ Killed(s)
    PROVE  /\ UNCHANGED <<diskVars, reader>>
           /\ \E rec \in JobRecords, dir \in Dirs :
                /\ job' = [job EXCEPT ![s] = rec] /\ remote' = [remote EXCEPT ![s] = dir]
                /\ Fits(rec, dir) /\ (remote[s].complete => dir.complete)
<1>. DEFINE Goal == \E rec \in JobRecords, dir \in Dirs :
                      /\ job' = [job EXCEPT ![s] = rec] /\ remote' = [remote EXCEPT ![s] = dir]
                      /\ Fits(rec, dir) /\ (remote[s].complete => dir.complete)
<1>. DEFINE Like == {d \in Dirs : d.complete = remote[s].complete /\ d.sql = remote[s].sql}
<1>1. remote[s] \in Dirs /\ remote = [remote EXCEPT ![s] = remote[s]]
  OBVIOUS
<1>11. remote[s] \in Like /\ Diagnosed(s) \subseteq Like
  <2>1. \A bad \in BOOLEAN : [remote[s] EXCEPT !.bad = bad] \in Like
    BY <1>1, DirAfter
  <2>2. QED BY <1>1, <2>1 DEF Diagnosed
<1>2. CASE StartAttempt(s)
  <2>1. PICK rec \in JobRecords : rec.at = "running" /\ job' = [job EXCEPT ![s] = rec]
    <3>1. [at |-> "running", attempt |-> job[s].attempt + 1] \in JobRecords
      BY DEF JobRecords, Working
    <3>2. job' = [job EXCEPT ![s] = [at |-> "running", attempt |-> job[s].attempt + 1]]
      BY <1>2 DEF StartAttempt
    <3>3. QED BY <3>1, <3>2
  <2>2. ASSUME remote' = remote
        PROVE  Goal
    BY <1>1, <2>1, <2>2 DEF Fits
  <2>3. ASSUME Leaves(s, [remote[s] EXCEPT !.marker = "retrying"])
        PROVE  Goal
    <3>1. [remote[s] EXCEPT !.marker = "retrying"] \in
             {d \in Dirs : d.complete = remote[s].complete /\ d.sql = remote[s].sql}
      BY <1>1, DirAfter DEF Markers
    <3>2. QED BY <2>1, <2>3, <3>1 DEF Fits, Leaves
  <2>4. UNCHANGED <<diskVars, reader>> /\ Goal
    BY <1>2, <2>2, <2>3 DEF StartAttempt
  <2>5. QED BY <2>4
<1>3. CASE Raises(s)
  <2>1. PICK rec \in JobRecords : rec.at = "raised" /\ job' = [job EXCEPT ![s] = rec]
    BY <1>3, JobMoves DEF Raises, Working
  <2>2. UNCHANGED <<remote, diskVars, reader>>
    BY <1>3 DEF Raises
  <2>3. QED BY <1>1, <2>1, <2>2 DEF Fits
<1>4. CASE UploadSql(s)
  <2>1. PICK rec \in JobRecords : rec.at = "osw" /\ job' = [job EXCEPT ![s] = rec]
    BY <1>4, JobMoves DEF UploadSql, Working
  <2>2. /\ remote' = [remote EXCEPT ![s] = [remote[s] EXCEPT !.sql = TRUE]]
        /\ UNCHANGED <<diskVars, reader>>
    BY <1>4 DEF UploadSql, Leaves
  <2>3. [remote[s] EXCEPT !.sql = TRUE] \in {d \in Dirs : d.complete = remote[s].complete /\ d.sql}
    BY <1>1, DirAfter
  <2>4. QED BY <2>1, <2>2, <2>3 DEF Fits
<1>5. CASE UploadOsw(s)
  <2>1. PICK rec \in JobRecords : rec.at = "marker" /\ job' = [job EXCEPT ![s] = rec]
    BY <1>5, JobMoves DEF UploadOsw, Working
  <2>2. PICK bad \in BOOLEAN : remote' = [remote EXCEPT ![s] = [remote[s] EXCEPT !.bad = bad]]
    BY <1>5 DEF UploadOsw, Leaves
  <2>3. [remote[s] EXCEPT !.bad = bad] \in
           {d \in Dirs : d.complete = remote[s].complete /\ d.sql = remote[s].sql}
    BY <1>1, DirAfter
  <2>4. job[s].at = "osw" /\ UNCHANGED <<diskVars, reader>>
    BY <1>5 DEF UploadOsw, JobAt
  <2>5. QED BY <2>1, <2>2, <2>3, <2>4 DEF Fits
<1>6. CASE UploadMarker(s)
  <2>1. PICK rec \in JobRecords : rec.at = "exit" /\ job' = [job EXCEPT ![s] = rec]
    BY <1>6, JobMoves DEF UploadMarker, Working
  <2>2. /\ remote' = [remote EXCEPT ![s] = [remote[s] EXCEPT !.complete = TRUE]]
        /\ job[s].at = "marker" /\ UNCHANGED <<diskVars, reader>>
    BY <1>6 DEF UploadMarker, Leaves, JobAt
  <2>3. [remote[s] EXCEPT !.complete = TRUE] \in
           {d \in Dirs : d.complete /\ d.sql = remote[s].sql}
    BY <1>1, DirAfter
  <2>4. QED BY <2>1, <2>2, <2>3 DEF Fits
<1>7. CASE UploadFailedMarker(s)
  <2>1. PICK place \in {"queued", "FAILED"} : JobGoes(s, place)
    BY <1>7 DEF UploadFailedMarker, AttemptOver
  <2>2. PICK rec \in JobRecords : rec.at = place /\ job' = [job EXCEPT ![s] = rec]
    BY <2>1, JobMoves DEF Over
  <2>3. /\ UNCHANGED <<diskVars, reader>>
        /\ \E dir \in Diagnosed(s) : Leaves(s, [dir EXCEPT !.marker = "failed"])
    BY <1>7 DEF UploadFailedMarker
  <2>4. PICK dir \in Like : remote' = [remote EXCEPT ![s] = [dir EXCEPT !.marker = "failed"]]
    BY <1>11, <2>3 DEF Leaves
  <2>5. [dir EXCEPT !.marker = "failed"] \in Like
    BY <2>4, DirAfter DEF Markers
  <2>6. QED BY <2>2, <2>3, <2>4, <2>5 DEF Fits
<1>8. CASE Exit(s)
  <2>1. PICK rec \in JobRecords : rec.at = "SUCCEEDED" /\ job' = [job EXCEPT ![s] = rec]
    BY <1>8, JobMoves DEF Exit, Over
  <2>2. job[s].at = "exit" /\ UNCHANGED <<remote, diskVars, reader>>
    BY <1>8 DEF Exit, JobAt
  <2>3. QED BY <1>1, <2>1, <2>2 DEF Fits
<1>9. CASE Killed(s)
  <2>1. PICK place \in {"queued", "FAILED"} : JobGoes(s, place)
    BY <1>9 DEF Killed, AttemptOver
  <2>2. PICK rec \in JobRecords : rec.at = place /\ job' = [job EXCEPT ![s] = rec]
    BY <2>1, JobMoves DEF Over
  <2>3. /\ UNCHANGED <<diskVars, reader>>
        /\ \E dir \in Like : remote' = [remote EXCEPT ![s] = dir]
    BY <1>1, <1>9, <1>11 DEF Killed, Leaves
  <2>4. QED BY <2>2, <2>3 DEF Fits
<1>10. QED BY <1>2, <1>3, <1>4, <1>5, <1>6, <1>7, <1>8, <1>9 DEF Attempt

\* The steps of an attempt, and its death.
LEMMA AttemptKeeps ==
    ASSUME ResultsInv, NEW s \in Samples, Attempt(s) \/ Killed(s)
    PROVE  ResultsInv'
<1>1. /\ job \in [Samples -> JobRecords] /\ remote \in [Samples -> Dirs]
      /\ \A q \in Samples : Fits(job[q], remote[q])
  BY DEF ResultsInv, ResultsShape, JobRecords, PublishInv, Fits
<1>2. job[s] \in JobRecords /\ Fits(job[s], remote[s])
  BY <1>1
<1>3. PICK rec \in JobRecords, dir \in Dirs :
        /\ job' = [job EXCEPT ![s] = rec] /\ remote' = [remote EXCEPT ![s] = dir]
        /\ Fits(rec, dir) /\ (remote[s].complete => dir.complete)
  BY <1>1, <1>2, AttemptMoves
<1>4. UNCHANGED <<diskVars, reader>>
  BY <1>1, <1>2, AttemptMoves
<1>5. /\ job' \in [Samples -> JobRecords] /\ remote' \in [Samples -> Dirs]
      /\ job'[s] = rec /\ remote'[s] = dir
      /\ \A q \in Samples : q # s => job'[q] = job[q] /\ remote'[q] = remote[q]
  BY <1>1, <1>3
<1>6. \A q \in Samples : Fits(job'[q], remote'[q])
  BY <1>1, <1>3, <1>5
<1>7. PublishInv'
  BY <1>6 DEF PublishInv, Fits
<1>8. \A q \in Samples : remote[q].complete => remote'[q].complete
  BY <1>3, <1>5
<1>9. job' \in [Samples -> [at : {"queued"} \union Working \union Over, attempt : Nat]]
  BY <1>5 DEF JobRecords
<1>10. QED BY <1>4, <1>5, <1>7, <1>8, <1>9, PublishKeeps DEF ResultsInv

\* A download starts, looks at the bucket, and may be cut off.
LEMMA LookKeeps ==
    ASSUME ResultsInv, Launch \/ Look \/ CutOff
    PROVE  ResultsInv'
<1>1. /\ ResultsShape /\ PublishInv /\ CopiesInv /\ ReadingInv /\ RowsInv
      /\ remote \in [Samples -> Dirs] /\ local \in [Samples -> Dirs]
  BY DEF ResultsInv, ResultsShape
<1>2. UNCHANGED <<attemptVars, local, table, lost>>
  BY DEF Launch, Look, CutOff, diskVars
<1>3. PublishInv'
  BY <1>1, <1>2 DEF PublishInv, attemptVars
<1>4. CASE Launch \/ (Look /\ reader'.at = "idle") \/ CutOff
  <2>1. /\ reader' \in [at : {"idle", "look"}, partial : BOOLEAN, overlay : SUBSET Samples,
                        complete : {{}}, failed : {{}}, todo : {{}}, fetched : {{}}]
    <3>1. CASE Launch
      BY <3>1 DEF Launch, NoDownload, Pending
    <3>2. CASE Look /\ reader'.at = "idle"
      <4>1. reader' = NoDownload
        BY <1>1, <3>2 DEF Look, ResultsShape
      <4>2. QED BY <4>1 DEF NoDownload
    <3>3. CASE CutOff
      BY <3>3 DEF CutOff, NoDownload
    <3>4. QED BY <1>4, <3>1, <3>2, <3>3
  <2>2. ResultsShape'
    BY <1>1, <1>2, <2>1 DEF ResultsShape, Places, attemptVars
  <2>3. CopiesInv' /\ ReadingInv'
    BY <1>1, <1>2, <2>1 DEF CopiesInv, Complete, ReadingInv, Looked, attemptVars
  <2>4. ASSUME NEW s \in Samples, ~UnderWay(s)'
        PROVE  ~UnderWay(s)
    <3>1. CASE Launch \/ Look
      <4>1. reader.at \in {"idle", "look", "returned"} /\ untold' = untold
        BY <3>1 DEF Launch, Look, Reads, diskVars
      <4>2. QED BY <1>1, <2>4, <4>1 DEF UnderWay, ReadingInv, Reads
    <3>2. CASE CutOff
      BY <2>4, <3>2 DEF CutOff, UnderWay
    <3>3. QED BY <1>4, <3>1, <3>2
  <2>5. RowsInv'
    BY <1>1, <1>2, <2>4 DEF RowsInv, Listed, Failure
  <2>6. QED BY <1>3, <2>2, <2>3, <2>5 DEF ResultsInv
<1>5. CASE Look /\ reader'.at # "idle"
  <2>1. PICK misread \in SUBSET Retrying :
          reader' = [reader EXCEPT
                       !.complete = Complete,
                       !.failed = Failed(misread) \union (reader.overlay \ Complete),
                       !.todo = Complete \union
                                  (Failed(misread) \union (reader.overlay \ Complete)),
                       !.at = "fetch", !.partial = FALSE]
    <3>1. NoDownload.at = "idle"
      BY DEF NoDownload
    <3>2. QED BY <1>5, <3>1 DEF Look
  <2>. DEFINE failing == Failed(misread) \union (reader.overlay \ Complete)
  <2>2. failing \subseteq Samples /\ Complete \subseteq Samples /\ failing \intersect Complete = {}
    BY <1>1 DEF Failed, Complete, ResultsShape
  <2>3. /\ reader'.at = "fetch" /\ reader'.complete = Complete /\ reader'.failed = failing
        /\ reader'.todo = Complete \union failing /\ reader'.fetched = reader.fetched
        /\ reader.at = "look" /\ reader.fetched = {} /\ untold' = untold
    BY <1>1, <1>5, <2>1 DEF ResultsShape, ReadingInv, Look, Reads, diskVars
  <2>. HIDE DEF failing
  <2>4. ResultsShape'
    <3>1. reader' \in [at : Places, partial : BOOLEAN, overlay : SUBSET Samples,
                       complete : SUBSET Samples, failed : SUBSET Samples,
                       todo : SUBSET Samples, fetched : {reader'.fetched}]
      BY <1>1, <2>1, <2>2, <2>3 DEF ResultsShape, Places, failing
    <3>2. QED BY <1>1, <1>2, <3>1 DEF ResultsShape, attemptVars
  <2>5. Complete' = Complete
    BY <1>2 DEF Complete, attemptVars
  <2>6. CopiesInv'
    BY <1>1, <1>2, <2>2, <2>3, <2>5 DEF CopiesInv, attemptVars
  <2>7. ReadingInv'
    BY <1>1, <1>2, <2>3 DEF ReadingInv, CopiesInv, Complete, Told, Looked
  <2>8. RowsInv'
    BY <1>1, <1>2, <2>3 DEF RowsInv, UnderWay, Listed, Failure, Reads
  <2>9. QED BY <1>3, <2>4, <2>6, <2>7, <2>8 DEF ResultsInv
<1>6. QED BY <1>4, <1>5

\* The samples are fetched one after the other.
LEMMA FetchKeeps ==
    ASSUME ResultsInv, Skip \/ Materialise \/ FetchMarker \/ FetchFiles \/ FetchEnds
    PROVE  ResultsInv'
<1>. DEFINE h     == InHand
            Takes == Materialise \/ FetchMarker \/ FetchFiles
<1>1. /\ ResultsShape /\ PublishInv /\ CopiesInv /\ ReadingInv /\ RowsInv
      /\ remote \in [Samples -> Dirs] /\ local \in [Samples -> Dirs]
      /\ reader.complete \subseteq Samples /\ reader.failed \subseteq Samples
  BY DEF ResultsInv, ResultsShape
<1>2. UNCHANGED <<attemptVars, table, lost, untold>>
  BY DEF Skip, Materialise, FetchMarker, FetchFiles, FetchEnds, diskVars
<1>3. PublishInv' /\ Complete' = Complete
  BY <1>1, <1>2 DEF PublishInv, Complete, attemptVars
<1>4. /\ reader.at \in {"fetch", "files"}
      /\ reader'.at \in {"fetch", "files", "aggregate", "returned"}
      /\ reader'.complete = reader.complete /\ reader'.failed = reader.failed
      /\ reader'.todo \in {reader.todo, reader.todo \ {h}}
      /\ reader'.fetched \in {reader.fetched, reader.fetched \union {h}}
  BY <1>1 DEF ResultsShape, Skip, Materialise, FetchMarker, FetchFiles, FetchEnds, Fetched, Reads
<1>5. local' \in [Samples -> Dirs] /\ \A s \in Samples : s # h => local'[s] = local[s]
  <2>1. CASE UNCHANGED local
    BY <1>1, <2>1
  <2>2. CASE Materialise
    BY <1>1, <2>2 DEF Materialise, Dirs, Markers
  <2>3. CASE FetchMarker
    BY <1>1, <2>3 DEF FetchMarker, Dirs, Markers
  <2>4. CASE FetchFiles
    BY <1>1, <2>4 DEF FetchFiles, Dirs, Markers
  <2>5. QED BY <2>1, <2>2, <2>3, <2>4 DEF Skip, FetchEnds, diskVars
<1>6. ResultsShape'
  <2>1. reader' \in [at : Places, partial : BOOLEAN, overlay : SUBSET Samples,
                     complete : SUBSET Samples, failed : SUBSET Samples,
                     todo : SUBSET Samples, fetched : {reader'.fetched}]
    <3>1. reader \in [at : Places, partial : BOOLEAN, overlay : SUBSET Samples,
                     complete : SUBSET Samples, failed : SUBSET Samples,
                     todo : SUBSET Samples, fetched : {reader.fetched}]
      BY <1>1 DEF ResultsShape
    <3>2. CASE Skip
      BY <3>1, <3>2 DEF Skip
    <3>3. CASE Materialise \/ FetchFiles
      <4>1. reader' = Fetched
        BY <3>3 DEF Materialise, FetchFiles
      <4>2. QED BY <3>1, <4>1 DEF Fetched, Places
    <3>4. CASE FetchMarker
      BY <3>1, <3>4 DEF FetchMarker, Places
    <3>5. CASE FetchEnds
      <4>1. PICK place \in {"returned", "aggregate"} :
              reader' = [reader EXCEPT !.at = place, !.overlay = {}]
        BY <3>5 DEF FetchEnds
      <4>2. QED BY <3>1, <4>1 DEF Places
    <3>6. QED BY <3>2, <3>3, <3>4, <3>5
  <2>2. QED BY <1>1, <1>2, <1>5, <2>1 DEF ResultsShape, attemptVars
<1>7. ASSUME h \in Samples, Takes
      PROVE  /\ local'[h].complete => h \in reader.complete /\ local'[h].sql
             /\ \/ reader'.at = "files" /\ h \notin Told \ reader'.todo
                \/ /\ h \in reader'.fetched
                   /\ h \in reader.complete => local'[h].complete
                   /\ h \in reader.failed => local'[h].marker # "none"
  <2>1. /\ local[h] \in Dirs /\ remote[h] \in Dirs
        /\ h \in reader.complete => remote[h].complete /\ remote[h].sql
        /\ local[h].complete => local[h].sql /\ h \in reader.complete
    BY <1>1, <1>4, <1>7 DEF CopiesInv, PublishInv, Complete, ReadingInv, Looked
  <2>2. h \in Told \ reader.todo => IsLocal(h)
    BY <1>1, <1>4 DEF ReadingInv, Looked
  <2>3. CASE Materialise
    <3>1. remote[h] = Nothing /\ local'[h] = [local[h] EXCEPT !.marker = "failed"]
      BY <1>1, <1>7, <2>3 DEF Materialise, LeftNothing
    <3>2. h \in reader'.fetched
      BY <1>1, <2>3 DEF Materialise, Fetched, ResultsShape
    <3>3. QED BY <2>1, <3>1, <3>2 DEF Nothing, Dirs
  <2>4. CASE FetchMarker
    <3>1. /\ reader'.at = "files" /\ reader'.todo = reader.todo /\ ~IsLocal(h)
      BY <1>1, <2>4 DEF FetchMarker, ResultsShape
    <3>2. local'[h] = local[h] \/ local'[h] = [local[h] EXCEPT !.marker = remote[h].marker]
      BY <1>1, <1>7, <2>4 DEF FetchMarker
    <3>3. Told' = Told
      BY <1>4 DEF Told
    <3>4. QED BY <2>1, <2>2, <3>1, <3>2 DEF Dirs
  <2>5. CASE FetchFiles
    <3>. DEFINE complete == local[h].complete \/ h \in reader.complete
                marker   == IF h \in reader.failed /\ local[h].marker = "none"
                            THEN "failed" ELSE local[h].marker
                sql      == local[h].sql \/ remote[h].sql
    <3>1. local'[h] = [complete |-> complete, marker |-> marker, sql |-> sql,
                       bad |-> remote[h].bad]
      BY <1>1, <1>7, <2>5 DEF FetchFiles
    <3>2. h \in reader'.fetched
      BY <1>1, <2>5 DEF FetchFiles, Fetched, ResultsShape
    <3>3. /\ local'[h].complete <=> local[h].complete \/ h \in reader.complete
          /\ local'[h].sql <=> local[h].sql \/ remote[h].sql
          /\ h \in reader.failed => local'[h].marker # "none"
      <4>. HIDE DEF complete, marker, sql
      <4>1. local'[h].complete = complete /\ local'[h].marker = marker /\ local'[h].sql = sql
        BY <3>1
      <4>2. QED BY <4>1 DEF complete, marker, sql
    <3>4. QED BY <2>1, <3>2, <3>3
  <2>6. QED BY <1>7, <2>3, <2>4, <2>5
<1>8. CopiesInv'
  <2>1. ASSUME NEW s \in Samples
        PROVE  local'[s].complete => local'[s].sql /\ remote[s].complete
    <3>1. CASE local'[s] = local[s]
      BY <1>1, <3>1 DEF CopiesInv
    <3>2. CASE local'[s] # local[s]
      <4>1. s = h /\ Takes
        BY <1>5, <3>2 DEF Skip, FetchEnds, diskVars
      <4>2. QED BY <1>1, <1>7, <4>1 DEF CopiesInv, Complete
    <3>3. QED BY <3>1, <3>2
  <2>2. QED BY <1>1, <1>2, <1>3, <1>4, <2>1 DEF CopiesInv, attemptVars
<1>9. ReadingInv'
  <2>1. ASSUME NEW s \in Samples
        PROVE  local'[s].complete => s \in reader.complete
    <3>1. CASE local'[s] = local[s]
      BY <1>1, <1>4, <3>1 DEF ReadingInv, Looked
    <3>2. CASE local'[s] # local[s]
      <4>1. s = h /\ Takes
        BY <1>5, <3>2 DEF Skip, FetchEnds, diskVars
      <4>2. QED BY <1>7, <4>1
    <3>3. QED BY <3>1, <3>2
  <2>2. ASSUME NEW s \in Told \ reader'.todo
        PROVE  IsLocal(s)'
    <3>1. s \in Samples /\ s \in Told
      BY <1>1 DEF Told
    <3>2. IsLocal(s)' = IF s \in reader.complete THEN local'[s].complete
                        ELSE local'[s].marker # "none"
      BY <1>4 DEF IsLocal
    <3>3. CASE s \notin reader.todo /\ local'[s] = local[s]
      BY <1>1, <1>4, <3>1, <3>2, <3>3 DEF ReadingInv, Looked, IsLocal
    <3>4. CASE local'[s] # local[s]
      <4>1. s = h /\ Takes
        BY <1>5, <3>1, <3>4 DEF Skip, FetchEnds, diskVars
      <4>2. QED BY <1>7, <2>2, <3>1, <3>2, <4>1 DEF Told
    <3>5. CASE s \in reader.todo /\ local'[s] = local[s]
      <4>1. s = h /\ reader'.todo # reader.todo
        BY <1>4, <2>2, <3>5
      <4>2. CASE Skip
        BY <3>2, <3>5, <4>1, <4>2 DEF Skip, IsLocal
      <4>3. CASE Takes
        BY <1>7, <2>2, <3>1, <3>2, <4>1, <4>3 DEF Told
      <4>4. ~FetchEnds
        BY <1>1, <4>1 DEF ResultsShape, FetchEnds
      <4>5. QED BY <4>2, <4>3, <4>4
    <3>6. QED BY <3>3, <3>4, <3>5
  <2>3. Told' = Told
    BY <1>4 DEF Told
  <2>4. CASE FetchEnds
    <3>1. /\ reader'.at \in {"aggregate", "returned"} /\ reader'.todo = {}
          /\ reader'.at = "returned" => reader'.fetched = {} /\ table.written
      BY <1>1, <2>4 DEF FetchEnds, ResultsShape
    <3>2. QED BY <1>2, <1>4, <2>1, <2>2, <2>3, <3>1 DEF ReadingInv
  <2>5. CASE ~FetchEnds
    <3>1. reader'.at \in {"fetch", "files"}
      BY <1>1, <2>5 DEF Skip, Materialise, FetchMarker, FetchFiles, Fetched, ResultsShape, Reads
    <3>2. QED BY <1>4, <2>1, <2>2, <2>3, <3>1 DEF ReadingInv
  <2>6. QED BY <2>4, <2>5
<1>10. RowsInv'
  <2>1. SUFFICES ASSUME NEW s \in Samples,
                        local'[s].complete \/ local'[s].marker # "none", ~UnderWay(s)'
                 PROVE  Listed(s)'
    BY DEF RowsInv
  <2>2. ~(reader'.at = "files" /\ s = h) /\ s \notin untold /\ s \notin reader'.fetched
    <3>1. CASE reader'.at = "files"
      <4>1. Fetched.at = "fetch"
        BY <1>1 DEF ResultsShape, Fetched
      <4>2. reader'.todo = reader.todo
        <5>1. CASE Skip \/ FetchEnds
          BY <1>1, <3>1, <5>1 DEF ResultsShape, Skip, FetchEnds, Reads
        <5>2. CASE Materialise \/ FetchFiles
          BY <3>1, <4>1, <5>2 DEF Materialise, FetchFiles
        <5>3. CASE FetchMarker
          BY <1>1, <5>3 DEF ResultsShape, FetchMarker
        <5>4. QED BY <5>1, <5>2, <5>3
      <4>3. QED BY <1>2, <2>1, <4>2, HandStays DEF UnderWay, Reads
    <3>2. CASE reader'.at # "files"
      BY <1>2, <2>1, <3>2 DEF UnderWay
    <3>3. QED BY <3>1, <3>2
  <2>3. local'[s] = local[s]
    <3>1. ~Takes \/ ~(h \in Samples /\ s = h)
      BY <1>7, <2>2
    <3>2. QED BY <1>5, <3>1 DEF Skip, FetchEnds, diskVars
  <2>4. ~(reader.at = "files" /\ s = h) /\ s \notin reader.fetched
    <3>1. reader.at = "files" => h \in reader'.fetched
      <4>1. h \in Fetched.fetched
        BY <1>1 DEF ResultsShape, Fetched
      <4>2. reader.at = "files" => FetchFiles
        BY DEF Skip, Materialise, FetchMarker, FetchEnds, Reads
      <4>3. QED BY <4>1, <4>2 DEF FetchFiles
    <3>2. QED BY <1>4, <2>2, <3>1
  <2>5. Listed(s)
    BY <1>1, <2>1, <2>2, <2>3, <2>4 DEF RowsInv, UnderWay, Reads
  <2>6. QED BY <1>2, <2>3, <2>5 DEF Listed, Failure
<1>11. QED BY <1>3, <1>6, <1>8, <1>9, <1>10 DEF ResultsInv

\* The two tables are written, one after the other.
LEMMA TablesKeep ==
    ASSUME ResultsInv, WriteResults \/ WriteFailures
    PROVE  ResultsInv'
<1>1. /\ ResultsShape /\ PublishInv /\ CopiesInv /\ ReadingInv /\ RowsInv
      /\ local \in [Samples -> Dirs]
      /\ reader.complete \subseteq Samples /\ reader.failed \subseteq Samples
  BY DEF ResultsInv, ResultsShape
<1>2. UNCHANGED <<attemptVars, local>>
  BY DEF WriteResults, WriteFailures
<1>3. PublishInv' /\ Complete' = Complete
  BY <1>1, <1>2 DEF PublishInv, Complete, attemptVars
<1>4. CASE WriteResults
  <2>. DEFINE good == {s \in reader.complete : ~Failure(s)}
  <2>1. PICK unread \in SUBSET good :
          lost' = unread /\ table' = [table EXCEPT !.written = TRUE, !.good = good \ unread]
    BY <1>4 DEF WriteResults
  <2>2. /\ reader.at = "aggregate" /\ reader' = [reader EXCEPT !.at = "failures"]
        /\ untold' = untold
    BY <1>4 DEF WriteResults, Reads
  <2>3. /\ table'.written /\ table'.good = good \ lost' /\ table'.failed = table.failed
        /\ table' \in [written : BOOLEAN, good : SUBSET Samples, failed : SUBSET Samples]
    BY <1>1, <2>1 DEF ResultsShape
  <2>4. /\ reader'.at = "failures" /\ reader'.todo = reader.todo
        /\ reader'.complete = reader.complete /\ reader'.failed = reader.failed
        /\ reader'.fetched = reader.fetched
    BY <1>1, <2>2 DEF ResultsShape
  <2>5. ResultsShape'
    <3>1. reader' \in [at : Places, partial : BOOLEAN, overlay : SUBSET Samples,
                       complete : SUBSET Samples, failed : SUBSET Samples,
                       todo : SUBSET Samples, fetched : {reader'.fetched}]
      BY <1>1, <2>2 DEF ResultsShape, Places
    <3>2. QED BY <1>1, <1>2, <2>3, <3>1 DEF ResultsShape, attemptVars
  <2>6. CopiesInv'
    BY <1>1, <1>2, <1>3, <2>3, <2>4 DEF CopiesInv, attemptVars
  <2>7. ReadingInv'
    BY <1>1, <1>2, <2>2, <2>3, <2>4 DEF ReadingInv, Looked, Told, IsLocal, Failure
  <2>8. RowsInv'
    <3>1. SUFFICES ASSUME NEW s \in Samples,
                          local[s].complete \/ local[s].marker # "none", ~UnderWay(s)'
                   PROVE  Listed(s)'
      BY <1>2 DEF RowsInv
    <3>2. Listed(s)
      BY <1>1, <2>2, <2>4, <3>1 DEF RowsInv, UnderWay, Reads
    <3>3. local[s].complete => s \in reader.complete
      BY <1>1, <2>2 DEF ReadingInv, Looked
    <3>4. Failure(s)' = Failure(s)
      BY <1>2 DEF Failure
    <3>5. QED BY <1>2, <2>3, <3>2, <3>3, <3>4 DEF Listed
  <2>9. QED BY <1>3, <2>5, <2>6, <2>7, <2>8 DEF ResultsInv
<1>5. CASE WriteFailures
  <2>1. /\ reader.at = "failures" /\ lost' = lost
        /\ table' = [table EXCEPT !.failed = {s \in Told : Failure(s)}]
        /\ untold' = {s \in Samples : local[s].complete \/ local[s].marker # "none"} \ Told
        /\ reader' = [reader EXCEPT !.at = "returned", !.fetched = {}]
    BY <1>5 DEF WriteFailures, Reads
  <2>2. /\ table'.written /\ table'.good = table.good
        /\ table'.failed = {s \in Told : Failure(s)}
        /\ table' \in [written : BOOLEAN, good : SUBSET Samples, failed : SUBSET Samples]
    BY <1>1, <2>1 DEF ResultsShape, ReadingInv, Told
  <2>3. /\ reader'.at = "returned" /\ reader'.todo = reader.todo /\ reader'.fetched = {}
        /\ reader'.complete = reader.complete /\ reader'.failed = reader.failed
    BY <1>1, <2>1 DEF ResultsShape
  <2>4. ResultsShape'
    <3>1. reader' \in [at : Places, partial : BOOLEAN, overlay : SUBSET Samples,
                       complete : SUBSET Samples, failed : SUBSET Samples,
                       todo : SUBSET Samples, fetched : {reader'.fetched}]
      BY <1>1, <2>1 DEF ResultsShape, Places
    <3>2. QED BY <1>1, <1>2, <2>2, <3>1 DEF ResultsShape, attemptVars
  <2>5. CopiesInv'
    BY <1>1, <1>2, <1>3, <2>2, <2>3 DEF CopiesInv, attemptVars
  <2>6. ReadingInv'
    BY <1>1, <1>2, <2>1, <2>2, <2>3 DEF ReadingInv, Looked, Told, IsLocal
  <2>7. RowsInv'
    <3>1. SUFFICES ASSUME NEW s \in Samples,
                          local[s].complete \/ local[s].marker # "none", ~UnderWay(s)'
                   PROVE  Listed(s)'
      BY <1>2 DEF RowsInv
    <3>2. s \in Told
      BY <2>1, <3>1 DEF UnderWay
    <3>3. /\ s \in table.good <=> s \in reader.complete /\ ~Failure(s) /\ s \notin lost
          /\ local[s].complete => s \in reader.complete
      BY <1>1, <2>1 DEF ReadingInv, Looked
    <3>4. Failure(s)' = Failure(s)
      BY <1>2 DEF Failure
    <3>5. QED BY <1>2, <2>1, <2>2, <3>2, <3>3, <3>4 DEF Listed
  <2>8. QED BY <1>3, <2>4, <2>5, <2>6, <2>7 DEF ResultsInv
<1>6. QED BY <1>4, <1>5

\* The invariant holds in every state.
THEOREM ResultsInvariant == ResultsSpec => []ResultsInv
<1>1. ResultsInit => ResultsInv
  <2>. SUFFICES ASSUME ResultsInit
                PROVE  ResultsInv
    OBVIOUS
  <2>1. ResultsShape
    BY DEF ResultsInit, ResultsShape, Nothing, NoDownload, Dirs, Markers, Places
  <2>2. PublishInv /\ CopiesInv
    BY DEF ResultsInit, PublishInv, CopiesInv, Nothing, NoDownload, Complete
  <2>3. ReadingInv /\ RowsInv
    BY DEF ResultsInit, ReadingInv, RowsInv, Nothing, NoDownload, Looked
  <2>4. QED BY <2>1, <2>2, <2>3 DEF ResultsInv
<1>2. ResultsInv /\ [ResultsNext]_resultsVars => ResultsInv'
  <2>. SUFFICES ASSUME ResultsInv, [ResultsNext]_resultsVars
                PROVE  ResultsInv'
    OBVIOUS
  <2>1. CASE Download
    BY <2>1, LookKeeps, FetchKeeps, TablesKeep DEF Download
  <2>2. ASSUME NEW s \in Samples, Attempt(s) \/ Killed(s)
        PROVE  ResultsInv'
    BY <2>2, AttemptKeeps
  <2>3. CASE UNCHANGED resultsVars
    <3>1. PublishInv' /\ UNCHANGED <<diskVars, reader, job, remote>>
      BY <2>3 DEF ResultsInv, PublishInv, resultsVars, attemptVars
    <3>2. job' = job /\ remote' = remote
      BY <3>1
    <3>3. QED BY <3>1, <3>2, PublishKeeps DEF ResultsInv, ResultsShape
  <2>4. QED BY <2>1, <2>2, <2>3 DEF ResultsNext
<1>3. QED BY <1>1, <1>2, PTL DEF ResultsSpec

\* A success marker, in the bucket or on the disk, stands for results, and only a
\* finished sample has a row of results (remote_runner._upload_complete_marker).
THEOREM MarkerStandsForResults == ResultsSpec => []SuccessIsWhole
<1>1. ResultsInv => SuccessIsWhole
  BY DEF ResultsInv, PublishInv, CopiesInv, SuccessIsWhole, Complete, JobAt
<1>2. QED BY <1>1, ResultsInvariant, PTL

\* When a download returns, a finished sample is in the table of its state and in no
\* other, but for those whose KPIs could not be read and those that were fetched and that
\* the last tables were written without, after a download that was cut off or was partial:
\* these may be in neither (S3CampaignStore.download).
THEOREM FinishedIsListed == ResultsSpec => []FinishedHasARow
<1>1. ResultsInv => FinishedHasARow
  <2>. SUFFICES ASSUME ResultsInv, Reads("returned"), NEW s \in Told \ (lost \union untold)
                PROVE  /\ s \in table.good => s \notin table.failed
                       /\ s \in reader.complete /\ local[s].marker # "failed" /\ ~local[s].bad =>
                            s \in table.good
                       /\ s \in reader.failed /\ local[s].marker = "failed" => s \in table.failed
    BY DEF FinishedHasARow
  <2>1. s \in Samples /\ IsLocal(s) /\ s \notin reader.fetched
    BY DEF ResultsInv, ResultsShape, ReadingInv, Looked, Told, Reads
  <2>2. Listed(s)
    BY <2>1 DEF ResultsInv, RowsInv, UnderWay, IsLocal, Reads
  <2>3. s \in reader.complete => local[s].complete /\ local[s].sql
    BY <2>1 DEF IsLocal, ResultsInv, CopiesInv
  <2>4. QED BY <2>1, <2>2, <2>3 DEF Listed, Failure
<1>2. QED BY <1>1, ResultsInvariant, PTL

\* No sample is excepted when the downloads are neither cut off nor partial and the KPIs
\* are always read: then a download that returns has looked at a campaign that is finished,
\* and FinishedHasARow speaks of every sample.
Undisturbed == ~CutOff /\ ~reader'.partial /\ lost' = {}

NothingExcepted == Reads("returned") => Told = Samples /\ lost \union untold = {}

THEOREM UndisturbedIsListed ==
    ResultsSpec /\ [][Undisturbed]_resultsVars => [](FinishedHasARow /\ NothingExcepted)
<1>. DEFINE Quiet == /\ lost = {} /\ untold = {} /\ ~reader.partial
                     /\ reader.at \notin {"idle", "look"} => Told = Samples
<1>1. ResultsInit => Quiet
  BY DEF ResultsInit, NoDownload
<1>2. ResultsInv /\ Quiet /\ [ResultsNext]_resultsVars /\ [Undisturbed]_resultsVars => Quiet'
  <2>. SUFFICES ASSUME ResultsInv, Quiet, [ResultsNext]_resultsVars, [Undisturbed]_resultsVars
                PROVE  Quiet'
    OBVIOUS
  <2>1. ResultsShape /\ Complete \subseteq Samples
    BY DEF ResultsInv, Complete
  <2>2. CASE \/ UNCHANGED resultsVars
             \/ \E s \in Samples : Attempt(s) \/ Killed(s)
    <3>1. UNCHANGED <<diskVars, reader>>
      BY <2>2 DEF resultsVars, Attempt, StartAttempt, Raises, UploadSql, UploadOsw,
                  UploadMarker, UploadFailedMarker, Exit, Killed
    <3>2. QED BY <3>1 DEF diskVars, Told
  <2>3. CASE Undisturbed /\ (Launch \/ Look)
    <3>1. UNCHANGED <<lost, untold>> /\ ~reader'.partial
      BY <2>3 DEF Launch, Look, Undisturbed, diskVars
    <3>2. CASE Launch
      BY <2>1, <3>1, <3>2 DEF Launch, NoDownload
    <3>3. CASE Look
      <4>1. \/ reader' = NoDownload
            \/ \E over \in SUBSET Samples :
                 /\ Complete \union over = Samples
                 /\ reader' = [reader EXCEPT !.complete = Complete, !.failed = over,
                                 !.todo = Complete \union over, !.at = "fetch",
                                 !.partial = FALSE]
        <5>1. PICK misread \in SUBSET Retrying :
                LET over == Failed(misread) \union (reader.overlay \ Complete) IN
                reader' = IF reader.partial \/ Complete \union over = Samples
                          THEN [reader EXCEPT !.complete = Complete, !.failed = over,
                                  !.todo = Complete \union over, !.at = "fetch",
                                  !.partial = FALSE]
                          ELSE NoDownload
          BY <3>3 DEF Look
        <5>2. Failed(misread) \union (reader.overlay \ Complete) \in SUBSET Samples
          BY <2>1 DEF ResultsShape, Failed
        <5>3. QED BY <5>1, <5>2
      <4>2. ASSUME NEW over \in SUBSET Samples, Complete \union over = Samples,
                   reader' = [reader EXCEPT !.complete = Complete, !.failed = over,
                               !.todo = Complete \union over, !.at = "fetch",
                               !.partial = FALSE]
            PROVE  reader'.complete \union reader'.failed = Samples
        BY <2>1, <4>2 DEF ResultsShape
      <4>3. reader'.at = "idle" \/ reader'.complete \union reader'.failed = Samples
        <5>1. CASE reader' = NoDownload
          BY <5>1 DEF NoDownload
        <5>2. QED BY <4>1, <4>2, <5>1
      <4>4. QED BY <3>1, <4>3 DEF Told
    <3>4. QED BY <2>3, <3>2, <3>3
  <2>4. CASE Undisturbed /\ (Skip \/ Materialise \/ FetchMarker \/ FetchFiles \/ FetchEnds)
    <3>1. /\ UNCHANGED <<lost, untold>> /\ reader.at \in {"fetch", "files"}
          /\ ~reader'.partial
      BY <2>4 DEF Skip, Materialise, FetchMarker, FetchFiles, FetchEnds, Reads, diskVars,
                  Undisturbed
    <3>2. reader'.complete = reader.complete /\ reader'.failed = reader.failed
      BY <2>1, <2>4 DEF ResultsShape, Skip, Materialise, FetchMarker, FetchFiles, FetchEnds,
                        Fetched
    <3>3. QED BY <3>1, <3>2 DEF Told
  <2>5. CASE Undisturbed /\ (WriteResults \/ WriteFailures)
    <3>1. /\ reader.at \in {"aggregate", "failures"} /\ lost' = {} /\ ~reader'.partial
          /\ untold' = untold \/ untold' \subseteq Samples \ Told
      BY <2>5 DEF WriteResults, WriteFailures, Reads, Undisturbed
    <3>2. reader'.complete = reader.complete /\ reader'.failed = reader.failed
      BY <2>1, <2>5 DEF ResultsShape, WriteResults, WriteFailures
    <3>3. QED BY <3>1, <3>2 DEF Told
  <2>6. QED BY <2>2, <2>3, <2>4, <2>5 DEF ResultsNext, Download, Undisturbed
<1>3. Quiet => NothingExcepted
  BY DEF NothingExcepted, Reads
<1>. HIDE DEF Quiet
<1>4. QED BY <1>1, <1>2, <1>3, ResultsInvariant, FinishedIsListed, PTL DEF ResultsSpec

-----------------------------------------------------------------------------
(* The types of the rest: the attempts of a job stay within their number,  *)
(* and what the history names are samples.                                 *)

AttemptsInv ==
    \A s \in Samples : /\ job[s].attempt <= MaxAttempts
                       /\ job[s].at = "queued" => job[s].attempt < MaxAttempts

FetchedInv ==
    /\ reader.fetched \subseteq Samples /\ lost \subseteq Samples /\ untold \subseteq Samples
    /\ reader.at = "files" => reader.todo # {}

HistoryInv == AttemptsInv /\ FetchedInv /\ faults \in 0 .. MaxFaults

LEMMA FirstOfNumbers ==
    ASSUME NEW S \in SUBSET Nat, S # {}
    PROVE  \E s \in S : \A r \in S : s <= r
<1>. DEFINE below == {p \in Nat \X Nat : p[1] < p[2]}
<1>1. below = OpToRel(<, Nat)
  BY DEF OpToRel
<1>2. IsWellFoundedOn(below, Nat)
  BY <1>1, NatLessThanWellFounded
<1>. HIDE DEF below
<1>3. PICK s \in S : \A r \in S : ~(<<r, s>> \in below)
  BY <1>2, WFMin
<1>4. ASSUME NEW r \in S
      PROVE  s <= r
  <2>1. r \in Nat /\ s \in Nat /\ <<r, s>> \in Nat \X Nat
    OBVIOUS
  <2>2. r < s => <<r, s>> \in below
    BY <2>1 DEF below
  <2>3. QED BY <1>3, <2>1, <2>2
<1>5. QED BY <1>4, Zenon

\* The sample in hand is one of those to do, as long as there are any.
LEMMA HandIsASample ==
    ASSUME ResultsShape, reader.todo # {}
    PROVE  InHand \in reader.todo /\ InHand \in Samples
<1>1. reader.todo \subseteq Samples /\ reader.todo \in SUBSET Nat
  BY AttemptsAssumption DEF ResultsShape
<1>2. \E s \in reader.todo : \A r \in reader.todo : s <= r
  BY <1>1, FirstOfNumbers
<1>3. QED BY <1>1, <1>2 DEF InHand

LEMMA FaultsAreCounted ==
    ASSUME faults \in 0 .. MaxFaults, Fault \/ UNCHANGED faults
    PROVE  faults' \in 0 .. MaxFaults
BY DetachedAssumption DEF Fault

LEMMA AttemptsAreCounted ==
    ASSUME ResultsShape, HistoryInv, NEW s \in Samples, Attempt(s) \/ Killed(s)
    PROVE  HistoryInv'
<1>0. /\ job \in [Samples -> [at : {"queued"} \union Working \union Over, attempt : Nat]]
      /\ MaxAttempts \in Nat \ {0}
  BY AttemptsAssumption DEF ResultsShape
<1>1. UNCHANGED <<diskVars, reader>> /\ (Fault \/ UNCHANGED faults)
  BY DEF Attempt, Killed, StartAttempt, Raises, UploadSql, UploadOsw, UploadMarker,
         UploadFailedMarker, Exit
<1>2. AttemptsInv'
  <2>1. CASE StartAttempt(s)
    <3>1. /\ job[s].at = "queued"
          /\ job' = [job EXCEPT ![s] = [at |-> "running", attempt |-> job[s].attempt + 1]]
      BY <2>1 DEF StartAttempt, JobAt
    <3>2. QED BY <1>0, <3>1 DEF HistoryInv, AttemptsInv
  <2>2. CASE ~StartAttempt(s)
    <3>1. \/ AttemptOver(s)
          \/ \E place \in Working \union Over : JobGoes(s, place)
      BY <2>2 DEF Attempt, Killed, Raises, UploadSql, UploadOsw, UploadMarker,
                  UploadFailedMarker, Exit, Working, Over
    <3>2. PICK place \in {"queued"} \union Working \union Over :
            /\ job' = [job EXCEPT ![s].at = place]
            /\ place = "queued" => job[s].attempt < MaxAttempts
      BY <3>1 DEF AttemptOver, JobGoes, Working, Over
    <3>3. QED BY <1>0, <3>2 DEF HistoryInv, AttemptsInv
  <2>3. QED BY <2>1, <2>2
<1>3. QED BY <1>1, <1>2, FaultsAreCounted DEF HistoryInv, FetchedInv, diskVars

LEMMA DownloadsNameSamples ==
    ASSUME ResultsShape, HistoryInv, Download
    PROVE  HistoryInv'
<1>0. /\ reader.complete \subseteq Samples /\ reader.failed \subseteq Samples
      /\ reader.todo \subseteq Samples
      /\ reader.fetched \subseteq Samples /\ lost \subseteq Samples /\ untold \subseteq Samples
      /\ reader.at = "files" => InHand \in Samples
  BY HandIsASample DEF ResultsShape, HistoryInv, FetchedInv
<1>1. UNCHANGED job /\ (Fault \/ UNCHANGED faults)
  BY DEF Download, Launch, Look, Misread, Skip, Materialise, FetchMarker, FetchFiles, FetchEnds,
         WriteResults, WriteFailures, CutOff, attemptVars
<1>2. FetchedInv'
  <2>1. CASE Launch
    <3>1. reader'.at = "look" /\ reader'.fetched = {} /\ UNCHANGED <<lost, untold>>
      BY <2>1 DEF Launch, NoDownload, diskVars
    <3>2. QED BY <1>0, <3>1 DEF FetchedInv
  <2>2. CASE Look
    <3>1. reader'.at \in {"fetch", "idle"} /\ UNCHANGED <<lost, untold>>
      BY <2>2 DEF Look, NoDownload, ResultsShape, diskVars
    <3>2. reader'.fetched \in {{}, reader.fetched}
      BY <2>2 DEF Look, NoDownload, ResultsShape
    <3>3. QED BY <1>0, <3>1, <3>2 DEF FetchedInv
  <2>3. CASE Skip \/ FetchEnds
    <3>1. /\ reader'.at # "files" /\ reader'.fetched = reader.fetched
          /\ UNCHANGED <<lost, untold>>
      BY <2>3 DEF Skip, FetchEnds, Reads, ResultsShape, diskVars
    <3>2. QED BY <1>0, <3>1 DEF FetchedInv
  <2>4. CASE FetchMarker
    <3>1. /\ reader'.at = "files" /\ reader'.todo = reader.todo /\ reader.todo # {}
          /\ reader'.fetched = reader.fetched /\ UNCHANGED <<lost, untold>>
      BY <2>4 DEF FetchMarker, ResultsShape
    <3>2. QED BY <1>0, <3>1 DEF FetchedInv
  <2>5. CASE Materialise \/ FetchFiles
    <3>1. InHand \in Samples /\ reader' = Fetched /\ UNCHANGED <<lost, untold>>
      BY <1>0, <2>5, HandIsASample DEF Materialise, FetchFiles, Reads
    <3>2. reader'.at = "fetch" /\ reader'.fetched = reader.fetched \union {InHand}
      BY <3>1 DEF Fetched, ResultsShape
    <3>3. QED BY <1>0, <3>1, <3>2 DEF FetchedInv
  <2>6. CASE WriteResults
    <3>1. /\ reader'.at = "failures" /\ reader'.fetched = reader.fetched
          /\ lost' \subseteq reader.complete /\ untold' = untold
      BY <2>6 DEF WriteResults, ResultsShape
    <3>2. QED BY <1>0, <3>1 DEF FetchedInv
  <2>7. CASE WriteFailures
    <3>1. /\ reader'.at = "returned" /\ reader'.fetched = {}
          /\ untold' \subseteq Samples /\ lost' = lost
      BY <2>7 DEF WriteFailures, ResultsShape
    <3>2. QED BY <1>0, <3>1 DEF FetchedInv
  <2>8. CASE CutOff
    <3>1. /\ reader'.at = "idle" /\ reader'.fetched = {} /\ lost' = lost
          /\ untold' \subseteq Samples
      BY <1>0, <2>8 DEF CutOff, NoDownload, Reads
    <3>2. QED BY <1>0, <3>1 DEF FetchedInv
  <2>9. QED BY <2>1, <2>2, <2>3, <2>4, <2>5, <2>6, <2>7, <2>8 DEF Download
<1>3. QED BY <1>1, <1>2, FaultsAreCounted DEF HistoryInv, AttemptsInv

\* Jobs, directories, downloads and tables stay in their types: a job is tried at most
\* MaxAttempts times, and only samples are fetched and listed.
THEOREM ResultsTyping == ResultsSpec => []ResultsTypeOK
<1>1. ResultsInit => HistoryInv
  BY AttemptsAssumption, DetachedAssumption
  DEF ResultsInit, HistoryInv, AttemptsInv, FetchedInv, NoDownload
<1>2. ResultsInv /\ HistoryInv /\ [ResultsNext]_resultsVars => HistoryInv'
  <2>. SUFFICES ASSUME ResultsInv, HistoryInv, [ResultsNext]_resultsVars
                PROVE  HistoryInv'
    OBVIOUS
  <2>1. CASE UNCHANGED resultsVars
    BY <2>1 DEF HistoryInv, AttemptsInv, FetchedInv, resultsVars, attemptVars, diskVars
  <2>2. QED BY <2>1, AttemptsAreCounted, DownloadsNameSamples DEF ResultsNext, ResultsInv
<1>3. ResultsInv /\ HistoryInv => ResultsTypeOK
  <2>. SUFFICES ASSUME ResultsInv, HistoryInv
                PROVE  ResultsTypeOK
    OBVIOUS
  <2>1. job \in [Samples -> [at : {"queued"} \union Working \union Over,
                             attempt : 0 .. MaxAttempts]]
    BY AttemptsAssumption DEF ResultsInv, ResultsShape, HistoryInv, AttemptsInv
  <2>2. reader \in [at : Places, partial : BOOLEAN, overlay : SUBSET Samples,
                    complete : SUBSET Samples, failed : SUBSET Samples,
                    todo : SUBSET Samples, fetched : SUBSET Samples]
    BY DEF ResultsInv, ResultsShape, HistoryInv, FetchedInv
  <2>3. QED
    BY <2>1, <2>2 DEF ResultsInv, ResultsShape, HistoryInv, FetchedInv, ResultsTypeOK
<1>4. QED BY <1>1, <1>2, <1>3, ResultsInvariant, PTL DEF ResultsSpec

=============================================================================
