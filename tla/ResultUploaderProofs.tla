------------------------ MODULE ResultUploaderProofs ------------------------
(***************************************************************************)
(* Proofs about the uploader, for any files, callers and workers, any room *)
(* on the queue and any number of retries.                                 *)
(*                                                                         *)
(* What is queued, uploaded and counted is said three times in the code:   *)
(* by the items on the queue, by the threads that hold one, and by         *)
(* unfinished_tasks. UploaderInv says that the three agree (Filed), and    *)
(* what close() has seen to, stage by stage (Closed).                      *)
(***************************************************************************)
EXTENDS ResultUploader, FiniteSetTheorems, TLAPS

BusyWorkers == {w \in Workers : Busy(w)}

\* A file is on the queue once, or with one worker, as its fate says.
Filed ==
    /\ \A i, j \in 1..Len(queue) : queue[i] = queue[j] /\ queue[i] # STOP => i = j
    /\ \A f \in Files : fate[f] = "queued" <=> \E i \in 1..Len(queue) : queue[i] = f
    /\ \A w \in Workers : Busy(w) => fate[worker[w].file] = "uploading"
    /\ \A v, w \in Workers : Busy(v) /\ Busy(w) /\ worker[v].file = worker[w].file => v = w
    /\ \A f \in Files : fate[f] = "uploading" =>
         \E w \in Workers : Busy(w) /\ worker[w].file = f

\* What close() leaves behind it.
Closed ==
    /\ close.pc \in {"stop", "join", "shutdown", "closed"} =>
         \A f \in Files : fate[f] = "queued" => f \in late
    /\ close.pc \in {"stop", "join", "shutdown", "closed"} /\ close.drained =>
         \A f \in Files : fate[f] = "uploading" => f \in late
    /\ close.pc \in {"open", "drain", "abandon"} => ~close.drained
    /\ \A f \in Files : fate[f] = "abandoned" =>
         close.pc \notin {"open", "drain"} /\ ~close.drained

UploaderInv == TypeOK /\ CountsAgree /\ Filed /\ Closed

-----------------------------------------------------------------------------
(* Of queues and of counting.                                              *)

LEMMA PutFacts ==
    ASSUME NEW S, NEW q \in Seq(S), NEW e \in S
    PROVE  /\ Append(q, e) \in Seq(S)
           /\ Len(Append(q, e)) = Len(q) + 1
           /\ \A i \in 1..Len(q) + 1 : Append(q, e)[i] = IF i <= Len(q) THEN q[i] ELSE e
OBVIOUS

LEMMA GetFacts ==
    ASSUME NEW S, NEW q \in Seq(S), q # <<>>
    PROVE  /\ Head(q) = q[1] /\ Head(q) \in S
           /\ Tail(q) \in Seq(S)
           /\ Len(q) \in Nat \ {0} /\ Len(Tail(q)) = Len(q) - 1
           /\ \A i \in 1..Len(q) - 1 : Tail(q)[i] = q[i + 1]
OBVIOUS

\* The busy workers are finitely many, and are counted one by one.
LEMMA BusyFacts ==
    /\ IsFiniteSet(BusyWorkers)
    /\ Cardinality(BusyWorkers) \in Nat
    /\ Cardinality(BusyWorkers) = 0 <=> \A w \in Workers : ~Busy(w)
    /\ \A w \in Workers \ BusyWorkers :
         Cardinality(BusyWorkers \union {w}) = Cardinality(BusyWorkers) + 1
    /\ \A w \in BusyWorkers :
         Cardinality(BusyWorkers \ {w}) = Cardinality(BusyWorkers) - 1
<1>1. IsFiniteSet(BusyWorkers)
  BY UploaderAssumption, FS_Subset DEF BusyWorkers
<1>2. Cardinality(BusyWorkers) \in Nat
  BY <1>1, FS_CardinalityType
<1>3. Cardinality(BusyWorkers) = 0 <=> \A w \in Workers : ~Busy(w)
  BY <1>1, FS_EmptySet DEF BusyWorkers
<1>4. \A w \in Workers \ BusyWorkers :
        Cardinality(BusyWorkers \union {w}) = Cardinality(BusyWorkers) + 1
  BY <1>1, FS_AddElement
<1>5. \A w \in BusyWorkers : Cardinality(BusyWorkers \ {w}) = Cardinality(BusyWorkers) - 1
  BY <1>1, FS_RemoveElement
<1>6. QED BY <1>1, <1>2, <1>3, <1>4, <1>5

\* With nothing counted, nothing is queued or uploaded.
LEMMA NothingCounted ==
    ASSUME UploaderInv, unfinished = 0, NEW f \in Files
    PROVE  fate[f] \notin {"queued", "uploading"}
<1>1. Len(queue) \in Nat /\ Cardinality(BusyWorkers) \in Nat
  BY BusyFacts DEF UploaderInv, TypeOK
<1>2. unfinished = Len(queue) + Cardinality(BusyWorkers)
  BY DEF UploaderInv, CountsAgree, BusyWorkers
<1>3. Len(queue) = 0 /\ Cardinality(BusyWorkers) = 0
  BY <1>1, <1>2
<1>4. \A w \in Workers : ~Busy(w)
  BY <1>3, BusyFacts
<1>5. QED BY <1>3, <1>4 DEF UploaderInv, Filed

-----------------------------------------------------------------------------
(* The steps that only close() or a look at the uploader take.             *)

\* A step that leaves the queue, the count and the workers alone, and
\* moves no file into or out of them.
LEMMA QuietKeeps ==
    ASSUME UploaderInv, UNCHANGED <<queue, unfinished, worker, late>>,
           pool' \subseteq Workers,
           fate' \in [Files -> Fates],
           close' \in [pc : {"open", "closed"} \union Closing, bounded : BOOLEAN,
                       drained : BOOLEAN, stops : 0..Cardinality(Workers)],
           \A f \in Files : \/ fate'[f] = fate[f]
                            \/ {fate[f], fate'[f]} \subseteq {"new", "checked", "refused"},
           Closed'
    PROVE  UploaderInv'
<1>1. TypeOK'
  BY DEF UploaderInv, TypeOK
<1>2. CountsAgree'
  BY DEF UploaderInv, CountsAgree, Busy
<1>3. Filed'
  <2>1. \A f \in Files : /\ fate'[f] = "queued" <=> fate[f] = "queued"
                         /\ fate'[f] = "uploading" <=> fate[f] = "uploading"
    OBVIOUS
  <2>2. \A w \in Workers : Busy(w) => worker[w].file \in Files
    BY DEF UploaderInv, TypeOK, Busy, Getting, Gone
  <2>3. QED BY <2>1, <2>2 DEF UploaderInv, Filed, Busy
<1>4. QED BY <1>1, <1>2, <1>3 DEF UploaderInv

LEMMA CheckKeeps ==
    ASSUME UploaderInv, NEW f \in Files, Check(f)
    PROVE  UploaderInv'
<1>. DEFINE new == IF Failures # {} \/ close.pc # "open" THEN "refused" ELSE "checked"
<1>1. fate' = [fate EXCEPT ![f] = new] /\ fate[f] = "new" /\ new \in {"refused", "checked"}
  BY DEF Check, FateOf
<1>. HIDE DEF new
<1>2. fate' \in [Files -> Fates] /\ fate'[f] = new /\ \A g \in Files \ {f} : fate'[g] = fate[g]
  BY <1>1 DEF UploaderInv, TypeOK, Fates
<1>3. Closed'
  BY <1>1, <1>2 DEF Check, UploaderInv, Closed
<1>4. QED
  BY <1>1, <1>2, <1>3, QuietKeeps DEF Check, UploaderInv, TypeOK

LEMMA ClosingKeeps ==
    ASSUME UploaderInv,
           \/ BeginClose \/ Drained \/ DrainTimesOut \/ AbandonEnds \/ StopsPut
           \/ JoinUndrained \/ JoinDrained \/ ShutdownEnds
    PROVE  UploaderInv'
<1>1. /\ close \in [pc : {"open", "closed"} \union Closing, bounded : BOOLEAN,
                    drained : BOOLEAN, stops : 0..Cardinality(Workers)]
      /\ Closed /\ fate \in [Files -> Fates] /\ pool \subseteq Workers
  BY DEF UploaderInv, TypeOK
<1>2. /\ UNCHANGED <<fate, queue, unfinished, worker, late>> /\ pool' \subseteq Workers
      /\ close' \in [pc : {"open", "closed"} \union Closing, bounded : BOOLEAN,
                    drained : BOOLEAN, stops : 0..Cardinality(Workers)]
  <2>1. CASE BeginClose  BY <1>1, <2>1 DEF BeginClose, Closing
  <2>2. CASE Drained     BY <1>1, <2>2 DEF Drained, Closing
  <2>3. CASE DrainTimesOut \/ AbandonEnds \/ StopsPut
    BY <1>1, <2>3 DEF DrainTimesOut, AbandonEnds, StopsPut, CloseTo, Closing
  <2>4. CASE JoinUndrained \/ ShutdownEnds
    BY <1>1, <2>4 DEF JoinUndrained, ShutdownEnds, CloseTo
  <2>5. CASE JoinDrained
    BY <1>1, <2>5 DEF JoinDrained, CloseTo, Closing
  <2>6. QED BY <2>1, <2>2, <2>3, <2>4, <2>5
<1>3. Closed'
  <2>1. CASE BeginClose
    BY <1>1, <2>1 DEF BeginClose, Closed
  <2>2. CASE Drained
    <3>1. \A f \in Files : fate[f] \notin {"queued", "uploading"}
      BY <2>2, NothingCounted DEF Drained
    <3>2. close'.pc = "stop" /\ close.pc = "drain" /\ UNCHANGED fate
      BY <1>1, <2>2 DEF Drained
    <3>3. QED BY <1>1, <3>1, <3>2 DEF Closed
  <2>3. CASE DrainTimesOut
    BY <1>1, <2>3 DEF DrainTimesOut, CloseTo, Closed
  <2>4. CASE AbandonEnds
    <3>1. \A f \in Files : fate[f] # "queued"
      BY <2>4 DEF AbandonEnds, UploaderInv, Filed
    <3>2. /\ close'.pc = "stop" /\ close.pc = "abandon" /\ close'.drained = close.drained
          /\ UNCHANGED <<fate, late>>
      BY <1>1, <2>4 DEF AbandonEnds, CloseTo
    <3>3. QED BY <1>1, <3>1, <3>2 DEF Closed
  <2>5. CASE StopsPut
    BY <1>1, <2>5 DEF StopsPut, CloseTo, Closed
  <2>6. CASE JoinUndrained
    BY <1>1, <2>6 DEF JoinUndrained, WorkersJoined, CloseTo, Closed
  <2>7. CASE JoinDrained
    BY <1>1, <2>7 DEF JoinDrained, WorkersJoined, CloseTo, Closed
  <2>8. CASE ShutdownEnds
    BY <1>1, <2>8 DEF ShutdownEnds, CloseTo, Closed
  <2>9. QED BY <2>1, <2>2, <2>3, <2>4, <2>5, <2>6, <2>7, <2>8
<1>4. QED
  BY <1>1, <1>2, <1>3, QuietKeeps

-----------------------------------------------------------------------------
(* The steps that put something on the queue or take something off.        *)

LEMMA PutKeeps ==
    ASSUME UploaderInv, NEW f \in Files, Put(f)
    PROVE  UploaderInv'
<1>1. /\ fate[f] = "checked" /\ queue' = Append(queue, f) /\ unfinished' = unfinished + 1
      /\ fate' = [fate EXCEPT ![f] = "queued"] /\ UNCHANGED <<worker, close, pool>>
      /\ late' = IF close.pc = "open" THEN late ELSE late \union {f}
  BY DEF Put, FateOf
<1>2. /\ queue \in Seq(Files \union {STOP}) /\ f \in Files \union {STOP}
      /\ fate \in [Files -> Fates] /\ late \subseteq Files /\ unfinished \in Nat
      /\ f # STOP
  BY StopAssumption DEF UploaderInv, TypeOK
<1>3. /\ fate'[f] = "queued" /\ \A g \in Files \ {f} : fate'[g] = fate[g]
      /\ fate' \in [Files -> Fates]
  BY <1>1, <1>2 DEF Fates
<1>4. /\ queue' \in Seq(Files \union {STOP}) /\ Len(queue') = Len(queue) + 1 /\ Len(queue) \in Nat
      /\ \A i \in 1..Len(queue) + 1 : queue'[i] = IF i <= Len(queue) THEN queue[i] ELSE f
  BY <1>1, <1>2, PutFacts
<1>5. TypeOK'
  BY <1>1, <1>2, <1>3, <1>4 DEF UploaderInv, TypeOK
<1>6. CountsAgree'
  BY <1>1, <1>2, <1>4, BusyFacts DEF UploaderInv, CountsAgree, Busy, BusyWorkers
<1>7. Filed'
  <2>1. \A i \in 1..Len(queue) : queue[i] # f
    BY <1>1, <1>2 DEF UploaderInv, Filed
  <2>2. \A i, j \in 1..Len(queue') : queue'[i] = queue'[j] /\ queue'[i] # STOP => i = j
    BY <1>4, <2>1 DEF UploaderInv, Filed
  <2>3. ASSUME NEW g \in Files
        PROVE  fate'[g] = "queued" <=> \E i \in 1..Len(queue') : queue'[i] = g
    <3>1. CASE g = f
      <4>1. Len(queue) + 1 \in 1..Len(queue') /\ queue'[Len(queue) + 1] = f
        BY <1>4
      <4>2. QED BY <1>3, <3>1, <4>1
    <3>2. CASE g # f
      <4>1. \A i \in 1..Len(queue') : queue'[i] = g <=> i \in 1..Len(queue) /\ queue[i] = g
        BY <1>4, <3>2
      <4>2. 1..Len(queue) \subseteq 1..Len(queue')
        BY <1>4
      <4>3. QED BY <1>3, <3>2, <4>1, <4>2 DEF UploaderInv, Filed
    <3>3. QED BY <3>1, <3>2
  <2>4. ASSUME NEW w \in Workers, Busy(w)
        PROVE  worker[w].file # f /\ fate'[worker[w].file] = "uploading"
    <3>1. worker[w].file \in Files
      BY <2>4 DEF UploaderInv, TypeOK, Busy, Getting, Gone
    <3>2. fate[worker[w].file] = "uploading"
      BY <2>4 DEF UploaderInv, Filed
    <3>3. QED BY <1>1, <1>3, <3>1, <3>2
  <2>5. \A g \in Files : fate'[g] = "uploading" => \E w \in Workers : Busy(w) /\ worker[w].file = g
    BY <1>3 DEF UploaderInv, Filed
  <2>6. QED
    BY <1>1, <2>2, <2>3, <2>4, <2>5 DEF UploaderInv, Filed, Busy
<1>8. Closed'
  <2>1. close.pc \in {"stop", "join", "shutdown", "closed"} => f \in late'
    BY <1>1
  <2>2. late \subseteq late'
    BY <1>1
  <2>3. QED BY <1>1, <1>3, <2>1, <2>2 DEF UploaderInv, Closed
<1>9. QED BY <1>5, <1>6, <1>7, <1>8 DEF UploaderInv

\* What the head of the queue leaves behind when it is taken off.
LEMMA HeadLeaves ==
    ASSUME UploaderInv, queue # <<>>
    PROVE  /\ Head(queue) \in Files \union {STOP}
           /\ Tail(queue) \in Seq(Files \union {STOP})
           /\ Len(queue) \in Nat \ {0} /\ Len(Tail(queue)) = Len(queue) - 1
           /\ \A i, j \in 1..Len(Tail(queue)) :
                Tail(queue)[i] = Tail(queue)[j] /\ Tail(queue)[i] # STOP => i = j
           /\ \A f \in Files : (\E i \in 1..Len(Tail(queue)) : Tail(queue)[i] = f)
                <=> fate[f] = "queued" /\ f # Head(queue)
           /\ Head(queue) # STOP => fate[Head(queue)] = "queued"
<1>1. queue \in Seq(Files \union {STOP}) /\ Filed
  BY DEF UploaderInv, TypeOK
<1>2. /\ Head(queue) = queue[1] /\ Head(queue) \in Files \union {STOP}
      /\ Tail(queue) \in Seq(Files \union {STOP})
      /\ Len(queue) \in Nat \ {0} /\ Len(Tail(queue)) = Len(queue) - 1
      /\ \A i \in 1..Len(queue) - 1 : Tail(queue)[i] = queue[i + 1]
  BY <1>1, GetFacts
<1>3. \A i \in 1..Len(queue) - 1 : i + 1 \in 1..Len(queue)
  BY <1>2
<1>4. \A i, j \in 1..Len(Tail(queue)) :
        Tail(queue)[i] = Tail(queue)[j] /\ Tail(queue)[i] # STOP => i = j
  <2>. SUFFICES ASSUME NEW i \in 1..Len(Tail(queue)), NEW j \in 1..Len(Tail(queue)),
                       Tail(queue)[i] = Tail(queue)[j], Tail(queue)[i] # STOP
                PROVE  i = j
    OBVIOUS
  <2>1. queue[i + 1] = queue[j + 1] /\ queue[i + 1] # STOP
    BY <1>2
  <2>2. i + 1 = j + 1
    BY <1>1, <1>2, <1>3, <2>1 DEF Filed
  <2>3. QED BY <1>2, <2>2
<1>5. ASSUME NEW f \in Files
      PROVE  (\E i \in 1..Len(Tail(queue)) : Tail(queue)[i] = f)
                <=> fate[f] = "queued" /\ f # Head(queue)
  <2>1. f # STOP
    BY StopAssumption
  <2>2. ASSUME NEW i \in 1..Len(Tail(queue)), Tail(queue)[i] = f
        PROVE  fate[f] = "queued" /\ f # Head(queue)
    <3>1. queue[i + 1] = f /\ i + 1 \in 1..Len(queue) /\ i + 1 # 1 /\ 1 \in 1..Len(queue)
      BY <1>2, <1>3, <2>2
    <3>2. QED BY <1>1, <1>2, <2>1, <3>1 DEF Filed
  <2>3. ASSUME fate[f] = "queued", f # Head(queue)
        PROVE  \E i \in 1..Len(Tail(queue)) : Tail(queue)[i] = f
    <3>1. PICK j \in 1..Len(queue) : queue[j] = f
      BY <1>1, <2>3 DEF Filed
    <3>2. j # 1
      BY <1>2, <2>3, <3>1
    <3>3. j - 1 \in 1..Len(Tail(queue)) /\ Tail(queue)[j - 1] = queue[j]
      BY <1>2, <3>2
    <3>4. QED BY <3>1, <3>3
  <2>4. QED BY <2>2, <2>3
<1>6. Head(queue) # STOP => fate[Head(queue)] = "queued"
  <2>1. 1 \in 1..Len(queue)
    BY <1>2
  <2>2. QED BY <1>1, <1>2, <2>1 DEF Filed
<1>7. QED BY <1>2, <1>4, <1>5, <1>6

LEMMA PutStopKeeps ==
    ASSUME UploaderInv, PutStop
    PROVE  UploaderInv'
<1>1. /\ queue' = Append(queue, STOP) /\ unfinished' = unfinished + 1
      /\ close' = [close EXCEPT !.stops = close.stops + 1]
      /\ close.stops < Cardinality(Workers) /\ UNCHANGED <<fate, worker, pool, late>>
  BY DEF PutStop
<1>2. /\ queue \in Seq(Files \union {STOP}) /\ STOP \in Files \union {STOP} /\ unfinished \in Nat
      /\ close \in [pc : {"open", "closed"} \union Closing, bounded : BOOLEAN,
                    drained : BOOLEAN, stops : 0..Cardinality(Workers)]
      /\ Cardinality(Workers) \in Nat
  BY UploaderAssumption, FS_CardinalityType DEF UploaderInv, TypeOK
<1>3. /\ queue' \in Seq(Files \union {STOP}) /\ Len(queue') = Len(queue) + 1 /\ Len(queue) \in Nat
      /\ \A i \in 1..Len(queue) + 1 : queue'[i] = IF i <= Len(queue) THEN queue[i] ELSE STOP
  BY <1>1, <1>2, PutFacts
<1>4. /\ close' \in [pc : {"open", "closed"} \union Closing, bounded : BOOLEAN,
                     drained : BOOLEAN, stops : 0..Cardinality(Workers)]
      /\ close'.pc = close.pc /\ close'.drained = close.drained
  <2>1. close.stops + 1 \in 0..Cardinality(Workers)
    BY <1>1, <1>2
  <2>2. QED BY <1>1, <1>2, <2>1
<1>5. TypeOK'
  BY <1>1, <1>2, <1>3, <1>4 DEF UploaderInv, TypeOK
<1>6. CountsAgree'
  BY <1>1, <1>2, <1>3, BusyFacts DEF UploaderInv, CountsAgree, Busy, BusyWorkers
<1>7. Filed'
  <2>1. \A i, j \in 1..Len(queue') : queue'[i] = queue'[j] /\ queue'[i] # STOP => i = j
    BY <1>3 DEF UploaderInv, Filed
  <2>2. ASSUME NEW g \in Files
        PROVE  fate'[g] = "queued" <=> \E i \in 1..Len(queue') : queue'[i] = g
    <3>1. \A i \in 1..Len(queue') : queue'[i] = g <=> i \in 1..Len(queue) /\ queue[i] = g
      BY <1>3, StopAssumption
    <3>2. 1..Len(queue) \subseteq 1..Len(queue')
      BY <1>3
    <3>3. QED BY <1>1, <3>1, <3>2 DEF UploaderInv, Filed
  <2>3. QED
    BY <1>1, <2>1, <2>2 DEF UploaderInv, Filed, Busy
<1>8. Closed'
  BY <1>1, <1>4 DEF UploaderInv, Closed
<1>9. QED BY <1>5, <1>6, <1>7, <1>8 DEF UploaderInv

LEMMA AbandonKeeps ==
    ASSUME UploaderInv, Abandon
    PROVE  UploaderInv'
<1>. DEFINE h == Head(queue)
<1>1. /\ queue # <<>> /\ queue' = Tail(queue) /\ unfinished' = unfinished - 1
      /\ fate' = [fate EXCEPT ![h] = "abandoned"] /\ close.pc = "abandon"
      /\ UNCHANGED <<worker, close, pool, late>>
  BY DEF Abandon, FateOf
<1>2. /\ h \in Files \union {STOP} /\ queue' \in Seq(Files \union {STOP})
      /\ Len(queue) \in Nat \ {0} /\ Len(queue') = Len(queue) - 1
      /\ \A i, j \in 1..Len(queue') : queue'[i] = queue'[j] /\ queue'[i] # STOP => i = j
      /\ \A f \in Files : (\E i \in 1..Len(queue') : queue'[i] = f) <=> fate[f] = "queued" /\ f # h
      /\ h # STOP => fate[h] = "queued"
  BY <1>1, HeadLeaves
<1>. HIDE DEF h
<1>3. /\ fate \in [Files -> Fates] /\ unfinished \in Nat
  BY DEF UploaderInv, TypeOK
<1>4. /\ fate' \in [Files -> Fates]
      /\ \A g \in Files : fate'[g] = IF g = h THEN "abandoned" ELSE fate[g]
  BY <1>1, <1>3 DEF Fates
<1>5. unfinished = Len(queue) + Cardinality(BusyWorkers) /\ Cardinality(BusyWorkers) \in Nat
  BY BusyFacts DEF UploaderInv, CountsAgree, BusyWorkers
<1>6. CountsAgree'
  BY <1>1, <1>2, <1>5 DEF CountsAgree, Busy, BusyWorkers
<1>7. unfinished' \in Nat
  BY <1>1, <1>2, <1>5
<1>8. TypeOK'
  BY <1>1, <1>2, <1>4, <1>7 DEF UploaderInv, TypeOK
<1>9. Filed'
  <2>1. ASSUME NEW w \in Workers, Busy(w)
        PROVE  fate'[worker[w].file] = "uploading"
    <3>1. worker[w].file \in Files
      BY <2>1 DEF UploaderInv, TypeOK, Busy, Getting, Gone
    <3>2. fate[worker[w].file] = "uploading"
      BY <2>1 DEF UploaderInv, Filed
    <3>3. worker[w].file # h
      BY <1>2, <3>1, <3>2, StopAssumption
    <3>4. QED BY <1>4, <3>1, <3>2, <3>3
  <2>2. \A g \in Files : fate'[g] = "queued" <=> fate[g] = "queued" /\ g # h
    BY <1>4
  <2>3. \A g \in Files : fate'[g] = "uploading" => fate[g] = "uploading"
    BY <1>4
  <2>4. QED
    BY <1>1, <1>2, <2>1, <2>2, <2>3 DEF UploaderInv, Filed, Busy
<1>10. Closed'
  BY <1>1, <1>4 DEF UploaderInv, Closed
<1>11. QED BY <1>6, <1>8, <1>9, <1>10 DEF UploaderInv

-----------------------------------------------------------------------------
(* The workers.                                                            *)

LEMMA WorkerTypes ==
    ASSUME TypeOK, NEW w \in Workers
    PROVE  /\ Busy(w) => /\ worker[w].file \in Files /\ worker[w].attempt \in 0..MaxRetries
                         /\ worker[w] \in [pc : {"busy"}, file : Files, attempt : 0..MaxRetries]
           /\ worker[w] \in {Getting, Gone} => ~Busy(w)
BY DEF TypeOK, Busy, Getting, Gone

LEMMA TakeKeeps ==
    ASSUME UploaderInv, NEW w \in Workers, Take(w)
    PROVE  UploaderInv'
<1>. DEFINE h == Head(queue)
            taken == [pc |-> "busy", file |-> h, attempt |-> 0]
<1>1. /\ queue # <<>> /\ h # STOP /\ queue' = Tail(queue) /\ worker[w] = Getting
      /\ worker' = [worker EXCEPT ![w] = taken]
      /\ fate' = [fate EXCEPT ![h] = "uploading"]
      /\ UNCHANGED <<unfinished, close, pool, late>>
  BY DEF Take, FateOf
<1>2. /\ h \in Files /\ queue' \in Seq(Files \union {STOP})
      /\ Len(queue) \in Nat \ {0} /\ Len(queue') = Len(queue) - 1
      /\ \A i, j \in 1..Len(queue') : queue'[i] = queue'[j] /\ queue'[i] # STOP => i = j
      /\ \A f \in Files : (\E i \in 1..Len(queue') : queue'[i] = f) <=> fate[f] = "queued" /\ f # h
      /\ fate[h] = "queued"
  BY <1>1, HeadLeaves
<1>3. /\ taken \in [pc : {"busy"}, file : Files, attempt : 0..MaxRetries]
      /\ taken.pc = "busy" /\ taken.file = h
  BY <1>2, UploaderAssumption
<1>. HIDE DEF h, taken
<1>4. /\ fate' \in [Files -> Fates]
      /\ \A g \in Files : fate'[g] = IF g = h THEN "uploading" ELSE fate[g]
  BY <1>1, <1>2 DEF UploaderInv, TypeOK, Fates
<1>5. /\ worker' \in [Workers -> {Getting, Gone} \union
                        [pc : {"busy"}, file : Files, attempt : 0..MaxRetries]]
      /\ \A v \in Workers : worker'[v] = IF v = w THEN taken ELSE worker[v]
  BY <1>1, <1>3 DEF UploaderInv, TypeOK
<1>6. TypeOK'
  BY <1>1, <1>2, <1>4, <1>5 DEF UploaderInv, TypeOK
<1>7. /\ ~Busy(w) /\ Busy(w)' /\ \A v \in Workers \ {w} : Busy(v)' = Busy(v)
      /\ \A v \in Workers : Busy(v) => worker[v].file \in Files
  <2>1. ~Busy(w)
    BY <1>1, WorkerTypes DEF UploaderInv
  <2>2. \A v \in Workers : Busy(v) => worker[v].file \in Files
    BY WorkerTypes DEF UploaderInv
  <2>3. Busy(w)' /\ \A v \in Workers \ {w} : Busy(v)' = Busy(v)
    BY <1>3, <1>5 DEF Busy
  <2>4. QED BY <2>1, <2>2, <2>3
<1>8. CountsAgree'
  <2>1. BusyWorkers' = BusyWorkers \union {w} /\ w \in Workers \ BusyWorkers
    BY <1>7 DEF BusyWorkers
  <2>2. Cardinality(BusyWorkers') = Cardinality(BusyWorkers) + 1
    BY <2>1, BusyFacts
  <2>3. unfinished = Len(queue) + Cardinality(BusyWorkers) /\ Cardinality(BusyWorkers) \in Nat
    BY BusyFacts DEF UploaderInv, CountsAgree, BusyWorkers
  <2>4. unfinished' = Len(queue') + Cardinality(BusyWorkers')
    BY <1>1, <1>2, <2>2, <2>3
  <2>5. QED BY <2>4 DEF CountsAgree, BusyWorkers
<1>9. Filed'
  <2>1. \A v \in Workers : Busy(v) => fate[worker[v].file] = "uploading" /\ worker[v].file # h
    BY <1>2 DEF UploaderInv, Filed
  <2>2. \A v \in Workers : Busy(v)' => fate'[worker'[v].file] = "uploading"
    BY <1>2, <1>3, <1>4, <1>5, <1>7, <2>1
  <2>3. \A u, v \in Workers : Busy(u)' /\ Busy(v)' /\ worker'[u].file = worker'[v].file => u = v
    BY <1>3, <1>5, <1>7, <2>1 DEF UploaderInv, Filed
  <2>4. \A g \in Files : fate'[g] = "queued" <=> fate[g] = "queued" /\ g # h
    BY <1>4
  <2>5. ASSUME NEW g \in Files, fate'[g] = "uploading"
        PROVE  \E v \in Workers : Busy(v)' /\ worker'[v].file = g
    <3>1. CASE g = h
      BY <1>3, <1>5, <1>7, <3>1
    <3>2. CASE g # h
      <4>1. PICK v \in Workers : Busy(v) /\ worker[v].file = g
        BY <1>4, <2>5, <3>2 DEF UploaderInv, Filed
      <4>2. QED BY <1>5, <1>7, <4>1
    <3>3. QED BY <3>1, <3>2
  <2>6. QED BY <1>2, <2>2, <2>3, <2>4, <2>5 DEF Filed
<1>10. Closed'
  <2>1. close.pc \in {"stop", "join", "shutdown", "closed"} => h \in late
    BY <1>2 DEF UploaderInv, Closed
  <2>2. QED BY <1>1, <1>4, <2>1 DEF UploaderInv, Closed
<1>11. QED BY <1>6, <1>8, <1>9, <1>10 DEF UploaderInv

LEMMA TakeStopKeeps ==
    ASSUME UploaderInv, NEW w \in Workers, TakeStop(w)
    PROVE  UploaderInv'
<1>1. /\ queue # <<>> /\ Head(queue) = STOP /\ queue' = Tail(queue) /\ worker[w] = Getting
      /\ worker' = [worker EXCEPT ![w] = Gone] /\ unfinished' = unfinished - 1
      /\ UNCHANGED <<fate, close, pool, late>>
  BY DEF TakeStop
<1>2. /\ queue' \in Seq(Files \union {STOP})
      /\ Len(queue) \in Nat \ {0} /\ Len(queue') = Len(queue) - 1
      /\ \A i, j \in 1..Len(queue') : queue'[i] = queue'[j] /\ queue'[i] # STOP => i = j
      /\ \A f \in Files : (\E i \in 1..Len(queue') : queue'[i] = f) <=> fate[f] = "queued"
  BY <1>1, HeadLeaves, StopAssumption
<1>3. /\ worker' \in [Workers -> {Getting, Gone} \union
                        [pc : {"busy"}, file : Files, attempt : 0..MaxRetries]]
      /\ \A v \in Workers : worker'[v] = IF v = w THEN Gone ELSE worker[v]
  BY <1>1 DEF UploaderInv, TypeOK
<1>4. \A v \in Workers : Busy(v)' = Busy(v) /\ (Busy(v) => worker'[v] = worker[v])
  BY <1>1, <1>3 DEF Busy, Getting, Gone
<1>5. unfinished = Len(queue) + Cardinality(BusyWorkers) /\ Cardinality(BusyWorkers) \in Nat
  BY BusyFacts DEF UploaderInv, CountsAgree, BusyWorkers
<1>6. CountsAgree'
  <2>1. BusyWorkers' = BusyWorkers
    BY <1>4 DEF BusyWorkers
  <2>2. unfinished' = Len(queue') + Cardinality(BusyWorkers')
    BY <1>1, <1>2, <1>5, <2>1
  <2>3. QED BY <2>2 DEF CountsAgree, BusyWorkers
<1>7. unfinished' \in Nat
  BY <1>1, <1>2, <1>5
<1>8. TypeOK'
  BY <1>1, <1>2, <1>3, <1>7 DEF UploaderInv, TypeOK
<1>9. Filed'
  BY <1>1, <1>2, <1>4 DEF UploaderInv, Filed
<1>10. Closed'
  BY <1>1 DEF UploaderInv, Closed
<1>11. QED BY <1>6, <1>8, <1>9, <1>10 DEF UploaderInv

LEMMA FinishKeeps ==
    ASSUME UploaderInv, NEW w \in Workers, NEW outcome \in {"stored", "failed"},
           Busy(w), Finish(w, outcome), UNCHANGED <<queue, close, late>>, pool' = pool \ {w}
    PROVE  UploaderInv'
<1>. DEFINE f == worker[w].file
<1>1. /\ fate' = [fate EXCEPT ![f] = outcome] /\ unfinished' = unfinished - 1
      /\ worker' = [worker EXCEPT ![w] = Getting]
  BY DEF Finish, FateOf
<1>2. f \in Files /\ fate[f] = "uploading" /\ outcome \in Fates
  BY WorkerTypes DEF UploaderInv, Filed, Fates
<1>. HIDE DEF f
<1>3. /\ fate' \in [Files -> Fates]
      /\ \A g \in Files : fate'[g] = IF g = f THEN outcome ELSE fate[g]
  BY <1>1, <1>2 DEF UploaderInv, TypeOK
<1>4. /\ worker' \in [Workers -> {Getting, Gone} \union
                        [pc : {"busy"}, file : Files, attempt : 0..MaxRetries]]
      /\ \A v \in Workers : worker'[v] = IF v = w THEN Getting ELSE worker[v]
  BY <1>1 DEF UploaderInv, TypeOK
<1>5. \A v \in Workers : Busy(v)' <=> Busy(v) /\ v # w
  BY <1>4 DEF Busy, Getting
<1>6. /\ unfinished = Len(queue) + Cardinality(BusyWorkers) /\ Cardinality(BusyWorkers) \in Nat
      /\ Len(queue) \in Nat
  BY BusyFacts DEF UploaderInv, CountsAgree, BusyWorkers, TypeOK
<1>7. BusyWorkers' = BusyWorkers \ {w} /\ Cardinality(BusyWorkers \ {w}) = Cardinality(BusyWorkers) - 1
  <2>1. w \in BusyWorkers
    BY DEF BusyWorkers
  <2>2. BusyWorkers' = BusyWorkers \ {w}
    BY <1>5 DEF BusyWorkers
  <2>3. QED BY <2>1, <2>2, BusyFacts
<1>8. Cardinality(BusyWorkers') \in Nat
  <2>1. IsFiniteSet(BusyWorkers')
    BY <1>7, BusyFacts, FS_Subset
  <2>2. QED BY <2>1, FS_CardinalityType
<1>9. unfinished' = Len(queue') + Cardinality(BusyWorkers') /\ unfinished' \in Nat
  BY <1>1, <1>6, <1>7, <1>8
<1>10. CountsAgree'
  BY <1>9 DEF CountsAgree, BusyWorkers
<1>11. TypeOK'
  BY <1>3, <1>4, <1>9 DEF UploaderInv, TypeOK
<1>12. Filed'
  <2>1. \A v \in Workers : Busy(v) /\ v # w => worker[v].file # f /\ worker[v].file \in Files
    BY WorkerTypes DEF UploaderInv, Filed, f
  <2>2. \A v \in Workers : Busy(v)' => fate'[worker'[v].file] = "uploading"
    BY <1>3, <1>4, <1>5, <2>1 DEF UploaderInv, Filed
  <2>3. \A u, v \in Workers : Busy(u)' /\ Busy(v)' /\ worker'[u].file = worker'[v].file => u = v
    BY <1>4, <1>5 DEF UploaderInv, Filed
  <2>4. \A g \in Files : fate'[g] = "queued" <=> fate[g] = "queued"
    BY <1>2, <1>3
  <2>5. ASSUME NEW g \in Files, fate'[g] = "uploading"
        PROVE  \E v \in Workers : Busy(v)' /\ worker'[v].file = g
    <3>1. g # f /\ fate[g] = "uploading"
      BY <1>3, <2>5
    <3>2. PICK v \in Workers : Busy(v) /\ worker[v].file = g
      BY <3>1 DEF UploaderInv, Filed
    <3>3. v # w
      BY <3>1, <3>2 DEF f
    <3>4. QED BY <1>4, <1>5, <3>2, <3>3
  <2>6. QED BY <2>2, <2>3, <2>4, <2>5 DEF UploaderInv, Filed
<1>13. Closed'
  BY <1>3 DEF UploaderInv, Closed
<1>14. QED BY <1>10, <1>11, <1>12, <1>13 DEF UploaderInv

LEMMA RetryKeeps ==
    ASSUME UploaderInv, NEW w \in Workers, Busy(w), worker[w].attempt < MaxRetries,
           worker' = [worker EXCEPT ![w].attempt = worker[w].attempt + 1],
           UNCHANGED <<fate, queue, unfinished, close, late>>, pool' = pool \ {w}
    PROVE  UploaderInv'
<1>. DEFINE again == [worker[w] EXCEPT !.attempt = worker[w].attempt + 1]
<1>1. /\ worker[w] \in [pc : {"busy"}, file : Files, attempt : 0..MaxRetries]
      /\ worker[w].attempt + 1 \in 0..MaxRetries
  BY WorkerTypes, UploaderAssumption DEF UploaderInv
<1>2. /\ again \in [pc : {"busy"}, file : Files, attempt : 0..MaxRetries]
      /\ again.pc = "busy" /\ again.file = worker[w].file
  BY <1>1
<1>3. worker' = [worker EXCEPT ![w] = again]
  BY DEF UploaderInv, TypeOK
<1>. HIDE DEF again
<1>4. /\ worker' \in [Workers -> {Getting, Gone} \union
                        [pc : {"busy"}, file : Files, attempt : 0..MaxRetries]]
      /\ \A v \in Workers : worker'[v] = IF v = w THEN again ELSE worker[v]
  <2>1. worker \in [Workers -> {Getting, Gone} \union
                        [pc : {"busy"}, file : Files, attempt : 0..MaxRetries]]
    BY DEF UploaderInv, TypeOK
  <2>2. worker' \in [Workers -> {Getting, Gone} \union
                         [pc : {"busy"}, file : Files, attempt : 0..MaxRetries]]
    BY <1>2, <1>3, <2>1
  <2>3. \A v \in Workers : worker'[v] = IF v = w THEN again ELSE worker[v]
    BY <1>3, <2>1
  <2>4. QED BY <2>2, <2>3
<1>5. \A v \in Workers : Busy(v)' = Busy(v) /\ (Busy(v) => worker'[v].file = worker[v].file)
  BY <1>2, <1>4 DEF Busy
<1>6. TypeOK'
  BY <1>4 DEF UploaderInv, TypeOK
<1>7. CountsAgree'
  BY <1>5 DEF UploaderInv, CountsAgree
<1>8. Filed'
  BY <1>5 DEF UploaderInv, Filed
<1>9. Closed'
  BY DEF UploaderInv, Closed
<1>10. QED BY <1>6, <1>7, <1>8, <1>9 DEF UploaderInv

-----------------------------------------------------------------------------
(* The theorems.                                                           *)

LEMMA UploaderInvariance == Spec => []UploaderInv
<1>1. Init => UploaderInv
  <2> SUFFICES ASSUME Init PROVE UploaderInv
    OBVIOUS
  <2>1. TypeOK
    <3>1. Cardinality(Workers) \in Nat
      BY UploaderAssumption, FS_CardinalityType
    <3>2. 0 \in 0..Cardinality(Workers)
      BY <3>1
    <3>3. QED BY <3>2 DEF Init, TypeOK, Fates
  <2>2. \A w \in Workers : ~Busy(w)
    BY DEF Init, Busy, Getting
  <2>3. CountsAgree
    <3>1. Cardinality(BusyWorkers) = 0 /\ Len(queue) = 0
      BY <2>2, BusyFacts DEF Init
    <3>2. QED BY <3>1 DEF CountsAgree, BusyWorkers, Init
  <2>4. Filed
    BY <2>2 DEF Init, Filed
  <2>5. Closed
    BY DEF Init, Closed
  <2>6. QED BY <2>1, <2>3, <2>4, <2>5 DEF UploaderInv
<1>2. UploaderInv /\ [Next]_vars => UploaderInv'
  <2> SUFFICES ASSUME UploaderInv, [Next]_vars PROVE UploaderInv'
    OBVIOUS
  <2>1. ASSUME NEW f \in Files, Check(f) \/ Put(f) PROVE UploaderInv'
    BY <2>1, CheckKeeps, PutKeeps
  <2>2. ASSUME NEW w \in Workers, Work(w) PROVE UploaderInv'
    BY <2>2, TakeKeeps, TakeStopKeeps DEF Work
  <2>3. ASSUME NEW w \in Workers, AttemptSucceeds(w) PROVE UploaderInv'
    BY <2>3, FinishKeeps DEF AttemptSucceeds
  <2>4. ASSUME NEW w \in Workers, AttemptFails(w) PROVE UploaderInv'
    <3>1. CASE worker[w].attempt < MaxRetries
      <4>1. \/ worker[w].attempt = MaxRetries /\ Finish(w, "failed")
            \/ /\ worker' = [worker EXCEPT ![w].attempt = worker[w].attempt + 1]
               /\ UNCHANGED <<fate, unfinished>>
        BY <2>4 DEF AttemptFails
      <4>2. QED BY <2>4, <3>1, <4>1, RetryKeeps, FinishKeeps DEF AttemptFails
    <3>2. CASE ~(worker[w].attempt < MaxRetries)
      BY <2>4, <3>2, FinishKeeps DEF AttemptFails
    <3>3. QED BY <3>1, <3>2
  <2>5. CASE BeginClose \/ CloseStep
    BY <2>5, ClosingKeeps, AbandonKeeps, PutStopKeeps DEF CloseStep
  <2>6. CASE UNCHANGED vars
    BY <2>6 DEF vars, UploaderInv, TypeOK, CountsAgree, Filed, Closed, Busy
  <2>7. QED
    BY <2>1, <2>2, <2>3, <2>4, <2>5, <2>6 DEF Next
<1>3. QED
  BY <1>1, <1>2, PTL DEF Spec

\* The state stays well-typed: in particular unfinished_tasks never goes
\* below zero, where Queue.task_done() would raise.
THEOREM UploaderTyping == Spec => []TypeOK
<1>1. UploaderInv => TypeOK
  BY DEF UploaderInv
<1>2. QED BY <1>1, UploaderInvariance, PTL

\* _abandon_pending() and _worker_loop(): unfinished_tasks counts what is
\* queued or in a worker's hands.
THEOREM TasksAreCounted == Spec => []CountsAgree
<1>1. UploaderInv => CountsAgree
  BY DEF UploaderInv
<1>2. QED BY <1>1, UploaderInvariance, PTL

\* close(): a drain that ends has seen every earlier file through.
THEOREM DrainIsComplete == Spec => []DrainedIsComplete
<1>1. UploaderInv => DrainedIsComplete
  BY DEF UploaderInv, Closed, DrainedIsComplete
<1>2. QED BY <1>1, UploaderInvariance, PTL

\* close(): nothing but a file whose put() raced with it stays behind.
THEOREM OnlyRacersAreStranded == Spec => []OnlyLateFilesAreStranded
<1>1. UploaderInv => OnlyLateFilesAreStranded
  BY DEF UploaderInv, Closed, OnlyLateFilesAreStranded
<1>2. QED BY <1>1, UploaderInvariance, PTL
=============================================================================
