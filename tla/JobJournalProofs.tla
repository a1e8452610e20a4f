-------------------------- MODULE JobJournalProofs --------------------------
(***************************************************************************)
(* For any set of jobs, however often the process stops and wherever a     *)
(* file operation fails: the journal implements JobLifecycle, recovery     *)
(* leaves no orphan, and a job has two files only when a move was torn.    *)
(***************************************************************************)
EXTENDS JobJournal, TLAPS

(* What is on disk while a move is under way.                              *)
MoveInv ==
    \A j \in Jobs :
        /\ move[j].pc = "write" /\ move[j].from = "none"
               => held[j] = {} /\ move[j].to = "pending"
        /\ move[j].pc = "write" /\ move[j].from # "none"
               => move[j].from \in held[j] /\ move[j].from # move[j].to
        /\ move[j].pc = "unlink"
               => /\ move[j].from # "none" /\ move[j].from # move[j].to
                  /\ move[j].to \in held[j]

(* In the running process only a dequeue puts a job in in_progress.        *)
TakenInv ==
    phase = "run" =>
        \A j \in Jobs : \/ "in_progress" \in held[j]
                        \/ ~Idle(j) /\ move[j].to = "in_progress"
                        => j \in taken

(* A job that was never torn has one file, and two inside a move.          *)
OneFileInv ==
    \A j \in Jobs \ torn :
        /\ move[j].pc # "unlink" => \A a, b \in held[j] : a = b
        /\ move[j].pc = "unlink" => held[j] \subseteq {move[j].from, move[j].to}

JournalInv == TypeOK /\ MoveInv /\ TakenInv /\ OneFileInv

-----------------------------------------------------------------------------
LEMMA InitJournalInv == Init => JournalInv
BY DEF Init, JournalInv, TypeOK, MoveInv, TakenInv, OneFileInv, NoMove, Moves,
       STATES, Active, Idle

(* Starting an operation changes nothing on disk.                          *)
LEMMA BeginKeepsTyping ==
    ASSUME TypeOK, NEW j \in Jobs, NEW from \in Active \union {"none"},
           NEW to \in STATES, Begin(j, from, to)
    PROVE  /\ move' \in [Jobs -> Moves]
           /\ move'[j] = [pc |-> "write", from |-> from, to |-> to]
           /\ \A k \in Jobs \ {j} : move'[k] = move[k]
           /\ UNCHANGED <<held, phase, torn>>
BY DEF Begin, TypeOK, Moves

LEMMA BeginKeepsJournalInv ==
    ASSUME JournalInv, NEW j \in Jobs, NEW from \in Active \union {"none"},
           NEW to \in STATES, Begin(j, from, to),
           from = "none" => held[j] = {} /\ to = "pending",
           from # "none" => from \in held[j] /\ from # to,
           taken \subseteq taken', taken' \subseteq Jobs,
           phase = "run" /\ to = "in_progress" => j \in taken'
    PROVE  JournalInv'
<1>1. /\ move' \in [Jobs -> Moves]
      /\ move'[j] = [pc |-> "write", from |-> from, to |-> to]
      /\ \A k \in Jobs \ {j} : move'[k] = move[k]
      /\ UNCHANGED <<held, phase, torn>>
    BY BeginKeepsTyping DEF JournalInv
<1>2. Idle(j)
    BY DEF Begin
<1>3. TypeOK'
    BY <1>1 DEF JournalInv, TypeOK
<1>4. MoveInv'
    BY <1>1 DEF JournalInv, MoveInv
<1>5. TakenInv'
    BY <1>1 DEF JournalInv, TakenInv, Idle
<1>6. OneFileInv'
    BY <1>1, <1>2 DEF JournalInv, OneFileInv, Idle
<1> QED BY <1>3, <1>4, <1>5, <1>6 DEF JournalInv

LEMMA OperationsKeepJournalInv ==
    ASSUME JournalInv, NEW j \in Jobs,
           Enqueue(j) \/ Dequeue(j) \/ Mark(j) \/ Recover(j)
    PROVE  JournalInv'
<1> {"none", "pending", "in_progress"} = Active \union {"none"}
    BY DEF Active
<1> /\ {"pending", "in_progress", "completed", "failed"} = STATES
    /\ taken \subseteq Jobs
    BY DEF STATES, JournalInv, TypeOK
<1>1. CASE Enqueue(j)
    <2>1. held[j] = {}
        BY <1>1 DEF Enqueue, Find, Source, JournalInv, TypeOK, STATES
    <2>2. Begin(j, "none", "pending") /\ UNCHANGED taken
        BY <1>1 DEF Enqueue
    <2> QED BY <2>1, <2>2, BeginKeepsJournalInv
<1>2. CASE Dequeue(j)
    <2>1. Begin(j, "pending", "in_progress") /\ "pending" \in held[j]
        BY <1>2 DEF Dequeue
    <2>2. taken' = taken \union {j}
        BY <1>2 DEF Dequeue
    <2> QED BY <2>1, <2>2, BeginKeepsJournalInv
<1>3. CASE Mark(j)
    <2>1. PICK final \in {"completed", "failed"} : Begin(j, Source(j), final)
        BY <1>3 DEF Mark
    <2>2. Source(j) \in held[j] \intersect Active
        BY <1>3 DEF Mark, Source, Active
    <2>3. UNCHANGED taken
        BY <1>3 DEF Mark
    <2>4. Source(j) # "none" /\ Source(j) # final
        BY <2>2 DEF Active
    <2> QED BY <2>1, <2>2, <2>3, <2>4, BeginKeepsJournalInv
<1>4. CASE Recover(j)
    <2>1. Begin(j, "in_progress", "pending") /\ "in_progress" \in held[j]
        BY <1>4 DEF Recover
    <2>2. UNCHANGED taken
        BY <1>4 DEF Recover
    <2> QED BY <2>1, <2>2, BeginKeepsJournalInv
<1> QED BY <1>1, <1>2, <1>3, <1>4

LEMMA DiskKeepsJournalInv ==
    ASSUME JournalInv, NEW j \in Jobs, Write(j) \/ Unlink(j) \/ MoveFails(j)
    PROVE  JournalInv'
<1> USE DEF JournalInv
<1>1. CASE Write(j)
    <2>1. /\ held'[j] = held[j] \union {move[j].to}
          /\ move'[j] = IF move[j].from = "none" THEN NoMove
                        ELSE [move[j] EXCEPT !.pc = "unlink"]
          /\ \A k \in Jobs \ {j} : held'[k] = held[k] /\ move'[k] = move[k]
          /\ UNCHANGED <<phase, taken, torn>>
        BY <1>1 DEF Write, TypeOK
    <2>2. move[j] \in Moves /\ move[j].pc = "write"
        BY <1>1 DEF Write, TypeOK
    <2>3. TypeOK'
        BY <1>1, <2>2 DEF Write, TypeOK, Moves, NoMove, STATES, Active
    <2>4. MoveInv'
        BY <2>1, <2>2 DEF MoveInv, Moves, NoMove
    <2>5. TakenInv'
        BY <2>1, <2>2 DEF TakenInv, Moves, NoMove, Idle
    <2>6. OneFileInv'
        BY <2>1, <2>2 DEF OneFileInv, MoveInv, Moves, NoMove
    <2> QED BY <2>3, <2>4, <2>5, <2>6
<1>2. CASE Unlink(j)
    <2>1. /\ held'[j] = held[j] \ {move[j].from}
          /\ move'[j] = NoMove
          /\ \A k \in Jobs \ {j} : held'[k] = held[k] /\ move'[k] = move[k]
          /\ UNCHANGED <<phase, taken, torn>>
        BY <1>2 DEF Unlink, TypeOK
    <2>2. move[j] \in Moves /\ move[j].pc = "unlink"
        BY <1>2 DEF Unlink, TypeOK
    <2>3. TypeOK'
        BY <1>2 DEF Unlink, TypeOK, Moves, NoMove, STATES, Active
    <2>4. MoveInv'
        BY <2>1 DEF MoveInv, NoMove
    <2>5. TakenInv'
        BY <2>1 DEF TakenInv, NoMove, Idle
    <2>6. OneFileInv'
        BY <2>1, <2>2 DEF OneFileInv, NoMove
    <2> QED BY <2>3, <2>4, <2>5, <2>6
<1>3. CASE MoveFails(j)
    <2>1. /\ move'[j] = NoMove
          /\ \A k \in Jobs \ {j} : move'[k] = move[k]
          /\ torn' = torn \union (Torn \intersect {j})
          /\ UNCHANGED <<held, phase, taken>>
        BY <1>3 DEF MoveFails, TypeOK
    <2>2. TypeOK'
        BY <1>3 DEF MoveFails, TypeOK, Moves, NoMove, STATES, Active
    <2>3. MoveInv' /\ TakenInv'
        BY <2>1 DEF MoveInv, TakenInv, NoMove, Idle
    <2>4. OneFileInv'
        BY <2>1 DEF OneFileInv, Torn, NoMove
    <2> QED BY <2>2, <2>3, <2>4
<1> QED BY <1>1, <1>2, <1>3

LEMMA ProcessKeepsJournalInv ==
    ASSUME JournalInv, RecoverEnds \/ Stop \/ Restart
    PROVE  JournalInv'
<1> USE DEF JournalInv
<1>1. CASE RecoverEnds
    BY <1>1 DEF RecoverEnds, TypeOK, MoveInv, TakenInv, OneFileInv, Idle
<1>2. CASE Stop
    BY <1>2 DEF Stop, Torn, TypeOK, MoveInv, TakenInv, OneFileInv, NoMove,
                Moves, STATES, Active
<1>3. CASE Restart
    BY <1>3 DEF Restart, TypeOK, MoveInv, TakenInv, OneFileInv
<1> QED BY <1>1, <1>2, <1>3

LEMMA NextKeepsJournalInv == JournalInv /\ [Next]_vars => JournalInv'
<1> SUFFICES ASSUME JournalInv, [Next]_vars PROVE JournalInv'
    OBVIOUS
<1>1. CASE UNCHANGED vars
    BY <1>1 DEF vars, JournalInv, TypeOK, MoveInv, TakenInv, OneFileInv, Idle
<1>2. CASE Next
    BY <1>2, OperationsKeepJournalInv, DiskKeepsJournalInv, ProcessKeepsJournalInv
    DEF Next
<1> QED BY <1>1, <1>2

LEMMA JournalInvHolds == Spec => []JournalInv
BY InitJournalInv, NextKeepsJournalInv, PTL DEF Spec

-----------------------------------------------------------------------------
(* The variables stay in their types.                                      *)
THEOREM JournalTypes == Spec => []TypeOK
BY JournalInvHolds, PTL DEF JournalInv

(* Whatever the crashed process was doing, after recover() a job found in  *)
(* in_progress was picked up by the process that is running.               *)
THEOREM RecoverySafety == Spec => []NoOrphanInProgress
<1>1. JournalInv => NoOrphanInProgress
    BY DEF JournalInv, TakenInv, NoOrphanInProgress
<1> QED BY <1>1, JournalInvHolds, PTL

(* A job at rest in two directories was torn between rename and unlink.    *)
THEOREM TornSafety == Spec => []TwoFilesOnlyWhenTorn
<1>1. JournalInv => TwoFilesOnlyWhenTorn
    BY DEF JournalInv, OneFileInv, TwoFilesOnlyWhenTorn, Idle
<1> QED BY <1>1, JournalInvHolds, PTL

-----------------------------------------------------------------------------
(* Refinement: only Write and Unlink change where a job is found.          *)

Located == [j \in Jobs |-> Find(j)]

LEMMA FindDependsOnHeld ==
    ASSUME NEW j \in Jobs, held'[j] = held[j]
    PROVE  Find(j)' = Find(j)
BY DEF Find, Source

LEMMA Relocated ==
    ASSUME NEW j \in Jobs, \A k \in Jobs \ {j} : held'[k] = held[k]
    PROVE  Located' = [Located EXCEPT ![j] = Find(j)']
BY FindDependsOnHeld DEF Located

LEMMA WriteRefines ==
    ASSUME JournalInv, NEW j \in Jobs, Write(j)
    PROVE  [Lifecycle!Next]_Located
<1>1. held'[j] = held[j] \union {move[j].to}
    BY DEF Write, JournalInv, TypeOK
<1>2. \A k \in Jobs \ {j} : held'[k] = held[k]
    BY DEF Write, JournalInv, TypeOK
<1>3. move[j] \in Moves /\ move[j].pc = "write"
    BY DEF Write, JournalInv, TypeOK
<1>4. CASE move[j].from = "none"
    <2>1. Find(j) = "absent" /\ Find(j)' = "pending"
        BY <1>1, <1>3, <1>4 DEF JournalInv, MoveInv, Find, Source
    <2>2. Lifecycle!Enqueue(j)
        BY <1>2, <2>1, Relocated
        DEF Lifecycle!Enqueue, Lifecycle!Becomes, Located
    <2> QED BY <2>2 DEF Lifecycle!Next
<1>5. CASE move[j].from # "none" /\ Find(j)' = Find(j)
    BY <1>2, <1>5, Relocated DEF Located
<1>6. CASE move[j].from # "none" /\ Find(j)' # Find(j)
    <2>1. Find(j) = "in_progress" /\ Find(j)' = "pending"
        BY <1>1, <1>3, <1>6
        DEF JournalInv, MoveInv, Moves, STATES, Active, Find, Source
    <2>2. Lifecycle!Reset(j)
        BY <1>2, <2>1, Relocated
        DEF Lifecycle!Reset, Lifecycle!Becomes, Located
    <2> QED BY <2>2 DEF Lifecycle!Next
<1> QED BY <1>4, <1>5, <1>6

LEMMA UnlinkRefines ==
    ASSUME JournalInv, NEW j \in Jobs, Unlink(j)
    PROVE  [Lifecycle!Next]_Located
<1>1. held'[j] = held[j] \ {move[j].from}
    BY DEF Unlink, JournalInv, TypeOK
<1>2. \A k \in Jobs \ {j} : held'[k] = held[k]
    BY DEF Unlink, JournalInv, TypeOK
<1>3. move[j] \in Moves /\ move[j].pc = "unlink"
    BY DEF Unlink, JournalInv, TypeOK
<1>4. /\ move[j].to \in held'[j]
      /\ move[j].from \in Active
    BY <1>1, <1>3 DEF JournalInv, MoveInv, Moves
<1>5. CASE Find(j)' = Find(j)
    BY <1>2, <1>5, Relocated DEF Located
<1>6. CASE Find(j) = "pending" /\ Find(j)' = "in_progress"
    <2>1. Lifecycle!Start(j)
        BY <1>2, <1>6, Relocated DEF Lifecycle!Start, Lifecycle!Becomes, Located
    <2> QED BY <2>1 DEF Lifecycle!Next
<1>7. CASE Find(j) \in Active /\ Find(j)' \in {"completed", "failed"}
    <2>1. Lifecycle!Finish(j)
        BY <1>2, <1>7, Relocated
        DEF Lifecycle!Finish, Lifecycle!Becomes, Located, Active
    <2> QED BY <2>1 DEF Lifecycle!Next
<1>8. \/ Find(j)' = Find(j)
      \/ Find(j) = "pending" /\ Find(j)' = "in_progress"
      \/ Find(j) \in Active /\ Find(j)' \in {"completed", "failed"}
    BY <1>1, <1>3, <1>4 DEF Moves, STATES, Active, Find, Source
<1> QED BY <1>5, <1>6, <1>7, <1>8

LEMMA StepRefines ==
    ASSUME JournalInv, [Next]_vars
    PROVE  [Lifecycle!Next]_Located
<1>1. CASE \E j \in Jobs : Write(j)
    BY <1>1, WriteRefines
<1>2. CASE \E j \in Jobs : Unlink(j)
    BY <1>2, UnlinkRefines
<1>3. CASE UNCHANGED held
    BY <1>3, FindDependsOnHeld DEF Located
<1> QED
    BY <1>1, <1>2, <1>3
    DEF Next, vars, Enqueue, Dequeue, Mark, Recover, Begin, MoveFails,
        RecoverEnds, Stop, Restart

(* Every behaviour of the journal, crashes and failed file operations      *)
(* included, is one of the job lifecycle: jobs never vanish, and one found *)
(* in completed or failed is never active again.                           *)
THEOREM JournalImplementsLifecycle == Spec => ImplementsLifecycle
<1>1. Init => Lifecycle!Init
    BY DEF Init, Lifecycle!Init, Find, Source
<1>2. JournalInv /\ [Next]_vars => [Lifecycle!Next]_Located
    BY StepRefines
<1> QED
    BY <1>1, <1>2, JournalInvHolds, PTL
    DEF Spec, ImplementsLifecycle, Lifecycle!Spec, Located
=============================================================================
