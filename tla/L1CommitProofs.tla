--------------------------- MODULE L1CommitProofs ---------------------------
(* What L1Commit guarantees for every set of processes, drafts and         *)
(* approval instants.                                                      *)
EXTENDS L1Commit, TLAPS

\* The named directories and the empty job have their types; no contract and
\* no journal is the placeholder for an absent file.
LEMMA ShapeLemma ==
    /\ AbsentDir \in Dir /\ EmptyDir \in Dir /\ NoJob \in Job
    /\ None \notin Contract /\ None \notin [contract : Contract, temp : Proc]
    /\ Torn \notin Contract
    /\ \A j \in Job : SealedState(j) \in Dir
    /\ \A c \in Contract, s \in Stamp : [c EXCEPT !.approved = s] \in Contract
BY NoneAssumption DEF AbsentDir, EmptyDir, NoJob, Job, Dir, Receipt, Contract, SealedState

\* A process that leaves the transition without exposing it finds nothing that
\* a repair would complete forward without its state root.
LEMMA LeaveLemma ==
    ASSUME NEW p \in Proc, exposed \in BOOLEAN, Leave(p)
    PROVE  /\ exposed' \in BOOLEAN
           /\ ~exposed' => ~exposed /\ ~(Inside(p) /\ ForwardWithoutState)
BY DEF Leave

\* Every step keeps the shape of every variable.
LEMMA TypeStep == TypeOK /\ LockInv /\ [Next]_vars => TypeOK'
<1> SUFFICES ASSUME TypeOK, LockInv, [Next]_vars PROVE TypeOK'
    OBVIOUS
<1> USE LeaveLemma, ShapeLemma
    DEF TypeOK, LockInv, Goto,
        Pc, HeldPc, RepairPc, CommitPc, EndPc, StagedPc, JournaledPc, BytesPc
<1>1. ASSUME NEW p \in Proc, StartFinalize(p) PROVE TypeOK'
  BY <1>1 DEF StartFinalize, Contract, Job, Receipt
<1>2. ASSUME NEW p \in Proc, StartApprove(p) PROVE TypeOK'
  BY <1>2 DEF StartApprove, Job, Receipt
<1>3. ASSUME NEW p \in Proc, AcquireApprove(p) PROVE TypeOK'
  BY <1>3 DEF AcquireApprove
<1>4. ASSUME NEW p \in Proc, LoadDraft(p) PROVE TypeOK'
  <2>1. CASE Approvable(job[p].contract)
    <3>1. PICK s \in Stamp :
            job' = [job EXCEPT ![p] = [contract |-> [job[p].contract EXCEPT !.approved = s],
                                       receipt |-> "succeeded", held |-> TRUE]]
      BY <1>4, <2>1 DEF LoadDraft
    <3> DEFINE c == [job[p].contract EXCEPT !.approved = s]
               j == [contract |-> c, receipt |-> "succeeded", held |-> TRUE]
    <3>2. c \in Contract
      BY <1>4 DEF LoadDraft
    <3> HIDE DEF c
    <3>3. j \in Job /\ j.contract = c
      BY <3>2 DEF Job, Receipt
    <3>4. job' = [job EXCEPT ![p] = j]
      BY <3>1 DEF c
    <3> HIDE DEF j
    <3> QED
      BY <1>4, <2>1, <3>2, <3>3, <3>4 DEF LoadDraft
  <2>2. CASE ~Approvable(job[p].contract)
    BY <1>4, <2>2 DEF LoadDraft
  <2> QED
    BY <2>1, <2>2
<1>5. ASSUME NEW p \in Proc, Reconcile(p) PROVE TypeOK'
  BY <1>5 DEF Reconcile, RollsBack, AlreadyCommitted, StagedSurvives
<1>6. ASSUME NEW p \in Proc, FailFinally(p) PROVE TypeOK'
  BY <1>6 DEF FailFinally, LeakLock
<1>7. ASSUME NEW p \in Proc, Restore(p) PROVE TypeOK'
  BY <1>7 DEF Restore, Replaceable, AbandonLock, LeakLock
<1>8. ASSUME NEW p \in Proc, DropBackup(p) PROVE TypeOK'
  BY <1>8 DEF DropBackup
<1>9. ASSUME NEW p \in Proc, CloseJournal(p) PROVE TypeOK'
  BY <1>9 DEF CloseJournal
<1>10. ASSUME NEW p \in Proc, MakeTemp(p) PROVE TypeOK'
  BY <1>10 DEF MakeTemp
<1>11. ASSUME NEW p \in Proc, Stage(p) PROVE TypeOK'
  BY <1>11 DEF Stage, Job
<1>12. ASSUME NEW p \in Proc, ClearBackup(p) PROVE TypeOK'
  BY <1>12 DEF ClearBackup
<1>13. ASSUME NEW p \in Proc, PublishJournal(p) PROVE TypeOK'
  BY <1>13 DEF PublishJournal, Job
<1>14. ASSUME NEW p \in Proc, RetireState(p) PROVE TypeOK'
  BY <1>14 DEF RetireState
<1>15. ASSUME NEW p \in Proc, SwapState(p) PROVE TypeOK'
  BY <1>15 DEF SwapState
<1>16. ASSUME NEW p \in Proc, SwapDomain(p) PROVE TypeOK'
  BY <1>16 DEF SwapDomain
<1>17. ASSUME NEW p \in Proc, UnlinkJournal(p) PROVE TypeOK'
  BY <1>17 DEF UnlinkJournal
<1>18. ASSUME NEW p \in Proc, DropPrevious(p) PROVE TypeOK'
  BY <1>18 DEF DropPrevious
<1>19. ASSUME NEW p \in Proc, DropTemp(p) \/ UnlinkTemp(p) PROVE TypeOK'
  BY <1>19 DEF DropTemp, UnlinkTemp
<1>20. ASSUME NEW p \in Proc, Release(p) PROVE TypeOK'
  BY <1>20 DEF Release
<1>21. ASSUME NEW p \in Proc, ResumeRead(p) PROVE TypeOK'
  BY <1>21 DEF ResumeRead
<1>22. ASSUME NEW p \in Proc, ResumeWrite(p) PROVE TypeOK'
  BY <1>22 DEF ResumeWrite, Dir, Receipt
<1>23. ASSUME NEW p \in Proc, FailCommit(p) PROVE TypeOK'
  BY <1>23 DEF FailCommit, HalfDone
<1>24. ASSUME NEW p \in Proc, FailRepair(p) PROVE TypeOK'
  BY <1>24 DEF FailRepair, HalfDone, AbandonLock, LeakLock
<1>25. ASSUME NEW p \in Proc, Crash(p) PROVE TypeOK'
  BY <1>25 DEF Crash, HalfDone
<1>26. CASE ClearStaleLock
  BY <1>26 DEF ClearStaleLock
<1>27. CASE UNCHANGED vars
  BY <1>27 DEF vars
<1> QED
  BY <1>1, <1>2, <1>3, <1>4, <1>5, <1>6, <1>7, <1>8, <1>9, <1>10, <1>11, <1>12, <1>13, <1>14, <1>15, <1>16, <1>17, <1>18, <1>19, <1>20, <1>21, <1>22, <1>23, <1>24, <1>25, <1>26, <1>27 DEF Next, Step

\* One process is inside, and what it stages and announces are its bytes.
LEMMA LockStep == TypeOK /\ LockInv /\ [Next]_vars => LockInv'
<1> SUFFICES ASSUME TypeOK, LockInv, [Next]_vars PROVE LockInv'
    OBVIOUS
<1> USE LeaveLemma, ShapeLemma, ProcAssumption
    DEF TypeOK, LockInv, Goto, Inside,
        Pc, HeldPc, RepairPc, CommitPc, EndPc, StagedPc, JournaledPc, BytesPc
<1>1. ASSUME NEW p \in Proc, StartFinalize(p) PROVE LockInv'
  BY <1>1 DEF StartFinalize, Contract, Job, Receipt
<1>2. ASSUME NEW p \in Proc, StartApprove(p) PROVE LockInv'
  BY <1>2 DEF StartApprove, Job, Receipt
<1>3. ASSUME NEW p \in Proc, AcquireApprove(p) PROVE LockInv'
  BY <1>3 DEF AcquireApprove
<1>4. ASSUME NEW p \in Proc, LoadDraft(p) PROVE LockInv'
  <2>1. CASE Approvable(job[p].contract)
    <3>1. PICK s \in Stamp :
            job' = [job EXCEPT ![p] = [contract |-> [job[p].contract EXCEPT !.approved = s],
                                       receipt |-> "succeeded", held |-> TRUE]]
      BY <1>4, <2>1 DEF LoadDraft
    <3> DEFINE c == [job[p].contract EXCEPT !.approved = s]
               j == [contract |-> c, receipt |-> "succeeded", held |-> TRUE]
    <3>2. c \in Contract
      BY <1>4 DEF LoadDraft
    <3> HIDE DEF c
    <3>3. j \in Job /\ j.contract = c
      BY <3>2 DEF Job, Receipt
    <3>4. job' = [job EXCEPT ![p] = j]
      BY <3>1 DEF c
    <3> HIDE DEF j
    <3> QED
      BY <1>4, <2>1, <3>2, <3>3, <3>4 DEF LoadDraft
  <2>2. CASE ~Approvable(job[p].contract)
    BY <1>4, <2>2 DEF LoadDraft
  <2> QED
    BY <2>1, <2>2
<1>5. ASSUME NEW p \in Proc, Reconcile(p) PROVE LockInv'
  BY <1>5 DEF Reconcile, RollsBack, AlreadyCommitted, StagedSurvives
<1>6. ASSUME NEW p \in Proc, FailFinally(p) PROVE LockInv'
  BY <1>6 DEF FailFinally, LeakLock
<1>7. ASSUME NEW p \in Proc, Restore(p) PROVE LockInv'
  BY <1>7 DEF Restore, Replaceable, AbandonLock, LeakLock
<1>8. ASSUME NEW p \in Proc, DropBackup(p) PROVE LockInv'
  BY <1>8 DEF DropBackup
<1>9. ASSUME NEW p \in Proc, CloseJournal(p) PROVE LockInv'
  BY <1>9 DEF CloseJournal
<1>10. ASSUME NEW p \in Proc, MakeTemp(p) PROVE LockInv'
  BY <1>10 DEF MakeTemp
<1>11. ASSUME NEW p \in Proc, Stage(p) PROVE LockInv'
  BY <1>11 DEF Stage, Job
<1>12. ASSUME NEW p \in Proc, ClearBackup(p) PROVE LockInv'
  BY <1>12 DEF ClearBackup
<1>13. ASSUME NEW p \in Proc, PublishJournal(p) PROVE LockInv'
  BY <1>13 DEF PublishJournal, Job
<1>14. ASSUME NEW p \in Proc, RetireState(p) PROVE LockInv'
  BY <1>14 DEF RetireState
<1>15. ASSUME NEW p \in Proc, SwapState(p) PROVE LockInv'
  BY <1>15 DEF SwapState
<1>16. ASSUME NEW p \in Proc, SwapDomain(p) PROVE LockInv'
  BY <1>16 DEF SwapDomain
<1>17. ASSUME NEW p \in Proc, UnlinkJournal(p) PROVE LockInv'
  BY <1>17 DEF UnlinkJournal
<1>18. ASSUME NEW p \in Proc, DropPrevious(p) PROVE LockInv'
  BY <1>18 DEF DropPrevious
<1>19. ASSUME NEW p \in Proc, DropTemp(p) \/ UnlinkTemp(p) PROVE LockInv'
  BY <1>19 DEF DropTemp, UnlinkTemp
<1>20. ASSUME NEW p \in Proc, Release(p) PROVE LockInv'
  BY <1>20 DEF Release
<1>21. ASSUME NEW p \in Proc, ResumeRead(p) PROVE LockInv'
  BY <1>21 DEF ResumeRead
<1>22. ASSUME NEW p \in Proc, ResumeWrite(p) PROVE LockInv'
  BY <1>22 DEF ResumeWrite, Dir, Receipt
<1>23. ASSUME NEW p \in Proc, FailCommit(p) PROVE LockInv'
  BY <1>23 DEF FailCommit, HalfDone
<1>24. ASSUME NEW p \in Proc, FailRepair(p) PROVE LockInv'
  BY <1>24 DEF FailRepair, HalfDone, AbandonLock, LeakLock
<1>25. ASSUME NEW p \in Proc, Crash(p) PROVE LockInv'
  BY <1>25 DEF Crash, HalfDone
<1>26. CASE ClearStaleLock
  BY <1>26 DEF ClearStaleLock
<1>27. CASE UNCHANGED vars
  BY <1>27, SMTT(30) DEF vars
<1> QED
  BY <1>1, <1>2, <1>3, <1>4, <1>5, <1>6, <1>7, <1>8, <1>9, <1>10, <1>11, <1>12, <1>13, <1>14, <1>15, <1>16, <1>17, <1>18, <1>19, <1>20, <1>21, <1>22, <1>23, <1>24, <1>25, <1>26, <1>27 DEF Next, Step

\* Unless a transition ended where the repair would complete it forward without
\* its state root, what every step of a commit and of a repair finds is preserved.
LEMMA RepairStep == TypeOK /\ LockInv /\ RepairInv /\ [Next]_vars => RepairInv'
<1> SUFFICES ASSUME TypeOK, LockInv, RepairInv, [Next]_vars
             PROVE  RepairInv'
    OBVIOUS
<1> USE LeaveLemma, ShapeLemma, ProcAssumption
    DEF TypeOK, LockInv, RepairInv, Progress, Recoverable, ForwardWithoutState, Paired, Goto, Inside,
        Pc, HeldPc, RepairPc, CommitPc, EndPc, StagedPc, JournaledPc, BytesPc
<1>1. ASSUME NEW p \in Proc, StartFinalize(p) PROVE RepairInv'
  BY <1>1 DEF StartFinalize, Contract, Job, Receipt
<1>2. ASSUME NEW p \in Proc, StartApprove(p) PROVE RepairInv'
  BY <1>2 DEF StartApprove, Job, Receipt, EmptyDir
<1>3. ASSUME NEW p \in Proc, AcquireApprove(p) PROVE RepairInv'
  BY <1>3 DEF AcquireApprove
<1>4. ASSUME NEW p \in Proc, LoadDraft(p) PROVE RepairInv'
  <2>1. CASE Approvable(job[p].contract)
    <3>1. PICK s \in Stamp :
            job' = [job EXCEPT ![p] = [contract |-> [job[p].contract EXCEPT !.approved = s],
                                       receipt |-> "succeeded", held |-> TRUE]]
      BY <1>4, <2>1 DEF LoadDraft
    <3> DEFINE c == [job[p].contract EXCEPT !.approved = s]
               j == [contract |-> c, receipt |-> "succeeded", held |-> TRUE]
    <3>2. c \in Contract
      BY <1>4 DEF LoadDraft
    <3> HIDE DEF c
    <3>3. j \in Job /\ j.contract = c
      BY <3>2 DEF Job, Receipt
    <3>4. job' = [job EXCEPT ![p] = j]
      BY <3>1 DEF c
    <3> HIDE DEF j
    <3> QED
      BY <1>4, <2>1, <3>2, <3>3, <3>4 DEF LoadDraft
  <2>2. CASE ~Approvable(job[p].contract)
    BY <1>4, <2>2 DEF LoadDraft
  <2> QED
    BY <2>1, <2>2
<1>5. ASSUME NEW p \in Proc, Reconcile(p) PROVE RepairInv'
  BY <1>5 DEF Reconcile, RollsBack, AlreadyCommitted, StagedSurvives, AbsentDir
<1>6. ASSUME NEW p \in Proc, FailFinally(p) PROVE RepairInv'
  <2>1. CASE job[p].held /\ pc[p] # "release"
    BY <1>6, <2>1 DEF FailFinally
  <2>2. CASE ~(job[p].held /\ pc[p] # "release")
    <3>1. /\ pc[p] \in EndPc /\ pc' = [pc EXCEPT ![p] = "idle"]
          /\ job' = [job EXCEPT ![p] = NoJob] /\ lock' = "stale" /\ Leave(p)
          /\ UNCHANGED <<stateRoot, backup, domain, domainTemp, journal>>
      BY <1>6, <2>2 DEF FailFinally, LeakLock
    <3> QED
      BY <3>1
  <2> QED
    BY <2>1, <2>2
<1>7. ASSUME NEW p \in Proc, Restore(p) PROVE RepairInv'
  <2>1. CASE Replaceable
    BY <1>7, <2>1 DEF Restore, AbsentDir
  <2>2. CASE ~Replaceable
    <3>1. CASE job[p].held
      BY <1>7, <2>2, <3>1 DEF Restore, AbandonLock
    <3>2. CASE ~job[p].held
      <4>1. /\ pc[p] = "restore" /\ pc' = [pc EXCEPT ![p] = "idle"]
            /\ job' = [job EXCEPT ![p] = NoJob] /\ lock' = "stale" /\ Leave(p)
            /\ UNCHANGED <<stateRoot, backup, domain, domainTemp, journal>>
        BY <1>7, <2>2, <3>2 DEF Restore, AbandonLock, LeakLock
      <4> QED
        BY <4>1
    <3> QED
      BY <3>1, <3>2
  <2> QED
    BY <2>1, <2>2
<1>8. ASSUME NEW p \in Proc, DropBackup(p) PROVE RepairInv'
  BY <1>8 DEF DropBackup, AbsentDir
<1>9. ASSUME NEW p \in Proc, CloseJournal(p) PROVE RepairInv'
  BY <1>9 DEF CloseJournal
<1>10. ASSUME NEW p \in Proc, MakeTemp(p) PROVE RepairInv'
  BY <1>10 DEF MakeTemp
<1>11. ASSUME NEW p \in Proc, Stage(p) PROVE RepairInv'
  BY <1>11 DEF Stage, Job
<1>12. ASSUME NEW p \in Proc, ClearBackup(p) PROVE RepairInv'
  BY <1>12 DEF ClearBackup, AbsentDir
<1>13. ASSUME NEW p \in Proc, PublishJournal(p) PROVE RepairInv'
  BY <1>13 DEF PublishJournal, Job
<1>14. ASSUME NEW p \in Proc, RetireState(p) PROVE RepairInv'
  BY <1>14 DEF RetireState, AbsentDir, Dir
<1>15. ASSUME NEW p \in Proc, SwapState(p) PROVE RepairInv'
  BY <1>15 DEF SwapState, SealedState
<1>16. ASSUME NEW p \in Proc, SwapDomain(p) PROVE RepairInv'
  BY <1>16 DEF SwapDomain
<1>17. ASSUME NEW p \in Proc, UnlinkJournal(p) PROVE RepairInv'
  BY <1>17 DEF UnlinkJournal
<1>18. ASSUME NEW p \in Proc, DropPrevious(p) PROVE RepairInv'
  BY <1>18 DEF DropPrevious
<1>19. ASSUME NEW p \in Proc, DropTemp(p) \/ UnlinkTemp(p) PROVE RepairInv'
  BY <1>19 DEF DropTemp, UnlinkTemp
<1>20. ASSUME NEW p \in Proc, Release(p) PROVE RepairInv'
  BY <1>20 DEF Release
<1>21. ASSUME NEW p \in Proc, ResumeRead(p) PROVE RepairInv'
  BY <1>21 DEF ResumeRead
<1>22. ASSUME NEW p \in Proc, ResumeWrite(p) PROVE RepairInv'
  BY <1>22 DEF ResumeWrite, Dir, Receipt
<1>23. ASSUME NEW p \in Proc, FailCommit(p) PROVE RepairInv'
  BY <1>23 DEF FailCommit, HalfDone
<1>24. ASSUME NEW p \in Proc, FailRepair(p) PROVE RepairInv'
  <2>1. CASE UNCHANGED <<stateRoot, backup, domainTemp>>
    BY <1>24, <2>1 DEF FailRepair, AbandonLock, LeakLock
  <2>2. CASE pc[p] = "drop_backup" /\ backup' = EmptyDir /\ UNCHANGED <<stateRoot, domainTemp>>
    BY <1>24, <2>2 DEF FailRepair, AbandonLock, LeakLock
  <2>3. CASE pc[p] = "reconcile" /\ RollsBack /\ stateRoot' = EmptyDir /\ UNCHANGED <<backup, domainTemp>>
    BY <1>24, <2>3 DEF FailRepair, AbandonLock, LeakLock, RollsBack, AlreadyCommitted, StagedSurvives, EmptyDir
  <2> QED
    BY <1>24, <2>1, <2>2, <2>3 DEF FailRepair, HalfDone
<1>25. ASSUME NEW p \in Proc, Crash(p) PROVE RepairInv'
  <2>1. CASE UNCHANGED <<stateRoot, backup, domainTemp>>
    BY <1>25, <2>1 DEF Crash
  <2>2. CASE pc[p] = "stage" /\ domainTemp' = [domainTemp EXCEPT ![p] = Torn] /\ UNCHANGED <<stateRoot, backup>>
    BY <1>25, <2>2 DEF Crash
  <2>3. CASE pc[p] \in {"drop_backup", "clear_backup", "drop_previous"}
             /\ backup' = EmptyDir /\ UNCHANGED <<stateRoot, domainTemp>>
    BY <1>25, <2>3 DEF Crash
  <2>4. CASE pc[p] = "reconcile" /\ RollsBack /\ stateRoot' = EmptyDir /\ UNCHANGED <<backup, domainTemp>>
    BY <1>25, <2>4 DEF Crash, RollsBack, AlreadyCommitted, StagedSurvives, EmptyDir
  <2> QED
    BY <1>25, <2>1, <2>2, <2>3, <2>4 DEF Crash, HalfDone
<1>26. CASE ClearStaleLock
  BY <1>26 DEF ClearStaleLock
<1>27. CASE UNCHANGED vars
  BY <1>27 DEF vars
<1> QED
  BY <1>1, <1>2, <1>3, <1>4, <1>5, <1>6, <1>7, <1>8, <1>9, <1>10, <1>11, <1>12, <1>13, <1>14, <1>15, <1>16, <1>17, <1>18, <1>19, <1>20, <1>21, <1>22, <1>23, <1>24, <1>25, <1>26, <1>27 DEF Next, Step

\* What the commit and the repair keep, under failures and kills.
LEMMA InvHolds == Spec => [](TypeOK /\ LockInv)
<1>1. Init => TypeOK /\ LockInv
  BY ShapeLemma, ProcAssumption DEF Init, TypeOK, LockInv, Inside,
     Pc, HeldPc, RepairPc, CommitPc, EndPc, StagedPc, JournaledPc, BytesPc
<1>2. TypeOK /\ LockInv /\ [Next]_vars => (TypeOK /\ LockInv)'
  BY TypeStep, LockStep
<1> QED
  BY <1>1, <1>2, PTL DEF Spec

\* Type correctness of an L1 transition, whichever of its statements fail and
\* whatever is killed when.
THEOREM TypeCorrect == Spec => []TypeOK
  BY InvHolds, PTL

\* One transition at a time, for every number of processes and whatever is
\* killed when: the O_EXCL lock is a mutual exclusion lock for
\* finalize_l1_stage and approve_persisted_l1_draft.
THEOREM TransitionsAreExclusive == Spec => []TransitionsExclusive
<1>1. TypeOK /\ LockInv => TransitionsExclusive
  BY DEF LockInv, TransitionsExclusive
<1> QED
  BY <1>1, InvHolds, PTL

\* domain.yaml changes only to bytes a published journal announced, in the
\* commit and in every repair, whatever is killed when.
THEOREM DomainFollowsJournal == Spec => DomainMovesOnlyUnderJournal
<1> DEFINE Announced == domain' # domain => journal # None /\ domain' = journal.contract
<1>1. TypeOK /\ LockInv /\ [Next]_vars => [Announced]_vars
  <2> SUFFICES ASSUME TypeOK, LockInv, Next, domain' # domain
               PROVE  journal # None /\ domain' = journal.contract
      OBVIOUS
  <2>1. ASSUME NEW p \in Proc, Reconcile(p) PROVE journal # None /\ domain' = journal.contract
    BY <2>1 DEF Reconcile, RollsBack, StagedSurvives
  <2>2. ASSUME NEW p \in Proc, SwapDomain(p) PROVE journal # None /\ domain' = journal.contract
    <3>1. /\ journal = [contract |-> job[p].contract, temp |-> p]
          /\ domainTemp[p] = job[p].contract
          /\ job[p].contract \in Contract
      BY <2>2 DEF SwapDomain, LockInv, StagedPc, JournaledPc, BytesPc
    <3> QED
      BY <2>2, <3>1, ShapeLemma DEF SwapDomain
  <2> QED
    BY <2>1, <2>2 DEF Next, Step, StartFinalize, StartApprove, ResumeRead, ResumeWrite,
       AcquireApprove, LoadDraft, Restore, DropBackup, CloseJournal,
       MakeTemp, Stage, ClearBackup, PublishJournal, RetireState, SwapState,
       UnlinkJournal, DropPrevious, DropTemp, UnlinkTemp, Release, FailCommit, FailRepair, FailFinally,
       Crash, ClearStaleLock
<1> QED
  BY <1>1, InvHolds, PTL DEF Spec, DomainMovesOnlyUnderJournal

\* What they keep, under failures and kills.
LEMMA RepairInvHolds == Spec => [](TypeOK /\ LockInv /\ RepairInv)
<1> DEFINE Inv == TypeOK /\ LockInv /\ RepairInv
<1>1. Init => Inv
  <2> SUFFICES ASSUME Init PROVE Inv
      OBVIOUS
  <2>1. TypeOK /\ LockInv
    BY ShapeLemma, ProcAssumption DEF Init, TypeOK, LockInv, Inside,
       Pc, HeldPc, RepairPc, CommitPc, EndPc, StagedPc, JournaledPc, BytesPc
  <2>2. /\ journal = None /\ Paired /\ stateRoot.contract = None
        /\ \A p \in Proc : pc[p] = "idle"
    BY DEF Init, Paired, AbsentDir
  <2> QED
    BY <2>1, <2>2 DEF RepairInv, Progress, Recoverable, ForwardWithoutState, EndPc, JournaledPc
<1>2. Inv /\ [Next]_vars => Inv'
  BY TypeStep, LockStep, RepairStep
<1> QED
  BY <1>1, <1>2, PTL DEF Spec

\* The pair matches or has a journal whenever no transition is under way, for
\* every number of processes, whichever statements fail and whatever is killed,
\* unless since the last complete commit a transition ended between its journal
\* and its state rename with the staged bytes left behind.
THEOREM PairIsRepairable == Spec => []PairOrJournal
<1>1. TypeOK /\ LockInv /\ RepairInv => PairOrJournal
  BY DEF RepairInv, Recoverable, PairOrJournal
<1> QED
  BY <1>1, RepairInvHolds, PTL

\* With the same exception, the pair matches whenever a repair returns.
THEOREM RepairKeepsThePair == Spec => []RepairMatches
<1>1. TypeOK /\ LockInv /\ RepairInv => RepairMatches
  BY DEF RepairInv, Progress, RepairMatches
<1> QED
  BY <1>1, RepairInvHolds, PTL
=============================================================================
