------------------------------ MODULE L1Commit ------------------------------
(***************************************************************************)
(* The L1 domain-state commit of domain/stage.py.                          *)
(*                                                                         *)
(* An L1 transition publishes two filesystem objects that must describe    *)
(* the same contract: the directory state_root (sealed design artifacts    *)
(* and the stage receipt) and the file domain.yaml.  They are replaced by  *)
(* two renames; a commit journal in front of them is what                  *)
(* reconcile_interrupted_l1_commit repairs an interrupted commit from, and *)
(* an O_EXCL lock file keeps transitions apart.                            *)
(*                                                                         *)
(* Abstraction.  A contract is a reviewed draft and its approval status;   *)
(* the bytes of domain.yaml and their digest are the contract itself.  A   *)
(* state root is the contract its manifest binds and the status of its     *)
(* receipt: the approval context file is present exactly when that status  *)
(* is not "approval_required", so it has no field of its own.  A directory *)
(* that lacks files load_prepared_l1_stage needs (created by mkdir, or     *)
(* left half deleted) is EmptyDir.                                         *)
(***************************************************************************)
EXTENDS Naturals, FiniteSets

CONSTANTS
    Proc,       \* operating-system processes running fabric-kg commands
    Draft,      \* the draft contracts a proposal can produce
    Stamp,      \* the instants of the clock: two approvals may bear the same
    None,       \* no contract, no journal, no staged file
    Torn        \* a staged domain file cut short by a failure or a kill

ASSUME ProcAssumption  == None \notin Proc /\ "free" \notin Proc /\ "stale" \notin Proc
ASSUME NoneAssumption  ==
    /\ None \notin Stamp
    /\ None \notin [base : Draft, approved : Stamp \cup {None}]
    /\ None \notin [contract : [base : Draft, approved : Stamp \cup {None}], temp : Proc]
    /\ Torn \notin [base : Draft, approved : Stamp \cup {None}] \cup {None}

VARIABLES
    stateRoot,    \* the directory .fkg/l1
    backup,       \* its sibling .l1.previous
    domain,       \* domain.yaml
    domainTemp,   \* .domain.yaml.<pid>.tmp of each process
    journal,      \* .l1.commit-journal
    lock,         \* .l1.transition.lock: "free", its holder, or "stale"
    pc,           \* the next step of each process
    job,          \* what each process commits
    exposed       \* history, for the properties: see Leave

vars == <<stateRoot, backup, domain, domainTemp, journal, lock, pc, job, exposed>>

Contract == [base : Draft, approved : Stamp \cup {None}]
Receipt  == {"none", "approval_required", "stopped", "succeeded", "skipped"}
Dir      == [exists : BOOLEAN, contract : Contract \cup {None}, receipt : Receipt]

AbsentDir == [exists |-> FALSE, contract |-> None, receipt |-> "none"]
EmptyDir  == [exists |-> TRUE,  contract |-> None, receipt |-> "none"]

\* held: the caller took the transition lock (approve_persisted_l1_draft).
Job   == [contract : Contract \cup {None}, receipt : Receipt, held : BOOLEAN]
NoJob == [contract |-> None, receipt |-> "none", held |-> FALSE]

DraftOf(c)     == [c EXCEPT !.approved = None]
SealedState(j) == [exists |-> TRUE, contract |-> j.contract, receipt |-> j.receipt]

RepairPc == {"reconcile", "restore", "drop_backup", "close_journal"}
CommitPc == {"stage", "clear_backup", "journal", "retire_state", "swap_state",
             "swap_domain", "unlink_journal", "drop_previous"}
EndPc    == {"finally", "unlink_temp", "release"}
HeldPc   == RepairPc \cup {"mkdtemp"} \cup CommitPc \cup EndPc \cup {"load"}
Pc       == HeldPc \cup {"idle", "approve", "resume"}

Goto(p, step) == pc' = [pc EXCEPT ![p] = step]

\* Between taking the transition lock and giving it back.
Inside(p) == pc[p] \in HeldPc

Init ==
    /\ stateRoot = AbsentDir
    /\ backup = AbsentDir
    /\ domain = None
    /\ domainTemp = [p \in Proc |-> None]
    /\ journal = None
    /\ lock = "free"
    /\ pc = [p \in Proc |-> "idle"]
    /\ job = [p \in Proc |-> NoJob]
    /\ exposed = FALSE

-----------------------------------------------------------------------------
(* Starting a transition.                                                  *)

\* finalize_l1_stage: no decision persists a blocked draft, "correct" and
\* "abort" a stopped one, "approve" an approved contract with a success.
\* What was prepared is local to the process until _persist_payloads creates
\* the lock file (O_CREAT|O_EXCL).  A loser raises "an L1 state transition is
\* already in progress" and has changed nothing.
StartFinalize(p) ==
    /\ pc[p] = "idle"
    /\ lock = "free"
    /\ lock' = p
    /\ \E d \in Draft, receipt \in {"approval_required", "stopped", "succeeded"},
          s \in Stamp \cup {None} :
          LET c == [base |-> d, approved |-> s] IN
          /\ (receipt = "succeeded") <=> (s \in Stamp)
          /\ job' = [job EXCEPT ![p] =
                       [contract |-> c, receipt |-> receipt, held |-> FALSE]]
    /\ Goto(p, "reconcile")
    /\ UNCHANGED <<stateRoot, backup, domain, domainTemp, journal, exposed>>

\* domain approve reads the reviewed contract from domain.yaml, then
\* approve_persisted_l1_draft creates state_root before it asks for the lock.
StartApprove(p) ==
    /\ pc[p] = "idle"
    /\ domain # None
    /\ job' = [job EXCEPT ![p] = [contract |-> domain, receipt |-> "none", held |-> TRUE]]
    /\ stateRoot' = IF stateRoot.exists THEN stateRoot ELSE EmptyDir
    /\ Goto(p, "approve")
    /\ UNCHANGED <<backup, domain, domainTemp, journal, lock, exposed>>

\* Mutants: the lock file opened without O_EXCL; waiting for the lock.
AcquireApproveNoExcl(p) ==
    /\ pc[p] = "approve"
    /\ lock' = p
    /\ Goto(p, "load")
    /\ UNCHANGED <<stateRoot, backup, domain, domainTemp, journal, job, exposed>>

AcquireApproveWaits(p) ==
    /\ pc[p] = "approve"
    /\ lock = "free"
    /\ lock' = p
    /\ Goto(p, "load")
    /\ UNCHANGED <<stateRoot, backup, domain, domainTemp, journal, job, exposed>>

AcquireApprove(p) ==
    /\ pc[p] = "approve"
    /\ \/ /\ lock = "free"
          /\ lock' = p
          /\ Goto(p, "load")
          /\ UNCHANGED job
       \/ /\ lock # "free"
          /\ Goto(p, "idle")
          /\ job' = [job EXCEPT ![p] = NoJob]
          /\ UNCHANGED lock
    /\ UNCHANGED <<stateRoot, backup, domain, domainTemp, journal, exposed>>

\* The persisted state is a blocked draft awaiting approval, and it is the
\* contract the reviewer was shown.
Approvable(reviewed) ==
    /\ stateRoot.receipt = "approval_required"
    /\ stateRoot.contract = reviewed
    /\ reviewed.approved = None

LoadDraft(p) ==
    /\ pc[p] = "load"
    /\ IF Approvable(job[p].contract)
         THEN /\ \E s \in Stamp :
                    job' = [job EXCEPT ![p] =
                                  [contract |-> [job[p].contract EXCEPT !.approved = s],
                                   receipt  |-> "succeeded",
                                   held     |-> TRUE]]
              /\ Goto(p, "reconcile")
         ELSE /\ UNCHANGED job
              /\ Goto(p, "release")
    /\ UNCHANGED <<stateRoot, backup, domain, domainTemp, journal, lock, exposed>>

-----------------------------------------------------------------------------
(* reconcile_interrupted_l1_commit, at the start of every commit.          *)

\* Mutants: the digest of the wrong object; a staged file of any content.
AlreadyCommittedState == stateRoot.contract = journal.contract
StagedSurvivesAny     == TRUE

AlreadyCommitted == domain = journal.contract
StagedSurvives   == domainTemp[journal.temp] = journal.contract
RollsBack        == /\ journal # None /\ ~AlreadyCommitted /\ ~StagedSurvives
                    /\ backup.exists

Reconcile(p) ==
    /\ pc[p] = "reconcile"
    /\ \/ /\ journal = None
          /\ Goto(p, "mkdtemp")
          /\ UNCHANGED <<stateRoot, domain, domainTemp>>
       \/ /\ journal # None /\ AlreadyCommitted
          /\ Goto(p, "drop_backup")
          /\ UNCHANGED <<stateRoot, domain, domainTemp>>
       \/ /\ journal # None /\ ~AlreadyCommitted /\ StagedSurvives
          /\ domain' = domainTemp[journal.temp]
          /\ domainTemp' = [domainTemp EXCEPT ![journal.temp] = None]
          /\ Goto(p, "drop_backup")
          /\ UNCHANGED stateRoot
       \/ /\ RollsBack
          /\ stateRoot' = AbsentDir
          /\ Goto(p, "restore")
          /\ UNCHANGED <<domain, domainTemp>>
       \/ \* "cannot be reconciled"
          /\ journal # None /\ ~AlreadyCommitted /\ ~StagedSurvives
          /\ ~backup.exists
          /\ Goto(p, "release")
          /\ UNCHANGED <<stateRoot, domain, domainTemp>>
    /\ UNCHANGED <<backup, journal, lock, job, exposed>>

\* os.replace moves a directory onto a missing or an empty one only.  A third
\* command can have refilled state_root (StartApprove, then ResumeWrite).
Replaceable == stateRoot \in {AbsentDir, EmptyDir}

\* A repair would complete the journal's commit forward although the state
\* root it belongs to was never put in place.
ForwardWithoutState ==
    /\ journal # None
    /\ \/ domain = journal.contract
       \/ domainTemp[journal.temp] = journal.contract
    /\ stateRoot.contract # journal.contract

\* exposed: since the last commit that renamed both, a process has left the
\* transition in such a state.  Nothing but the properties reads it.
Leave(p) == exposed' = IF Inside(p) /\ ForwardWithoutState THEN TRUE ELSE exposed

LeakLock(p) ==
    /\ Leave(p)
    /\ lock' = "stale"
    /\ job' = [job EXCEPT ![p] = NoJob]
    /\ Goto(p, "idle")

\* Before the try statement only L1StageError releases the lock.  An OSError
\* of the repair or of mkdtemp leaves the lock file of finalize_l1_stage
\* behind; approve_persisted_l1_draft has a finally clause of its own.
AbandonLock(p) ==
    IF job[p].held
      THEN Goto(p, "release") /\ UNCHANGED <<lock, job, exposed>>
      ELSE LeakLock(p)

Restore(p) ==
    /\ pc[p] = "restore"
    /\ IF Replaceable
         THEN /\ stateRoot' = backup
              /\ backup' = AbsentDir
              /\ Goto(p, "close_journal")
              /\ UNCHANGED <<domain, domainTemp, journal, lock, job, exposed>>
         ELSE /\ AbandonLock(p)
              /\ UNCHANGED <<stateRoot, backup, domain, domainTemp, journal>>

DropBackup(p) ==
    /\ pc[p] = "drop_backup"
    /\ backup' = AbsentDir
    /\ Goto(p, "close_journal")
    /\ UNCHANGED <<stateRoot, domain, domainTemp, journal, lock, job, exposed>>

CloseJournal(p) ==
    /\ pc[p] = "close_journal"
    /\ journal' = None
    /\ Goto(p, "mkdtemp")
    /\ UNCHANGED <<stateRoot, backup, domain, domainTemp, lock, job, exposed>>

-----------------------------------------------------------------------------
(* _persist_payloads after the repair.  The temporary state root is        *)
(* private to the process: its content is SealedState(job[p]).             *)

MakeTemp(p) ==
    /\ pc[p] = "mkdtemp"
    /\ Goto(p, "stage")
    /\ UNCHANGED <<stateRoot, backup, domain, domainTemp, journal, lock, job, exposed>>

Stage(p) ==
    /\ pc[p] = "stage"
    /\ domainTemp' = [domainTemp EXCEPT ![p] = job[p].contract]
    /\ Goto(p, "clear_backup")
    /\ UNCHANGED <<stateRoot, backup, domain, journal, lock, job, exposed>>

ClearBackup(p) ==
    /\ pc[p] = "clear_backup"
    /\ backup' = AbsentDir
    /\ Goto(p, "journal")
    /\ UNCHANGED <<stateRoot, domain, domainTemp, journal, lock, job, exposed>>

\* Mutant: no journal at all.
PublishNothing(p) ==
    /\ pc[p] = "journal"
    /\ Goto(p, "retire_state")
    /\ UNCHANGED <<stateRoot, backup, domain, domainTemp, journal, lock, job, exposed>>

PublishJournal(p) ==
    /\ pc[p] = "journal"
    /\ journal' = [contract |-> job[p].contract, temp |-> p]
    /\ Goto(p, "retire_state")
    /\ UNCHANGED <<stateRoot, backup, domain, domainTemp, lock, job, exposed>>

RetireState(p) ==
    /\ pc[p] = "retire_state"
    /\ IF stateRoot.exists
         THEN backup' = stateRoot /\ stateRoot' = AbsentDir
         ELSE UNCHANGED <<backup, stateRoot>>
    /\ Goto(p, "swap_state")
    /\ UNCHANGED <<domain, domainTemp, journal, lock, job, exposed>>

SwapState(p) ==
    /\ pc[p] = "swap_state"
    /\ IF Replaceable
         THEN stateRoot' = SealedState(job[p]) /\ Goto(p, "swap_domain")
         ELSE UNCHANGED stateRoot /\ Goto(p, "finally")
    /\ UNCHANGED <<backup, domain, domainTemp, journal, lock, job, exposed>>

SwapDomain(p) ==
    /\ pc[p] = "swap_domain"
    /\ domain' = domainTemp[p]
    /\ domainTemp' = [domainTemp EXCEPT ![p] = None]
    /\ exposed' = FALSE
    /\ Goto(p, "unlink_journal")
    /\ UNCHANGED <<stateRoot, backup, journal, lock, job>>

UnlinkJournal(p) ==
    /\ pc[p] = "unlink_journal"
    /\ journal' = None
    /\ Goto(p, "drop_previous")
    /\ UNCHANGED <<stateRoot, backup, domain, domainTemp, lock, job, exposed>>

DropPrevious(p) ==
    /\ pc[p] = "drop_previous"
    /\ backup' = AbsentDir
    /\ Goto(p, "finally")
    /\ UNCHANGED <<stateRoot, domain, domainTemp, journal, lock, job, exposed>>

\* The finally clause is three statements: the temporary root goes (private,
\* so nothing shared changes), the staged domain file goes, the lock file goes.
DropTemp(p) ==
    /\ pc[p] = "finally"
    /\ Goto(p, "unlink_temp")
    /\ UNCHANGED <<stateRoot, backup, domain, domainTemp, journal, lock, job, exposed>>

UnlinkTemp(p) ==
    /\ pc[p] = "unlink_temp"
    /\ domainTemp' = [domainTemp EXCEPT ![p] = None]
    /\ Goto(p, "release")
    /\ UNCHANGED <<stateRoot, backup, domain, journal, lock, job, exposed>>

Release(p) ==
    /\ pc[p] = "release"
    /\ Leave(p)
    /\ lock' = "free"
    /\ job' = [job EXCEPT ![p] = NoJob]
    /\ Goto(p, "idle")
    /\ UNCHANGED <<stateRoot, backup, domain, domainTemp, journal>>

-----------------------------------------------------------------------------
(* try_resume_l1 takes no lock: it decides on what it read, then writes.   *)

ResumeRead(p) ==
    /\ pc[p] = "idle"
    /\ stateRoot.receipt = "succeeded"
    /\ domain # None
    /\ domain.base = stateRoot.contract.base
    /\ Goto(p, "resume")
    /\ UNCHANGED <<stateRoot, backup, domain, domainTemp, journal, lock, job, exposed>>

\* Writing into a directory that is gone raises FileNotFoundError.
ResumeWrite(p) ==
    /\ pc[p] = "resume"
    /\ stateRoot' = IF stateRoot.exists
                      THEN [stateRoot EXCEPT !.receipt = "skipped"]
                      ELSE stateRoot
    /\ Goto(p, "idle")
    /\ UNCHANGED <<backup, domain, domainTemp, journal, lock, job, exposed>>

-----------------------------------------------------------------------------
(* What goes wrong.                                                        *)

\* What a statement that fails or is killed under way leaves: nothing done, or
\* a file half written, or a directory half removed.
HalfDone(p) ==
    \/ UNCHANGED <<stateRoot, backup, domainTemp>>
    \/ /\ pc[p] = "stage"
       /\ domainTemp' = [domainTemp EXCEPT ![p] = Torn]
       /\ UNCHANGED <<stateRoot, backup>>
    \/ /\ pc[p] \in {"drop_backup", "clear_backup", "drop_previous"}
       /\ backup.exists
       /\ backup' = EmptyDir
       /\ UNCHANGED <<stateRoot, domainTemp>>
    \/ /\ pc[p] = "reconcile" /\ RollsBack
       /\ stateRoot.exists
       /\ stateRoot' = EmptyDir
       /\ UNCHANGED <<backup, domainTemp>>

\* An OSError inside the try statement runs the finally clause.
FailCommit(p) ==
    /\ pc[p] \in CommitPc
    /\ HalfDone(p)
    /\ Goto(p, "finally")
    /\ UNCHANGED <<domain, journal, lock, job, exposed>>

\* A journal that cannot be read is an L1StageError, which gives the lock back.
FailRepair(p) ==
    /\ pc[p] \in RepairPc \cup {"mkdtemp"}
    /\ HalfDone(p)
    /\ UNCHANGED <<domain, journal>>
    /\ \/ AbandonLock(p)
       \/ /\ pc[p] = "reconcile" /\ journal # None
          /\ Goto(p, "release")
          /\ UNCHANGED <<lock, job, exposed>>

\* An OSError of the finally clause skips the statements that follow it: the
\* staged domain file may survive, and with it the lock file, unless the lock
\* is the caller's and its own finally clause is still to come.
FailFinally(p) ==
    /\ pc[p] \in EndPc
    /\ IF job[p].held /\ pc[p] # "release"
         THEN Goto(p, "release") /\ UNCHANGED <<lock, job, exposed>>
         ELSE LeakLock(p)
    /\ UNCHANGED <<stateRoot, backup, domain, domainTemp, journal>>

\* A kill leaves every file as it is, the statement under way half done.
Crash(p) ==
    /\ pc[p] # "idle"
    /\ HalfDone(p)
    /\ Leave(p)
    /\ lock' = IF lock = p THEN "stale" ELSE lock
    /\ job' = [job EXCEPT ![p] = NoJob]
    /\ Goto(p, "idle")
    /\ UNCHANGED <<domain, journal>>

\* Nothing in the code removes the lock file of a process that is gone: an
\* operator does.
ClearStaleLock ==
    /\ lock = "stale"
    /\ lock' = "free"
    /\ UNCHANGED <<stateRoot, backup, domain, domainTemp, journal, pc, job, exposed>>

-----------------------------------------------------------------------------
Step(p) ==
    \/ AcquireApprove(p) \/ LoadDraft(p)
    \/ Reconcile(p) \/ Restore(p) \/ DropBackup(p) \/ CloseJournal(p)
    \/ MakeTemp(p) \/ Stage(p) \/ ClearBackup(p) \/ PublishJournal(p)
    \/ RetireState(p) \/ SwapState(p) \/ SwapDomain(p) \/ UnlinkJournal(p)
    \/ DropPrevious(p) \/ DropTemp(p) \/ UnlinkTemp(p) \/ Release(p)
    \/ ResumeWrite(p)

Next ==
    \/ \E p \in Proc :
          \/ StartFinalize(p) \/ StartApprove(p) \/ ResumeRead(p)
          \/ Step(p)
          \/ FailCommit(p) \/ FailRepair(p) \/ FailFinally(p) \/ Crash(p)
    \/ ClearStaleLock

Spec == Init /\ [][Next]_vars

\* A running command executes its next statement; nothing else is owed.
FairSpec == Spec /\ \A p \in Proc : WF_vars(Step(p))

-----------------------------------------------------------------------------
(* Properties.                                                             *)

\* Every variable keeps its shape; the lock is free, stale or a process.
TypeOK ==
    /\ stateRoot \in Dir
    /\ backup \in Dir
    /\ domain \in Contract \cup {None}
    /\ domainTemp \in [Proc -> Contract \cup {None, Torn}]
    /\ journal \in [contract : Contract, temp : Proc] \cup {None}
    /\ lock \in Proc \cup {"free", "stale"}
    /\ pc \in [Proc -> Pc]
    /\ job \in [Proc -> Job]
    /\ exposed \in BOOLEAN

\* Of all commands that commit or approve, one at a time is between taking
\* the transition lock and giving it back, whatever failed before.
TransitionsExclusive == \A p, q \in Proc : Inside(p) /\ Inside(q) => p = q

\* domain.yaml changes only to the bytes a published journal announced, be it
\* by the commit itself or by a later repair: bytes half written by a killed
\* process are never installed.
DomainMovesOnlyUnderJournal ==
    [][domain' # domain => journal # None /\ domain' = journal.contract]_vars

\* domain.yaml and the state root name the same contract.
Paired == stateRoot.contract = domain

\* Between transitions the pair matches or a journal is there to repair it
\* from, whatever failed or was killed, unless since the last complete commit a
\* transition ended between its journal and its state rename with the staged
\* bytes (or equal ones in domain.yaml) left behind.
PairOrJournal == ~exposed /\ (\A p \in Proc : ~Inside(p)) => Paired \/ journal # None

\* When the repair returns, domain.yaml and the state root match: it rolls
\* back and completes every other interrupted or failed commit correctly.
RepairMatches == ~exposed => \A p \in Proc : pc[p] = "mkdtemp" => Paired

\* The claim of the repair's docstring, without that exception.
RepairedPairMatches == \A p \in Proc : pc[p] = "mkdtemp" => Paired

\* Every command ends: a lock that is taken is an error, never a wait.
TransitionEnds == \A p \in Proc : pc[p] # "idle" ~> pc[p] = "idle"

-----------------------------------------------------------------------------
(* Inductive invariants.                                                   *)

\* The staged domain file exists between staging and the domain rename.
StagedPc    == {"clear_backup", "journal", "retire_state", "swap_state", "swap_domain"}
JournaledPc == {"retire_state", "swap_state", "swap_domain"}
BytesPc     == RepairPc \cup {"mkdtemp", "stage"} \cup StagedPc

\* The lock file names the process inside; from the start of a commit to its
\* domain rename that process has a contract, then the staged file with its
\* bytes, then the journal that announces them.
LockInv ==
    /\ \A p \in Proc : Inside(p) <=> lock = p
    /\ \A p \in Proc : pc[p] \in BytesPc \cup {"approve", "load"} => job[p].contract \in Contract
    /\ \A p \in Proc : pc[p] \in StagedPc => domainTemp[p] = job[p].contract
    /\ \A p \in Proc : pc[p] \in JournaledPc
          => journal = [contract |-> job[p].contract, temp |-> p]

(* The strengthening of the pair properties.                               *)

\* What a repair may start from: the pair matches and nothing is pending, or
\* a pending commit stopped after its renames, or before them with the
\* retained state (if any) the one domain.yaml names.
Recoverable ==
    \/ journal = None /\ Paired
    \/ journal # None /\ (backup.exists => backup.contract = domain)
    \/ journal # None /\ journal.contract = domain /\ Paired

\* What holds at each step of the process that has the lock.
Progress(p) ==
    /\ pc[p] \in {"load", "reconcile"} => Recoverable /\ ~ForwardWithoutState
    /\ pc[p] \in EndPc => Recoverable
    /\ pc[p] = "restore" => /\ journal # None /\ journal.contract # domain
                            /\ domainTemp[journal.temp] # journal.contract
                            /\ backup.contract = domain
    /\ pc[p] = "drop_backup" => journal # None /\ journal.contract = domain /\ Paired
    /\ pc[p] = "close_journal" => journal # None /\ Paired /\ ~backup.exists
    /\ pc[p] \in {"mkdtemp", "stage", "clear_backup", "journal", "drop_previous"} => Paired
    /\ pc[p] \in JournaledPc => (backup.exists => backup.contract = domain)
    /\ pc[p] = "retire_state" => Paired /\ ~backup.exists
    /\ pc[p] = "unlink_journal" => journal # None /\ journal.contract = domain /\ Paired

RepairInv ==
    /\ ~stateRoot.exists => stateRoot.contract = None
    /\ \A p \in Proc :
          /\ pc[p] \in {"mkdtemp", "stage", "clear_backup", "journal", "drop_previous"}
                => journal = None
          /\ pc[p] = "restore" => backup.exists
          /\ pc[p] = "journal" => ~backup.exists
          /\ pc[p] = "swap_domain" => stateRoot.contract = job[p].contract
    /\ ~exposed => \A p \in Proc : Progress(p)
    /\ (~exposed /\ \A p \in Proc : ~Inside(p)) => Recoverable /\ ~ForwardWithoutState
=============================================================================
