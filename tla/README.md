# Formal models of fabric-kg-builder

This directory holds TLA+ models of the parts of fabric-kg-builder whose correctness
depends on the order in which things happen: a commit of two files that must describe
one contract, a checkpoint shared by worker threads, a command that is cancelled and
resumed, paid model calls that must be neither lost nor repeated, receipts that allow a
release to be made once, cloud resources created without ever being adopted, changes to
cloud services that must be undone. TLC checks the models on small instances;
TLAPS proves every safety property the runs check, and two refinements, for every value of
the constants.

Source paths below are relative to `src/fabric_kg_builder/` of the repository.

Contents: [parts of the system](#the-system) · [modules](#the-modules) ·
[runs](#runs) · [proofs](#proofs) · [divergences](#where-code-and-documentation-disagree) ·
[not modelled](#what-is-not-modelled) · [plan](#plan)

## The system

The program turns documents into a knowledge graph and a set of Microsoft Fabric, Azure
AI Search and agent resources. The current pipeline has seven layers, each a command
that seals its result with a receipt the next layer checks:

| Layer | Code | State it keeps | Operations that change it |
|---|---|---|---|
| L1 domain design | `domain/` | `.fkg/l1` (the state root), `domain.yaml`, a backup, a commit journal, a lock file; the artifacts of a windowed discovery | discover windows, propose and finalize, approve, resume, repair |
| L2 extraction | `enrichment/schema2_*` | work unit checkpoint: one state file, one artifact per leaf | extract with recursive splits, restart |
| L3 evidence validation | `enrichment/schema2_validation_*` | sealed output of one command | validate and publish |
| L4 serving projection | `serving/*projection*` | sealed output of one command | project and publish by one rename |
| L5 publication, retrieval | `serving/structured_publication.py`, `serving/evidence_retrieval.py`, `serving/release_manager.py`, `serving/orchestrator.py` | receipts by source, Fabric targets; search indexes, alias, release record | publish structured data and undo it; gate, cut the alias over, roll it back |
| L6 agent integration | `agent/l6_integration.py` | sealed authorities, the capability keyring | integrate, rotate keys |
| L7 release | `agent/l7_release.py` | two receipts and their reservations; remote resources | plan, approve, execute, roll back |

Beside it stand the document enrichment command `enrich`
(`enrichment/orchestrator.py`, `cli/enrich_cmd.py`), the create-only prototype publication
(`deploy/schema2_prototype*.py`), lineage, infrastructure and the runtime API.

How they interact. Layers share nothing but files: a layer reads the sealed documents of
the one before and compares digests, so the order of layers is enforced by data and two
layers never run inside each other. What runs concurrently is inside a layer, or is the
same layer started twice:

- *threads of one process*: the root units of L2 share a `WorkUnitCheckpoint`; the
  sources and the work units of `enrich` share a checkpoint file, a cancellation event
  and a completion store; the calls of a discovery window share its ledger; model clients
  share a process-wide outage breaker;
- *processes over one directory*: two L1 commands, two L2 runs, two executions of one L7
  release, two structured publications, a status command beside a windowed discovery;
- *services*: Fabric and Search carry operations out after they were accepted, lose
  replies, and are written to by others, another run of the same program included;
- *crashes*: every command may be killed between two system calls and started again.

What makes each part correct:

| Part | Hard behaviour | What must hold |
|---|---|---|
| L1 commit | two renames cannot be one; kill or failure between any two statements; two commands | transitions exclude each other; `domain.yaml` only receives announced bytes; after a repair it matches the state root, one window excepted |
| L2 checkpoint | artifact and index are two writes; threads race; runs restart or overlap | the index never lists what is not there; recorded work is never redone, replaced or contradicted; a failed read harms only what it was about |
| `enrich` | pool of sources over a pool of units; stale copies of one checkpoint; Ctrl-C, fatal errors, kills | recorded answers stay reusable; answers that are in are not lost; a complete document has its receipts; the command ends |
| L7 receipts | reservation by exclusive creation and hard links, by competing executions, killed anywhere | one execution changes the services; its outcome is final and true |
| L7 changes | lost and late replies, foreign writes, a rollback that may itself fail | receipts say of the services what is so; what somebody else wrote is not lost unseen |
| windowed discovery | paid calls; a kill between a dispatch and its answer, an answer and its commit; budgets; an unlocked reader | calls are on record before they are made; answers are kept; paid repairs are used; a generous operator gets a report |
| prototype publication | creates whose reply is lost; a shared workspace; an operator's reconciliation; an upgrade of the code between two runs | nothing is created twice or adopted; items are built over the run's own; it finishes or is blocked by what it must not decide |
| L5a structured publication | no lock; runs over the same targets; lost and late requests; undoing within a call budget | a clean failure is clean; a proved publication is replaced knowingly; a mix is reported; a skip is true |
| L5 alias cutover and `run_l5b`, L6 keyring, outage breaker | see [plan](#plan) | not modelled yet |

`PROJECT.json` lists every component with its status, and under "hazards" each place in
the code where such a behaviour bites, with the properties that guard it or a note on why
none does.

## The modules

| Module | Models |
|---|---|
| `L1Commit` | `domain/stage.py`: finalize, approve, resume and repair of the L1 state |
| `WorkUnits` | `enrichment/schema2_work_units.py`, and the recursive extraction that drives it |
| `Enrichment` | `enrichment/orchestrator.py` and `cli/enrich_cmd.py`: enrichment of documents, cancellation and resume |
| `ReleaseOutcome` | abstract: what the receipts of a release promise |
| `L7Receipt` | `agent/l7_release.py`, `L7ReceiptStore` and the executor around it; refines `ReleaseOutcome` |
| `L7Release` | `agent/l7_release.py`, `L7Executor.execute` with the live backend: changes and rollback |
| `WindowRun` | `domain/window_run.py`: the discovery of a corpus window by window, its ledger of calls, the status command |
| `CreateOnly` | abstract: what a create-only publication promises |
| `PrototypeJournal` | `deploy/schema2_prototype.py` and `..._reconcile.py`: create-only publication over a journal, recovery of lost creates; refines `CreateOnly` |
| `StructuredPublication` | `serving/structured_publication.py`, `run_l5a`: publication to targets, read-back, compensating undo |
| `MC...` | the instances TLC checks: symmetry sets and constant functions |
| `...Proofs` | theorems and proofs about the module of the same name |

`L7Receipt` and `L7Release` are two views of one executor. `L7Receipt` keeps the receipt
files in full and reduces the changes to one step per outcome; `L7Release` keeps every
change and reply and reduces the receipt to its status. They meet at
`L7Receipt!Rollback`, whose verdict is what `L7Release` computes.

In every module a step of `Next` is one system call or one stretch of code between two
points where another actor can be seen; `pc` names the next such point. Operators whose
comment starts with "Mutant:" are not part of the model: each is a plausible bug of the
definition below it, and a property is kept only if one of them breaks it.

### L1Commit

`finalize_l1_stage` replaces the directory `.fkg/l1` and the file `domain.yaml` by two
renames. Before them it writes a journal (`.l1.commit-journal`) with the digest of the new
`domain.yaml` and retires the old directory to `.l1.previous`. The next command runs
`reconcile_interrupted_l1_commit`, which works out from journal, digests and backup how
far the last one came, and completes or undoes it.

| Variable | Code |
|---|---|
| `stateRoot`, `backup` | `.fkg/l1`, `.l1.previous`: the contract sealed inside and the status of the receipt |
| `domain`, `domainTemp` | `domain.yaml` and each process's `.domain.yaml.<pid>.tmp` |
| `journal` | `.l1.commit-journal`: the announced digest and the staged file's name |
| `lock` | `.l1.transition.lock`, created with `O_EXCL`: free, its process, or stale |
| `pc`, `job` | where a command is and what it commits |
| `exposed` | history: the window described below was met |

Actions: `StartFinalize`, `StartApprove`, `AcquireApprove`, `LoadDraft` begin a
transition; `Reconcile`, `AbandonRepair`, `Restore`, `DropBackup`, `CloseJournal` are the
repair; `MakeTemp`, `Stage`, `ClearBackup`, `PublishJournal`, `RetireState`, `SwapState`,
`SwapDomain`, `UnlinkJournal`, `DropPrevious` the commit and `DropTemp`, `UnlinkTemp`,
`Release` its `finally` clause, statement by statement; `ResumeRead` and `ResumeWrite` are
`try_resume_l1`, which takes no lock. `FailCommit` is an `OSError` inside the `try`,
`FailRepair` one before it (or a journal that cannot be read), `FailFinally` one in the
`finally` clause, which skips the statements after it: the staged bytes and the lock file
may survive. `Crash` is a kill. `ClearStaleLock` is the operator deleting a lock file left
behind. A statement that fails or is killed may be half done (`HalfDone`): a torn staged
file, a directory half deleted.

A contract is the draft and the instant of its approval, which stands for the bytes and
their digest; two approvals may bear the same instant, so a commit may write the bytes
`domain.yaml` already has, which the repair cannot tell from a finished commit.

There is one window in which no repair can keep the pair: a transition that ends, by a kill
or by a failed rename whose `finally` clause fails too, after its journal and before its
state rename, with the announced bytes staged (or in `domain.yaml` already). The history
variable `exposed` says that this has happened since the last complete commit
(`ForwardWithoutState`, looked at by every step that leaves the transition). `PairOrJournal`
and `RepairMatches` say that outside this window the repair is right; `RepairedPairMatches`
is the claim of the docstring without the exception, and is violated.

### WorkUnits

A thread per root unit looks its unit up in the checkpoint (`Reuse`, `ReuseSplit`), calls
the model (`Call`), splits the unit when the answer is too long (`RecordSplit`) or records
the leaf. `record_leaf` is `RecordLeaf` (take `_lock`, look at the artifact) and then, as
the file is absent, broken or valid, `ReadFresh`, `Truncate` and `Fill`, `Persist`: the
artifact is written in place, the index is replaced atomically with the whole memory of
the process. `WriteFails` is an `OSError` in either; `DecodeFails` the `UnicodeDecodeError`
of an artifact cut inside a character, which no handler catches; `Crash` a kill; `End` the
join of the pool.

| Variable | Code |
|---|---|
| `file`, `disk` | leaf artifacts and the state file |
| `mem`, `mutex` | `_state` and `_lock` of each run's checkpoint |
| `active`, `pc`, `stack`, `held`, `seen` | the runs and their threads; `stack` is the recursion |
| `got` | the leaf results of a run |
| `blind` | history: runs whose first read of the state file failed |

A work unit's identifier contains its authority fingerprint, so the comparisons of
fingerprints are left out. It also contains the source unit and the pass, which a child
shares with its parent: the constant `RootOf` (`root_work_unit_id`) says which root a unit
descends from, so the units of two roots are disjoint. `MayOverlap` says whether a run may
start while another works over the same directory, which the code does not prevent.

The code takes a failed read for "nothing there". Every read of the state file may fail: at
the start the index is then empty and the next write of it replaces the file (`Start`);
later an artifact that is there counts as unlisted and is adopted (`ReadFresh`). A read of
an artifact may fail for the units of the constant `Unreadable` (`Readings`): its recorded
result is not reused, and `record_leaf` overwrites it. Such a unit loses every guarantee,
and the properties are about the others; that the damage does not spread from it is what
they say. `CallOnlyUnrecorded` also excepts the runs in `blind`, which know nothing of what
is recorded.

### Enrichment

`enrich` gives each source to a worker; each source's coordinator
(`_run_work_items`) loads the checkpoint, reuses valid receipts, hands the other units to a
pool, and persists every answer: the receipt first (`WriteReceipt`), then the checkpoint
(`Record`, `_save_checkpoint_manifest`: read the file, let the coordinator's copy win,
replace the file). `Close`, `MarkDocument`, `OpenOutput`, `FillOutput` and `Finish` are the
end of a source: the groups are recorded, the document marked, the output rewritten in
place, the completion record added. `Notice` and `Abort` are the handler of a
`BaseException`, `Flush` and `Raise` its wait and what it persists; `Interrupt` is Ctrl-C,
`WriteFails` a failing write, `Kill` a kill. `Begin` is a new command, with or without
`--resume`, under an old run id or a new one.

| Variable | Code |
|---|---|
| `file`, `receipt` | `.checkpoint.json`, `receipts/<unit>.json` |
| `output`, `complete` | the canonical output and the completion store |
| `run`, `ident`, `mode` | the command, its run id, whether it resumes |
| `cancel` | `cancel_event` |
| `pc`, `copy`, `call`, `owed` | each source's coordinator, its copy of the checkpoint, its units, what its handler has to persist |

The answer of a call is the number of the command that made it. An input hash covers the
run id, the semantic contract and the execution identity; only the run id varies here. A
unit recorded as cancelled behaves like one recorded as failed, and a torn output like a
partial one. `Workers` and `Width` are the code's own formulas for the two pools; their
product never exceeds `MaxConcurrent`, so the semaphore of `_GloballyBoundedFoundryClient`
never makes a thread wait and is left out.

### L7Receipt and ReleaseOutcome

An execution reserves both outcomes before it changes anything, by creating
`.<receipt>.pending` and `.<receipt>.failure.pending` with `O_EXCL`; success fills the first, drops
the second and links the first to its final name; failure does the opposite. Files are
modelled as inodes: `dir` maps a name to a file, `data` a file to its content, so that a
file removed by name may be somebody else's. Every call of `reserve`, `commit_success`,
its handler, `commit_failure` and `cancel` is an action.

| Variable | Code |
|---|---|
| `dir`, `data` | the four names; content of every file ever created |
| `pc`, `held` | the next call of an execution; the failure file it holds |
| `verdict`, `effect` | what its rollback reported, and what it left of the services |

`Fault` selects what may go wrong: `"oserror"` (any call raises), `"interrupt"` (Ctrl-C
late in `commit_success`), `"kill"`. `ReleaseOutcome` is the promise: one execution claims
the release, then it is settled, once. `Implements` is the refinement, with
`changers` the executions that changed something and `outcome` read off the two final
names.

### L7Release

The executor applies its plan in order and, on any exception, rolls back from the action
it is at. A request is answered at once, accepted and carried out later (`Land`), refused,
or its reply is lost; `Wait` gives an operation up after 300 s. `Drift` is anybody else's
write. A creation that failed is looked for by its marker or name and deleted at once
(`ReconcileItem`, `ReconcileNamed`); a rollback (`UndoUpdate`, `UndoCreated`, `Revert`,
`Linger`, `Check`) restores an old definition under the version it has read, deletes under
the version of creation, and verifies.

| Variable | Code |
|---|---|
| `content`, `ver`, `flight` | each resource, its ETag, the operation accepted for it |
| `pc`, `cur`, `scope` | the executor, the action it is at, whether it rolls back all or one creation |
| `known`, `tag`, `confirmed` | `_created_fabric_ids`, `_created_etags`, `_mutation_confirmed` |
| `seen`, `outlived`, `errors`, `receipt` | version read by a restore, operations given up, failed rollbacks, status sealed |
| `drifts`, `editsRead` | writes of others so far; history: created resources the executor has read since others edited them |

Choices a reader may ask about. An update always carries If-Match, since the planner
refuses an item without an ETag (around line 1228). The ETag is taken from the
`getDefinition` reply and else from the item. A reconciled creation without an ETag ends
like one that is abandoned, a choice the model has. Interrupts raise where a request may
fail, also a choice the model has. Deletion of resources by others is not modelled.

What others write is of two kinds, which the code treats differently. A definition they put
in place of another and a name they took (`"theirs"`) are never touched: the conditional
requests fail. A resource the release created and they edited (`"edited"`) is deleted by the
rollback all the same when a readback or a reconciliation has seen the edited resource and
kept its ETag (`Look`); only an edit made after the last such look is safe.
`NothingLostUnseen` says exactly this.

### WindowRun

The corpus is cut into windows of chunks. For the window at work (`Open`) the coordinator
reserves a model call for each chunk that has no answer (`Reserve`: append to
`dispatches/`), its threads make the calls (`Ask`) and record the answers (`Answer`,
`FailCall`, `Retry` within the command); after the barrier (`Join`) it asks for repairs of
what an answer proposed, one chunk after the other (`AskRepair`, `Repaired`), commits the
window (`Commit`), publishes the report (`Publish`) and moves the pointer (`Point`).
`Start` is a command with a budget, which first reads what earlier ones left; `Kill` ends
it anywhere. `ListCommits`, `ReadReport` and `Refresh` are the status command, which reads
beside it without a lock.

| Variable | Code |
|---|---|
| `mode` | the sealed discovery mode of the manifest: one request per chunk or per document |
| `tries`, `last`, `response` | `dispatches/`; `received-invalid/` and `physical-errors/`; `responses/` |
| `commits`, `latest`, `final` | `windows/`, `latest.json`, `run.json` |
| `pc`, `budget`, `pos`, `job`, `blocked`, `fixed` | the coordinator: its place, the calls of its threads, what stops it, the repairs it holds |
| `calls`, `repairs`, `opened`, `retried` | the counters its budget is compared with |
| `asked` | how often the model was really called, which no file records |
| `rpc`, `seen`, `found` | the status command |

The advisory lock of `window_schema.py` dies with its holder and keeps a second
coordinator out, so there is one. The ceilings of tokens and characters refuse a
reservation exactly as the one of calls does; the report and `run.json` are one step. A
corpus with unsupported sources is not modelled.

### PrototypeJournal and CreateOnly

A publication creates a Lakehouse, writes the sealed tables and creates the native items
over them. `Start` takes the journal's lock and verifies the plan; `Baseline` records the
workspace; then each step saves its intent (`Intend`, `IntendWrite`), sends (`Post`,
`Write`), takes the reply (`Reply`, `Body`, `Resolve`, `Poll`, `Result`) and saves what it
learnt (`Own`, `Identity`, `Define`, `Written`, `Prove`), and `Ready` proves the whole.
`Resume` and `ResumeReconciled` go by the journal alone. `Review` and `Accept` are the
operator's reconciliation of a create whose reply was lost; `Upgrade` is new code between
two runs, to which neither plan nor receipt is bound. The services `Serve`, `Finish` and
`Commit` what they were sent, at any time; `Lose` drops a reply, `Fail` is an error,
`Kill` a kill, `Others` what other users do to the workspace: create an item of the same
name, delete one, write to a table.

| Variable | Code |
|---|---|
| `items`, `svc`, `onelake` | the items the workspace ever had; the fate of each create request and of each table write |
| `status`, `baselined`, `act`, `delta`, `receipt` | the journal: status, `baseline`, the actions of creates and tables, the accepted reconciliation |
| `review` | a reconciliation written but not accepted |
| `program` | the version of the publisher's code; the plan is bound to version 0 |
| `pc`, `at`, `got`, `late` | the running command: place, step, the id in its memory, whether it asks again for a polled result |
| `sent` | how often each create was requested, which only the service knows |

`CreateOnly` is the promise without journal, operator or failures: kinds are asked for, one
item of each is made, owned for good, tables are committed into the owned base, and what
rests on the base is asked for last. `Implements` is the refinement: `asked` is read off
`sent`, `made` off the items the run's requests made, `owned` off the journal, `committed`
off the tables whose first commit is the run's.

An item's id is its position in `items`, so identity is by id and never by name, as in the
code. Definitions and table contents are abstracted to who wrote them.

### StructuredPublication

`run_l5a` reuses a receipt whose targets read back as it says (`Reuse`), or inspects all
targets (`Inspect`), publishes to them in order (`Publish`), reads all back (`ReadBack`),
writes its receipt into a staging directory (`Seal`) and swaps it in (`Aside`, `Install`,
`Discard`). On any exception it undoes: changed targets are restored in reverse order
(`Restore`), a publication of unknown fate is looked into (`Recover`, `Rerestore`), created
targets are removed (`Cleanup`); a failure of an undo is noted and the next one follows.
The run raises and says whether an undo failed (`failed`, `partial`). Every remote call may fail, be
lost, or be carried out after the caller gave it up (`Land`); `Kill` is a kill. It also
stands for the two places where the run ends with an `OSError` of its own instead of its
report: before the `try`, when no staging directory can be made, and at the end of the
handler, when the report of the failure (`structured_publication.py` 4093-4133) cannot be
written and what the handler knew of failed undos is lost with it. The states are the same:
targets and directory as they are, and no verdict, so `MixIsReported` counts such a run
with the killed ones.

| Variable | Code |
|---|---|
| `tgt`, `flight`, `delayed` | the targets, known by the token of the run that wrote them; requests given up that may still land; those that did |
| `runRoot`, `replaced` | the source's directory with its receipt, and the one moved aside |
| `pc`, `at`, `recorded` | a run's place, its target, the run whose receipt it reuses |
| `prior`, `created`, `updated`, `unknown`, `errors` | what it saw, `created`/`updated`, the ambiguous publication, failures of its undoing |
| `calls`, `unaccounted` | the remote calls begun, against the fixed budget; runs a reuse read-back of which raised, which `Seal` does not forgive (3918-3928) |
| `alone` | the runs nobody has disturbed, for the properties |

The adapters are external: that a mutation is applied only to the state the run has seen
or made (compare and set on the token) is what the code requires of them, and `Applies` is
that contract. `End` forgets a run's memory, `prior` excepted, which the properties need.

## Runs

| Run | Instance | Shows |
|---|---|---|
| `l1_crash` | 2 processes, 1 draft, 2 approval instants; kills, and failures of every statement | transitions exclude each other and `domain.yaml` receives only announced bytes; outside the one window the pair matches or a journal is left between transitions, and matches after a repair |
| `l1_failure` | 2 processes, 1 draft, 1 instant; the same faults | every command ends |
| `l1_repair` | as `l1_crash` with 2 drafts | violated: the window is repaired into a mismatch |
| `wu_sequential` | 2 roots, one of which splits in two, 2 results per unit; one run after the other; reads of the state file and of the artifacts of one leaf and of the other root may fail | of the other units index and artifacts agree, nothing recorded is called or written again; every run ends |
| `l7r_kill` | 3 executions overlapping call by call, kills | reservations hold, success is true, the receipts refine `ReleaseOutcome` |
| `l7r_faults` | 3 executions in sequence; errors, Ctrl-C, kills | the failure receipt is honest and never stands beside a success |
| `l7_rollback` | a plan with one action of each kind, 2 foreign writes | receipts are true, foreign writes are not lost unseen |
| `enr_resume` | a document of two units twice, or two documents side by side once; pool of 2, all faults | recorded answers stay reusable, the handler loses none, complete documents have receipts, commands end |
| `enr_stale` | two documents side by side, twice | violated: a stale copy erases a success |
| `wr_resume` | windows of one and of two chunks, both modes, a small and a generous budget, one kill or failing call in all | calls are recorded first, answers kept, repairs used and bounded, windows in order, the status command accepts, the run completes |
| `pj_retain` | every kind of item, 1 table, 2 kills or failures, 1 act of others, 1 upgrade | nothing is created twice or adopted, items are built in order, ownership is final, the promise of `CreateOnly` is kept, the publication finishes or is blocked |
| `sp_overlap` | 3 runs, two of one source, 2 at once; a target that exists and one that does not; 2 faults | clean failures are clean, proved publications replaced knowingly, mixes reported, skips true, undoing affordable |

Type correctness is proved for every module, so no run spends time on it.

**Bounds and why they are enough.**

- L1: a lock file keeps all but one process out, so what matters is what one transition
  leaves for the next. Two processes make every pair of leftover and successor, and since
  each may run any number of commands a leftover may be of a leftover's repair. Two approval
  instants allow one approval to replace another, or to repeat it. Liveness needs one
  instant only: no wait depends on what is committed.
- WorkUnits: the unit that splits, its two leaves and an indivisible root give two threads
  that contend for `_lock` while one is inside a recursion. Two results let a repeated call
  answer something else, which is what would contradict recorded work. `Unreadable` holds one leaf of the split
  and the other root, so that a damaged unit has an undamaged one beside it in its own thread
  and in the other.
- L7Receipt: two executions contend for the reservation and a third one comes when
  both are dead or done. Each runs once; a restart is another execution.
- L7Release: `N = 3` has one action of each kind with an update between two creations, so
  there is something to undo before and after each. `MaxDrift = 2` allows one write before and one after the
  rollback has read. `ver` is bounded by the operations and `MaxDrift`.
- Enrichment: `MaxConcurrent = 2` makes a pool of two units for one source and two
  workers of width one for two sources, the two shapes the formulas have. `MaxRuns` and
  `Limit` bound the commands; two commands show what a resumed one makes of the leftovers
  of another. Ctrl-C comes once per command.
- WindowRun: a window of two chunks has calls that end in either order, and a window
  before it makes a commit to resume from. The small budget ends a command at a call, a
  repair or a window; the number of commands is not bounded. `MaxFaults = 1` bounds kills
  and failing calls together: one is enough for every pair of a leftover and a resumption.
- PrototypeJournal: one table and every kind of item give every order of steps.
  `MaxFaults = 2` lets a resumed run be interrupted too, `MaxForeign = 1` puts a foreign
  act at any point, `MaxUpgrades = 1` an upgrade before or after a reconciliation.
- StructuredPublication: with one target to restore and one to remove an undo has both
  forms, and a failure between them. `MaxOverlap = 2` interleaves any two runs call by call
  and lets a third come when one is over; a run's restart is another run of its source.
  `MaxFaults = 2` makes a failure whose undoing fails too.

**Symmetry** is used in runs without liveness only: processes, drafts, instants, executions
and the two runs of one source are interchangeable there. `CHECK_DEADLOCK FALSE` stands where the system really stops:
every execution of a receipt path is over (L7Receipt), the receipt is sealed and nothing
is under way (L7Release), the bound on commands is reached (Enrichment), the publication is
finished or blocked and the bounds are used up (PrototypeJournal), all runs are over
(StructuredPublication). In L1Commit, WorkUnits and WindowRun a command can always be
given, so deadlock is checked.

**Fairness.**

- `L1Commit!FairSpec`: weak fairness of each process's `Step`. A running command executes
  its next statement; a lock that is taken is an error, so no step waits for another
  process. Nothing obliges a command to start, to fail or to be killed.
- `WorkUnits!FairSpec`: strong fairness of each thread, since a thread that waits for
  `threading.Lock` finds it free again and again while others take it in between, and the
  lock does not starve a waiter for ever; weak fairness of `End`, the join of the pool.
- `Enrichment!FairSpec`: weak fairness of the steps of all sources together. Every model
  request has a timeout, so a call that is under way returns. Every step brings the command
  nearer to its end, hence fairness per source is not needed.

- `PrototypeJournal!FairSpec`: weak fairness of the command's steps; of `Start` until the
  publication is finished, the operator running it again; and of each service's `Serve`,
  `Finish` and `Commit`, an accepted operation being carried out. Replies may be lost,
  commands killed and names taken as often as the bounds allow.
- `WindowRun!FairSpec`: weak fairness of the coordinator's and its threads' steps, model
  requests having timeouts; strong fairness of starting a command with a generous budget,
  since commands with a small one come in between.

L7Receipt, L7Release and StructuredPublication state no liveness: each is a straight line
of calls, bounded by deadlines of the client or by the call budget.

## Proofs

| Theorem | States | Assumes |
|---|---|---|
| `L1CommitProofs!TypeCorrect` | `TypeOK` | |
| `L1CommitProofs!TransitionsAreExclusive` | `TransitionsExclusive` | |
| `L1CommitProofs!DomainFollowsJournal` | `DomainMovesOnlyUnderJournal` | |
| `L1CommitProofs!PairIsRepairable` | `PairOrJournal` | |
| `L1CommitProofs!RepairKeepsThePair` | `RepairMatches` | |
| `WorkUnitsProofs!TypeCorrect` | `TypeOK` | |
| `WorkUnitsProofs!IndexNeverRunsAhead` | `EntryHasArtifact` | |
| `WorkUnitsProofs!IndexMatchesArtifacts` | `EntryMatchesArtifact` | runs do not overlap (units in `Unreadable` excepted, in the property) |
| `WorkUnitsProofs!ArtifactsAreImmutable` | `LeafImmutable` | the same |
| `WorkUnitsProofs!ReturnsAreRecorded` | `ReturnedIsRecorded` | the same |
| `WorkUnitsProofs!CallsAreForNews` | `CallOnlyUnrecorded` | the same (runs in `blind` excepted too) |
| `L7ReceiptProofs!TypeCorrect` | `TypeOK` | |
| `L7ReceiptProofs!ReservationsHold` | `OutcomesReserved` | executions are killed, calls do not fail |
| `L7ReceiptProofs!SuccessReceiptsAreTrue` | `SuccessIsTrue` | the same |
| `L7ReceiptProofs!ReceiptsImplementOutcome` | `Implements` | the same |
| `L7ReceiptProofs!FailureReceiptsAreTrue` | `FailureIsTrue` | executions do not overlap; every fault |
| `L7ReceiptProofs!ReleasesHaveOneOutcome` | `OneOutcome` | the same |
| `L7ReleaseProofs!TypeCorrect` | `TypeOK` | |
| `L7ReleaseProofs!RolledBackReceiptsAreTrue` | `RolledBackIsTrue` | |
| `L7ReleaseProofs!SucceededReceiptsAreTrue` | `SucceededIsTrue` | |
| `L7ReleaseProofs!NoForeignWriteIsLostUnseen` | `NothingLostUnseen` | |
| `EnrichmentProofs!TypeCorrect` | `TypeOK` | |
| `EnrichmentProofs!InterruptsKeepAnswers` | `InterruptKeepsAnswers` | |
| `EnrichmentProofs!RecordedAnswersAreKept` | `KeptIsReusable` | (one source at a time, in the property itself) |
| `EnrichmentProofs!CompleteDocumentsAreWhole` | `DocumentHasReceipts` | (the same) |
| `WindowRunProofs!TypeCorrect` | `TypeOK` | |
| `WindowRunProofs!CallsAreReserved` | `CallsReserved` | |
| `WindowRunProofs!NoRepairIsSkipped` | `RepairNotSkipped` | |
| `WindowRunProofs!WindowsAreInOrder` | `WindowsInOrder` | |
| `WindowRunProofs!AnswersAreFinal` | `AnswersFinal` | |
| `WindowRunProofs!RepairsAreBounded` | `RepairsBounded` | |
| `WindowRunProofs!StatusIsAccepted` | `StatusAccepts` | |
| `PrototypeJournalProofs!TypeCorrect` | `TypeOK` | |
| `PrototypeJournalProofs!CreatesAreSingle` | `CreatedOnce` | |
| `PrototypeJournalProofs!NothingIsAdopted` | `NothingAdopted` | |
| `PrototypeJournalProofs!BuildsInOrder` | `BuiltInOrder` | |
| `PrototypeJournalProofs!OwnershipIsFinal` | `OwnershipFinal` | |
| `PrototypeJournalProofs!PublicationsKeepThePromise` | `Implements` | |
| `StructuredPublicationProofs!TypeCorrect` | `TypeOK` | |
| `StructuredPublicationProofs!RollbackIsAffordable` | `RollbackAffordable` | |
| `StructuredPublicationProofs!SkipsAreTrue` | `SkipIsTrue` | |
| `StructuredPublicationProofs!SuccessIsReplacedKnowingly` | `SuccessReplacedKnowingly` | |
| `StructuredPublicationProofs!CleanFailuresAreClean` | `CleanFailureIsClean` | |
| `StructuredPublicationProofs!MixesAreReported` | `MixIsReported` | |

All hold for any number of processes, threads, documents, units, commands, executions,
actions, windows, tables, targets, faults and foreign writes. Beside the type
invariants, `EntryHasArtifact` is the one property proved that no run checks: it is weaker than `EntryMatchesArtifact`, but holds for
overlapping runs. Each rests on the named ASSUMEs of its module (the sentinels differ from the data,
constants have their shape) and, where the last column says so, on an assumption about the
environment without which TLC finds the property violated.

The arguments:

- **L1.** Exclusion alone is not inductive: it must be known that the lock file names the
  process inside. `LockInv` says that, and follows the bytes: from staging to the rename
  the staged file holds the command's contract, and from the journal on the journal
  announces it. With `LockInv` the action property follows by looking at the three
  actions that change `domain`. The pair properties need `RepairInv`: `Recoverable` is the set
  of file-system shapes from which the repair is right, and `Progress` says at each step of
  the process inside which part of that set the files are in. Both are conditional on
  `~exposed`: every step that leaves the transition either leaves a recoverable shape or sets
  `exposed`, and a commit that gets as far as renaming `domain.yaml` resets it, because both
  renames are then its own.
- **WorkUnits.** `ThreadsInv` says what a thread carries at each step and who holds the
  lock. `ArtifactInv`, that memory and disk list only units with an artifact and that a
  thread about to persist has written its own, is inductive even when runs overlap, since
  no step removes an artifact. For equality of bytes one needs that nobody else writes:
  `ExclusionInv` (one active run, one thread past the lock) and `MatchInv` (memory and disk
  agree with the files, the unit being written excepted, and those whose artifact a read may
  fail on: a look at any other artifact returns its content, so only a missing or torn one
  is written). What is returned and what is
  called needs the threads told apart: `FamilyInv`, a thread keeps to units of its root;
  `SplitInv`, a unit on a stack has been split; `IndexInv`, the memory of a run that
  could read the state file holds all of it, and any memory is ahead of it only in a unit a
  thread is about to persist, or whose thread has failed, and what a run has returned is in
  both; `CurrentInv`, a unit being called or written has no entry yet.
- **L7Receipt.** `Holding` says at which steps the pending names are the execution's own
  files, `Blocking` that an execution which changed something has left a name that stops
  every other `reserve`, and that two are never both between their first change and
  their receipt, `Filled` that the success receipt is linked only once it is whole.
  `Decided` orders verdict and failure receipt. The refinement needs `Blocking`: `Apply`
  is `Claim` because nobody else has changed anything, a link is `Settle` because neither
  final name exists, and all else stutters. The failure receipts rest on `HonestInv`
  instead, which holds under every fault but needs executions not to overlap: one attempt
  is under way, both final names are empty until it links one, and its failure file is
  closed before the success is linked, so that only an attempt without one can keep a
  success receipt through a rollback.
- **L7Release.** `Phase` says what the executor's position means for the actions before
  and after it; `Flights`, which operation may still be under way for which action, and that
  only an update given up can be; `Versions`, that a version written by
  somebody else is newer than every version the executor remembers, or, in a resource the
  release created, newer than every one remembered without having been read, so that a
  conditional request with a remembered one does not touch what nobody looked at.
- **Enrichment.** `Given` says the sources are an input of the command, so that the number
  of workers never changes while it runs. `HandlerInv` follows the answers through the handler
  of an interrupted coordinator: none is half persisted when it starts to wait, all are
  owed when it stops, each is owed until it is recorded. `OrderInv` is the order of the two
  writes. `SoloInv` is the reason why one source at a time is safe and two are not: the only
  coordinator at work has a copy that equals the file wherever a unit is done and in every
  document mark, so that its winning copy changes nothing there; a mark of this command
  implies that each unit is done, or that the command is over and nothing writes any more.
- **WindowRun.** `CallFacts` keeps the number of calls made below the number reserved, by
  one more while a call is queued, and a call under way to the window at work and to a
  request without an answer. `Covering` says that what the coordinator has been through is
  answered or under way unless something blocked it, hence `Answers`: repairs begin when
  all is answered. `TakenOver` follows the repairs, those of killed commands included,
  into the commit, where `Behind` keeps them. `Ahead` is that nothing is asked early.
  `ReportsFit` orders what is published, listed and read behind the commits, which only
  grow; that is why a reader without the lock is never refused. `Counted` says a coordinator
  at work knows every repair ever reserved. Repairs are counted as the cardinality of the
  set of their records (`RepairRecords`), so that one reservation adds one element and no
  induction over a sum is needed.
- **PrototypeJournal.** `CreateFacts` ties journal and service together for each create:
  nothing was requested before its intent, one request at most, one item of it at most,
  and every id in the journal is that item's. `PlaceKnows` is what carries it over a step:
  the command sends only what was never sent, and the id in its hand is the created one.
  `Behind` says what the steps before the present one have left in the workspace, which
  nobody can undo (an item's origin and a table's first commit are final). The refinement
  needs two facts more: `Asked`, a service answers only what was requested, and
  `LakehouseFirst`, the journal owns the Lakehouse before a write is under way or the run is
  past its first step. Then `Post` is `Ask`, a service that carries a request out is `Make`,
  `Own` and `Accept` are `Own` (or a stutter, where a resumed run learns again what it
  owns; the id is the same because one item was made), `Commit` is `Commit`, and everything
  else, other users and kills included, changes nothing that was promised.
- **StructuredPublication.** `RunFits` says what a run has in memory at each place, `Spent`
  how many calls lead there and how many targets are listed, which bounds the calls of
  every undo. `AloneFits`: beside an undisturbed run no other is under way and what it has
  compared is still so. `FlightFits`: a request nobody waits for is of a failed run.
  `Origins`: what a target has, or was seen to have, was published by a run past its
  inspection, and no run has seen its own. `Held`: a published target is listed, unknown,
  reported in error, late, or given back by a run that had seen it; a clean end leaves only
  the last two. That a mix is reported needs the order of overlapping runs: `Ranked` says
  the runs can be numbered in the order in which they finished their inspection so that
  whatever a run has seen on a target came before it (`Ordered`), and that the runs that
  stand at a target lie on one another in that order, each having seen the one below
  (`Stacked`). Of two runs that are over and have not failed the later one is then on top
  at every target, so all targets are its own. `Excused` collects what may break the stack:
  a kill, a failed undo, a late request, a run seen before it failed.

Checked by TLC only: liveness (`TransitionEnds`, `RunEnds`, `CommandEnds`,
`CompletesOrStuck`, `FinishesOrBlocked`), which is outside the prover. Every other property
of a passing run is a theorem.

## Where code and documentation disagree

Two runs end in a violation; `PROJECT.json` quotes the lines ("findings").

1. **`l1_repair`.** A kill after the journal is published and before the state root is
   renamed is "completed forward": the new `domain.yaml` is installed beside the old state
   root, or beside none, and the backup and journal are deleted. The same follows without a
   kill when the state rename fails and then `shutil.rmtree(temp_root)` does
   (`domain/stage.py:4071`): the staged bytes and the lock file survive, and once an operator
   has removed the lock the repair goes forward. The docstring of the repair promises the
   pair matches.
2. **`enr_stale`.** Each coordinator saves the copy of the whole checkpoint it loaded at its
   start, and its copy wins over the file: with two sources side by side one erases a
   success the other has recorded, and the next resume calls the model again.
   `KeptIsReusable` is what does hold: one source at a time.

Further behaviours the models have, or the reading showed, and no run states:

- L1: an `OSError` between taking the lock and the `try` leaves the lock file behind
  (`domain/stage.py:4000`), and so does one in the `finally` clause (`:4071`, `:4073`). A failure of the first rename leaves a journal that no later
  repair can close (`:3969`). A commit of the bytes `domain.yaml` already has is taken for
  finished (`:3958`). An approval checks the draft before the repair that may replace it
  (`:4518`). `try_resume_l1` rewrites the receipt without the lock, over a draft committed
  in between (`:4650`).
- WorkUnits: with two runs at once the second writer replaces a valid, listed artifact
  (`schema2_work_units.py:535`), and its index replaces the first one's entries (`:407`).
  One failed read of an artifact makes a recorded leaf be called again (`:423`) and its valid
  artifact be overwritten in place (`:473`, `:485`): if the process then dies before the index
  is replaced the entry no longer describes the artifact, and every later run whose model
  answers differently ends in a collision (`L2_CHECKPOINT_STALE`). One failed
  read of the state file at the start (`:385`) makes the run begin with an empty index that
  replaces the file, so entries of other units and all splits are forgotten. An artifact cut
  inside a UTF-8 character raises `UnicodeDecodeError`, which is neither an `OSError` nor a
  `JSONDecodeError`: its unit fails in every later run until the file is removed.
- L7: an update whose reply was lost, or that outlasts the wait, may land after the rollback
  was verified by the old definition's hash and the receipt says rolled-back;
  `RolledBackIsTrue` is what does hold. Ctrl-C after the success receipt is durable rolls
  the services back and the receipt stays. The handler of `commit_success` unlinks both
  pending names before it creates the failure one again (`l7_release.py:1085`); an
  execution that reserves in between loses its reservation. A resource the
  release created is deleted with the edits somebody has made to it, once a readback or a
  reconciliation has taken its new ETag (`:2076`, `:2500`, `:2646`).
- Enrichment: a completion record is never withdrawn: enriched whole, then partially without
  `--resume`, a document is skipped by the next `--resume`, its output partial
  (`cli/enrich_cmd.py:1551`). `--resume` without `--run-id` mints a new run id, which is in
  the input hash, so no receipt is reused. A kill during the rewriting of an output leaves
  it torn beside a completion record.
- WindowRun: a malformed answer that is durable is refused by every later command and asked
  for again by none, so it wedges the run for good (`Stuck`).
- PrototypeJournal: where no id had been returned, a second reconciliation replaces the
  receipt of an earlier one of the other kind, which can then never be resumed; where one
  had, it is refused ("cannot be replaced", `schema2_prototype_reconcile.py:495`). A create
  whose operation has already succeeded when first polled never saves `returned_item_id`
  (`schema2_prototype.py:812`), so that a Lakehouse created that way fails the proof.
- StructuredPublication: two runs overlap; the first loses the reply of a publication that
  landed, the second publishes over it, and the first, which finds another token, fails
  "cleanly". When the second then fails it restores the state the first has withdrawn. So
  may a request that lands after the recovery has looked. These are the exceptions in
  `CleanFailureIsClean` and `MixIsReported`. If the directory moved aside cannot be deleted
  after the swap, the run undoes its publication and its success receipt stays; the next
  run compares, and publishes again. A run whose reuse read-back raised publishes and reads
  back everything and then fails for certain, and undoes it (3918-3928). Ctrl-C is not caught
  and undoes nothing. An undisturbed run's skip is true; beside another run a skip may
  describe what that one is about to replace, and `SkipIsTrue` does not speak of it.
- Lineage: two commands load, change and save the registry, and the later save loses the
  other's run (`lineage/registry.py:149`). The runtime's lock per turn is created on demand
  (`runtime/semantic_reliability.py:475`). Neither is modelled.

## What is not modelled

- *Pure code*: compilers, validators, projections, schemas, hashing, prompts, graph
  algorithms, parsers. They have no order to get wrong; their results appear in the models
  as values.
- *Single calls to services* (Fabric writers, search upload, `az deployment`): no state
  between the calls.
- *Sequential commands* whose only write is one atomic rename (L3, L4, parts of lineage).
- Inside modelled components: generating and scoring L1 proposals; planning of L2 units;
  tabular and image sources, drawing tiles, legacy completion and the change of the
  semantic contract in enrichment; planning and approval of an L7 release, the Foundry
  connection kind, deletion of resources by others; planning of a prototype and the content
  of its definitions; unsupported sources and schema merging in a windowed discovery, and
  `load_windowed_run`, which refuses, safely, while a commit is not yet published; the live
  Fabric adapter of L5a (`deploy/fabric_l5a_targets.py`), which refuses to publish, so that
  only tests call `run_l5a`.
- Assumed, not modelled: a prototype's reconciliation takes an item for the run's own when
  name, description, definition and absence from the baseline agree; the model gives each
  item its origin instead (`PrototypeJournal!Proof`), so that these four identify it is an
  assumption. A publication also stops for good when the workspace has no graph slot left,
  when the created Lakehouse does not confirm its schema, or when a definition is
  materialized or read back with another content than before (`schema2_prototype.py`
  1871-1878, 1900-1908); none of these is modelled, and `FinishesOrBlocked` is about
  publications that meet none.
- *`run_l5b`* (`serving/evidence_retrieval.py`): the pattern of `run_l5a` with one target.
- *Concurrent `enrich` commands* over one workspace: no lock exists and no document speaks
  of it. Commands of the model follow one another.

## Plan

Done, in this order, each model-checked and then proved about: `L1Commit`, `WorkUnits`,
`L7Receipt` over `ReleaseOutcome`, `L7Release`, `Enrichment`, `PrototypeJournal`,
`WindowRun`, `StructuredPublication`. In order of importance, what is left:

1. **`AliasCutover`** (`serving/release_manager.py` 309-775, `serving/orchestrator.py`):
   gates, move of the alias, verification, rollback against a concurrent cutover. Instance:
   two releases, one alias.
2. **`OutageBreaker`** (`enrichment/foundry_client.py` 251-465): a latching breaker shared
   by all clients of the process, tripped and cleared by racing threads, and the bounded
   retries. Liveness: a request ends.
3. **`Keyring`** (`agent/l6_integration.py` 1808-2285): key rotation against capabilities
   in flight.
4. **`run_l5b`** (`serving/evidence_retrieval.py` 2345-2651), as far as it differs from
   `StructuredPublication`: it has one target.
