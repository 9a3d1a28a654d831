----------------------------- MODULE Enrichment -----------------------------
(***************************************************************************)
(* Document enrichment: `fabric-kg enrich` (cli/enrich_cmd.py) over        *)
(* enrichment/orchestrator.py.                                             *)
(*                                                                         *)
(* A command enriches one source or several.  Each source has a            *)
(* coordinator, which loads the shared checkpoint, hands the work units it *)
(* cannot reuse to its worker threads, and persists every answer: first    *)
(* the receipt of the unit, then the checkpoint.  A save merges the        *)
(* coordinator's copy into the file, the copy winning.  A source whose     *)
(* units all succeeded gets its canonical output and a completion record,  *)
(* which makes a later --resume skip it.  Commands run one after the       *)
(* other; calls fail, Ctrl-C and kills arrive, writes fail.                *)
(*                                                                         *)
(* Abstraction.  The answer of a call is the number of the command that    *)
(* made it, so a receipt's digest is that number.  An input hash contains  *)
(* the run id of its command; everything else it covers, the semantic      *)
(* contract and the execution identity, stays the same.  A cancelled unit  *)
(* recorded like a failed one, an output cut short counts as partial.      *)
(***************************************************************************)
EXTENDS Naturals, FiniteSets

CONSTANTS
    Source,         \* documents
    Inputs,         \* what a command may be given: a file or a directory of them
    Unit,           \* their work units
    Owner,          \* unit -> its source
    MaxConcurrent,  \* --max-concurrent
    MaxRuns,        \* bound on the commands given
    Limit,          \* input -> bound on the commands given over it
    Fault           \* subset of {"fatal", "write", "interrupt", "kill"}

ASSUME SourceAssumption     == IsFiniteSet(Source)
ASSUME InputsAssumption     == Inputs \subseteq SUBSET Source \ {{}}
ASSUME OwnerAssumption      == Owner \in [Unit -> Source]
ASSUME ConcurrentAssumption == MaxConcurrent \in 1..32
ASSUME RunsAssumption       == MaxRuns \in Nat /\ Limit \in [Inputs -> 0..MaxRuns]
ASSUME FaultAssumption      == Fault \subseteq {"fatal", "write", "interrupt", "kill"}

VARIABLES
    file,      \* .checkpoint.json: entries of work units and of documents
    receipt,   \* command that wrote the receipt of each unit, 0 if none
    output,    \* canonical output of each source
    complete,  \* sources with a record in the completion store
    run,       \* the current command, 0 before the first
    ident,     \* run id each command was given or minted
    mode,      \* "resume" (--resume without --force) or "anew"
    cancel,    \* cancel_event
    pc,        \* step of each source
    copy,      \* the manifest of each coordinator
    call,      \* what became of each work unit in this command
    owed       \* answers the handler of a coordinator has still to persist

durable == <<file, receipt, output, complete>>
command == <<run, ident, mode>>
vars == <<durable, command, cancel, pc, copy, call, owed>>

NoEntry  == [status |-> "none", run |-> 0]
Now(x)   == [status |-> x, run |-> run]
Entry    == {NoEntry} \cup [status : {"succeeded", "failed"}, run : 1..MaxRuns]
Manifest == [unit : [Unit -> Entry], doc : [Source -> Entry]]
Empty    == [unit |-> [u \in Unit |-> NoEntry], doc |-> [s \in Source |-> NoEntry]]

Busy  == {"running", "waiting", "flushing", "closed", "marked", "writing", "written"}
Final == {"absent", "new", "skipped", "succeeded", "failed", "raised", "dropped", "killed"}

Answer == {"ok", "failed", "fatal"}
Call   == Answer \cup {"none", "reused", "pending", "active", "written", "kept",
                       "recorded", "dropped", "unfinished"}

Units(s)  == {u \in Unit : Owner[u] = s}
Input     == {s \in Source : pc[s] # "absent"}
Over      == \A s \in Source : pc[s] \in Final
Workers   == IF Cardinality(Input) < MaxConcurrent THEN Cardinality(Input) ELSE MaxConcurrent
Width     == MaxConcurrent \div Workers
Pooled    == Width > 1

In(s, statuses) == {u \in Units(s) : call[u] \in statuses}

\* _run_work_items and _load_receipt accept entry e of unit u in this command.
Valid(u, e) ==
    /\ e.status = "succeeded"
    /\ ident[e.run] = ident[run]
    /\ receipt[u] = e.run

\* Mutant: the file's entries win over the coordinator's.
OverlayKeepsFile(mine, theirs) ==
    [k \in DOMAIN mine |-> IF theirs[k] # NoEntry THEN theirs[k] ELSE mine[k]]

Overlay(mine, theirs) == [k \in DOMAIN mine |-> IF mine[k] # NoEntry THEN mine[k] ELSE theirs[k]]

\* _save_checkpoint_manifest: the file's sections updated with those of manifest m.
Save(s, m) ==
    LET merged == [unit |-> Overlay(m.unit, file.unit), doc |-> Overlay(m.doc, file.doc)] IN
    /\ file' = merged
    /\ copy' = [copy EXCEPT ![s] = merged]

WithUnit(s, u, status) == [copy[s] EXCEPT !.unit[u] = Now(status)]

Goto(s, step)  == pc' = [pc EXCEPT ![s] = step]
Becomes(u, x)  == call' = [call EXCEPT ![u] = x]

-----------------------------------------------------------------------------
Init ==
    /\ file = Empty
    /\ receipt = [u \in Unit |-> 0]
    /\ output = [s \in Source |-> "none"]
    /\ complete = {}
    /\ run = 0
    /\ ident = [r \in 1..MaxRuns |-> 0]
    /\ mode = "anew"
    /\ cancel = FALSE
    /\ \E input \in Inputs :
         pc = [s \in Source |-> IF s \in input THEN "new" ELSE "absent"]
    /\ copy = [s \in Source |-> Empty]
    /\ call = [u \in Unit |-> "none"]
    /\ owed = [s \in Source |-> {}]

\* A new command over the same input, with --run-id or a fresh id.
Begin(m, id) ==
    /\ Over
    /\ run < Limit[Input]
    /\ run' = run + 1
    /\ ident' = [ident EXCEPT ![run + 1] = id]
    /\ mode' = m
    /\ cancel' = FALSE
    /\ pc' = [s \in Source |-> IF s \in Input THEN "queued" ELSE "absent"]
    /\ copy' = [s \in Source |-> Empty]
    /\ call' = [u \in Unit |-> "none"]
    /\ UNCHANGED <<durable, owed>>

\* Mutant: the receipt is not compared with the entry and the input hash.
ReusableUnread(u) == mode = "resume" /\ file.unit[u].status = "succeeded"

Reusable(u) == mode = "resume" /\ Valid(u, file.unit[u])

\* A worker takes a source and loads the checkpoint, reusing valid receipts.
Start(s) ==
    /\ pc[s] = "queued" /\ ~cancel
    /\ ~(mode = "resume" /\ s \in complete)
    /\ Cardinality({t \in Source : pc[t] \in Busy}) < Workers
    /\ copy' = [copy EXCEPT ![s] = file]
    /\ call' = [u \in Unit |->
                  IF Owner[u] # s THEN call[u]
                  ELSE IF Reusable(u) THEN "reused" ELSE "pending"]
    /\ Goto(s, "running")
    /\ UNCHANGED <<durable, command, cancel, owed>>

\* The completion store has the source: --resume returns at once.
Skip(s) ==
    /\ pc[s] = "queued" /\ ~cancel
    /\ mode = "resume" /\ s \in complete
    /\ Goto(s, "skipped")
    /\ UNCHANGED <<durable, command, cancel, copy, call, owed>>

\* _enrich_registered_source after the command was cancelled.
Refuse(s) ==
    /\ pc[s] = "queued" /\ cancel
    /\ Goto(s, "failed")
    /\ UNCHANGED <<durable, command, cancel, copy, call, owed>>

\* A worker thread, or the coordinator itself if there is but one, takes a unit.
Invoke(s, u) ==
    /\ pc[s] = "running"
    /\ call[u] = "pending"
    /\ IF Pooled THEN Cardinality(In(s, {"active"})) < Width
                 ELSE In(s, {"active", "written"} \cup Answer) = {}
    /\ Becomes(u, IF cancel THEN "failed" ELSE "active")
    /\ UNCHANGED <<durable, command, cancel, pc, copy, owed>>

\* The call of a unit ends and somebody still wants its answer.
Return(s, u, answer) ==
    /\ pc[s] \in {"running", "waiting"}
    /\ call[u] = "active"
    /\ answer = "fatal" => "fatal" \in Fault
    /\ Becomes(u, answer)
    /\ cancel' = (cancel \/ answer = "fatal")
    /\ UNCHANGED <<durable, command, pc, copy, owed>>

\* The coordinator may persist the answer of u now.
Turn(s, u) ==
    /\ In(s, {"written"}) \subseteq {u}
    /\ \/ pc[s] = "running"
       \/ pc[s] = "flushing" /\ u \in owed[s]

WriteReceipt(s, u) ==
    /\ Turn(s, u)
    /\ call[u] = "ok"
    /\ receipt' = [receipt EXCEPT ![u] = run]
    /\ Becomes(u, "written")
    /\ UNCHANGED <<file, output, complete, command, cancel, pc, copy, owed>>

\* The status _persist_result records for u, by what became of its call.
Recorded(u) == IF call[u] = "written" THEN "succeeded" ELSE "failed"

Recordable(s, u) ==
    /\ Turn(s, u)
    /\ \/ call[u] \in {"written", "failed"}
       \/ call[u] = "fatal" /\ pc[s] = "flushing"

Record(s, u) ==
    /\ Recordable(s, u)
    /\ Save(s, WithUnit(s, u, Recorded(u)))
    /\ Becomes(u, IF call[u] = "written" THEN "kept" ELSE "recorded")
    /\ owed' = [owed EXCEPT ![s] = @ \ {u}]
    /\ UNCHANGED <<receipt, output, complete, command, cancel, pc>>

\* Mutant: a unit counts as persisted before its persistence is over.
InterruptedForgets(u) == IF call[u] = "pending" THEN "dropped" ELSE call[u]

\* In the handler what has not started is cancelled, and the answer whose
\* persistence broke off is persisted again.
Interrupted(u) ==
    IF call[u] = "pending" THEN "dropped" ELSE IF call[u] = "written" THEN "ok" ELSE call[u]

\* A BaseException reaches the coordinator of s.  With a pool its handler sets
\* the event and waits; else, and in the handler itself, the source fails.
Abort(s) ==
    IF Pooled /\ pc[s] = "running"
    THEN /\ cancel' = TRUE
         /\ call' = [u \in Unit |-> IF Owner[u] = s THEN Interrupted(u) ELSE call[u]]
         /\ pc' = [pc EXCEPT ![s] = "waiting"]
    ELSE /\ pc' = [pc EXCEPT ![s] = "failed"]
         /\ UNCHANGED <<cancel, call>>

\* The coordinator meets the AssertionError of a call.
Notice(s) ==
    /\ pc[s] = "running"
    /\ In(s, {"written"}) = {}
    /\ In(s, {"fatal"}) # {}
    /\ Abort(s)
    /\ UNCHANGED <<durable, command, copy, owed>>

\* The handler's wait ends, with every call over or by its timeout.
Flush(s) ==
    /\ pc[s] = "waiting"
    /\ owed' = [owed EXCEPT ![s] = In(s, Answer)]
    /\ call' = [u \in Unit |-> IF u \in In(s, {"active"}) THEN "unfinished" ELSE call[u]]
    /\ Goto(s, "flushing")
    /\ UNCHANGED <<durable, command, cancel, copy>>

\* The handler re-raises.
Raise(s) ==
    /\ pc[s] = "flushing"
    /\ owed[s] = {}
    /\ Goto(s, "raised")
    /\ UNCHANGED <<durable, command, cancel, copy, call, owed>>

-----------------------------------------------------------------------------
\* Mutant: units reused from an earlier command are not counted.
SettledAnew(s) == Units(s) = In(s, {"kept", "recorded"})

Settled(s) == Units(s) = In(s, {"reused", "kept", "recorded"})
Partial(s) == In(s, {"recorded"}) # {}

\* The groups of the source are recorded: its whole copy is saved again.
Close(s) ==
    /\ pc[s] = "running"
    /\ Settled(s)
    /\ Save(s, copy[s])
    /\ Goto(s, "closed")
    /\ UNCHANGED <<receipt, output, complete, command, cancel, call, owed>>

MarkDocument(s) ==
    LET whole == /\ ~Partial(s)
                 /\ \A u \in Units(s) : copy[s].unit[u].status = "succeeded" IN
    /\ pc[s] = "closed"
    /\ Save(s, [copy[s] EXCEPT !.doc[s] = Now(IF whole THEN "succeeded" ELSE "failed")])
    /\ Goto(s, "marked")
    /\ UNCHANGED <<receipt, output, complete, command, cancel, call, owed>>

\* out_file.write_text truncates the output, then fills it.
OpenOutput(s) ==
    /\ pc[s] = "marked"
    /\ output' = [output EXCEPT ![s] = "partial"]
    /\ Goto(s, "writing")
    /\ UNCHANGED <<file, receipt, complete, command, cancel, copy, call, owed>>

FillOutput(s) ==
    /\ pc[s] = "writing"
    /\ output' = [output EXCEPT ![s] = IF Partial(s) THEN "partial" ELSE "whole"]
    /\ Goto(s, "written")
    /\ UNCHANGED <<file, receipt, complete, command, cancel, copy, call, owed>>

\* A partial document is an error; a whole one enters the completion store.
Finish(s) ==
    /\ pc[s] = "written"
    /\ IF Partial(s)
       THEN Goto(s, "failed") /\ UNCHANGED complete
       ELSE Goto(s, "succeeded") /\ complete' = complete \cup {s}
    /\ UNCHANGED <<file, receipt, output, command, cancel, copy, call, owed>>

-----------------------------------------------------------------------------
\* A write raises: of a receipt or entry, of the groups or the document, of the output.
WriteFails(s) ==
    /\ "write" \in Fault
    /\ \/ /\ \E u \in Units(s) : Turn(s, u) /\ call[u] = "ok"
          /\ Abort(s)
          /\ UNCHANGED copy
       \/ /\ \E u \in Units(s) :
               /\ Recordable(s, u)
               /\ copy' = [copy EXCEPT ![s] = WithUnit(s, u, Recorded(u))]
          /\ Abort(s)
       \/ /\ pc[s] \in {"closed", "writing"} \/ (pc[s] = "running" /\ Settled(s))
          /\ Goto(s, "failed")
          /\ UNCHANGED <<cancel, copy, call>>
    /\ UNCHANGED <<durable, command, owed>>

\* Ctrl-C, once per command and not after it was cancelled.  It reaches the main
\* thread, which waits for the sources or runs the only one itself; sources not
\* yet started are dropped.
Interrupt ==
    /\ "interrupt" \in Fault
    /\ ~Over /\ ~cancel
    /\ cancel' = TRUE
    /\ LET hit  == {s \in Source : Workers = 1 /\ pc[s] \in Busy}
           into == IF Pooled THEN {s \in hit : pc[s] = "running"} ELSE {} IN
       /\ pc' = [s \in Source |-> IF pc[s] = "queued" THEN "dropped"
                                  ELSE IF s \in into THEN "waiting"
                                  ELSE IF s \in hit THEN "failed" ELSE pc[s]]
       /\ call' = [u \in Unit |-> IF Owner[u] \notin into THEN call[u]
                                  ELSE Interrupted(u)]
    /\ UNCHANGED <<durable, command, copy, owed>>

\* The process dies, its memory with it.
Kill ==
    /\ "kill" \in Fault
    /\ ~Over
    /\ pc' = [s \in Source |-> IF pc[s] \in Final THEN pc[s] ELSE "killed"]
    /\ copy' = [s \in Source |-> Empty]
    /\ call' = [u \in Unit |-> "none"]
    /\ owed' = [s \in Source |-> {}]
    /\ UNCHANGED <<durable, command, cancel>>

-----------------------------------------------------------------------------
Step(s) ==
    \/ Start(s) \/ Skip(s) \/ Refuse(s)
    \/ \E u \in Units(s) :
         \/ Invoke(s, u) \/ WriteReceipt(s, u) \/ Record(s, u)
         \/ \E answer \in Answer : Return(s, u, answer)
    \/ Notice(s) \/ Flush(s) \/ Raise(s)
    \/ Close(s) \/ MarkDocument(s) \/ OpenOutput(s) \/ FillOutput(s) \/ Finish(s)

\* The first command has nothing to resume.
NewCommand ==
    \E m \in {"resume", "anew"}, id \in {ident[r] : r \in 1..run} \cup {run + 1} :
      /\ run = 0 => m = "anew"
      /\ Begin(m, id)

Next ==
    \/ NewCommand
    \/ \E s \in Source : Step(s) \/ WriteFails(s)
    \/ Interrupt
    \/ Kill

Spec == Init /\ [][Next]_vars

\* The threads of a command run, and its requests have timeouts.
FairSpec == Spec /\ WF_vars(\E s \in Source : Step(s))

-----------------------------------------------------------------------------
(* Properties.                                                             *)

\* Every variable has its shape.
TypeOK ==
    /\ file \in Manifest
    /\ receipt \in [Unit -> 0..MaxRuns]
    /\ output \in [Source -> {"none", "partial", "whole"}]
    /\ complete \subseteq Source
    /\ run \in 0..MaxRuns
    /\ ident \in [1..MaxRuns -> 0..MaxRuns]
    /\ mode \in {"resume", "anew"}
    /\ cancel \in BOOLEAN
    /\ pc \in [Source -> {"queued"} \cup Busy \cup Final]
    /\ copy \in [Source -> Manifest]
    /\ call \in [Unit -> Call]
    /\ owed \in [Source -> SUBSET Unit]

\* Where one source is worked on at a time, an answer that was recorded stays
\* recorded: the next resumed command with the same run id reuses its receipt
\* (orchestrator.py:2022 "valid successful work remains skipped").
KeptIsReusable ==
    Workers = 1 => \A u \in Unit : call[u] = "kept" => Valid(u, file.unit[u])

\* The same whatever the number of sources worked on at once.
SuccessIsReusable == \A u \in Unit : call[u] = "kept" => Valid(u, file.unit[u])

\* A coordinator that was interrupted, or met a fatal error or a failing write,
\* persists every answer that arrived before its handler stopped waiting.
InterruptKeepsAnswers ==
    \A s \in Source : pc[s] = "raised" => In(s, Answer \cup {"written"}) = {}

\* Where one source is worked on at a time, a document marked complete by this
\* command has a durable, valid receipt for each of its units
\* (orchestrator.py:2024 "The document is marked complete only after every
\* planned work unit has a durable successful receipt.").
DocumentHasReceipts ==
    Workers = 1 =>
      \A s \in Source : file.doc[s] = Now("succeeded") =>
        \A u \in Units(s) : Valid(u, file.unit[u])

\* Every command ends, whatever fails: no source waits for ever for its calls.
CommandEnds == ~Over ~> Over

-----------------------------------------------------------------------------
(* Inductive invariants.                                                   *)

\* The sources are those given, and untouched before the first command.
Given ==
    /\ Input \in Inputs
    /\ run = 0 => \A s \in Source : pc[s] \in {"absent", "new"}

\* What the handler of a coordinator has still to persist.
HandlerInv ==
    \A s \in Source :
       /\ pc[s] = "waiting" => In(s, {"written"}) = {}
       /\ pc[s] = "flushing" => In(s, Answer \cup {"written"}) \subseteq owed[s]
       /\ pc[s] = "raised" => In(s, Answer \cup {"written"}) = {}

\* A unit's receipt is written before its entry, a source closed once settled.
OrderInv ==
    /\ \A u \in Unit : call[u] = "written" => receipt[u] = run
    /\ \A s \in Source : pc[s] = "closed" => Settled(s)

Done == {"reused", "kept"}

\* One coordinator at a time: its copy differs from the file only in units whose
\* answer it has still to persist, and documents are marked by their own.
SoloInv ==
    Workers = 1 =>
      /\ \A s, t \in Source : pc[s] \in Busy /\ pc[t] \in Busy => s = t
      /\ \A u \in Unit : call[u] \in Done =>
           /\ Valid(u, file.unit[u])
           /\ \A s \in Source : pc[s] \in Busy => copy[s].unit[u] = file.unit[u]
      /\ \A s \in Source :
           /\ file.doc[s].run <= run
           /\ pc[s] = "queued" => file.doc[s].run # run
           /\ pc[s] \in Busy => copy[s].doc = file.doc
           /\ file.doc[s] = Now("succeeded") =>
                \A u \in Units(s) : Valid(u, file.unit[u]) /\ (Over \/ call[u] \in Done)

=============================================================================
