-------------------------- MODULE PrototypeJournal --------------------------
(* The create-only publication of a prototype into a Fabric workspace,     *)
(* deploy/schema2_prototype.py, and the operator's recovery of a lost      *)
(* create, deploy/schema2_prototype_reconcile.py.                          *)
(*                                                                         *)
(* A publication creates a Lakehouse, writes the sealed tables into it,    *)
(* then creates the native items over them.  It never deletes, overwrites  *)
(* or adopts: before a request it saves an intent in its journal, after    *)
(* the reply the evidence, and a later run goes by the journal alone.  A   *)
(* create whose reply was lost is never sent again; an operator may name   *)
(* the item it made, in a review that is accepted only unchanged.          *)
(*                                                                         *)
(* The command holds an exclusive lock on the journal, and so does the     *)
(* reconciliation: one of them runs at a time.  The workspace is shared.   *)
EXTENDS Naturals, Sequences, FiniteSets

CONSTANTS
    SemanticModel,  \* is a Semantic Model published too?
    Tables,         \* how many sealed tables are written into the Lakehouse
    MaxFaults,      \* bound on kills and failed requests
    MaxForeign,     \* bound on what others do to the workspace
    MaxUpgrades,    \* bound on changes of the publisher's own code
    None            \* no value

ASSUME PublicationAssumption ==
    /\ SemanticModel \in BOOLEAN
    /\ Tables \in Nat
    /\ MaxFaults \in Nat /\ MaxForeign \in Nat /\ MaxUpgrades \in Nat
    /\ None \notin Nat /\ None \notin STRING

Native == {"ontology"} \cup IF SemanticModel THEN {"semantic_model"} ELSE {}
Kind == {"lakehouse"} \cup Native
Table == 1..Tables

\* The steps of a run in their order: the Lakehouse, the tables, the natives.
Last == Tables + 1 + Cardinality(Native)
KindAt(n) == IF n = 1 THEN "lakehouse"
             ELSE IF n = Tables + 2 THEN "ontology" ELSE "semantic_model"
IsTable(n) == n \in 2..(Tables + 1)
TableAt(n) == n - 1

VARIABLES
    items,      \* the workspace's items, ever; an item's id is its position
    svc,        \* what became of the create request of each kind
    onelake,    \* what became of the write of each table
    status,     \* the journal: the status of the publication
    baselined,  \* the journal: is the baseline of the workspace recorded?
    act,        \* the journal: the action of each create
    delta,      \* the journal: the status of each table's action
    receipt,    \* the journal: the accepted reconciliation, or None
    review,     \* a reconciliation not yet accepted, or None
    program,    \* the version of the publisher's code; the plan is bound to 0
    pc, at,     \* the running command: its place, and the step it is at
    got,        \* ... and the item id it holds in memory, or None
    late,       \* ... and whether it asks again for a result it had polled
    sent,       \* how often each create was requested
    faults, foreign

service == <<items, svc, onelake>>
journal == <<status, baselined, act, delta, receipt>>
command == <<pc, at, got, late>>
bounds == <<faults, foreign>>
vars == <<service, journal, command, review, program, sent, bounds>>

ItemId == Nat \cup {None}
Answer == {"none", "sync", "accepted", "rejected"}

Action == [status : {"none", "intent", "received", "created", "verified", "failed"},
           http : Answer,       \* the recorded reply: 200/201, 202 or an error
           ref : BOOLEAN,       \* does it name the long-running operation?
           op : {"none", "running", "succeeded", "failed"},
           returned : ItemId,   \* the id the service returned
           item : ItemId,       \* the id the journal owns
           owner : {"journal", "operator"}]

NoAction == [status |-> "none", http |-> "none", ref |-> FALSE, op |-> "none",
             returned |-> None, item |-> None, owner |-> "journal"]

Init ==
    /\ items = <<>>
    /\ svc = [k \in Kind |-> "none"]
    /\ onelake = [t \in Table |-> "absent"]
    /\ status = "planned" /\ baselined = FALSE
    /\ act = [k \in Kind |-> NoAction]
    /\ delta = [t \in Table |-> "none"]
    /\ receipt = None /\ review = None
    /\ program = 0
    /\ pc = "idle" /\ at = 1 /\ got = None /\ late = FALSE
    /\ sent = [k \in Kind |-> 0]
    /\ faults = 0 /\ foreign = 0

-----------------------------------------------------------------------------
(* Helpers.                                                                *)

Live(i) == i \in DOMAIN items /\ items[i].live
Named(k) == {i \in DOMAIN items : items[i].live /\ items[i].kind = k}
Made(k) == {i \in DOMAIN items : items[i].by = "run" /\ items[i].kind = k}
NewItem(k, who) == [kind |-> k, by |-> who, live |-> TRUE]

Here == KindAt(at)
Goto(from, to) == pc = from /\ pc' = to
AtCreate == at \in 1..Last /\ ~IsTable(at)
AtTable == at \in 1..Last /\ IsTable(at)

\* Save the action of the current create with some fields replaced.
Save(a) == act' = [act EXCEPT ![Here] = a]

\* The handler of every error: what exists is retained, the command ends.
Stop ==
    /\ pc' = "idle" /\ at' = 1 /\ got' = None /\ late' = FALSE
    /\ status' = "partial-retained"

\* The next step, and after the last the readiness of the companion graph.
Advance ==
    /\ IF at = Last THEN pc' = "ready" /\ at' = at
                    ELSE pc' = "step" /\ at' = at + 1
    /\ got' = None /\ late' = FALSE

\* Does the receipt bind the code that runs now?  A plan the current code
\* would compile differently needs one.
RepairValid ==
    IF receipt = None THEN program = 0
    ELSE /\ receipt.program = program
         /\ act[receipt.kind].owner = "operator"
         /\ act[receipt.kind].item = receipt.item

\* What a reconciliation of kind k with item i reads and requires.
Proof(k, i) ==
    LET lake == act["lakehouse"] IN
    /\ baselined
    /\ lake.item # None /\ lake.returned = lake.item
    /\ lake.status = "verified"
    /\ lake.http \in {"sync", "accepted"}
    /\ lake.http = "accepted" => lake.op = "succeeded"
    /\ Live(lake.item)
    /\ \A t \in Table : delta[t] = "verified"
    /\ Live(i) /\ items[i].kind = k /\ items[i].by = "run"
    /\ Named(k) = {i}

-----------------------------------------------------------------------------
(* The command: start, baseline, the step it has reached.                  *)

Start ==
    /\ Goto("idle", "baseline")
    /\ RepairValid
    /\ status' = "in-progress"
    /\ review' = None       \* the journal is no longer the one reviewed
    /\ UNCHANGED <<service, baselined, act, delta, receipt, program, at, got,
                   late, sent, bounds>>

Baseline ==
    /\ pc = "baseline"
    /\ IF ~baselined /\ \E k \in Kind : Named(k) # {}
       THEN Stop /\ UNCHANGED baselined
       ELSE /\ baselined' = TRUE
            /\ pc' = "step"
            /\ UNCHANGED <<status, at, got, late>>
    /\ UNCHANGED <<service, act, delta, receipt, review, program, sent, bounds>>

(* A create the journal does not know is announced in it before it is      *)
(* requested; one it knows is resumed from what the journal holds of it.   *)

\* Mutant: an item that already has the name is taken over.
IntendAdopting ==
    /\ pc = "step" /\ AtCreate /\ act[Here].status = "none"
    /\ IF Named(Here) # {}
       THEN /\ \E i \in Named(Here) :
                  /\ Save([NoAction EXCEPT !.status = "created", !.item = i,
                                           !.http = "sync"])
                  /\ got' = i
            /\ pc' = "identity" /\ UNCHANGED <<status, at, late>>
       ELSE /\ Save([NoAction EXCEPT !.status = "intent"])
            /\ pc' = "post"
            /\ UNCHANGED <<status, at, got, late>>
    /\ UNCHANGED <<service, baselined, delta, receipt, review, program, sent,
                   bounds>>

Intend ==
    /\ pc = "step" /\ AtCreate /\ act[Here].status = "none"
    /\ IF Named(Here) # {}
       THEN Stop /\ UNCHANGED act
       ELSE /\ Save([NoAction EXCEPT !.status = "intent"])
            /\ pc' = "post"
            /\ UNCHANGED <<status, at, got, late>>
    /\ UNCHANGED <<service, baselined, delta, receipt, review, program, sent,
                   bounds>>

\* Mutant: a create whose reply is missing is simply requested again.
ResumeBlindly ==
    /\ pc = "step" /\ AtCreate /\ act[Here].status # "none"
    /\ act[Here].owner = "journal"
    /\ IF act[Here].status = "intent"
       THEN pc' = "post" /\ UNCHANGED <<status, at, got, late>>
       ELSE IF act[Here].http \notin {"sync", "accepted"}
       THEN Stop
       ELSE pc' = "resolve" /\ UNCHANGED <<status, at, got, late>>
    /\ UNCHANGED <<service, baselined, act, delta, receipt, review, program,
                   sent, bounds>>

Resume ==
    /\ pc = "step" /\ AtCreate /\ act[Here].status # "none"
    /\ act[Here].owner = "journal"
    /\ IF act[Here].status = "intent" \/ act[Here].http \notin {"sync", "accepted"}
       THEN Stop
       ELSE pc' = "resolve" /\ UNCHANGED <<status, at, got, late>>
    /\ UNCHANGED <<service, baselined, act, delta, receipt, review, program,
                   sent, bounds>>

ResumeReconciled ==
    /\ pc = "step" /\ AtCreate /\ act[Here].owner = "operator"
    /\ IF /\ receipt.kind = Here
          /\ receipt.program = program
          /\ receipt.item = act[Here].item
          /\ Proof(Here, act[Here].item)
       THEN /\ got' = act[Here].item
            /\ pc' = "define"
            /\ UNCHANGED <<status, at, late>>
       ELSE Stop
    /\ UNCHANGED <<service, baselined, act, delta, receipt, review, program,
                   sent, bounds>>

Post ==
    /\ Goto("post", "wait")
    /\ svc' = [svc EXCEPT ![Here] = "sent"]
    /\ sent' = [sent EXCEPT ![Here] = @ + 1]
    /\ UNCHANGED <<items, onelake, journal, at, got, late, review, program,
                   bounds>>

\* The reply: its status and operation are saved before its body is read.
Reply ==
    /\ pc = "wait" /\ svc[Here] # "sent"
    /\ IF svc[Here] = "none"
       THEN Stop /\ UNCHANGED act
       ELSE /\ \E ref \in BOOLEAN :
                 Save([act[Here] EXCEPT
                        !.status = "received",
                        !.http = IF svc[Here] \in {"sync", "rejected"}
                                 THEN svc[Here] ELSE "accepted",
                        !.ref = ref /\ svc[Here] \notin {"sync", "rejected"}])
            /\ pc' = "body"
            /\ UNCHANGED <<status, at, got, late>>
    /\ UNCHANGED <<service, baselined, delta, receipt, review, program, sent,
                   bounds>>

\* The body, which may name the item; a reply that is an error stops the run.
Body ==
    /\ pc = "body"
    /\ IF act[Here].http = "rejected"
       THEN Stop /\ UNCHANGED act
       ELSE /\ \E id \in Made(Here) \cup {None} :
                 Save([act[Here] EXCEPT !.returned = id])
            /\ pc' = "resolve"
            /\ UNCHANGED <<status, at, got, late>>
    /\ UNCHANGED <<service, baselined, delta, receipt, review, program, sent,
                   bounds>>

\* Mutant: an operation seen to succeed is not asked for its result again.
ResolveOnce ==
    LET a == act[Here]
        id == IF a.item # None THEN a.item ELSE a.returned IN
    /\ pc = "resolve"
    /\ IF a.http = "accepted" /\ a.op # "succeeded"
       THEN pc' = "poll" /\ got' = id /\ UNCHANGED <<status, at, late>>
       ELSE IF id = None
       THEN Stop
       ELSE pc' = "own" /\ got' = id /\ UNCHANGED <<status, at, late>>
    /\ UNCHANGED <<service, baselined, act, delta, receipt, review, program,
                   sent, bounds>>

\* Which item is it?  The operation is asked if it has not been seen to
\* succeed, or if it has and still no id is known; names are never asked.
Resolve ==
    LET a == act[Here]
        id == IF a.item # None THEN a.item ELSE a.returned IN
    /\ pc = "resolve"
    /\ IF a.http = "accepted" /\ (a.op # "succeeded" \/ id = None)
       THEN /\ pc' = "poll" /\ got' = id /\ late' = (a.op = "succeeded")
            /\ UNCHANGED <<status, at>>
       ELSE IF id = None
       THEN Stop
       ELSE pc' = "own" /\ got' = id /\ UNCHANGED <<status, at, late>>
    /\ UNCHANGED <<service, baselined, act, delta, receipt, review, program,
                   sent, bounds>>

\* One poll of the operation.  Its state is saved; while it runs the command
\* asks again, until its patience ends.
Poll ==
    /\ pc = "poll"
    /\ IF ~act[Here].ref
       THEN Stop /\ UNCHANGED act
       ELSE \/ /\ svc[Here] = "running"
               /\ Save([act[Here] EXCEPT !.op = "running"])
               /\ \/ UNCHANGED <<status, pc, at, got, late>>
                  \/ Stop
            \/ /\ svc[Here] = "succeeded"
               /\ Save([act[Here] EXCEPT !.op = "succeeded"])
               /\ pc' = "result"
               /\ UNCHANGED <<status, at, got, late>>
            \/ /\ svc[Here] = "failed"
               /\ Save([act[Here] EXCEPT !.op = "failed", !.status = "failed"])
               /\ Stop
    /\ UNCHANGED <<service, baselined, delta, receipt, review, program, sent,
                   bounds>>

\* Mutant: the result is looked up by the item's name.
ResultByName ==
    /\ pc = "result"
    /\ \E id \in Named(Here) :
         /\ got' = id
         /\ IF late THEN UNCHANGED act
                    ELSE Save([act[Here] EXCEPT !.returned = id])
    /\ pc' = "own"
    /\ UNCHANGED <<service, status, baselined, delta, receipt, at, late, review,
                   program, sent, bounds>>

\* The operation's result.  Its id is saved as returned only when this command
\* was the one that saw the operation succeed.
Result ==
    /\ pc = "result"
    /\ \E id \in Made(Here) :
         /\ got' = id
         /\ IF late THEN UNCHANGED act
                    ELSE Save([act[Here] EXCEPT !.returned = id])
    /\ pc' = "own"
    /\ UNCHANGED <<service, status, baselined, delta, receipt, at, late, review,
                   program, sent, bounds>>

Own ==
    /\ Goto("own", "identity")
    /\ Save([act[Here] EXCEPT !.item = got, !.status = "created"])
    /\ UNCHANGED <<service, status, baselined, delta, receipt, at, got, late,
                   review, program, sent, bounds>>

\* Mutant: a create whose item is gone is forgotten, to be made anew.
IdentityForgets ==
    /\ pc = "identity"
    /\ IF Live(got) /\ items[got].kind = Here
       THEN /\ Save([act[Here] EXCEPT !.status = "verified"])
            /\ UNCHANGED status
            /\ IF Here = "lakehouse" THEN Advance
               ELSE pc' = "define" /\ UNCHANGED <<at, got, late>>
       ELSE Stop /\ Save(NoAction)
    /\ UNCHANGED <<service, baselined, delta, receipt, review, program, sent,
                   bounds>>

\* The created item is read back by its id.
Identity ==
    /\ pc = "identity"
    /\ IF Live(got) /\ items[got].kind = Here
       THEN /\ Save([act[Here] EXCEPT !.status = "verified"])
            /\ UNCHANGED status
            /\ IF Here = "lakehouse" THEN Advance
               ELSE pc' = "define" /\ UNCHANGED <<at, got, late>>
       ELSE Stop /\ UNCHANGED act
    /\ UNCHANGED <<service, baselined, delta, receipt, review, program, sent,
                   bounds>>

\* A native item's definition is read back.
Define ==
    /\ pc = "define"
    /\ IF Live(got) THEN Advance /\ UNCHANGED status ELSE Stop
    /\ UNCHANGED <<service, baselined, act, delta, receipt, review, program,
                   sent, bounds>>

-----------------------------------------------------------------------------
(* A table is written once.  A run that finds an intent proves that commit *)
(* and never writes again.                                                 *)

IntendWrite ==
    /\ pc = "step" /\ AtTable
    /\ IF delta[TableAt(at)] = "none"
       THEN /\ delta' = [delta EXCEPT ![TableAt(at)] = "intent"]
            /\ pc' = "write"
       ELSE pc' = "prove" /\ UNCHANGED delta
    /\ UNCHANGED <<service, status, baselined, act, receipt, at, got, late,
                   review, program, sent, bounds>>

Write ==
    /\ pc = "write"
    /\ IF onelake[TableAt(at)] = "absent"
       THEN /\ onelake' = [onelake EXCEPT ![TableAt(at)] = "sent"]
            /\ pc' = "written"
            /\ UNCHANGED <<status, at, got, late>>
       ELSE Stop /\ UNCHANGED onelake
    /\ UNCHANGED <<items, svc, baselined, act, delta, receipt, review, program,
                   sent, bounds>>

Written ==
    /\ pc = "written" /\ onelake[TableAt(at)] # "sent"
    /\ IF onelake[TableAt(at)] \in {"ours", "touched"}
       THEN /\ delta' = [delta EXCEPT ![TableAt(at)] = "written"]
            /\ pc' = "prove"
            /\ UNCHANGED <<status, at, got, late>>
       ELSE Stop /\ UNCHANGED delta
    /\ UNCHANGED <<service, baselined, act, receipt, review, program, sent,
                   bounds>>

\* Mutant: a table another writer got to first is taken for the run's own.
ProveAnyway ==
    /\ pc = "prove"
    /\ delta' = [delta EXCEPT ![TableAt(at)] = "verified"]
    /\ Advance
    /\ UNCHANGED <<service, status, baselined, act, receipt, review, program,
                   sent, bounds>>

\* The original commit is still the table's only one and carries this run's mark.
Prove ==
    /\ pc = "prove"
    /\ IF onelake[TableAt(at)] = "ours"
       THEN /\ delta' = [delta EXCEPT ![TableAt(at)] = "verified"]
            /\ Advance /\ UNCHANGED status
       ELSE Stop /\ UNCHANGED delta
    /\ UNCHANGED <<service, baselined, act, receipt, review, program, sent,
                   bounds>>

\* Readiness of the companion graph decides how far the publication came.
Ready ==
    /\ pc = "ready"
    /\ status' \in IF SemanticModel THEN {"partial"} ELSE {"complete", "partial"}
    /\ pc' = "idle" /\ at' = 1 /\ got' = None /\ late' = FALSE
    /\ UNCHANGED <<service, baselined, act, delta, receipt, review, program,
                   sent, bounds>>

\* Any request, or any write of the journal, may fail; the process may die.
Fail ==
    /\ pc # "idle" /\ faults < MaxFaults
    /\ faults' = faults + 1
    /\ Stop
    /\ UNCHANGED <<service, baselined, act, delta, receipt, review, program,
                   sent, foreign>>

Kill ==
    /\ pc # "idle" /\ faults < MaxFaults
    /\ faults' = faults + 1
    /\ pc' = "idle" /\ at' = 1 /\ got' = None /\ late' = FALSE
    /\ UNCHANGED <<service, journal, review, program, sent, foreign>>

-----------------------------------------------------------------------------
(* The operator: a review of the named item, and its acceptance.           *)

Unresolved(a) ==
    /\ a.status \in {"intent", "received"}
    /\ a.item = None /\ a.returned = None /\ a.owner = "journal"
    /\ a.http \in {"none", "sync", "accepted"}
    /\ a.op # "failed"

Review(k, i) ==
    /\ pc = "idle"
    /\ Unresolved(act[k]) /\ Proof(k, i)
    /\ review' = [kind |-> k, item |-> i, program |-> program]
    /\ UNCHANGED <<service, journal, command, program, sent, bounds>>

Accept ==
    /\ pc = "idle" /\ review # None
    /\ review.program = program
    /\ Unresolved(act[review.kind]) /\ Proof(review.kind, review.item)
    /\ act' = [act EXCEPT ![review.kind].item = review.item,
                          ![review.kind].owner = "operator"]
    /\ receipt' = review
    /\ review' = None
    /\ UNCHANGED <<service, status, baselined, delta, command, program, sent,
                   bounds>>

\* The publisher's own code is changed between two commands.
Upgrade ==
    /\ pc = "idle" /\ program < MaxUpgrades
    /\ program' = program + 1
    /\ UNCHANGED <<service, journal, command, review, sent, bounds>>

-----------------------------------------------------------------------------
(* The services, and everybody else who works in the workspace.            *)

\* A create request is carried out at once, taken on, or refused ...
Serve(k) ==
    /\ svc[k] = "sent"
    /\ \/ svc' = [svc EXCEPT ![k] = "sync"] /\ items' = Append(items, NewItem(k, "run"))
       \/ svc' = [svc EXCEPT ![k] = "running"] /\ UNCHANGED items
       \/ svc' = [svc EXCEPT ![k] = "rejected"] /\ UNCHANGED items
    /\ UNCHANGED <<onelake, journal, command, review, program, sent, bounds>>

\* ... and one taken on is finished some time.
Finish(k) ==
    /\ svc[k] = "running"
    /\ \/ svc' = [svc EXCEPT ![k] = "succeeded"] /\ items' = Append(items, NewItem(k, "run"))
       \/ svc' = [svc EXCEPT ![k] = "failed"] /\ UNCHANGED items
    /\ UNCHANGED <<onelake, journal, command, review, program, sent, bounds>>

Commit(t) ==
    /\ onelake[t] = "sent"
    /\ onelake' = [onelake EXCEPT ![t] = "ours"]
    /\ UNCHANGED <<items, svc, journal, command, review, program, sent, bounds>>

\* A request that was sent may be lost on its way.
Lose ==
    /\ faults < MaxFaults /\ faults' = faults + 1
    /\ \/ /\ \E k \in Kind : svc[k] = "sent" /\ svc' = [svc EXCEPT ![k] = "none"]
          /\ UNCHANGED onelake
       \/ /\ \E t \in Table : /\ onelake[t] = "sent"
                              /\ onelake' = [onelake EXCEPT ![t] = "absent"]
          /\ UNCHANGED svc
    /\ UNCHANGED <<items, journal, command, review, program, sent, foreign>>

\* Somebody else creates an item with one of the run's names, deletes an item,
\* or commits to a table.
Others ==
    /\ foreign < MaxForeign /\ foreign' = foreign + 1
    /\ \/ /\ \E k \in Kind : items' = Append(items, NewItem(k, "other"))
          /\ UNCHANGED onelake
       \/ /\ \E i \in DOMAIN items :
               items[i].live /\ items' = [items EXCEPT ![i].live = FALSE]
          /\ UNCHANGED onelake
       \/ /\ \E t \in Table :
               onelake' = [onelake EXCEPT ![t] =
                            IF @ \in {"absent", "sent"} THEN "other"
                            ELSE IF @ = "ours" THEN "touched" ELSE @]
          /\ UNCHANGED items
    /\ UNCHANGED <<svc, journal, command, review, program, sent, faults>>

Work == \/ Baseline \/ Intend \/ Resume \/ ResumeReconciled \/ Post \/ Reply
        \/ Body \/ Resolve \/ Poll \/ Result \/ Own \/ Identity \/ Define
        \/ IntendWrite \/ Write \/ Written \/ Prove \/ Ready

Next ==
    \/ Start \/ Work
    \/ Fail \/ Kill \/ Lose \/ Others \/ Upgrade \/ Accept
    \/ \E k \in Native, i \in DOMAIN items : Review(k, i)
    \/ \E k \in Kind : Serve(k) \/ Finish(k)
    \/ \E t \in Table : Commit(t)

Spec == Init /\ [][Next]_vars

\* The command is run again until it has finished, runs on while it can, and
\* the services carry out what they have been sent.
FairSpec ==
    /\ Spec
    /\ WF_vars(Start /\ status \notin {"complete", "partial"})
    /\ WF_vars(Work)
    /\ \A k \in Kind : WF_vars(Serve(k)) /\ WF_vars(Finish(k))
    /\ \A t \in Table : WF_vars(Commit(t))

-----------------------------------------------------------------------------
(* Properties.                                                             *)

TypeOK ==
    /\ items \in Seq([kind : Kind, by : {"run", "other"}, live : BOOLEAN])
    /\ svc \in [Kind -> {"none", "sent", "sync", "running", "succeeded",
                         "failed", "rejected"}]
    /\ onelake \in [Table -> {"absent", "sent", "ours", "touched", "other"}]
    /\ status \in {"planned", "in-progress", "partial-retained", "partial", "complete"}
    /\ baselined \in BOOLEAN
    /\ act \in [Kind -> Action]
    /\ delta \in [Table -> {"none", "intent", "written", "verified"}]
    /\ receipt \in [kind : Native, item : Nat, program : Nat] \cup {None}
    /\ review \in [kind : Native, item : Nat, program : Nat] \cup {None}
    /\ program \in 0..MaxUpgrades
    /\ pc \in {"idle", "baseline", "step", "post", "wait", "body", "resolve",
               "poll", "result", "own", "identity", "define", "write",
               "written", "prove", "ready"}
    /\ at \in 1..Last /\ got \in ItemId /\ late \in BOOLEAN
    /\ sent \in [Kind -> Nat]
    /\ faults \in 0..MaxFaults /\ foreign \in 0..MaxForeign

\* A create is requested at most once, whatever fails and however often the
\* command is run again, and nothing was requested that the journal does not
\* show at least as an intent.
CreatedOnce ==
    \A k \in Kind : /\ sent[k] <= 1
                    /\ sent[k] > 0 => act[k].status # "none"

\* The journal never takes an item for its own that its own create did not
\* make, however alike another item's name is, also through a reconciliation.
NothingAdopted ==
    \A k \in Kind : /\ act[k].item # None => act[k].item \in Made(k)
                    /\ act[k].returned # None => act[k].returned \in Made(k)

\* A native item is requested only over a Lakehouse this run made and tables
\* whose first commit is this run's.
BuiltInOrder ==
    \A k \in Native : sent[k] > 0 =>
        /\ Made("lakehouse") # {}
        /\ \A t \in Table : onelake[t] \in {"ours", "touched"}

\* An id the journal owns, and the word of an operator, are never revised.
OwnershipFinal ==
    [][\A k \in Kind :
        /\ act[k].item # None => act'[k].item = act[k].item
        /\ act[k].returned # None => act'[k].returned = act[k].returned
        /\ act[k].owner = "operator" => act'[k] = act[k]]_vars

Requested == {k \in Kind : sent[k] > 0}
MadeItems == [k \in Kind |-> Made(k)]
Owned == [k \in Kind |-> act[k].item]
Committed == {t \in Table : onelake[t] \in {"ours", "touched"}}

Promise == INSTANCE CreateOnly
             WITH Base <- "lakehouse", asked <- Requested, made <- MadeItems,
                  owned <- Owned, committed <- Committed

\* Journal and workspace together keep the promise of CreateOnly through kills,
\* lost replies, interferences, reconciliations and changes of code.
Implements == Promise!Spec

\* What keeps a publication from ever finishing: an answer that was lost or
\* is an error, an interrupted or disturbed write, an item that is gone, a
\* name that is taken, code the plan or the receipt is not bound to, and a
\* receipt that a later reconciliation has replaced.
Blocked ==
    \/ \E k \in Kind :
        LET a == act[k] IN
        \/ /\ a.owner = "journal" /\ a.status # "none"
           /\ a.item = None /\ a.returned = None
           /\ ~(a.http = "accepted" /\ a.ref /\ a.op # "failed")
        \/ a.http = "accepted" /\ ~a.ref /\ a.owner = "journal"
        \/ a.status = "none" /\ Named(k) # {}
        \/ a.owner = "operator" /\ (receipt.kind # k \/ ~Proof(k, a.item))
        \/ \E i \in Made(k) : ~Live(i)
    \/ \E t \in Table : delta[t] # "none" /\ onelake[t] # "ours"
    \/ ~RepairValid

\* A publication that is simply run again finishes, unless something it must
\* not decide for itself keeps it.
FinishesOrBlocked == <>(status \in {"complete", "partial"}) \/ <>[]Blocked
=============================================================================
