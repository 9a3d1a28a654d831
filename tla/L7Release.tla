----------------------------- MODULE L7Release -----------------------------
(***************************************************************************)
(* The changes a live L7 release makes to Fabric and Search, and their     *)
(* rollback: L7Executor.execute with LiveL7Backend.apply and rollback of   *)
(* agent/l7_release.py.                                                    *)
(*                                                                         *)
(* The executor works through its plan in order and, when anything raises, *)
(* back again.  A service answers a request, accepts it and carries it out *)
(* later, refuses it, or the reply is lost; it may outlast the time the    *)
(* executor waits for it.  Others write to the same resources.             *)
(*                                                                         *)
(* Abstraction.  An ETag is a version that every write increases.  A plan  *)
(* holds the actions that change something, each of one of three kinds:    *)
(*   "update"  updateDefinition of a managed Fabric item,                  *)
(*   "item"    creation of a Fabric item, found again by its marker,       *)
(*   "named"   creation of a Search resource under its own name.           *)
(* Document upload, counting and framing are part of the readback.  The    *)
(* services honour If-Match and If-None-Match when they carry a request    *)
(* out.  Foundry connections are not modelled.                             *)
(***************************************************************************)
EXTENDS Naturals

CONSTANTS
    N,         \* number of actions of the plan
    Kind,      \* kind of every action
    MaxDrift,  \* bound on the writes of others
    NoTag      \* no ETag

Action == 1..N

ASSUME PlanAssumption  == N \in Nat \ {0} /\ Kind \in [1..N -> {"update", "item", "named"}]
ASSUME DriftAssumption == MaxDrift \in Nat
ASSUME TagAssumption   == NoTag \notin Nat

VARIABLES
    content,   \* what every resource holds
    ver,       \* its version
    flight,    \* operation accepted for it, and what became of it
    pc,        \* step of the executor
    cur,       \* action it is at
    scope,     \* what is rolled back: the plan, or one creation that failed
    known,     \* _created_fabric_ids: actions whose item id is known
    tag,       \* _created_etags
    confirmed, \* _mutation_confirmed
    seen,      \* version the rollback of every update has read
    outlived,  \* actions whose operation outlived the executor's wait
    errors,    \* actions whose rollback failed
    receipt,   \* status of the sealed receipt
    drifts,    \* writes of others so far
    editsRead  \* history: created resources the executor has read since others
               \* last edited them

service  == <<content, ver, flight>>
backend  == <<known, tag, confirmed>>
vars == <<content, ver, flight, pc, cur, scope, known, tag, confirmed, seen, outlived, errors,
          receipt, drifts, editsRead>>

Content == {"absent", "old", "ours", "edited", "theirs"}
Op      == {"update", "create", "delete", "restore"}

Init ==
    /\ content = [a \in Action |-> IF Kind[a] = "update" THEN "old" ELSE "absent"]
    /\ ver = [a \in Action |-> 0]
    /\ flight = [a \in Action |-> "none"]
    /\ pc = "send" /\ cur = 1 /\ scope = "plan"
    /\ known = {}
    /\ tag = [a \in Action |-> NoTag]
    /\ confirmed = {}
    /\ seen = [a \in Action |-> NoTag]
    /\ outlived = {}
    /\ errors = {}
    /\ receipt = "none"
    /\ drifts = 0
    /\ editsRead = {}

-----------------------------------------------------------------------------
(* The services. *)

\* Mutant: the rollback of a creation does not state If-Match.
AppliesAnyVersion(a, op) ==
    /\ op = "update"  => ver[a] = 0
    /\ op = "create"  => content[a] = "absent"
    /\ op = "delete"  => content[a] # "absent"
    /\ op = "restore" => ver[a] = seen[a]

\* Whether the condition of a request holds.
Applies(a, op) ==
    /\ op = "update"  => ver[a] = 0
    /\ op = "create"  => content[a] = "absent"
    /\ op = "delete"  => content[a] # "absent" /\ ver[a] = tag[a]
    /\ op = "restore" => ver[a] = seen[a]

Result(op) ==
    IF op \in {"update", "create"} THEN "ours" ELSE IF op = "delete" THEN "absent" ELSE "old"

CarryOut(a, op) ==
    /\ Applies(a, op)
    /\ content' = [content EXCEPT ![a] = Result(op)]
    /\ ver' = [ver EXCEPT ![a] = @ + 1]

Answered(a, op) == CarryOut(a, op) /\ UNCHANGED <<flight, outlived>>
Accepted(a, op) == flight' = [flight EXCEPT ![a] = op] /\ UNCHANGED <<content, ver, outlived>>
Nothing         == UNCHANGED <<content, ver, flight, outlived>>

\* The request is refused, or its reply is lost before or after the service
\* did it or while it does.
Failed(a, op) ==
    \/ Nothing
    \/ Answered(a, op)
    \/ /\ flight' = [flight EXCEPT ![a] = op]
       /\ outlived' = outlived \cup {a}
       /\ UNCHANGED <<content, ver>>

Land(a) ==
    /\ flight[a] \in Op
    /\ \/ CarryOut(a, flight[a]) /\ flight' = [flight EXCEPT ![a] = "done"]
       \/ flight' = [flight EXCEPT ![a] = "failed"] /\ UNCHANGED <<content, ver>>
    /\ UNCHANGED <<pc, cur, scope, backend, seen, outlived, errors, receipt, drifts, editsRead>>

\* Others edit a definition or a created resource, or take a name.
Drift(a) ==
    /\ drifts < MaxDrift
    /\ drifts' = drifts + 1
    /\ \/ /\ Kind[a] = "update"
          /\ content' = [content EXCEPT ![a] = "theirs"]
       \/ /\ Kind[a] # "update" /\ content[a] = "ours"
          /\ content' = [content EXCEPT ![a] = "edited"]
       \/ /\ Kind[a] = "named" /\ content[a] = "absent"
          /\ content' = [content EXCEPT ![a] = "theirs"]
    /\ ver' = [ver EXCEPT ![a] = @ + 1]
    /\ editsRead' = editsRead \ {a}
    /\ UNCHANGED <<flight, pc, cur, scope, backend, seen, outlived, errors, receipt>>

-----------------------------------------------------------------------------
(* apply *)

Sure(a)   == confirmed' = confirmed \cup {a}
Know(a)   == known' = known \cup {a}
Tag(a, v) == tag' = [tag EXCEPT ![a] = v]

\* The executor reads a resource and keeps the version.
Look(a) ==
    /\ Tag(a, ver[a])
    /\ editsRead' = IF content[a] = "edited" THEN editsRead \cup {a} ELSE editsRead

Local == UNCHANGED <<scope, seen, errors, receipt, drifts>>
Unread == UNCHANGED editsRead

\* An approved plan expires before an action is started.
Expire ==
    /\ pc = "send"
    /\ pc' = "undo" /\ cur' = cur - 1
    /\ UNCHANGED <<service, backend, outlived>> /\ Local /\ Unread

\* Mutant: an accepted update is not waited for.
SendUpdateUnwaited(a) ==
    /\ pc = "send" /\ Kind[a] = "update"
    /\ Accepted(a, "update") /\ Sure(a)
    /\ IF cur = N THEN pc' = "seal" /\ UNCHANGED cur ELSE pc' = "send" /\ cur' = cur + 1
    /\ UNCHANGED <<known, tag>> /\ Local /\ Unread

SendUpdate(a) ==
    /\ pc = "send" /\ Kind[a] = "update"
    /\ \/ /\ Answered(a, "update")
          /\ Sure(a) /\ pc' = "read"
          /\ \/ Tag(a, ver'[a]) \/ UNCHANGED tag
       \/ Accepted(a, "update") /\ Sure(a) /\ pc' = "wait" /\ UNCHANGED tag
       \/ Failed(a, "update") /\ pc' = "undo" /\ UNCHANGED <<confirmed, tag>>
    /\ UNCHANGED <<known, cur>> /\ Local /\ Unread

SendItem(a) ==
    /\ pc = "send" /\ Kind[a] = "item"
    /\ \/ Answered(a, "create") /\ Sure(a) /\ Know(a) /\ pc' = "read"
       \/ Answered(a, "create") /\ pc' = "keep" /\ UNCHANGED <<confirmed, known>>
       \/ Accepted(a, "create") /\ pc' = "wait" /\ UNCHANGED <<confirmed, known>>
       \/ Failed(a, "create") /\ pc' = "drop" /\ UNCHANGED <<confirmed, known>>
    /\ UNCHANGED <<tag, cur>> /\ Local /\ Unread

\* Without an ETag in the reply the creation is confirmed and abandoned.
SendNamed(a) ==
    /\ pc = "send" /\ Kind[a] = "named"
    /\ \/ Answered(a, "create") /\ Sure(a) /\ Tag(a, ver'[a]) /\ pc' = "read"
       \/ Answered(a, "create") /\ Sure(a) /\ UNCHANGED tag /\ pc' = "undo"
       \/ Accepted(a, "create") /\ pc' = "wait" /\ UNCHANGED <<confirmed, tag>>
       \/ Failed(a, "create") /\ pc' = "drop" /\ UNCHANGED <<confirmed, tag>>
    /\ UNCHANGED <<known, cur>> /\ Local /\ Unread

\* What the executor gives up waiting for may still happen.
GiveUp(a) == outlived' = IF flight[a] \in Op THEN outlived \cup {a} ELSE outlived

\* _wait_lro of an update or a creation.
Wait(a) ==
    /\ pc = "wait"
    /\ \/ /\ flight[a] = "done"
          /\ \/ Kind[a] = "update" /\ pc' = "read" /\ UNCHANGED <<confirmed, known>>
             \/ Kind[a] = "item" /\ Sure(a) /\ Know(a) /\ pc' = "read"
             \/ Kind[a] # "update" /\ pc' = "keep" /\ UNCHANGED <<confirmed, known>>
          /\ UNCHANGED outlived
       \/ /\ GiveUp(a)
          /\ pc' = IF Kind[a] = "update" THEN "undo" ELSE "drop"
          /\ UNCHANGED <<confirmed, known>>
    /\ UNCHANGED <<service, tag, cur>> /\ Local /\ Unread

Proceed == IF cur = N THEN pc' = "seal" /\ UNCHANGED cur ELSE pc' = "send" /\ cur' = cur + 1
Abandon == pc' = "undo" /\ UNCHANGED cur

\* The readback after the request; it keeps the ETag it saw, of a created item
\* also when the definition is not the desired one.
ReadBack(a) ==
    /\ pc = "read"
    /\ \/ content[a] = "ours" /\ Look(a) /\ Proceed
       \/ Abandon /\ UNCHANGED tag /\ Unread
       \/ Kind[a] = "item" /\ Abandon /\ Look(a)
    /\ UNCHANGED <<service, known, confirmed, outlived>> /\ Local

\* The creation is looked for by its marker.  One that is not found stays
\* unconfirmed; one nobody wanted to keep is deleted.
Found(a) == content[a] \in {"ours", "edited"} /\ Sure(a) /\ Look(a)

DeleteInline == pc' = "delete" /\ scope' = "creation" /\ UNCHANGED cur

ReconcileItem(a) ==
    /\ pc \in {"keep", "drop"} /\ Kind[a] = "item"
    /\ \/ /\ Found(a) /\ Know(a)
          /\ \/ content[a] = "ours" /\ pc = "keep" /\ Proceed /\ UNCHANGED scope
             \/ content[a] = "ours" /\ pc = "drop" /\ DeleteInline
             \/ content[a] = "edited" /\ Abandon /\ UNCHANGED scope
       \/ Abandon /\ UNCHANGED <<backend, scope>> /\ Unread
    /\ UNCHANGED <<service, seen, outlived, errors, receipt, drifts>>

\* Under its own name a resource with the marker goes even if it was edited.
ReconcileNamed(a) ==
    /\ pc \in {"keep", "drop"} /\ Kind[a] = "named"
    /\ \/ /\ Found(a)
          /\ \/ content[a] = "ours" /\ pc = "keep" /\ Proceed /\ UNCHANGED scope
             \/ (content[a] = "edited" \/ pc = "drop") /\ DeleteInline
       \/ Abandon /\ UNCHANGED <<confirmed, tag, scope>> /\ Unread
    /\ UNCHANGED <<service, known, seen, outlived, errors, receipt, drifts>>

\* finalize_ownership and commit_success.
Seal ==
    /\ pc = "seal"
    /\ \/ pc' = "over" /\ receipt' = "succeeded" /\ UNCHANGED cur
       \/ Abandon /\ UNCHANGED receipt
    /\ UNCHANGED <<service, backend, scope, seen, outlived, errors, drifts, editsRead>>

-----------------------------------------------------------------------------
(* rollback, from the action that failed down to the first. *)

\* A rollback that belongs to a failed creation ends in the error that starts
\* the rollback of all.
Leave ==
    /\ pc' = "undo"
    /\ scope' = "plan"
    /\ cur' = IF scope = "plan" THEN cur - 1 ELSE cur

Undone    == Leave /\ UNCHANGED errors
NotUndone == Leave /\ errors' = IF scope = "plan" THEN errors \cup {cur} ELSE errors

UndoUpdate(a) ==
    /\ pc = "undo" /\ cur # 0 /\ Kind[a] = "update"
    /\ \/ content[a] = "old" /\ Undone /\ UNCHANGED seen
       \/ /\ content[a] = "ours"
          /\ seen' = [seen EXCEPT ![a] = ver[a]] /\ pc' = "restore"
          /\ UNCHANGED <<cur, scope, errors>>
       \/ NotUndone /\ UNCHANGED seen
    /\ UNCHANGED <<service, backend, outlived, receipt, drifts, editsRead>>

UndoCreated(a) ==
    /\ pc = "undo" /\ cur # 0
    /\ IF \/ Kind[a] = "item" /\ a \in known /\ tag[a] # NoTag
          \/ Kind[a] = "named" /\ a \in confirmed /\ tag[a] # NoTag
         THEN pc' = "delete" /\ UNCHANGED <<cur, scope, errors>>
         ELSE Kind[a] # "update" /\ NotUndone
    /\ UNCHANGED <<service, backend, seen, outlived, receipt, drifts, editsRead>>

\* Mutant: a delete or restore that was accepted counts as done.
RevertUnwaited(a) ==
    /\ pc \in {"delete", "restore"}
    /\ \/ Answered(a, pc) /\ pc' = "check" /\ UNCHANGED <<cur, scope, errors>>
       \/ Accepted(a, pc) /\ Undone
       \/ Failed(a, pc) /\ NotUndone
    /\ UNCHANGED <<backend, seen, receipt, drifts, editsRead>>

\* The request that undoes; deleting what is gone is as good as deleted.
Revert(a) ==
    /\ pc \in {"delete", "restore"}
    /\ \/ Answered(a, pc) /\ pc' = "check" /\ UNCHANGED <<cur, scope, errors>>
       \/ /\ pc = "delete" /\ content[a] = "absent"
          /\ Nothing /\ pc' = "check" /\ UNCHANGED <<cur, scope, errors>>
       \/ Accepted(a, pc) /\ pc' = "linger" /\ UNCHANGED <<cur, scope, errors>>
       \/ Failed(a, pc) /\ NotUndone
    /\ UNCHANGED <<backend, seen, receipt, drifts, editsRead>>

Linger(a) ==
    /\ pc = "linger"
    /\ \/ flight[a] = "done" /\ pc' = "check" /\ UNCHANGED <<outlived, cur, scope, errors>>
       \/ GiveUp(a) /\ NotUndone
    /\ UNCHANGED <<service, backend, seen, receipt, drifts, editsRead>>

Check(a) ==
    /\ pc = "check"
    /\ \/ content[a] = (IF Kind[a] = "update" THEN "old" ELSE "absent") /\ Undone
       \/ NotUndone
    /\ UNCHANGED <<service, backend, seen, outlived, receipt, drifts, editsRead>>

\* finalize_rollback may fail where no rollback did.
Close ==
    /\ pc = "undo" /\ cur = 0
    /\ pc' = "over"
    /\ receipt' \in {"failed"} \cup (IF errors = {} THEN {"rolled-back"} ELSE {})
    /\ UNCHANGED <<service, cur, scope, backend, seen, outlived, errors, drifts, editsRead>>

-----------------------------------------------------------------------------
Execute ==
    \/ Expire \/ Seal \/ Close
    \/ \E a \in Action :
          /\ a = cur
          /\ \/ SendUpdate(a) \/ SendItem(a) \/ SendNamed(a) \/ Wait(a) \/ ReadBack(a)
             \/ ReconcileItem(a) \/ ReconcileNamed(a)
             \/ UndoUpdate(a) \/ UndoCreated(a) \/ Revert(a) \/ Linger(a) \/ Check(a)

Next == Execute \/ \E a \in Action : Land(a) \/ Drift(a)

Spec == Init /\ [][Next]_vars

-----------------------------------------------------------------------------
\* Every variable keeps its shape.
TypeOK ==
    /\ content \in [Action -> Content]
    /\ ver \in [Action -> Nat]
    /\ flight \in [Action -> Op \cup {"none", "done", "failed"}]
    /\ pc \in {"send", "wait", "read", "keep", "drop", "seal", "undo", "delete", "restore",
               "linger", "check", "over"}
    /\ cur \in 0..N
    /\ scope \in {"plan", "creation"}
    /\ known \subseteq Action
    /\ tag \in [Action -> Nat \cup {NoTag}]
    /\ confirmed \subseteq Action
    /\ seen \in [Action -> Nat \cup {NoTag}]
    /\ outlived \subseteq Action
    /\ errors \subseteq Action
    /\ receipt \in {"none", "succeeded", "rolled-back", "failed"}
    /\ drifts \in 0..MaxDrift
    /\ editsRead \subseteq Action

\* Nothing the release did stands: not created, and not about to be.
Clean(a) == content[a] \notin {"ours", "edited"} /\ flight[a] # "create"

\* A rolled-back receipt is true, however replies were lost and whoever else
\* wrote: nothing of the release is left, except an update that was carried out
\* after the executor gave up on it.
RolledBackIsTrue ==
    receipt = "rolled-back" =>
       \A a \in Action : Clean(a) \/ (Kind[a] = "update" /\ a \in outlived)

\* A successful release has changed every resource and nothing is under way.
SucceededIsTrue ==
    receipt = "succeeded" =>
       \A a \in Action : content[a] \in {"ours", "edited", "theirs"} /\ flight[a] \notin Op

\* Nothing somebody else wrote is lost unseen, neither by a change nor by its
\* rollback.  A definition they put in place of another and a name they took are
\* never overwritten or deleted.  What the release created is deleted with their
\* edits in it, but only if the executor has read it since the last of them, so
\* never on the strength of the reply to its own creation.
NothingLostUnseen ==
    [][\A a \in Action :
          /\ content[a] = "theirs" => content'[a] = "theirs"
          /\ content[a] = "edited" /\ content'[a] # "edited" => a \in editsRead]_vars

-----------------------------------------------------------------------------
(* The inductive invariant. *)

Rolling == {"undo", "delete", "restore", "linger", "check"}
Forward == {"send", "wait", "read", "keep", "drop", "seal"}

\* The phase says what the actions before and after the current one are.
Settled(a) == Clean(a) \/ (Kind[a] = "update" /\ a \in outlived)
Fresh(a)   == Clean(a) /\ flight[a] = "none" /\ tag[a] = NoTag
Changed(a) == content[a] \in {"ours", "edited", "theirs"} /\ flight[a] \notin Op

Phase ==
    /\ pc \in Forward => cur # 0
    /\ pc = "send" => Fresh(cur)
    /\ pc = "seal" => cur = N /\ Changed(N)
    /\ pc \in Forward => \A a \in Action : a < cur => Changed(a)
    /\ pc \in Forward => \A a \in Action : a > cur => Fresh(a)
    /\ pc \in Rolling /\ errors = {} => \A a \in Action : a > cur => Settled(a)
    /\ pc \in {"read", "keep"} => flight[cur] \notin Op
    /\ pc \in {"delete", "restore", "linger", "check"} => cur # 0
    /\ receipt # "none" => pc = "over"

\* Which operation can be under way for an action.
Flights ==
    \A a \in Action :
       /\ flight[a] = "update" =>
             Kind[a] = "update" /\ (a \in outlived \/ (pc = "wait" /\ cur = a))
       /\ flight[a] \in {"create", "delete"} => Kind[a] # "update"
       /\ content[a] \in {"ours", "edited"} => flight[a] # "create"
       /\ tag[a] # NoTag => flight[a] # "create"
       /\ pc = "delete" /\ cur = a => Kind[a] # "update" /\ tag[a] # NoTag
       /\ pc = "restore" /\ cur = a => Kind[a] = "update"
       /\ pc \in {"linger", "check"} /\ cur = a /\ Kind[a] # "update" => tag[a] # NoTag

\* A version somebody else wrote is newer than any the release has seen.
Versions ==
    \A a \in Action :
       /\ Kind[a] = "item" => content[a] # "theirs"
       /\ content[a] = "theirs" => ver[a] # 0
       /\ tag[a] # NoTag /\ Kind[a] # "update" =>
             tag[a] <= ver[a] /\ (content[a] = "theirs" => tag[a] # ver[a])
       /\ seen[a] # NoTag => seen[a] <= ver[a] /\ (content[a] = "theirs" => seen[a] # ver[a])
       /\ seen[a] # NoTag => Kind[a] = "update"
       /\ content[a] = "edited" =>
             Kind[a] # "update" /\ (tag[a] = ver[a] => a \in editsRead)
=============================================================================
