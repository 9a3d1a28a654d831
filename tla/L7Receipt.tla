----------------------------- MODULE L7Receipt -----------------------------
(***************************************************************************)
(* The receipts of a live L7 release, agent/l7_release.py:                 *)
(* _ReceiptReservation and the part of L7Executor.execute around it.       *)
(*                                                                         *)
(* An attempt reserves both outcomes before it changes anything: it        *)
(* creates two pending files next to the receipt path with O_EXCL.  After  *)
(* the changes it rewrites one of them in place, links it to its final     *)
(* name and removes the other.  Each system call is a step.  Attempts over *)
(* one receipt path may run at once; a call may fail, the attempt may be   *)
(* interrupted while it finishes, or killed between any two calls.         *)
(*                                                                         *)
(* Abstraction.  A file is the attempt that created it and which of its    *)
(* files it is; the actions on the services are one step (L7Release has    *)
(* them one by one); the power does not fail, so fsync only matters when   *)
(* it raises.                                                              *)
(***************************************************************************)
EXTENDS FiniteSets

CONSTANTS
    Attempt,     \* executions of live releases that share the receipt path
    Fault,       \* what may happen: a subset of {"oserror", "interrupt", "kill"}
    MayOverlap,  \* whether two attempts may run at once
    None         \* no file

ASSUME EnvironmentAssumption ==
    Fault \subseteq {"oserror", "interrupt", "kill"} /\ MayOverlap \in BOOLEAN
ASSUME NoneAssumption  == None \notin Attempt \X {"s", "f", "again"}

VARIABLES
    dir,      \* the four names beside the receipt path: a file or None
    data,     \* content of every file
    pc,       \* step of every attempt
    held,     \* file behind _failure_fd, or None
    verdict,  \* status the rollback leads to
    effect    \* what became of the attempt's changes

vars == <<dir, data, pc, held, verdict, effect>>

File == Attempt \X {"s", "f", "again"}
Name == {"success", "success_pending", "failure", "failure_pending"}

Content == {"absent", "marker", "torn", "succeeded", "rolled-back", "failed"}

ReservePc == {"create_s", "create_f", "undo_s", "sync_r", "recheck", "cancel_s", "cancel_f"}
CommitPc  == {"rewrite_s", "fill_s", "drop_f", "link_s", "drop_s", "sync_s"}
HandlerPc == {"h_path", "h_s", "h_f", "h_create"}
FailurePc == {"rewrite_f", "fill_f", "close_s", "link_f", "unlink_f", "sync_f"}
Pc == {"idle", "apply", "finish", "rollback", "over"}
         \cup ReservePc \cup CommitPc \cup HandlerPc \cup FailurePc

Success(p) == <<p, "s">>

Goto(p, step)   == pc' = [pc EXCEPT ![p] = step]
Entry(n, f)     == dir' = [dir EXCEPT ![n] = f]
Write(f, c)     == data' = [data EXCEPT ![f] = c]
Settled         == dir["success"] # None \/ dir["failure"] # None

Init ==
    /\ dir = [n \in Name |-> None]
    /\ data = [f \in File |-> "absent"]
    /\ pc = [p \in Attempt |-> "idle"]
    /\ held = [p \in Attempt |-> None]
    /\ verdict = [p \in Attempt |-> "none"]
    /\ effect = [p \in Attempt |-> "none"]

\* The checks before reserve, and reserve's own first one.
Begin(p) ==
    /\ pc[p] = "idle"
    /\ MayOverlap \/ \A q \in Attempt : pc[q] \in {"idle", "over"}
    /\ \/ ~Settled /\ Goto(p, "create_s")
       \/ Goto(p, "over")
    /\ UNCHANGED <<dir, data, held, verdict, effect>>

\* Mutant: the pending file opened without O_EXCL.
CreateSuccessAnyway(p) ==
    /\ pc[p] = "create_s"
    /\ Entry("success_pending", Success(p)) /\ Write(Success(p), "marker")
    /\ Goto(p, "create_f")
    /\ UNCHANGED <<held, verdict, effect>>

CreateSuccess(p) ==
    /\ pc[p] = "create_s"
    /\ IF dir["success_pending"] = None
         THEN /\ Entry("success_pending", Success(p)) /\ Write(Success(p), "marker")
              /\ Goto(p, "create_f")
         ELSE Goto(p, "over") /\ UNCHANGED <<dir, data>>
    /\ UNCHANGED <<held, verdict, effect>>

CreateFailure(p) ==
    /\ pc[p] = "create_f"
    /\ IF dir["failure_pending"] = None
         THEN /\ Entry("failure_pending", <<p, "f">>) /\ Write(<<p, "f">>, "marker")
              /\ held' = [held EXCEPT ![p] = <<p, "f">>]
              /\ Goto(p, "sync_r")
         ELSE Goto(p, "undo_s") /\ UNCHANGED <<dir, data, held>>
    /\ UNCHANGED <<verdict, effect>>

Sync(p) ==
    /\ pc[p] \in {"sync_r", "sync_f"}
    /\ Goto(p, IF pc[p] = "sync_r" THEN "recheck" ELSE "over")
    /\ UNCHANGED <<dir, data, held, verdict, effect>>

\* Mutant: the receipts are not looked for again once reserved.
RecheckNothing(p) ==
    /\ pc[p] = "recheck"
    /\ Goto(p, "apply")
    /\ UNCHANGED <<dir, data, held, verdict, effect>>

Recheck(p) ==
    /\ pc[p] = "recheck"
    /\ Goto(p, IF Settled THEN "cancel_s" ELSE "apply")
    /\ UNCHANGED <<dir, data, held, verdict, effect>>

\* unlink(missing_ok=True) by name, whosever file it is.
Unlink(p, from, name, to) ==
    /\ pc[p] = from
    /\ Entry(name, None)
    /\ Goto(p, to)
    /\ UNCHANGED <<data, held, verdict, effect>>

UndoReservation(p) == Unlink(p, "undo_s", "success_pending", "over")

\* cancel_before_mutation
Cancel(p) ==
    \/ Unlink(p, "cancel_s", "success_pending", "cancel_f")
    \/ Unlink(p, "cancel_f", "failure_pending", "over")

\* The planned actions: all verified, or one fails and the rest is not tried.
Apply(p) ==
    /\ pc[p] = "apply"
    /\ \/ effect' = [effect EXCEPT ![p] = "applied"] /\ Goto(p, "rewrite_s")
       \/ effect' = [effect EXCEPT ![p] = "partial"] /\ Goto(p, "rollback")
    /\ UNCHANGED <<dir, data, held, verdict>>

\* Mutant: a short write is taken for the whole payload.
RewriteSuccessShort(p) ==
    /\ pc[p] = "rewrite_s"
    /\ Write(Success(p), "torn")
    /\ Goto(p, "drop_f")
    /\ UNCHANGED <<dir, held, verdict, effect>>

\* _rewrite: the name must still be the file of the descriptor.  It truncates
\* and then writes.
RewriteSuccess(p) ==
    /\ pc[p] = "rewrite_s"
    /\ IF dir["success_pending"] = Success(p)
         THEN Write(Success(p), "torn") /\ Goto(p, "fill_s")
         ELSE Goto(p, "rollback") /\ UNCHANGED data
    /\ UNCHANGED <<dir, held, verdict, effect>>

FillSuccess(p) ==
    /\ pc[p] = "fill_s"
    /\ Write(Success(p), "succeeded")
    /\ Goto(p, "drop_f")
    /\ UNCHANGED <<dir, held, verdict, effect>>

\* commit_success, the guarded part: every exception enters the handler.
DropFailure(p) ==
    /\ pc[p] = "drop_f"
    /\ held' = [held EXCEPT ![p] = None]
    /\ Entry("failure_pending", None)
    /\ Goto(p, IF dir["failure_pending"] = None THEN "h_path" ELSE "link_s")
    /\ UNCHANGED <<data, verdict, effect>>

LinkSuccess(p) ==
    /\ pc[p] = "link_s"
    /\ IF dir["success"] = None /\ dir["success_pending"] # None
         THEN /\ Entry("success", dir["success_pending"])
              /\ Goto(p, IF dir["success_pending"] = Success(p) THEN "drop_s" ELSE "h_path")
         ELSE Goto(p, "h_path") /\ UNCHANGED dir
    /\ UNCHANGED <<data, held, verdict, effect>>

DropSuccess(p) ==
    /\ pc[p] = "drop_s"
    /\ Entry("success_pending", None)
    /\ Goto(p, IF dir["success_pending"] = None THEN "h_path" ELSE "sync_s")
    /\ UNCHANGED <<data, held, verdict, effect>>

SyncSuccess(p) ==
    /\ pc[p] = "sync_s"
    /\ Goto(p, "finish")
    /\ UNCHANGED <<dir, data, held, verdict, effect>>

\* finalize_success and the return of execute.
Finish(p) ==
    /\ pc[p] = "finish"
    /\ Goto(p, "over")
    /\ UNCHANGED <<dir, data, held, verdict, effect>>

\* Mutant: the handler leaves the linked success receipt.
HandlePathKeeps(p) ==
    /\ pc[p] = "h_path"
    /\ Goto(p, "h_s")
    /\ UNCHANGED <<dir, data, held, verdict, effect>>

\* The handler of commit_success.
HandlePath(p) ==
    /\ pc[p] = "h_path"
    /\ IF dir["success"] = Success(p) THEN Entry("success", None) ELSE UNCHANGED dir
    /\ Goto(p, "h_s")
    /\ UNCHANGED <<data, held, verdict, effect>>

HandlePending(p) ==
    \/ Unlink(p, "h_s", "success_pending", "h_f")
    \/ Unlink(p, "h_f", "failure_pending", "h_create")

HandleCreate(p) ==
    /\ pc[p] = "h_create"
    /\ IF dir["failure_pending"] = None
         THEN /\ Entry("failure_pending", <<p, "again">>) /\ Write(<<p, "again">>, "marker")
              /\ held' = [held EXCEPT ![p] = <<p, "again">>]
         ELSE UNCHANGED <<dir, data, held>>
    /\ Goto(p, "rollback")
    /\ UNCHANGED <<verdict, effect>>

\* Mutant: a failing rollback is not remembered.
RollbackForgetsErrors(p) ==
    /\ pc[p] = "rollback"
    /\ effect' \in {[effect EXCEPT ![p] = "undone"], effect}
    /\ verdict' = [verdict EXCEPT ![p] = "rolled-back"]
    /\ Goto(p, IF held[p] = None THEN "over" ELSE "rewrite_f")
    /\ UNCHANGED <<dir, data, held>>

\* Every applied action is undone, or some rollback fails.  Without a
\* descriptor for the failure file the outcome is not recorded.
Rollback(p) ==
    /\ pc[p] = "rollback"
    /\ \/ /\ effect' = [effect EXCEPT ![p] = "undone"]
          /\ verdict' = [verdict EXCEPT ![p] = "rolled-back"]
       \/ /\ verdict' = [verdict EXCEPT ![p] = "failed"]
          /\ UNCHANGED effect
    /\ Goto(p, IF held[p] = None THEN "over" ELSE "rewrite_f")
    /\ UNCHANGED <<dir, data, held>>

\* commit_failure
RewriteFailure(p) ==
    /\ pc[p] = "rewrite_f"
    /\ IF dir["failure_pending"] = held[p]
         THEN Write(held[p], "torn") /\ Goto(p, "fill_f")
         ELSE Goto(p, "over") /\ UNCHANGED data
    /\ UNCHANGED <<dir, held, verdict, effect>>

FillFailure(p) ==
    /\ pc[p] = "fill_f"
    /\ Write(held[p], verdict[p])
    /\ Goto(p, "close_s")
    /\ UNCHANGED <<dir, held, verdict, effect>>

CloseSuccess(p) == Unlink(p, "close_s", "success_pending", "link_f")

LinkFailure(p) ==
    /\ pc[p] = "link_f"
    /\ IF dir["failure"] = None /\ dir["failure_pending"] # None
         THEN /\ Entry("failure", dir["failure_pending"])
              /\ Goto(p, IF dir["failure_pending"] = held[p] THEN "unlink_f" ELSE "over")
         ELSE Goto(p, "over") /\ UNCHANGED dir
    /\ UNCHANGED <<data, held, verdict, effect>>

UnlinkFailure(p) ==
    /\ pc[p] = "unlink_f"
    /\ Entry("failure_pending", None)
    /\ Goto(p, IF dir["failure_pending"] = None THEN "over" ELSE "sync_f")
    /\ UNCHANGED <<data, held, verdict, effect>>

Commit(p) ==
    \/ RewriteSuccess(p) \/ FillSuccess(p) \/ DropFailure(p) \/ LinkSuccess(p)
    \/ DropSuccess(p) \/ SyncSuccess(p) \/ Finish(p)
    \/ HandlePath(p) \/ HandlePending(p) \/ HandleCreate(p)

Fail(p) ==
    \/ Rollback(p) \/ RewriteFailure(p) \/ FillFailure(p) \/ CloseSuccess(p)
    \/ LinkFailure(p) \/ UnlinkFailure(p)

Reserve(p) ==
    \/ Begin(p) \/ CreateSuccess(p) \/ CreateFailure(p) \/ UndoReservation(p)
    \/ Sync(p) \/ Recheck(p) \/ Cancel(p)

\* A call of the step raises OSError before it has changed anything.
Raised(step) ==
    CASE step = "create_f" -> "undo_s"
      [] step = "sync_r" -> "cancel_s"
      [] step \in {"rewrite_s", "fill_s"} \cup HandlerPc -> "rollback"
      [] step \in {"drop_f", "link_s", "drop_s", "sync_s"} -> "h_path"
      [] OTHER -> "over"

CallFails(p) ==
    /\ "oserror" \in Fault
    /\ pc[p] \in (ReservePc \ {"recheck"}) \cup CommitPc \cup HandlerPc \cup FailurePc
    /\ Goto(p, Raised(pc[p]))
    /\ held' = [held EXCEPT ![p] = IF pc[p] = "drop_f" THEN None ELSE held[p]]
    /\ UNCHANGED <<dir, data, verdict, effect>>

\* KeyboardInterrupt after the success receipt is durable: execute catches
\* BaseException and rolls back.
Interrupt(p) ==
    /\ "interrupt" \in Fault
    /\ pc[p] = "finish"
    /\ Goto(p, "rollback")
    /\ UNCHANGED <<dir, data, held, verdict, effect>>

Kill(p) ==
    /\ "kill" \in Fault
    /\ pc[p] \notin {"idle", "over"}
    /\ Goto(p, "over")
    /\ held' = [held EXCEPT ![p] = None]
    /\ UNCHANGED <<dir, data, verdict, effect>>

Next ==
    \E p \in Attempt :
       \/ Reserve(p) \/ Apply(p) \/ Commit(p) \/ Fail(p)
       \/ CallFails(p) \/ Interrupt(p) \/ Kill(p)

Spec == Init /\ [][Next]_vars

-----------------------------------------------------------------------------
TypeOK ==
    /\ dir \in [Name -> File \cup {None}]
    /\ data \in [File -> Content]
    /\ pc \in [Attempt -> Pc]
    /\ held \in [Attempt -> File \cup {None}]
    /\ verdict \in [Attempt -> {"none", "rolled-back", "failed"}]
    /\ effect \in [Attempt -> {"none", "applied", "partial", "undone"}]

\* While an attempt changes the services, both outcomes are reserved for it:
\* the pending names are its own files.
OutcomesReserved ==
    \A p \in Attempt :
       pc[p] \in {"apply", "rewrite_s", "fill_s", "drop_f"} =>
          dir["success_pending"] = Success(p) /\ dir["failure_pending"] = <<p, "f">>

\* A success receipt is complete and its changes are in place.
SuccessIsTrue ==
    \A p \in Attempt : dir["success"] = Success(p) =>
       data[Success(p)] = "succeeded" /\ effect[p] = "applied"

\* A failure receipt is complete; it says rolled-back only of changes undone.
FailureIsTrue ==
    dir["failure"] # None =>
       LET f == dir["failure"]
           p == f[1]
       IN  /\ data[f] \in {"rolled-back", "failed"}
           /\ data[f] = "rolled-back" => effect[p] = "undone"

\* A release has one outcome.
OneOutcome == dir["success"] = None \/ dir["failure"] = None

Changers == {p \in Attempt : effect[p] # "none"}

Outcome == IF dir["success"] # None THEN "succeeded"
           ELSE IF dir["failure"] # None THEN "failed" ELSE "open"

Release == INSTANCE ReleaseOutcome WITH changers <- Changers, outcome <- Outcome

\* The receipts of a release keep the promise of ReleaseOutcome while attempts
\* overlap and are killed at any step: an attempt that changed something blocks
\* every other one, whatever became of it, and no outcome is ever replaced.
Implements == Release!Spec

-----------------------------------------------------------------------------
(* The inductive invariant: Decided whatever fails, the rest where attempts *)
(* are only killed.                                                         *)

\* The failure file is written once the rollback is over.
Decided == \A p \in Attempt : pc[p] \in FailurePc \ {"sync_f"} => verdict[p] # "none"

\* From its creation to its removal a pending file is the attempt's own.
HoldsSuccess ==
    {"create_f", "undo_s", "sync_r", "recheck", "cancel_s", "apply", "rewrite_s", "fill_s",
     "drop_f", "link_s", "drop_s", "rollback", "rewrite_f", "fill_f", "close_s"}
HoldsFailure ==
    {"sync_r", "recheck", "cancel_s", "cancel_f", "apply", "rewrite_s", "fill_s", "drop_f",
     "rollback", "rewrite_f", "fill_f", "close_s", "link_f", "unlink_f"}

\* From its first change to the link of its receipt.
Unsettled ==
    {"apply", "rewrite_s", "fill_s", "drop_f", "link_s", "rollback", "rewrite_f", "fill_f",
     "close_s", "link_f"}

\* Somebody has changed something: a receipt is there, or one of the names.
Traced(p) == Settled \/ dir["success_pending"] = Success(p) \/ dir["failure_pending"] = <<p, "f">>

Holding ==
    \A p \in Attempt :
       /\ pc[p] \in HoldsSuccess => dir["success_pending"] = Success(p)
       /\ pc[p] \in HoldsFailure => dir["failure_pending"] = <<p, "f">> /\ held[p] = <<p, "f">>
       /\ pc[p] \notin HandlerPc

Blocking ==
    /\ \A p \in Attempt :
          /\ pc[p] \in Unsettled => ~Settled
          /\ pc[p] \in {"drop_s", "unlink_f"} => Settled
          /\ pc[p] \in Unsettled \ {"apply"} => effect[p] # "none"
          /\ pc[p] \in ReservePc \cup {"idle", "apply"} => effect[p] = "none"
          /\ effect[p] # "none" => Traced(p)
    /\ \A p, q \in Attempt : pc[p] \in Unsettled /\ pc[q] \in Unsettled => p = q

Filled ==
    \A p \in Attempt :
       /\ pc[p] \in {"rewrite_s", "fill_s"} => effect[p] = "applied"
       /\ pc[p] \in {"drop_f", "link_s", "drop_s"} => effect[p] = "applied" /\ data[Success(p)] = "succeeded"
       /\ pc[p] \in Unsettled => dir["success"] # Success(p)
       /\ dir["success"] = Success(p) => pc[p] \in {"drop_s", "sync_s", "finish", "over"}

ReceiptInv == Holding /\ Blocking

(* The inductive invariant where attempts do not overlap and anything fails. *)

AtRest == {"idle", "over"}
Alone == \A p, q \in Attempt : pc[p] \notin AtRest /\ pc[q] \notin AtRest => p = q

\* The failure file is closed before the success receipt is linked.
Closed == {"link_s", "drop_s", "sync_s", "finish"} \cup HandlerPc

\* What an attempt has to do with the two outcomes while it is under way.
Honest(p) ==
    /\ pc[p] \in ReservePc \cup {"idle", "apply"} => verdict[p] = "none"
    /\ verdict[p] = "rolled-back" => effect[p] = "undone"
    /\ held[p] \in {None, <<p, "f">>, <<p, "again">>}
    /\ pc[p] \in Closed => held[p] = None
    /\ pc[p] \in {"fill_s", "drop_f", "link_s"} => dir["success_pending"] = Success(p)
    /\ pc[p] \notin AtRest \cup {"unlink_f", "sync_f"} => dir["failure"] = None
    /\ pc[p] \notin AtRest /\ dir["success"] # None =>
          \/ pc[p] \in {"drop_s", "sync_s", "finish", "h_path"} /\ dir["success"] = Success(p)
          \/ pc[p] = "rollback" /\ held[p] = None
    /\ pc[p] \in {"rewrite_f", "fill_f", "close_s", "link_f"} => held[p] # None
    /\ pc[p] \in {"fill_f", "close_s", "link_f"} => dir["failure_pending"] = held[p]
    /\ pc[p] \in {"close_s", "link_f"} => data[held[p]] = verdict[p]

HonestInv == Alone /\ (\A p \in Attempt : Honest(p)) /\ FailureIsTrue /\ OneOutcome
=============================================================================
