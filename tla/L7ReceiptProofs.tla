--------------------------- MODULE L7ReceiptProofs ---------------------------
(***************************************************************************)
(* Theorems about L7Receipt: type correctness under every fault; for       *)
(* attempts that overlap and are killed at any step, that both outcomes    *)
(* stay reserved for the one attempt that changes the services, that a     *)
(* success receipt is true, and that the receipts implement ReleaseOutcome;*)
(* for attempts one after another, under every fault, that a failure       *)
(* receipt is true and that a release has one outcome.                     *)
(***************************************************************************)
EXTENDS L7Receipt, TLAPS

USE DEF ReservePc, CommitPc, HandlerPc, FailurePc

LEMMA TypeInit == Init => TypeOK /\ Decided
  BY DEF Init, TypeOK, Decided, File, Name, Content, Pc

LEMMA TypeNext == TypeOK /\ Decided /\ [Next]_vars => TypeOK' /\ Decided'
<1> SUFFICES ASSUME TypeOK, Decided, [Next]_vars PROVE TypeOK' /\ Decided'
  OBVIOUS
<1>1. CASE UNCHANGED vars
  BY <1>1 DEF TypeOK, Decided, vars
<1>2. ASSUME NEW p \in Attempt,
             Reserve(p) \/ Apply(p) \/ Commit(p) \/ Fail(p) \/ CallFails(p) \/ Interrupt(p) \/ Kill(p)
      PROVE  TypeOK' /\ Decided'
  <2>1. CASE Begin(p)
    BY <2>1 DEF Begin, Goto, Entry, Write, TypeOK, Decided, Success, File, Name, Content, Pc
  <2>2. CASE CreateSuccess(p)
    BY <2>2 DEF CreateSuccess, Goto, Entry, Write, TypeOK, Decided, Success, File, Name, Content, Pc
  <2>3. CASE CreateFailure(p)
    <3>1. <<p, "f">> \in File /\ "failure_pending" \in Name /\ "marker" \in Content
      BY DEF File, Name, Content
    <3>2. CASE dir["failure_pending"] = None
      BY <2>3, <3>1, <3>2 DEF CreateFailure, Goto, Entry, Write, TypeOK, Decided, Pc
    <3>3. CASE dir["failure_pending"] # None
      BY <2>3, <3>3 DEF CreateFailure, Goto, TypeOK, Decided, Pc
    <3> QED
      BY <3>2, <3>3
  <2>4. CASE UndoReservation(p)
    BY <2>4 DEF UndoReservation, Unlink, Goto, Entry, Write, TypeOK, Decided, Success, File, Name, Content, Pc
  <2>5. CASE Sync(p)
    BY <2>5 DEF Sync, Goto, Entry, Write, TypeOK, Decided, Success, File, Name, Content, Pc
  <2>6. CASE Recheck(p)
    BY <2>6 DEF Recheck, Goto, Entry, Write, TypeOK, Decided, Success, File, Name, Content, Pc
  <2>7. CASE Cancel(p)
    BY <2>7 DEF Cancel, Unlink, Goto, Entry, Write, TypeOK, Decided, Success, File, Name, Content, Pc
  <2>8. CASE Apply(p)
    BY <2>8 DEF Apply, Goto, Entry, Write, TypeOK, Decided, Success, File, Name, Content, Pc
  <2>9. CASE RewriteSuccess(p)
    BY <2>9 DEF RewriteSuccess, Goto, Entry, Write, TypeOK, Decided, Success, File, Name, Content, Pc
  <2>10. CASE FillSuccess(p)
    BY <2>10 DEF FillSuccess, Goto, Entry, Write, TypeOK, Decided, Success, File, Name, Content, Pc
  <2>11. CASE DropFailure(p)
    BY <2>11 DEF DropFailure, Goto, Entry, Write, TypeOK, Decided, Success, File, Name, Content, Pc
  <2>12. CASE LinkSuccess(p)
    BY <2>12 DEF LinkSuccess, Goto, Entry, Write, TypeOK, Decided, Success, File, Name, Content, Pc
  <2>13. CASE DropSuccess(p)
    BY <2>13 DEF DropSuccess, Goto, Entry, Write, TypeOK, Decided, Success, File, Name, Content, Pc
  <2>14. CASE SyncSuccess(p)
    BY <2>14 DEF SyncSuccess, Goto, Entry, Write, TypeOK, Decided, Success, File, Name, Content, Pc
  <2>15. CASE Finish(p)
    BY <2>15 DEF Finish, Goto, Entry, Write, TypeOK, Decided, Success, File, Name, Content, Pc
  <2>16. CASE HandlePath(p)
    BY <2>16 DEF HandlePath, Goto, Entry, Write, TypeOK, Decided, Success, File, Name, Content, Pc
  <2>17. CASE HandlePending(p)
    BY <2>17 DEF HandlePending, Unlink, Goto, Entry, Write, TypeOK, Decided, Success, File, Name, Content, Pc
  <2>18. CASE HandleCreate(p)
    BY <2>18 DEF HandleCreate, Goto, Entry, Write, TypeOK, Decided, Success, File, Name, Content, Pc
  <2>19. CASE Rollback(p)
    BY <2>19 DEF Rollback, Goto, Entry, Write, TypeOK, Decided, Success, File, Name, Content, Pc
  <2>20. CASE RewriteFailure(p)
    BY <2>20 DEF RewriteFailure, Goto, Entry, Write, TypeOK, Decided, Success, File, Name, Content, Pc
  <2>21. CASE FillFailure(p)
    BY <2>21 DEF FillFailure, Goto, Entry, Write, TypeOK, Decided, Success, File, Name, Content, Pc
  <2>22. CASE CloseSuccess(p)
    BY <2>22 DEF CloseSuccess, Unlink, Goto, Entry, Write, TypeOK, Decided, Success, File, Name, Content, Pc
  <2>23. CASE LinkFailure(p)
    BY <2>23 DEF LinkFailure, Goto, Entry, Write, TypeOK, Decided, Success, File, Name, Content, Pc
  <2>24. CASE UnlinkFailure(p)
    BY <2>24 DEF UnlinkFailure, Goto, Entry, Write, TypeOK, Decided, Success, File, Name, Content, Pc
  <2>25. CASE CallFails(p)
    BY <2>25 DEF CallFails, Raised, Goto, Entry, Write, TypeOK, Decided, Success, File, Name, Content, Pc
  <2>26. CASE Interrupt(p)
    BY <2>26 DEF Interrupt, Goto, Entry, Write, TypeOK, Decided, Success, File, Name, Content, Pc
  <2>27. CASE Kill(p)
    BY <2>27 DEF Kill, Goto, Entry, Write, TypeOK, Decided, Success, File, Name, Content, Pc
  <2> QED
    BY <1>2, <2>1, <2>2, <2>3, <2>4, <2>5, <2>6, <2>7, <2>8, <2>9, <2>10, <2>11, <2>12, <2>13, <2>14, <2>15, <2>16, <2>17, <2>18, <2>19, <2>20, <2>21, <2>22, <2>23, <2>24, <2>25, <2>26, <2>27 DEF Reserve, Commit, Fail
<1> QED
  BY <1>1, <1>2 DEF Next

\* Every variable keeps its shape, whatever calls fail.
THEOREM TypeCorrect == Spec => []TypeOK
  BY TypeInit, TypeNext, PTL DEF Spec

LEMMA OwnFiles ==
    /\ \A p \in Attempt : Success(p) \in File /\ Success(p) # None /\ <<p, "f">> # None
    /\ \A p, q \in Attempt : p # q => Success(p) # Success(q)
    /\ \A p, q \in Attempt : Success(p) # <<q, "f">> /\ (p # q => <<p, "f">> # <<q, "f">>)
  BY NoneAssumption DEF Success, File

(* The links succeed: only kills disturb them. *)

LEMMA LinkSuccessLemma ==
    ASSUME TypeOK, Holding, Blocking, NEW p \in Attempt, LinkSuccess(p)
    PROVE  /\ dir["success"] = None /\ dir["failure"] = None
           /\ dir' = [dir EXCEPT !["success"] = Success(p)]
           /\ pc' = [pc EXCEPT ![p] = "drop_s"]
           /\ UNCHANGED <<data, held, verdict, effect>>
<1>1. dir["success"] = None /\ dir["failure"] = None /\ dir["success_pending"] = Success(p)
  BY DEF LinkSuccess, Holding, HoldsSuccess, Blocking, Unsettled, Settled
<1> QED
  BY <1>1, OwnFiles DEF LinkSuccess, Entry, Goto

LEMMA LinkFailureLemma ==
    ASSUME TypeOK, Holding, Blocking, NEW p \in Attempt, LinkFailure(p)
    PROVE  /\ dir["success"] = None /\ dir["failure"] = None
           /\ dir' = [dir EXCEPT !["failure"] = <<p, "f">>]
           /\ pc' = [pc EXCEPT ![p] = "unlink_f"]
           /\ UNCHANGED <<data, held, verdict, effect>>
<1>1. /\ dir["success"] = None /\ dir["failure"] = None
      /\ dir["failure_pending"] = <<p, "f">> /\ held[p] = <<p, "f">>
  BY DEF LinkFailure, Holding, HoldsFailure, Blocking, Unsettled, Settled
<1> QED
  BY <1>1, OwnFiles DEF LinkFailure, Entry, Goto

LEMMA HoldingNext ==
    ASSUME Fault \subseteq {"kill"}, TypeOK, Holding, Blocking, [Next]_vars
    PROVE  Holding'
<1>1. CASE UNCHANGED vars
  BY <1>1 DEF vars, Holding, HoldsSuccess, HoldsFailure, Blocking, Settled, Unsettled
<1>2. ASSUME NEW p \in Attempt,
             Reserve(p) \/ Apply(p) \/ Commit(p) \/ Fail(p) \/ CallFails(p) \/ Interrupt(p) \/ Kill(p)
      PROVE  Holding'
  <2>1. CASE Begin(p)
    BY <2>1, OwnFiles DEF Begin, Goto, Entry, Write, TypeOK, Name, File, Holding, HoldsSuccess, HoldsFailure, Blocking, Settled, Unsettled
  <2>2. CASE CreateSuccess(p)
    BY <2>2, OwnFiles DEF CreateSuccess, Goto, Entry, Write, TypeOK, Name, File, Holding, HoldsSuccess, HoldsFailure, Blocking, Settled, Unsettled
  <2>3. CASE CreateFailure(p)
    BY <2>3, OwnFiles DEF CreateFailure, Goto, Entry, Write, TypeOK, Name, File, Holding, HoldsSuccess, HoldsFailure, Blocking, Settled, Unsettled
  <2>4. CASE UndoReservation(p)
    BY <2>4, OwnFiles DEF UndoReservation, Unlink, Goto, Entry, Write, TypeOK, Name, File, Holding, HoldsSuccess, HoldsFailure, Blocking, Settled, Unsettled
  <2>5. CASE Sync(p)
    BY <2>5, OwnFiles DEF Sync, Goto, Entry, Write, TypeOK, Name, File, Holding, HoldsSuccess, HoldsFailure, Blocking, Settled, Unsettled
  <2>6. CASE Recheck(p)
    BY <2>6, OwnFiles DEF Recheck, Goto, Entry, Write, TypeOK, Name, File, Holding, HoldsSuccess, HoldsFailure, Blocking, Settled, Unsettled
  <2>7. CASE Cancel(p)
    BY <2>7, OwnFiles DEF Cancel, Unlink, Goto, Entry, Write, TypeOK, Name, File, Holding, HoldsSuccess, HoldsFailure, Blocking, Settled, Unsettled
  <2>8. CASE Apply(p)
    BY <2>8, OwnFiles DEF Apply, Goto, Entry, Write, TypeOK, Name, File, Holding, HoldsSuccess, HoldsFailure, Blocking, Settled, Unsettled
  <2>9. CASE RewriteSuccess(p)
    BY <2>9, OwnFiles DEF RewriteSuccess, Goto, Entry, Write, TypeOK, Name, File, Holding, HoldsSuccess, HoldsFailure, Blocking, Settled, Unsettled
  <2>10. CASE FillSuccess(p)
    BY <2>10, OwnFiles DEF FillSuccess, Goto, Entry, Write, TypeOK, Name, File, Holding, HoldsSuccess, HoldsFailure, Blocking, Settled, Unsettled
  <2>11. CASE DropFailure(p)
    BY <2>11, OwnFiles DEF DropFailure, Goto, Entry, Write, TypeOK, Name, File, Holding, HoldsSuccess, HoldsFailure, Blocking, Settled, Unsettled
  <2>12. CASE LinkSuccess(p)
    BY <2>12, LinkSuccessLemma DEF LinkSuccess, TypeOK, Name, Holding, HoldsSuccess, HoldsFailure
  <2>13. CASE DropSuccess(p)
    BY <2>13, OwnFiles DEF DropSuccess, Goto, Entry, Write, TypeOK, Name, File, Holding, HoldsSuccess, HoldsFailure, Blocking, Settled, Unsettled
  <2>14. CASE SyncSuccess(p)
    BY <2>14, OwnFiles DEF SyncSuccess, Goto, Entry, Write, TypeOK, Name, File, Holding, HoldsSuccess, HoldsFailure, Blocking, Settled, Unsettled
  <2>15. CASE Finish(p)
    BY <2>15, OwnFiles DEF Finish, Goto, Entry, Write, TypeOK, Name, File, Holding, HoldsSuccess, HoldsFailure, Blocking, Settled, Unsettled
  <2>16. CASE HandlePath(p)
    BY <2>16, OwnFiles DEF HandlePath, Goto, Entry, Write, TypeOK, Name, File, Holding, HoldsSuccess, HoldsFailure, Blocking, Settled, Unsettled
  <2>17. CASE HandlePending(p)
    BY <2>17, OwnFiles DEF HandlePending, Unlink, Goto, Entry, Write, TypeOK, Name, File, Holding, HoldsSuccess, HoldsFailure, Blocking, Settled, Unsettled
  <2>18. CASE HandleCreate(p)
    BY <2>18, OwnFiles DEF HandleCreate, Goto, Entry, Write, TypeOK, Name, File, Holding, HoldsSuccess, HoldsFailure, Blocking, Settled, Unsettled
  <2>19. CASE Rollback(p)
    BY <2>19, OwnFiles DEF Rollback, Goto, Entry, Write, TypeOK, Name, File, Holding, HoldsSuccess, HoldsFailure, Blocking, Settled, Unsettled
  <2>20. CASE RewriteFailure(p)
    BY <2>20, OwnFiles DEF RewriteFailure, Goto, Entry, Write, TypeOK, Name, File, Holding, HoldsSuccess, HoldsFailure, Blocking, Settled, Unsettled
  <2>21. CASE FillFailure(p)
    BY <2>21, OwnFiles DEF FillFailure, Goto, Entry, Write, TypeOK, Name, File, Holding, HoldsSuccess, HoldsFailure, Blocking, Settled, Unsettled
  <2>22. CASE CloseSuccess(p)
    BY <2>22, OwnFiles DEF CloseSuccess, Unlink, Goto, Entry, Write, TypeOK, Name, File, Holding, HoldsSuccess, HoldsFailure, Blocking, Settled, Unsettled
  <2>23. CASE LinkFailure(p)
    BY <2>23, LinkFailureLemma DEF LinkFailure, TypeOK, Name, Holding, HoldsSuccess, HoldsFailure
  <2>24. CASE UnlinkFailure(p)
    BY <2>24, OwnFiles DEF UnlinkFailure, Goto, Entry, Write, TypeOK, Name, File, Holding, HoldsSuccess, HoldsFailure, Blocking, Settled, Unsettled
  <2>25. CASE CallFails(p)
    BY <2>25, OwnFiles DEF CallFails, Raised, Goto, Entry, Write, TypeOK, Name, File, Holding, HoldsSuccess, HoldsFailure, Blocking, Settled, Unsettled
  <2>26. CASE Interrupt(p)
    BY <2>26, OwnFiles DEF Interrupt, Goto, Entry, Write, TypeOK, Name, File, Holding, HoldsSuccess, HoldsFailure, Blocking, Settled, Unsettled
  <2>27. CASE Kill(p)
    BY <2>27, OwnFiles DEF Kill, Goto, Entry, Write, TypeOK, Name, File, Holding, HoldsSuccess, HoldsFailure, Blocking, Settled, Unsettled
  <2> QED
    BY <1>2, <2>1, <2>2, <2>3, <2>4, <2>5, <2>6, <2>7, <2>8, <2>9, <2>10, <2>11, <2>12, <2>13, <2>14, <2>15, <2>16, <2>17, <2>18, <2>19, <2>20, <2>21, <2>22, <2>23, <2>24, <2>25, <2>26, <2>27 DEF Reserve, Commit, Fail
<1> QED
  BY <1>1, <1>2 DEF Next

LEMMA BlockingNext ==
    ASSUME Fault \subseteq {"kill"}, TypeOK, Holding, Blocking, [Next]_vars
    PROVE  Blocking'
<1>1. CASE UNCHANGED vars
  BY <1>1 DEF vars, Holding, HoldsSuccess, HoldsFailure, Blocking, Settled, Unsettled, Traced
<1>2. ASSUME NEW p \in Attempt,
             Reserve(p) \/ Apply(p) \/ Commit(p) \/ Fail(p) \/ CallFails(p) \/ Interrupt(p) \/ Kill(p)
      PROVE  Blocking'
  <2>1. CASE Begin(p)
    BY <2>1, OwnFiles DEF Begin, Goto, Entry, Write, TypeOK, Name, File, Holding, HoldsSuccess, HoldsFailure, Blocking, Settled, Unsettled, Traced
  <2>2. CASE CreateSuccess(p)
    BY <2>2, OwnFiles DEF CreateSuccess, Goto, Entry, Write, TypeOK, Name, File, Holding, HoldsSuccess, HoldsFailure, Blocking, Settled, Unsettled, Traced
  <2>3. CASE CreateFailure(p)
    BY <2>3, OwnFiles DEF CreateFailure, Goto, Entry, Write, TypeOK, Name, File, Holding, HoldsSuccess, HoldsFailure, Blocking, Settled, Unsettled, Traced
  <2>4. CASE UndoReservation(p)
    BY <2>4, OwnFiles DEF UndoReservation, Unlink, Goto, Entry, Write, TypeOK, Name, File, Holding, HoldsSuccess, HoldsFailure, Blocking, Settled, Unsettled, Traced
  <2>5. CASE Sync(p)
    BY <2>5, OwnFiles DEF Sync, Goto, Entry, Write, TypeOK, Name, File, Holding, HoldsSuccess, HoldsFailure, Blocking, Settled, Unsettled, Traced
  <2>6. CASE Recheck(p)
    BY <2>6, OwnFiles DEF Recheck, Goto, Entry, Write, TypeOK, Name, File, Holding, HoldsSuccess, HoldsFailure, Blocking, Settled, Unsettled, Traced
  <2>7. CASE Cancel(p)
    BY <2>7, OwnFiles DEF Cancel, Unlink, Goto, Entry, Write, TypeOK, Name, File, Holding, HoldsSuccess, HoldsFailure, Blocking, Settled, Unsettled, Traced
  <2>8. CASE Apply(p)
    <3>1. /\ pc' \in {[pc EXCEPT ![p] = "rewrite_s"], [pc EXCEPT ![p] = "rollback"]}
          /\ effect'[p] # "none"
          /\ \A q \in Attempt : q # p => effect'[q] = effect[q]
          /\ UNCHANGED dir
      BY <2>8 DEF Apply, Goto, TypeOK
    <3>2. Traced(p)' /\ \A q \in Attempt : Traced(q)' = Traced(q)
      BY <2>8, <3>1 DEF Apply, Traced, Settled, Holding, HoldsSuccess
    <3> QED
      BY <2>8, <3>1, <3>2 DEF Apply, TypeOK, Blocking, Unsettled, Settled
  <2>9. CASE RewriteSuccess(p)
    BY <2>9, OwnFiles DEF RewriteSuccess, Goto, Entry, Write, TypeOK, Name, File, Holding, HoldsSuccess, HoldsFailure, Blocking, Settled, Unsettled, Traced
  <2>10. CASE FillSuccess(p)
    BY <2>10, OwnFiles DEF FillSuccess, Goto, Entry, Write, TypeOK, Name, File, Holding, HoldsSuccess, HoldsFailure, Blocking, Settled, Unsettled, Traced
  <2>11. CASE DropFailure(p)
    BY <2>11, OwnFiles DEF DropFailure, Goto, Entry, Write, TypeOK, Name, File, Holding, HoldsSuccess, HoldsFailure, Blocking, Settled, Unsettled, Traced
  <2>12. CASE LinkSuccess(p)
    BY <2>12, OwnFiles DEF LinkSuccess, Goto, Entry, Write, TypeOK, Name, File, Holding, HoldsSuccess, HoldsFailure, Blocking, Settled, Unsettled, Traced
  <2>13. CASE DropSuccess(p)
    BY <2>13, OwnFiles DEF DropSuccess, Goto, Entry, Write, TypeOK, Name, File, Holding, HoldsSuccess, HoldsFailure, Blocking, Settled, Unsettled, Traced
  <2>14. CASE SyncSuccess(p)
    BY <2>14, OwnFiles DEF SyncSuccess, Goto, Entry, Write, TypeOK, Name, File, Holding, HoldsSuccess, HoldsFailure, Blocking, Settled, Unsettled, Traced
  <2>15. CASE Finish(p)
    BY <2>15, OwnFiles DEF Finish, Goto, Entry, Write, TypeOK, Name, File, Holding, HoldsSuccess, HoldsFailure, Blocking, Settled, Unsettled, Traced
  <2>16. CASE HandlePath(p)
    BY <2>16, OwnFiles DEF HandlePath, Goto, Entry, Write, TypeOK, Name, File, Holding, HoldsSuccess, HoldsFailure, Blocking, Settled, Unsettled, Traced
  <2>17. CASE HandlePending(p)
    BY <2>17, OwnFiles DEF HandlePending, Unlink, Goto, Entry, Write, TypeOK, Name, File, Holding, HoldsSuccess, HoldsFailure, Blocking, Settled, Unsettled, Traced
  <2>18. CASE HandleCreate(p)
    BY <2>18, OwnFiles DEF HandleCreate, Goto, Entry, Write, TypeOK, Name, File, Holding, HoldsSuccess, HoldsFailure, Blocking, Settled, Unsettled, Traced
  <2>19. CASE Rollback(p)
    BY <2>19, OwnFiles DEF Rollback, Goto, Entry, Write, TypeOK, Name, File, Holding, HoldsSuccess, HoldsFailure, Blocking, Settled, Unsettled, Traced
  <2>20. CASE RewriteFailure(p)
    BY <2>20, OwnFiles DEF RewriteFailure, Goto, Entry, Write, TypeOK, Name, File, Holding, HoldsSuccess, HoldsFailure, Blocking, Settled, Unsettled, Traced
  <2>21. CASE FillFailure(p)
    BY <2>21, OwnFiles DEF FillFailure, Goto, Entry, Write, TypeOK, Name, File, Holding, HoldsSuccess, HoldsFailure, Blocking, Settled, Unsettled, Traced
  <2>22. CASE CloseSuccess(p)
    BY <2>22, OwnFiles DEF CloseSuccess, Unlink, Goto, Entry, Write, TypeOK, Name, File, Holding, HoldsSuccess, HoldsFailure, Blocking, Settled, Unsettled, Traced
  <2>23. CASE LinkFailure(p)
    <3>1. Settled' /\ \A q \in Attempt : Traced(q)'
      BY <2>23, LinkFailureLemma, OwnFiles DEF TypeOK, Name, Settled, Traced
    <3>2. \A q \in Attempt : q # p => pc[q] \notin Unsettled /\ pc'[q] = pc[q]
      BY <2>23, LinkFailureLemma DEF LinkFailure, TypeOK, Blocking, Unsettled
    <3>3. pc'[p] = "unlink_f"
      BY <2>23, LinkFailureLemma DEF TypeOK
    <3> QED
      BY <2>23, <3>1, <3>2, <3>3, LinkFailureLemma DEF Blocking, Unsettled
  <2>24. CASE UnlinkFailure(p)
    BY <2>24, OwnFiles DEF UnlinkFailure, Goto, Entry, Write, TypeOK, Name, File, Holding, HoldsSuccess, HoldsFailure, Blocking, Settled, Unsettled, Traced
  <2>25. CASE CallFails(p)
    BY <2>25, OwnFiles DEF CallFails, Raised, Goto, Entry, Write, TypeOK, Name, File, Holding, HoldsSuccess, HoldsFailure, Blocking, Settled, Unsettled, Traced
  <2>26. CASE Interrupt(p)
    BY <2>26, OwnFiles DEF Interrupt, Goto, Entry, Write, TypeOK, Name, File, Holding, HoldsSuccess, HoldsFailure, Blocking, Settled, Unsettled, Traced
  <2>27. CASE Kill(p)
    BY <2>27, OwnFiles DEF Kill, Goto, Entry, Write, TypeOK, Name, File, Holding, HoldsSuccess, HoldsFailure, Blocking, Settled, Unsettled, Traced
  <2> QED
    BY <1>2, <2>1, <2>2, <2>3, <2>4, <2>5, <2>6, <2>7, <2>8, <2>9, <2>10, <2>11, <2>12, <2>13, <2>14, <2>15, <2>16, <2>17, <2>18, <2>19, <2>20, <2>21, <2>22, <2>23, <2>24, <2>25, <2>26, <2>27 DEF Reserve, Commit, Fail
<1> QED
  BY <1>1, <1>2 DEF Next

LEMMA FilledNext ==
    ASSUME Fault \subseteq {"kill"}, TypeOK, Holding, Blocking, Filled, [Next]_vars
    PROVE  Filled'
<1>1. CASE UNCHANGED vars
  BY <1>1 DEF vars, Holding, HoldsSuccess, HoldsFailure, Blocking, Settled, Unsettled, Filled
<1>2. ASSUME NEW p \in Attempt,
             Reserve(p) \/ Apply(p) \/ Commit(p) \/ Fail(p) \/ CallFails(p) \/ Interrupt(p) \/ Kill(p)
      PROVE  Filled'
  <2>1. CASE Begin(p)
    BY <2>1, OwnFiles DEF Begin, Goto, Entry, Write, TypeOK, Name, File, Holding, HoldsSuccess, HoldsFailure, Blocking, Settled, Unsettled, Filled
  <2>2. CASE CreateSuccess(p)
    BY <2>2, OwnFiles DEF CreateSuccess, Goto, Entry, Write, TypeOK, Name, File, Holding, HoldsSuccess, HoldsFailure, Blocking, Settled, Unsettled, Filled
  <2>3. CASE CreateFailure(p)
    BY <2>3, OwnFiles DEF CreateFailure, Goto, Entry, Write, TypeOK, Name, File, Holding, HoldsSuccess, HoldsFailure, Blocking, Settled, Unsettled, Filled
  <2>4. CASE UndoReservation(p)
    BY <2>4, OwnFiles DEF UndoReservation, Unlink, Goto, Entry, Write, TypeOK, Name, File, Holding, HoldsSuccess, HoldsFailure, Blocking, Settled, Unsettled, Filled
  <2>5. CASE Sync(p)
    BY <2>5, OwnFiles DEF Sync, Goto, Entry, Write, TypeOK, Name, File, Holding, HoldsSuccess, HoldsFailure, Blocking, Settled, Unsettled, Filled
  <2>6. CASE Recheck(p)
    BY <2>6, OwnFiles DEF Recheck, Goto, Entry, Write, TypeOK, Name, File, Holding, HoldsSuccess, HoldsFailure, Blocking, Settled, Unsettled, Filled
  <2>7. CASE Cancel(p)
    BY <2>7, OwnFiles DEF Cancel, Unlink, Goto, Entry, Write, TypeOK, Name, File, Holding, HoldsSuccess, HoldsFailure, Blocking, Settled, Unsettled, Filled
  <2>8. CASE Apply(p)
    BY <2>8, OwnFiles DEF Apply, Goto, Entry, Write, TypeOK, Name, File, Holding, HoldsSuccess, HoldsFailure, Blocking, Settled, Unsettled, Filled
  <2>9. CASE RewriteSuccess(p)
    BY <2>9, OwnFiles DEF RewriteSuccess, Goto, Entry, Write, TypeOK, Name, File, Holding, HoldsSuccess, HoldsFailure, Blocking, Settled, Unsettled, Filled
  <2>10. CASE FillSuccess(p)
    BY <2>10, OwnFiles DEF FillSuccess, Goto, Entry, Write, TypeOK, Name, File, Holding, HoldsSuccess, HoldsFailure, Blocking, Settled, Unsettled, Filled
  <2>11. CASE DropFailure(p)
    BY <2>11, OwnFiles DEF DropFailure, Goto, Entry, Write, TypeOK, Name, File, Holding, HoldsSuccess, HoldsFailure, Blocking, Settled, Unsettled, Filled
  <2>12. CASE LinkSuccess(p)
    BY <2>12, OwnFiles DEF LinkSuccess, Goto, Entry, Write, TypeOK, Name, File, Holding, HoldsSuccess, HoldsFailure, Blocking, Settled, Unsettled, Filled
  <2>13. CASE DropSuccess(p)
    BY <2>13, OwnFiles DEF DropSuccess, Goto, Entry, Write, TypeOK, Name, File, Holding, HoldsSuccess, HoldsFailure, Blocking, Settled, Unsettled, Filled
  <2>14. CASE SyncSuccess(p)
    BY <2>14, OwnFiles DEF SyncSuccess, Goto, Entry, Write, TypeOK, Name, File, Holding, HoldsSuccess, HoldsFailure, Blocking, Settled, Unsettled, Filled
  <2>15. CASE Finish(p)
    BY <2>15, OwnFiles DEF Finish, Goto, Entry, Write, TypeOK, Name, File, Holding, HoldsSuccess, HoldsFailure, Blocking, Settled, Unsettled, Filled
  <2>16. CASE HandlePath(p)
    BY <2>16, OwnFiles DEF HandlePath, Goto, Entry, Write, TypeOK, Name, File, Holding, HoldsSuccess, HoldsFailure, Blocking, Settled, Unsettled, Filled
  <2>17. CASE HandlePending(p)
    BY <2>17, OwnFiles DEF HandlePending, Unlink, Goto, Entry, Write, TypeOK, Name, File, Holding, HoldsSuccess, HoldsFailure, Blocking, Settled, Unsettled, Filled
  <2>18. CASE HandleCreate(p)
    BY <2>18, OwnFiles DEF HandleCreate, Goto, Entry, Write, TypeOK, Name, File, Holding, HoldsSuccess, HoldsFailure, Blocking, Settled, Unsettled, Filled
  <2>19. CASE Rollback(p)
    BY <2>19, OwnFiles DEF Rollback, Goto, Entry, Write, TypeOK, Name, File, Holding, HoldsSuccess, HoldsFailure, Blocking, Settled, Unsettled, Filled
  <2>20. CASE RewriteFailure(p)
    BY <2>20, OwnFiles DEF RewriteFailure, Goto, Entry, Write, TypeOK, Name, File, Holding, HoldsSuccess, HoldsFailure, Blocking, Settled, Unsettled, Filled
  <2>21. CASE FillFailure(p)
    BY <2>21, OwnFiles DEF FillFailure, Goto, Entry, Write, TypeOK, Name, File, Holding, HoldsSuccess, HoldsFailure, Blocking, Settled, Unsettled, Filled
  <2>22. CASE CloseSuccess(p)
    BY <2>22, OwnFiles DEF CloseSuccess, Unlink, Goto, Entry, Write, TypeOK, Name, File, Holding, HoldsSuccess, HoldsFailure, Blocking, Settled, Unsettled, Filled
  <2>23. CASE LinkFailure(p)
    BY <2>23, OwnFiles DEF LinkFailure, Goto, Entry, Write, TypeOK, Name, File, Holding, HoldsSuccess, HoldsFailure, Blocking, Settled, Unsettled, Filled
  <2>24. CASE UnlinkFailure(p)
    BY <2>24, OwnFiles DEF UnlinkFailure, Goto, Entry, Write, TypeOK, Name, File, Holding, HoldsSuccess, HoldsFailure, Blocking, Settled, Unsettled, Filled
  <2>25. CASE CallFails(p)
    BY <2>25, OwnFiles DEF CallFails, Raised, Goto, Entry, Write, TypeOK, Name, File, Holding, HoldsSuccess, HoldsFailure, Blocking, Settled, Unsettled, Filled
  <2>26. CASE Interrupt(p)
    BY <2>26, OwnFiles DEF Interrupt, Goto, Entry, Write, TypeOK, Name, File, Holding, HoldsSuccess, HoldsFailure, Blocking, Settled, Unsettled, Filled
  <2>27. CASE Kill(p)
    BY <2>27, OwnFiles DEF Kill, Goto, Entry, Write, TypeOK, Name, File, Holding, HoldsSuccess, HoldsFailure, Blocking, Settled, Unsettled, Filled
  <2> QED
    BY <1>2, <2>1, <2>2, <2>3, <2>4, <2>5, <2>6, <2>7, <2>8, <2>9, <2>10, <2>11, <2>12, <2>13, <2>14, <2>15, <2>16, <2>17, <2>18, <2>19, <2>20, <2>21, <2>22, <2>23, <2>24, <2>25, <2>26, <2>27 DEF Reserve, Commit, Fail
<1> QED
  BY <1>1, <1>2 DEF Next

LEMMA TrueNext ==
    ASSUME Fault \subseteq {"kill"}, TypeOK, Holding, Blocking, Filled, SuccessIsTrue, [Next]_vars
    PROVE  SuccessIsTrue'
<1>1. CASE UNCHANGED vars
  BY <1>1 DEF vars, Holding, HoldsSuccess, HoldsFailure, Blocking, Settled, Unsettled, Filled, SuccessIsTrue
<1>2. ASSUME NEW p \in Attempt,
             Reserve(p) \/ Apply(p) \/ Commit(p) \/ Fail(p) \/ CallFails(p) \/ Interrupt(p) \/ Kill(p)
      PROVE  SuccessIsTrue'
  <2>1. CASE Begin(p)
    BY <2>1, OwnFiles DEF Begin, Goto, Entry, Write, TypeOK, Name, File, Holding, HoldsSuccess, HoldsFailure, Blocking, Settled, Unsettled, Filled, SuccessIsTrue
  <2>2. CASE CreateSuccess(p)
    BY <2>2, OwnFiles DEF CreateSuccess, Goto, Entry, Write, TypeOK, Name, File, Holding, HoldsSuccess, HoldsFailure, Blocking, Settled, Unsettled, Filled, SuccessIsTrue
  <2>3. CASE CreateFailure(p)
    BY <2>3, OwnFiles DEF CreateFailure, Goto, Entry, Write, TypeOK, Name, File, Holding, HoldsSuccess, HoldsFailure, Blocking, Settled, Unsettled, Filled, SuccessIsTrue
  <2>4. CASE UndoReservation(p)
    BY <2>4, OwnFiles DEF UndoReservation, Unlink, Goto, Entry, Write, TypeOK, Name, File, Holding, HoldsSuccess, HoldsFailure, Blocking, Settled, Unsettled, Filled, SuccessIsTrue
  <2>5. CASE Sync(p)
    BY <2>5, OwnFiles DEF Sync, Goto, Entry, Write, TypeOK, Name, File, Holding, HoldsSuccess, HoldsFailure, Blocking, Settled, Unsettled, Filled, SuccessIsTrue
  <2>6. CASE Recheck(p)
    BY <2>6, OwnFiles DEF Recheck, Goto, Entry, Write, TypeOK, Name, File, Holding, HoldsSuccess, HoldsFailure, Blocking, Settled, Unsettled, Filled, SuccessIsTrue
  <2>7. CASE Cancel(p)
    BY <2>7, OwnFiles DEF Cancel, Unlink, Goto, Entry, Write, TypeOK, Name, File, Holding, HoldsSuccess, HoldsFailure, Blocking, Settled, Unsettled, Filled, SuccessIsTrue
  <2>8. CASE Apply(p)
    BY <2>8, OwnFiles DEF Apply, Goto, Entry, Write, TypeOK, Name, File, Holding, HoldsSuccess, HoldsFailure, Blocking, Settled, Unsettled, Filled, SuccessIsTrue
  <2>9. CASE RewriteSuccess(p)
    BY <2>9, OwnFiles DEF RewriteSuccess, Goto, Entry, Write, TypeOK, Name, File, Holding, HoldsSuccess, HoldsFailure, Blocking, Settled, Unsettled, Filled, SuccessIsTrue
  <2>10. CASE FillSuccess(p)
    BY <2>10, OwnFiles DEF FillSuccess, Goto, Entry, Write, TypeOK, Name, File, Holding, HoldsSuccess, HoldsFailure, Blocking, Settled, Unsettled, Filled, SuccessIsTrue
  <2>11. CASE DropFailure(p)
    BY <2>11, OwnFiles DEF DropFailure, Goto, Entry, Write, TypeOK, Name, File, Holding, HoldsSuccess, HoldsFailure, Blocking, Settled, Unsettled, Filled, SuccessIsTrue
  <2>12. CASE LinkSuccess(p)
    BY <2>12, OwnFiles DEF LinkSuccess, Goto, Entry, Write, TypeOK, Name, File, Holding, HoldsSuccess, HoldsFailure, Blocking, Settled, Unsettled, Filled, SuccessIsTrue
  <2>13. CASE DropSuccess(p)
    BY <2>13, OwnFiles DEF DropSuccess, Goto, Entry, Write, TypeOK, Name, File, Holding, HoldsSuccess, HoldsFailure, Blocking, Settled, Unsettled, Filled, SuccessIsTrue
  <2>14. CASE SyncSuccess(p)
    BY <2>14, OwnFiles DEF SyncSuccess, Goto, Entry, Write, TypeOK, Name, File, Holding, HoldsSuccess, HoldsFailure, Blocking, Settled, Unsettled, Filled, SuccessIsTrue
  <2>15. CASE Finish(p)
    BY <2>15, OwnFiles DEF Finish, Goto, Entry, Write, TypeOK, Name, File, Holding, HoldsSuccess, HoldsFailure, Blocking, Settled, Unsettled, Filled, SuccessIsTrue
  <2>16. CASE HandlePath(p)
    BY <2>16, OwnFiles DEF HandlePath, Goto, Entry, Write, TypeOK, Name, File, Holding, HoldsSuccess, HoldsFailure, Blocking, Settled, Unsettled, Filled, SuccessIsTrue
  <2>17. CASE HandlePending(p)
    BY <2>17, OwnFiles DEF HandlePending, Unlink, Goto, Entry, Write, TypeOK, Name, File, Holding, HoldsSuccess, HoldsFailure, Blocking, Settled, Unsettled, Filled, SuccessIsTrue
  <2>18. CASE HandleCreate(p)
    BY <2>18, OwnFiles DEF HandleCreate, Goto, Entry, Write, TypeOK, Name, File, Holding, HoldsSuccess, HoldsFailure, Blocking, Settled, Unsettled, Filled, SuccessIsTrue
  <2>19. CASE Rollback(p)
    BY <2>19, OwnFiles DEF Rollback, Goto, Entry, Write, TypeOK, Name, File, Holding, HoldsSuccess, HoldsFailure, Blocking, Settled, Unsettled, Filled, SuccessIsTrue
  <2>20. CASE RewriteFailure(p)
    BY <2>20, OwnFiles DEF RewriteFailure, Goto, Entry, Write, TypeOK, Name, File, Holding, HoldsSuccess, HoldsFailure, Blocking, Settled, Unsettled, Filled, SuccessIsTrue
  <2>21. CASE FillFailure(p)
    BY <2>21, OwnFiles DEF FillFailure, Goto, Entry, Write, TypeOK, Name, File, Holding, HoldsSuccess, HoldsFailure, Blocking, Settled, Unsettled, Filled, SuccessIsTrue
  <2>22. CASE CloseSuccess(p)
    BY <2>22, OwnFiles DEF CloseSuccess, Unlink, Goto, Entry, Write, TypeOK, Name, File, Holding, HoldsSuccess, HoldsFailure, Blocking, Settled, Unsettled, Filled, SuccessIsTrue
  <2>23. CASE LinkFailure(p)
    BY <2>23, OwnFiles DEF LinkFailure, Goto, Entry, Write, TypeOK, Name, File, Holding, HoldsSuccess, HoldsFailure, Blocking, Settled, Unsettled, Filled, SuccessIsTrue
  <2>24. CASE UnlinkFailure(p)
    BY <2>24, OwnFiles DEF UnlinkFailure, Goto, Entry, Write, TypeOK, Name, File, Holding, HoldsSuccess, HoldsFailure, Blocking, Settled, Unsettled, Filled, SuccessIsTrue
  <2>25. CASE CallFails(p)
    BY <2>25, OwnFiles DEF CallFails, Raised, Goto, Entry, Write, TypeOK, Name, File, Holding, HoldsSuccess, HoldsFailure, Blocking, Settled, Unsettled, Filled, SuccessIsTrue
  <2>26. CASE Interrupt(p)
    BY <2>26, OwnFiles DEF Interrupt, Goto, Entry, Write, TypeOK, Name, File, Holding, HoldsSuccess, HoldsFailure, Blocking, Settled, Unsettled, Filled, SuccessIsTrue
  <2>27. CASE Kill(p)
    BY <2>27, OwnFiles DEF Kill, Goto, Entry, Write, TypeOK, Name, File, Holding, HoldsSuccess, HoldsFailure, Blocking, Settled, Unsettled, Filled, SuccessIsTrue
  <2> QED
    BY <1>2, <2>1, <2>2, <2>3, <2>4, <2>5, <2>6, <2>7, <2>8, <2>9, <2>10, <2>11, <2>12, <2>13, <2>14, <2>15, <2>16, <2>17, <2>18, <2>19, <2>20, <2>21, <2>22, <2>23, <2>24, <2>25, <2>26, <2>27 DEF Reserve, Commit, Fail
<1> QED
  BY <1>1, <1>2 DEF Next

LEMMA RefineInit == Init => Release!Init
  BY DEF Init, Release!Init, Changers, Outcome, Name

\* The first change is a claim, the link of a receipt settles the outcome and
\* every other step is a stutter.
LEMMA RefineNext ==
    ASSUME Fault \subseteq {"kill"}, TypeOK, Holding, Blocking, [Next]_vars
    PROVE  [Release!Next]_<<Changers, Outcome>>
<1>1. CASE UNCHANGED vars
  BY <1>1 DEF vars, Changers, Outcome
<1>2. ASSUME NEW p \in Attempt,
             Reserve(p) \/ Apply(p) \/ Commit(p) \/ Fail(p) \/ CallFails(p) \/ Interrupt(p) \/ Kill(p)
      PROVE  [Release!Next]_<<Changers, Outcome>>
  <2>1. CASE Begin(p)
    BY <2>1, OwnFiles DEF Begin, Entry, TypeOK, Name, Holding, Changers, Outcome
  <2>2. CASE CreateSuccess(p)
    BY <2>2, OwnFiles DEF CreateSuccess, Entry, TypeOK, Name, Holding, Changers, Outcome
  <2>3. CASE CreateFailure(p)
    BY <2>3, OwnFiles DEF CreateFailure, Entry, TypeOK, Name, Holding, Changers, Outcome
  <2>4. CASE UndoReservation(p)
    BY <2>4, OwnFiles DEF UndoReservation, Unlink, Entry, TypeOK, Name, Holding, Changers, Outcome
  <2>5. CASE Sync(p)
    BY <2>5, OwnFiles DEF Sync, Entry, TypeOK, Name, Holding, Changers, Outcome
  <2>6. CASE Recheck(p)
    BY <2>6, OwnFiles DEF Recheck, Entry, TypeOK, Name, Holding, Changers, Outcome
  <2>7. CASE Cancel(p)
    BY <2>7, OwnFiles DEF Cancel, Unlink, Entry, TypeOK, Name, Holding, Changers, Outcome
  <2>8. CASE Apply(p)
    <3>1. /\ effect'[p] # "none"
          /\ \A q \in Attempt : q # p => effect'[q] = effect[q]
          /\ UNCHANGED dir
      BY <2>8 DEF Apply, TypeOK
    <3>2. ~Settled /\ \A q \in Attempt : effect[q] = "none"
      BY <2>8, OwnFiles DEF Apply, Holding, HoldsSuccess, HoldsFailure, Blocking, Unsettled, Traced
    <3>3. Release!Claim(p)
      BY <3>1, <3>2 DEF Release!Claim, Changers, Outcome, Settled
    <3> QED
      BY <3>3 DEF Release!Next
  <2>9. CASE RewriteSuccess(p)
    BY <2>9, OwnFiles DEF RewriteSuccess, Entry, TypeOK, Name, Holding, Changers, Outcome
  <2>10. CASE FillSuccess(p)
    BY <2>10, OwnFiles DEF FillSuccess, Entry, TypeOK, Name, Holding, Changers, Outcome
  <2>11. CASE DropFailure(p)
    BY <2>11, OwnFiles DEF DropFailure, Entry, TypeOK, Name, Holding, Changers, Outcome
  <2>12. CASE LinkSuccess(p)
    BY <2>12, LinkSuccessLemma, OwnFiles DEF LinkSuccess, Release!Next, Release!Settle, Changers, Outcome, Blocking, Unsettled, TypeOK, Name
  <2>13. CASE DropSuccess(p)
    BY <2>13, OwnFiles DEF DropSuccess, Entry, TypeOK, Name, Holding, Changers, Outcome
  <2>14. CASE SyncSuccess(p)
    BY <2>14, OwnFiles DEF SyncSuccess, Entry, TypeOK, Name, Holding, Changers, Outcome
  <2>15. CASE Finish(p)
    BY <2>15, OwnFiles DEF Finish, Entry, TypeOK, Name, Holding, Changers, Outcome
  <2>16. CASE HandlePath(p)
    BY <2>16, OwnFiles DEF HandlePath, Entry, TypeOK, Name, Holding, Changers, Outcome
  <2>17. CASE HandlePending(p)
    BY <2>17, OwnFiles DEF HandlePending, Unlink, Entry, TypeOK, Name, Holding, Changers, Outcome
  <2>18. CASE HandleCreate(p)
    BY <2>18, OwnFiles DEF HandleCreate, Entry, TypeOK, Name, Holding, Changers, Outcome
  <2>19. CASE Rollback(p)
    <3>1. effect[p] # "none" /\ UNCHANGED dir
      BY <2>19 DEF Rollback, Blocking, Unsettled
    <3>2. \A q \in Attempt : effect'[q] # "none" <=> effect[q] # "none"
      BY <2>19, <3>1 DEF Rollback, TypeOK
    <3> QED
      BY <3>1, <3>2 DEF Changers, Outcome
  <2>20. CASE RewriteFailure(p)
    BY <2>20, OwnFiles DEF RewriteFailure, Entry, TypeOK, Name, Holding, Changers, Outcome
  <2>21. CASE FillFailure(p)
    BY <2>21, OwnFiles DEF FillFailure, Entry, TypeOK, Name, Holding, Changers, Outcome
  <2>22. CASE CloseSuccess(p)
    BY <2>22, OwnFiles DEF CloseSuccess, Unlink, Entry, TypeOK, Name, Holding, Changers, Outcome
  <2>23. CASE LinkFailure(p)
    BY <2>23, LinkFailureLemma, OwnFiles DEF LinkFailure, Release!Next, Release!Settle, Changers, Outcome, Blocking, Unsettled, TypeOK, Name
  <2>24. CASE UnlinkFailure(p)
    BY <2>24, OwnFiles DEF UnlinkFailure, Entry, TypeOK, Name, Holding, Changers, Outcome
  <2>25. CASE CallFails(p)
    BY <2>25, OwnFiles DEF CallFails, Raised, Entry, TypeOK, Name, Holding, Changers, Outcome
  <2>26. CASE Interrupt(p)
    BY <2>26, OwnFiles DEF Interrupt, Entry, TypeOK, Name, Holding, Changers, Outcome
  <2>27. CASE Kill(p)
    BY <2>27, OwnFiles DEF Kill, Entry, TypeOK, Name, Holding, Changers, Outcome
  <2> QED
    BY <1>2, <2>1, <2>2, <2>3, <2>4, <2>5, <2>6, <2>7, <2>8, <2>9, <2>10, <2>11, <2>12, <2>13, <2>14, <2>15, <2>16, <2>17, <2>18, <2>19, <2>20, <2>21, <2>22, <2>23, <2>24, <2>25, <2>26, <2>27 DEF Reserve, Commit, Fail
<1> QED
  BY <1>1, <1>2 DEF Next

LEMMA InitInv == Init => Holding /\ Blocking /\ Filled /\ SuccessIsTrue
  BY OwnFiles DEF Init, Holding, HoldsSuccess, HoldsFailure, Blocking, Unsettled, Settled, Traced, Filled,
     SuccessIsTrue, Name, File

LEMMA InvAlways ==
    ASSUME Fault \subseteq {"kill"}
    PROVE  Spec => [](TypeOK /\ Holding /\ Blocking /\ Filled /\ SuccessIsTrue)
<1>1. TypeOK /\ Holding /\ Blocking /\ Filled /\ SuccessIsTrue /\ [Next]_vars
        => (Holding /\ Blocking /\ Filled /\ SuccessIsTrue)'
  BY HoldingNext, BlockingNext, FilledNext, TrueNext
<1> QED
  BY <1>1, InitInv, TypeCorrect, PTL DEF Spec

\* While an attempt changes the services both outcomes are reserved for it, for
\* any number of attempts over one receipt path, killed at any step.
THEOREM ReservationsHold ==
    ASSUME Fault \subseteq {"kill"}
    PROVE  Spec => []OutcomesReserved
<1>1. Holding => OutcomesReserved
  BY DEF Holding, HoldsSuccess, HoldsFailure, OutcomesReserved
<1> QED
  BY <1>1, InvAlways, PTL

\* Under the same assumption a success receipt is complete, and the changes of
\* its attempt are in place.
THEOREM SuccessReceiptsAreTrue ==
    ASSUME Fault \subseteq {"kill"}
    PROVE  Spec => []SuccessIsTrue
  BY InvAlways, PTL

\* Under the same assumption the receipts implement ReleaseOutcome: one attempt
\* changes the services, and its outcome is final.
THEOREM ReceiptsImplementOutcome ==
    ASSUME Fault \subseteq {"kill"}
    PROVE  Spec => Implements
<1>1. TypeOK /\ Holding /\ Blocking /\ [Next]_vars => [Release!Next]_<<Changers, Outcome>>
  BY RefineNext
<1> QED
  BY <1>1, RefineInit, InvAlways, PTL DEF Spec, Implements, Release!Spec

(* Attempts that do not overlap, whatever fails.                            *)

\* An attempt at rest has nothing to answer for, so that a step owes only what
\* concerns its own attempt and the receipts.
LEMMA HonestFrame ==
    ASSUME HonestInv, NEW p \in Attempt, \A q \in Attempt : q # p => pc[q] \in AtRest,
           \A q \in Attempt : q # p => /\ pc'[q] = pc[q] /\ held'[q] = held[q]
                                      /\ verdict'[q] = verdict[q] /\ effect'[q] = effect[q],
           Honest(p)', FailureIsTrue', OneOutcome'
    PROVE  HonestInv'
<1>1. Alone'
  BY DEF Alone
<1>2. ASSUME NEW q \in Attempt, q # p PROVE Honest(q)'
  BY <1>2 DEF HonestInv, Honest, AtRest, Closed
<1> QED
  BY <1>1, <1>2 DEF HonestInv

LEMMA HonestStep ==
    ASSUME ~MayOverlap
    PROVE  TypeOK /\ Decided /\ HonestInv /\ [Next]_vars => HonestInv'
<1> SUFFICES ASSUME TypeOK, Decided, HonestInv, [Next]_vars PROVE HonestInv'
  OBVIOUS
<1>1. CASE UNCHANGED vars
  BY <1>1 DEF vars, HonestInv, Alone, Honest, FailureIsTrue, OneOutcome
<1>2. ASSUME NEW p \in Attempt, Begin(p) PROVE HonestInv'
  <2>1. \A q \in Attempt : q # p => pc[q] \in AtRest
    BY <1>2 DEF Begin, AtRest
  <2>2. /\ pc[p] = "idle" /\ dir' = dir /\ data' = data /\ held' = held
        /\ verdict' = verdict /\ effect' = effect
        /\ (pc' = [pc EXCEPT ![p] = "create_s"] /\ ~Settled) \/ pc' = [pc EXCEPT ![p] = "over"]
    BY <1>2 DEF Begin, Goto
  <2>3. FailureIsTrue' /\ OneOutcome'
    BY <2>2 DEF HonestInv, FailureIsTrue, OneOutcome
  <2>4. Honest(p)'
    BY <2>2, SMTT(30) DEF TypeOK, HonestInv, Honest, AtRest, Closed, Settled
  <2> QED
    BY <2>1, <2>2, <2>3, <2>4, HonestFrame DEF TypeOK
<1>3. ASSUME NEW p \in Attempt, pc[p] \notin AtRest,
             Reserve(p) \/ Apply(p) \/ Commit(p) \/ Fail(p) \/ CallFails(p) \/ Interrupt(p) \/ Kill(p)
      PROVE  HonestInv'
  <2> DEFINE Mine == Honest(p)' /\ FailureIsTrue' /\ OneOutcome'
             Rest == \A q \in Attempt : q # p => /\ pc'[q] = pc[q] /\ held'[q] = held[q]
                                      /\ verdict'[q] = verdict[q] /\ effect'[q] = effect[q]
  <2>1. \A q \in Attempt : q # p => pc[q] \in AtRest
    BY <1>3 DEF HonestInv, Alone
  <2>2. Honest(p) /\ FailureIsTrue /\ OneOutcome /\ (pc[p] \in FailurePc \ {"sync_f"} => verdict[p] # "none")
    BY DEF HonestInv, Decided
  <2>3. SUFFICES Mine /\ Rest
    BY <2>1, HonestFrame
  <2> USE <1>3, <2>2 DEF Goto, Entry, Write, TypeOK, Honest, FailureIsTrue, OneOutcome, AtRest, Closed,
          File, Name, Success
  <2>4. CASE CreateSuccess(p)
    BY <2>4, NoneAssumption DEF CreateSuccess
  <2>5. CASE CreateFailure(p)
    BY <2>5, NoneAssumption DEF CreateFailure
  <2>6. CASE UndoReservation(p)
    BY <2>6, NoneAssumption DEF UndoReservation, Unlink
  <2>7. CASE Sync(p)
    BY <2>7, NoneAssumption DEF Sync
  <2>8. CASE Recheck(p)
    BY <2>8, NoneAssumption DEF Recheck, Settled
  <2>9. CASE Cancel(p)
    BY <2>9, NoneAssumption DEF Cancel, Unlink
  <2>10. CASE Apply(p)
    BY <2>10, NoneAssumption DEF Apply
  <2>11. CASE RewriteSuccess(p)
    BY <2>11, NoneAssumption DEF RewriteSuccess
  <2>12. CASE FillSuccess(p)
    BY <2>12, NoneAssumption DEF FillSuccess
  <2>13. CASE DropFailure(p)
    BY <2>13, NoneAssumption DEF DropFailure
  <2>14. CASE LinkSuccess(p)
    BY <2>14, NoneAssumption DEF LinkSuccess
  <2>15. CASE DropSuccess(p)
    BY <2>15, NoneAssumption DEF DropSuccess
  <2>16. CASE SyncSuccess(p)
    BY <2>16, NoneAssumption DEF SyncSuccess
  <2>17. CASE Finish(p)
    BY <2>17, NoneAssumption DEF Finish
  <2>18. CASE HandlePath(p)
    BY <2>18, NoneAssumption DEF HandlePath
  <2>19. CASE HandlePending(p)
    BY <2>19, NoneAssumption DEF HandlePending, Unlink
  <2>20. CASE HandleCreate(p)
    BY <2>20, NoneAssumption DEF HandleCreate
  <2>21. CASE Rollback(p)
    BY <2>21, NoneAssumption DEF Rollback
  <2>22. CASE RewriteFailure(p)
    BY <2>22, NoneAssumption DEF RewriteFailure
  <2>23. CASE FillFailure(p)
    BY <2>23, NoneAssumption DEF FillFailure
  <2>24. CASE CloseSuccess(p)
    BY <2>24, NoneAssumption DEF CloseSuccess, Unlink
  <2>25. CASE LinkFailure(p)
    BY <2>25, NoneAssumption DEF LinkFailure
  <2>26. CASE UnlinkFailure(p)
    BY <2>26, NoneAssumption DEF UnlinkFailure
  <2>27. CASE CallFails(p)
    BY <2>27, NoneAssumption DEF CallFails, Raised
  <2>28. CASE Interrupt(p)
    BY <2>28, NoneAssumption DEF Interrupt
  <2>29. CASE Kill(p)
    BY <2>29, NoneAssumption DEF Kill
  <2>30. ~Begin(p)
    BY DEF Begin
  <2> QED
    BY <2>4, <2>5, <2>6, <2>7, <2>8, <2>9, <2>10, <2>11, <2>12, <2>13, <2>14, <2>15, <2>16, <2>17, <2>18, <2>19, <2>20, <2>21, <2>22, <2>23, <2>24, <2>25, <2>26, <2>27, <2>28, <2>29, <2>30 DEF Reserve, Commit, Fail
<1> QED
  <2>1. ASSUME NEW p \in Attempt, pc[p] \in AtRest, ~Begin(p)
        PROVE  ~(Reserve(p) \/ Apply(p) \/ Commit(p) \/ Fail(p) \/ CallFails(p) \/ Interrupt(p) \/ Kill(p))
    BY <2>1 DEF AtRest, Reserve, Commit, Fail, CreateSuccess, CreateFailure, UndoReservation, Sync, Recheck, Cancel, Apply, RewriteSuccess, FillSuccess, DropFailure, LinkSuccess, DropSuccess, SyncSuccess, Finish, HandlePath, HandlePending, HandleCreate, Rollback, RewriteFailure, FillFailure, CloseSuccess, LinkFailure, UnlinkFailure, CallFails, Interrupt, Kill, Unlink
  <2> QED
    BY <1>1, <1>2, <1>3, <2>1 DEF Next

LEMMA HonestAlways ==
    ASSUME ~MayOverlap
    PROVE  Spec => []HonestInv
<1>1. Init => HonestInv
  BY DEF Init, HonestInv, Alone, Honest, FailureIsTrue, OneOutcome, AtRest, Closed, Name
<1> QED
  BY <1>1, HonestStep, TypeInit, TypeNext, PTL DEF Spec

\* Where attempts do not overlap, a failure receipt is complete and says
\* rolled-back only of changes undone, whatever calls of the commit and of its
\* handler fail and wherever it is interrupted or killed.
THEOREM FailureReceiptsAreTrue ==
    ASSUME ~MayOverlap
    PROVE  Spec => []FailureIsTrue
<1>1. HonestInv => FailureIsTrue
  BY DEF HonestInv
<1> QED
  BY <1>1, HonestAlways, PTL

\* There, a release never has a success and a failure receipt.
THEOREM ReleasesHaveOneOutcome ==
    ASSUME ~MayOverlap
    PROVE  Spec => []OneOutcome
<1>1. HonestInv => OneOutcome
  BY DEF HonestInv
<1> QED
  BY <1>1, HonestAlways, PTL
==============================================================================
