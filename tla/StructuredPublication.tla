----------------------- MODULE StructuredPublication -----------------------
(* The publication of one source to a fixed list of Fabric targets,        *)
(* serving/structured_publication.py (run_l5a).                            *)
(*                                                                         *)
(* A run inspects all targets, publishes to them one after the other, reads *)
(* all of them back and only then stores its receipt.  A mutation carries  *)
(* the run's token and is applied only to the state the run has seen, or   *)
(* has made.  If anything fails the run undoes what it did, in the reverse *)
(* order, a publication whose fate it does not know included, and says     *)
(* whether it could.  A run whose source has a receipt reads the targets   *)
(* back and does nothing if they are as the receipt says.                  *)
(*                                                                         *)
(* No lock keeps two runs apart: those of one source share a directory, and *)
(* all share the targets.                                                  *)
EXTENDS Naturals, FiniteSets

CONSTANTS
    Run,        \* the runs, each of which is started at most once
    Source,     \* what they publish
    SourceOf,   \* ... the source of each run
    N,          \* the number of targets; they are published in the order 1..N
    Old,        \* a state of a target that no run of the model has made
    Absent,     \* no state, no receipt, no target
    Found,      \* what the targets may hold at first
    MaxOverlap, \* bound on the runs under way at once
    MaxFaults   \* bound on failed calls, failed writes and kills

ASSUME PublicationAssumption ==
    /\ SourceOf \in [Run -> Source]
    /\ N \in Nat \ {0}
    /\ Found \subseteq [1..N -> {Old, Absent}]
    /\ MaxOverlap \in Nat /\ MaxFaults \in Nat
    /\ Old \notin Run /\ Absent \notin Run /\ Old # Absent
    /\ Absent \notin Nat

Target == 1..N
State == Run \cup {Old, Absent}     \* a target's state, known by its token

\* A run that reuses, inspects, publishes and reads back; one that then undoes
\* it all; one that undoes a publication of unknown fate with the others.
MaxSuccessCalls == 4 * N
MaxReadBackFailureCalls == MaxSuccessCalls + N
MaxAmbiguousFailureCalls == 3 * N + (N + 1)

\* Mutant: the calls of the undoing are left out of the budget.
MaxCallsForward == MaxSuccessCalls

MaxCalls == IF MaxReadBackFailureCalls > MaxAmbiguousFailureCalls
            THEN MaxReadBackFailureCalls ELSE MaxAmbiguousFailureCalls

VARIABLES
    tgt,        \* the state of each target
    flight,     \* requests given up by their run that may still be carried out
    runRoot,    \* for each source, the run whose receipt its directory holds
    replaced,   \* ... and the one whose directory was moved aside
    pc, at,     \* each run: its place, and the target it is at
    recorded,   \* ... the run of the receipt it reuses
    prior,      \* ... the states it saw when it inspected
    created, updated,   \* ... the targets it is known to have made, or changed
    unknown,    \* ... the target whose publication it does not know the fate of
    calls,      \* ... the remote calls it has begun
    errors,     \* ... did undoing fail somewhere?
    unaccounted, \* runs whose reuse failed in a call that left no accounting
    alone,      \* the runs that nobody has disturbed since they began
    delayed,    \* the runs and targets a request was carried out late for
    faults

remote == <<tgt, flight, delayed>>
disk == <<runRoot, replaced>>
run == <<pc, at, recorded, prior, created, updated, unknown, calls, errors>>
vars == <<remote, disk, run, unaccounted, alone, faults>>

Over == {"succeeded", "skipped", "failed", "partial", "dead"}
Undoing == {"restore", "recover", "rerestore", "cleanup"}
Active == {p \in Run : pc[p] \notin {"new"} \cup Over}

Request == [run : Run, target : Target, verb : {"publish", "restore", "cleanup"}]

Init ==
    /\ tgt \in Found
    /\ flight = {}
    /\ runRoot = [s \in Source |-> Absent]
    /\ replaced = [s \in Source |-> Absent]
    /\ pc = [p \in Run |-> "new"] /\ at = [p \in Run |-> 1]
    /\ recorded = [p \in Run |-> Absent]
    /\ prior = [p \in Run |-> [k \in Target |-> Absent]]
    /\ created = [p \in Run |-> {}] /\ updated = [p \in Run |-> {}]
    /\ unknown = [p \in Run |-> Absent]
    /\ calls = [p \in Run |-> 0]
    /\ errors = [p \in Run |-> FALSE]
    /\ unaccounted = {} /\ alone = {} /\ delayed = {}
    /\ faults = 0

-----------------------------------------------------------------------------
(* Helpers.                                                                *)

Fault == faults < MaxFaults /\ faults' = faults + 1
Goto(p, place) == pc' = [pc EXCEPT ![p] = place]
Move(p, k) == at' = [at EXCEPT ![p] = k]

\* The run is over, and what it had in memory is gone.
End(p, how) ==
    /\ pc' = [pc EXCEPT ![p] = how] /\ at' = [at EXCEPT ![p] = 1]
    /\ recorded' = [recorded EXCEPT ![p] = Absent]
    /\ created' = [created EXCEPT ![p] = {}]
    /\ updated' = [updated EXCEPT ![p] = {}]
    /\ unknown' = [unknown EXCEPT ![p] = Absent]
    /\ calls' = [calls EXCEPT ![p] = 0]
    /\ errors' = [errors EXCEPT ![p] = FALSE]
    /\ unaccounted' = unaccounted \ {p}

\* The last target of a list, the one to undo first.
LastOf(S) == {k \in S : \A j \in S : j <= k}

\* A call is begun only within the budget.
Begun(p) == calls[p] < MaxCalls /\ calls' = [calls EXCEPT ![p] = @ + 1]
Refused(p) == calls[p] >= MaxCalls /\ UNCHANGED calls

\* Mutant: the service is not told which state the request is for.
AppliesBlindly(q) ==
    q.verb = "publish" \/ tgt[q.target] \in {q.run, Absent}

\* What a request does to its target: the state after it, if it is applied.
Applies(q) ==
    LET now == tgt[q.target] IN
    CASE q.verb = "publish" -> now = prior[q.run][q.target]
      [] q.verb = "restore" -> now = q.run
      [] q.verb = "cleanup" -> now \in {q.run, Absent}

After(q) == CASE q.verb = "publish" -> q.run
              [] q.verb = "restore" -> prior[q.run][q.target]
              [] q.verb = "cleanup" -> Absent
Apply(q) == tgt' = [tgt EXCEPT ![q.target] = After(q)]

Asks(p, k, verb) == [run |-> p, target |-> k, verb |-> verb]

\* The mutation is applied and the reply says so.
Applied(q) == Applies(q) /\ Apply(q) /\ UNCHANGED <<flight, delayed, faults>>

\* It is refused, or fails, or its reply is lost; it may even be carried out
\* later, when nobody waits for it.
NotKnown(q) ==
    /\ UNCHANGED delayed
    /\ \/ ~Applies(q) /\ UNCHANGED <<tgt, flight, faults>>
       \/ Fault /\ UNCHANGED <<tgt, flight>>
       \/ Fault /\ Applies(q) /\ Apply(q) /\ UNCHANGED flight
       \/ Fault /\ flight' = flight \cup {q} /\ UNCHANGED tgt

-----------------------------------------------------------------------------
(* A run.  Each remote call is one step.                                   *)

Begin(p) ==
    /\ pc[p] = "new" /\ Cardinality(Active) < MaxOverlap
    /\ LET r == runRoot[SourceOf[p]] IN
       /\ recorded' = [recorded EXCEPT ![p] = r]
       /\ Goto(p, IF r # Absent THEN "reuse" ELSE "inspect")
    /\ alone' = IF Active = {} THEN {p} ELSE {}
    /\ UNCHANGED <<remote, disk, at, prior, created, updated, unknown, calls,
                   errors, unaccounted, faults>>

\* Mutant: the targets are read back but not compared with the receipt.
ReuseUncompared(p) ==
    /\ pc[p] = "reuse"
    /\ \/ /\ at[p] = N
          /\ End(p, "skipped") /\ UNCHANGED faults
       \/ /\ at[p] < N
          /\ Begun(p) /\ Move(p, at[p] + 1)
          /\ UNCHANGED <<pc, recorded, created, updated, unknown, errors, unaccounted, faults>>
       \/ /\ Begun(p) /\ Fault
          /\ unaccounted' = unaccounted \cup {p}
          /\ Goto(p, "inspect") /\ Move(p, 1)
          /\ UNCHANGED <<recorded, created, updated, unknown, errors>>
    /\ UNCHANGED <<remote, disk, prior, alone>>

\* Read back the targets of a receipt: any doubt, and the run publishes.
Reuse(p) ==
    /\ pc[p] = "reuse"
    /\ \/ /\ at[p] = N /\ tgt[at[p]] = recorded[p]
          /\ End(p, "skipped") /\ UNCHANGED faults
       \/ /\ at[p] < N /\ tgt[at[p]] = recorded[p]
          /\ Begun(p) /\ Move(p, at[p] + 1)
          /\ UNCHANGED <<pc, recorded, created, updated, unknown, errors, unaccounted, faults>>
       \/ /\ \/ /\ Begun(p) /\ tgt[at[p]] # recorded[p]
                /\ UNCHANGED <<unaccounted, faults>>
             \/ Begun(p) /\ Fault /\ unaccounted' = unaccounted \cup {p}
             \/ Refused(p) /\ UNCHANGED <<unaccounted, faults>>
          /\ Goto(p, "inspect") /\ Move(p, 1)
          /\ UNCHANGED <<recorded, created, updated, unknown, errors>>
    /\ UNCHANGED <<remote, disk, prior, alone>>

Inspect(p) ==
    /\ pc[p] = "inspect"
    /\ \/ /\ Begun(p)
          /\ prior' = [prior EXCEPT ![p][at[p]] = tgt[at[p]]]
          /\ IF at[p] = N THEN Goto(p, "publish") /\ Move(p, 1)
                          ELSE UNCHANGED pc /\ Move(p, at[p] + 1)
          /\ UNCHANGED faults
       \/ /\ Begun(p) /\ Fault
          /\ Goto(p, "restore")
          /\ UNCHANGED <<prior, at>>
       \/ /\ Refused(p)
          /\ Goto(p, "restore")
          /\ UNCHANGED <<prior, at, faults>>
    /\ UNCHANGED <<remote, disk, recorded, created, updated, unknown, errors,
                   unaccounted, alone>>

Publish(p) ==
    /\ pc[p] = "publish"
    /\ LET k == at[p] IN
       \/ /\ Begun(p) /\ Applied(Asks(p, k, "publish"))
          /\ IF prior[p][k] = Absent
             THEN created' = [created EXCEPT ![p] = @ \cup {k}] /\ UNCHANGED updated
             ELSE updated' = [updated EXCEPT ![p] = @ \cup {k}] /\ UNCHANGED created
          /\ IF k = N THEN Goto(p, "readback") /\ Move(p, 1)
                      ELSE UNCHANGED pc /\ Move(p, k + 1)
          /\ UNCHANGED unknown
       \/ /\ \/ Begun(p) /\ NotKnown(Asks(p, k, "publish"))
             \/ Refused(p) /\ UNCHANGED <<remote, faults>>
          /\ unknown' = [unknown EXCEPT ![p] = k]
          /\ Goto(p, "restore")
          /\ UNCHANGED <<at, created, updated>>
    /\ UNCHANGED <<disk, recorded, prior, errors, unaccounted, alone>>

ReadBack(p) ==
    /\ pc[p] = "readback"
    /\ \/ /\ Begun(p) /\ tgt[at[p]] = p
          /\ IF at[p] = N THEN Goto(p, "seal") /\ Move(p, 1)
                          ELSE UNCHANGED pc /\ Move(p, at[p] + 1)
          /\ UNCHANGED faults
       \/ /\ Begun(p) /\ ((tgt[at[p]] # p /\ UNCHANGED faults) \/ Fault)
          /\ Goto(p, "restore") /\ UNCHANGED at
       \/ /\ Refused(p)
          /\ Goto(p, "restore") /\ UNCHANGED <<at, faults>>
    /\ UNCHANGED <<remote, disk, recorded, prior, created, updated, unknown,
                   errors, unaccounted, alone>>

-----------------------------------------------------------------------------
(* The receipt is written into a directory of the run, which then takes the *)
(* place of the source's directory; that one is moved aside first.          *)

Local(p) == UNCHANGED <<remote, at, recorded, prior, created, updated, unknown,
                        calls, errors, unaccounted, alone>>

Here(p) == SourceOf[p]

\* A call without accounting, though of the reuse, is not forgiven.
Seal(p) ==
    /\ pc[p] = "seal"
    /\ \/ /\ p \notin unaccounted
          /\ replaced' \in {replaced, [replaced EXCEPT ![Here(p)] = Absent]}
          /\ \/ /\ replaced'[Here(p)] = Absent
                /\ Goto(p, "aside") /\ UNCHANGED faults
             \/ Goto(p, "restore") /\ Fault
       \/ /\ p \in unaccounted
          /\ Goto(p, "restore") /\ UNCHANGED <<replaced, faults>>
    /\ Local(p) /\ UNCHANGED runRoot

Aside(p) ==
    /\ pc[p] = "aside"
    /\ LET s == Here(p) IN
       \/ /\ runRoot[s] = Absent
          /\ Goto(p, "install") /\ UNCHANGED <<disk, faults>>
       \/ /\ runRoot[s] # Absent /\ replaced[s] = Absent
          /\ replaced' = [replaced EXCEPT ![s] = runRoot[s]]
          /\ runRoot' = [runRoot EXCEPT ![s] = Absent]
          /\ Goto(p, "install") /\ UNCHANGED faults
       \/ /\ \/ runRoot[s] # Absent /\ replaced[s] # Absent /\ UNCHANGED faults
             \/ Fault
          /\ Goto(p, "restore") /\ UNCHANGED disk
    /\ Local(p)

\* If the run's directory cannot take the place, the old one is put back.
Install(p) ==
    /\ pc[p] = "install"
    /\ LET s == Here(p) IN
       \/ /\ runRoot[s] = Absent
          /\ runRoot' = [runRoot EXCEPT ![s] = p]
          /\ Goto(p, "discard") /\ UNCHANGED <<replaced, faults>>
       \/ /\ (runRoot[s] # Absent /\ UNCHANGED faults) \/ Fault
          /\ IF runRoot[s] = Absent
             THEN /\ runRoot' = [runRoot EXCEPT ![s] = replaced[s]]
                  /\ replaced' = [replaced EXCEPT ![s] = Absent]
             ELSE UNCHANGED disk
          /\ Goto(p, "restore")
    /\ Local(p)

Discard(p) ==
    /\ pc[p] = "discard"
    /\ \/ /\ replaced' = [replaced EXCEPT ![Here(p)] = Absent]
          /\ End(p, "succeeded")
          /\ UNCHANGED <<remote, prior, alone, faults>>
       \/ /\ Fault /\ Goto(p, "restore")
          /\ Local(p) /\ UNCHANGED replaced
    /\ UNCHANGED runRoot

-----------------------------------------------------------------------------
(* The handler: undo the changes, find out about the unknown publication,   *)
(* undo the creations.  What fails is noted, and the handler goes on.      *)

\* One undoing call on target k: whatever happens, it is not repeated.
Undo(p, k, verb) ==
    \/ /\ Begun(p) /\ Applied(Asks(p, k, verb))
       /\ UNCHANGED errors
    \/ /\ \/ Begun(p) /\ NotKnown(Asks(p, k, verb))
          \/ Refused(p) /\ UNCHANGED <<remote, faults>>
       /\ errors' = [errors EXCEPT ![p] = TRUE]

Restore(p) ==
    /\ pc[p] = "restore"
    /\ IF updated[p] = {}
       THEN /\ Goto(p, IF unknown[p] = Absent THEN "cleanup" ELSE "recover")
            /\ UNCHANGED <<remote, updated, calls, errors, faults>>
       ELSE \E k \in LastOf(updated[p]) :
            /\ Undo(p, k, "restore")
            /\ updated' = [updated EXCEPT ![p] = @ \ {k}]
            /\ UNCHANGED pc
    /\ UNCHANGED <<disk, at, recorded, prior, created, unknown, unaccounted, alone>>

\* Mutant: a publication without an answer is taken for one without effect.
RecoverNothing(p) ==
    /\ pc[p] = "recover"
    /\ Goto(p, "cleanup")
    /\ unknown' = [unknown EXCEPT ![p] = Absent]
    /\ UNCHANGED <<created, calls, errors, faults>>
    /\ UNCHANGED <<remote, disk, at, recorded, prior, updated, unaccounted, alone>>

\* Mutant: a created target found to be its own is not put on the list.
RecoverForgets(p) ==
    /\ pc[p] = "recover"
    /\ LET k == unknown[p] IN
       \/ /\ Begun(p) /\ UNCHANGED <<errors, faults>>
          /\ UNCHANGED created
          /\ IF tgt[k] = p /\ prior[p][k] # Absent
             THEN Goto(p, "rerestore") /\ UNCHANGED unknown
             ELSE Goto(p, "cleanup") /\ unknown' = [unknown EXCEPT ![p] = Absent]
       \/ /\ Begun(p) /\ Fault
          /\ errors' = [errors EXCEPT ![p] = TRUE]
          /\ Goto(p, "cleanup") /\ unknown' = [unknown EXCEPT ![p] = Absent]
          /\ UNCHANGED created
    /\ UNCHANGED <<remote, disk, at, recorded, prior, updated, unaccounted, alone>>

\* The unknown publication took effect if its target has the run's token now.
Recover(p) ==
    /\ pc[p] = "recover"
    /\ LET k == unknown[p] IN
       \/ /\ Begun(p) /\ UNCHANGED <<errors, faults>>
          /\ IF tgt[k] = p /\ prior[p][k] # Absent
             THEN Goto(p, "rerestore") /\ UNCHANGED <<created, unknown>>
             ELSE /\ Goto(p, "cleanup")
                  /\ unknown' = [unknown EXCEPT ![p] = Absent]
                  /\ created' = IF tgt[k] = p
                                THEN [created EXCEPT ![p] = @ \cup {k}]
                                ELSE created
       \/ /\ \/ Begun(p) /\ Fault
             \/ Refused(p) /\ UNCHANGED faults
          /\ errors' = [errors EXCEPT ![p] = TRUE]
          /\ Goto(p, "cleanup") /\ unknown' = [unknown EXCEPT ![p] = Absent]
          /\ UNCHANGED created
    /\ UNCHANGED <<remote, disk, at, recorded, prior, updated, unaccounted, alone>>

Rerestore(p) ==
    /\ pc[p] = "rerestore"
    /\ Undo(p, unknown[p], "restore")
    /\ unknown' = [unknown EXCEPT ![p] = Absent]
    /\ Goto(p, "cleanup")
    /\ UNCHANGED <<disk, at, recorded, prior, created, updated, unaccounted, alone>>

Cleanup(p) ==
    /\ pc[p] = "cleanup"
    /\ IF created[p] = {}
       THEN /\ End(p, IF errors[p] THEN "partial" ELSE "failed")
            /\ UNCHANGED <<remote, faults>>
       ELSE \E k \in LastOf(created[p]) :
            /\ Undo(p, k, "cleanup")
            /\ created' = [created EXCEPT ![p] = @ \ {k}]
            /\ UNCHANGED <<pc, at, recorded, updated, unknown, unaccounted>>
    /\ UNCHANGED <<disk, prior, alone>>

-----------------------------------------------------------------------------
(* The rest of the world.                                                  *)

\* A kill; Ctrl-C, which the handler does not catch; or an OSError outside its
\* reach: no temporary directory, or a failed write of the failure's report,
\* which takes what it knew of errors with it.
Kill(p) ==
    /\ p \in Active /\ Fault
    /\ End(p, "dead")
    /\ UNCHANGED <<remote, disk, prior, alone>>

\* A request nobody waits for is carried out after all, or never.
Land(q) ==
    /\ q \in flight
    /\ flight' = flight \ {q}
    /\ \/ /\ Applies(q) /\ Apply(q)
          /\ delayed' = delayed \cup {<<q.run, q.target>>}
          /\ alone' = {}
       \/ UNCHANGED <<tgt, delayed, alone>>
    /\ UNCHANGED <<disk, run, unaccounted, faults>>

Step(p) ==
    \/ Begin(p) \/ Reuse(p) \/ Inspect(p) \/ Publish(p) \/ ReadBack(p)
    \/ Seal(p) \/ Aside(p) \/ Install(p) \/ Discard(p)
    \/ Restore(p) \/ Recover(p) \/ Rerestore(p) \/ Cleanup(p)

Next == \/ \E p \in Run : Step(p) \/ Kill(p)
        \/ \E q \in flight : Land(q)

Spec == Init /\ [][Next]_vars

-----------------------------------------------------------------------------
(* Properties.                                                             *)

Place == {"new", "reuse", "inspect", "publish", "readback", "seal", "aside",
          "install", "discard"} \cup Undoing \cup Over

TypeOK ==
    /\ tgt \in [Target -> State]
    /\ flight \subseteq Request
    /\ delayed \subseteq Run \X Target
    /\ runRoot \in [Source -> Run \cup {Absent}]
    /\ replaced \in [Source -> Run \cup {Absent}]
    /\ pc \in [Run -> Place]
    /\ at \in [Run -> Target]
    /\ recorded \in [Run -> Run \cup {Absent}]
    /\ prior \in [Run -> [Target -> State]]
    /\ created \in [Run -> SUBSET Target]
    /\ updated \in [Run -> SUBSET Target]
    /\ unknown \in [Run -> Target \cup {Absent}]
    /\ calls \in [Run -> 0..MaxCalls]
    /\ errors \in [Run -> BOOLEAN]
    /\ unaccounted \subseteq Run
    /\ alone \subseteq Run
    /\ faults \in 0..MaxFaults

\* The budget of calls never keeps a run from undoing what it did: the calls
\* of its worst case are set aside for it.
RollbackAffordable ==
    \A p \in Run : pc[p] \in Undoing =>
        calls[p] + Cardinality(updated[p]) + Cardinality(created[p])
            + (IF unknown[p] = Absent THEN 0
               ELSE IF pc[p] = "rerestore" THEN 1 ELSE 2) <= MaxCalls

\* A run that failed and reports no error of its undoing has left nothing of
\* its own: what a target has of it was carried out late, or given back by a
\* run that had taken the target over.
CleanFailureIsClean ==
    \A p \in Run, k \in Target : pc[p] = "failed" /\ tgt[k] = p =>
        \/ <<p, k>> \in delayed
        \/ \E q \in Run \ {p} : prior[q][k] = p

\* What a run has published and proved is replaced only by a run that has seen
\* it, however many runs overlap and whatever they undo.
SuccessReplacedKnowingly ==
    [][\A p \in Run, k \in Target :
        pc[p] = "succeeded" /\ tgt[k] = p /\ tgt'[k] # p =>
            \E q \in Run : tgt'[k] = q /\ prior[q][k] = p]_vars

\* The targets belong together: all are one run's, or none is any run's.
Uniform == \/ \A k \in Target : tgt[k] \notin Run
           \/ \E p \in Run : \A k \in Target : tgt[k] = p

\* Once all runs are over the targets belong together, unless a run was
\* killed, reported that it could not undo, was carried out late, or failed
\* after another had taken over what it withdrew.
MixIsReported ==
    Active = {} /\ ~Uniform =>
        \/ \E p \in Run : pc[p] \in {"dead", "partial"}
        \/ delayed # {}
        \/ \E p, q \in Run : \E k \in Target : pc[p] = "failed" /\ prior[q][k] = p

\* A run that nobody disturbs skips only if all targets are as the receipt
\* says, whatever happened to the receipt's run after it was written.
SkipIsTrue ==
    [][\A p \in alone : pc[p] = "reuse" /\ pc'[p] = "skipped" =>
        \A k \in Target : tgt[k] = recorded[p]]_vars
=============================================================================
