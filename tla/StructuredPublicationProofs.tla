--------------------- MODULE StructuredPublicationProofs ---------------------
(***************************************************************************)
(* Theorems about StructuredPublication, for any number of targets, runs   *)
(* and sources, any overlap, and every number of failed calls and kills.   *)
(***************************************************************************)
EXTENDS StructuredPublication, FiniteSetTheorems, TLAPS

-----------------------------------------------------------------------------
(* Numbers.                                                                *)

LEMMA TargetFacts == N \in Nat \ {0} /\ 1 \in Target /\ Target \subseteq Nat /\ Absent \notin Target
  BY PublicationAssumption DEF Target

\* The worst case is the one in which the readback fails.
LEMMA Budget == MaxCalls = 5 * N /\ MaxCalls \in Nat
  BY PublicationAssumption DEF MaxCalls, MaxReadBackFailureCalls, MaxAmbiguousFailureCalls,
     MaxSuccessCalls

LEMMA Counting ==
  ASSUME NEW S \in SUBSET Target, NEW k \in Target
  PROVE  /\ Cardinality(S) \in Nat /\ Cardinality({}) = 0
         /\ Cardinality(S \cup {k}) \in Nat /\ Cardinality(S \ {k}) \in Nat
         /\ Cardinality(S \cup {k}) <= Cardinality(S) + 1
         /\ k \in S => Cardinality(S \ {k}) = Cardinality(S) - 1
<1>1. IsFiniteSet(Target)
  BY TargetFacts, FS_Interval DEF Target
<1>2. IsFiniteSet(S)
  BY <1>1, FS_Subset
<1>3. /\ IsFiniteSet(S \cup {k})
      /\ Cardinality(S \cup {k}) = IF k \in S THEN Cardinality(S) ELSE Cardinality(S) + 1
  BY <1>2, FS_AddElement
<1>4. /\ IsFiniteSet(S \ {k})
      /\ Cardinality(S \ {k}) = IF k \in S THEN Cardinality(S) - 1 ELSE Cardinality(S)
  BY <1>2, FS_RemoveElement
<1>5. /\ Cardinality(S) \in Nat /\ Cardinality(S \cup {k}) \in Nat
      /\ Cardinality(S \ {k}) \in Nat
  BY <1>2, <1>3, <1>4, FS_CardinalityType
<1>6. Cardinality({}) = 0
  BY FS_EmptySet
<1> QED
  BY <1>3, <1>4, <1>5, <1>6

-----------------------------------------------------------------------------
(* Runs.                                                                   *)

\* A step of one run leaves what another has in memory as it is.
SameRun(r) ==
    /\ pc'[r] = pc[r] /\ at'[r] = at[r] /\ recorded'[r] = recorded[r] /\ prior'[r] = prior[r]
    /\ created'[r] = created[r] /\ updated'[r] = updated[r] /\ unknown'[r] = unknown[r]
    /\ calls'[r] = calls[r] /\ errors'[r] = errors[r]

LEMMA EndAt ==
  ASSUME TypeOK, NEW p \in Run, NEW how, End(p, how)
  PROVE  /\ pc'[p] = how /\ at'[p] = 1 /\ recorded'[p] = Absent /\ created'[p] = {}
         /\ updated'[p] = {} /\ unknown'[p] = Absent /\ calls'[p] = 0 /\ errors'[p] = FALSE
         /\ \A r \in Run \ {p} :
              /\ pc'[r] = pc[r] /\ at'[r] = at[r] /\ recorded'[r] = recorded[r]
              /\ created'[r] = created[r] /\ updated'[r] = updated[r]
              /\ unknown'[r] = unknown[r] /\ calls'[r] = calls[r] /\ errors'[r] = errors[r]
  BY DEF End, TypeOK

LEMMA OtherRuns ==
  ASSUME TypeOK, NEW p \in Run, Step(p) \/ Kill(p), NEW r \in Run, r # p
  PROVE  SameRun(r)
<1>0. \A how : End(p, how) /\ UNCHANGED prior => SameRun(r)
  BY EndAt DEF SameRun
<1> USE DEF TypeOK, SameRun, Goto, Move, Begun, Refused, Local
<1>1. CASE Begin(p)
  BY <1>1 DEF Begin
<1>2. CASE Reuse(p)
  BY <1>0, <1>2 DEF Reuse
<1>3. CASE Inspect(p)
  BY <1>3 DEF Inspect
<1>4. CASE Publish(p)
  BY <1>4 DEF Publish
<1>5. CASE ReadBack(p)
  BY <1>5 DEF ReadBack
<1>6. CASE Seal(p) \/ Aside(p) \/ Install(p)
  BY <1>6 DEF Seal, Aside, Install
<1>7. CASE Discard(p)
  BY <1>0, <1>7 DEF Discard
<1>8. CASE Restore(p)
  BY <1>8 DEF Restore, Undo
<1>9. CASE Recover(p)
  BY <1>9 DEF Recover
<1>10. CASE Rerestore(p)
  BY <1>10 DEF Rerestore, Undo
<1>11. CASE Cleanup(p)
  BY <1>0, <1>11 DEF Cleanup, Undo
<1>12. CASE Kill(p)
  BY <1>0, <1>12 DEF Kill
<1> QED
  BY <1>1, <1>2, <1>3, <1>4, <1>5, <1>6, <1>7, <1>8, <1>9, <1>10, <1>11, <1>12 DEF Step

-----------------------------------------------------------------------------
(* Shape.                                                                  *)

LEMMA AsksType ==
  ASSUME NEW p \in Run, NEW k \in Target, NEW verb \in {"publish", "restore", "cleanup"}
  PROVE  /\ Asks(p, k, verb) \in Request /\ Asks(p, k, verb).run = p
         /\ Asks(p, k, verb).target = k /\ Asks(p, k, verb).verb = verb
  BY DEF Asks, Request

LEMMA ApplyType ==
  ASSUME TypeOK, NEW x \in Request, Apply(x)
  PROVE  tgt' \in [Target -> State]
<1>1. x.run \in Run /\ x.target \in Target /\ x.verb \in {"publish", "restore", "cleanup"}
  BY DEF Request
<1>2. After(x) \in State
  BY <1>1 DEF After, State, TypeOK
<1> QED
  BY <1>1, <1>2 DEF Apply, TypeOK

LEMMA FaultType ==
  ASSUME TypeOK, Fault
  PROVE  faults' \in 0..MaxFaults
  BY PublicationAssumption DEF Fault, TypeOK

LEMMA CallType ==
  ASSUME TypeOK, NEW x \in Request, Applied(x) \/ NotKnown(x)
  PROVE  /\ tgt' \in [Target -> State] /\ flight' \subseteq Request
         /\ delayed' = delayed /\ faults' \in 0..MaxFaults
<1>1. tgt' = tgt \/ Apply(x)
  BY DEF Applied, NotKnown
<1>2. flight' = flight \/ flight' = flight \cup {x}
  BY DEF Applied, NotKnown
<1>3. faults' = faults \/ Fault
  BY DEF Applied, NotKnown
<1>4. delayed' = delayed
  BY DEF Applied, NotKnown
<1> QED
  BY <1>1, <1>2, <1>3, <1>4, ApplyType, FaultType DEF TypeOK

LEMMA BegunType ==
  ASSUME TypeOK, NEW p \in Run, Begun(p) \/ Refused(p)
  PROVE  calls' \in [Run -> 0..MaxCalls]
<1>1. calls[p] \in 0..MaxCalls
  BY DEF TypeOK
<1> QED
  BY <1>1, Budget DEF Begun, Refused, TypeOK

LEMMA EndType ==
  ASSUME TypeOK, NEW p \in Run, NEW how \in Over, End(p, how)
  PROVE  /\ pc' \in [Run -> Place] /\ at' \in [Run -> Target]
         /\ recorded' \in [Run -> Run \cup {Absent}] /\ created' \in [Run -> SUBSET Target]
         /\ updated' \in [Run -> SUBSET Target] /\ unknown' \in [Run -> Target \cup {Absent}]
         /\ calls' \in [Run -> 0..MaxCalls] /\ errors' \in [Run -> BOOLEAN]
<1>1. calls' \in [Run -> 0..MaxCalls]
  BY Budget DEF End, TypeOK
<1> QED
  BY <1>1, TargetFacts DEF End, TypeOK, Place

\* The next target.
LEMMA NextTarget ==
  ASSUME TypeOK, NEW p \in Run
  PROVE  /\ at[p] \in Target /\ at[p] \in Nat \ {0} /\ at[p] <= N
         /\ at[p] # N => at[p] + 1 \in Target
         /\ at[p] < N => at[p] + 1 \in Target
<1>1. at[p] \in Target
  BY DEF TypeOK
<1> QED
  BY <1>1, TargetFacts DEF Target

\* The places and the targets of the runs, after any step of a run.
LEMMA PlaceType ==
  ASSUME TypeOK, NEW p \in Run, Step(p) \/ Kill(p)
  PROVE  pc' \in [Run -> Place] /\ at' \in [Run -> Target]
<1>0. \A how \in Over : End(p, how) => pc' \in [Run -> Place] /\ at' \in [Run -> Target]
  BY EndType
<1>1. ASSUME NEW place \in Place, Goto(p, place)
      PROVE  pc' \in [Run -> Place]
  BY <1>1 DEF Goto, TypeOK
<1>2. ASSUME NEW k \in Target, Move(p, k)
      PROVE  at' \in [Run -> Target]
  BY <1>2 DEF Move, TypeOK
<1>3. CASE Begin(p)
  <2>1. UNCHANGED at /\ \E place \in {"reuse", "inspect"} : Goto(p, place)
    BY <1>3 DEF Begin
  <2> QED
    BY <1>1, <2>1 DEF Place, TypeOK
<1>4. CASE Reuse(p)
  BY <1>0, <1>1, <1>2, <1>4, TargetFacts, NextTarget DEF Reuse, Place, Over, TypeOK
<1>5. CASE Inspect(p)
  BY <1>1, <1>2, <1>5, TargetFacts, NextTarget DEF Inspect, Place, Undoing, TypeOK
<1>6. CASE Publish(p)
  BY <1>1, <1>2, <1>6, TargetFacts, NextTarget DEF Publish, Place, Undoing, TypeOK
<1>7. CASE ReadBack(p)
  BY <1>1, <1>2, <1>7, TargetFacts, NextTarget DEF ReadBack, Place, Undoing, TypeOK
<1>8. CASE Seal(p) \/ Aside(p) \/ Install(p)
  BY <1>1, <1>8 DEF Seal, Aside, Install, Local, Place, Undoing, TypeOK
<1>9. CASE Discard(p)
  BY <1>0, <1>1, <1>9 DEF Discard, Local, Place, Undoing, Over, TypeOK
<1>10. CASE Restore(p)
  <2>1. UNCHANGED at /\ (UNCHANGED pc \/ \E place \in Undoing : Goto(p, place))
    BY <1>10 DEF Restore, Undoing
  <2> QED
    BY <1>1, <2>1 DEF Place, TypeOK
<1>11. CASE Recover(p) \/ Rerestore(p)
  BY <1>1, <1>11 DEF Recover, Rerestore, Place, Undoing, TypeOK
<1>12. CASE Cleanup(p)
  <2>1. UNCHANGED <<pc, at>> \/ \E how \in Over : End(p, how)
    BY <1>12 DEF Cleanup, Over
  <2> QED
    BY <1>0, <2>1 DEF TypeOK
<1>13. CASE Kill(p)
  BY <1>0, <1>13 DEF Kill, Over
<1> QED
  BY <1>3, <1>4, <1>5, <1>6, <1>7, <1>8, <1>9, <1>10, <1>11, <1>12, <1>13 DEF Step

\* A run recovers the publication of some target.
Unclear == \A p \in Run : pc[p] \in {"recover", "rerestore"} => unknown[p] \in Target

\* A list of targets that loses or gains one is still such a list.
LEMMA ListType ==
  ASSUME NEW f \in [Run -> SUBSET Target], NEW p \in Run
  PROVE  /\ \A k : [f EXCEPT ![p] = @ \ {k}] \in [Run -> SUBSET Target]
         /\ \A k \in Target : [f EXCEPT ![p] = @ \cup {k}] \in [Run -> SUBSET Target]
<1>1. f[p] \in SUBSET Target
  OBVIOUS
<1>2. \A T \in SUBSET Target : [f EXCEPT ![p] = T] \in [Run -> SUBSET Target]
  OBVIOUS
<1>3. \A k : f[p] \ {k} \in SUBSET Target
  BY <1>1
<1>4. \A k \in Target : f[p] \cup {k} \in SUBSET Target
  BY <1>1
<1> QED
  BY <1>2, <1>3, <1>4

\* What the runs remember.
LEMMA MemoryType ==
  ASSUME TypeOK, Unclear, NEW p \in Run, Step(p) \/ Kill(p)
  PROVE  /\ recorded' \in [Run -> Run \cup {Absent}] /\ prior' \in [Run -> [Target -> State]]
         /\ created' \in [Run -> SUBSET Target] /\ updated' \in [Run -> SUBSET Target]
         /\ unknown' \in [Run -> Target \cup {Absent}]
         /\ calls' \in [Run -> 0..MaxCalls] /\ errors' \in [Run -> BOOLEAN]
<1> DEFINE Memory == /\ recorded' \in [Run -> Run \cup {Absent}]
                     /\ created' \in [Run -> SUBSET Target] /\ updated' \in [Run -> SUBSET Target]
                     /\ unknown' \in [Run -> Target \cup {Absent}]
                     /\ calls' \in [Run -> 0..MaxCalls] /\ errors' \in [Run -> BOOLEAN]
<1>0. \A how \in Over : End(p, how) => Memory
  BY EndType
<1>a. Begun(p) \/ Refused(p) => calls' \in [Run -> 0..MaxCalls]
  BY BegunType
<1>c. /\ created \in [Run -> SUBSET Target]
      /\ \A k : [created EXCEPT ![p] = @ \ {k}] \in [Run -> SUBSET Target]
      /\ \A k \in Target : [created EXCEPT ![p] = @ \cup {k}] \in [Run -> SUBSET Target]
  <2>1. created \in [Run -> SUBSET Target]
    BY DEF TypeOK
  <2> QED
    BY <2>1, ListType
<1>u. /\ updated \in [Run -> SUBSET Target]
      /\ \A k : [updated EXCEPT ![p] = @ \ {k}] \in [Run -> SUBSET Target]
      /\ \A k \in Target : [updated EXCEPT ![p] = @ \cup {k}] \in [Run -> SUBSET Target]
  <2>1. updated \in [Run -> SUBSET Target]
    BY DEF TypeOK
  <2> QED
    BY <2>1, ListType
<1>b. UNCHANGED prior => prior' \in [Run -> [Target -> State]]
  BY DEF TypeOK
<1>1. CASE Begin(p)
  <2>1. SourceOf[p] \in Source
    BY PublicationAssumption
  <2> QED
    BY <1>1, <2>1 DEF Begin, TypeOK
<1>2. CASE Reuse(p)
  BY <1>0, <1>a, <1>b, <1>2 DEF Reuse, Over, TypeOK
<1>3. CASE Inspect(p)
  <2>1. at[p] \in Target /\ tgt[at[p]] \in State /\ prior[p] \in [Target -> State]
    BY DEF TypeOK
  <2>2. prior' \in [Run -> [Target -> State]]
    BY <1>3, <2>1, SMTT(30) DEF Inspect, TypeOK
  <2> QED
    BY <1>a, <1>3, <2>2 DEF Inspect, TypeOK
<1>4. CASE Publish(p)
  <2>1. at[p] \in Target
    BY DEF TypeOK
  <2>2. calls' \in [Run -> 0..MaxCalls] /\ UNCHANGED <<recorded, prior, errors>>
    BY <1>a, <1>4 DEF Publish
  <2>3. unknown' = unknown \/ unknown' = [unknown EXCEPT ![p] = at[p]]
    BY <1>4 DEF Publish
  <2>4. /\ created' = created \/ created' = [created EXCEPT ![p] = @ \cup {at[p]}]
        /\ updated' = updated \/ updated' = [updated EXCEPT ![p] = @ \cup {at[p]}]
    BY <1>4 DEF Publish
  <2>5. created' \in [Run -> SUBSET Target] /\ updated' \in [Run -> SUBSET Target]
    BY <1>c, <1>u, <2>1, <2>4
  <2> QED
    BY <2>1, <2>2, <2>3, <2>5 DEF TypeOK
<1>5. CASE ReadBack(p)
  BY <1>a, <1>5 DEF ReadBack, TypeOK
<1>6. CASE Seal(p) \/ Aside(p) \/ Install(p)
  BY <1>6 DEF Seal, Aside, Install, Local, TypeOK
<1>7. CASE Discard(p)
  BY <1>0, <1>7 DEF Discard, Local, Over, TypeOK
<1>8. CASE Restore(p)
  <2>1. calls' \in [Run -> 0..MaxCalls] /\ UNCHANGED <<recorded, prior, created, unknown>>
    BY <1>a, <1>8 DEF Restore, Undo, TypeOK
  <2>2. errors' = errors \/ errors' = [errors EXCEPT ![p] = TRUE]
    BY <1>8 DEF Restore, Undo
  <2>3. errors' \in [Run -> BOOLEAN]
    BY <2>2 DEF TypeOK
  <2>4. updated' = updated \/ \E k : updated' = [updated EXCEPT ![p] = @ \ {k}]
    BY <1>8 DEF Restore
  <2>5. updated' \in [Run -> SUBSET Target]
    BY <1>u, <2>4
  <2> QED
    BY <2>1, <2>3, <2>5 DEF TypeOK
<1>9. CASE Recover(p)
  <2>1. /\ calls' \in [Run -> 0..MaxCalls] /\ UNCHANGED <<recorded, prior, updated>>
        /\ unknown' = unknown \/ unknown' = [unknown EXCEPT ![p] = Absent]
        /\ errors' = errors \/ errors' = [errors EXCEPT ![p] = TRUE]
    BY <1>a, <1>9 DEF Recover
  <2>2. created' = created \/ created' = [created EXCEPT ![p] = @ \cup {unknown[p]}]
    BY <1>9 DEF Recover
  <2>3. unknown[p] \in Target
    BY <1>9 DEF Recover, Unclear
  <2>4. created' \in [Run -> SUBSET Target]
    BY <1>c, <2>2, <2>3
  <2> QED
    BY <2>1, <2>4 DEF TypeOK
<1>10. CASE Rerestore(p)
  <2>1. /\ calls' \in [Run -> 0..MaxCalls] /\ UNCHANGED <<recorded, prior, created, updated>>
        /\ unknown' = [unknown EXCEPT ![p] = Absent]
        /\ errors' = errors \/ errors' = [errors EXCEPT ![p] = TRUE]
    BY <1>a, <1>10 DEF Rerestore, Undo
  <2> QED
    BY <2>1 DEF TypeOK
<1>11. CASE Cleanup(p)
  <2>1. CASE \E how \in Over : End(p, how)
    BY <1>0, <1>b, <1>11, <2>1 DEF Cleanup
  <2>2. CASE created[p] # {}
    <3>1. /\ calls' \in [Run -> 0..MaxCalls] /\ UNCHANGED <<recorded, prior, updated, unknown>>
          /\ errors' = errors \/ errors' = [errors EXCEPT ![p] = TRUE]
          /\ \E k : created' = [created EXCEPT ![p] = @ \ {k}]
      BY <1>a, <1>11, <2>2 DEF Cleanup, Undo
    <3>2. created' \in [Run -> SUBSET Target]
      BY <1>c, <3>1
    <3> QED
      BY <3>1, <3>2 DEF TypeOK
  <2> QED
    BY <1>11, <2>1, <2>2 DEF Cleanup, Over
<1>12. CASE Kill(p)
  BY <1>0, <1>b, <1>12 DEF Kill, Over
<1> QED
  BY <1>1, <1>2, <1>3, <1>4, <1>5, <1>6, <1>7, <1>8, <1>9, <1>10, <1>11, <1>12 DEF Step

\* Every step keeps the shape of the variables.
LEMMA TypeNext ==
  ASSUME TypeOK, Unclear, [Next]_vars
  PROVE  TypeOK'
<1>1. CASE UNCHANGED vars
  BY <1>1 DEF vars, remote, disk, run, TypeOK
<1>2. ASSUME NEW p \in Run, Step(p) \/ Kill(p)
      PROVE  TypeOK'
  <2>1. /\ recorded' \in [Run -> Run \cup {Absent}] /\ prior' \in [Run -> [Target -> State]]
        /\ created' \in [Run -> SUBSET Target] /\ updated' \in [Run -> SUBSET Target]
        /\ unknown' \in [Run -> Target \cup {Absent}]
        /\ calls' \in [Run -> 0..MaxCalls] /\ errors' \in [Run -> BOOLEAN]
        /\ pc' \in [Run -> Place] /\ at' \in [Run -> Target]
    BY <1>2, MemoryType, PlaceType
  <2>2. /\ tgt' \in [Target -> State] /\ flight' \subseteq Request
        /\ delayed' \subseteq Run \X Target
    <3>1. CASE UNCHANGED <<tgt, flight, delayed>>
      BY <3>1 DEF TypeOK
    <3>2. ASSUME NEW k \in Target, NEW verb \in {"publish", "restore", "cleanup"},
                 Applied(Asks(p, k, verb)) \/ NotKnown(Asks(p, k, verb))
          PROVE  /\ tgt' \in [Target -> State] /\ flight' \subseteq Request
                 /\ delayed' \subseteq Run \X Target
      BY <3>2, CallType, AsksType DEF TypeOK
    <3>3. CASE Publish(p)
      BY <3>1, <3>2, <3>3, NextTarget DEF Publish, remote
    <3>4. CASE Restore(p)
      <4>1. LastOf(updated[p]) \subseteq Target
        BY DEF LastOf, TypeOK
      <4> QED
        BY <3>1, <3>2, <3>4, <4>1 DEF Restore, Undo, remote
    <3>5. CASE Rerestore(p)
      BY <3>1, <3>2, <3>5 DEF Rerestore, Undo, remote, Unclear
    <3>6. CASE Cleanup(p)
      <4>1. LastOf(created[p]) \subseteq Target
        BY DEF LastOf, TypeOK
      <4> QED
        BY <3>1, <3>2, <3>6, <4>1 DEF Cleanup, Undo, remote
    <3> QED
      BY <1>2, <3>1, <3>3, <3>4, <3>5, <3>6 DEF Step, Begin, Reuse, Inspect, ReadBack, Seal, Aside,
         Install, Discard, Local, Recover, Kill, remote
  <2>3. /\ runRoot' \in [Source -> Run \cup {Absent}] /\ replaced' \in [Source -> Run \cup {Absent}]
    <3>1. CASE UNCHANGED disk
      BY <3>1 DEF disk, TypeOK
    <3>2. Here(p) \in Source
      BY PublicationAssumption DEF Here
    <3>3. CASE Seal(p)
      BY <3>2, <3>3 DEF Seal, TypeOK
    <3>4. CASE Aside(p)
      BY <3>2, <3>4 DEF Aside, disk, TypeOK
    <3>5. CASE Install(p)
      BY <3>2, <3>5 DEF Install, disk, TypeOK
    <3>6. CASE Discard(p)
      BY <3>2, <3>6 DEF Discard, TypeOK
    <3> QED
      BY <1>2, <3>1, <3>3, <3>4, <3>5, <3>6 DEF Step, Begin, Reuse, Inspect, Publish, ReadBack,
         Restore, Recover, Rerestore, Cleanup, Kill
  <2>4. alone' \subseteq Run
    BY <1>2 DEF Step, Begin, Reuse, Inspect, Publish, ReadBack, Seal, Aside, Install, Discard,
       Local, Restore, Recover, Rerestore, Cleanup, Kill, TypeOK
  <2>5. faults' \in 0..MaxFaults
    <3>1. CASE faults' = faults \/ Fault
      BY <3>1, FaultType DEF TypeOK
    <3>2. \A x : Applied(x) \/ NotKnown(x) => faults' = faults \/ Fault
      BY DEF Applied, NotKnown
    <3> QED
      BY <1>2, <3>1, <3>2 DEF Step, Begin, Reuse, Inspect, Publish, ReadBack, Seal, Aside, Install,
         Discard, Restore, Recover, Rerestore, Cleanup, Undo, Kill
  <2>6. unaccounted' \subseteq Run
    <3>1. \A how : End(p, how) => unaccounted' \subseteq Run
      BY DEF End, TypeOK
    <3> QED
      BY <1>2, <3>1 DEF Step, Begin, Reuse, Inspect, Publish, ReadBack, Seal, Aside, Install,
         Discard, Local, Restore, Recover, Rerestore, Cleanup, Kill, TypeOK
  <2> QED
    BY <2>1, <2>2, <2>3, <2>4, <2>5, <2>6 DEF TypeOK
<1>3. ASSUME NEW x \in flight, Land(x)
      PROVE  TypeOK'
  <2>1. x \in Request /\ <<x.run, x.target>> \in Run \X Target
    BY DEF TypeOK, Request
  <2>2. tgt' \in [Target -> State]
    BY <1>3, <2>1, ApplyType DEF Land, TypeOK
  <2>3. delayed' = delayed \/ delayed' = delayed \cup {<<x.run, x.target>>}
    BY <1>3 DEF Land
  <2>4. delayed' \subseteq Run \X Target /\ flight' \subseteq Request /\ alone' \subseteq Run
    BY <1>3, <2>1, <2>3 DEF Land, TypeOK
  <2> QED
    BY <1>3, <2>2, <2>4 DEF Land, disk, run, TypeOK
<1> QED
  BY <1>1, <1>2, <1>3 DEF Next

-----------------------------------------------------------------------------
(* What a run has in memory at its place.                                  *)

RunFits(p) ==
    /\ pc[p] \in {"new"} \cup Over => at[p] = 1 /\ calls[p] = 0
    /\ pc[p] \in {"new", "reuse", "inspect"} \cup Over => created[p] = {} /\ updated[p] = {}
    /\ pc[p] \notin Undoing => unknown[p] = Absent /\ ~errors[p]
    /\ pc[p] \in {"recover", "rerestore"} => unknown[p] \in Target /\ updated[p] = {}
    /\ pc[p] = "cleanup" => unknown[p] = Absent /\ updated[p] = {}

LEMMA GotoAt ==
  ASSUME TypeOK, NEW p \in Run
  PROVE  /\ \A place : Goto(p, place) => pc'[p] = place
         /\ \A k : Move(p, k) => at'[p] = k
         /\ \A how : End(p, how) => pc'[p] = how
         /\ Begun(p) => calls'[p] = calls[p] + 1
         /\ Refused(p) => calls'[p] = calls[p]
         /\ \A k : unknown' = [unknown EXCEPT ![p] = k] => unknown'[p] = k
         /\ unknown[p] \in Target \cup {Absent}
  BY EndAt DEF Goto, Move, Begun, Refused, TypeOK

LEMMA FitsNext ==
  ASSUME TypeOK, NEW p \in Run, RunFits(p), Step(p) \/ Kill(p)
  PROVE  RunFits(p)'
<1> USE GotoAt, EndAt DEF Over, Undoing
<1>0. ASSUME NEW how \in Over, End(p, how)
      PROVE  RunFits(p)'
  BY <1>0 DEF RunFits
<1>1. CASE Begin(p)
  BY <1>1 DEF Begin, RunFits
<1>2. CASE Reuse(p)
  BY <1>0, <1>2 DEF Reuse, RunFits
<1>3. CASE Inspect(p)
  BY <1>3 DEF Inspect, RunFits
<1>4. CASE Publish(p)
  BY <1>4, NextTarget DEF Publish, RunFits
<1>5. CASE ReadBack(p)
  BY <1>5 DEF ReadBack, RunFits
<1>6. CASE Seal(p) \/ Aside(p) \/ Install(p)
  BY <1>6 DEF Seal, Aside, Install, Local, RunFits
<1>7. CASE Discard(p)
  BY <1>0, <1>7 DEF Discard, Local, RunFits
<1>8. CASE Restore(p)
  BY <1>8 DEF Restore, RunFits
<1>9. CASE Recover(p)
  BY <1>9 DEF Recover, RunFits
<1>10. CASE Rerestore(p)
  BY <1>10 DEF Rerestore, RunFits
<1>11. CASE Cleanup(p)
  BY <1>0, <1>11 DEF Cleanup, RunFits
<1>12. CASE Kill(p)
  BY <1>0, <1>12 DEF Kill
<1> QED
  BY <1>1, <1>2, <1>3, <1>4, <1>5, <1>6, <1>7, <1>8, <1>9, <1>10, <1>11, <1>12 DEF Step

-----------------------------------------------------------------------------
(* The budget of calls.                                                    *)

Listed(p) == Cardinality(updated[p]) + Cardinality(created[p])
Pending(p) == IF unknown[p] = Absent THEN 0 ELSE IF pc[p] = "rerestore" THEN 1 ELSE 2

\* At each place no more calls were begun than the ones that lead there, and no
\* more targets are listed than were published.
Spent(p) ==
    /\ pc[p] = "reuse" => calls[p] <= at[p] - 1
    /\ pc[p] = "inspect" => calls[p] <= N + at[p] - 1
    /\ pc[p] = "publish" => calls[p] <= 2 * N + at[p] - 1 /\ Listed(p) <= at[p] - 1
    /\ pc[p] = "readback" => calls[p] <= 3 * N + at[p] - 1 /\ Listed(p) <= N
    /\ pc[p] \in {"seal", "aside", "install", "discard"} => calls[p] <= 4 * N /\ Listed(p) <= N
    /\ pc[p] \in Undoing => calls[p] + Listed(p) + Pending(p) <= 5 * N

LEMMA SpentFacts ==
  ASSUME TypeOK, NEW p \in Run
  PROVE  /\ N \in Nat \ {0} /\ at[p] \in Nat /\ at[p] >= 1 /\ at[p] <= N /\ calls[p] \in Nat
         /\ Cardinality(updated[p]) \in Nat /\ Cardinality(created[p]) \in Nat
         /\ Listed(p) \in Nat /\ Pending(p) \in {0, 1, 2} /\ Cardinality({}) = 0
         /\ created[p] \in SUBSET Target /\ updated[p] \in SUBSET Target
<1>1. created[p] \in SUBSET Target /\ updated[p] \in SUBSET Target /\ calls[p] \in 0..MaxCalls
  BY DEF TypeOK
<1>2. N \in Nat \ {0} /\ calls[p] \in Nat /\ 1 \in Target
  BY <1>1, Budget, TargetFacts
<1>3. Cardinality(updated[p]) \in Nat /\ Cardinality(created[p]) \in Nat /\ Cardinality({}) = 0
  BY <1>1, <1>2, Counting
<1>4. at[p] \in Nat /\ at[p] >= 1 /\ at[p] <= N
  BY NextTarget
<1> QED
  BY <1>1, <1>2, <1>3, <1>4 DEF Listed, Pending

\* Adding to a list, and taking from it.
LEMMA ListAt ==
  ASSUME TypeOK, NEW p \in Run
  PROVE  /\ \A k \in Target :
              /\ created' = [created EXCEPT ![p] = @ \cup {k}]
                   => Cardinality(created'[p]) \in Nat
                      /\ Cardinality(created'[p]) <= Cardinality(created[p]) + 1
              /\ updated' = [updated EXCEPT ![p] = @ \cup {k}]
                   => Cardinality(updated'[p]) \in Nat
                      /\ Cardinality(updated'[p]) <= Cardinality(updated[p]) + 1
         /\ \A k \in created[p] : created' = [created EXCEPT ![p] = @ \ {k}]
              => Cardinality(created'[p]) = Cardinality(created[p]) - 1
         /\ \A k \in updated[p] : updated' = [updated EXCEPT ![p] = @ \ {k}]
              => Cardinality(updated'[p]) = Cardinality(updated[p]) - 1
<1>1. created[p] \in SUBSET Target /\ updated[p] \in SUBSET Target
  BY DEF TypeOK
<1>2. /\ \A k : created' = [created EXCEPT ![p] = @ \cup {k}] => created'[p] = created[p] \cup {k}
      /\ \A k : updated' = [updated EXCEPT ![p] = @ \cup {k}] => updated'[p] = updated[p] \cup {k}
      /\ \A k : created' = [created EXCEPT ![p] = @ \ {k}] => created'[p] = created[p] \ {k}
      /\ \A k : updated' = [updated EXCEPT ![p] = @ \ {k}] => updated'[p] = updated[p] \ {k}
  BY DEF TypeOK
<1>3. /\ \A k \in Target : /\ Cardinality(created[p] \cup {k}) \in Nat
                            /\ Cardinality(created[p] \cup {k}) <= Cardinality(created[p]) + 1
      /\ \A k \in Target : k \in created[p] =>
           Cardinality(created[p] \ {k}) = Cardinality(created[p]) - 1
  BY <1>1, Counting
<1>4. /\ \A k \in Target : /\ Cardinality(updated[p] \cup {k}) \in Nat
                            /\ Cardinality(updated[p] \cup {k}) <= Cardinality(updated[p]) + 1
      /\ \A k \in Target : k \in updated[p] =>
           Cardinality(updated[p] \ {k}) = Cardinality(updated[p]) - 1
  BY <1>1, Counting
<1>5. \A k : (k \in created[p] \/ k \in updated[p]) => k \in Target
  BY <1>1
<1> QED
  BY <1>2, <1>3, <1>4, <1>5

LEMMA SpentNext ==
  ASSUME TypeOK, NEW p \in Run, RunFits(p), Spent(p), Step(p) \/ Kill(p)
  PROVE  Spent(p)'
<1> USE GotoAt, SpentFacts DEF Undoing
<1>0. ASSUME NEW how \in Over, End(p, how)
      PROVE  Spent(p)'
  BY <1>0, EndAt DEF Spent, Over
<1>1. CASE Begin(p)
  <2>1. /\ pc'[p] \in {"reuse", "inspect"} /\ calls'[p] = 0 /\ at'[p] = 1
    BY <1>1 DEF Begin, RunFits
  <2> QED
    BY <2>1 DEF Spent
<1>2. CASE Reuse(p)
  <2>1. \/ \E how \in Over : End(p, how)
        \/ pc'[p] = "reuse" /\ calls'[p] = calls[p] + 1 /\ at'[p] = at[p] + 1
        \/ pc'[p] = "inspect" /\ calls'[p] \in {calls[p], calls[p] + 1} /\ at'[p] = 1
    BY <1>2 DEF Reuse, Over
  <2>2. calls[p] <= at[p] - 1
    BY <1>2 DEF Reuse, Spent
  <2> QED
    BY <1>0, <2>1, <2>2 DEF Spent
<1>3. CASE Inspect(p)
  <2>1. /\ created' = created /\ updated' = updated /\ unknown' = unknown
        /\ calls'[p] \in {calls[p], calls[p] + 1}
        /\ \/ pc'[p] = "publish" /\ at[p] = N /\ at'[p] = 1
           \/ pc'[p] = "inspect" /\ calls'[p] = calls[p] + 1 /\ at'[p] = at[p] + 1
           \/ pc'[p] = "restore"
    BY <1>3 DEF Inspect
  <2>2. calls[p] <= N + at[p] - 1 /\ Listed(p)' = 0 /\ (pc'[p] = "restore" => Pending(p)' = 0)
    <3>1. pc[p] = "inspect" /\ calls[p] <= N + at[p] - 1
      BY <1>3 DEF Inspect, Spent
    <3>2. updated[p] = {} /\ created[p] = {} /\ unknown[p] = Absent
      BY <3>1 DEF RunFits
    <3> QED
      BY <2>1, <3>1, <3>2 DEF Listed, Pending
  <2> QED
    BY <2>1, <2>2 DEF Spent
<1>4. CASE Publish(p)
  <2>1. /\ at[p] \in Target /\ calls[p] <= 2 * N + at[p] - 1 /\ Listed(p) <= at[p] - 1
    BY <1>4, NextTarget DEF Publish, Spent
  <2>2. CASE pc'[p] = "restore"
    <3>1. /\ calls'[p] \in {calls[p], calls[p] + 1} /\ created' = created /\ updated' = updated
      BY <1>4, <2>2 DEF Publish
    <3>2. Listed(p)' = Listed(p) /\ Pending(p)' \in {0, 1, 2}
      BY <3>1 DEF Listed, Pending
    <3> QED
      BY <2>1, <2>2, <3>1, <3>2 DEF Spent
  <2>3. CASE pc'[p] # "restore"
    <3>1. /\ calls'[p] = calls[p] + 1
          /\ \/ pc'[p] = "readback" /\ at[p] = N /\ at'[p] = 1
             \/ pc'[p] = "publish" /\ at'[p] = at[p] + 1
          /\ \/ created' = [created EXCEPT ![p] = @ \cup {at[p]}] /\ updated' = updated
             \/ updated' = [updated EXCEPT ![p] = @ \cup {at[p]}] /\ created' = created
      BY <1>4, <2>3 DEF Publish
    <3>2. Listed(p)' \in Nat /\ Listed(p)' <= Listed(p) + 1
      BY <2>1, <3>1, ListAt DEF Listed
    <3> QED
      BY <2>1, <3>1, <3>2 DEF Spent
  <2> QED
    BY <2>2, <2>3
<1>5. CASE ReadBack(p)
  <2>1. /\ created' = created /\ updated' = updated /\ unknown' = unknown
        /\ calls'[p] \in {calls[p], calls[p] + 1}
        /\ \/ pc'[p] = "seal" /\ at[p] = N /\ at'[p] = 1
           \/ pc'[p] = "readback" /\ calls'[p] = calls[p] + 1 /\ at'[p] = at[p] + 1
           \/ pc'[p] = "restore"
    BY <1>5 DEF ReadBack
  <2>2. /\ calls[p] <= 3 * N + at[p] - 1 /\ Listed(p) <= N
        /\ Listed(p)' = Listed(p) /\ (pc'[p] = "restore" => Pending(p)' = 0)
    BY <1>5, <2>1 DEF ReadBack, Spent, RunFits, Listed, Pending
  <2> QED
    BY <2>1, <2>2 DEF Spent
<1>6. CASE Seal(p) \/ Aside(p) \/ Install(p) \/ (Discard(p) /\ pc'[p] # "succeeded")
  <2>1. /\ pc[p] \in {"seal", "aside", "install", "discard"} /\ Local(p)
        /\ pc'[p] \in {"aside", "install", "discard", "restore"}
    BY <1>6 DEF Seal, Aside, Install, Discard
  <2>2. /\ calls[p] <= 4 * N /\ Listed(p) <= N /\ calls' = calls
        /\ Listed(p)' = Listed(p) /\ (pc'[p] = "restore" => Pending(p)' = 0)
    BY <2>1 DEF Local, Spent, RunFits, Listed, Pending
  <2> QED
    BY <2>1, <2>2 DEF Spent
<1>7. CASE Discard(p) /\ pc'[p] = "succeeded"
  BY <1>0, <1>7 DEF Discard, Over
<1>8. CASE Restore(p)
  <2>1. calls[p] + Listed(p) + Pending(p) <= 5 * N /\ pc[p] = "restore"
    BY <1>8 DEF Restore, Spent
  <2>2. CASE updated[p] = {}
    <3>1. /\ UNCHANGED <<updated, created, unknown, calls>> /\ pc'[p] \in {"cleanup", "recover"}
      BY <1>8, <2>2 DEF Restore
    <3>2. Listed(p)' = Listed(p) /\ Pending(p)' = Pending(p)
      BY <2>1, <3>1 DEF Listed, Pending
    <3> QED
      BY <2>1, <3>1, <3>2 DEF Spent
  <2>3. CASE updated[p] # {}
    <3>1. PICK k \in LastOf(updated[p]) :
            /\ updated' = [updated EXCEPT ![p] = @ \ {k}]
            /\ calls'[p] \in {calls[p], calls[p] + 1}
            /\ UNCHANGED <<pc, created, unknown>>
      BY <1>8, <2>3 DEF Restore, Undo
    <3>2. k \in updated[p]
      BY DEF LastOf
    <3>3. Cardinality(updated'[p]) = Cardinality(updated[p]) - 1
      BY <3>1, <3>2, ListAt
    <3>4. Listed(p)' = Listed(p) - 1 /\ Pending(p)' = Pending(p)
      BY <2>1, <3>1, <3>3 DEF Listed, Pending
    <3> QED
      BY <2>1, <3>1, <3>4 DEF Spent
  <2> QED
    BY <2>2, <2>3
<1>9. CASE Recover(p)
  <2>1. /\ calls[p] + Listed(p) + 2 <= 5 * N /\ pc[p] = "recover" /\ unknown[p] \in Target
        /\ unknown[p] # Absent
    BY <1>9, TargetFacts DEF Recover, Spent, RunFits, Pending
  <2>2. /\ updated' = updated /\ calls'[p] \in {calls[p], calls[p] + 1}
        /\ \/ pc'[p] = "rerestore" /\ created' = created /\ unknown' = unknown
           \/ /\ pc'[p] = "cleanup" /\ unknown'[p] = Absent
              /\ created' = created \/ created' = [created EXCEPT ![p] = @ \cup {unknown[p]}]
    BY <1>9 DEF Recover
  <2>3. Listed(p)' \in Nat /\ Listed(p)' <= Listed(p) + (IF pc'[p] = "cleanup" THEN 1 ELSE 0)
    BY <2>1, <2>2, ListAt DEF Listed
  <2>4. Pending(p)' = IF pc'[p] = "cleanup" THEN 0 ELSE 1
    BY <2>1, <2>2 DEF Pending
  <2> QED
    BY <2>1, <2>2, <2>3, <2>4 DEF Spent
<1>10. CASE Rerestore(p)
  <2>1. calls[p] + Listed(p) + 1 <= 5 * N /\ pc[p] = "rerestore"
    BY <1>10, TargetFacts DEF Rerestore, Spent, RunFits, Pending
  <2>2. /\ UNCHANGED <<created, updated>> /\ calls'[p] \in {calls[p], calls[p] + 1}
        /\ pc'[p] = "cleanup" /\ unknown'[p] = Absent
    BY <1>10 DEF Rerestore, Undo
  <2>3. Listed(p)' = Listed(p) /\ Pending(p)' = 0
    BY <2>2 DEF Listed, Pending
  <2> QED
    BY <2>1, <2>2, <2>3 DEF Spent
<1>11. CASE Cleanup(p)
  <2>1. calls[p] + Listed(p) + Pending(p) <= 5 * N /\ pc[p] = "cleanup"
    BY <1>11 DEF Cleanup, Spent
  <2>2. CASE created[p] = {}
    BY <1>0, <1>11, <2>2 DEF Cleanup, Over
  <2>3. CASE created[p] # {}
    <3>1. PICK k \in LastOf(created[p]) :
            /\ created' = [created EXCEPT ![p] = @ \ {k}]
            /\ calls'[p] \in {calls[p], calls[p] + 1}
            /\ UNCHANGED <<pc, updated, unknown>>
      BY <1>11, <2>3 DEF Cleanup, Undo
    <3>2. k \in created[p]
      BY DEF LastOf
    <3>3. Cardinality(created'[p]) = Cardinality(created[p]) - 1
      BY <3>1, <3>2, ListAt
    <3>4. Listed(p)' = Listed(p) - 1 /\ Pending(p)' = Pending(p)
      BY <2>1, <3>1, <3>3 DEF Listed, Pending
    <3> QED
      BY <2>1, <3>1, <3>4 DEF Spent
  <2> QED
    BY <2>2, <2>3
<1>12. CASE Kill(p)
  BY <1>0, <1>12 DEF Kill, Over
<1> QED
  BY <1>1, <1>2, <1>3, <1>4, <1>5, <1>6, <1>7, <1>8, <1>9, <1>10, <1>11, <1>12 DEF Step

-----------------------------------------------------------------------------
(* Places.                                                                 *)

Early == {"new", "reuse", "inspect", "skipped"}         \* nothing was published
Late == Undoing \cup {"failed", "partial", "dead"}      \* the run has failed

LEMMA PlaceMoves ==
  ASSUME TypeOK, [Next]_vars, NEW r \in Run
  PROVE  /\ pc[r] \notin Early => pc'[r] \notin Early
         /\ pc[r] \in Late => pc'[r] \in Late
         /\ pc[r] \in Over => pc'[r] = pc[r]
         /\ delayed \subseteq delayed'
<1>1. CASE UNCHANGED vars
  BY <1>1 DEF vars, remote, run
<1>2. ASSUME NEW x \in flight, Land(x)
      PROVE  pc' = pc /\ delayed \subseteq delayed'
  BY <1>2 DEF Land, run
<1>3. ASSUME NEW p \in Run, Step(p) \/ Kill(p)
      PROVE  /\ pc[p] \notin Early => pc'[p] \notin Early
             /\ pc[p] \in Late => pc'[p] \in Late
             /\ pc[p] \notin Over
  BY <1>3, GotoAt DEF Step, Begin, Reuse, Inspect, Publish, ReadBack, Seal, Aside, Install,
     Discard, Restore, Recover, Rerestore, Cleanup, Kill, Active, Early, Late, Undoing, Over
<1>4. ASSUME NEW p \in Run, Step(p) \/ Kill(p)
      PROVE  delayed' = delayed
  BY <1>4 DEF Step, Begin, Reuse, Inspect, Publish, ReadBack, Seal, Aside, Install, Discard,
     Local, Restore, Recover, Rerestore, Cleanup, Kill, Undo, Applied, NotKnown, remote
<1>5. ASSUME NEW p \in Run, Step(p) \/ Kill(p), r # p
      PROVE  pc'[r] = pc[r]
  BY <1>5, OtherRuns DEF SameRun
<1>6. CASE \E p \in Run : Step(p) \/ Kill(p)
  BY <1>3, <1>4, <1>5, <1>6
<1> QED
  BY <1>1, <1>2, <1>6 DEF Next

-----------------------------------------------------------------------------
(* Undisturbed runs.                                                       *)

\* Beside a run nobody has disturbed no other is under way, and what it has
\* compared with its receipt is still so.
AloneFits ==
    \A p \in alone :
        /\ \A q \in Run \ {p} : pc[q] \in {"new"} \cup Over
        /\ pc[p] = "reuse" => \A k \in Target : k < at[p] => tgt[k] = recorded[p]

LEMMA AloneNext ==
  ASSUME TypeOK, AloneFits, \A p \in Run : RunFits(p), [Next]_vars
  PROVE  AloneFits'
<1>1. CASE UNCHANGED vars
  BY <1>1 DEF vars, remote, run, AloneFits
<1>2. ASSUME NEW x \in flight, Land(x)
      PROVE  AloneFits'
  BY <1>2 DEF Land, run, AloneFits
<1>3. ASSUME NEW r \in Run, Step(r) \/ Kill(r), NEW p \in alone'
      PROVE  /\ \A q \in Run \ {p} : pc'[q] \in {"new"} \cup Over
             /\ pc'[p] = "reuse" => \A k \in Target : k < at'[p] => tgt'[k] = recorded'[p]
  <2>1. \A q \in Run \ {r} : SameRun(q)
    BY <1>3, OtherRuns
  <2>2. CASE Begin(r)
    <3>1. Active = {} /\ p = r /\ at' = at
      BY <1>3, <2>2 DEF Begin
    <3>2. at'[r] = 1
      BY <2>2, <3>1 DEF Begin, RunFits
    <3>3. \A q \in Run \ {r} : pc[q] \in {"new"} \cup Over
      BY <3>1 DEF Active
    <3> QED
      BY <2>1, <3>1, <3>2, <3>3, TargetFacts DEF SameRun, Target
  <2>3. CASE ~Begin(r)
    <3>1. pc[r] \notin {"new"} \cup Over /\ alone' = alone
      BY <1>3, <2>3 DEF Step, Reuse, Inspect, Publish, ReadBack, Seal, Aside, Install, Discard,
         Local, Restore, Recover, Rerestore, Cleanup, Kill, Active, Over
    <3>2. p = r /\ p \in alone
      BY <1>3, <3>1 DEF AloneFits, TypeOK
    <3>3. pc'[p] = "reuse" => Reuse(p)
      BY <1>3, <2>3, <3>2, GotoAt DEF Step, Inspect, Publish, ReadBack, Seal, Aside, Install,
         Discard, Restore, Recover, Rerestore, Cleanup, Kill
    <3>4. ASSUME pc'[p] = "reuse", NEW k \in Target, k < at'[p]
          PROVE  tgt'[k] = recorded'[p]
      <4>1. /\ at'[p] = at[p] + 1 /\ tgt[at[p]] = recorded[p] /\ pc[p] = "reuse"
            /\ tgt' = tgt /\ recorded' = recorded
        BY <3>2, <3>3, <3>4, GotoAt DEF Reuse, remote
      <4>2. k < at[p] \/ k = at[p]
        <5>1. at[p] \in Nat /\ k \in Nat /\ k < at[p] + 1
          BY <3>2, <3>4, <4>1, TargetFacts, NextTarget
        <5> QED
          BY <5>1
      <4> QED
        BY <3>2, <4>1, <4>2 DEF AloneFits
    <3> QED
      BY <2>1, <3>2, <3>4 DEF AloneFits, SameRun
  <2> QED
    BY <2>2, <2>3
<1>4. CASE \E r \in Run : Step(r) \/ Kill(r)
  BY <1>3, <1>4 DEF AloneFits
<1> QED
  BY <1>1, <1>2, <1>4 DEF Next

\* The step of SkipIsTrue.
Compared == \A p \in alone : pc[p] = "reuse" /\ pc'[p] = "skipped" =>
                \A k \in Target : tgt[k] = recorded[p]

LEMMA ComparedNext ==
  ASSUME TypeOK, AloneFits, [Next]_vars
  PROVE  Compared
<1> SUFFICES ASSUME NEW p \in alone, pc[p] = "reuse", pc'[p] = "skipped", NEW k \in Target
             PROVE  tgt[k] = recorded[p]
  BY DEF Compared
<1>1. p \in Run
  BY DEF TypeOK
<1>2. Step(p) \/ Kill(p)
  BY <1>1, OtherRuns DEF Next, Land, SameRun, vars, run
<1>3. at[p] = N /\ tgt[at[p]] = recorded[p]
  BY <1>1, <1>2, GotoAt DEF Step, Begin, Reuse, Inspect, Publish, ReadBack, Seal, Aside, Install,
     Discard, Restore, Recover, Rerestore, Cleanup, Kill
<1>4. k < N \/ k = N
  BY TargetFacts DEF Target
<1> QED
  BY <1>3, <1>4 DEF AloneFits

-----------------------------------------------------------------------------
(* Requests, and where the state of a target comes from.                   *)

\* A request nobody waits for is one of a run that has failed.
FlightFits == \A x \in flight : pc[x.run] \in Late

\* What a target has, or was seen to have, was published by a run that got
\* that far; and no run has seen its own.
Origins ==
    \A p \in Run, k \in Target :
        /\ tgt[k] = p => pc[p] \notin Early
        /\ prior[p][k] # p
        /\ \A q \in Run : prior[q][k] = p => pc[p] \notin Early

\* The verb and the target a run may ask for at its place.
MayAsk(p, k, verb) ==
    \/ pc[p] = "publish" /\ k = at[p] /\ verb = "publish"
    \/ pc[p] \in {"restore", "rerestore"} /\ verb = "restore"
    \/ pc[p] = "cleanup" /\ verb = "cleanup" /\ k \in created[p]

\* A step of a run changes targets and flights by one request, or not at all.
LEMMA OneRequest ==
  ASSUME TypeOK, Unclear, NEW p \in Run, Step(p) \/ Kill(p)
  PROVE  \/ UNCHANGED <<tgt, flight>>
         \/ \E k \in Target, verb \in {"publish", "restore", "cleanup"} :
              /\ MayAsk(p, k, verb)
              /\ Applied(Asks(p, k, verb)) \/ NotKnown(Asks(p, k, verb))
              /\ prior' = prior
<1>1. CASE Publish(p)
  <2>1. at[p] \in Target
    BY NextTarget
  <2>2. \/ UNCHANGED <<tgt, flight>>
        \/ /\ Applied(Asks(p, at[p], "publish")) \/ NotKnown(Asks(p, at[p], "publish"))
           /\ prior' = prior
    BY <1>1 DEF Publish, remote
  <2>3. MayAsk(p, at[p], "publish")
    BY <1>1 DEF Publish, MayAsk
  <2> QED
    BY <2>1, <2>2, <2>3
<1>2. CASE Restore(p)
  <2>1. LastOf(updated[p]) \subseteq Target
    BY DEF LastOf, TypeOK
  <2>2. \A k : MayAsk(p, k, "restore")
    BY <1>2 DEF Restore, MayAsk
  <2> QED
    BY <1>2, <2>1, <2>2 DEF Restore, Undo, remote
<1>3. CASE Rerestore(p)
  <2>1. unknown[p] \in Target
    BY <1>3 DEF Rerestore, Unclear
  <2>2. MayAsk(p, unknown[p], "restore")
    BY <1>3 DEF Rerestore, MayAsk
  <2> QED
    BY <1>3, <2>1, <2>2 DEF Rerestore, Undo, remote
<1>4. CASE Cleanup(p)
  <2>1. LastOf(created[p]) \subseteq Target
    BY DEF LastOf, TypeOK
  <2>2. \A k \in LastOf(created[p]) : MayAsk(p, k, "cleanup")
    BY <1>4 DEF Cleanup, MayAsk, LastOf
  <2> QED
    BY <1>4, <2>1, <2>2 DEF Cleanup, Undo, remote
<1> QED
  BY <1>1, <1>2, <1>3, <1>4 DEF Step, Begin, Reuse, Inspect, ReadBack, Seal, Aside, Install,
     Discard, Local, Recover, Kill, remote

\* After a publication a run lists its target, or does not know.
LEMMA PublishListed ==
  ASSUME TypeOK, NEW p \in Run, Step(p) \/ Kill(p), pc[p] = "publish",
         tgt' # tgt \/ flight' # flight
  PROVE  /\ Publish(p)
         /\ at[p] \in created'[p] \cup updated'[p] \cup {unknown'[p]}
         /\ NotKnown(Asks(p, at[p], "publish")) /\ flight' # flight => pc'[p] = "restore"
<1>1. Publish(p)
  BY DEF Step, Begin, Reuse, Inspect, ReadBack, Seal, Aside, Install, Discard, Restore, Recover,
     Rerestore, Cleanup, Kill, remote
<1>2. /\ created[p] \in SUBSET Target /\ updated[p] \in SUBSET Target
      /\ \A k : created' = [created EXCEPT ![p] = @ \cup {k}] => k \in created'[p]
      /\ \A k : updated' = [updated EXCEPT ![p] = @ \cup {k}] => k \in updated'[p]
  BY DEF TypeOK
<1> QED
  BY <1>1, <1>2, GotoAt DEF Publish, Applied

LEMMA FlightNext ==
  ASSUME TypeOK, Unclear, FlightFits, [Next]_vars
  PROVE  FlightFits'
<1>1. ASSUME NEW x \in flight, x \in flight'
      PROVE  pc'[x.run] \in Late
  <2>1. x.run \in Run /\ pc[x.run] \in Late
    BY DEF TypeOK, Request, FlightFits
  <2> QED
    BY <2>1, PlaceMoves
<1>2. CASE UNCHANGED vars
  BY <1>1, <1>2 DEF vars, remote, FlightFits
<1>3. ASSUME NEW x \in flight, Land(x)
      PROVE  FlightFits'
  BY <1>1, <1>3 DEF Land, FlightFits
<1>4. ASSUME NEW p \in Run, Step(p) \/ Kill(p), NEW x \in flight', x \notin flight
      PROVE  pc'[x.run] \in Late
  <2>1. PICK k \in Target, verb \in {"publish", "restore", "cleanup"} :
          /\ MayAsk(p, k, verb)
          /\ Applied(Asks(p, k, verb)) \/ NotKnown(Asks(p, k, verb))
    BY <1>4, OneRequest
  <2>2. NotKnown(Asks(p, k, verb)) /\ x = Asks(p, k, verb)
    BY <1>4, <2>1 DEF Applied, NotKnown
  <2>3. x.run = p
    BY <2>2, AsksType
  <2>4. CASE pc[p] = "publish"
    BY <1>4, <2>1, <2>2, <2>3, <2>4, PublishListed DEF MayAsk, Late, Undoing
  <2>5. CASE pc[p] # "publish"
    BY <1>4, <2>1, <2>3, <2>5, PlaceMoves DEF MayAsk, Late, Undoing, Next
  <2> QED
    BY <2>4, <2>5
<1> QED
  BY <1>1, <1>2, <1>3, <1>4 DEF Next, FlightFits

\* A target changes by a request, of the run that steps or of one that failed.
LEMMA TargetStep ==
  ASSUME TypeOK, Unclear, FlightFits, [Next]_vars, NEW k \in Target, tgt'[k] # tgt[k]
  PROVE  \E x \in Request :
           /\ x.target = k /\ Applies(x) /\ tgt'[k] = After(x) /\ prior' = prior
           /\ \/ /\ x.verb = "publish" /\ pc[x.run] = "publish"
                 /\ Publish(x.run) /\ k = at[x.run]
                 /\ k \in created'[x.run] \cup updated'[x.run] \cup {unknown'[x.run]}
              \/ /\ pc[x.run] \in Late
                 /\ \/ <<x.run, k>> \in delayed'
                    \/ x.verb = "restore"
                    \/ x.verb = "cleanup" /\ k \in created[x.run]
<1>0. ASSUME NEW x \in Request, Apply(x)
      PROVE  x.target = k /\ tgt'[k] = After(x)
  BY <1>0 DEF Apply, TypeOK, Request
<1>1. ASSUME NEW x \in flight, Land(x)
      PROVE  /\ x \in Request /\ Apply(x) /\ Applies(x) /\ prior' = prior
             /\ <<x.run, x.target>> \in delayed' /\ pc[x.run] \in Late
  BY <1>1 DEF Land, TypeOK, FlightFits, run
<1>2. ASSUME NEW p \in Run, Step(p) \/ Kill(p)
      PROVE  \E x \in Request :
               /\ Apply(x) /\ Applies(x) /\ prior' = prior
               /\ \/ /\ x.verb = "publish" /\ pc[x.run] = "publish"
                     /\ Publish(x.run) /\ x.target = at[x.run]
                     /\ x.target \in created'[x.run] \cup updated'[x.run] \cup {unknown'[x.run]}
                  \/ /\ pc[x.run] \in Late
                     /\ \/ x.verb = "restore"
                        \/ x.verb = "cleanup" /\ x.target \in created[x.run]
  <2>1. PICK j \in Target, verb \in {"publish", "restore", "cleanup"} :
          /\ MayAsk(p, j, verb)
          /\ Applied(Asks(p, j, verb)) \/ NotKnown(Asks(p, j, verb))
          /\ prior' = prior
    BY <1>2, OneRequest
  <2> DEFINE x == Asks(p, j, verb)
  <2>2. x \in Request /\ x.run = p /\ x.target = j /\ x.verb = verb
    BY AsksType
  <2>3. Apply(x) /\ Applies(x)
    BY <2>1 DEF Applied, NotKnown
  <2>4. CASE pc[p] = "publish"
    <3>1. j = at[p] /\ verb = "publish"
      BY <2>1, <2>4 DEF MayAsk
    <3>2. Publish(p) /\ j \in created'[p] \cup updated'[p] \cup {unknown'[p]}
      BY <1>2, <2>4, <3>1, PublishListed
    <3> QED
      BY <2>1, <2>2, <2>3, <2>4, <3>1, <3>2
  <2>5. CASE pc[p] # "publish"
    <3>1. /\ pc[p] \in Late
          /\ verb = "restore" \/ (verb = "cleanup" /\ j \in created[p])
      <4>1. \/ pc[p] \in {"restore", "rerestore"} /\ verb = "restore"
            \/ pc[p] = "cleanup" /\ verb = "cleanup" /\ j \in created[p]
        BY <2>1, <2>5 DEF MayAsk
      <4> QED
        BY <4>1 DEF Late, Undoing
    <3> QED
      BY <2>1, <2>2, <2>3, <3>1
  <2> QED
    BY <2>4, <2>5
<1>3. CASE \E x \in flight : Land(x)
  BY <1>0, <1>1, <1>3
<1>4. CASE \E p \in Run : Step(p) \/ Kill(p)
  BY <1>0, <1>2, <1>4
<1> QED
  BY <1>3, <1>4 DEF Next, vars, remote

\* Only an inspection changes what a run has seen of a target.
LEMMA PriorStep ==
  ASSUME TypeOK, [Next]_vars, NEW q \in Run, NEW k \in Target
  PROVE  \/ prior'[q][k] = prior[q][k]
         \/ prior'[q][k] = tgt[k] /\ pc[q] = "inspect"
<1>1. ASSUME NEW p \in Run, Step(p) \/ Kill(p)
      PROVE  \/ prior' = prior
             \/ pc[p] = "inspect" /\ prior' = [prior EXCEPT ![p][at[p]] = tgt[at[p]]]
  BY <1>1 DEF Step, Begin, Reuse, Inspect, Publish, ReadBack, Seal, Aside, Install, Discard,
     Local, Restore, Recover, Rerestore, Cleanup, Kill
<1>2. ASSUME NEW p \in Run, prior' = [prior EXCEPT ![p][at[p]] = tgt[at[p]]]
      PROVE  \/ prior'[q][k] = prior[q][k]
             \/ prior'[q][k] = tgt[k] /\ q = p
  <2>1. prior \in [Run -> [Target -> State]] /\ prior[q] \in [Target -> State]
    BY DEF TypeOK
  <2> QED
    BY <1>2, <2>1
<1>3. CASE \E p \in Run : Step(p) \/ Kill(p)
  BY <1>1, <1>2, <1>3
<1> QED
  BY <1>3 DEF Next, Land, vars, run

LEMMA OriginsNext ==
  ASSUME TypeOK, Unclear, FlightFits, Origins, [Next]_vars
  PROVE  Origins'
<1> SUFFICES ASSUME NEW p \in Run, NEW k \in Target
             PROVE  /\ tgt'[k] = p => pc'[p] \notin Early
                    /\ prior'[p][k] # p
                    /\ \A q \in Run : prior'[q][k] = p => pc'[p] \notin Early
  BY DEF Origins
<1>1. /\ tgt[k] = p => pc[p] \notin Early
      /\ prior[p][k] # p
      /\ \A q \in Run : prior[q][k] = p => pc[p] \notin Early
  BY DEF Origins
<1>2. pc[p] \notin Early => pc'[p] \notin Early
  BY PlaceMoves
<1>3. ASSUME tgt'[k] = p, tgt[k] # p
      PROVE  pc[p] \notin Early
  <2>1. PICK x \in Request :
          /\ x.target = k /\ Applies(x) /\ tgt'[k] = After(x)
          /\ x.verb = "publish" => pc[x.run] = "publish" \/ pc[x.run] \in Late
    BY <1>3, TargetStep
  <2>2. x.run \in Run /\ x.verb \in {"publish", "restore", "cleanup"} /\ p # Absent
    BY PublicationAssumption DEF Request
  <2> QED
    BY <1>1, <1>3, <2>1, <2>2 DEF After, Early, Late, Undoing
<1>4. prior'[p][k] # p
  BY <1>1, PriorStep DEF Early
<1>5. ASSUME NEW q \in Run, prior'[q][k] = p
      PROVE  pc[p] \notin Early
  BY <1>1, <1>5, PriorStep
<1> QED
  BY <1>1, <1>2, <1>3, <1>4, <1>5

-----------------------------------------------------------------------------
(* What a run has published and is answerable for.                         *)

Held(p, k) ==
    tgt[k] = p =>
        \/ <<p, k>> \in delayed
        \/ \E q \in Run \ {p} : prior[q][k] = p
        \/ pc[p] \in {"succeeded", "partial", "dead"}
        \/ errors[p]
        \/ k \in created[p] \cup updated[p] \cup {unknown[p]}

\* ... as far as its own memory says.
Kept(p, k) == \/ pc[p] \in {"succeeded", "partial", "dead"} \/ errors[p]
              \/ k \in created[p] \cup updated[p] \cup {unknown[p]}

\* A target still the run's own after an undoing call was not undone.
LEMMA UndoFails ==
  ASSUME TypeOK, Origins, NEW p \in Run, NEW k \in Target, NEW verb \in {"restore", "cleanup"},
         Undo(p, k, verb), tgt[k] = p, tgt'[k] = p
  PROVE  errors'[p]
<1>1. ~Applied(Asks(p, k, verb))
  <2>1. SUFFICES ASSUME Apply(Asks(p, k, verb)) PROVE FALSE
    BY DEF Applied
  <2>2. /\ Asks(p, k, verb).target = k /\ Asks(p, k, verb).run = p /\ Asks(p, k, verb).verb = verb
    BY DEF Asks
  <2>3. tgt'[k] = After(Asks(p, k, verb))
    BY <2>1, <2>2 DEF Apply, TypeOK
  <2>4. prior[p][k] # p /\ Absent # p
    BY PublicationAssumption DEF Origins
  <2> QED
    BY <2>2, <2>3, <2>4 DEF After
<1> QED
  BY <1>1 DEF Undo, TypeOK

LEMMA KeptNext ==
  ASSUME TypeOK, Origins, NEW p \in Run, RunFits(p), Step(p) \/ Kill(p), NEW k \in Target,
         tgt[k] = p, tgt'[k] = p, Kept(p, k)
  PROVE  Kept(p, k)'
<1> USE GotoAt, EndAt
<1>0. /\ created[p] \in SUBSET Target /\ updated[p] \in SUBSET Target /\ p # Absent /\ k # Absent
      /\ unknown[p] \in Target \cup {Absent}
  BY PublicationAssumption, TargetFacts DEF TypeOK
<1>a. /\ \A j : created' = [created EXCEPT ![p] = @ \cup {j}] => created'[p] = created[p] \cup {j}
      /\ \A j : updated' = [updated EXCEPT ![p] = @ \cup {j}] => updated'[p] = updated[p] \cup {j}
      /\ \A j : created' = [created EXCEPT ![p] = @ \ {j}] => created'[p] = created[p] \ {j}
      /\ \A j : updated' = [updated EXCEPT ![p] = @ \ {j}] => updated'[p] = updated[p] \ {j}
      /\ errors' = [errors EXCEPT ![p] = TRUE] => errors'[p]
  BY DEF TypeOK
<1>b. pc[p] \notin Over
  BY DEF Step, Begin, Reuse, Inspect, Publish, ReadBack, Seal, Aside, Install, Discard, Restore,
     Recover, Rerestore, Cleanup, Kill, Active, Over
<1>c. errors[p] \/ k \in created[p] \cup updated[p] \cup {unknown[p]}
  BY <1>b DEF Kept, Over
<1>d. /\ pc[p] \notin {"reuse", "inspect", "new"}
      /\ pc[p] \notin Undoing => k \in created[p] \cup updated[p]
  BY <1>0, <1>c DEF RunFits, Undoing
<1>1. CASE Publish(p)
  BY <1>1, <1>a, <1>d DEF Publish, Kept, Undoing
<1>2. CASE ReadBack(p)
  BY <1>2, <1>d DEF ReadBack, Kept, Undoing
<1>3. CASE Seal(p) \/ Aside(p) \/ Install(p) \/ Discard(p)
  BY <1>3, <1>d DEF Seal, Aside, Install, Discard, Local, Kept, Undoing
<1>4. CASE Restore(p)
  <2>1. CASE updated[p] = {}
    BY <1>4, <1>c, <2>1 DEF Restore, Kept
  <2>2. CASE updated[p] # {}
    <3>1. PICK j \in LastOf(updated[p]) :
            /\ Undo(p, j, "restore") /\ updated' = [updated EXCEPT ![p] = @ \ {j}]
            /\ UNCHANGED <<created, unknown>>
      BY <1>4, <2>2 DEF Restore
    <3>2. errors[p] => errors'[p]
      BY <1>a, <3>1 DEF Undo
    <3>3. j = k => errors'[p]
      BY <3>1, UndoFails
    <3> QED
      BY <1>a, <1>c, <3>1, <3>2, <3>3 DEF Kept
  <2> QED
    BY <2>1, <2>2
<1>5. CASE Recover(p)
  <2>1. updated[p] = {} /\ pc[p] = "recover"
    BY <1>5 DEF Recover, RunFits
  <2>2. errors[p] => errors'[p]
    BY <1>5, <1>a DEF Recover
  <2>3. created[p] \subseteq created'[p]
    BY <1>5, <1>a DEF Recover
  <2>4. unknown[p] = k => k \in created'[p] \/ errors'[p] \/ unknown'[p] = k
    BY <1>5, <1>a DEF Recover
  <2> QED
    BY <1>c, <2>1, <2>2, <2>3, <2>4 DEF Kept
<1>6. CASE Rerestore(p)
  <2>1. Undo(p, unknown[p], "restore") /\ UNCHANGED <<created, updated>>
    BY <1>6 DEF Rerestore
  <2>2. errors[p] => errors'[p]
    BY <1>a, <2>1 DEF Undo
  <2>3. unknown[p] = k => errors'[p]
    BY <2>1, UndoFails
  <2> QED
    BY <1>c, <2>1, <2>2, <2>3 DEF Kept
<1>7. CASE Cleanup(p)
  <2>1. updated[p] = {} /\ unknown[p] = Absent
    BY <1>7 DEF Cleanup, RunFits
  <2>2. CASE created[p] = {}
    <3>1. errors[p]
      BY <1>0, <1>c, <2>1, <2>2
    <3> QED
      BY <1>7, <2>2, <3>1 DEF Cleanup, Kept
  <2>3. CASE created[p] # {}
    <3>1. PICK j \in LastOf(created[p]) :
            Undo(p, j, "cleanup") /\ created' = [created EXCEPT ![p] = @ \ {j}]
      BY <1>7, <2>3 DEF Cleanup
    <3>2. errors[p] => errors'[p]
      BY <1>a, <3>1 DEF Undo
    <3>3. j = k => errors'[p]
      BY <3>1, UndoFails
    <3> QED
      BY <1>0, <1>a, <1>c, <2>1, <3>1, <3>2, <3>3 DEF Kept
  <2> QED
    BY <2>2, <2>3
<1>8. CASE Kill(p)
  BY <1>8 DEF Kill, Kept
<1> QED
  BY <1>1, <1>2, <1>3, <1>4, <1>5, <1>6, <1>7, <1>8, <1>d DEF Step, Begin, Reuse, Inspect

LEMMA HeldNext ==
  ASSUME TypeOK, Unclear, FlightFits, Origins, [Next]_vars,
         NEW p \in Run, RunFits(p), NEW k \in Target, Held(p, k)
  PROVE  Held(p, k)'
<1> SUFFICES ASSUME tgt'[k] = p
             PROVE  \/ <<p, k>> \in delayed'
                    \/ \E q \in Run \ {p} : prior'[q][k] = p
                    \/ Kept(p, k)'
  BY DEF Held, Kept
<1>1. CASE tgt[k] = p
  <2>1. CASE <<p, k>> \in delayed
    BY <2>1, PlaceMoves
  <2>2. CASE \E q \in Run \ {p} : prior[q][k] = p
    BY <1>1, <2>2, PriorStep
  <2>3. CASE Kept(p, k)
    <3>1. CASE Step(p) \/ Kill(p)
      BY <1>1, <2>3, <3>1, KeptNext
    <3>2. CASE \E r \in Run : r # p /\ (Step(r) \/ Kill(r))
      BY <2>3, <3>2, OtherRuns DEF SameRun, Kept
    <3>3. CASE UNCHANGED vars \/ \E x \in flight : Land(x)
      BY <2>3, <3>3 DEF vars, Land, run, Kept
    <3> QED
      BY <3>1, <3>2, <3>3 DEF Next
  <2> QED
    BY <1>1, <2>1, <2>2, <2>3 DEF Held, Kept
<1>2. CASE tgt[k] # p
  <2>1. PICK x \in Request :
          /\ x.target = k /\ Applies(x) /\ tgt'[k] = After(x) /\ prior' = prior
          /\ \/ /\ x.verb = "publish" /\ pc[x.run] = "publish"
                /\ k \in created'[x.run] \cup updated'[x.run] \cup {unknown'[x.run]}
             \/ /\ pc[x.run] \in Late
                /\ x.verb = "publish" => <<x.run, k>> \in delayed'
    BY <1>2, TargetStep
  <2>2. x.run \in Run /\ x.verb \in {"publish", "restore", "cleanup"} /\ p # Absent
    BY PublicationAssumption DEF Request
  <2>3. CASE x.verb = "publish"
    <3>1. x.run = p
      BY <2>1, <2>3 DEF After
    <3> QED
      BY <2>1, <2>3, <3>1 DEF Kept
  <2>4. CASE x.verb = "restore"
    <3>1. prior[x.run][k] = p
      BY <2>1, <2>4 DEF After
    <3>2. x.run # p
      BY <3>1 DEF Origins
    <3> QED
      BY <2>1, <2>2, <3>1, <3>2
  <2> QED
    BY <2>1, <2>2, <2>3, <2>4 DEF After
<1> QED
  BY <1>1, <1>2

\* The step of SuccessReplacedKnowingly.
Knowingly == \A p \in Run, k \in Target :
    pc[p] = "succeeded" /\ tgt[k] = p /\ tgt'[k] # p =>
        \E q \in Run : tgt'[k] = q /\ prior[q][k] = p

LEMMA KnowinglyNext ==
  ASSUME TypeOK, Unclear, FlightFits, [Next]_vars
  PROVE  Knowingly
<1> SUFFICES ASSUME NEW p \in Run, NEW k \in Target, pc[p] = "succeeded", tgt[k] = p, tgt'[k] # p
             PROVE  \E q \in Run : tgt'[k] = q /\ prior[q][k] = p
  BY DEF Knowingly
<1>1. PICK x \in Request :
        /\ x.target = k /\ Applies(x) /\ tgt'[k] = After(x)
        /\ x.verb = "publish" \/ pc[x.run] \in Late
  BY TargetStep
<1>2. x.run \in Run /\ x.verb \in {"publish", "restore", "cleanup"} /\ p # Absent
  BY PublicationAssumption DEF Request
<1>3. x.verb # "publish" => x.run # p
  BY <1>1 DEF Late, Undoing
<1>4. x.verb = "publish"
  BY <1>1, <1>2, <1>3 DEF Applies
<1> QED
  BY <1>1, <1>2, <1>4 DEF Applies, After

-----------------------------------------------------------------------------
(* The order of the runs.                                                  *)

\* Run p stands at target k: it has published there, and has not failed.
Stands(p, k) == pc[p] \notin Early \cup Late /\ (pc[p] = "publish" => k < at[p])

\* Something that cannot be helped has happened: a run was killed or could not
\* undo, a request was carried out late, or a run has seen one that failed.
Excused ==
    \/ \E p \in Run : pc[p] \in {"dead", "partial"} \/ errors[p]
    \/ delayed # {}
    \/ \E p, q \in Run, k \in Target : pc[p] \in Late /\ prior[q][k] = p

\* What a run has not inspected is unknown to it; a target it is known to have
\* created was absent; whoever is at a target, or was seen there, stands there
\* unless it has failed.
Traces ==
    /\ \A q \in Run, k \in Target :
         pc[q] \in {"new", "reuse"} \/ (pc[q] = "inspect" /\ at[q] <= k) =>
             prior[q][k] = Absent
    /\ \A p \in Run : \A k \in created[p] : prior[p][k] = Absent
    /\ \A p \in Run, k \in Target :
         /\ pc[p] \notin Late
         /\ tgt[k] = p \/ \E q \in Run : prior[q][k] = p
         => Stands(p, k)

\* F numbers the runs in the order in which they finished their inspection, 0
\* for those that have not; n is the next number.  What a run has seen on a
\* target comes before it.
Ordered(F, n) ==
    /\ \A p \in Run : /\ F[p] < n
                      /\ pc[p] \in Early => F[p] = 0
                      /\ pc[p] \notin Early \cup Late => F[p] # 0
    /\ \A p, q \in Run : F[p] = F[q] /\ F[p] # 0 => p = q
    /\ \A p \in Run, k \in Target :
         tgt[k] = p \/ (\E q \in Run : prior[q][k] = p) => F[p] # 0
    /\ \A p, q \in Run, k \in Target : F[q] # 0 /\ prior[q][k] = p => F[p] < F[q]

\* The runs that stand at a target lie on one another in that order: the last
\* of them is on top, and each has seen the one below.
Stacked(F) ==
    \A k \in Target, p \in Run : Stands(p, k) =>
        /\ tgt[k] \in Run /\ F[p] <= F[tgt[k]]
        /\ \A s \in Run : (Stands(s, k) \/ tgt[k] = s) /\ F[p] < F[s] =>
              prior[s][k] \in Run /\ F[p] <= F[prior[s][k]]

Ranked == \E F \in [Run -> Nat], n \in Nat : Ordered(F, n) /\ Stacked(F)

\* A run that leaves the early places has failed, or has inspected all targets
\* and goes on to publish to the first.
LEMMA EarlyLeaves ==
  ASSUME TypeOK, [Next]_vars, NEW p \in Run, pc[p] \in Early, pc'[p] \notin Early \cup Late
  PROVE  pc[p] = "inspect" /\ pc'[p] = "publish" /\ at'[p] = 1 /\ Inspect(p)
<1>1. Step(p) \/ Kill(p)
  BY OtherRuns DEF Next, Land, SameRun, vars, run
<1>2. ~Kill(p)
  BY EndAt DEF Kill, Late
<1>3. CASE Begin(p)
  BY <1>3, GotoAt DEF Begin, Early
<1>4. CASE Reuse(p)
  BY <1>4, GotoAt DEF Reuse, Early
<1>5. CASE Inspect(p)
  BY <1>5, GotoAt DEF Inspect, Late, Undoing, Early
<1> QED
  BY <1>1, <1>2, <1>3, <1>4, <1>5 DEF Step, Publish, ReadBack, Seal, Aside, Install, Discard,
     Restore, Recover, Rerestore, Cleanup, Early

\* A run comes to stand at a target by publishing to it, and is on top then.
LEMMA ComesToStand ==
  ASSUME TypeOK, [Next]_vars, NEW p \in Run, NEW k \in Target, ~Stands(p, k), Stands(p, k)'
  PROVE  /\ pc[p] = "publish" /\ at[p] = k /\ tgt[k] = prior[p][k] /\ tgt'[k] = p
         /\ prior' = prior
<1>1. pc'[p] \notin Early \cup Late /\ (pc'[p] = "publish" => k < at'[p])
  BY DEF Stands
<1>2. pc[p] \notin Late
  BY <1>1, PlaceMoves
<1>3. pc[p] \notin Early
  <2>1. pc'[p] = "publish" /\ at'[p] = 1 => FALSE
    BY <1>1, TargetFacts DEF Target
  <2> QED
    BY <1>1, <2>1, EarlyLeaves
<1>4. pc[p] = "publish" /\ ~(k < at[p])
  BY <1>2, <1>3 DEF Stands
<1>5. Step(p) \/ Kill(p)
  BY <1>1, <1>4, OtherRuns DEF Next, Land, SameRun, vars, run
<1>6. Publish(p)
  BY <1>1, <1>4, <1>5, EndAt DEF Step, Begin, Reuse, Inspect, ReadBack, Seal, Aside, Install,
     Discard, Restore, Recover, Rerestore, Cleanup, Kill, Late
<1>7. /\ Applied(Asks(p, at[p], "publish")) /\ prior' = prior
      /\ IF at[p] = N THEN pc'[p] = "readback" ELSE at'[p] = at[p] + 1 /\ pc' = pc
  BY <1>1, <1>6, GotoAt DEF Publish, Late, Undoing
<1>8. at[p] = k
  <2>1. at[p] \in Target /\ k \in Target
    BY DEF TypeOK
  <2>2. at[p] \in Nat /\ k \in Nat /\ k <= N /\ N \in Nat
    BY <2>1, TargetFacts DEF Target
  <2> QED
    BY <1>1, <1>4, <1>7, <2>2
<1>9. tgt[k] = prior[p][k] /\ tgt'[k] = p
  <2> DEFINE x == Asks(p, k, "publish")
  <2>1. x.run = p /\ x.target = k /\ x.verb = "publish" /\ Applies(x) /\ Apply(x)
    BY <1>7, <1>8, AsksType DEF Applied
  <2> QED
    BY <2>1 DEF Applies, Apply, After, TypeOK
<1> QED
  BY <1>4, <1>7, <1>8, <1>9

\* It stands there until it fails.
LEMMA StaysStanding ==
  ASSUME TypeOK, [Next]_vars, NEW p \in Run, NEW k \in Target, Stands(p, k), pc'[p] \notin Late
  PROVE  Stands(p, k)'
<1>1. pc[p] \notin Early \cup Late /\ (pc[p] = "publish" => k < at[p])
  BY DEF Stands
<1>2. pc'[p] \notin Early
  BY <1>1, PlaceMoves
<1>3. CASE pc[p] = "publish" /\ (Step(p) \/ Kill(p))
  <2>1. Publish(p)
    BY <1>3, EndAt DEF Step, Begin, Reuse, Inspect, ReadBack, Seal, Aside, Install,
       Discard, Restore, Recover, Rerestore, Cleanup, Kill, Late
  <2>2. pc'[p] = "readback" \/ (at'[p] = at[p] + 1 /\ pc' = pc)
    BY <2>1, GotoAt DEF Publish, Late, Undoing
  <2>3. at[p] \in Nat /\ k \in Nat /\ k < at[p]
    BY <1>1, <1>3, TargetFacts DEF TypeOK
  <2> QED
    BY <1>2, <2>2, <2>3 DEF Stands
<1>4. CASE pc[p] # "publish" /\ (Step(p) \/ Kill(p))
  <2>1. pc'[p] # "publish"
    BY <1>1, <1>4, GotoAt DEF Step, Begin, Reuse, Inspect, Publish, ReadBack, Seal, Aside, Install,
       Discard, Restore, Recover, Rerestore, Cleanup, Kill, Early, Late, Undoing
  <2> QED
    BY <1>2, <2>1 DEF Stands
<1>5. CASE ~(Step(p) \/ Kill(p))
  <2>1. pc'[p] = pc[p] /\ at'[p] = at[p]
    BY <1>5, OtherRuns DEF Next, Land, SameRun, vars, run
  <2> QED
    BY <1>1, <2>1 DEF Stands
<1> QED
  BY <1>3, <1>4, <1>5

\* What a run has seen is not seen again.
LEMMA SeenOnce ==
  ASSUME TypeOK, Traces, [Next]_vars, NEW q \in Run, NEW k \in Target, prior[q][k] # Absent
  PROVE  prior'[q][k] = prior[q][k]
<1>1. CASE Inspect(q)
  <2>1. pc[q] = "inspect" /\ ~(at[q] <= k)
    BY <1>1 DEF Inspect, Traces
  <2>2. at[q] # k
    <3>1. at[q] \in Nat /\ k \in Nat
      BY TargetFacts DEF TypeOK
    <3> QED
      BY <2>1, <3>1
  <2>3. prior' = prior \/ prior' = [prior EXCEPT ![q][at[q]] = tgt[at[q]]]
    BY <1>1 DEF Inspect
  <2> QED
    BY <2>2, <2>3 DEF TypeOK
<1>2. CASE ~Inspect(q) /\ (Step(q) \/ Kill(q))
  BY <1>2 DEF Step, Begin, Reuse, Publish, ReadBack, Seal, Aside, Install, Discard, Local,
     Restore, Recover, Rerestore, Cleanup, Kill
<1>3. CASE ~(Step(q) \/ Kill(q))
  BY <1>3, OtherRuns DEF Next, Land, SameRun, vars, run
<1> QED
  BY <1>1, <1>2, <1>3

LEMMA TracesNext ==
  ASSUME TypeOK, Unclear, FlightFits, Origins, Traces, [Next]_vars,
         \A p \in Run : RunFits(p)
  PROVE  Traces'
<1>1. ASSUME NEW q \in Run, NEW k \in Target,
             pc'[q] \in {"new", "reuse"} \/ (pc'[q] = "inspect" /\ at'[q] <= k)
      PROVE  prior'[q][k] = Absent
  <2>1. CASE ~(Step(q) \/ Kill(q))
    BY <1>1, <2>1, OtherRuns DEF Next, Land, SameRun, vars, run, Traces
  <2>2. CASE Begin(q)
    BY <1>1, <2>2 DEF Begin, Traces
  <2>3. CASE Reuse(q)
    BY <1>1, <2>3 DEF Reuse, Traces
  <2>4. CASE Inspect(q)
    <3>1. pc'[q] = "inspect" /\ at'[q] = at[q] + 1 /\ at'[q] <= k
      BY <1>1, <2>4, GotoAt DEF Inspect
    <3>2. at[q] \in Nat /\ k \in Nat
      BY TargetFacts DEF TypeOK
    <3>3. at[q] <= k /\ at[q] # k
      BY <3>1, <3>2
    <3>4. prior[q][k] = Absent
      BY <2>4, <3>3 DEF Inspect, Traces
    <3>5. prior' = prior \/ prior' = [prior EXCEPT ![q][at[q]] = tgt[at[q]]]
      BY <2>4 DEF Inspect
    <3> QED
      BY <3>3, <3>4, <3>5 DEF TypeOK
  <2>5. CASE (Step(q) \/ Kill(q)) /\ ~Begin(q) /\ ~Reuse(q) /\ ~Inspect(q)
    BY <1>1, <2>5, GotoAt DEF Step, Publish, ReadBack, Seal, Aside, Install, Discard, Restore,
       Recover, Rerestore, Cleanup, Kill
  <2> QED
    BY <2>1, <2>2, <2>3, <2>4, <2>5
<1>2. ASSUME NEW p \in Run, NEW k \in created'[p]
      PROVE  prior'[p][k] = Absent
  <2>1. created[p] \in SUBSET Target /\ RunFits(p)
    BY DEF TypeOK
  <2>2. CASE k \in created[p]
    <3>1. prior[p][k] = Absent
      BY <2>2 DEF Traces
    <3>2. pc[p] # "inspect"
      BY <2>1, <2>2 DEF RunFits
    <3> QED
      BY <2>1, <2>2, <3>1, <3>2, PriorStep
  <2>3. CASE k \notin created[p]
    <3>1. Step(p) \/ Kill(p)
      BY <2>3, <1>2, OtherRuns DEF Next, Land, SameRun, vars, run
    <3>2. CASE Publish(p)
      BY <1>2, <2>3, <3>2 DEF Publish, TypeOK
    <3>3. CASE Recover(p)
      BY <1>2, <2>3, <3>3 DEF Recover, TypeOK
    <3>4. CASE End(p, "skipped") \/ End(p, "succeeded") \/ Kill(p)
      BY <1>2, <3>4, EndAt DEF Kill
    <3>5. CASE Cleanup(p)
      <4>1. created'[p] = {} \/ \E j : created' = [created EXCEPT ![p] = @ \ {j}]
        BY <3>5, EndAt DEF Cleanup
      <4> QED
        BY <1>2, <2>3, <4>1 DEF TypeOK
    <3> QED
      BY <1>2, <2>3, <3>1, <3>2, <3>3, <3>4, <3>5 DEF Step, Begin, Reuse, Inspect, ReadBack, Seal,
         Aside, Install, Discard, Local, Restore, Rerestore
  <2> QED
    BY <2>2, <2>3
<1>3. ASSUME NEW p \in Run, NEW k \in Target, pc'[p] \notin Late,
             tgt'[k] = p \/ \E q \in Run : prior'[q][k] = p
      PROVE  Stands(p, k)'
  <2>1. pc[p] \notin Late
    BY <1>3, PlaceMoves
  <2>2. CASE tgt[k] = p \/ \E q \in Run : prior[q][k] = p
    BY <1>3, <2>1, <2>2, StaysStanding DEF Traces
  <2>3. CASE tgt[k] # p /\ tgt'[k] = p
    <3>1. PICK x \in Request :
            /\ x.target = k /\ tgt'[k] = After(x) /\ prior' = prior
            /\ \/ x.verb = "publish" /\ Publish(x.run) /\ k = at[x.run]
               \/ pc[x.run] \in Late
      BY <2>3, TargetStep
    <3>2. x.run \in Run /\ x.verb \in {"publish", "restore", "cleanup"} /\ p # Absent
      BY PublicationAssumption DEF Request
    <3>3. CASE x.verb = "publish"
      <4>1. x.run = p /\ Publish(p) /\ k = at[p]
        BY <2>1, <2>3, <3>1, <3>3 DEF After
      <4>4. pc'[p] = "readback" \/ (pc' = pc /\ at'[p] = at[p] + 1)
        BY <1>3, <4>1, GotoAt DEF Publish, Late, Undoing
      <4>5. pc'[p] \notin Early /\ at[p] \in Nat
        BY <4>1, <4>4, TargetFacts DEF Publish, Early, TypeOK
      <4> QED
        BY <1>3, <4>1, <4>4, <4>5 DEF Stands
    <3>4. CASE x.verb # "publish"
      <4>1. prior[x.run][k] = p
        BY <2>3, <3>1, <3>2, <3>4 DEF After
      <4> QED
        BY <1>3, <2>1, <3>2, <4>1, StaysStanding DEF Traces
    <3> QED
      BY <3>3, <3>4
  <2>4. CASE \E q \in Run : prior'[q][k] = p
    BY <1>3, <2>2, <2>4, PriorStep
  <2> QED
    BY <1>3, <2>2, <2>3, <2>4
<1> QED
  BY <1>1, <1>2, <1>3 DEF Traces

\* What excuses a mix is never taken back.
LEMMA ExcusedStays ==
  ASSUME TypeOK, Traces, [Next]_vars, \A p \in Run : RunFits(p), Excused
  PROVE  Excused'
<1>1. ASSUME NEW p \in Run, pc[p] \in {"dead", "partial"}
      PROVE  Excused'
  <2>1. pc'[p] = pc[p]
    BY <1>1, PlaceMoves DEF Over
  <2> QED
    BY <1>1, <2>1 DEF Excused
<1>2. ASSUME NEW p \in Run, errors[p]
      PROVE  Excused'
  <2>1. pc[p] \in Undoing
    BY <1>2 DEF RunFits
  <2>2. errors'[p] \/ pc'[p] \in {"dead", "partial"}
    <3>1. CASE ~(Step(p) \/ Kill(p))
      BY <1>2, <3>1, OtherRuns DEF Next, Land, SameRun, vars, run
    <3>2. CASE Kill(p)
      BY <3>2, EndAt DEF Kill
    <3>3. CASE Restore(p) \/ Rerestore(p) \/ Recover(p)
      BY <1>2, <3>3 DEF Restore, Rerestore, Recover, Undo, TypeOK
    <3>4. CASE Cleanup(p)
      <4>1. CASE created[p] = {}
        BY <1>2, <3>4, <4>1, EndAt DEF Cleanup
      <4>2. CASE created[p] # {}
        <5>1. errors' = errors \/ errors' = [errors EXCEPT ![p] = TRUE]
          BY <3>4, <4>2 DEF Cleanup, Undo
        <5> QED
          BY <1>2, <5>1 DEF TypeOK
      <4> QED
        BY <4>1, <4>2
    <3> QED
      BY <2>1, <3>1, <3>2, <3>3, <3>4 DEF Step, Begin, Reuse, Inspect, Publish, ReadBack, Seal,
         Aside, Install, Discard, Undoing
  <2> QED
    BY <2>2 DEF Excused
<1>3. ASSUME delayed # {}
      PROVE  Excused'
  <2>1. PICK p \in Run : TRUE
    BY <1>3 DEF TypeOK
  <2> QED
    BY <1>3, <2>1, PlaceMoves DEF Excused
<1>4. ASSUME NEW p \in Run, NEW q \in Run, NEW k \in Target, pc[p] \in Late, prior[q][k] = p
      PROVE  Excused'
  <2>1. p # Absent
    BY PublicationAssumption
  <2>2. prior'[q][k] = p /\ pc'[p] \in Late
    BY <1>4, <2>1, SeenOnce, PlaceMoves
  <2> QED
    BY <2>2 DEF Excused
<1> QED
  BY <1>1, <1>2, <1>3, <1>4 DEF Excused

\* As long as nothing excuses a mix, a target changes because a run publishes
\* over what it has seen, or because one that failed gives back what it saw.
LEMMA TargetMoves ==
  ASSUME TypeOK, Unclear, FlightFits, Traces, [Next]_vars, delayed' = {},
         NEW k \in Target, tgt'[k] # tgt[k]
  PROVE  /\ prior' = prior
         /\ \E x \in Run :
              \/ pc[x] = "publish" /\ tgt[k] = prior[x][k] /\ tgt'[k] = x
              \/ pc[x] \in Late /\ tgt[k] = x /\ tgt'[k] = prior[x][k]
<1>1. PICK x \in Request :
        /\ x.target = k /\ Applies(x) /\ tgt'[k] = After(x) /\ prior' = prior
        /\ \/ x.verb = "publish" /\ pc[x.run] = "publish"
           \/ pc[x.run] \in Late /\ x.verb = "restore"
           \/ pc[x.run] \in Late /\ x.verb = "cleanup" /\ k \in created[x.run]
  BY TargetStep
<1>2. x.run \in Run
  BY DEF Request
<1>3. CASE x.verb = "publish"
  BY <1>1, <1>2, <1>3 DEF Applies, After
<1>4. CASE x.verb = "restore"
  BY <1>1, <1>2, <1>4 DEF Applies, After
<1>5. CASE x.verb = "cleanup"
  <2>1. tgt[k] \in {x.run, Absent} /\ tgt'[k] = Absent /\ pc[x.run] \in Late /\ k \in created[x.run]
    BY <1>1, <1>5 DEF Applies, After
  <2>2. prior[x.run][k] = Absent
    BY <1>2, <2>1 DEF Traces
  <2> QED
    BY <1>1, <1>2, <2>1, <2>2
<1> QED
  BY <1>1, <1>3, <1>4, <1>5

\* The next run to finish its inspection gets the next number.
Advance(F, n, G, m) ==
    \/ /\ G = F /\ m = n
       /\ \A p \in Run : pc[p] \in Early /\ pc'[p] \notin Early => pc'[p] \in Late
    \/ \E q \in Run :
         /\ G = [F EXCEPT ![q] = n] /\ m = n + 1 /\ tgt' = tgt
         /\ pc[q] \in Early /\ pc'[q] \notin Early
         /\ \A p \in Run \ {q} : pc'[p] = pc[p]

LEMMA Advances ==
  ASSUME TypeOK, [Next]_vars, NEW F, NEW n
  PROVE  \E G, m : Advance(F, n, G, m)
<1>1. CASE \A p \in Run : pc[p] \in Early /\ pc'[p] \notin Early => pc'[p] \in Late
  BY <1>1 DEF Advance
<1>2. ASSUME NEW q \in Run, pc[q] \in Early, pc'[q] \notin Early \cup Late
      PROVE  \E G, m : Advance(F, n, G, m)
  <2>1. Inspect(q) /\ tgt' = tgt
    BY <1>2, EarlyLeaves DEF Inspect, remote
  <2>2. \A p \in Run \ {q} : pc'[p] = pc[p]
    BY <2>1, OtherRuns DEF Step, SameRun
  <2>3. Advance(F, n, [F EXCEPT ![q] = n], n + 1)
    BY <1>2, <2>1, <2>2 DEF Advance
  <2> QED
    BY <2>3
<1> QED
  BY <1>1, <1>2

LEMMA OrderedNext ==
  ASSUME TypeOK, Unclear, FlightFits, Origins, Origins', Traces, [Next]_vars, delayed' = {},
         NEW F \in [Run -> Nat], NEW n \in Nat, Ordered(F, n), NEW G, NEW m, Advance(F, n, G, m)
  PROVE  G \in [Run -> Nat] /\ m \in Nat /\ Ordered(G, m)'
<1>1. /\ \A p \in Run : /\ F[p] < n /\ F[p] \in Nat
                        /\ pc[p] \in Early => F[p] = 0
                        /\ pc[p] \notin Early \cup Late => F[p] # 0
      /\ \A p, q \in Run : F[p] = F[q] /\ F[p] # 0 => p = q
      /\ \A p \in Run, k \in Target :
           tgt[k] = p \/ (\E q \in Run : prior[q][k] = p) => F[p] # 0
      /\ \A p, q \in Run, k \in Target : F[q] # 0 /\ prior[q][k] = p => F[p] < F[q]
  BY DEF Ordered
<1>2. ASSUME NEW p \in Run, NEW k \in Target,
             tgt'[k] = p \/ \E q \in Run : prior'[q][k] = p
      PROVE  F[p] # 0
  <2>1. CASE tgt'[k] = p /\ tgt[k] # p
    <3>1. PICK x \in Run : \/ pc[x] = "publish" /\ tgt'[k] = x
                           \/ tgt'[k] = prior[x][k]
      BY <2>1, TargetMoves
    <3>2. pc[p] = "publish" => F[p] # 0
      BY <1>1 DEF Early, Late, Undoing
    <3> QED
      BY <1>1, <2>1, <3>1, <3>2
  <2> QED
    BY <1>1, <1>2, <2>1, PriorStep
<1>3. ASSUME NEW p \in Run, NEW q \in Run, NEW k \in Target, F[q] # 0, prior'[q][k] = p
      PROVE  F[p] < F[q]
  <2>1. pc[q] # "inspect"
    BY <1>1, <1>3 DEF Early
  <2> QED
    BY <1>1, <1>3, <2>1, PriorStep
<1>4. CASE /\ G = F /\ m = n
           /\ \A p \in Run : pc[p] \in Early /\ pc'[p] \notin Early => pc'[p] \in Late
  <2>1. ASSUME NEW p \in Run
        PROVE  /\ pc'[p] \in Early => F[p] = 0
               /\ pc'[p] \notin Early \cup Late => F[p] # 0
    BY <1>1, <1>4, PlaceMoves
  <2> QED
    BY <1>1, <1>2, <1>3, <1>4, <2>1 DEF Ordered
<1>5. ASSUME NEW q \in Run, G = [F EXCEPT ![q] = n], m = n + 1, pc[q] \in Early,
             pc'[q] \notin Early, \A p \in Run \ {q} : pc'[p] = pc[p]
      PROVE  G \in [Run -> Nat] /\ m \in Nat /\ Ordered(G, m)'
  <2>1. /\ G \in [Run -> Nat] /\ m \in Nat /\ G[q] = n /\ n # 0
        /\ \A p \in Run \ {q} : G[p] = F[p]
    BY <1>1, <1>5
  <2>2. ASSUME NEW p \in Run
        PROVE  /\ G[p] < m
               /\ pc'[p] \in Early => G[p] = 0
               /\ pc'[p] \notin Early \cup Late => G[p] # 0
    BY <1>1, <1>5, <2>1
  <2>3. ASSUME NEW p \in Run, NEW r \in Run, G[p] = G[r], G[p] # 0
        PROVE  p = r
    BY <1>1, <2>1, <2>3
  <2>4. ASSUME NEW p \in Run, NEW k \in Target,
               tgt'[k] = p \/ \E r \in Run : prior'[r][k] = p
        PROVE  G[p] # 0
    BY <1>2, <2>1, <2>4
  <2>5. ASSUME NEW p \in Run, NEW r \in Run, NEW k \in Target, G[r] # 0, prior'[r][k] = p
        PROVE  G[p] < G[r]
    <3>1. p # r
      BY <2>5 DEF Origins
    <3>2. CASE r = q
      BY <1>1, <2>1, <3>1, <3>2
    <3>3. CASE r # q
      <4>1. F[r] # 0 /\ F[p] < F[r]
        BY <1>3, <2>1, <2>5, <3>3
      <4>2. pc[r] # "inspect"
        BY <1>1, <4>1 DEF Early
      <4>3. p # q
        BY <1>5, <2>5, <4>2, PriorStep DEF Origins
      <4> QED
        BY <2>1, <3>3, <4>1, <4>3
    <3> QED
      BY <3>2, <3>3
  <2> QED
    BY <2>1, <2>2, <2>3, <2>4, <2>5 DEF Ordered
<1> QED
  BY <1>4, <1>5 DEF Advance

LEMMA StackedNext ==
  ASSUME TypeOK, Unclear, FlightFits, Origins, Traces, [Next]_vars,
         ~Excused, delayed' = {},
         NEW F \in [Run -> Nat], NEW n \in Nat, Ordered(F, n), Stacked(F),
         NEW G, \A p \in Run : pc[p] \notin Early => G[p] = F[p]
  PROVE  Stacked(G)'
<1> SUFFICES ASSUME NEW k \in Target, NEW p \in Run, Stands(p, k)'
             PROVE  /\ tgt'[k] \in Run /\ G[p] <= G[tgt'[k]]
                    /\ \A s \in Run : (Stands(s, k)' \/ tgt'[k] = s) /\ G[p] < G[s] =>
                          prior'[s][k] \in Run /\ G[p] <= G[prior'[s][k]]
  BY DEF Stacked
<1>0. \A s \in Run : /\ F[s] \in Nat
                     /\ pc[s] = "publish" \/ Stands(s, k) => F[s] # 0
                     /\ F[s] # 0 /\ prior[s][k] \in Run => F[prior[s][k]] < F[s]
                     /\ F[s] # 0 => \A r \in Run : F[s] = F[r] => s = r
  BY DEF Ordered, Stands, Early, Late, Undoing
<1>a. \A s \in Run : Stands(s, k) =>
        /\ tgt[k] \in Run /\ F[s] <= F[tgt[k]]
        /\ \A r \in Run : (Stands(r, k) \/ tgt[k] = r) /\ F[s] < F[r] =>
              prior[r][k] \in Run /\ F[s] <= F[prior[r][k]]
  BY DEF Stacked
<1>b. \A s \in Run : Stands(s, k)' =>
        Stands(s, k) \/ (pc[s] = "publish" /\ tgt[k] = prior[s][k] /\ tgt'[k] = s)
  BY ComesToStand
<1>c. tgt'[k] # tgt[k] =>
        \E x \in Run : \/ pc[x] = "publish" /\ tgt[k] = prior[x][k] /\ tgt'[k] = x
                       \/ pc[x] \in Late /\ tgt[k] = x /\ tgt'[k] = prior[x][k]
  BY TargetMoves
<1>1. ASSUME NEW s \in Run, Stands(s, k)' \/ tgt'[k] = s
      PROVE  pc[s] \notin Early /\ G[s] = F[s] /\ prior'[s][k] = prior[s][k]
             /\ (prior[s][k] \in Run => G[prior[s][k]] = F[prior[s][k]])
  <2>1. Stands(s, k) \/ pc[s] = "publish" => pc[s] \notin Early
    BY DEF Stands, Early
  <2>2. tgt'[k] = s => pc[s] \notin Early
    BY <1>c, <2>1 DEF Origins
  <2>3. pc[s] \notin Early
    BY <1>1, <1>b, <2>1, <2>2
  <2> QED
    BY <2>3, PriorStep DEF Early, Origins
<1>2. SUFFICES /\ tgt'[k] \in Run /\ F[p] <= F[tgt'[k]]
               /\ \A s \in Run : (Stands(s, k)' \/ tgt'[k] = s) /\ F[p] < F[s] =>
                    prior[s][k] \in Run /\ F[p] <= F[prior[s][k]]
  BY <1>1
\* A target that a standing run keeps as it is.
<1>3. CASE Stands(p, k) /\ tgt'[k] = tgt[k]
  BY <1>3, <1>a, <1>b
\* A run publishes over it.
<1>4. ASSUME Stands(p, k), NEW x \in Run,
             pc[x] = "publish", tgt[k] = prior[x][k], tgt'[k] = x
      PROVE  /\ tgt'[k] \in Run /\ F[p] <= F[tgt'[k]]
             /\ \A s \in Run : (Stands(s, k)' \/ tgt'[k] = s) /\ F[p] < F[s] =>
                  prior[s][k] \in Run /\ F[p] <= F[prior[s][k]]
  <2>1. tgt[k] \in Run /\ F[p] <= F[tgt[k]] /\ F[tgt[k]] < F[x]
    BY <1>0, <1>4, <1>a
  <2>2. F[p] <= F[x]
    BY <1>0, <2>1
  <2> QED
    BY <1>4, <1>a, <1>b, <2>1, <2>2
\* A run that failed gives back what it saw.
<1>5. ASSUME Stands(p, k), NEW x \in Run,
             pc[x] \in Late, tgt[k] = x, tgt'[k] = prior[x][k]
      PROVE  /\ tgt'[k] \in Run /\ F[p] <= F[tgt'[k]]
             /\ \A s \in Run : (Stands(s, k)' \/ tgt'[k] = s) /\ F[p] < F[s] =>
                  prior[s][k] \in Run /\ F[p] <= F[prior[s][k]]
  <2>1. F[p] < F[x]
    <3>1. p # x /\ F[p] <= F[x] /\ F[p] # F[x]
      BY <1>0, <1>5, <1>a DEF Stands
    <3> QED
      BY <1>0, <3>1
  <2>2. prior[x][k] \in Run /\ F[p] <= F[prior[x][k]]
    BY <1>5, <1>a, <2>1
  <2>3. Stands(prior[x][k], k)
    BY <2>2 DEF Traces, Excused
  <2> QED
    BY <1>5, <1>a, <1>b, <2>2, <2>3
\* The run comes to stand: it is above all that stand there.
<1>6. CASE ~Stands(p, k)
  <2>1. pc[p] = "publish" /\ tgt[k] = prior[p][k] /\ tgt'[k] = p
    BY <1>6, <1>b
  <2>2. ASSUME NEW s \in Run, Stands(s, k)
        PROVE  F[s] < F[p]
    <3>1. tgt[k] \in Run /\ F[s] <= F[tgt[k]] /\ F[tgt[k]] < F[p]
      BY <1>0, <1>a, <2>1, <2>2
    <3> QED
      BY <1>0, <3>1
  <2>3. ASSUME NEW s \in Run, Stands(s, k)' \/ tgt'[k] = s
        PROVE  ~(F[p] < F[s])
    <3>1. CASE Stands(s, k)
      BY <1>0, <2>2, <3>1
    <3>2. CASE s = p
      BY <1>0, <3>2
    <3> QED
      BY <1>b, <2>1, <2>3, <3>1, <3>2
  <2> QED
    BY <1>0, <2>1, <2>3
<1> QED
  BY <1>3, <1>4, <1>5, <1>6, <1>c

\* There is still such an order after a step, unless it brings an excuse.
LEMMA RankedNext ==
  ASSUME TypeOK, Unclear, FlightFits, Origins, Traces, [Next]_vars,
         \A p \in Run : RunFits(p), Ranked, ~Excused'
  PROVE  Ranked'
<1>1. ~Excused /\ delayed' = {} /\ Origins'
  BY ExcusedStays, OriginsNext DEF Excused
<1>2. PICK F \in [Run -> Nat], n \in Nat : Ordered(F, n) /\ Stacked(F)
  BY DEF Ranked
<1>3. PICK G, m : Advance(F, n, G, m)
  BY Advances
<1>4. G \in [Run -> Nat] /\ m \in Nat /\ Ordered(G, m)'
  BY <1>1, <1>2, <1>3, OrderedNext
<1>5. \A p \in Run : pc[p] \notin Early => G[p] = F[p]
  BY <1>3 DEF Advance
<1>6. Stacked(G)'
  BY <1>1, <1>2, <1>5, StackedNext
<1> QED
  BY <1>4, <1>6 DEF Ranked

-----------------------------------------------------------------------------
(* The invariant.                                                          *)

Inv ==
    /\ TypeOK
    /\ \A p \in Run : RunFits(p) /\ Spent(p)
    /\ AloneFits /\ FlightFits /\ Origins
    /\ \A p \in Run, k \in Target : Held(p, k)
    /\ Traces
    /\ (Excused \/ Ranked)

LEMMA InvInit == Init => Inv
<1> SUFFICES ASSUME Init PROVE Inv
  OBVIOUS
<1>1. TypeOK
  BY PublicationAssumption, TargetFacts, Budget DEF Init, TypeOK, Place, State, Target
<1>2. \A p \in Run : RunFits(p) /\ Spent(p)
  BY DEF Init, RunFits, Spent, Undoing, Over
<1>3. AloneFits /\ FlightFits
  BY DEF Init, AloneFits, FlightFits
<1>4. \A p \in Run, k \in Target : tgt[k] # p /\ \A q \in Run : prior[q][k] # p
  BY PublicationAssumption DEF Init, Target
<1>5. Traces
  BY <1>4 DEF Init, Traces, Early, Late
<1>6. Ranked
  <2> DEFINE F == [p \in Run |-> 0]
  <2>1. F \in [Run -> Nat] /\ \A p \in Run : F[p] = 0 /\ F[p] < 1
    OBVIOUS
  <2>2. \A p \in Run : pc[p] \in Early
    BY DEF Init, Early
  <2>3. Ordered(F, 1)
    BY <1>4, <2>1, <2>2 DEF Ordered
  <2>4. Stacked(F)
    BY <2>2 DEF Stacked, Stands
  <2> QED
    BY <2>1, <2>3, <2>4 DEF Ranked
<1> QED
  BY <1>1, <1>2, <1>3, <1>4, <1>5, <1>6 DEF Inv, Origins, Held

LEMMA InvNext == Inv /\ [Next]_vars => Inv'
<1> SUFFICES ASSUME Inv, [Next]_vars PROVE Inv'
  OBVIOUS
<1>0. /\ TypeOK /\ \A p \in Run : RunFits(p) /\ Spent(p)
      /\ AloneFits /\ FlightFits /\ Origins
      /\ \A p \in Run, k \in Target : Held(p, k)
      /\ Traces
      /\ (Excused \/ Ranked)
  BY DEF Inv
<1>1. Unclear
  BY <1>0 DEF RunFits, Unclear
<1>2. TypeOK'
  BY <1>0, <1>1, TypeNext
<1>3. AloneFits' /\ FlightFits' /\ Origins'
  BY <1>0, <1>1, AloneNext, FlightNext, OriginsNext
<1>4. \A p \in Run, k \in Target : Held(p, k)'
  BY <1>0, <1>1, HeldNext
<1>5. ASSUME NEW p \in Run
      PROVE  (RunFits(p) /\ Spent(p))'
  <2>1. CASE Step(p) \/ Kill(p)
    BY <1>0, <2>1, FitsNext, SpentNext
  <2>2. SameRun(p) => (RunFits(p) /\ Spent(p))'
    BY <1>0 DEF SameRun, RunFits, Spent, Listed, Pending
  <2>3. CASE \E r \in Run : r # p /\ (Step(r) \/ Kill(r))
    BY <1>0, <2>2, <2>3, OtherRuns
  <2>4. CASE UNCHANGED vars \/ \E x \in flight : Land(x)
    BY <2>2, <2>4 DEF vars, Land, run, SameRun
  <2> QED
    BY <2>1, <2>3, <2>4 DEF Next
<1>6. Traces'
  BY <1>0, <1>1, TracesNext
<1>7. (Excused \/ Ranked)'
  BY <1>0, <1>1, ExcusedStays, RankedNext
<1> QED
  BY <1>2, <1>3, <1>4, <1>5, <1>6, <1>7 DEF Inv

\* Inv holds in every state that is reached.
THEOREM Invariant == Spec => []Inv
  BY InvInit, InvNext, PTL DEF Spec

\* The variables have their types: a run never begins more calls than its
\* budget.
THEOREM TypeCorrect == Spec => []TypeOK
<1>1. Inv => TypeOK
  BY DEF Inv
<1> QED
  BY <1>1, Invariant, PTL

\* Whatever has failed, and wherever, the calls that undo it all are still
\* within the budget: the worst case the code computes is the worst one.
THEOREM RollbackIsAffordable == Spec => []RollbackAffordable
<1>1. Inv => RollbackAffordable
  <2> SUFFICES ASSUME Inv, NEW p \in Run, pc[p] \in Undoing
               PROVE  calls[p] + Cardinality(updated[p]) + Cardinality(created[p])
                        + (IF unknown[p] = Absent THEN 0
                           ELSE IF pc[p] = "rerestore" THEN 1 ELSE 2) <= MaxCalls
    BY DEF RollbackAffordable
  <2>1. TypeOK /\ Spent(p)
    BY DEF Inv
  <2>2. calls[p] + Listed(p) + Pending(p) <= MaxCalls
    BY <2>1, Budget DEF Spent
  <2>3. calls[p] \in Nat /\ Cardinality(updated[p]) \in Nat /\ Cardinality(created[p]) \in Nat
        /\ Pending(p) \in {0, 1, 2}
    BY <2>1, SpentFacts
  <2>4. calls[p] + Cardinality(updated[p]) + Cardinality(created[p]) + Pending(p) <= MaxCalls
    BY <2>2, <2>3, Budget DEF Listed
  <2> QED
    BY <2>4 DEF Pending
<1> QED
  BY <1>1, Invariant, PTL

\* A run that nobody disturbs skips the publication only where all targets
\* are as the receipt says.
THEOREM SkipsAreTrue == Spec => SkipIsTrue
<1>1. Inv /\ [Next]_vars => Compared
  BY ComparedNext DEF Inv
<1>2. Compared <=> \A p \in alone : pc[p] = "reuse" /\ pc'[p] = "skipped" =>
                       \A k \in Target : tgt[k] = recorded[p]
  BY DEF Compared
<1> QED
  BY <1>1, <1>2, Invariant, PTL DEF Spec, SkipIsTrue

\* However the runs overlap and whatever they undo, a proved publication is
\* only replaced by a run that saw it when it inspected.
THEOREM SuccessIsReplacedKnowingly == Spec => SuccessReplacedKnowingly
<1>1. Inv /\ [Next]_vars => Knowingly
  <2> SUFFICES ASSUME Inv, [Next]_vars PROVE Knowingly
    OBVIOUS
  <2>1. Unclear
    BY DEF Inv, RunFits, Unclear
  <2> QED
    BY <2>1, KnowinglyNext DEF Inv
<1>2. Knowingly <=> \A p \in Run, k \in Target :
                      pc[p] = "succeeded" /\ tgt[k] = p /\ tgt'[k] # p =>
                          \E q \in Run : tgt'[k] = q /\ prior[q][k] = p
  BY DEF Knowingly
<1> QED
  BY <1>1, <1>2, Invariant, PTL DEF Spec, SuccessReplacedKnowingly

\* A run that reports a failure without an error of its undoing has left
\* nothing behind, but what landed late or was given back by another run.
THEOREM CleanFailuresAreClean == Spec => []CleanFailureIsClean
<1>1. Inv => CleanFailureIsClean
  <2> SUFFICES ASSUME Inv, NEW p \in Run, NEW k \in Target, pc[p] = "failed", tgt[k] = p
               PROVE  <<p, k>> \in delayed \/ \E q \in Run \ {p} : prior[q][k] = p
    BY DEF CleanFailureIsClean
  <2>1. Held(p, k) /\ RunFits(p)
    BY DEF Inv
  <2>2. /\ ~errors[p] /\ created[p] = {} /\ updated[p] = {} /\ unknown[p] = Absent
        /\ k # Absent
    BY <2>1, TargetFacts DEF RunFits, Undoing, Over
  <2> QED
    BY <2>1, <2>2 DEF Held
<1> QED
  BY <1>1, Invariant, PTL

\* Once all runs are over, the targets belong together unless a run was killed,
\* says that it could not undo, was carried out late, or failed after another
\* had seen what it withdrew.
THEOREM MixesAreReported == Spec => []MixIsReported
<1>1. Inv => MixIsReported
  <2> SUFFICES ASSUME Inv, Active = {}, ~Uniform,
                      \A p \in Run : pc[p] \notin {"dead", "partial"}, delayed = {},
                      \A p, q \in Run : \A k \in Target : ~(pc[p] = "failed" /\ prior[q][k] = p)
               PROVE  FALSE
    BY DEF MixIsReported
  <2>0. /\ TypeOK /\ \A p \in Run : RunFits(p)
        /\ Origins /\ Traces /\ (Excused \/ Ranked)
        /\ \A p \in Run, k \in Target : Held(p, k)
    BY DEF Inv
  <2>1. \A p \in Run : pc[p] \in {"new"} \cup Over
    BY DEF Active
  <2>2. \A p \in Run : ~errors[p] /\ (pc[p] \in Late => pc[p] = "failed")
    BY <2>0, <2>1 DEF RunFits, Late, Undoing, Over
  <2>3. ~Excused
    BY <2>2 DEF Excused
  <2>4. PICK F \in [Run -> Nat], n \in Nat : Ordered(F, n) /\ Stacked(F)
    BY <2>0, <2>3 DEF Ranked
  \* Whoever is at a target has succeeded, and stands at all of them.
  <2>5. ASSUME NEW p \in Run, NEW k \in Target, tgt[k] = p
        PROVE  \A j \in Target : Stands(p, j)
    <3>1. pc[p] \notin Early
      BY <2>0, <2>5 DEF Origins
    <3>2. pc[p] # "failed"
      <4>1. SUFFICES ASSUME pc[p] = "failed" PROVE FALSE
        OBVIOUS
      <4>2. created[p] = {} /\ updated[p] = {} /\ unknown[p] = Absent /\ k # Absent
        BY <2>0, <4>1, TargetFacts DEF RunFits, Over, Undoing
      <4> QED
        BY <2>0, <2>2, <2>5, <4>1, <4>2 DEF Held
    <3>3. pc[p] = "succeeded"
      BY <2>1, <3>1, <3>2 DEF Over, Early
    <3> QED
      BY <3>3 DEF Stands, Early, Late, Undoing
  <2>6. PICK i \in Target : tgt[i] \in Run
    BY DEF Uniform
  <2>7. PICK j \in Target : tgt[j] # tgt[i]
    BY <2>6 DEF Uniform
  <2>8. tgt[j] \in Run /\ F[tgt[i]] <= F[tgt[j]]
    BY <2>4, <2>5, <2>6 DEF Stacked
  <2>9. F[tgt[j]] <= F[tgt[i]]
    BY <2>4, <2>5, <2>6, <2>8 DEF Stacked
  <2>10. F[tgt[i]] # 0 /\ F[tgt[i]] = F[tgt[j]]
    BY <2>4, <2>6, <2>8, <2>9 DEF Ordered
  <2> QED
    BY <2>4, <2>6, <2>7, <2>8, <2>10 DEF Ordered
<1> QED
  BY <1>1, Invariant, PTL
=============================================================================
