----------------------- MODULE PrototypeJournalProofs -----------------------
(***************************************************************************)
(* Theorems about PrototypeJournal, for any number of tables, with or      *)
(* without a Semantic Model, and for every number of kills, lost requests, *)
(* interferences and changes of code.                                      *)
(***************************************************************************)
EXTENDS PrototypeJournal, FiniteSetTheorems, TLAPS

Item == [kind : Kind, by : {"run", "other"}, live : BOOLEAN]
Service == {"none", "sent", "sync", "running", "succeeded", "failed", "rejected"}
TableState == {"absent", "sent", "ours", "touched", "other"}

-----------------------------------------------------------------------------
(* Steps.                                                                  *)

\* A publication has a step for the Lakehouse, each table and each native item.
LEMMA LastValue ==
  /\ Last = Tables + (IF SemanticModel THEN 3 ELSE 2)
  /\ Last \in Nat /\ 1 \in 1..Last
<1>1. Cardinality({"ontology"}) = 1 /\ IsFiniteSet({"ontology"})
  BY FS_Singleton
<1>2. Cardinality({"ontology"} \cup {"semantic_model"}) = 2
  BY <1>1, FS_AddElement
<1>3. CASE SemanticModel
  <2>1. Native = {"ontology"} \cup {"semantic_model"}
    BY <1>3 DEF Native
  <2> QED
    BY <1>2, <1>3, <2>1, PublicationAssumption DEF Last
<1>4. CASE ~SemanticModel
  <2>1. Native = {"ontology"}
    BY <1>4 DEF Native
  <2> QED
    BY <1>1, <1>4, <2>1, PublicationAssumption DEF Last
<1> QED
  BY <1>3, <1>4

\* The kinds of the steps that create: the Lakehouse first, then the natives.
LEMMA Steps ==
  ASSUME NEW n \in 1..Last, ~IsTable(n)
  PROVE  /\ KindAt(n) \in Kind
         /\ n = 1 <=> KindAt(n) = "lakehouse"
         /\ n # 1 => n >= Tables + 2 /\ KindAt(n) \in Native
<1>1. Tables \in Nat
  BY PublicationAssumption
<1>2. n = 1 \/ n >= Tables + 2
  BY <1>1, LastValue DEF IsTable
<1>3. CASE n = 1
  BY <1>1, <1>3 DEF KindAt, Kind
<1>4. CASE n # 1 /\ n = Tables + 2
  BY <1>1, <1>4 DEF KindAt, Kind, Native
<1>5. CASE n # 1 /\ n # Tables + 2
  <2>1. SemanticModel
    BY <1>1, <1>2, <1>5, LastValue
  <2> QED
    BY <1>1, <1>2, <1>5, <2>1 DEF KindAt, Kind, Native
<1> QED
  BY <1>3, <1>4, <1>5

\* The steps that write are those of the tables.
LEMMA TableSteps ==
  ASSUME NEW n \in 1..Last, IsTable(n)
  PROVE  TableAt(n) \in Table /\ n # 1 /\ n # Last /\ n + 1 \in 1..Last
  BY LastValue, PublicationAssumption DEF IsTable, TableAt, Table

-----------------------------------------------------------------------------
(* Items.                                                                  *)

\* A new item joins those made by who made it.
LEMMA MadeAppend ==
  ASSUME items \in Seq(Item), NEW k \in Kind, NEW who \in {"run", "other"},
         items' = Append(items, NewItem(k, who))
  PROVE  /\ items' \in Seq(Item)
         /\ who = "run" => Made(k)' = Made(k) \cup {Len(items) + 1}
         /\ who = "other" => Made(k)' = Made(k)
         /\ \A j \in Kind \ {k} : Made(j)' = Made(j)
<1>1. NewItem(k, who) \in Item
  BY DEF NewItem, Item
<1>2. /\ items' \in Seq(Item) /\ Len(items') = Len(items) + 1
      /\ \A i \in 1..Len(items) : items'[i] = items[i]
      /\ items'[Len(items) + 1] = NewItem(k, who)
  BY <1>1
<1>3. DOMAIN items = 1..Len(items) /\ DOMAIN items' = 1..(Len(items) + 1) /\ Len(items) \in Nat
  BY <1>2
<1>4. NewItem(k, who).by = who /\ NewItem(k, who).kind = k
  BY DEF NewItem
<1> QED
  BY <1>2, <1>3, <1>4 DEF Made

\* Deleting an item does not change who made it.
LEMMA MadeDeleted ==
  ASSUME items \in Seq(Item), NEW i \in DOMAIN items,
         items' = [items EXCEPT ![i].live = FALSE]
  PROVE  items' \in Seq(Item) /\ \A k \in Kind : Made(k)' = Made(k)
<1>1. items[i] \in Item
  OBVIOUS
<1>3. [items[i] EXCEPT !.live = FALSE] \in Item
  BY <1>1 DEF Item
<1>2. /\ items' \in Seq(Item) /\ DOMAIN items' = DOMAIN items
      /\ \A j \in DOMAIN items : items'[j].by = items[j].by /\ items'[j].kind = items[j].kind
  BY <1>1, <1>3
<1> QED
  BY <1>2 DEF Made

\* An item's id is a number.
LEMMA MadeNat ==
  ASSUME items \in Seq(Item), NEW k \in Kind
  PROVE  Made(k) \subseteq Nat
  BY DEF Made

\* What a run made is never forgotten.
LEMMA MadeGrows ==
  ASSUME TypeOK, [Next]_vars, NEW k \in Kind
  PROVE  Made(k) \subseteq Made(k)'
<1>1. CASE items' = items
  BY <1>1 DEF Made
<1>2. ASSUME NEW j \in Kind, NEW who \in {"run", "other"},
             items' = Append(items, NewItem(j, who))
      PROVE  Made(k) \subseteq Made(k)'
  BY <1>2, MadeAppend DEF TypeOK, Item
<1>3. ASSUME NEW i \in DOMAIN items, items' = [items EXCEPT ![i].live = FALSE]
      PROVE  Made(k) \subseteq Made(k)'
  BY <1>3, MadeDeleted DEF TypeOK, Item
<1> QED
  BY <1>1, <1>2, <1>3 DEF Next, Work, Start, Baseline, Intend, Resume, ResumeReconciled, Post,
     Reply, Body, Resolve, Poll, Result, Own, Identity, Define, IntendWrite, Write, Written,
     Prove, Ready, Fail, Kill, Lose, Others, Upgrade, Accept, Review, Serve, Finish, Commit,
     vars, service

-----------------------------------------------------------------------------
(* Shape.                                                                  *)

Creating == {"post", "wait", "body", "resolve", "poll", "result", "own", "identity"}
Writing == {"write", "written", "prove"}

\* The place of the command fits the step it is at.
PlaceFits ==
    /\ pc \in {"idle", "baseline"} => at = 1
    /\ pc \in Creating => ~IsTable(at)
    /\ pc = "define" => ~IsTable(at) /\ at # 1
    /\ pc \in Writing => IsTable(at)

\* The Lakehouse is never reconciled.
LakehouseOwn == act["lakehouse"].owner = "journal"

LEMMA KindsType == "lakehouse" \in Kind /\ Native \subseteq Kind
  BY DEF Kind

LEMMA AtHere ==
  ASSUME TypeOK, ~IsTable(at)
  PROVE  Here \in Kind /\ act[Here] \in Action
  BY Steps DEF TypeOK, Here

\* Saving an action keeps the shape of the journal.
LEMMA SaveType ==
  ASSUME TypeOK, ~IsTable(at), NEW a \in Action, Save(a)
  PROVE  act' \in [Kind -> Action]
  BY AtHere DEF Save, TypeOK

LEMMA NoActionType == NoAction \in Action
  BY DEF NoAction, Action, Answer, ItemId

LEMMA StopType ==
  ASSUME TypeOK, Stop
  PROVE  /\ pc' = "idle" /\ at' \in 1..Last /\ got' \in ItemId /\ late' \in BOOLEAN
         /\ status' = "partial-retained"
  BY LastValue DEF Stop, ItemId

LEMMA AdvanceType ==
  ASSUME TypeOK, Advance
  PROVE  /\ pc' \in {"ready", "step"} /\ at' \in 1..Last /\ got' \in ItemId
         /\ late' \in BOOLEAN
<1>1. at \in 1..Last /\ (at # Last => at + 1 \in 1..Last)
  BY LastValue DEF TypeOK
<1> QED
  BY <1>1 DEF Advance, ItemId

\* The command's own steps keep the shape of the variables.
LEMMA WorkType ==
  ASSUME TypeOK, PlaceFits, LakehouseOwn, Work
  PROVE  TypeOK'
<1> USE StopType, AdvanceType
<1>1. CASE Baseline
  BY <1>1 DEF Baseline, service, bounds, TypeOK
<1>2. CASE Intend
  <2>1. [NoAction EXCEPT !.status = "intent"] \in Action
    BY NoActionType DEF Action, NoAction
  <2>2. ~IsTable(at)
    BY <1>2 DEF Intend, AtCreate
  <2>3. act' \in [Kind -> Action]
    BY <1>2, <2>1, <2>2, SaveType DEF Intend, TypeOK
  <2> QED
    BY <1>2, <2>3 DEF Intend, service, bounds, TypeOK
<1>3. CASE Resume
  BY <1>3 DEF Resume, service, bounds, TypeOK
<1>4. CASE ResumeReconciled
  <2>1. act[Here] \in Action
    BY <1>4, AtHere DEF ResumeReconciled, AtCreate
  <2>2. act[Here].item \in ItemId
    BY <2>1 DEF Action
  <2> QED
    BY <1>4, <2>2 DEF ResumeReconciled, service, bounds, TypeOK
<1>5. CASE Post
  <2>1. Here \in Kind
    BY <1>5, AtHere DEF Post, Goto, PlaceFits, Creating
  <2> QED
    BY <1>5, <2>1 DEF Post, Goto, journal, bounds, TypeOK
<1>6. CASE Reply
  <2>1. ~IsTable(at) /\ act[Here] \in Action /\ svc[Here] \in Service
    BY <1>6, AtHere DEF Reply, PlaceFits, Creating, TypeOK, Service
  <2>2. act' \in [Kind -> Action]
    <3>1. CASE svc[Here] = "none"
      BY <1>6, <3>1 DEF Reply, TypeOK
    <3>2. CASE svc[Here] # "none"
      <4>1. PICK ref \in BOOLEAN :
              Save([act[Here] EXCEPT
                     !.status = "received",
                     !.http = IF svc[Here] \in {"sync", "rejected"}
                              THEN svc[Here] ELSE "accepted",
                     !.ref = ref /\ svc[Here] \notin {"sync", "rejected"}])
        BY <1>6, <3>2 DEF Reply
      <4> DEFINE h == IF svc[Here] \in {"sync", "rejected"} THEN svc[Here] ELSE "accepted"
                 r == ref /\ svc[Here] \notin {"sync", "rejected"}
      <4>2. h \in Answer /\ r \in BOOLEAN
        BY DEF Answer
      <4> HIDE DEF h, r
      <4>3. [act[Here] EXCEPT !.status = "received", !.http = h, !.ref = r] \in Action
        BY <2>1, <4>2 DEF Action
      <4> QED
        BY <2>1, <4>1, <4>3, SaveType DEF h, r
    <3> QED
      BY <3>1, <3>2
  <2> QED
    BY <1>6, <2>2 DEF Reply, service, bounds, TypeOK
<1>7. CASE Body
  <2>1. ~IsTable(at) /\ act[Here] \in Action /\ Here \in Kind
    BY <1>7, AtHere DEF Body, PlaceFits, Creating
  <2>2. \A id \in Made(Here) \cup {None} : [act[Here] EXCEPT !.returned = id] \in Action
    BY <2>1, MadeNat DEF Action, ItemId, TypeOK, Item
  <2>3. act' \in [Kind -> Action]
    BY <1>7, <2>1, <2>2, SaveType DEF Body, TypeOK
  <2> QED
    BY <1>7, <2>3 DEF Body, service, bounds, TypeOK
<1>8. CASE Resolve
  <2>1. act[Here] \in Action
    BY <1>8, AtHere DEF Resolve, PlaceFits, Creating
  <2>2. act[Here].item \in ItemId /\ act[Here].returned \in ItemId
    BY <2>1 DEF Action
  <2> QED
    BY <1>8, <2>2 DEF Resolve, service, bounds, TypeOK
<1>9. CASE Poll
  <2>1. ~IsTable(at) /\ act[Here] \in Action
    BY <1>9, AtHere DEF Poll, PlaceFits, Creating
  <2>2. /\ [act[Here] EXCEPT !.op = "running"] \in Action
        /\ [act[Here] EXCEPT !.op = "succeeded"] \in Action
        /\ [act[Here] EXCEPT !.op = "failed", !.status = "failed"] \in Action
    BY <2>1 DEF Action
  <2>3. act' \in [Kind -> Action]
    BY <1>9, <2>1, <2>2, SaveType DEF Poll, TypeOK
  <2> QED
    BY <1>9, <2>3 DEF Poll, service, bounds, TypeOK
<1>10. CASE Result
  <2>1. ~IsTable(at) /\ act[Here] \in Action /\ Here \in Kind
    BY <1>10, AtHere DEF Result, PlaceFits, Creating
  <2>2. \A id \in Made(Here) : id \in ItemId /\ [act[Here] EXCEPT !.returned = id] \in Action
    BY <2>1, MadeNat DEF Action, ItemId, TypeOK, Item
  <2>3. act' \in [Kind -> Action]
    BY <1>10, <2>1, <2>2, SaveType DEF Result, TypeOK
  <2> QED
    BY <1>10, <2>2, <2>3 DEF Result, service, bounds, TypeOK
<1>11. CASE Own
  <2>1. ~IsTable(at) /\ act[Here] \in Action
    BY <1>11, AtHere DEF Own, Goto, PlaceFits, Creating
  <2>2. [act[Here] EXCEPT !.item = got, !.status = "created"] \in Action
    BY <2>1 DEF Action, TypeOK
  <2>3. act' \in [Kind -> Action]
    BY <1>11, <2>1, <2>2, SaveType DEF Own
  <2> QED
    BY <1>11, <2>3 DEF Own, Goto, service, bounds, TypeOK
<1>12. CASE Identity
  <2>1. ~IsTable(at) /\ act[Here] \in Action
    BY <1>12, AtHere DEF Identity, PlaceFits, Creating
  <2>2. [act[Here] EXCEPT !.status = "verified"] \in Action
    BY <2>1 DEF Action
  <2>3. act' \in [Kind -> Action]
    BY <1>12, <2>1, <2>2, SaveType DEF Identity, TypeOK
  <2> QED
    BY <1>12, <2>3 DEF Identity, service, bounds, TypeOK
<1>13. CASE Define
  BY <1>13 DEF Define, service, bounds, TypeOK
<1>14. CASE IntendWrite
  <2>1. TableAt(at) \in Table
    BY <1>14, TableSteps DEF IntendWrite, AtTable
  <2> QED
    BY <1>14, <2>1 DEF IntendWrite, service, bounds, TypeOK
<1>15. CASE Write
  <2>1. TableAt(at) \in Table
    BY <1>15, TableSteps DEF Write, PlaceFits, Writing, TypeOK
  <2> QED
    BY <1>15, <2>1 DEF Write, bounds, TypeOK
<1>16. CASE Written
  <2>1. TableAt(at) \in Table
    BY <1>16, TableSteps DEF Written, PlaceFits, Writing, TypeOK
  <2> QED
    BY <1>16, <2>1 DEF Written, service, bounds, TypeOK
<1>17. CASE Prove
  <2>1. TableAt(at) \in Table
    BY <1>17, TableSteps DEF Prove, PlaceFits, Writing, TypeOK
  <2> QED
    BY <1>17, <2>1 DEF Prove, service, bounds, TypeOK
<1>18. CASE Ready
  BY <1>18, LastValue DEF Ready, service, bounds, TypeOK, ItemId
<1> QED
  BY <1>1, <1>2, <1>3, <1>4, <1>5, <1>6, <1>7, <1>8, <1>9, <1>10, <1>11, <1>12,
     <1>13, <1>14, <1>15, <1>16, <1>17, <1>18 DEF Work

\* Every step keeps the shape of the variables.
LEMMA TypeNext ==
  ASSUME TypeOK, PlaceFits, LakehouseOwn, [Next]_vars
  PROVE  TypeOK'
<1>1. CASE UNCHANGED vars
  BY <1>1 DEF vars, service, journal, command, bounds, TypeOK
<1>2. CASE Work
  BY <1>2, WorkType
<1>3. CASE Start
  BY <1>3 DEF Start, Goto, service, bounds, TypeOK
<1>4. CASE Fail
  BY <1>4, StopType, PublicationAssumption DEF Fail, service, TypeOK
<1>5. CASE Kill
  <2>1. faults' \in 0..MaxFaults
    BY <1>5, PublicationAssumption DEF Kill, TypeOK
  <2>2. at' \in 1..Last /\ got' \in ItemId /\ late' \in BOOLEAN
    BY <1>5, LastValue DEF Kill, ItemId
  <2> QED
    BY <1>5, <2>1, <2>2 DEF Kill, service, journal, TypeOK
<1>6. CASE Lose
  <2>1. faults' \in 0..MaxFaults
    BY <1>6, PublicationAssumption DEF Lose, TypeOK
  <2>2. svc' \in [Kind -> Service] /\ onelake' \in [Table -> TableState]
    BY <1>6 DEF Lose, TypeOK, Service, TableState
  <2> QED
    BY <1>6, <2>1, <2>2 DEF Lose, journal, command, TypeOK, Service, TableState
<1>7. CASE Others
  <2>1. items' \in Seq(Item)
    BY <1>7, MadeAppend, MadeDeleted DEF Others, TypeOK, Item
  <2>2. onelake' \in [Table -> TableState]
    BY <1>7 DEF Others, TypeOK, TableState
  <2> QED
    BY <1>7, <2>1, <2>2, PublicationAssumption
       DEF Others, journal, command, TypeOK, Item, TableState
<1>8. CASE Upgrade
  BY <1>8, PublicationAssumption DEF Upgrade, service, journal, command, bounds, TypeOK
<1>9. CASE Accept
  <2>1. /\ review \in [kind : Native, item : Nat, program : Nat]
        /\ review.kind \in Kind /\ review.item \in ItemId
        /\ act[review.kind] \in Action
    BY <1>9, KindsType DEF Accept, TypeOK, ItemId
  <2>2. [act[review.kind] EXCEPT !.item = review.item, !.owner = "operator"] \in Action
    BY <2>1 DEF Action
  <2>3. act' \in [Kind -> Action]
    BY <1>9, <2>1, <2>2 DEF Accept, TypeOK
  <2> QED
    BY <1>9, <2>1, <2>3 DEF Accept, service, command, bounds, TypeOK
<1>10. ASSUME NEW k \in Native, NEW i \in DOMAIN items, Review(k, i)
       PROVE  TypeOK'
  <2>1. i \in Nat /\ program \in Nat
    BY PublicationAssumption DEF TypeOK, Item
  <2> QED
    BY <1>10, <2>1 DEF Review, service, journal, command, bounds, TypeOK
<1>11. ASSUME NEW k \in Kind, Serve(k) \/ Finish(k)
       PROVE  TypeOK'
  <2>1. items' \in Seq(Item)
    BY <1>11, MadeAppend DEF Serve, Finish, TypeOK, Item
  <2>2. svc' \in [Kind -> Service]
    BY <1>11 DEF Serve, Finish, TypeOK, Service
  <2> QED
    BY <1>11, <2>1, <2>2 DEF Serve, Finish, journal, command, bounds, TypeOK, Item, Service
<1>12. ASSUME NEW t \in Table, Commit(t)
       PROVE  TypeOK'
  BY <1>12 DEF Commit, journal, command, bounds, TypeOK
<1> QED
  BY <1>1, <1>2, <1>3, <1>4, <1>5, <1>6, <1>7, <1>8, <1>9, <1>10, <1>11, <1>12 DEF Next

\* The place of the command always fits its step.
LEMMA PlaceNext ==
  ASSUME TypeOK, PlaceFits, LakehouseOwn, [Next]_vars
  PROVE  PlaceFits'
<1>1. CASE UNCHANGED command
  BY <1>1 DEF command, PlaceFits, IsTable
<1>2. CASE Stop \/ (pc' = "idle" /\ at' = 1)
  BY <1>2 DEF Stop, PlaceFits, Creating, Writing
<1>3. CASE Advance
  BY <1>3 DEF Advance, PlaceFits, Creating, Writing
<1>4. CASE Start
  BY <1>4 DEF Start, Goto, PlaceFits, Creating, Writing
<1>5. CASE Work /\ ~Stop /\ ~Advance /\ ~(pc' = "idle" /\ at' = 1)
  <2> USE <1>5 DEF PlaceFits, Creating, Writing, IsTable
  <2>1. CASE Baseline
    BY <2>1 DEF Baseline
  <2>2. CASE Intend \/ Resume
    BY <2>2 DEF Intend, Resume, AtCreate
  <2>3. CASE ResumeReconciled
    <3>1. ~IsTable(at) /\ act[Here].owner = "operator"
      BY <2>3 DEF ResumeReconciled, AtCreate
    <3>2. at # 1
      BY <3>1 DEF LakehouseOwn, Here, KindAt
    <3> QED
      BY <2>3, <3>1, <3>2 DEF ResumeReconciled
  <2>4. CASE Post \/ Own
    BY <2>4 DEF Post, Own, Goto
  <2>5. CASE Reply \/ Body \/ Resolve \/ Poll \/ Result
    BY <2>5 DEF Reply, Body, Resolve, Poll, Result
  <2>6. CASE Identity
    <3>1. Here # "lakehouse" => at # 1
      BY DEF Here, KindAt
    <3> QED
      BY <2>6, <3>1 DEF Identity
  <2>7. CASE Define
    BY <2>7 DEF Define
  <2>8. CASE IntendWrite \/ Write \/ Written \/ Prove
    BY <2>8 DEF IntendWrite, Write, Written, Prove, AtTable
  <2>9. CASE Ready
    BY <2>9 DEF Ready
  <2> QED
    BY <2>1, <2>2, <2>3, <2>4, <2>5, <2>6, <2>7, <2>8, <2>9 DEF Work
<1>6. CASE Fail \/ Kill
  BY <1>2, <1>6 DEF Fail, Kill
<1>7. CASE ~(Work \/ Start \/ Fail \/ Kill)
  BY <1>1, <1>7 DEF Next, Lose, Others, Upgrade, Accept, Review, Serve, Finish, Commit, vars,
     command
<1> QED
  BY <1>2, <1>3, <1>4, <1>5, <1>6, <1>7

-----------------------------------------------------------------------------
(* Creates.                                                                *)

\* What holds of every create: nothing was requested before its intent; one
\* request at most was made, and no more than one item came of it; whatever id
\* the journal holds is that item's.
CreateFacts(k) ==
    /\ act[k].status = "none" => act[k] = NoAction /\ sent[k] = 0 /\ svc[k] = "none"
    /\ sent[k] <= 1
    /\ svc[k] \notin {"sync", "succeeded"} => Made(k) = {}
    /\ \A i, j \in Made(k) : i = j
    /\ act[k].item # None => act[k].item \in Made(k)
    /\ act[k].returned # None => act[k].returned \in Made(k)

\* What the command knows at its place: it is at work on a create of its own,
\* which it requests only if it never did, and the id in its hand is the item's.
PlaceKnows ==
    /\ pc \in Creating => act[Here].owner = "journal" /\ act[Here].status # "none"
    /\ pc = "post" => sent[Here] = 0 /\ svc[Here] = "none"
    /\ pc \in {"post", "wait", "body"} => act[Here].item = None /\ act[Here].returned = None
    /\ pc \in {"own", "identity"} => got \in Made(Here)

Facts == \A k \in Kind : CreateFacts(k)

\* The step of OwnershipFinal, for one kind.
Kept(k) ==
    /\ act[k].item # None => act'[k].item = act[k].item
    /\ act[k].returned # None => act'[k].returned = act[k].returned
    /\ act[k].owner = "operator" => act'[k] = act[k]

\* Saving changes the action of the current create alone.
LEMMA SaveAt ==
  ASSUME TypeOK, ~IsTable(at), NEW a, Save(a)
  PROVE  act'[Here] = a /\ \A k \in Kind \ {Here} : act'[k] = act[k]
  BY AtHere DEF Save, TypeOK

\* A create nobody touches keeps its facts.
LEMMA CreateSame ==
  ASSUME NEW k \in Kind, CreateFacts(k),
         act'[k] = act[k], sent'[k] = sent[k], svc'[k] = svc[k], Made(k)' = Made(k)
  PROVE  CreateFacts(k)' /\ Kept(k)
  BY DEF CreateFacts, Kept

\* So does one whose recorded ids stay as they are.
LEMMA CreateSaved ==
  ASSUME NEW k \in Kind, CreateFacts(k), act[k].owner = "journal",
         act'[k].status # "none", act'[k].item = act[k].item,
         act'[k].returned = act[k].returned,
         sent'[k] = sent[k], svc'[k] = svc[k], Made(k)' = Made(k)
  PROVE  CreateFacts(k)' /\ Kept(k)
  BY DEF CreateFacts, Kept

LEMMA MadeSame ==
  ASSUME items' = items, NEW k
  PROVE  Made(k)' = Made(k)
  BY DEF Made

\* The facts hold after every step of the command, and no word is revised.
LEMMA CreateWork ==
  ASSUME TypeOK, PlaceFits, PlaceKnows, \A k \in Kind : CreateFacts(k), Work
  PROVE  \A k \in Kind : CreateFacts(k)' /\ Kept(k)
<1>1. CASE UNCHANGED <<items, svc, act, sent>>
  BY <1>1, CreateSame, MadeSame
<1>2. ASSUME NEW a, Save(a), ~IsTable(at), UNCHANGED <<items, svc, sent>>,
             \A h \in Kind : h = Here => CreateFacts(h)' /\ Kept(h)
      PROVE  \A k \in Kind : CreateFacts(k)' /\ Kept(k)
  <2> TAKE k \in Kind
  <2>1. CASE k = Here
    BY <1>2, <2>1
  <2>2. CASE k # Here
    BY <1>2, <2>2, SaveAt, CreateSame, MadeSame
  <2> QED
    BY <2>1, <2>2
<1>3. ASSUME NEW a, Save(a), ~IsTable(at), UNCHANGED <<items, svc, sent>>,
             act[Here].owner = "journal", a.status # "none", a.item = act[Here].item,
             a.returned = act[Here].returned
      PROVE  \A k \in Kind : CreateFacts(k)' /\ Kept(k)
  <2>1. Here \in Kind /\ act'[Here] = a
    BY <1>3, SaveAt, AtHere
  <2> QED
    BY <1>2, <1>3, <2>1, CreateSaved, MadeSame
<1>4. CASE Intend
  <2>1. CASE Named(Here) # {}
    BY <1>1, <1>4, <2>1 DEF Intend, service
  <2>2. CASE Named(Here) = {}
    <3>1. ~IsTable(at) /\ Here \in Kind /\ Save([NoAction EXCEPT !.status = "intent"])
      BY <1>4, <2>2, AtHere DEF Intend, AtCreate
    <3>2. act[Here] = NoAction
      BY <1>4, <3>1 DEF Intend, CreateFacts
    <3>3. UNCHANGED <<items, svc, sent>>
      BY <1>4 DEF Intend, service
    <3> QED
      BY <1>3, <3>1, <3>2, <3>3 DEF NoAction
  <2> QED
    BY <2>1, <2>2
<1>5. CASE Post
  <2>1. /\ Here \in Kind /\ act[Here].status # "none" /\ sent[Here] = 0
        /\ svc[Here] = "none" /\ UNCHANGED <<items, act>>
    BY <1>5, AtHere DEF Post, Goto, PlaceFits, PlaceKnows, Creating, journal
  <2>2. /\ sent'[Here] = 1 /\ svc'[Here] = "sent"
        /\ \A k \in Kind \ {Here} : sent'[k] = sent[k] /\ svc'[k] = svc[k]
    BY <1>5, <2>1 DEF Post, TypeOK
  <2>3. \A h \in Kind : h = Here => CreateFacts(h)' /\ Kept(h)
    <3>2. Made(Here) = {} /\ \A k : Made(k)' = Made(k)
      BY <2>1, MadeSame DEF CreateFacts
    <3> QED
      BY <2>1, <2>2, <3>2 DEF CreateFacts, Kept
  <2> TAKE k \in Kind
  <2>4. CASE k = Here
    BY <2>3, <2>4
  <2>5. CASE k # Here
    BY <2>1, <2>2, <2>5, CreateSame, MadeSame
  <2> QED
    BY <2>4, <2>5
<1>6. CASE Reply
  <2>1. CASE svc[Here] = "none"
    BY <1>1, <1>6, <2>1 DEF Reply, service
  <2>2. CASE svc[Here] # "none"
    <3>1. ~IsTable(at) /\ act[Here] \in Action /\ act[Here].owner = "journal"
      BY <1>6, AtHere DEF Reply, PlaceFits, PlaceKnows, Creating
    <3>2. PICK ref \in BOOLEAN :
            Save([act[Here] EXCEPT
                   !.status = "received",
                   !.http = IF svc[Here] \in {"sync", "rejected"}
                            THEN svc[Here] ELSE "accepted",
                   !.ref = ref /\ svc[Here] \notin {"sync", "rejected"}])
      BY <1>6, <2>2 DEF Reply
    <3> DEFINE h == IF svc[Here] \in {"sync", "rejected"} THEN svc[Here] ELSE "accepted"
               r == ref /\ svc[Here] \notin {"sync", "rejected"}
               a == [act[Here] EXCEPT !.status = "received", !.http = h, !.ref = r]
    <3> HIDE DEF h, r
    <3>3. /\ a.status # "none" /\ a.item = act[Here].item
          /\ a.returned = act[Here].returned
      BY <3>1 DEF Action
    <3>4. Save(a)
      BY <3>2 DEF h, r
    <3> HIDE DEF a
    <3> QED
      BY <1>3, <1>6, <3>1, <3>3, <3>4 DEF Reply, service
  <2> QED
    BY <2>1, <2>2
<1>7. CASE Body
  <2>1. CASE act[Here].http = "rejected"
    BY <1>1, <1>7, <2>1 DEF Body, service
  <2>2. CASE act[Here].http # "rejected"
    <3>1. /\ ~IsTable(at) /\ act[Here] \in Action /\ act[Here].owner = "journal"
          /\ Here \in Kind /\ act[Here].status # "none"
          /\ act[Here].item = None /\ act[Here].returned = None
      BY <1>7, AtHere DEF Body, PlaceFits, PlaceKnows, Creating
    <3>2. PICK id \in Made(Here) \cup {None} : Save([act[Here] EXCEPT !.returned = id])
      BY <1>7, <2>2 DEF Body
    <3> DEFINE a == [act[Here] EXCEPT !.returned = id]
    <3>3. /\ a.status # "none" /\ a.item = None /\ a.returned = id
      BY <3>1 DEF Action
    <3>4. Save(a)
      BY <3>2
    <3> HIDE DEF a
    <3>5. act'[Here] = a /\ UNCHANGED <<items, svc, sent>>
      BY <1>7, <3>1, <3>4, SaveAt DEF Body, service
    <3>6. \A h \in Kind : h = Here => CreateFacts(h)' /\ Kept(h)
      BY <1>7, <2>2, <3>1, <3>2, <3>3, <3>5 DEF Body, CreateFacts, Kept, Made
    <3> QED
      BY <1>2, <3>1, <3>4, <3>5, <3>6
  <2> QED
    BY <2>1, <2>2
<1>8. CASE Poll
  <2>1. /\ ~IsTable(at) /\ act[Here] \in Action /\ act[Here].owner = "journal"
        /\ act[Here].status # "none"
    BY <1>8, AtHere DEF Poll, PlaceFits, PlaceKnows, Creating
  <2>2. UNCHANGED <<items, svc, sent>>
    BY <1>8 DEF Poll, service
  <2>3. CASE UNCHANGED act
    BY <1>1, <2>2, <2>3
  <2>4. \A x \in {"running", "succeeded"} :
          Save([act[Here] EXCEPT !.op = x]) => \A k \in Kind : CreateFacts(k)' /\ Kept(k)
    <3> TAKE x \in {"running", "succeeded"}
    <3> DEFINE a == [act[Here] EXCEPT !.op = x]
    <3>1. a.status = act[Here].status /\ a.item = act[Here].item /\ a.returned = act[Here].returned
      BY <2>1 DEF Action
    <3> HIDE DEF a
    <3>2. Save(a) => \A k \in Kind : CreateFacts(k)' /\ Kept(k)
      BY <1>3, <2>1, <2>2, <3>1
    <3> QED
      BY <3>2 DEF a
  <2>5. ASSUME Save([act[Here] EXCEPT !.op = "failed", !.status = "failed"])
        PROVE  \A k \in Kind : CreateFacts(k)' /\ Kept(k)
    <3> DEFINE a == [act[Here] EXCEPT !.op = "failed", !.status = "failed"]
    <3>1. a.status = "failed" /\ a.item = act[Here].item /\ a.returned = act[Here].returned
      BY <2>1 DEF Action
    <3>2. Save(a)
      BY <2>5
    <3> HIDE DEF a
    <3> QED
      BY <1>3, <2>1, <2>2, <3>1, <3>2
  <2> QED
    BY <1>8, <2>3, <2>4, <2>5 DEF Poll
<1>9. CASE Result
  <2>1. /\ ~IsTable(at) /\ act[Here] \in Action /\ act[Here].owner = "journal"
        /\ Here \in Kind /\ act[Here].status # "none"
    BY <1>9, AtHere DEF Result, PlaceFits, PlaceKnows, Creating
  <2>2. UNCHANGED <<items, svc, sent>>
    BY <1>9 DEF Result, service
  <2>3. CASE UNCHANGED act
    BY <1>1, <2>2, <2>3
  <2>4. CASE ~UNCHANGED act
    <3>1. PICK id \in Made(Here) : Save([act[Here] EXCEPT !.returned = id])
      BY <1>9, <2>4 DEF Result
    <3> DEFINE a == [act[Here] EXCEPT !.returned = id]
    <3>2. a.status # "none" /\ a.item = act[Here].item /\ a.returned = id /\ a.owner = "journal"
      BY <2>1 DEF Action
    <3>3. Save(a)
      BY <3>1
    <3> HIDE DEF a
    <3>4. act'[Here] = a
      BY <2>1, <3>3, SaveAt
    <3>5. \A h \in Kind : h = Here => CreateFacts(h)' /\ Kept(h)
      BY <1>9, <2>1, <2>2, <3>1, <3>2, <3>4 DEF Result, CreateFacts, Kept, Made
    <3> QED
      BY <1>2, <2>1, <2>2, <3>3, <3>5
  <2> QED
    BY <2>3, <2>4
<1>10. CASE Own
  <2>1. /\ ~IsTable(at) /\ act[Here] \in Action /\ act[Here].owner = "journal"
        /\ Here \in Kind /\ got \in Made(Here)
    BY <1>10, AtHere DEF Own, Goto, PlaceFits, PlaceKnows, Creating
  <2>2. UNCHANGED <<items, svc, sent>>
    BY <1>10 DEF Own, service
  <2> DEFINE a == [act[Here] EXCEPT !.item = got, !.status = "created"]
  <2>3. a.status = "created" /\ a.item = got /\ a.returned = act[Here].returned
    BY <2>1 DEF Action
  <2>4. Save(a)
    BY <1>10 DEF Own
  <2> HIDE DEF a
  <2>5. act'[Here] = a
    BY <2>1, <2>4, SaveAt
  <2>6. \A h \in Kind : h = Here => CreateFacts(h)' /\ Kept(h)
    BY <1>10, <2>1, <2>2, <2>3, <2>5 DEF Own, CreateFacts, Kept, Made
  <2> QED
    BY <1>2, <2>1, <2>2, <2>4, <2>6
<1>11. CASE Identity
  <2>1. /\ ~IsTable(at) /\ act[Here] \in Action /\ act[Here].owner = "journal"
    BY <1>11, AtHere DEF Identity, PlaceFits, PlaceKnows, Creating
  <2>2. UNCHANGED <<items, svc, sent>>
    BY <1>11 DEF Identity, service
  <2>3. CASE UNCHANGED act
    BY <1>1, <2>2, <2>3
  <2>4. CASE ~UNCHANGED act
    <3> DEFINE a == [act[Here] EXCEPT !.status = "verified"]
    <3>1. a.status = "verified" /\ a.item = act[Here].item /\ a.returned = act[Here].returned
      BY <2>1 DEF Action
    <3>2. Save(a)
      BY <1>11, <2>4 DEF Identity
    <3> HIDE DEF a
    <3> QED
      BY <1>3, <2>1, <2>2, <3>1, <3>2
  <2> QED
    BY <2>3, <2>4
<1>12. CASE Baseline \/ Resume \/ ResumeReconciled \/ Resolve \/ Define \/ IntendWrite \/
            Write \/ Written \/ Prove \/ Ready
  BY <1>1, <1>12 DEF Baseline, Resume, ResumeReconciled, Resolve, Define, IntendWrite, Write,
     Written, Prove, Ready, service
<1> QED
  BY <1>4, <1>5, <1>6, <1>7, <1>8, <1>9, <1>10, <1>11, <1>12 DEF Work

\* The facts hold after every step, and no step revises a word of the journal.
LEMMA CreateNext ==
  ASSUME TypeOK, PlaceFits, PlaceKnows, \A k \in Kind : CreateFacts(k), [Next]_vars
  PROVE  \A k \in Kind : CreateFacts(k)' /\ Kept(k)
<1>1. CASE UNCHANGED <<items, svc, act, sent>>
  BY <1>1, CreateSame, MadeSame
<1>2. CASE Work
  BY <1>2, CreateWork
<1>3. CASE Lose
  <2> TAKE k \in Kind
  <2>1. act' = act /\ sent' = sent /\ Made(k)' = Made(k)
    BY <1>3, MadeSame DEF Lose, journal
  <2>2. svc'[k] = svc[k] \/ (svc[k] = "sent" /\ svc'[k] = "none")
    BY <1>3 DEF Lose, TypeOK
  <2> QED
    BY <2>1, <2>2 DEF CreateFacts, Kept
<1>4. CASE Others
  <2> TAKE k \in Kind
  <2>1. Made(k)' = Made(k)
    BY <1>4, MadeAppend, MadeDeleted, MadeSame DEF Others, TypeOK, Item
  <2>2. act' = act /\ sent' = sent /\ svc' = svc
    BY <1>4 DEF Others, journal
  <2> QED
    BY <2>1, <2>2, CreateSame
<1>5. CASE Accept
  <2> DEFINE r == review.kind
  <2>1. r \in Kind /\ act[r] \in Action /\ review.item \in DOMAIN items
        /\ review.item \in Made(r)
    BY <1>5, KindsType DEF Accept, Proof, Live, Made, TypeOK
  <2>2. /\ act[r].item = None /\ act[r].returned = None /\ act[r].owner = "journal"
        /\ act[r].status # "none"
    BY <1>5 DEF Accept, Unresolved
  <2>3. /\ act'[r].item = review.item /\ act'[r].returned = act[r].returned
        /\ act'[r].status = act[r].status
        /\ \A k \in Kind \ {r} : act'[k] = act[k]
    BY <1>5, <2>1 DEF Accept, TypeOK, Action
  <2>4. UNCHANGED <<items, svc, sent>>
    BY <1>5 DEF Accept, service
  <2> HIDE DEF r
  <2> TAKE k \in Kind
  <2>5. Made(k)' = Made(k)
    BY <2>4, MadeSame
  <2>6. CASE k = r
    BY <2>1, <2>2, <2>3, <2>4, <2>5, <2>6 DEF CreateFacts, Kept
  <2>7. CASE k # r
    BY <2>3, <2>4, <2>5, <2>7, CreateSame
  <2> QED
    BY <2>6, <2>7
<1>6. ASSUME NEW j \in Kind, Serve(j) \/ Finish(j)
      PROVE  \A k \in Kind : CreateFacts(k)' /\ Kept(k)
  <2>1. act' = act /\ sent' = sent
    BY <1>6 DEF Serve, Finish, journal
  <2>2. Made(j) = {} /\ act[j].status # "none"
    BY <1>6 DEF Serve, Finish, CreateFacts
  <2>3. svc'[j] # "none" /\ \A k \in Kind \ {j} : svc'[k] = svc[k]
    BY <1>6 DEF Serve, Finish, TypeOK
  <2>4. CASE items' = Append(items, NewItem(j, "run")) /\ svc'[j] \in {"sync", "succeeded"}
    <3>1. Made(j)' = {Len(items) + 1} /\ \A k \in Kind \ {j} : Made(k)' = Made(k)
      BY <2>2, <2>4, MadeAppend DEF TypeOK, Item
    <3> TAKE k \in Kind
    <3>2. CASE k = j
      BY <2>1, <2>2, <2>3, <2>4, <3>1, <3>2 DEF CreateFacts, Kept
    <3>3. CASE k # j
      BY <2>1, <2>3, <3>1, <3>3, CreateSame
    <3> QED
      BY <3>2, <3>3
  <2>5. CASE items' = items
    <3> TAKE k \in Kind
    <3>1. Made(k)' = Made(k)
      BY <2>5, MadeSame
    <3>2. CASE k = j
      BY <2>1, <2>2, <2>3, <3>1, <3>2 DEF CreateFacts, Kept
    <3>3. CASE k # j
      BY <2>1, <2>3, <3>1, <3>3, CreateSame
    <3> QED
      BY <3>2, <3>3
  <2> QED
    BY <1>6, <2>4, <2>5 DEF Serve, Finish, TypeOK
<1>7. CASE Start \/ Fail \/ Kill \/ Upgrade \/ UNCHANGED vars
  BY <1>1, <1>7 DEF Start, Fail, Kill, Upgrade, vars, service, journal
<1>8. ASSUME NEW k \in Native, NEW i \in DOMAIN items, Review(k, i)
      PROVE  \A j \in Kind : CreateFacts(j)' /\ Kept(j)
  BY <1>1, <1>8 DEF Review, service, journal
<1>9. ASSUME NEW t \in Table, Commit(t)
      PROVE  \A k \in Kind : CreateFacts(k)' /\ Kept(k)
  BY <1>1, <1>9, SMTT(30) DEF Commit, journal
<1> QED
  BY <1>2, <1>3, <1>4, <1>5, <1>6, <1>7, <1>8, <1>9 DEF Next

\* What is saved of a service's answer names no owner and owns no item.
LEMMA AnswerSaved ==
  ASSUME TypeOK, ~IsTable(at), act' # act, Reply \/ Body \/ Poll \/ Result \/ Identity
  PROVE  \E a : Save(a) /\ a.owner = act[Here].owner /\ a.item = act[Here].item
<1>1. act[Here] \in Action
  BY AtHere
<1>2. CASE Reply
  <2>1. PICK ref \in BOOLEAN :
          Save([act[Here] EXCEPT
                 !.status = "received",
                 !.http = IF svc[Here] \in {"sync", "rejected"}
                          THEN svc[Here] ELSE "accepted",
                 !.ref = ref /\ svc[Here] \notin {"sync", "rejected"}])
    BY <1>2 DEF Reply
  <2> DEFINE h == IF svc[Here] \in {"sync", "rejected"} THEN svc[Here] ELSE "accepted"
             r == ref /\ svc[Here] \notin {"sync", "rejected"}
             a == [act[Here] EXCEPT !.status = "received", !.http = h, !.ref = r]
  <2> HIDE DEF h, r
  <2>2. a.owner = act[Here].owner /\ a.item = act[Here].item
    BY <1>1 DEF Action
  <2> QED
    BY <2>1, <2>2 DEF h, r
<1>3. CASE Body
  <2>1. PICK id \in Made(Here) \cup {None} : Save([act[Here] EXCEPT !.returned = id])
    BY <1>3 DEF Body
  <2> DEFINE a == [act[Here] EXCEPT !.returned = id]
  <2>2. a.owner = act[Here].owner /\ a.item = act[Here].item
    BY <1>1 DEF Action
  <2> QED
    BY <2>1, <2>2
<1>4. CASE Poll
  <2>1. PICK x \in {"running", "succeeded", "failed"}, st \in {act[Here].status, "failed"} :
          Save([act[Here] EXCEPT !.op = x, !.status = st])
    <3>1. \A x : [act[Here] EXCEPT !.op = x] = [act[Here] EXCEPT !.op = x, !.status = @]
      BY <1>1 DEF Action
    <3> QED
      BY <1>1, <1>4, <3>1 DEF Poll
  <2> DEFINE a == [act[Here] EXCEPT !.op = x, !.status = st]
  <2>2. a.owner = act[Here].owner /\ a.item = act[Here].item
    BY <1>1 DEF Action
  <2> QED
    BY <2>1, <2>2
<1>5. CASE Result
  <2>1. PICK id \in Made(Here) : Save([act[Here] EXCEPT !.returned = id])
    BY <1>5 DEF Result
  <2> DEFINE a == [act[Here] EXCEPT !.returned = id]
  <2>2. a.owner = act[Here].owner /\ a.item = act[Here].item
    BY <1>1 DEF Action
  <2> QED
    BY <2>1, <2>2
<1>6. CASE Identity
  <2>1. Save([act[Here] EXCEPT !.status = "verified"])
    BY <1>6 DEF Identity
  <2> DEFINE a == [act[Here] EXCEPT !.status = "verified"]
  <2>2. a.owner = act[Here].owner /\ a.item = act[Here].item
    BY <1>1 DEF Action
  <2> QED
    BY <2>1, <2>2
<1> QED
  BY <1>2, <1>3, <1>4, <1>5, <1>6

\* The Lakehouse is never reconciled: only native items are reviewed.
LEMMA LakehouseNext ==
  ASSUME TypeOK, PlaceFits, PlaceKnows, LakehouseOwn, [Next]_vars
  PROVE  LakehouseOwn'
<1>1. CASE act' = act
  BY <1>1 DEF LakehouseOwn
<1>2. ASSUME NEW a, Save(a), ~IsTable(at), a.owner = "journal"
      PROVE  LakehouseOwn'
  BY <1>2, SaveAt, AtHere, KindsType DEF LakehouseOwn
<1>3. CASE Accept
  <2>1. review.kind \in Native
    BY <1>3 DEF Accept, TypeOK
  <2>2. review.kind # "lakehouse"
    BY <2>1 DEF Native
  <2> QED
    BY <1>3, <2>2, KindsType DEF Accept, TypeOK, LakehouseOwn
<1>4. CASE pc \in Creating /\ act' # act /\ ~Accept
  <2>1. ~IsTable(at) /\ act[Here] \in Action /\ act[Here].owner = "journal" /\ Here \in Kind
    BY <1>4, AtHere DEF PlaceFits, PlaceKnows
  <2>2. Reply \/ Body \/ Poll \/ Result \/ Own \/ Identity
    BY <1>4 DEF Next, Work, Start, Baseline, Intend, Resume, ResumeReconciled, Post, Resolve,
       Define, IntendWrite, Write, Written, Prove, Ready, Fail, Kill, Lose, Others, Upgrade,
       Review, Serve, Finish, Commit, vars, journal, Creating
  <2>3. CASE Own
    <3> DEFINE a == [act[Here] EXCEPT !.item = got, !.status = "created"]
    <3>1. a.owner = "journal"
      BY <2>1 DEF Action
    <3>2. Save(a)
      BY <2>3 DEF Own
    <3> HIDE DEF a
    <3> QED
      BY <1>2, <2>1, <3>1, <3>2
  <2>4. CASE ~Own
    BY <1>2, <1>4, <2>1, <2>2, <2>4, AnswerSaved
  <2> QED
    BY <2>3, <2>4
<1>5. CASE Intend
  BY <1>1, <1>2, <1>5 DEF Intend, AtCreate, NoAction
<1> QED
  BY <1>1, <1>3, <1>4, <1>5 DEF Next, Work, Start, Baseline, Resume, ResumeReconciled, Post,
     Reply, Body, Resolve, Poll, Result, Own, Identity, Goto, Define, IntendWrite, Write,
     Written, Prove, Ready, Fail, Kill, Lose, Others, Upgrade, Review, Serve, Finish, Commit,
     vars, journal, Creating

\* What the command knows at its place holds at the next one.
LEMMA PlaceKnowsNext ==
  ASSUME TypeOK, PlaceFits, PlaceKnows, \A k \in Kind : CreateFacts(k), [Next]_vars
  PROVE  PlaceKnows'
<1>1. CASE pc' \notin Creating
  BY <1>1 DEF PlaceKnows, Creating
<1>2. ASSUME at' = at
      PROVE  Here' = Here
  BY <1>2 DEF Here, KindAt
<1>3. CASE UNCHANGED <<command, act, sent>> /\ pc \in Creating
  <2>1. Here' = Here /\ Here \in Kind /\ pc' = pc /\ got' = got
    BY <1>2, <1>3, AtHere DEF command, PlaceFits
  <2>2. svc[Here] = "none" => svc'[Here] = "none"
    <3>1. CASE svc' = svc
      BY <3>1
    <3>2. CASE Lose
      BY <2>1, <3>2 DEF Lose, TypeOK
    <3>3. ASSUME NEW k \in Kind, Serve(k) \/ Finish(k)
          PROVE  svc[Here] = "none" => svc'[Here] = "none"
      BY <2>1, <3>3 DEF Serve, Finish, TypeOK
    <3>4. CASE Post
      BY <1>3, <3>4 DEF Post, Goto, command
    <3> QED
      BY <3>1, <3>2, <3>3, <3>4 DEF Next, Work, Start, Baseline, Intend, Resume,
         ResumeReconciled, Reply, Body, Resolve, Poll, Result, Own, Identity, Define,
         IntendWrite, Write, Written, Prove, Ready, Fail, Kill, Others, Upgrade, Accept,
         Review, Commit, vars, service
  <2>3. Made(Here) \subseteq Made(Here)'
    BY <2>1, MadeGrows
  <2> QED
    BY <1>3, <2>1, <2>2, <2>3 DEF PlaceKnows, Creating
<1>4. CASE Work /\ pc' \in Creating
  <2> USE <1>2, <1>4 DEF Creating
  <2>1. CASE Intend
    <3>1. /\ Here \in Kind /\ ~IsTable(at) /\ act[Here].status = "none"
          /\ Save([NoAction EXCEPT !.status = "intent"]) /\ pc' = "post" /\ at' = at
          /\ UNCHANGED <<svc, sent>>
      BY <2>1, AtHere DEF Intend, AtCreate, Stop, service
    <3>2. act'[Here] = [NoAction EXCEPT !.status = "intent"]
      BY <3>1, SaveAt
    <3>3. sent[Here] = 0 /\ svc[Here] = "none"
      BY <3>1 DEF CreateFacts
    <3> QED
      BY <3>1, <3>2, <3>3 DEF PlaceKnows, NoAction
  <2>2. CASE Resume
    BY <2>2 DEF Resume, Stop, PlaceKnows
  <2>3. CASE Post
    BY <2>3 DEF Post, Goto, journal, PlaceKnows
  <2>4. CASE Reply \/ Body \/ Poll \/ Own
    <3>1. /\ Here \in Kind /\ ~IsTable(at) /\ act[Here] \in Action
          /\ act[Here].owner = "journal" /\ act[Here].status # "none"
      BY <2>4, AtHere DEF Reply, Body, Poll, Own, Goto, PlaceFits, PlaceKnows
    <3>2. CASE Reply
      <4>1. /\ pc = "wait" /\ pc' = "body" /\ at' = at
            /\ act[Here].item = None /\ act[Here].returned = None
        BY <3>2 DEF Reply, Stop, PlaceKnows
      <4>2. PICK ref \in BOOLEAN :
              Save([act[Here] EXCEPT
                     !.status = "received",
                     !.http = IF svc[Here] \in {"sync", "rejected"}
                              THEN svc[Here] ELSE "accepted",
                     !.ref = ref /\ svc[Here] \notin {"sync", "rejected"}])
        BY <3>2 DEF Reply, Stop
      <4> DEFINE h == IF svc[Here] \in {"sync", "rejected"} THEN svc[Here] ELSE "accepted"
                 r == ref /\ svc[Here] \notin {"sync", "rejected"}
                 a == [act[Here] EXCEPT !.status = "received", !.http = h, !.ref = r]
      <4> HIDE DEF h, r
      <4>3. /\ a.status # "none" /\ a.item = None /\ a.returned = None
            /\ a.owner = "journal"
        BY <3>1, <4>1 DEF Action
      <4>4. Save(a)
        BY <4>2 DEF h, r
      <4> HIDE DEF a
      <4>5. act'[Here] = a
        BY <3>1, <4>4, SaveAt
      <4> QED
        BY <4>1, <4>3, <4>5 DEF PlaceKnows
    <3>3. CASE Body
      <4>1. pc' = "resolve" /\ at' = at
        BY <3>3 DEF Body, Stop
      <4>2. PICK id \in Made(Here) \cup {None} : Save([act[Here] EXCEPT !.returned = id])
        BY <3>3 DEF Body, Stop
      <4> DEFINE a == [act[Here] EXCEPT !.returned = id]
      <4>3. a.status # "none" /\ a.owner = "journal"
        BY <3>1 DEF Action
      <4>4. Save(a)
        BY <4>2
      <4> HIDE DEF a
      <4>5. act'[Here] = a
        BY <3>1, <4>4, SaveAt
      <4> QED
        BY <4>1, <4>3, <4>5 DEF PlaceKnows
    <3>4. CASE Poll
      <4>1. pc' \in {"poll", "result"} /\ at' = at
        BY <3>4 DEF Poll, Stop
      <4>2. PICK x \in {"running", "succeeded"} : Save([act[Here] EXCEPT !.op = x])
        BY <3>4 DEF Poll, Stop
      <4> DEFINE a == [act[Here] EXCEPT !.op = x]
      <4>3. a.status # "none" /\ a.owner = "journal"
        BY <3>1 DEF Action
      <4>4. Save(a)
        BY <4>2
      <4> HIDE DEF a
      <4>5. act'[Here] = a
        BY <3>1, <4>4, SaveAt
      <4> QED
        BY <4>1, <4>3, <4>5 DEF PlaceKnows
    <3>5. CASE Own
      <4>1. pc' = "identity" /\ at' = at /\ got' = got /\ got \in Made(Here)
        BY <3>5 DEF Own, Goto, PlaceKnows
      <4> DEFINE a == [act[Here] EXCEPT !.item = got, !.status = "created"]
      <4>3. a.status # "none" /\ a.owner = "journal"
        BY <3>1 DEF Action
      <4>4. Save(a)
        BY <3>5 DEF Own
      <4> HIDE DEF a
      <4>5. act'[Here] = a
        BY <3>1, <4>4, SaveAt
      <4>6. Made(Here)' = Made(Here)
        BY <3>5, MadeSame DEF Own, service
      <4> QED
        BY <1>2, <4>1, <4>3, <4>5, <4>6 DEF PlaceKnows, Made
    <3> QED
      BY <2>4, <3>2, <3>3, <3>4, <3>5
  <2>5. CASE Resolve
    <3>1. /\ Here \in Kind /\ act[Here].owner = "journal" /\ act[Here].status # "none"
          /\ act' = act /\ items' = items /\ at' = at
          /\ pc' = "poll" \/ (pc' = "own" /\ got' # None
                              /\ got' \in {act[Here].item, act[Here].returned})
      BY <2>5, AtHere DEF Resolve, Stop, PlaceFits, PlaceKnows, service
    <3>2. pc' = "own" => got' \in Made(Here)
      BY <3>1 DEF CreateFacts
    <3> QED
      BY <3>1, <3>2 DEF PlaceKnows, Made
  <2>6. CASE Result
    <3>1. /\ Here \in Kind /\ ~IsTable(at) /\ act[Here] \in Action
          /\ act[Here].owner = "journal" /\ act[Here].status # "none"
          /\ items' = items /\ pc' = "own" /\ at' = at
      BY <2>6, AtHere DEF Result, PlaceFits, PlaceKnows, service
    <3>2. PICK id \in Made(Here) :
            /\ got' = id
            /\ act' = act \/ Save([act[Here] EXCEPT !.returned = id])
      BY <2>6 DEF Result
    <3> DEFINE a == [act[Here] EXCEPT !.returned = id]
    <3>3. a.status # "none" /\ a.owner = "journal"
      BY <3>1 DEF Action
    <3>4. act' = act \/ Save(a)
      BY <3>2
    <3> HIDE DEF a
    <3>5. act'[Here].status # "none" /\ act'[Here].owner = "journal"
      BY <3>1, <3>3, <3>4, SaveAt
    <3> QED
      BY <3>1, <3>2, <3>5 DEF PlaceKnows, Made
  <2>7. CASE Baseline \/ ResumeReconciled \/ Identity \/ Define \/ IntendWrite \/ Write \/
             Written \/ Prove \/ Ready
    BY <2>7 DEF Baseline, ResumeReconciled, Identity, Define, IntendWrite, Write, Written,
       Prove, Ready, Stop, Advance
  <2> QED
    BY <1>4, <2>1, <2>2, <2>3, <2>4, <2>5, <2>6, <2>7 DEF Work
<1>5. CASE ~Work /\ pc' \in Creating
  <2>1. UNCHANGED <<command, act, sent>> /\ pc' = pc
    BY <1>5, SMTT(30) DEF Next, Start, Goto, Fail, Kill, Stop, Lose, Others, Upgrade, Accept, Review,
       Serve, Finish, Commit, vars, command, journal, Creating
  <2> QED
    BY <1>3, <1>5, <2>1
<1> QED
  BY <1>1, <1>4, <1>5

-----------------------------------------------------------------------------
(* Order.                                                                  *)

\* What the steps behind the command have left in the workspace.
Behind ==
    /\ at # 1 => Made("lakehouse") # {}
    /\ \A t \in Table : at > t + 1 => onelake[t] \in {"ours", "touched"}

\* A table whose first commit is the run's own stays such a table.
LEMMA TableKept ==
  ASSUME TypeOK, PlaceFits, [Next]_vars, NEW t \in Table, onelake[t] \in {"ours", "touched"}
  PROVE  onelake'[t] \in {"ours", "touched"}
<1>1. CASE onelake' = onelake
  BY <1>1
<1>2. CASE Write
  <2>1. TableAt(at) \in Table
    BY <1>2, TableSteps DEF Write, PlaceFits, Writing, TypeOK
  <2> QED
    BY <1>2, <2>1 DEF Write, TypeOK
<1>3. CASE Lose
  BY <1>3 DEF Lose, TypeOK
<1>4. CASE Others
  BY <1>4 DEF Others, TypeOK
<1>5. ASSUME NEW u \in Table, Commit(u)
      PROVE  onelake'[t] \in {"ours", "touched"}
  BY <1>5 DEF Commit, TypeOK
<1> QED
  BY <1>1, <1>2, <1>3, <1>4, <1>5 DEF Next, Work, Start, Baseline, Intend, Resume,
     ResumeReconciled, Post, Reply, Body, Resolve, Poll, Result, Own, Identity, Define,
     IntendWrite, Written, Prove, Ready, Fail, Kill, Upgrade, Accept, Review, Serve, Finish,
     vars, service

\* The command goes on only from a step that left what the next ones build on.
LEMMA BehindNext ==
  ASSUME TypeOK, PlaceFits, PlaceKnows, Behind, [Next]_vars
  PROVE  Behind'
<1>1. Tables \in Nat /\ Table = 1..Tables /\ at \in Nat
  BY LastValue, PublicationAssumption DEF TypeOK, Table
<1>2. /\ Made("lakehouse") # {} => Made("lakehouse")' # {}
      /\ \A t \in Table : onelake[t] \in {"ours", "touched"}
                          => onelake'[t] \in {"ours", "touched"}
  BY MadeGrows, TableKept, KindsType
<1>3. CASE at' = at \/ at' = 1
  BY <1>1, <1>2, <1>3 DEF Behind
<1>4. CASE Advance
  <2>1. CASE Identity
    <3>1. ~IsTable(at) /\ got \in Made(Here)
      BY <2>1 DEF Identity, PlaceFits, PlaceKnows, Creating
    <3>2. at = 1 => Made("lakehouse") # {}
      BY <3>1 DEF Here, KindAt
    <3>3. \A t \in Table : at # t + 1
      BY <1>1, <3>1 DEF IsTable
    <3> QED
      BY <1>1, <1>2, <1>4, <3>2, <3>3 DEF Advance, Behind
  <2>2. CASE Define
    <3>1. at # 1 /\ \A t \in Table : at # t + 1
      BY <1>1, <2>2 DEF Define, PlaceFits, IsTable
    <3> QED
      BY <1>1, <1>2, <1>4, <3>1 DEF Advance, Behind
  <2>3. CASE Prove
    <3>1. /\ TableAt(at) \in Table /\ at # 1 /\ at = TableAt(at) + 1
          /\ onelake[TableAt(at)] = "ours"
      BY <1>1, <1>4, <2>3, TableSteps
         DEF Prove, PlaceFits, Writing, TypeOK, Advance, Stop, TableAt
    <3>2. \A t \in Table : at = t + 1 => onelake[t] = "ours"
      BY <1>1, <3>1, SMTT(30) DEF TableAt
    <3> QED
      BY <1>1, <1>2, <1>4, <3>1, <3>2 DEF Advance, Behind
  <2>4. CASE ~(Identity \/ Define \/ Prove)
    BY <1>3, <1>4, <2>4 DEF Advance, Next, Work, Start, Goto, Baseline, Intend, Resume,
       ResumeReconciled, Post, Reply, Body, Resolve, Poll, Result, Own, IntendWrite, Write,
       Written, Ready, Fail, Kill, Stop, Lose, Others, Upgrade, Accept, Review, Serve, Finish,
       Commit, vars, command
  <2> QED
    BY <2>1, <2>2, <2>3, <2>4
<1>5. CASE ~Advance
  <2>1. at' = at \/ at' = 1
    BY <1>5, ZenonT(30) DEF Next, Work, Start, Goto, Baseline, Intend, Resume, ResumeReconciled, Post,
       Reply, Body, Resolve, Poll, Result, Own, Identity, Define, IntendWrite, Write, Written,
       Prove, Ready, Fail, Kill, Stop, Lose, Others, Upgrade, Accept, Review, Serve, Finish,
       Commit, vars, command
  <2> QED
    BY <1>3, <2>1, SMTT(30)
<1> QED
  BY <1>4, <1>5

\* A native create is requested only when all of that is there.
LEMMA OrderNext ==
  ASSUME TypeOK, PlaceFits, Behind, BuiltInOrder, [Next]_vars
  PROVE  BuiltInOrder'
<1>1. SUFFICES ASSUME NEW k \in Native, sent'[k] > 0
               PROVE  /\ Made("lakehouse") # {}
                      /\ \A t \in Table : onelake[t] \in {"ours", "touched"}
  <2>1. /\ Made("lakehouse") # {} => Made("lakehouse")' # {}
        /\ \A t \in Table : onelake[t] \in {"ours", "touched"}
                            => onelake'[t] \in {"ours", "touched"}
    BY MadeGrows, TableKept, KindsType
  <2> QED
    BY <1>1, <2>1 DEF BuiltInOrder
<1>2. CASE sent' = sent
  BY <1>1, <1>2 DEF BuiltInOrder
<1>3. CASE Post
  <2>1. at \in 1..Last /\ ~IsTable(at) /\ Here \in Kind
    BY <1>3, AtHere DEF Post, Goto, PlaceFits, Creating, TypeOK
  <2>2. CASE k = Here
    <3>1. at # 1
      BY <2>1, <2>2, Steps DEF Here, Native
    <3>2. at >= Tables + 2
      BY <2>1, <3>1, Steps
    <3>3. \A t \in Table : at > t + 1
      BY <2>1, <3>2, LastValue, PublicationAssumption DEF Table
    <3> QED
      BY <3>1, <3>3 DEF Behind
  <2>3. CASE k # Here
    <3>1. sent'[k] = sent[k]
      BY <1>1, <1>3, <2>1, <2>3, KindsType DEF Post, TypeOK
    <3> QED
      BY <1>1, <3>1 DEF BuiltInOrder
  <2> QED
    BY <2>2, <2>3
<1> QED
  BY <1>2, <1>3 DEF Next, Work, Start, Baseline, Intend, Resume, ResumeReconciled, Reply, Body,
     Resolve, Poll, Result, Own, Identity, Define, IntendWrite, Write, Written, Prove, Ready,
     Fail, Kill, Lose, Others, Upgrade, Accept, Review, Serve, Finish, Commit, vars

-----------------------------------------------------------------------------
(* What the refinement needs besides.                                      *)

\* A service answers only what was requested of it.
Asked == \A k \in Kind : svc[k] # "none" => sent[k] > 0

LEMMA AskedNext ==
  ASSUME TypeOK, PlaceFits, Asked, [Next]_vars
  PROVE  Asked'
<1>1. CASE UNCHANGED <<svc, sent>>
  BY <1>1 DEF Asked
<1>2. CASE Post
  <2>1. Here \in Kind
    BY <1>2, AtHere DEF Post, Goto, PlaceFits, Creating
  <2> QED
    BY <1>2, <2>1 DEF Post, TypeOK, Asked
<1>3. CASE Lose
  BY <1>3 DEF Lose, TypeOK, Asked
<1>4. ASSUME NEW k \in Kind, Serve(k) \/ Finish(k)
      PROVE  Asked'
  BY <1>4 DEF Serve, Finish, TypeOK, Asked
<1> QED
  BY <1>1, <1>2, <1>3, <1>4 DEF Next, Work, Start, Baseline, Intend, Resume,
     ResumeReconciled, Reply, Body, Resolve, Poll, Result, Own, Identity, Define, IntendWrite,
     Write, Written, Prove, Ready, Fail, Kill, Others, Upgrade, Accept, Review, Commit,
     vars, service

\* The journal owns the Lakehouse before anything is put into it or over it.
LakehouseFirst ==
    /\ at # 1 => act["lakehouse"].item # None
    /\ pc = "identity" => act[Here].item # None
    /\ \A t \in Table : onelake[t] = "sent" => act["lakehouse"].item # None

LEMMA LakehouseFirstNext ==
  ASSUME TypeOK, PlaceFits, PlaceKnows, Facts, LakehouseFirst, [Next]_vars
  PROVE  LakehouseFirst'
<1>1. \A k \in Kind : act[k].item # None => act'[k].item # None
  BY CreateNext DEF Facts, Kept
<1>2. at' # 1 => act'["lakehouse"].item # None
  <2>1. CASE at' = at
    BY <1>1, <2>1, KindsType DEF LakehouseFirst
  <2>2. CASE Identity /\ at = 1
    <3>1. Here = "lakehouse" /\ pc = "identity"
      BY <2>2 DEF Identity, Here, KindAt
    <3> QED
      BY <1>1, <3>1, KindsType DEF LakehouseFirst
  <2>3. CASE at # 1
    BY <1>1, <2>3, KindsType DEF LakehouseFirst
  <2>4. CASE (Define \/ Prove) /\ at = 1
    BY <2>4, TableSteps DEF Define, Prove, PlaceFits, Writing, TypeOK
  <2>5. CASE ~(Identity \/ Define \/ Prove) /\ at' # at
    <3>1. at' = 1
      BY <2>5, ZenonT(30) DEF Next, Work, Start, Goto, Baseline, Intend, Resume,
         ResumeReconciled, Post, Reply, Body, Resolve, Poll, Result, Own, IntendWrite, Write,
         Written, Ready, Fail, Kill, Stop, Lose, Others, Upgrade, Accept, Review, Serve,
         Finish, Commit, vars, command
    <3> QED
      BY <3>1
  <2> QED
    BY <2>1, <2>2, <2>3, <2>4, <2>5
<1>3. ASSUME pc' = "identity"
      PROVE  act'[Here'].item # None
  <2>1. Own \/ (pc = "identity" /\ at' = at)
    BY <1>3, SMTT(30) DEF Next, Work, Start, Goto, Baseline, Intend, Resume, ResumeReconciled,
       Post, Reply, Body, Resolve, Poll, Result, Identity, Define, IntendWrite, Write,
       Written, Prove, Ready, Advance, Fail, Kill, Stop, Lose, Others, Upgrade, Accept, Review,
       Serve, Finish, Commit, vars, command
  <2>2. ~IsTable(at) /\ act[Here] \in Action /\ Here \in Kind
    BY <2>1, AtHere DEF Own, Goto, PlaceFits, Creating
  <2>3. CASE Own
    <3> DEFINE a == [act[Here] EXCEPT !.item = got, !.status = "created"]
    <3>1. a.item = got
      BY <2>2 DEF Action
    <3>2. Save(a) /\ at' = at /\ got \in Made(Here)
      BY <2>3 DEF Own, Goto, PlaceKnows
    <3>3. got # None
      BY <2>2, <3>2, MadeNat, PublicationAssumption DEF TypeOK, Item
    <3> HIDE DEF a
    <3>4. act'[Here] = a /\ Here' = Here
      BY <2>2, <3>2, SaveAt DEF Here, KindAt
    <3> QED
      BY <3>1, <3>3, <3>4
  <2>4. CASE pc = "identity" /\ at' = at
    <3>1. Here' = Here /\ act[Here].item # None
      BY <2>4 DEF LakehouseFirst, Here, KindAt
    <3> QED
      BY <1>1, <2>2, <3>1
  <2> QED
    BY <2>1, <2>3, <2>4
<1>4. ASSUME NEW t \in Table, onelake'[t] = "sent"
      PROVE  act'["lakehouse"].item # None
  <2>1. CASE onelake[t] = "sent"
    BY <1>1, <2>1, KindsType DEF LakehouseFirst
  <2>2. CASE onelake[t] # "sent"
    <3>1. Write
      BY <1>4, <2>2, ZenonT(30) DEF Next, Work, Start, Baseline, Intend, Resume, ResumeReconciled,
         Post, Reply, Body, Resolve, Poll, Result, Own, Identity, Define, IntendWrite,
         Written, Prove, Ready, Fail, Kill, Lose, Others, Upgrade, Accept, Review,
         Serve, Finish, Commit, vars, service, TypeOK
    <3>2. at # 1
      BY <3>1, TableSteps DEF Write, PlaceFits, Writing, TypeOK
    <3> QED
      BY <1>1, <3>2, KindsType DEF LakehouseFirst
  <2> QED
    BY <2>1, <2>2
<1> QED
  BY <1>2, <1>3, <1>4 DEF LakehouseFirst

-----------------------------------------------------------------------------
Inv ==
    /\ TypeOK /\ PlaceFits /\ LakehouseOwn
    /\ Facts /\ PlaceKnows /\ Behind /\ BuiltInOrder
    /\ Asked /\ LakehouseFirst

LEMMA InvInit == Init => Inv
<1> SUFFICES ASSUME Init PROVE Inv
  OBVIOUS
<1>1. TypeOK
  <2>1. items \in Seq(Item) /\ act \in [Kind -> Action] /\ at \in 1..Last /\ got \in ItemId
    BY LastValue, NoActionType DEF Init, ItemId
  <2>2. /\ program \in 0..MaxUpgrades /\ faults \in 0..MaxFaults
        /\ foreign \in 0..MaxForeign /\ sent \in [Kind -> Nat]
    BY PublicationAssumption DEF Init
  <2> QED
    BY <2>1, <2>2 DEF Init, TypeOK, Item
<1>2. PlaceFits /\ LakehouseOwn /\ PlaceKnows
  BY KindsType DEF Init, PlaceFits, LakehouseOwn, PlaceKnows, Creating, Writing, NoAction
<1>3. Facts
  BY DEF Init, Facts, CreateFacts, Made, NoAction
<1>4. Behind
  BY PublicationAssumption DEF Init, Behind, Table
<1>5. BuiltInOrder
  BY KindsType DEF Init, BuiltInOrder
<1>6. Asked /\ LakehouseFirst
  BY DEF Init, Asked, LakehouseFirst
<1> QED
  BY <1>1, <1>2, <1>3, <1>4, <1>5, <1>6 DEF Inv

LEMMA InvNext == Inv /\ [Next]_vars => Inv'
<1> SUFFICES ASSUME Inv, [Next]_vars PROVE Inv'
  OBVIOUS
<1>1. Facts'
  BY CreateNext DEF Inv, Facts
<1> QED
  BY <1>1, TypeNext, PlaceNext, LakehouseNext, PlaceKnowsNext, BehindNext, OrderNext,
     AskedNext, LakehouseFirstNext DEF Inv, Facts

THEOREM Invariant == Spec => []Inv
  BY InvInit, InvNext, PTL DEF Spec

\* Every reachable state has its shape.
THEOREM TypeCorrect == Spec => []TypeOK
<1>1. Inv => TypeOK
  BY DEF Inv
<1> QED
  BY <1>1, Invariant, PTL

\* No create (deploy/schema2_prototype.py, _create_or_resume_item) is requested
\* twice, nor before its intent is in the journal, however often the command
\* is killed and run again.
THEOREM CreatesAreSingle == Spec => []CreatedOnce
<1>1. Inv => CreatedOnce
  BY DEF Inv, Facts, CreateFacts, CreatedOnce, TypeOK
<1> QED
  BY <1>1, Invariant, PTL

\* The journal owns only items its own creates made, also after an operator's
\* reconciliation (deploy/schema2_prototype_reconcile.py).
THEOREM NothingIsAdopted == Spec => []NothingAdopted
<1>1. Inv => NothingAdopted
  BY DEF Inv, Facts, CreateFacts, NothingAdopted
<1> QED
  BY <1>1, Invariant, PTL

\* Native items are requested over this run's Lakehouse and its own tables.
THEOREM BuildsInOrder == Spec => []BuiltInOrder
<1>1. Inv => BuiltInOrder
  BY DEF Inv
<1> QED
  BY <1>1, Invariant, PTL

\* No step of the command, of the operator or of anybody else revises an id the
\* journal owns.
THEOREM OwnershipIsFinal == Spec => OwnershipFinal
<1>1. Inv /\ [Next]_vars => [\A k \in Kind : Kept(k)]_vars
  BY CreateNext DEF Inv, Facts
<1> QED
  BY <1>1, Invariant, PTL DEF Spec, OwnershipFinal, Kept

-----------------------------------------------------------------------------
(* The journal and the workspace implement CreateOnly.                     *)

\* The journal comes to own an item only by its own create or by a receipt.
LEMMA OwnedKept ==
  ASSUME TypeOK, PlaceFits, Facts, [Next]_vars, ~Own, ~Accept
  PROVE  Owned' = Owned
<1>1. CASE act' = act
  BY <1>1 DEF Owned
<1>2. ASSUME ~IsTable(at), NEW a, Save(a), a.item = act[Here].item
      PROVE  Owned' = Owned
  BY <1>2, SaveAt, AtHere DEF Owned
<1>3. CASE Intend /\ act' # act
  <2>1. /\ ~IsTable(at) /\ Here \in Kind /\ act[Here].status = "none"
        /\ Save([NoAction EXCEPT !.status = "intent"])
    BY <1>3, AtHere DEF Intend, AtCreate
  <2>2. act[Here] = NoAction
    BY <2>1 DEF Facts, CreateFacts
  <2> QED
    BY <1>2, <2>1, <2>2 DEF NoAction
<1>4. CASE (Reply \/ Body \/ Poll \/ Result \/ Identity) /\ act' # act
  <2>1. ~IsTable(at)
    BY <1>4 DEF Reply, Body, Poll, Result, Identity, PlaceFits, Creating
  <2> QED
    BY <1>2, <1>4, <2>1, AnswerSaved
<1> QED
  BY <1>1, <1>3, <1>4 DEF Next, Work, Start, Baseline, Resume, ResumeReconciled, Post, Resolve,
     Define, IntendWrite, Write, Written, Prove, Ready, Fail, Kill, Lose, Others, Upgrade,
     Review, Serve, Finish, Commit, vars, journal

\* A table's first commit becomes the run's own only when its write arrives.
LEMMA CommittedKept ==
  ASSUME TypeOK, PlaceFits, [Next]_vars, \A t \in Table : ~Commit(t)
  PROVE  Committed' = Committed
<1>1. CASE onelake' = onelake
  BY <1>1 DEF Committed
<1>2. CASE Write
  <2>1. TableAt(at) \in Table
    BY <1>2, TableSteps DEF Write, PlaceFits, Writing, TypeOK
  <2>2. \A t \in Table : onelake'[t] \in {"ours", "touched"} <=> onelake[t] \in {"ours", "touched"}
    BY <1>2, <2>1 DEF Write, TypeOK
  <2> QED
    BY <2>2 DEF Committed
<1>3. CASE Lose \/ Others
  <2>1. \A t \in Table : onelake'[t] \in {"ours", "touched"} <=> onelake[t] \in {"ours", "touched"}
    BY <1>3 DEF Lose, Others, TypeOK
  <2> QED
    BY <2>1 DEF Committed
<1> QED
  BY <1>1, <1>2, <1>3 DEF Next, Work, Start, Baseline, Intend, Resume, ResumeReconciled, Post,
     Reply, Body, Resolve, Poll, Result, Own, Identity, Define, IntendWrite, Written, Prove,
     Ready, Fail, Kill, Upgrade, Accept, Review, Serve, Finish, vars, service

\* Only a service that carries out a request makes an item of the run.
LEMMA MadeKept ==
  ASSUME TypeOK, [Next]_vars, \A k \in Kind : ~Serve(k) /\ ~Finish(k)
  PROVE  MadeItems' = MadeItems
<1>1. CASE items' = items
  BY <1>1, MadeSame DEF MadeItems
<1>2. CASE Others
  <2>1. \A k \in Kind : Made(k)' = Made(k)
    BY <1>2, MadeAppend, MadeDeleted, MadeSame DEF Others, TypeOK, Item
  <2> QED
    BY <2>1 DEF MadeItems
<1> QED
  BY <1>1, <1>2 DEF Next, Work, Start, Baseline, Intend, Resume, ResumeReconciled, Post, Reply,
     Body, Resolve, Poll, Result, Own, Identity, Define, IntendWrite, Write, Written, Prove,
     Ready, Fail, Kill, Lose, Upgrade, Accept, Review, Commit, vars, service

LEMMA RequestedKept ==
  ASSUME [Next]_vars, ~Post
  PROVE  Requested' = Requested
<1>1. sent' = sent
  BY DEF Next, Work, Start, Baseline, Intend, Resume, ResumeReconciled, Reply, Body, Resolve,
     Poll, Result, Own, Identity, Define, IntendWrite, Write, Written, Prove, Ready, Fail, Kill,
     Lose, Others, Upgrade, Accept, Review, Serve, Finish, Commit, vars
<1> QED
  BY <1>1 DEF Requested

\* A request asks for what was never asked for, over what it is built on.
LEMMA PostAsks ==
  ASSUME Inv, Post
  PROVE  Promise!Next
<1>1. /\ TypeOK /\ at \in 1..Last /\ ~IsTable(at) /\ Here \in Kind
      /\ sent[Here] = 0 /\ UNCHANGED <<items, act, onelake>>
  BY AtHere DEF Inv, Post, Goto, PlaceFits, PlaceKnows, Creating, TypeOK, journal
<1>2. Requested' = Requested \cup {Here} /\ Here \notin Requested
  BY <1>1 DEF Post, Requested, TypeOK
<1>3. Here # "lakehouse" => act["lakehouse"].item # None /\ Committed = Table
  <2> SUFFICES ASSUME Here # "lakehouse"
               PROVE  act["lakehouse"].item # None /\ Committed = Table
    OBVIOUS
  <2>1. at # 1 /\ at >= Tables + 2
    BY <1>1, Steps DEF Here
  <2>2. \A t \in Table : at > t + 1
    BY <1>1, <2>1, LastValue, PublicationAssumption DEF Table
  <2> QED
    BY <2>1, <2>2 DEF Inv, LakehouseFirst, Behind, Committed
<1>4. UNCHANGED <<MadeItems, Owned, Committed>>
  BY <1>1, MadeSame DEF MadeItems, Owned, Committed
<1>5. Owned["lakehouse"] = act["lakehouse"].item
  BY KindsType DEF Owned
<1> QED
  BY <1>1, <1>2, <1>3, <1>4, <1>5 DEF Promise!Next, Promise!Ask

\* An item comes of a request, and of each only one.
LEMMA ServiceMakes ==
  ASSUME Inv, NEW k \in Kind, Serve(k) \/ Finish(k)
  PROVE  Promise!Next \/ UNCHANGED Promise!vars
<1>1. UNCHANGED <<act, sent, onelake>>
  BY DEF Serve, Finish, journal
<1>2. UNCHANGED <<Requested, Owned, Committed>>
  BY <1>1 DEF Requested, Owned, Committed
<1>3. CASE items' = items
  <2>1. MadeItems' = MadeItems
    BY <1>3, MadeSame DEF MadeItems
  <2> QED
    BY <1>2, <2>1 DEF Promise!vars
<1>4. CASE items' = Append(items, NewItem(k, "run"))
  <2>1. k \in Requested /\ Made(k) = {} /\ items \in Seq(Item)
    BY DEF Inv, Asked, Facts, CreateFacts, Serve, Finish, Requested, TypeOK, Item
  <2>2. Made(k)' = {Len(items) + 1} /\ \A j \in Kind \ {k} : Made(j)' = Made(j)
    BY <1>4, <2>1, MadeAppend
  <2>3. MadeItems' = [MadeItems EXCEPT ![k] = {Len(items) + 1}]
    BY <2>2 DEF MadeItems
  <2>4. \A j \in Kind : Len(items) + 1 \notin Made(j)
    BY <2>1 DEF Made
  <2>5. \A j \in Kind : MadeItems[j] = Made(j) /\ MadeItems'[j] = Made(j)'
    BY DEF MadeItems
  <2>6. Promise!Make(k)
    BY <1>2, <2>1, <2>2, <2>3, <2>4, <2>5 DEF Promise!Make
  <2> QED
    BY <2>6 DEF Promise!Next
<1> QED
  BY <1>3, <1>4 DEF Serve, Finish

\* What the journal takes for its own is the item its create made.
LEMMA OwnsMade ==
  ASSUME Inv, [Next]_vars, Own \/ Accept
  PROVE  Promise!Next \/ UNCHANGED Promise!vars
<1>1. UNCHANGED <<items, sent, onelake>>
  BY DEF Own, Accept, service
<1>2. UNCHANGED <<Requested, MadeItems, Committed>>
  BY <1>1, MadeSame DEF Requested, MadeItems, Committed
<1>3. ASSUME NEW k \in Kind, NEW i \in Made(k), act'[k].item = i,
             \A j \in Kind \ {k} : act'[j] = act[j]
      PROVE  Promise!Next \/ UNCHANGED Promise!vars
  <2>1. Owned' = [Owned EXCEPT ![k] = i] /\ MadeItems[k] = Made(k) /\ Owned[k] = act[k].item
    BY <1>3 DEF Owned, MadeItems
  <2>2. CASE act[k].item = None
    <3>1. Promise!Own(k)
      BY <1>2, <1>3, <2>1, <2>2 DEF Promise!Own
    <3> QED
      BY <3>1 DEF Promise!Next
  <2>3. CASE act[k].item # None
    <3>1. act[k].item = i
      BY <1>3, <2>3 DEF Inv, Facts, CreateFacts
    <3>2. Owned' = Owned
      BY <1>3, <3>1 DEF Owned
    <3> QED
      BY <1>2, <3>2 DEF Promise!vars
  <2> QED
    BY <2>2, <2>3
<1>4. CASE Own
  <2>1. ~IsTable(at) /\ TypeOK /\ act[Here] \in Action /\ Here \in Kind /\ got \in Made(Here)
    BY <1>4, AtHere DEF Inv, Own, Goto, PlaceFits, PlaceKnows, Creating
  <2> DEFINE a == [act[Here] EXCEPT !.item = got, !.status = "created"]
  <2>2. a.item = got
    BY <2>1 DEF Action
  <2>3. Save(a)
    BY <1>4 DEF Own
  <2> HIDE DEF a
  <2>4. act'[Here] = a /\ \A k \in Kind \ {Here} : act'[k] = act[k]
    BY <2>1, <2>3, SaveAt
  <2> QED
    BY <1>3, <2>1, <2>2, <2>4
<1>5. CASE Accept
  <2> DEFINE k == review.kind
  <2>1. k \in Kind /\ act[k] \in Action /\ review.item \in Made(k)
    BY <1>5, KindsType DEF Inv, Accept, Proof, Live, Made, TypeOK
  <2>2. act'[k].item = review.item /\ \A j \in Kind \ {k} : act'[j] = act[j]
    BY <1>5, <2>1 DEF Inv, Accept, TypeOK, Action
  <2> HIDE DEF k
  <2> QED
    BY <1>3, <2>1, <2>2
<1> QED
  BY <1>4, <1>5

\* A write arrives in a Lakehouse the journal owns.
LEMMA CommitCommits ==
  ASSUME Inv, NEW t \in Table, Commit(t)
  PROVE  Promise!Next
<1>1. UNCHANGED <<items, act, sent>> /\ onelake[t] = "sent"
  BY DEF Commit, journal
<1>2. UNCHANGED <<Requested, MadeItems, Owned>>
  BY <1>1, MadeSame DEF Requested, MadeItems, Owned
<1>3. onelake'[t] = "ours" /\ \A u \in Table \ {t} : onelake'[u] = onelake[u]
  BY DEF Inv, Commit, TypeOK
<1>4. Committed' = Committed \cup {t} /\ t \notin Committed
  BY <1>1, <1>3 DEF Committed
<1>5. Owned["lakehouse"] # None
  BY <1>1, KindsType DEF Inv, LakehouseFirst, Owned
<1> QED
  BY <1>2, <1>4, <1>5 DEF Promise!Next, Promise!Commit

LEMMA PromiseInit == Init => Promise!Init
<1> SUFFICES ASSUME Init PROVE Promise!Init
  OBVIOUS
<1>1. \A k \in Kind : Made(k) = {}
  BY DEF Init, Made
<1>2. Requested = {} /\ Committed = {}
  BY DEF Init, Requested, Committed
<1>3. MadeItems = [k \in Kind |-> {}] /\ Owned = [k \in Kind |-> None]
  BY <1>1 DEF Init, MadeItems, Owned, NoAction
<1> QED
  BY <1>2, <1>3 DEF Promise!Init

\* Every step asks, makes, owns or commits, or is none of CreateOnly's concern.
LEMMA PromiseNext == Inv /\ [Next]_vars => [Promise!Next]_Promise!vars
<1> SUFFICES ASSUME Inv, [Next]_vars PROVE Promise!Next \/ UNCHANGED Promise!vars
  OBVIOUS
<1>1. CASE Post
  BY <1>1, PostAsks
<1>2. CASE Own \/ Accept
  BY <1>2, OwnsMade
<1>3. CASE \E k \in Kind : Serve(k) \/ Finish(k)
  BY <1>3, ServiceMakes
<1>4. CASE \E t \in Table : Commit(t)
  BY <1>4, CommitCommits
<1>5. CASE ~(\/ Post \/ Own \/ Accept
             \/ \E k \in Kind : Serve(k) \/ Finish(k)
             \/ \E t \in Table : Commit(t))
  <2>1. UNCHANGED <<Requested, MadeItems, Owned, Committed>>
    BY <1>5, RequestedKept, MadeKept, OwnedKept, CommittedKept DEF Inv
  <2> QED
    BY <2>1 DEF Promise!vars
<1> QED
  BY <1>1, <1>2, <1>3, <1>4, <1>5

\* Through kills, lost replies, interferences, reconciliations and changes of
\* code, journal and workspace together keep the promise of CreateOnly.
THEOREM PublicationsKeepThePromise == Spec => Implements
  BY PromiseInit, PromiseNext, Invariant, PTL DEF Spec, Implements, Promise!Spec
=============================================================================
