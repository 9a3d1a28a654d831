-------------------------- MODULE L7ReleaseProofs --------------------------
(***************************************************************************)
(* Theorems about L7Release, for a plan of any length and of any kinds,    *)
(* every loss and delay of replies and any number of foreign writes.       *)
(***************************************************************************)
EXTENDS L7Release, TLAPS

\* What became of an operation.
Flight == Op \cup {"none", "done", "failed"}

\* A request that is carried out keeps the shape of the services.
LEMMA CarryOutType ==
  ASSUME TypeOK, NEW a \in Action, NEW op \in Op, CarryOut(a, op)
  PROVE  content' \in [Action -> Content] /\ ver' \in [Action -> Nat]
  BY DEF CarryOut, Result, TypeOK, Content

\* So does one that is accepted.
LEMMA AcceptedType ==
  ASSUME TypeOK, NEW a \in Action, NEW op \in Op
  PROVE  [flight EXCEPT ![a] = op] \in [Action -> Flight]
  BY DEF Flight, TypeOK

\* However a request is answered, the services keep their shape.
LEMMA ReplyType ==
  ASSUME TypeOK, NEW a \in Action, NEW op \in Op,
         Answered(a, op) \/ Accepted(a, op) \/ Failed(a, op)
  PROVE  /\ content' \in [Action -> Content] /\ ver' \in [Action -> Nat]
         /\ flight' \in [Action -> Flight] /\ outlived' \subseteq Action
<1>1. CASE Answered(a, op)
  BY <1>1, CarryOutType DEF Answered, TypeOK, Flight
<1>2. CASE Accepted(a, op)
  BY <1>2, AcceptedType DEF Accepted, TypeOK
<1>3. CASE Failed(a, op)
  BY <1>1, <1>3, AcceptedType DEF Failed, Nothing, TypeOK, Flight
<1> QED
  BY <1>1, <1>2, <1>3

\* What the executor remembers of versions keeps its shape.
LEMMA TagType ==
  ASSUME TypeOK, NEW a \in Action, NEW v \in Nat
  PROVE  Tag(a, v) => tag' \in [Action -> Nat \cup {NoTag}]
  BY DEF Tag, TypeOK

LEMMA SeenType ==
  ASSUME TypeOK, NEW a \in Action
  PROVE  [seen EXCEPT ![a] = ver[a]] \in [Action -> Nat \cup {NoTag}]
  BY DEF TypeOK

\* Every step keeps the shape of the variables.
LEMMA TypeNext ==
  ASSUME TypeOK, Phase, [Next]_vars
  PROVE  TypeOK'
<1> USE PlanAssumption, TagAssumption, DriftAssumption
<1>1. CASE UNCHANGED vars
  BY <1>1 DEF vars, TypeOK, Content, Op
<1>2. CASE Expire
  BY <1>2 DEF Expire, Local, Unread, service, backend, TypeOK, Content, Op, Phase, Forward, Action
<1>3. CASE Seal
  BY <1>3 DEF Seal, Abandon, service, backend, TypeOK, Content, Op
<1>4. CASE Close
  BY <1>4 DEF Close, service, backend, TypeOK, Content, Op
<1>5. ASSUME NEW a \in Action, a = cur,
            SendUpdate(a) \/ SendItem(a) \/ SendNamed(a) \/ Wait(a) \/ ReadBack(a) \/
            ReconcileItem(a) \/ ReconcileNamed(a) \/ UndoUpdate(a) \/ UndoCreated(a) \/
            Revert(a) \/ Linger(a) \/ Check(a)
      PROVE  TypeOK'
  <2>a. cur \in 0..N /\ cur - 1 \in 0..N /\ (cur # N => cur + 1 \in 0..N)
    BY <1>5 DEF Action, TypeOK
  <2>b. ver[a] \in Nat /\ (ver' \in [Action -> Nat] => ver'[a] \in Nat)
    BY <1>5 DEF TypeOK
  <2>1. CASE SendUpdate(a)
    <3>1. /\ content' \in [Action -> Content] /\ ver' \in [Action -> Nat]
          /\ flight' \in [Action -> Flight] /\ outlived' \subseteq Action
      BY <1>5, <2>1, ReplyType DEF SendUpdate, Op
    <3>2. tag' \in [Action -> Nat \cup {NoTag}]
      BY <1>5, <2>b, <2>1, <3>1, TagType DEF SendUpdate, TypeOK
    <3> QED
      BY <1>5, <2>a, <2>1, <3>1, <3>2 DEF SendUpdate, Sure, Local, Unread, TypeOK, Flight
  <2>2. CASE SendItem(a)
    <3>1. /\ content' \in [Action -> Content] /\ ver' \in [Action -> Nat]
          /\ flight' \in [Action -> Flight] /\ outlived' \subseteq Action
      BY <1>5, <2>2, ReplyType DEF SendItem, Op
    <3>2. tag' \in [Action -> Nat \cup {NoTag}]
      BY <1>5, <2>b, <2>2, <3>1, TagType DEF SendItem, TypeOK
    <3> QED
      BY <1>5, <2>a, <2>2, <3>1, <3>2 DEF SendItem, Sure, Know, Local, Unread, TypeOK, Flight
  <2>3. CASE SendNamed(a)
    <3>1. /\ content' \in [Action -> Content] /\ ver' \in [Action -> Nat]
          /\ flight' \in [Action -> Flight] /\ outlived' \subseteq Action
      BY <1>5, <2>3, ReplyType DEF SendNamed, Op
    <3>2. tag' \in [Action -> Nat \cup {NoTag}]
      BY <1>5, <2>b, <2>3, <3>1, TagType DEF SendNamed, TypeOK
    <3> QED
      BY <1>5, <2>a, <2>3, <3>1, <3>2 DEF SendNamed, Sure, Local, Unread, TypeOK, Flight
  <2>4. CASE Wait(a)
    BY <1>5, <2>a, <2>4 DEF Wait, GiveUp, Sure, Know, Local, Unread, service, TypeOK, Content, Op
  <2>5. CASE ReadBack(a)
    BY <1>5, <2>a, <2>5 DEF ReadBack, Look, Proceed, Abandon, Tag, Local, Unread, service, TypeOK, Content,
         Op
  <2>6. CASE ReconcileItem(a)
    <3>1. tag' \in [Action -> Nat \cup {NoTag}]
      BY <1>5, <2>b, <2>6, TagType DEF ReconcileItem, Found, Look, Unread, backend, TypeOK
    <3> QED
      BY <1>5, <2>a, <2>6, <3>1 DEF ReconcileItem, Found, Look, Know, Sure, Proceed, Abandon,
           DeleteInline, Unread, service, backend, TypeOK
  <2>7. CASE ReconcileNamed(a)
    <3>1. tag' \in [Action -> Nat \cup {NoTag}]
      BY <1>5, <2>b, <2>7, TagType DEF ReconcileNamed, Found, Look, Unread, backend, TypeOK
    <3> QED
      BY <1>5, <2>a, <2>7, <3>1 DEF ReconcileNamed, Found, Look, Sure, Proceed, Abandon,
           DeleteInline, Unread, service, TypeOK
  <2>8. CASE UndoUpdate(a)
    <3>1. seen' \in [Action -> Nat \cup {NoTag}]
      BY <1>5, <2>8, SeenType DEF UndoUpdate, TypeOK
    <3> QED
      BY <1>5, <2>a, <2>8, <3>1 DEF UndoUpdate, Undone, NotUndone, Leave, service, backend,
           TypeOK
  <2>9. CASE UndoCreated(a)
    BY <1>5, <2>a, <2>9 DEF UndoCreated, Leave, Undone, NotUndone, service, backend, TypeOK,
         Content, Op
  <2>10. CASE Revert(a)
    <3>1. /\ content' \in [Action -> Content] /\ ver' \in [Action -> Nat]
          /\ flight' \in [Action -> Flight] /\ outlived' \subseteq Action
      BY <1>5, <2>10, ReplyType DEF Revert, Op, Nothing, Flight, TypeOK
    <3> QED
      BY <1>5, <2>a, <2>10, <3>1 DEF Revert, Undone, NotUndone, Leave, backend, TypeOK, Flight
  <2>11. CASE Linger(a)
    BY <1>5, <2>a, <2>11 DEF Linger, GiveUp, Leave, Undone, NotUndone, service, backend,
         TypeOK, Content, Op
  <2>12. CASE Check(a)
    BY <1>5, <2>a, <2>12 DEF Check, Leave, Undone, NotUndone, service, backend, TypeOK,
         Content, Op
  <2> QED
    BY <1>5, <2>1, <2>2, <2>3, <2>4, <2>5, <2>6, <2>7, <2>8, <2>9, <2>10, <2>11, <2>12
<1>6. ASSUME NEW a \in Action, Land(a) \/ Drift(a)
      PROVE  TypeOK'
  <2>1. CASE Land(a)
    <3>1. /\ content' \in [Action -> Content] /\ ver' \in [Action -> Nat]
          /\ flight' \in [Action -> Flight]
      BY <1>6, <2>1, CarryOutType DEF Land, TypeOK, Flight
    <3> QED
      BY <2>1, <3>1 DEF Land, backend, TypeOK, Flight
  <2>2. CASE Drift(a)
    <3>1. editsRead' \subseteq Action
      BY <2>2 DEF Drift, TypeOK
    <3> QED
      BY <2>2, <3>1 DEF Drift, backend, TypeOK, Content, Op
  <2> QED
    BY <1>6, <2>1, <2>2
<1> QED
  BY <1>1, <1>2, <1>3, <1>4, <1>5, <1>6 DEF Next, Execute


\* A rollback that is done leaves the action settled.
LEMMA UndonePhase ==
  ASSUME TypeOK, Phase, NEW a \in Action, a = cur, Undone,
         receipt' = receipt, pc \in Rolling, Settled(a)', \A b \in Action \ {a} : Settled(b) => Settled(b)'
  PROVE  Phase'
  BY PlanAssumption DEF Phase, Undone, Leave, TypeOK, Action, Rolling, Forward

\* One that is not is an error, which the receipt cannot pass over.
LEMMA NotUndonePhase ==
  ASSUME TypeOK, Phase, NEW a \in Action, a = cur, NotUndone,
         receipt' = receipt, pc \in Rolling, \A b \in Action \ {a} : Settled(b) => Settled(b)'
  PROVE  Phase'
  BY PlanAssumption DEF Phase, NotUndone, Leave, TypeOK, Action, Rolling, Forward

\* Every step keeps what the phase says of the actions before and after the current.
LEMMA PhaseNext ==
  ASSUME TypeOK, Phase, Flights, [Next]_vars
  PROVE  Phase'
<1> USE PlanAssumption, TagAssumption, DriftAssumption
<1>1. CASE UNCHANGED vars
  BY <1>1 DEF vars, TypeOK, Content, Op, Action, Phase, Flights, Settled, Fresh, Changed,
       Clean, Forward, Rolling
<1>2. CASE Expire
  BY <1>2 DEF Expire, Local, Unread, service, backend, TypeOK, Content, Op, Action, Phase, Flights,
       Settled, Fresh, Changed, Clean, Forward, Rolling
<1>3. CASE Seal
  BY <1>3 DEF Seal, Abandon, service, backend, TypeOK, Content, Op, Action, Phase, Flights,
       Settled, Fresh, Changed, Clean, Forward, Rolling
<1>4. CASE Close
  BY <1>4 DEF Close, service, backend, TypeOK, Content, Op, Action, Phase, Flights, Settled,
       Fresh, Changed, Clean, Forward, Rolling
<1>5. ASSUME NEW a \in Action, a = cur,
            SendUpdate(a) \/ SendItem(a) \/ SendNamed(a) \/ Wait(a) \/ ReadBack(a) \/
            ReconcileItem(a) \/ ReconcileNamed(a) \/ UndoUpdate(a) \/ UndoCreated(a) \/
            Revert(a) \/ Linger(a) \/ Check(a)
      PROVE  Phase'
  <2>1. CASE SendUpdate(a)
    BY <1>5, <2>1 DEF SendUpdate, Answered, Accepted, Failed, Nothing, CarryOut, Result,
         Sure, Tag, Local, Unread, service, TypeOK, Content, Op, Action, Phase, Flights, Settled,
         Fresh, Changed, Clean, Forward, Rolling
  <2>2. CASE SendItem(a)
    BY <1>5, <2>2 DEF SendItem, Answered, Accepted, Failed, Nothing, CarryOut, Result, Sure,
         Know, Local, Unread, service, TypeOK, Content, Op, Action, Phase, Flights, Settled, Fresh,
         Changed, Clean, Forward, Rolling
  <2>3. CASE SendNamed(a)
    BY <1>5, <2>3, SMTT(30) DEF SendNamed, Answered, Accepted, Failed, Nothing, CarryOut, Result, Sure,
         Tag, Local, Unread, service, TypeOK, Content, Op, Action, Phase, Flights, Settled, Fresh,
         Changed, Clean, Forward, Rolling
  <2>4. CASE Wait(a)
    BY <1>5, <2>4 DEF Wait, GiveUp, Sure, Know, Local, Unread, service, TypeOK, Content, Op, Action,
         Phase, Flights, Settled, Fresh, Changed, Clean, Forward, Rolling
  <2>5. CASE ReadBack(a)
    BY <1>5, <2>5 DEF ReadBack, Look, Proceed, Abandon, Tag, Local, Unread, service, TypeOK, Content, Op,
         Action, Phase, Flights, Settled, Fresh, Changed, Clean, Forward, Rolling
  <2>6. CASE ReconcileItem(a)
    BY <1>5, <2>6 DEF ReconcileItem, Found, Look, Proceed, Abandon, DeleteInline, Unread, Sure, Know, Tag,
         service, backend, TypeOK, Content, Op, Action, Phase, Flights, Settled, Fresh,
         Changed, Clean, Forward, Rolling
  <2>7. CASE ReconcileNamed(a)
    BY <1>5, <2>7 DEF ReconcileNamed, Found, Look, Proceed, Abandon, DeleteInline, Unread, Sure, Tag,
         service, TypeOK, Content, Op, Action, Phase, Flights, Settled, Fresh, Changed,
         Clean, Forward, Rolling
  <2>8. CASE UndoUpdate(a)
    <3>1. CASE content[a] = "old" /\ Undone
      <4>1. Settled(a)' /\ \A b \in Action \ {a} : Settled(b) => Settled(b)'
        BY <1>5, <2>8, <3>1 DEF UndoUpdate, service, backend, Flights, Settled, Clean
      <4> QED
        BY <1>5, <2>8, <3>1, <4>1, UndonePhase DEF UndoUpdate, Rolling
    <3>2. CASE pc' = "restore" /\ UNCHANGED <<cur, scope, errors>>
      BY <1>5, <2>8, <3>2 DEF UndoUpdate, service, backend, Phase, Settled, Changed, Clean,
           Fresh, Forward, Rolling
    <3>3. CASE NotUndone
      <4>1. \A b \in Action \ {a} : Settled(b) => Settled(b)'
        BY <1>5, <2>8 DEF UndoUpdate, service, backend, Settled, Clean
      <4> QED
        BY <1>5, <2>8, <3>3, <4>1, NotUndonePhase DEF UndoUpdate, Rolling
    <3> QED
      BY <2>8, <3>1, <3>2, <3>3 DEF UndoUpdate
  <2>9. CASE UndoCreated(a)
    BY <1>5, <2>9 DEF UndoCreated, Leave, Undone, NotUndone, service, backend, TypeOK,
         Content, Op, Action, Phase, Flights, Settled, Fresh, Changed, Clean, Forward,
         Rolling
  <2>10. CASE Revert(a)
    <3>0. /\ pc \in Op /\ pc \in {"delete", "restore"} /\ (pc = "delete" => Kind[a] # "update")
          /\ receipt' = receipt
      BY <1>5, <2>10 DEF Revert, Op, Flights
    <3>1. \A b \in Action \ {a} : Settled(b) => Settled(b)'
      BY <1>5, <2>10, <3>0 DEF Revert, Answered, Accepted, Failed, Nothing, CarryOut,
           Settled, Clean, TypeOK
    <3>2. CASE pc' \in {"check", "linger"} /\ UNCHANGED <<cur, scope, errors>>
      BY <1>5, <2>10, <3>0, <3>1, <3>2 DEF Phase, Rolling, Forward, Action, TypeOK
    <3>3. CASE NotUndone
      BY <1>5, <2>10, <3>0, <3>1, <3>3, NotUndonePhase DEF Rolling
    <3> QED
      BY <2>10, <3>2, <3>3 DEF Revert
  <2>11. CASE Linger(a)
    BY <1>5, <2>11 DEF Linger, GiveUp, Leave, Undone, NotUndone, service, backend, TypeOK,
         Content, Op, Action, Phase, Flights, Settled, Fresh, Changed, Clean, Forward,
         Rolling
  <2>12. CASE Check(a)
    <3>1. \A b \in Action \ {a} : Settled(b) => Settled(b)'
      BY <1>5, <2>12 DEF Check, service, backend, Settled, Clean
    <3>2. CASE content[a] = (IF Kind[a] = "update" THEN "old" ELSE "absent") /\ Undone
      <4>1. Settled(a)'
        BY <1>5, <2>12, <3>2 DEF Check, service, backend, Flights, Settled, Clean
      <4> QED
        BY <1>5, <2>12, <3>1, <3>2, <4>1, UndonePhase DEF Check, Rolling
    <3>3. CASE NotUndone
      BY <1>5, <2>12, <3>1, <3>3, NotUndonePhase DEF Check, Rolling
    <3> QED
      BY <2>12, <3>2, <3>3 DEF Check
  <2> QED
    BY <1>5, <2>1, <2>2, <2>3, <2>4, <2>5, <2>6, <2>7, <2>8, <2>9, <2>10, <2>11, <2>12
<1>6. ASSUME NEW a \in Action, Land(a) \/ Drift(a)
      PROVE  Phase'
  <2>1. CASE Land(a)
    BY <2>1, SMTT(30) DEF Land, CarryOut, Result, backend, TypeOK, Content, Op, Action, Phase, Flights,
         Settled, Fresh, Changed, Clean, Forward, Rolling
  <2>2. CASE Drift(a)
    BY <2>2 DEF Drift, backend, TypeOK, Content, Op, Action, Phase, Flights, Settled, Fresh,
         Changed, Clean, Forward, Rolling
  <2> QED
    BY <1>6, <2>1, <2>2
<1> QED
  BY <1>1, <1>2, <1>3, <1>4, <1>5, <1>6 DEF Next, Execute

\* Every step keeps what can be under way.
LEMMA FlightsNext ==
  ASSUME TypeOK, Phase, Flights, [Next]_vars
  PROVE  Flights'
<1> USE PlanAssumption, TagAssumption, DriftAssumption
<1>1. CASE UNCHANGED vars
  BY <1>1 DEF vars, TypeOK, Content, Op, Action, Phase, Flights, Fresh, Changed, Clean,
       Forward, Rolling
<1>2. CASE Expire
  BY <1>2 DEF Expire, Local, Unread, service, backend, TypeOK, Content, Op, Action, Phase, Flights,
       Fresh, Changed, Clean, Forward, Rolling
<1>3. CASE Seal
  BY <1>3 DEF Seal, Abandon, service, backend, TypeOK, Content, Op, Action, Phase, Flights,
       Fresh, Changed, Clean, Forward, Rolling
<1>4. CASE Close
  BY <1>4 DEF Close, service, backend, TypeOK, Content, Op, Action, Phase, Flights, Fresh,
       Changed, Clean, Forward, Rolling
<1>5. ASSUME NEW a \in Action, a = cur,
            SendUpdate(a) \/ SendItem(a) \/ SendNamed(a) \/ Wait(a) \/ ReadBack(a) \/
            ReconcileItem(a) \/ ReconcileNamed(a) \/ UndoUpdate(a) \/ UndoCreated(a) \/
            Revert(a) \/ Linger(a) \/ Check(a)
      PROVE  Flights'
  <2>1. CASE SendUpdate(a)
    BY <1>5, <2>1 DEF SendUpdate, Answered, Accepted, Failed, Nothing, CarryOut, Result,
         Sure, Tag, Local, Unread, service, TypeOK, Content, Op, Action, Phase, Flights, Fresh,
         Changed, Clean, Forward, Rolling
  <2>2. CASE SendItem(a)
    BY <1>5, <2>2 DEF SendItem, Answered, Accepted, Failed, Nothing, CarryOut, Result, Sure,
         Know, Local, Unread, service, TypeOK, Content, Op, Action, Phase, Flights, Fresh, Changed,
         Clean, Forward, Rolling
  <2>3. CASE SendNamed(a)
    BY <1>5, <2>3 DEF SendNamed, Answered, Accepted, Failed, Nothing, CarryOut, Result, Sure,
         Tag, Local, Unread, service, TypeOK, Content, Op, Action, Phase, Flights, Fresh, Changed,
         Clean, Forward, Rolling
  <2>4. CASE Wait(a)
    BY <1>5, <2>4 DEF Wait, GiveUp, Sure, Know, Local, Unread, service, TypeOK, Content, Op, Action,
         Phase, Flights, Fresh, Changed, Clean, Forward, Rolling
  <2>5. CASE ReadBack(a)
    BY <1>5, <2>5 DEF ReadBack, Look, Proceed, Abandon, Tag, Local, Unread, service, TypeOK, Content, Op,
         Action, Phase, Flights, Fresh, Changed, Clean, Forward, Rolling
  <2>6. CASE ReconcileItem(a)
    BY <1>5, <2>6 DEF ReconcileItem, Found, Look, Proceed, Abandon, DeleteInline, Unread, Sure, Know, Tag,
         service, backend, TypeOK, Content, Op, Action, Phase, Flights, Fresh, Changed,
         Clean, Forward, Rolling
  <2>7. CASE ReconcileNamed(a)
    BY <1>5, <2>7 DEF ReconcileNamed, Found, Look, Proceed, Abandon, DeleteInline, Unread, Sure, Tag,
         service, TypeOK, Content, Op, Action, Phase, Flights, Fresh, Changed, Clean,
         Forward, Rolling
  <2>8. CASE UndoUpdate(a)
    BY <1>5, <2>8 DEF UndoUpdate, Leave, Undone, NotUndone, service, backend, TypeOK,
         Content, Op, Action, Phase, Flights, Fresh, Changed, Clean, Forward, Rolling
  <2>9. CASE UndoCreated(a)
    BY <1>5, <2>9 DEF UndoCreated, Leave, Undone, NotUndone, service, backend, TypeOK,
         Content, Op, Action, Phase, Flights, Fresh, Changed, Clean, Forward, Rolling
  <2>10. CASE Revert(a)
    BY <1>5, <2>10, SMTT(30) DEF Revert, Answered, Accepted, Failed, Nothing, CarryOut, Result, Leave,
         Undone, NotUndone, backend, TypeOK, Content, Op, Action, Phase, Flights, Fresh,
         Changed, Clean, Forward, Rolling
  <2>11. CASE Linger(a)
    BY <1>5, <2>11 DEF Linger, GiveUp, Leave, Undone, NotUndone, service, backend, TypeOK,
         Content, Op, Action, Phase, Flights, Fresh, Changed, Clean, Forward, Rolling
  <2>12. CASE Check(a)
    BY <1>5, <2>12 DEF Check, Leave, Undone, NotUndone, service, backend, TypeOK, Content,
         Op, Action, Phase, Flights, Fresh, Changed, Clean, Forward, Rolling
  <2> QED
    BY <1>5, <2>1, <2>2, <2>3, <2>4, <2>5, <2>6, <2>7, <2>8, <2>9, <2>10, <2>11, <2>12
<1>6. ASSUME NEW a \in Action, Land(a) \/ Drift(a)
      PROVE  Flights'
  <2>1. CASE Land(a)
    BY <2>1 DEF Land, CarryOut, Result, backend, TypeOK, Content, Op, Action, Phase, Flights,
         Fresh, Changed, Clean, Forward, Rolling
  <2>2. CASE Drift(a)
    BY <2>2 DEF Drift, backend, TypeOK, Content, Op, Action, Phase, Flights, Fresh, Changed,
         Clean, Forward, Rolling
  <2> QED
    BY <1>6, <2>1, <2>2
<1> QED
  BY <1>1, <1>2, <1>3, <1>4, <1>5, <1>6 DEF Next, Execute

\* A write of the release's own leaves what others wrote elsewhere as it is, and
\* a version it keeps of its own write is one it has read.
LEMMA OwnWrite ==
  ASSUME TypeOK, Versions, NEW a \in Action,
         UNCHANGED <<seen, editsRead>>,
         \A b \in Action \ {a} : UNCHANGED <<content[b], ver[b], tag[b]>>,
         \/ UNCHANGED <<content[a], ver[a], tag[a]>>
         \/ UNCHANGED <<content[a], ver[a]>> /\ Kind[a] = "update"
         \/ /\ content'[a] \in {"ours", "old", "absent"}
            /\ ver'[a] = ver[a] + 1
            /\ tag'[a] = tag[a] \/ tag'[a] = ver'[a]
  PROVE  Versions'
<1>1. ASSUME NEW b \in Action, b # a PROVE UNCHANGED <<content[b], ver[b], tag[b], seen[b], Kind[b]>>
  BY <1>1
<1>2. ver[a] \in Nat /\ tag[a] \in Nat \cup {NoTag} /\ seen[a] \in Nat \cup {NoTag}
  BY DEF TypeOK
<1>3. CASE UNCHANGED <<content[a], ver[a], tag[a]>>
  <2>1. \A b \in Action : UNCHANGED <<content[b], ver[b], tag[b]>>
    BY <1>3
  <2> QED
    BY <2>1 DEF Versions
<1>4. CASE UNCHANGED <<content[a], ver[a]>> /\ Kind[a] = "update"
  BY <1>1, <1>4 DEF Versions
<1>5. CASE /\ content'[a] \in {"ours", "old", "absent"}
           /\ ver'[a] = ver[a] + 1
           /\ tag'[a] = tag[a] \/ tag'[a] = ver'[a]
  BY <1>1, <1>2, <1>5, TagAssumption DEF Versions
<1> QED
  BY <1>3, <1>4, <1>5

\* What carrying out a request does to what others wrote.
LEMMA CarriedOut ==
  ASSUME TypeOK, NEW a \in Action, NEW op \in Op, CarryOut(a, op)
  PROVE  /\ \A b \in Action \ {a} : UNCHANGED <<content[b], ver[b]>>
         /\ content'[a] \in {"ours", "old", "absent"}
         /\ ver'[a] = ver[a] + 1
  BY DEF CarryOut, Result, TypeOK, Op

\* Every step keeps foreign writes newer than any version the release has seen.
LEMMA VersionsNext ==
  ASSUME TypeOK, Versions, [Next]_vars
  PROVE  Versions'
<1> USE PlanAssumption, TagAssumption, DriftAssumption
<1>1. CASE UNCHANGED vars
  BY <1>1 DEF vars, TypeOK, Content, Op, Action, Versions, Applies
<1>2. CASE Expire
  BY <1>2 DEF Expire, Local, Unread, service, backend, TypeOK, Content, Op, Action, Versions, Applies
<1>3. CASE Seal
  BY <1>3 DEF Seal, Abandon, service, backend, TypeOK, Content, Op, Action, Versions, Applies
<1>4. CASE Close
  BY <1>4 DEF Close, service, backend, TypeOK, Content, Op, Action, Versions, Applies
<1>5. ASSUME NEW a \in Action, a = cur,
            SendUpdate(a) \/ SendItem(a) \/ SendNamed(a) \/ Wait(a) \/ ReadBack(a) \/
            ReconcileItem(a) \/ ReconcileNamed(a) \/ UndoUpdate(a) \/ UndoCreated(a) \/
            Revert(a) \/ Linger(a) \/ Check(a)
      PROVE  Versions'
  <2>0. "update" \in Op /\ "create" \in Op /\ "delete" \in Op /\ "restore" \in Op
    BY DEF Op
  <2>1. CASE SendUpdate(a)
    <3>1. Kind[a] = "update" /\ UNCHANGED <<seen, editsRead>>
      BY <2>1 DEF SendUpdate, Local, Unread
    <3>2. \A b \in Action \ {a} : tag'[b] = tag[b]
      BY <2>1 DEF SendUpdate, Tag, TypeOK
    <3>3. UNCHANGED <<content, ver>> \/ (CarryOut(a, "update") /\ (tag'[a] = tag[a] \/ tag'[a] = ver'[a]))
      BY <2>1 DEF SendUpdate, Answered, Accepted, Failed, Nothing, Tag, TypeOK
    <3> QED
      BY <2>0, <3>1, <3>2, <3>3, CarriedOut, OwnWrite
  <2>2. CASE SendItem(a)
    <3>1. UNCHANGED <<tag, seen, editsRead>>
      BY <2>2 DEF SendItem, Local, Unread
    <3>2. UNCHANGED <<content, ver>> \/ CarryOut(a, "create")
      BY <2>2 DEF SendItem, Answered, Accepted, Failed, Nothing
    <3> QED
      BY <2>0, <3>1, <3>2, CarriedOut, OwnWrite
  <2>3. CASE SendNamed(a)
    <3>1. UNCHANGED <<seen, editsRead>>
      BY <2>3 DEF SendNamed, Local, Unread
    <3>2. \A b \in Action \ {a} : tag'[b] = tag[b]
      BY <2>3 DEF SendNamed, Tag, TypeOK
    <3>3. \/ UNCHANGED <<content, ver, tag>>
          \/ CarryOut(a, "create") /\ (tag'[a] = tag[a] \/ tag'[a] = ver'[a])
      BY <2>3 DEF SendNamed, Answered, Accepted, Failed, Nothing, Tag, TypeOK
    <3> QED
      BY <2>0, <3>1, <3>2, <3>3, CarriedOut, OwnWrite
  <2>4. CASE Wait(a)
    BY <1>5, <2>4 DEF Wait, GiveUp, Sure, Know, Local, Unread, service, TypeOK, Content, Op, Action,
         Versions, Applies
  <2>5. CASE ReadBack(a)
    BY <1>5, <2>5 DEF ReadBack, Look, Proceed, Abandon, Tag, Local, Unread, service, TypeOK, Content, Op,
         Action, Versions, Applies
  <2>6. CASE ReconcileItem(a)
    BY <1>5, <2>6 DEF ReconcileItem, Found, Look, Proceed, Abandon, DeleteInline, Unread, Sure, Know, Tag,
         service, backend, TypeOK, Content, Op, Action, Versions, Applies
  <2>7. CASE ReconcileNamed(a)
    BY <1>5, <2>7 DEF ReconcileNamed, Found, Look, Proceed, Abandon, DeleteInline, Unread, Sure, Tag,
         service, TypeOK, Content, Op, Action, Versions, Applies
  <2>8. CASE UndoUpdate(a)
    BY <1>5, <2>8 DEF UndoUpdate, Leave, Undone, NotUndone, service, backend, TypeOK,
         Content, Op, Action, Versions, Applies
  <2>9. CASE UndoCreated(a)
    BY <1>5, <2>9 DEF UndoCreated, Leave, Undone, NotUndone, service, backend, TypeOK,
         Content, Op, Action, Versions, Applies
  <2>10. CASE Revert(a)
    <3>1. UNCHANGED <<tag, seen, editsRead>> /\ pc \in Op
      BY <2>0, <2>10 DEF Revert, backend
    <3>2. UNCHANGED <<content, ver>> \/ CarryOut(a, pc)
      BY <2>10 DEF Revert, Answered, Accepted, Failed, Nothing
    <3> QED
      BY <3>1, <3>2, CarriedOut, OwnWrite
  <2>11. CASE Linger(a)
    BY <1>5, <2>11 DEF Linger, GiveUp, Leave, Undone, NotUndone, service, backend, TypeOK,
         Content, Op, Action, Versions, Applies
  <2>12. CASE Check(a)
    BY <1>5, <2>12 DEF Check, Leave, Undone, NotUndone, service, backend, TypeOK, Content,
         Op, Action, Versions, Applies
  <2> QED
    BY <1>5, <2>1, <2>2, <2>3, <2>4, <2>5, <2>6, <2>7, <2>8, <2>9, <2>10, <2>11, <2>12
<1>6. ASSUME NEW a \in Action, Land(a) \/ Drift(a)
      PROVE  Versions'
  <2>1. CASE Land(a)
    <3>1. UNCHANGED <<tag, seen, editsRead>>
      BY <2>1 DEF Land, backend
    <3>2. flight[a] \in Op /\ (UNCHANGED <<content, ver>> \/ CarryOut(a, flight[a]))
      BY <2>1 DEF Land
    <3> QED
      BY <3>1, <3>2, CarriedOut, OwnWrite
  <2>2. CASE Drift(a)
    BY <2>2 DEF Drift, backend, TypeOK, Content, Op, Action, Versions, Applies
  <2> QED
    BY <1>6, <2>1, <2>2
<1> QED
  BY <1>1, <1>2, <1>3, <1>4, <1>5, <1>6 DEF Next, Execute

\* Every step keeps the receipts true.
LEMMA ReceiptsNext ==
  ASSUME TypeOK, Phase, Flights, RolledBackIsTrue, SucceededIsTrue, [Next]_vars
  PROVE  (RolledBackIsTrue /\ SucceededIsTrue)'
<1> USE PlanAssumption, TagAssumption, DriftAssumption
       DEF TypeOK, Content, Op, Action, Phase, Flights, RolledBackIsTrue, SucceededIsTrue,
            Settled, Fresh, Changed, Clean, Forward, Rolling
<1>1. CASE UNCHANGED vars
  BY <1>1 DEF vars
<1>2. CASE Expire
  BY <1>2 DEF Expire, Local, Unread, service, backend
<1>3. CASE Seal
  BY <1>3 DEF Seal, Abandon, service, backend
<1>4. CASE Close
  BY <1>4 DEF Close, service, backend
<1>5. ASSUME NEW a \in Action, a = cur,
            SendUpdate(a) \/ SendItem(a) \/ SendNamed(a) \/ Wait(a) \/ ReadBack(a) \/
            ReconcileItem(a) \/ ReconcileNamed(a) \/ UndoUpdate(a) \/ UndoCreated(a) \/
            Revert(a) \/ Linger(a) \/ Check(a)
      PROVE  (RolledBackIsTrue /\ SucceededIsTrue)'
  <2>1. CASE SendUpdate(a)
    BY <1>5, <2>1 DEF SendUpdate, Answered, Accepted, Failed, Nothing, CarryOut, Result,
         Sure, Tag, Local, Unread, service
  <2>2. CASE SendItem(a)
    BY <1>5, <2>2 DEF SendItem, Answered, Accepted, Failed, Nothing, CarryOut, Result, Sure,
         Know, Local, Unread, service
  <2>3. CASE SendNamed(a)
    BY <1>5, <2>3 DEF SendNamed, Answered, Accepted, Failed, Nothing, CarryOut, Result, Sure,
         Tag, Local, Unread, service
  <2>4. CASE Wait(a)
    BY <1>5, <2>4 DEF Wait, GiveUp, Sure, Know, Local, Unread, service
  <2>5. CASE ReadBack(a)
    BY <1>5, <2>5 DEF ReadBack, Look, Proceed, Abandon, Tag, Local, Unread, service
  <2>6. CASE ReconcileItem(a)
    BY <1>5, <2>6 DEF ReconcileItem, Found, Look, Proceed, Abandon, DeleteInline, Unread, Sure, Know, Tag,
         service, backend
  <2>7. CASE ReconcileNamed(a)
    BY <1>5, <2>7 DEF ReconcileNamed, Found, Look, Proceed, Abandon, DeleteInline, Unread, Sure, Tag, service
  <2>8. CASE UndoUpdate(a)
    BY <1>5, <2>8 DEF UndoUpdate, Leave, Undone, NotUndone, service, backend
  <2>9. CASE UndoCreated(a)
    BY <1>5, <2>9 DEF UndoCreated, Leave, Undone, NotUndone, service, backend
  <2>10. CASE Revert(a)
    BY <1>5, <2>10 DEF Revert, Answered, Accepted, Failed, Nothing, CarryOut, Result, Leave,
         Undone, NotUndone, backend
  <2>11. CASE Linger(a)
    BY <1>5, <2>11 DEF Linger, GiveUp, Leave, Undone, NotUndone, service, backend
  <2>12. CASE Check(a)
    BY <1>5, <2>12 DEF Check, Leave, Undone, NotUndone, service, backend
  <2> QED
    BY <1>5, <2>1, <2>2, <2>3, <2>4, <2>5, <2>6, <2>7, <2>8, <2>9, <2>10, <2>11, <2>12
<1>6. ASSUME NEW a \in Action, Land(a) \/ Drift(a)
      PROVE  (RolledBackIsTrue /\ SucceededIsTrue)'
  <2>1. CASE Land(a)
    BY <2>1 DEF Land, CarryOut, Result, backend
  <2>2. CASE Drift(a)
    BY <2>2 DEF Drift, backend
  <2> QED
    BY <1>6, <2>1, <2>2
<1> QED
  BY <1>1, <1>2, <1>3, <1>4, <1>5, <1>6 DEF Next, Execute

\* No step overwrites or deletes what somebody else wrote and nobody has read.
Kept ==
    \A a \in Action :
       /\ content[a] = "theirs" => content'[a] = "theirs"
       /\ content[a] = "edited" /\ content'[a] # "edited" => a \in editsRead

\* A request is carried out only where its condition holds, and after a foreign
\* write none does until the executor has read the resource again.
LEMMA KeptNext ==
  ASSUME TypeOK, Flights, Versions, [Next]_vars
  PROVE  Kept
<1> USE PlanAssumption, TagAssumption, DriftAssumption
       DEF TypeOK, Op, Kept, Versions, Flights, Applies
<1>1. CASE UNCHANGED vars
  BY <1>1 DEF vars
<1>2. CASE Expire
  BY <1>2 DEF Expire, Local, Unread, service, backend
<1>3. CASE Seal
  BY <1>3 DEF Seal, Abandon, service, backend
<1>4. CASE Close
  BY <1>4 DEF Close, service, backend
<1>5. ASSUME NEW a \in Action, a = cur,
            SendUpdate(a) \/ SendItem(a) \/ SendNamed(a) \/ Wait(a) \/ ReadBack(a) \/
            ReconcileItem(a) \/ ReconcileNamed(a) \/ UndoUpdate(a) \/ UndoCreated(a) \/
            Revert(a) \/ Linger(a) \/ Check(a)
      PROVE  Kept
  <2>1. CASE SendUpdate(a)
    BY <1>5, <2>1 DEF SendUpdate, Answered, Accepted, Failed, Nothing, CarryOut, Result,
         Sure, Tag, Local, Unread, service
  <2>2. CASE SendItem(a)
    BY <1>5, <2>2 DEF SendItem, Answered, Accepted, Failed, Nothing, CarryOut, Result, Sure,
         Know, Local, Unread, service
  <2>3. CASE SendNamed(a)
    BY <1>5, <2>3 DEF SendNamed, Answered, Accepted, Failed, Nothing, CarryOut, Result, Sure,
         Tag, Local, Unread, service
  <2>4. CASE Wait(a)
    BY <1>5, <2>4 DEF Wait, GiveUp, Sure, Know, Local, Unread, service
  <2>5. CASE ReadBack(a)
    BY <1>5, <2>5 DEF ReadBack, Look, Proceed, Abandon, Tag, Local, Unread, service
  <2>6. CASE ReconcileItem(a)
    BY <1>5, <2>6 DEF ReconcileItem, Found, Look, Proceed, Abandon, DeleteInline, Unread, Sure, Know, Tag,
         service, backend
  <2>7. CASE ReconcileNamed(a)
    BY <1>5, <2>7 DEF ReconcileNamed, Found, Look, Proceed, Abandon, DeleteInline, Unread, Sure, Tag, service
  <2>8. CASE UndoUpdate(a)
    BY <1>5, <2>8 DEF UndoUpdate, Leave, Undone, NotUndone, service, backend
  <2>9. CASE UndoCreated(a)
    BY <1>5, <2>9 DEF UndoCreated, Leave, Undone, NotUndone, service, backend
  <2>10. CASE Revert(a)
    BY <1>5, <2>10 DEF Revert, Answered, Accepted, Failed, Nothing, CarryOut, Result, Leave,
         Undone, NotUndone, backend
  <2>11. CASE Linger(a)
    BY <1>5, <2>11 DEF Linger, GiveUp, Leave, Undone, NotUndone, service, backend
  <2>12. CASE Check(a)
    BY <1>5, <2>12 DEF Check, Leave, Undone, NotUndone, service, backend
  <2> QED
    BY <1>5, <2>1, <2>2, <2>3, <2>4, <2>5, <2>6, <2>7, <2>8, <2>9, <2>10, <2>11, <2>12
<1>6. ASSUME NEW a \in Action, Land(a) \/ Drift(a)
      PROVE  Kept
  <2>1. CASE Land(a)
    BY <2>1 DEF Land, CarryOut, Result, backend
  <2>2. CASE Drift(a)
    BY <2>2 DEF Drift, backend
  <2> QED
    BY <1>6, <2>1, <2>2
<1> QED
  BY <1>1, <1>2, <1>3, <1>4, <1>5, <1>6 DEF Next, Execute

-----------------------------------------------------------------------------
Inv == TypeOK /\ Phase /\ Flights /\ Versions /\ RolledBackIsTrue /\ SucceededIsTrue

LEMMA InvInit == Init => Inv
  BY PlanAssumption, TagAssumption, DriftAssumption
     DEF Init, Inv, TypeOK, Content, Op, Action, Phase, Flights, Versions, RolledBackIsTrue,
         SucceededIsTrue, Forward, Rolling, Fresh, Clean, Changed, Settled

LEMMA InvNext == Inv /\ [Next]_vars => Inv'
  BY TypeNext, PhaseNext, FlightsNext, VersionsNext, ReceiptsNext DEF Inv

THEOREM Invariant == Spec => []Inv
  BY InvInit, InvNext, PTL DEF Spec

\* Every reachable state has its shape.
THEOREM TypeCorrect == Spec => []TypeOK
<1>1. Inv => TypeOK
  BY DEF Inv
<1> QED
  BY <1>1, Invariant, PTL

\* A rolled-back receipt (agent/l7_release.py, L7Executor.execute) is true up to
\* updates the executor gave up on.
THEOREM RolledBackReceiptsAreTrue == Spec => []RolledBackIsTrue
<1>1. Inv => RolledBackIsTrue
  BY DEF Inv
<1> QED
  BY <1>1, Invariant, PTL

\* A success receipt (commit_success) is sealed only when every action took
\* effect and nothing is under way.
THEOREM SucceededReceiptsAreTrue == Spec => []SucceededIsTrue
<1>1. Inv => SucceededIsTrue
  BY DEF Inv
<1> QED
  BY <1>1, Invariant, PTL

\* Neither a change nor a rollback (LiveL7Backend.apply, rollback) overwrites a
\* definition or a name of somebody else's, and a creation they edited is deleted
\* only after the executor has read it since.
THEOREM NoForeignWriteIsLostUnseen == Spec => NothingLostUnseen
<1>1. Inv /\ [Next]_vars => [Kept]_vars
  BY KeptNext DEF Inv
<1> QED
  BY <1>1, Invariant, PTL DEF Spec, NothingLostUnseen, Kept
=============================================================================
