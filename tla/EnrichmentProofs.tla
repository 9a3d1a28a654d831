-------------------------- MODULE EnrichmentProofs --------------------------
(* Theorems about Enrichment, for any number of documents, work units,     *)
(* commands and threads.                                                   *)
EXTENDS Enrichment, FiniteSetTheorems, TLAPS

Pc == {"queued"} \cup Busy \cup Final

-----------------------------------------------------------------------------
(* What the steps have in common.                                          *)

\* A manifest with one entry of a unit replaced.
LEMMA WithUnitLemma ==
    ASSUME TypeOK, run # 0, NEW s \in Source, NEW u \in Unit,
           NEW x \in {"succeeded", "failed"}
    PROVE  /\ WithUnit(s, u, x) \in Manifest
           /\ WithUnit(s, u, x).doc = copy[s].doc
           /\ WithUnit(s, u, x).unit[u] = Now(x)
           /\ \A v \in Unit \ {u} : WithUnit(s, u, x).unit[v] = copy[s].unit[v]
  <1>1. copy[s] \in Manifest BY DEF TypeOK
  <1>2. Now(x) \in Entry BY DEF TypeOK, Now, Entry
  <1> DEFINE m == copy[s]
  <1>3. m.unit \in [Unit -> Entry] /\ m.doc \in [Source -> Entry]
    BY <1>1 DEF Manifest
  <1>4. WithUnit(s, u, x) = [unit |-> [m.unit EXCEPT ![u] = Now(x)], doc |-> m.doc]
    BY <1>1 DEF WithUnit, Manifest
  <1> QED BY <1>2, <1>3, <1>4 DEF Manifest

\* A manifest with one entry of a document replaced.
WithDoc(s, x) == [copy[s] EXCEPT !.doc[s] = Now(x)]

LEMMA WithDocLemma ==
    ASSUME TypeOK, run # 0, NEW s \in Source, NEW x \in {"succeeded", "failed"}
    PROVE  /\ WithDoc(s, x) \in Manifest
           /\ WithDoc(s, x).unit = copy[s].unit
           /\ WithDoc(s, x).doc[s] = Now(x)
           /\ \A t \in Source \ {s} : WithDoc(s, x).doc[t] = copy[s].doc[t]
  <1>1. copy[s] \in Manifest BY DEF TypeOK
  <1>2. Now(x) \in Entry BY DEF TypeOK, Now, Entry
  <1> DEFINE c == copy[s]
  <1>3. c.unit \in [Unit -> Entry] /\ c.doc \in [Source -> Entry]
    BY <1>1 DEF Manifest
  <1>4. WithDoc(s, x) = [unit |-> c.unit, doc |-> [c.doc EXCEPT ![s] = Now(x)]]
    BY <1>1 DEF WithDoc, Manifest
  <1> QED BY <1>2, <1>3, <1>4 DEF Manifest

\* A save leaves file and copy alike, with the copy's entries where it has any.
LEMMA SaveLemma ==
    ASSUME TypeOK, NEW s \in Source, NEW m \in Manifest, Save(s, m)
    PROVE  /\ file' \in Manifest
           /\ copy' \in [Source -> Manifest]
           /\ copy'[s] = file'
           /\ \A t \in Source \ {s} : copy'[t] = copy[t]
           /\ \A u \in Unit :
                file'.unit[u] = IF m.unit[u] # NoEntry THEN m.unit[u] ELSE file.unit[u]
           /\ \A t \in Source :
                file'.doc[t] = IF m.doc[t] # NoEntry THEN m.doc[t] ELSE file.doc[t]
  <1>1. /\ m.unit \in [Unit -> Entry] /\ m.doc \in [Source -> Entry]
        /\ file.unit \in [Unit -> Entry] /\ file.doc \in [Source -> Entry]
    BY DEF TypeOK, Manifest
  <1>2. /\ Overlay(m.unit, file.unit) \in [Unit -> Entry]
        /\ Overlay(m.doc, file.doc) \in [Source -> Entry]
        /\ \A u \in Unit : Overlay(m.unit, file.unit)[u]
              = IF m.unit[u] # NoEntry THEN m.unit[u] ELSE file.unit[u]
        /\ \A t \in Source : Overlay(m.doc, file.doc)[t]
              = IF m.doc[t] # NoEntry THEN m.doc[t] ELSE file.doc[t]
    BY <1>1 DEF Overlay
  <1>3. file' = [unit |-> Overlay(m.unit, file.unit), doc |-> Overlay(m.doc, file.doc)]
    BY DEF Save
  <1>4. file' \in Manifest BY <1>2, <1>3 DEF Manifest
  <1>5. copy' = [copy EXCEPT ![s] = file'] BY DEF Save
  <1>6. copy \in [Source -> Manifest] BY DEF TypeOK
  <1> QED BY <1>2, <1>3, <1>4, <1>5, <1>6

\* The handler waits, or the source fails.
LEMMA AbortLemma ==
    ASSUME TypeOK, NEW s \in Source, Abort(s)
    PROVE  /\ cancel' \in BOOLEAN
           /\ \/ /\ pc[s] = "running" /\ pc' = [pc EXCEPT ![s] = "waiting"]
                 /\ call' = [u \in Unit |-> IF Owner[u] = s THEN Interrupted(u) ELSE call[u]]
              \/ pc' = [pc EXCEPT ![s] = "failed"] /\ call' = call
  <1>1. CASE Pooled /\ pc[s] = "running" BY <1>1 DEF Abort
  <1>2. CASE ~(Pooled /\ pc[s] = "running") BY <1>2 DEF Abort, TypeOK
  <1> QED BY <1>1, <1>2

\* A call becomes what the handler makes of it.
LEMMA InterruptedLemma ==
    ASSUME TypeOK, NEW u \in Unit
    PROVE  /\ Interrupted(u) \in Call
           /\ Interrupted(u) # "written"
           /\ Interrupted(u) \in Done <=> call[u] \in Done
           /\ call[u] \notin {"pending", "written"} => Interrupted(u) = call[u]
  BY DEF TypeOK, Interrupted, Call, Answer, Done

\* One source takes a step, another keeps its place.
LEMMA GotoLemma ==
    ASSUME TypeOK, NEW s \in Source, NEW x \in Pc, pc' = [pc EXCEPT ![s] = x]
    PROVE  /\ pc' \in [Source -> Pc]
           /\ pc'[s] = x
           /\ \A t \in Source \ {s} : pc'[t] = pc[t]
  BY DEF TypeOK, Pc

\* One work unit changes, the others stay.
LEMMA BecomesLemma ==
    ASSUME TypeOK, NEW u \in Unit, NEW x \in Call, Becomes(u, x)
    PROVE  /\ call' \in [Unit -> Call]
           /\ call'[u] = x
           /\ \A v \in Unit \ {u} : call'[v] = call[v]
  BY DEF TypeOK, Becomes

-----------------------------------------------------------------------------
(* Who acts has begun, and is not over.                                    *)

LEMMA GuardLemma ==
    ASSUME TypeOK, Given, NEW s \in Source, Step(s) \/ WriteFails(s)
    PROVE  /\ pc[s] \in {"queued"} \cup Busy
           /\ run # 0
  <1>1. pc[s] \in {"queued"} \cup Busy
    BY DEF Step, WriteFails, Start, Skip, Refuse, Invoke, Return, WriteReceipt, Record,
           Recordable, Turn, Notice, Flush, Raise, Close, MarkDocument, OpenOutput,
           FillOutput, Finish, Busy
  <1> QED BY <1>1 DEF Given, Busy

\* A step of a source changes the place of no other, and no source is given anew.
LEMMA MoveLemma ==
    ASSUME TypeOK, NEW s \in Source, Step(s) \/ WriteFails(s)
    PROVE  /\ \/ pc' = pc
              \/ \E x \in Busy \cup (Final \ {"absent", "new"}) : pc' = [pc EXCEPT ![s] = x]
           /\ UNCHANGED command
  <1> DEFINE Moved == \/ pc' = pc
                      \/ \E x \in Busy \cup (Final \ {"absent", "new"}) :
                            pc' = [pc EXCEPT ![s] = x]
  <1>1. ASSUME NEW x \in Busy \cup (Final \ {"absent", "new"}), Goto(s, x)
        PROVE  Moved
    BY <1>1 DEF Goto
  <1>2. CASE Start(s) BY <1>1, <1>2 DEF Start, command, Busy
  <1>3. CASE Skip(s) BY <1>1, <1>3 DEF Skip, command, Final
  <1>4. CASE Refuse(s) BY <1>1, <1>4 DEF Refuse, command, Final
  <1>5. CASE \E u \in Units(s) : Invoke(s, u) \/ WriteReceipt(s, u) \/ Record(s, u)
                  \/ \E answer \in Answer : Return(s, u, answer)
    BY <1>5 DEF Invoke, WriteReceipt, Record, Return, command
  <1>6. CASE Notice(s)
    BY <1>6, AbortLemma DEF Notice, command, Busy, Final
  <1>7. CASE Flush(s) BY <1>1, <1>7 DEF Flush, command, Busy
  <1>8. CASE Raise(s) BY <1>1, <1>8 DEF Raise, command, Final
  <1>9. CASE Close(s) BY <1>1, <1>9 DEF Close, command, Busy
  <1>10. CASE MarkDocument(s) BY <1>1, <1>10 DEF MarkDocument, command, Busy
  <1>11. CASE OpenOutput(s) BY <1>1, <1>11 DEF OpenOutput, command, Busy
  <1>12. CASE FillOutput(s) BY <1>1, <1>12 DEF FillOutput, command, Busy
  <1>13. CASE Finish(s) BY <1>1, <1>13 DEF Finish, command, Final
  <1>14. CASE WriteFails(s)
    <2>1. CASE Abort(s)
      BY <1>14, <2>1, AbortLemma DEF WriteFails, command, Busy, Final
    <2>2. CASE Goto(s, "failed")
      BY <1>1, <1>14, <2>2 DEF WriteFails, command, Final
    <2> QED BY <1>14, <2>1, <2>2 DEF WriteFails
  <1> QED BY <1>2, <1>3, <1>4, <1>5, <1>6, <1>7, <1>8, <1>9, <1>10, <1>11, <1>12, <1>13,
             <1>14 DEF Step

\* So the input of the command stays, and with it the number of workers.
LEMMA InputLemma ==
    ASSUME TypeOK, Given, NEW s \in Source, Step(s) \/ WriteFails(s)
    PROVE  /\ pc' \in [Source -> Pc]
           /\ \A t \in Source \ {s} : pc'[t] = pc[t]
           /\ pc'[s] \notin {"absent", "new", "queued"} \/ pc' = pc
           /\ Input' = Input
           /\ Workers' = Workers
           /\ Given'
  <1>1. pc[s] \in {"queued"} \cup Busy /\ run # 0 BY GuardLemma
  <1>2. UNCHANGED run BY MoveLemma DEF command
  <1>3. CASE pc' = pc
    <2>1. pc' \in [Source -> Pc] BY <1>3 DEF TypeOK, Pc
    <2>2. Input' = Input /\ Workers' = Workers BY <1>3 DEF Input, Workers
    <2> QED BY <1>2, <1>3, <2>1, <2>2 DEF Given
  <1>4. ASSUME NEW x \in Busy \cup (Final \ {"absent", "new"}), pc' = [pc EXCEPT ![s] = x]
        PROVE  /\ pc' \in [Source -> Pc]
               /\ \A t \in Source \ {s} : pc'[t] = pc[t]
               /\ pc'[s] \notin {"absent", "new", "queued"}
               /\ Input' = Input /\ Workers' = Workers /\ Given'
    <2>1. x \in Pc /\ x \notin {"absent", "new", "queued"} BY <1>4 DEF Pc, Busy, Final
    <2>2. /\ pc' \in [Source -> Pc] /\ pc'[s] = x
          /\ \A t \in Source \ {s} : pc'[t] = pc[t]
      BY <1>4, <2>1, GotoLemma
    <2>3. \A t \in Source : pc'[t] = "absent" <=> pc[t] = "absent"
      BY <1>1, <2>1, <2>2 DEF Busy
    <2>4. Input' = Input BY <2>3 DEF Input
    <2>5. Workers' = Workers BY <2>4 DEF Workers
    <2> QED BY <1>1, <1>2, <2>1, <2>2, <2>4, <2>5 DEF Given
  <1> QED BY <1>3, <1>4, MoveLemma

LEMMA InterruptInput ==
    ASSUME TypeOK, Given, Interrupt \/ Kill
    PROVE  /\ pc' \in [Source -> Pc]
           /\ Input' = Input
           /\ Workers' = Workers
           /\ Given'
  <1>1. run # 0
    BY DEF Interrupt, Kill, Over, Given, Final
  <1>2. UNCHANGED run BY DEF Interrupt, Kill, command
  <1>3. pc' \in [Source -> Pc] BY DEF Interrupt, Kill, TypeOK, Pc, Busy, Final
  <1>4. ASSUME NEW t \in Source PROVE pc'[t] = "absent" <=> pc[t] = "absent"
    <2>1. CASE Interrupt
      <3>1. pc'[t] \in {"dropped", "waiting", "failed"} \/ pc'[t] = pc[t]
        BY <2>1 DEF Interrupt
      <3>2. pc[t] = "absent" => pc'[t] = pc[t]
        BY <2>1 DEF Interrupt, Busy
      <3> QED BY <3>1, <3>2
    <2>2. CASE Kill BY <2>2 DEF Kill, Final
    <2> QED BY <2>1, <2>2
  <1>5. Input' = Input BY <1>4 DEF Input
  <1>6. Workers' = Workers BY <1>5 DEF Workers
  <1> QED BY <1>1, <1>2, <1>3, <1>5, <1>6 DEF Given

LEMMA BeginInput ==
    ASSUME TypeOK, Given, NEW m, NEW id, Begin(m, id)
    PROVE  /\ pc' \in [Source -> Pc]
           /\ run' = run + 1 /\ run' \in 1..MaxRuns
           /\ Input' = Input
           /\ Workers' = Workers
           /\ Given'
  <1>1. Limit[Input] \in 0..MaxRuns BY RunsAssumption DEF Given
  <1>2. run' = run + 1 /\ run' \in 1..MaxRuns
    BY <1>1, RunsAssumption DEF Begin, TypeOK
  <1>3. pc' \in [Source -> Pc] BY DEF Begin, Pc, Busy, Final
  <1>4. Input' = Input BY DEF Begin, Input
  <1>5. Workers' = Workers BY <1>4 DEF Workers
  <1> QED BY <1>2, <1>3, <1>4, <1>5 DEF Given

-----------------------------------------------------------------------------
(* Type correctness.                                                       *)

LEMMA InitType == Init => TypeOK /\ Given
  <1> SUFFICES ASSUME Init PROVE TypeOK /\ Given
    OBVIOUS
  <1>1. Empty \in Manifest BY DEF Empty, Manifest, Entry
  <1>2. PICK input \in Inputs :
          pc = [s \in Source |-> IF s \in input THEN "new" ELSE "absent"]
    BY DEF Init
  <1>3. input \subseteq Source BY InputsAssumption
  <1>4. Input = input BY <1>2, <1>3 DEF Input
  <1>5. TypeOK
    <2>1. /\ receipt \in [Unit -> 0..MaxRuns] /\ run \in 0..MaxRuns
          /\ ident \in [1..MaxRuns -> 0..MaxRuns]
      BY RunsAssumption DEF Init
    <2>2. pc \in [Source -> {"queued"} \cup Busy \cup Final]
      BY <1>2 DEF Final
    <2>3. call \in [Unit -> Call] BY DEF Init, Call
    <2> QED BY <1>1, <2>1, <2>2, <2>3 DEF Init, TypeOK
  <1> QED BY <1>2, <1>4, <1>5 DEF Given

LEMMA BeginType ==
    ASSUME TypeOK, Given, NewCommand
    PROVE  TypeOK'
  <1>1. PICK m \in {"resume", "anew"}, id \in {ident[r] : r \in 1..run} \cup {run + 1} :
          Begin(m, id)
    BY DEF NewCommand
  <1>2. pc' \in [Source -> Pc] /\ run' = run + 1 /\ run' \in 1..MaxRuns
    BY <1>1, BeginInput
  <1>3. id \in 0..MaxRuns
    BY <1>1, <1>2, RunsAssumption DEF TypeOK
  <1>4. ident' \in [1..MaxRuns -> 0..MaxRuns]
    BY <1>1, <1>3 DEF Begin, TypeOK
  <1>5. Empty \in Manifest BY DEF Empty, Manifest, Entry
  <1>6. call' \in [Unit -> Call] /\ copy' \in [Source -> Manifest]
    BY <1>1, <1>5 DEF Begin, Call
  <1>7. run' \in 0..MaxRuns BY <1>2, RunsAssumption
  <1> QED BY <1>1, <1>2, <1>4, <1>6, <1>7 DEF Begin, TypeOK, durable, Pc

\* The steps that touch the memory of a command only.
LEMMA CallType ==
    ASSUME TypeOK, Given, NEW s \in Source,
           \/ Start(s) \/ Notice(s) \/ Flush(s)
           \/ \E u \in Units(s) : Invoke(s, u) \/ \E answer \in Answer : Return(s, u, answer)
    PROVE  /\ cancel' \in BOOLEAN
           /\ copy' \in [Source -> Manifest]
           /\ call' \in [Unit -> Call]
           /\ owed' \in [Source -> SUBSET Unit]
           /\ UNCHANGED durable
  <1>1. CASE Start(s)
    <2>1. call' \in [Unit -> Call] BY <1>1 DEF Start, TypeOK, Call
    <2> QED BY <1>1, <2>1 DEF Start, TypeOK
  <1>2. CASE Notice(s)
    <2>1. cancel' \in BOOLEAN /\ call' \in [Unit -> Call]
      BY <1>2, AbortLemma, InterruptedLemma DEF Notice, TypeOK
    <2> QED BY <1>2, <2>1 DEF Notice, TypeOK
  <1>3. CASE Flush(s)
    <2>1. call' \in [Unit -> Call] BY <1>3 DEF Flush, TypeOK, Call
    <2>2. owed' \in [Source -> SUBSET Unit] BY <1>3 DEF Flush, TypeOK, In, Units
    <2> QED BY <1>3, <2>1, <2>2 DEF Flush, TypeOK
  <1>4. CASE \E u \in Units(s) : Invoke(s, u)
    <2>1. PICK u \in Units(s) : Invoke(s, u) BY <1>4
    <2>2. PICK x \in {"failed", "active"} : Becomes(u, x) BY <2>1 DEF Invoke
    <2>3. call' \in [Unit -> Call]
      BY <2>2, BecomesLemma DEF Units, Call, Answer
    <2> QED BY <2>1, <2>3 DEF Invoke, TypeOK
  <1>5. CASE \E u \in Units(s), answer \in Answer : Return(s, u, answer)
    <2>1. PICK u \in Units(s), answer \in Answer : Return(s, u, answer) BY <1>5
    <2>2. call' \in [Unit -> Call]
      BY <2>1, BecomesLemma DEF Return, Units, Call
    <2>3. cancel' \in BOOLEAN BY <2>1 DEF Return, TypeOK
    <2> QED BY <2>1, <2>2, <2>3 DEF Return, TypeOK
  <1> QED BY <1>1, <1>2, <1>3, <1>4, <1>5

\* The steps that touch the files of a command.
LEMMA RecordType ==
    ASSUME TypeOK, Given, NEW s \in Source, NEW u \in Units(s), Record(s, u)
    PROVE  /\ file' \in Manifest
           /\ copy' \in [Source -> Manifest]
           /\ call' \in [Unit -> Call]
           /\ owed' \in [Source -> SUBSET Unit]
  <1>1. u \in Unit /\ run # 0
    BY GuardLemma DEF Units, Step
  <1>2. Recorded(u) \in {"succeeded", "failed"} BY DEF Recorded
  <1>3. WithUnit(s, u, Recorded(u)) \in Manifest BY <1>1, <1>2, WithUnitLemma
  <1>4. file' \in Manifest /\ copy' \in [Source -> Manifest]
    BY <1>3, SaveLemma DEF Record
  <1>5. call' \in [Unit -> Call] BY <1>1, BecomesLemma DEF Record, Call
  <1>6. owed' \in [Source -> SUBSET Unit] BY DEF Record, TypeOK
  <1> QED BY <1>4, <1>5, <1>6

LEMMA FileType ==
    ASSUME TypeOK, Given, NEW s \in Source,
           \/ Close(s) \/ MarkDocument(s) \/ OpenOutput(s) \/ FillOutput(s) \/ Finish(s)
           \/ \E u \in Units(s) : WriteReceipt(s, u) \/ Record(s, u)
    PROVE  /\ file' \in Manifest
           /\ receipt' \in [Unit -> 0..MaxRuns]
           /\ output' \in [Source -> {"none", "partial", "whole"}]
           /\ complete' \subseteq Source
           /\ copy' \in [Source -> Manifest]
           /\ call' \in [Unit -> Call]
           /\ owed' \in [Source -> SUBSET Unit]
           /\ UNCHANGED cancel
  <1>0. run # 0 BY GuardLemma DEF Step
  <1>1. CASE Close(s)
    <2>1. copy[s] \in Manifest BY DEF TypeOK
    <2>2. file' \in Manifest /\ copy' \in [Source -> Manifest]
      BY <1>1, <2>1, SaveLemma DEF Close
    <2> QED BY <1>1, <2>2 DEF Close, TypeOK
  <1>2. CASE MarkDocument(s)
    <2>1. PICK x \in {"succeeded", "failed"} :
            Save(s, WithDoc(s, x))
      BY <1>2 DEF MarkDocument, WithDoc
    <2>2. WithDoc(s, x) \in Manifest BY <1>0, WithDocLemma
    <2>3. file' \in Manifest /\ copy' \in [Source -> Manifest]
      BY <2>1, <2>2, SaveLemma
    <2> QED BY <1>2, <2>3 DEF MarkDocument, TypeOK
  <1>3. CASE OpenOutput(s) BY <1>3 DEF OpenOutput, TypeOK
  <1>4. CASE FillOutput(s) BY <1>4 DEF FillOutput, TypeOK
  <1>5. CASE Finish(s) BY <1>5 DEF Finish, TypeOK
  <1>6. CASE \E u \in Units(s) : WriteReceipt(s, u)
    <2>1. PICK u \in Units(s) : WriteReceipt(s, u) BY <1>6
    <2>2. u \in Unit BY DEF Units
    <2>3. call' \in [Unit -> Call] BY <2>1, <2>2, BecomesLemma DEF WriteReceipt, Call
    <2>4. receipt' \in [Unit -> 0..MaxRuns] BY <2>1, <2>2 DEF WriteReceipt, TypeOK
    <2> QED BY <2>1, <2>3, <2>4 DEF WriteReceipt, TypeOK
  <1>7. CASE \E u \in Units(s) : Record(s, u)
    <2>1. PICK u \in Units(s) : Record(s, u) BY <1>7
    <2> QED BY <2>1, RecordType DEF Record, TypeOK
  <1> QED BY <1>1, <1>2, <1>3, <1>4, <1>5, <1>6, <1>7

LEMMA FaultType ==
    ASSUME TypeOK, Given, NEW s \in Source, WriteFails(s)
    PROVE  /\ cancel' \in BOOLEAN
           /\ copy' \in [Source -> Manifest]
           /\ call' \in [Unit -> Call]
           /\ UNCHANGED <<durable, owed>>
  <1>0. run # 0 BY GuardLemma
  <1>1. CASE Abort(s) /\ UNCHANGED copy
    BY <1>1, AbortLemma, InterruptedLemma DEF WriteFails, TypeOK
  <1>2. CASE Abort(s) /\ \E u \in Units(s) :
                copy' = [copy EXCEPT ![s] = WithUnit(s, u, Recorded(u))]
    <2>1. PICK u \in Units(s) : copy' = [copy EXCEPT ![s] = WithUnit(s, u, Recorded(u))]
      BY <1>2
    <2>2. WithUnit(s, u, Recorded(u)) \in Manifest
      BY <1>0, WithUnitLemma DEF Recorded, Units
    <2>3. copy' \in [Source -> Manifest] BY <2>1, <2>2 DEF TypeOK
    <2>4. cancel' \in BOOLEAN /\ call' \in [Unit -> Call]
      BY <1>2, AbortLemma, InterruptedLemma DEF TypeOK
    <2> QED BY <2>3, <2>4 DEF WriteFails
  <1>3. CASE UNCHANGED <<cancel, copy, call>> BY <1>3 DEF WriteFails, TypeOK
  <1> QED BY <1>1, <1>2, <1>3 DEF WriteFails

LEMMA InterruptType ==
    ASSUME TypeOK, Given, Interrupt \/ Kill
    PROVE  TypeOK'
  <1>1. pc' \in [Source -> Pc] BY InterruptInput
  <1>2. CASE Interrupt
    <2>1. call' \in [Unit -> Call]
      BY <1>2, InterruptedLemma DEF Interrupt, TypeOK
    <2>2. cancel' \in BOOLEAN BY <1>2 DEF Interrupt
    <2>3. UNCHANGED <<file, receipt, output, complete, run, ident, mode, copy, owed>>
      BY <1>2 DEF Interrupt, durable, command
    <2> QED BY <1>1, <2>1, <2>2, <2>3 DEF TypeOK, Pc
  <1>3. CASE Kill
    <2>1. call' \in [Unit -> Call] BY <1>3 DEF Kill, Call
    <2>2. Empty \in Manifest BY DEF Empty, Manifest, Entry
    <2>3. copy' \in [Source -> Manifest] /\ owed' \in [Source -> SUBSET Unit]
      BY <1>3, <2>2 DEF Kill
    <2>4. UNCHANGED <<file, receipt, output, complete, run, ident, mode, cancel>>
      BY <1>3 DEF Kill, durable, command
    <2> QED BY <1>1, <2>1, <2>3, <2>4 DEF TypeOK, Pc
  <1> QED BY <1>2, <1>3

LEMMA StepType ==
    ASSUME TypeOK, Given, NEW s \in Source, Step(s) \/ WriteFails(s)
    PROVE  TypeOK'
  <1>1. /\ pc' \in [Source -> Pc] /\ UNCHANGED <<run, ident, mode>>
    BY InputLemma, MoveLemma DEF command
  <1>2. CASE \/ Start(s) \/ Notice(s) \/ Flush(s)
             \/ \E u \in Units(s) : Invoke(s, u) \/ \E answer \in Answer : Return(s, u, answer)
    BY <1>1, <1>2, CallType DEF TypeOK, Pc, durable
  <1>3. CASE \/ Close(s) \/ MarkDocument(s) \/ OpenOutput(s) \/ FillOutput(s) \/ Finish(s)
             \/ \E u \in Units(s) : WriteReceipt(s, u) \/ Record(s, u)
    BY <1>1, <1>3, FileType DEF TypeOK, Pc
  <1>4. CASE Skip(s) \/ Refuse(s) \/ Raise(s)
    <2>1. UNCHANGED <<durable, cancel, copy, call, owed>>
      BY <1>4 DEF Skip, Refuse, Raise
    <2> QED BY <1>1, <2>1 DEF TypeOK, Pc, durable
  <1>5. CASE WriteFails(s)
    BY <1>1, <1>5, FaultType DEF TypeOK, Pc, durable
  <1> QED BY <1>2, <1>3, <1>4, <1>5 DEF Step

LEMMA TypeNext == TypeOK /\ Given /\ [Next]_vars => TypeOK' /\ Given'
  <1> SUFFICES ASSUME TypeOK, Given, [Next]_vars PROVE TypeOK' /\ Given'
    OBVIOUS
  <1>1. CASE NewCommand BY <1>1, BeginType, BeginInput DEF NewCommand
  <1>2. CASE \E s \in Source : Step(s) \/ WriteFails(s) BY <1>2, StepType, InputLemma
  <1>3. CASE Interrupt \/ Kill BY <1>3, InterruptType, InterruptInput
  <1>4. CASE UNCHANGED vars
    <2>1. UNCHANGED <<file, receipt, output, complete, run, ident, mode, cancel, pc, copy,
                      call, owed>>
      BY <1>4 DEF vars, durable, command
    <2> QED BY <2>1 DEF TypeOK, Given, Input
  <1> QED BY <1>1, <1>2, <1>3, <1>4 DEF Next

LEMMA TypeAlways == Spec => [](TypeOK /\ Given)
  BY InitType, TypeNext, PTL DEF Spec

\* Every reachable state has its shape: manifests hold entries of commands that
\* were given, and every source and unit is at a step of the code.
THEOREM TypeCorrect == Spec => []TypeOK
  BY TypeAlways, PTL

-----------------------------------------------------------------------------
(* What handlers owe, and the order of writes.                             *)

\* A source leaves the units of the others alone.
LEMMA FrameLemma ==
    ASSUME TypeOK, NEW s \in Source, Step(s) \/ WriteFails(s),
           NEW t \in Source \ {s}, NEW u \in Units(t)
    PROVE  call'[u] = call[u] /\ owed'[t] = owed[t] /\ receipt'[u] = receipt[u]
  <1>1. u \in Unit /\ Owner[u] = t /\ Owner[u] # s BY DEF Units
  <1>2. ASSUME NEW v \in Units(s), NEW x \in Call, Becomes(v, x)
        PROVE  call'[u] = call[u]
    <2>1. v \in Unit /\ v # u BY <1>1, <1>2 DEF Units
    <2> QED BY <1>1, <1>2, <2>1, BecomesLemma
  <1>3. ASSUME Abort(s) PROVE call'[u] = call[u]
    BY <1>1, <1>3, AbortLemma
  <1>4. CASE Start(s) BY <1>1, <1>4 DEF Start, durable
  <1>5. CASE Skip(s) \/ Refuse(s) \/ Raise(s) BY <1>5 DEF Skip, Refuse, Raise, durable
  <1>6. ASSUME NEW v \in Units(s), Invoke(s, v)
        PROVE  call'[u] = call[u] /\ owed'[t] = owed[t] /\ receipt'[u] = receipt[u]
    <2>1. call'[u] = call[u] BY <1>2, <1>6 DEF Invoke, Call, Answer
    <2> QED BY <1>6, <2>1 DEF Invoke, durable
  <1>7. ASSUME NEW v \in Units(s), WriteReceipt(s, v)
        PROVE  call'[u] = call[u] /\ owed'[t] = owed[t] /\ receipt'[u] = receipt[u]
    <2>1. call'[u] = call[u] BY <1>2, <1>7 DEF WriteReceipt, Call
    <2>2. v # u BY <1>1 DEF Units
    <2> QED BY <1>1, <1>7, <2>1, <2>2 DEF WriteReceipt, TypeOK
  <1>8. ASSUME NEW v \in Units(s), Record(s, v)
        PROVE  call'[u] = call[u] /\ owed'[t] = owed[t] /\ receipt'[u] = receipt[u]
    <2>1. call'[u] = call[u] BY <1>2, <1>8 DEF Record, Call
    <2> QED BY <1>8, <2>1 DEF Record, TypeOK
  <1>9. ASSUME NEW v \in Units(s), NEW answer \in Answer, Return(s, v, answer)
        PROVE  call'[u] = call[u] /\ owed'[t] = owed[t] /\ receipt'[u] = receipt[u]
    <2>1. call'[u] = call[u] BY <1>2, <1>9 DEF Return, Call
    <2> QED BY <1>9, <2>1 DEF Return, durable
  <1>10. CASE Notice(s) BY <1>3, <1>10 DEF Notice, durable
  <1>11. CASE Flush(s)
    <2>1. u \notin In(s, {"active"}) BY <1>1 DEF In, Units
    <2> QED BY <1>1, <1>11, <2>1 DEF Flush, durable, TypeOK
  <1>12. CASE Close(s) \/ MarkDocument(s) \/ OpenOutput(s) \/ FillOutput(s) \/ Finish(s)
    BY <1>12 DEF Close, MarkDocument, OpenOutput, FillOutput, Finish
  <1>13. CASE WriteFails(s) BY <1>3, <1>13 DEF WriteFails, durable
  <1> QED BY <1>4, <1>5, <1>6, <1>7, <1>8, <1>9, <1>10, <1>11, <1>12, <1>13 DEF Step

\* HandlerInv of one unit.
Handled(s, u) ==
    /\ pc[s] = "waiting" => call[u] # "written"
    /\ pc[s] = "flushing" /\ call[u] \in Answer \cup {"written"} => u \in owed[s]
    /\ pc[s] = "raised" => call[u] \notin Answer \cup {"written"}

LEMMA HandledLemma ==
    HandlerInv <=> \A s \in Source : \A u \in Units(s) : Handled(s, u)
  BY DEF HandlerInv, Handled, In

\* Where the source has just begun or failed nothing is owed.
LEMMA OwnHandled ==
    ASSUME TypeOK, Given, HandlerInv, NEW s \in Source, NEW u \in Units(s),
           Step(s) \/ WriteFails(s)
    PROVE  Handled(s, u)'
  <1>1. u \in Unit /\ Owner[u] = s BY DEF Units
  <1>2. Handled(s, u) BY HandledLemma
  <1>3. ASSUME Abort(s) PROVE Handled(s, u)'
    <2>1. CASE /\ pc' = [pc EXCEPT ![s] = "waiting"]
               /\ call' = [v \in Unit |-> IF Owner[v] = s THEN Interrupted(v) ELSE call[v]]
      BY <1>1, <2>1, InterruptedLemma DEF Handled, TypeOK
    <2>2. CASE pc' = [pc EXCEPT ![s] = "failed"]
      BY <2>2 DEF Handled, TypeOK
    <2> QED BY <1>3, <2>1, <2>2, AbortLemma
  <1>4. ASSUME NEW x \in Pc \ {"waiting", "flushing", "raised"}, Goto(s, x)
        PROVE  Handled(s, u)'
    BY <1>4 DEF Goto, Handled, TypeOK
  <1>5. CASE Start(s) \/ Skip(s) \/ Refuse(s)
    BY <1>4, <1>5 DEF Start, Skip, Refuse, Pc, Busy, Final
  <1>6. CASE Close(s) \/ MarkDocument(s) \/ OpenOutput(s) \/ FillOutput(s) \/ Finish(s)
    BY <1>4, <1>6 DEF Close, MarkDocument, OpenOutput, FillOutput, Finish, Pc, Busy, Final
  <1>7. ASSUME NEW v \in Units(s), Invoke(s, v) PROVE Handled(s, u)'
    BY <1>7 DEF Invoke, Handled
  <1>8. ASSUME NEW v \in Units(s), WriteReceipt(s, v) PROVE Handled(s, u)'
    <2>1. pc' = pc /\ owed' = owed /\ call[v] = "ok" /\ pc[s] \in {"running", "flushing"}
      BY <1>8 DEF WriteReceipt, Turn
    <2>2. v \in Unit BY DEF Units
    <2>3. v = u \/ call'[u] = call[u]
      BY <1>1, <1>8, <2>2, BecomesLemma DEF WriteReceipt, Call
    <2> QED BY <1>2, <2>1, <2>3 DEF Handled, Answer
  <1>9. ASSUME NEW v \in Units(s), Record(s, v) PROVE Handled(s, u)'
    <2>1. pc' = pc /\ pc[s] \in {"running", "flushing"} BY <1>9 DEF Record, Recordable, Turn
    <2>2. v \in Unit BY DEF Units
    <2>3. call'[v] \in {"kept", "recorded"} /\ (v = u \/ call'[u] = call[u])
      BY <1>1, <1>9, <2>2, BecomesLemma DEF Record, Call
    <2>4. owed'[s] = owed[s] \ {v} BY <1>9 DEF Record, TypeOK
    <2> QED BY <1>2, <2>1, <2>3, <2>4 DEF Handled, Answer
  <1>10. ASSUME NEW v \in Units(s), NEW answer \in Answer, Return(s, v, answer)
         PROVE  Handled(s, u)'
    <2>1. pc' = pc /\ pc[s] \in {"running", "waiting"} BY <1>10 DEF Return
    <2>2. v \in Unit BY DEF Units
    <2>3. call'[v] = answer /\ (v = u \/ call'[u] = call[u])
      BY <1>1, <1>10, <2>2, BecomesLemma DEF Return, Call
    <2> QED BY <1>2, <2>1, <2>3 DEF Handled, Answer
  <1>11. CASE Notice(s) BY <1>3, <1>11 DEF Notice
  <1>12. CASE Flush(s)
    <2>1. call[u] # "written" BY <1>2, <1>12 DEF Flush, Handled
    <2>2. call'[u] = call[u] \/ call'[u] = "unfinished" BY <1>1, <1>12 DEF Flush
    <2>3. owed'[s] = In(s, Answer) BY <1>12 DEF Flush, TypeOK
    <2>4. pc'[s] = "flushing" BY <1>12 DEF Flush, Goto, TypeOK
    <2> QED BY <2>1, <2>2, <2>3, <2>4 DEF Handled, Answer, In
  <1>13. CASE Raise(s)
    <2>1. call'[u] = call[u] /\ pc'[s] = "raised" BY <1>13 DEF Raise, Goto, TypeOK
    <2>2. call[u] \notin Answer \cup {"written"} BY <1>2, <1>13 DEF Raise, Handled
    <2> QED BY <2>1, <2>2 DEF Handled
  <1>14. CASE WriteFails(s)
    <2>1. CASE Abort(s) BY <1>3, <2>1
    <2>2. CASE Goto(s, "failed") BY <1>4, <2>2 DEF Pc, Final
    <2> QED BY <1>14, <2>1, <2>2 DEF WriteFails
  <1> QED BY <1>5, <1>6, <1>7, <1>8, <1>9, <1>10, <1>11, <1>12, <1>13, <1>14 DEF Step

LEMMA HandlerNext ==
    TypeOK /\ Given /\ HandlerInv /\ [Next]_vars => HandlerInv'
  <1> SUFFICES ASSUME TypeOK, Given, HandlerInv, [Next]_vars,
                      NEW t \in Source, NEW u \in Units(t)
               PROVE  Handled(t, u)'
    BY HandledLemma DEF HandlerInv, Handled, In, Units
  <1>1. u \in Unit /\ Owner[u] = t /\ Handled(t, u) BY HandledLemma DEF Units
  <1>2. CASE NewCommand BY <1>2 DEF NewCommand, Begin, Handled
  <1>3. ASSUME NEW s \in Source, Step(s) \/ WriteFails(s) PROVE Handled(t, u)'
    <2>1. CASE s = t BY <1>3, <2>1, OwnHandled
    <2>2. CASE s # t
      <3>1. call'[u] = call[u] /\ owed'[t] = owed[t] BY <1>3, <2>2, FrameLemma
      <3>2. pc'[t] = pc[t] BY <1>3, <2>2, InputLemma
      <3> QED BY <1>1, <3>1, <3>2 DEF Handled
    <2> QED BY <2>1, <2>2
  <1>4. CASE Interrupt
    <2>1. /\ owed' = owed
          /\ \/ pc'[t] \in {"dropped", "failed"}
             \/ pc'[t] = "waiting" /\ call'[u] = Interrupted(u)
             \/ pc'[t] = pc[t] /\ (call'[u] = call[u] \/ call'[u] = Interrupted(u))
      BY <1>1, <1>4 DEF Interrupt
    <2>2. Interrupted(u) # "written" /\ (Interrupted(u) \in Answer => call[u] \in Answer \cup {"written"})
      BY <1>1, InterruptedLemma DEF Interrupted, Answer
    <2> QED BY <1>1, <2>1, <2>2 DEF Handled
  <1>5. CASE Kill
    <2>1. call'[u] = "none" /\ "none" \notin Answer \cup {"written"}
      BY <1>1, <1>5 DEF Kill, Answer
    <2> QED BY <2>1 DEF Handled
  <1>6. CASE UNCHANGED vars BY <1>1, <1>6 DEF vars, Handled
  <1> QED BY <1>2, <1>3, <1>4, <1>5, <1>6 DEF Next

\* OrderInv of one unit.
Ordered(s, u) ==
    /\ call[u] = "written" => receipt[u] = run
    /\ pc[s] = "closed" => call[u] \in {"reused", "kept", "recorded"}

LEMMA OrderedLemma ==
    OrderInv <=> \A s \in Source : \A u \in Units(s) : Ordered(s, u)
  BY OwnerAssumption DEF OrderInv, Ordered, Settled, In, Units

LEMMA OwnOrdered ==
    ASSUME TypeOK, Given, OrderInv, NEW s \in Source, NEW u \in Units(s),
           Step(s) \/ WriteFails(s)
    PROVE  Ordered(s, u)'
  <1>1. u \in Unit /\ Owner[u] = s BY DEF Units
  <1>2. Ordered(s, u) BY OrderedLemma
  <1>3. run' = run BY MoveLemma DEF command
  <1>4. ASSUME Abort(s), receipt' = receipt PROVE Ordered(s, u)'
    <2>1. CASE /\ pc' = [pc EXCEPT ![s] = "waiting"]
               /\ call' = [v \in Unit |-> IF Owner[v] = s THEN Interrupted(v) ELSE call[v]]
      BY <1>1, <2>1, InterruptedLemma DEF Ordered, TypeOK
    <2>2. CASE pc' = [pc EXCEPT ![s] = "failed"] /\ call' = call
      BY <1>2, <1>3, <1>4, <2>2 DEF Ordered, TypeOK
    <2> QED BY <1>4, <2>1, <2>2, AbortLemma
  <1>5. ASSUME NEW x \in Pc \ {"closed"}, Goto(s, x), call' = call, receipt' = receipt
        PROVE  Ordered(s, u)'
    BY <1>2, <1>3, <1>5 DEF Goto, Ordered, TypeOK
  <1>6. CASE Start(s)
    <2>1. call'[u] # "written" /\ pc'[s] = "running"
      BY <1>1, <1>6 DEF Start, Goto, TypeOK
    <2> QED BY <2>1 DEF Ordered
  <1>7. CASE Skip(s) \/ Refuse(s) \/ Raise(s)
    BY <1>5, <1>7 DEF Skip, Refuse, Raise, durable, Pc, Final
  <1>8. CASE MarkDocument(s) \/ OpenOutput(s) \/ FillOutput(s) \/ Finish(s)
    BY <1>5, <1>8 DEF MarkDocument, OpenOutput, FillOutput, Finish, Pc, Busy, Final
  <1>9. CASE Close(s)
    <2>1. call'[u] \in {"reused", "kept", "recorded"}
      BY <1>9 DEF Close, Settled, In
    <2> QED BY <2>1 DEF Ordered
  <1>10. ASSUME NEW v \in Units(s), NEW x \in Call \ {"written"}, Becomes(v, x),
                receipt' = receipt, pc' = pc, pc[s] # "closed"
         PROVE  Ordered(s, u)'
    <2>1. v \in Unit BY DEF Units
    <2>2. call'[v] # "written" /\ (v = u \/ call'[u] = call[u])
      BY <1>1, <1>10, <2>1, BecomesLemma
    <2> QED BY <1>2, <1>3, <1>10, <2>2 DEF Ordered
  <1>11. ASSUME NEW v \in Units(s), Invoke(s, v) PROVE Ordered(s, u)'
    BY <1>10, <1>11 DEF Invoke, durable, Call, Answer
  <1>12. ASSUME NEW v \in Units(s), Record(s, v) PROVE Ordered(s, u)'
    BY <1>10, <1>12 DEF Record, Recordable, Turn, Call
  <1>13. ASSUME NEW v \in Units(s), NEW answer \in Answer, Return(s, v, answer)
         PROVE  Ordered(s, u)'
    BY <1>10, <1>13 DEF Return, durable, Call, Answer
  <1>14. ASSUME NEW v \in Units(s), WriteReceipt(s, v) PROVE Ordered(s, u)'
    <2>1. v \in Unit /\ pc' = pc /\ pc[s] # "closed" BY <1>14 DEF WriteReceipt, Turn, Units
    <2>2. v = u \/ (call'[u] = call[u] /\ receipt'[u] = receipt[u])
      BY <1>1, <1>14, <2>1, BecomesLemma DEF WriteReceipt, Call, TypeOK
    <2>3. receipt'[v] = run BY <1>14, <2>1 DEF WriteReceipt, TypeOK
    <2> QED BY <1>2, <1>3, <2>1, <2>2, <2>3 DEF Ordered
  <1>15. CASE Notice(s) BY <1>4, <1>15 DEF Notice, durable
  <1>16. CASE Flush(s)
    <2>1. call'[u] = call[u] \/ call'[u] = "unfinished" BY <1>1, <1>16 DEF Flush
    <2>2. pc'[s] = "flushing" BY <1>16 DEF Flush, Goto, TypeOK
    <2> QED BY <1>2, <1>3, <1>16, <2>1, <2>2 DEF Flush, durable, Ordered
  <1>17. CASE WriteFails(s)
    <2>1. CASE Abort(s) BY <1>4, <1>17, <2>1 DEF WriteFails, durable
    <2>2. CASE Goto(s, "failed") /\ call' = call
      BY <1>5, <1>17, <2>2 DEF WriteFails, durable, Pc, Final
    <2> QED BY <1>17, <2>1, <2>2 DEF WriteFails
  <1> QED BY <1>6, <1>7, <1>8, <1>9, <1>11, <1>12, <1>13, <1>14, <1>15, <1>16, <1>17 DEF Step

LEMMA OrderNext ==
    TypeOK /\ Given /\ OrderInv /\ [Next]_vars => OrderInv'
  <1> SUFFICES ASSUME TypeOK, Given, OrderInv, [Next]_vars,
                      NEW t \in Source, NEW u \in Units(t)
               PROVE  Ordered(t, u)'
    BY OwnerAssumption DEF OrderInv, Ordered, Settled, In, Units
  <1>1. u \in Unit /\ Owner[u] = t /\ Ordered(t, u) BY OrderedLemma DEF Units
  <1>2. CASE NewCommand
    <2>1. call'[u] = "none" /\ pc'[t] \in {"queued", "absent"}
      BY <1>1, <1>2 DEF NewCommand, Begin
    <2> QED BY <2>1 DEF Ordered
  <1>3. ASSUME NEW s \in Source, Step(s) \/ WriteFails(s) PROVE Ordered(t, u)'
    <2>1. CASE s = t BY <1>3, <2>1, OwnOrdered
    <2>2. CASE s # t
      <3>1. call'[u] = call[u] /\ receipt'[u] = receipt[u] BY <1>3, <2>2, FrameLemma
      <3>2. pc'[t] = pc[t] BY <1>3, <2>2, InputLemma
      <3>3. run' = run BY <1>3, MoveLemma DEF command
      <3> QED BY <1>1, <3>1, <3>2, <3>3 DEF Ordered
    <2> QED BY <2>1, <2>2
  <1>4. CASE Interrupt
    <2>1. /\ receipt' = receipt /\ run' = run
          /\ pc'[t] \in {"dropped", "failed", "waiting"} \/ pc'[t] = pc[t]
          /\ call'[u] = call[u] \/ call'[u] = Interrupted(u)
      BY <1>1, <1>4 DEF Interrupt, durable, command
    <2>2. /\ Interrupted(u) # "written"
          /\ call[u] \in {"reused", "kept", "recorded"} => Interrupted(u) = call[u]
      BY <1>1, InterruptedLemma
    <2> QED BY <1>1, <2>1, <2>2 DEF Ordered
  <1>5. CASE Kill
    <2>1. call'[u] = "none" BY <1>1, <1>5 DEF Kill
    <2>2. pc'[t] # "closed" BY <1>5 DEF Kill, Final
    <2> QED BY <2>1, <2>2 DEF Ordered
  <1>6. CASE UNCHANGED vars BY <1>1, <1>6 DEF vars, durable, command, Ordered
  <1> QED BY <1>2, <1>3, <1>4, <1>5, <1>6 DEF Next

LEMMA InitOrder == Init => HandlerInv /\ OrderInv
  <1> SUFFICES ASSUME Init PROVE HandlerInv /\ OrderInv
    OBVIOUS
  <1>1. \A s \in Source : pc[s] \in {"new", "absent"} BY DEF Init
  <1>2. \A u \in Unit : call[u] = "none" BY DEF Init
  <1> QED BY <1>1, <1>2 DEF HandlerInv, OrderInv

LEMMA OrderAlways == Spec => [](TypeOK /\ Given /\ HandlerInv /\ OrderInv)
  BY InitType, InitOrder, TypeNext, HandlerNext, OrderNext, PTL DEF Spec

\* A coordinator that ends by re-raising has persisted every answer it had.
THEOREM InterruptsKeepAnswers == Spec => []InterruptKeepsAnswers
  <1>1. HandlerInv => InterruptKeepsAnswers BY DEF HandlerInv, InterruptKeepsAnswers
  <1> QED BY <1>1, OrderAlways, PTL

-----------------------------------------------------------------------------
(* One source at a time.                                                   *)

\* The parts of SoloInv.
Alone == \A s, t \in Source : pc[s] \in Busy /\ pc[t] \in Busy => s = t

Durable(u) ==
    call[u] \in Done =>
      /\ Valid(u, file.unit[u])
      /\ \A s \in Source : pc[s] \in Busy => copy[s].unit[u] = file.unit[u]

Marked(s) ==
    /\ file.doc[s].run <= run
    /\ pc[s] = "queued" => file.doc[s].run # run
    /\ pc[s] \in Busy => copy[s].doc = file.doc
    /\ file.doc[s] = Now("succeeded") =>
         \A u \in Units(s) : Valid(u, file.unit[u]) /\ (Over \/ call[u] \in Done)

Solo == Alone /\ (\A u \in Unit : Durable(u)) /\ (\A s \in Source : Marked(s))

LEMMA SoloLemma == SoloInv <=> (Workers = 1 => Solo)
  BY DEF SoloInv, Solo, Alone, Durable, Marked

\* A step that records nothing: neither files nor copies change in what is done.
Quiet ==
    /\ ~Over
    /\ UNCHANGED <<file, run, ident>>
    /\ \A s \in Source :
         /\ pc'[s] \in Busy => pc[s] \in Busy
         /\ pc'[s] = "queued" => pc[s] = "queued"
         /\ copy'[s].doc = copy[s].doc
    /\ \A u \in Unit :
         /\ call'[u] \in Done <=> call[u] \in Done
         /\ call[u] \in Done =>
              receipt'[u] = receipt[u] /\ \A s \in Source : copy'[s].unit[u] = copy[s].unit[u]

LEMMA QuietSolo ==
    ASSUME Solo, Quiet
    PROVE  Solo'
  <1>1. Alone' BY DEF Quiet, Solo, Alone
  <1>2. ASSUME NEW u \in Unit, call[u] \in Done
        PROVE  Valid(u, file.unit[u])' /\ Durable(u)' /\ call'[u] \in Done
    <2>1. Durable(u) BY DEF Solo
    <2>2. Valid(u, file.unit[u])' BY <1>2, <2>1 DEF Quiet, Durable, Valid
    <2> QED BY <1>2, <2>1, <2>2 DEF Quiet, Durable
  <1>3. ASSUME NEW u \in Unit PROVE Durable(u)'
    <2>1. CASE call[u] \in Done BY <1>2, <2>1
    <2>2. CASE call[u] \notin Done BY <2>2 DEF Quiet, Durable
    <2> QED BY <2>1, <2>2
  <1>4. ASSUME NEW s \in Source PROVE Marked(s)'
    <2>1. Marked(s) BY DEF Solo
    <2>2. /\ (file.doc[s].run <= run)'
          /\ pc'[s] = "queued" => (file.doc[s].run # run)'
          /\ pc'[s] \in Busy => (copy[s].doc = file.doc)'
      BY <2>1 DEF Quiet, Marked
    <2>3. ASSUME (file.doc[s] = Now("succeeded"))', NEW u \in Units(s)
          PROVE  Valid(u, file.unit[u])' /\ call'[u] \in Done
      <3>1. file.doc[s] = Now("succeeded") BY <2>3 DEF Quiet, Now
      <3>2. u \in Unit /\ call[u] \in Done BY <2>1, <3>1 DEF Quiet, Marked, Units
      <3> QED BY <1>2, <3>2
    <2>4. Units(s)' = Units(s) BY DEF Units
    <2> QED BY <2>2, <2>3, <2>4 DEF Marked
  <1> QED BY <1>1, <1>3, <1>4 DEF Solo

\* The files and copies of a coordinator that aborts.
LEMMA AbortQuiet ==
    ASSUME TypeOK, NEW s \in Source, pc[s] \in Busy, Abort(s),
           UNCHANGED <<file, receipt, run, ident>>,
           \A t \in Source :
             /\ copy'[t].doc = copy[t].doc
             /\ \A u \in Unit : call[u] \in Done => copy'[t].unit[u] = copy[t].unit[u]
    PROVE  Quiet
  <1>1. ~Over BY DEF Over, Busy, Final
  <1>2. \A u \in Unit : call'[u] \in Done <=> call[u] \in Done
    BY AbortLemma, InterruptedLemma
  <1>3. \A t \in Source : /\ pc'[t] \in Busy => pc[t] \in Busy
                          /\ pc'[t] = "queued" => pc[t] = "queued"
    <2>1. CASE pc' = [pc EXCEPT ![s] = "waiting"] BY <2>1 DEF TypeOK, Busy
    <2>2. CASE pc' = [pc EXCEPT ![s] = "failed"] BY <2>2 DEF TypeOK, Busy
    <2> QED BY <2>1, <2>2, AbortLemma
  <1> QED BY <1>1, <1>2, <1>3 DEF Quiet

LEMMA QuietStep ==
    ASSUME TypeOK, Given, NEW s \in Source,
           \/ Skip(s) \/ Refuse(s) \/ Notice(s) \/ Flush(s) \/ Raise(s)
           \/ OpenOutput(s) \/ FillOutput(s) \/ Finish(s) \/ WriteFails(s)
           \/ \E u \in Units(s) :
                \/ Invoke(s, u) \/ WriteReceipt(s, u)
                \/ \E answer \in Answer : Return(s, u, answer)
    PROVE  Quiet
  <1>0. UNCHANGED <<run, ident>> BY MoveLemma DEF command, Step
  <1>a. pc[s] \in {"queued"} \cup Busy BY GuardLemma DEF Step
  <1>b. ~Over BY <1>a DEF Over, Busy, Final
  <1>1. ASSUME NEW x \in Pc \ {"queued"}, Goto(s, x), x \in Busy => pc[s] \in Busy,
               UNCHANGED <<file, receipt, copy>>,
               \A u \in Unit : call'[u] \in Done <=> call[u] \in Done
        PROVE  Quiet
    BY <1>0, <1>1, <1>b DEF Goto, Quiet, TypeOK
  <1>2. CASE Skip(s) \/ Refuse(s) \/ Raise(s)
    BY <1>1, <1>2 DEF Skip, Refuse, Raise, durable, Pc, Busy, Final
  <1>3. CASE OpenOutput(s) \/ FillOutput(s) \/ Finish(s)
    BY <1>1, <1>3 DEF OpenOutput, FillOutput, Finish, Pc, Busy, Final
  <1>4. CASE Flush(s)
    <2>1. \A u \in Unit : call'[u] \in Done <=> call[u] \in Done
      BY <1>4 DEF Flush, In, Done
    <2> QED BY <1>1, <1>4, <2>1 DEF Flush, durable, Pc, Busy
  <1>5. CASE Notice(s)
    BY <1>0, <1>5, AbortQuiet DEF Notice, durable, Busy
  <1>6. ASSUME NEW u \in Units(s), NEW x \in Call \ Done, Becomes(u, x), call[u] \notin Done,
               UNCHANGED <<file, copy, pc>>,
               \A v \in Unit \ {u} : receipt'[v] = receipt[v]
        PROVE  Quiet
    <2>1. u \in Unit BY DEF Units
    <2>2. \A v \in Unit : call'[v] \in Done <=> call[v] \in Done
      BY <1>6, <2>1, BecomesLemma
    <2> QED BY <1>0, <1>6, <1>b, <2>2 DEF Quiet
  <1>7. ASSUME NEW u \in Units(s), Invoke(s, u) PROVE Quiet
    BY <1>6, <1>7 DEF Invoke, durable, Call, Answer, Done
  <1>8. ASSUME NEW u \in Units(s), WriteReceipt(s, u) PROVE Quiet
    BY <1>6, <1>8 DEF WriteReceipt, Call, Done, TypeOK
  <1>9. ASSUME NEW u \in Units(s), NEW answer \in Answer, Return(s, u, answer) PROVE Quiet
    BY <1>6, <1>9 DEF Return, durable, Call, Answer, Done
  <1>10. CASE WriteFails(s)
    <2>1. pc[s] \in Busy BY <1>10 DEF WriteFails, Recordable, Turn, Busy
    <2>2. CASE Abort(s) /\ UNCHANGED copy
      BY <1>0, <1>10, <2>1, <2>2, AbortQuiet DEF WriteFails, durable
    <2>3. ASSUME Abort(s), NEW u \in Units(s), Recordable(s, u),
                 copy' = [copy EXCEPT ![s] = WithUnit(s, u, Recorded(u))]
          PROVE  Quiet
      <3>1. u \in Unit /\ call[u] \notin Done BY <2>3 DEF Recordable, Done, Units
      <3>2. run # 0 BY <1>10, GuardLemma
      <3>3. /\ copy'[s].doc = copy[s].doc
            /\ \A v \in Unit \ {u} : copy'[s].unit[v] = copy[s].unit[v]
        BY <2>3, <3>1, <3>2, WithUnitLemma DEF Recorded, TypeOK
      <3>4. \A t \in Source \ {s} : copy'[t] = copy[t] BY <2>3 DEF TypeOK
      <3> QED BY <1>0, <1>10, <2>1, <2>3, <3>1, <3>3, <3>4, AbortQuiet DEF WriteFails, durable
    <2>4. CASE Goto(s, "failed") /\ UNCHANGED <<cancel, copy, call>>
      BY <1>1, <1>10, <2>4 DEF WriteFails, durable, Pc, Busy, Final
    <2> QED BY <1>10, <2>2, <2>3, <2>4 DEF WriteFails
  <1> QED BY <1>2, <1>3, <1>4, <1>5, <1>7, <1>8, <1>9, <1>10

LEMMA QuietInterrupt == ASSUME TypeOK, Interrupt PROVE Quiet
  <1>1. \A u \in Unit : call'[u] \in Done <=> call[u] \in Done
    <2>1. \A u \in Unit : call'[u] = call[u] \/ call'[u] = Interrupted(u)
      BY DEF Interrupt
    <2> QED BY <2>1, InterruptedLemma
  <1>2. \A s \in Source : /\ pc'[s] \in Busy => pc[s] \in Busy
                          /\ pc'[s] = "queued" => pc[s] = "queued"
    <2> SUFFICES ASSUME NEW s \in Source
                 PROVE  /\ pc'[s] \in Busy => pc[s] \in Busy
                        /\ pc'[s] = "queued" => pc[s] = "queued"
      OBVIOUS
    <2>1. \/ pc'[s] \in {"dropped", "failed"}
          \/ pc'[s] = "waiting" /\ pc[s] \in Busy
          \/ pc'[s] = pc[s]
      BY DEF Interrupt
    <2> QED BY <2>1 DEF Busy
  <1>3. ~Over /\ UNCHANGED <<file, receipt, run, ident, copy>>
    BY DEF Interrupt, durable, command
  <1> QED BY <1>1, <1>2, <1>3 DEF Quiet

\* A save by the only coordinator changes its own document, and entries of units
\* that were not done.
LEMMA SaveSolo ==
    ASSUME TypeOK, Solo, NEW s \in Source, NEW m \in Manifest, Save(s, m),
           pc[s] \in Busy, pc'[s] \in Busy,
           \A t \in Source \ {s} : pc'[t] = pc[t],
           UNCHANGED <<receipt, run, ident>>,
           \A u \in Unit :
             /\ call[u] \in Done => call'[u] = call[u] /\ m.unit[u] = copy[s].unit[u]
             /\ call'[u] \in Done =>
                  call[u] \in Done \/ (m.unit[u] = Now("succeeded") /\ receipt[u] = run),
           \A t \in Source :
             \/ m.doc[t] = copy[s].doc[t]
             \/ t = s /\ m.doc[s] = Now("failed")
             \/ t = s /\ m.doc[s] = Now("succeeded") /\ \A u \in Units(s) : call[u] \in Done
    PROVE  Solo'
  <1>1. \A t \in Source : pc[t] \in Busy => t = s BY DEF Solo, Alone
  <1>2. \A t \in Source : pc'[t] \in Busy => t = s BY <1>1
  <1>3. ~Over BY DEF Over, Busy, Final
  <1>4. \A x : Now(x)' = Now(x) BY DEF Now
  <1>5. /\ copy'[s] = file'
        /\ \A u \in Unit :
             file'.unit[u] = IF m.unit[u] # NoEntry THEN m.unit[u] ELSE file.unit[u]
        /\ \A t \in Source :
             file'.doc[t] = IF m.doc[t] # NoEntry THEN m.doc[t] ELSE file.doc[t]
    BY SaveLemma
  <1>6. \A x \in {"succeeded", "failed"} : Now(x) # NoEntry BY DEF Now, NoEntry
  <1>7. ASSUME NEW u \in Unit, call'[u] \in Done
        PROVE  Valid(u, file.unit[u])' /\ Durable(u)'
    <2>1. CASE call[u] \in Done
      <3>1. Durable(u) BY DEF Solo
      <3>2. m.unit[u] = file.unit[u] /\ Valid(u, file.unit[u]) BY <2>1, <3>1 DEF Durable
      <3>3. file'.unit[u] = file.unit[u] BY <1>5, <3>2
      <3>4. Valid(u, file.unit[u])' BY <3>2, <3>3 DEF Valid
      <3> QED BY <1>2, <1>5, <3>4 DEF Durable
    <2>2. CASE m.unit[u] = Now("succeeded") /\ receipt[u] = run
      <3>1. file'.unit[u] = Now("succeeded") BY <1>5, <1>6, <2>2
      <3>2. Valid(u, file.unit[u])' BY <2>2, <3>1 DEF Valid, Now
      <3> QED BY <1>2, <1>5, <3>2 DEF Durable
    <2> QED BY <1>7, <2>1, <2>2
  <1>8. ASSUME NEW u \in Unit PROVE Durable(u)'
    <2>1. CASE call'[u] \in Done BY <1>7, <2>1
    <2>2. CASE call'[u] \notin Done BY <2>2 DEF Durable
    <2> QED BY <2>1, <2>2
  <1>9. ASSUME NEW t \in Source PROVE Marked(t)'
    <2>1. Marked(t) /\ Marked(s) BY DEF Solo
    <2>2. copy[s].doc = file.doc BY <2>1 DEF Marked
    <2>3. \/ file'.doc[t] = file.doc[t]
          \/ t = s /\ file'.doc[t] = Now("failed")
          \/ t = s /\ file'.doc[t] = Now("succeeded") /\ \A u \in Units(t) : call[u] \in Done
      BY <1>5, <1>6, <2>2
    <2>4. (file.doc[t].run <= run)'
      BY <2>1, <2>3 DEF Marked, Now, TypeOK
    <2>5. pc'[t] = "queued" => (file.doc[t].run # run)'
      BY <2>1, <2>3 DEF Marked, Busy
    <2>6. pc'[t] \in Busy => (copy[t].doc = file.doc)' BY <1>2, <1>5
    <2>7. ASSUME (file.doc[t] = Now("succeeded"))', NEW u \in Units(t)
          PROVE  Valid(u, file.unit[u])' /\ call'[u] \in Done
      <3>1. u \in Unit BY DEF Units
      <3>2. file'.doc[t] # Now("failed") BY <1>4, <2>7 DEF Now
      <3>3. call[u] \in Done BY <1>3, <1>4, <2>1, <2>3, <2>7, <3>2 DEF Marked
      <3>4. call'[u] \in Done BY <3>1, <3>3
      <3> QED BY <1>7, <3>1, <3>4
    <2>8. Units(t)' = Units(t) BY DEF Units
    <2> QED BY <2>4, <2>5, <2>6, <2>7, <2>8 DEF Marked
  <1> QED BY <1>2, <1>8, <1>9 DEF Solo, Alone

LEMMA SaveStep ==
    ASSUME TypeOK, Given, OrderInv, Solo, NEW s \in Source,
           Close(s) \/ MarkDocument(s) \/ \E u \in Units(s) : Record(s, u)
    PROVE  Solo'
  <1>1. run # 0 /\ pc[s] \in Busy
    BY GuardLemma DEF Step, Close, MarkDocument, Record, Recordable, Turn, Busy
  <1>2. UNCHANGED <<run, ident>> BY MoveLemma DEF command, Step
  <1>3. \A t \in Source \ {s} : pc'[t] = pc[t] BY InputLemma DEF Step
  <1>4. CASE Close(s)
    <2>1. copy[s] \in Manifest /\ pc'[s] \in Busy /\ UNCHANGED <<receipt, call>>
      BY <1>4 DEF Close, Goto, TypeOK, Busy
    <2> QED BY <1>1, <1>2, <1>3, <1>4, <2>1, SaveSolo DEF Close
  <1>5. CASE MarkDocument(s)
    <2> DEFINE x == IF /\ ~Partial(s)
                       /\ \A u \in Units(s) : copy[s].unit[u].status = "succeeded"
                    THEN "succeeded" ELSE "failed"
               m == WithDoc(s, x)
    <2>1. Save(s, m) /\ pc'[s] \in Busy /\ UNCHANGED <<receipt, call>>
      BY <1>5 DEF MarkDocument, WithDoc, Goto, TypeOK, Busy
    <2>2. x \in {"succeeded", "failed"} OBVIOUS
    <2>3. /\ m \in Manifest /\ m.unit = copy[s].unit /\ m.doc[s] = Now(x)
          /\ \A t \in Source \ {s} : m.doc[t] = copy[s].doc[t]
      BY <1>1, <2>2, WithDocLemma
    <2>4. Settled(s) BY <1>5 DEF MarkDocument, OrderInv
    <2>5. x = "succeeded" => \A u \in Units(s) : call[u] \in Done
      BY <2>4 DEF Partial, Settled, In, Done
    <2> HIDE DEF x, m
    <2> QED BY <1>1, <1>2, <1>3, <2>1, <2>2, <2>3, <2>5, SaveSolo
  <1>6. ASSUME NEW u \in Units(s), Record(s, u) PROVE Solo'
    <2>1. u \in Unit /\ pc' = pc /\ receipt' = receipt BY <1>6 DEF Record, Units
    <2>2. Recorded(u) \in {"succeeded", "failed"} BY DEF Recorded
    <2> DEFINE m == WithUnit(s, u, Recorded(u))
    <2>3. /\ m \in Manifest /\ m.doc = copy[s].doc /\ m.unit[u] = Now(Recorded(u))
          /\ \A v \in Unit \ {u} : m.unit[v] = copy[s].unit[v]
      BY <1>1, <2>1, <2>2, WithUnitLemma
    <2>4. call[u] \notin Done BY <1>6 DEF Record, Recordable, Done
    <2>5. /\ call'[u] = IF call[u] = "written" THEN "kept" ELSE "recorded"
          /\ \A v \in Unit \ {u} : call'[v] = call[v]
      BY <1>6, <2>1, BecomesLemma DEF Record, Call
    <2>6. call'[u] \in Done => m.unit[u] = Now("succeeded") /\ receipt[u] = run
      BY <2>1, <2>3, <2>5 DEF Done, Recorded, OrderInv
    <2>7. Save(s, m) BY <1>6 DEF Record
    <2> HIDE DEF m
    <2> QED BY <1>1, <1>2, <1>3, <2>1, <2>3, <2>4, <2>5, <2>6, <2>7, SaveSolo
  <1> QED BY <1>4, <1>5, <1>6

\* With one worker a source starts when no other one is at work.
LEMMA StartAlone ==
    ASSUME Workers = 1, NEW s \in Source, Start(s)
    PROVE  \A t \in Source : pc[t] \notin Busy
  <1> DEFINE busy == {t \in Source : pc[t] \in Busy}
  <1>1. IsFiniteSet(busy) BY SourceAssumption, FS_Subset
  <1>2. Cardinality(busy) \in Nat BY <1>1, FS_CardinalityType
  <1>3. Cardinality(busy) < 1 BY DEF Start
  <1>4. Cardinality(busy) = 0 BY <1>2, <1>3
  <1>5. busy = {} BY <1>1, <1>4, FS_EmptySet
  <1> QED BY <1>5

LEMMA StartSolo ==
    ASSUME TypeOK, Given, Solo, Workers = 1, NEW s \in Source, Start(s)
    PROVE  Solo'
  <1>1. \A t \in Source : pc[t] \notin Busy BY StartAlone
  <1>2. /\ UNCHANGED <<file, receipt, run, ident>>
        /\ pc[s] = "queued" /\ pc'[s] = "running" /\ copy'[s] = file
        /\ \A t \in Source \ {s} : pc'[t] = pc[t]
    BY DEF Start, durable, command, Goto, TypeOK
  <1>3. \A t \in Source : pc'[t] \in Busy => t = s BY <1>1, <1>2
  <1>4. ASSUME NEW u \in Unit, call'[u] \in Done
        PROVE  Valid(u, file.unit[u])' /\ Durable(u)'
    <2>1. CASE Owner[u] = s
      <3>1. Reusable(u) BY <1>4, <2>1 DEF Start, Done
      <3>2. Valid(u, file.unit[u])' BY <1>2, <3>1 DEF Reusable, Valid
      <3> QED BY <1>2, <1>3, <3>2 DEF Durable
    <2>2. CASE Owner[u] # s
      <3>1. call'[u] = call[u] BY <2>2 DEF Start
      <3>2. Durable(u) BY DEF Solo
      <3>3. Valid(u, file.unit[u])' BY <1>2, <1>4, <3>1, <3>2 DEF Durable, Valid
      <3> QED BY <1>2, <1>3, <3>3 DEF Durable
    <2> QED BY <2>1, <2>2
  <1>5. ASSUME NEW u \in Unit PROVE Durable(u)'
    <2>1. CASE call'[u] \in Done BY <1>4, <2>1
    <2>2. CASE call'[u] \notin Done BY <2>2 DEF Durable
    <2> QED BY <2>1, <2>2
  <1>6. ASSUME NEW t \in Source PROVE Marked(t)'
    <2>1. Marked(t) BY DEF Solo
    <2>2. /\ (file.doc[t].run <= run)'
          /\ pc'[t] = "queued" => (file.doc[t].run # run)'
          /\ pc'[t] \in Busy => (copy[t].doc = file.doc)'
      BY <1>2, <1>3, <2>1 DEF Marked
    <2>3. ASSUME (file.doc[t] = Now("succeeded"))', NEW u \in Units(t)
          PROVE  Valid(u, file.unit[u])' /\ call'[u] \in Done
      <3>1. u \in Unit /\ Owner[u] = t BY DEF Units
      <3>2. file.doc[t] = Now("succeeded") BY <1>2, <2>3 DEF Now
      <3>3. t # s BY <1>2, <2>1, <3>2 DEF Marked, Now
      <3>4. ~Over BY <1>2 DEF Over, Final
      <3>5. call[u] \in Done BY <2>1, <3>2, <3>4 DEF Marked
      <3>6. call'[u] \in Done BY <3>1, <3>3, <3>5 DEF Start
      <3> QED BY <1>4, <3>1, <3>6
    <2>4. Units(t)' = Units(t) BY DEF Units
    <2> QED BY <2>2, <2>3, <2>4 DEF Marked
  <1> QED BY <1>3, <1>5, <1>6 DEF Solo, Alone

LEMMA KillSolo == ASSUME TypeOK, Solo, Kill PROVE Solo'
  <1>1. /\ UNCHANGED <<file, receipt, run, ident>>
        /\ \A s \in Source : pc'[s] \in Final
        /\ \A u \in Unit : call'[u] = "none"
    BY DEF Kill, durable, command, Final
  <1>2. \A s \in Source : pc'[s] \notin Busy /\ pc'[s] # "queued" BY <1>1 DEF Final, Busy
  <1>3. Over' BY <1>1 DEF Over
  <1>4. Alone' /\ \A u \in Unit : Durable(u)' BY <1>1, <1>2 DEF Alone, Durable, Done
  <1>5. ASSUME NEW s \in Source PROVE Marked(s)'
    <2>1. Marked(s) BY DEF Solo
    <2>2. \A u \in Unit : Valid(u, file.unit[u])' <=> Valid(u, file.unit[u])
      BY <1>1 DEF Valid
    <2>3. Now("succeeded")' = Now("succeeded") BY <1>1 DEF Now
    <2>4. Units(s)' = Units(s) /\ Units(s) \subseteq Unit BY DEF Units
    <2> QED BY <1>1, <1>2, <1>3, <2>1, <2>2, <2>3, <2>4 DEF Marked
  <1> QED BY <1>4, <1>5 DEF Solo

LEMMA BeginSolo == ASSUME TypeOK, Given, Solo, NewCommand PROVE Solo'
  <1>1. PICK m, id : Begin(m, id) BY DEF NewCommand
  <1>2. /\ file' = file /\ run' = run + 1
        /\ \A s \in Source : pc'[s] \in {"queued", "absent"}
        /\ \A u \in Unit : call'[u] = "none"
    BY <1>1, BeginInput DEF Begin, durable
  <1>3. \A s \in Source : file.doc[s].run <= run /\ file.doc[s].run \in Nat /\ run \in Nat
    <2>1. file.doc \in [Source -> Entry] BY DEF TypeOK, Manifest
    <2>2. \A e \in Entry : e.run \in Nat BY DEF Entry, NoEntry
    <2> QED BY <2>1, <2>2 DEF Solo, Marked, TypeOK
  <1>4. \A s \in Source : file.doc[s].run < run' /\ file'.doc[s] = file.doc[s]
    BY <1>2, <1>3
  <1>5. ASSUME NEW s \in Source PROVE Marked(s)'
    <2>1. (file.doc[s].run <= run)' /\ (file.doc[s].run # run)'
      BY <1>2, <1>3, <1>4
    <2>2. (file.doc[s] # Now("succeeded"))' BY <2>1 DEF Now
    <2>3. pc'[s] \notin Busy BY <1>2 DEF Busy
    <2> QED BY <2>1, <2>2, <2>3 DEF Marked
  <1>6. Alone' /\ \A u \in Unit : Durable(u)' BY <1>2 DEF Alone, Durable, Done, Busy
  <1> QED BY <1>5, <1>6 DEF Solo

LEMMA SoloNext ==
    TypeOK /\ Given /\ OrderInv /\ SoloInv /\ [Next]_vars => SoloInv'
  <1> SUFFICES ASSUME TypeOK, Given, OrderInv, SoloInv, [Next]_vars, Workers' = 1
               PROVE  Solo'
    BY DEF SoloInv, Solo, Alone, Durable, Marked
  <1>1. Workers = 1
    <2>1. CASE NewCommand BY <2>1, BeginInput DEF NewCommand
    <2>2. CASE \E s \in Source : Step(s) \/ WriteFails(s) BY <2>2, InputLemma
    <2>3. CASE Interrupt \/ Kill BY <2>3, InterruptInput
    <2>4. CASE UNCHANGED vars BY <2>4 DEF vars, Workers, Input
    <2> QED BY <2>1, <2>2, <2>3, <2>4 DEF Next
  <1>2. Solo BY <1>1, SoloLemma
  <1>3. CASE NewCommand BY <1>2, <1>3, BeginSolo
  <1>4. ASSUME NEW s \in Source, Step(s) \/ WriteFails(s) PROVE Solo'
    <2>1. CASE Start(s) BY <1>1, <1>2, <2>1, StartSolo
    <2>2. CASE Close(s) \/ MarkDocument(s) \/ \E u \in Units(s) : Record(s, u)
      BY <1>2, <2>2, SaveStep
    <2>3. CASE \/ Skip(s) \/ Refuse(s) \/ Notice(s) \/ Flush(s) \/ Raise(s)
               \/ OpenOutput(s) \/ FillOutput(s) \/ Finish(s) \/ WriteFails(s)
               \/ \E u \in Units(s) :
                    \/ Invoke(s, u) \/ WriteReceipt(s, u)
                    \/ \E answer \in Answer : Return(s, u, answer)
      BY <1>2, <2>3, QuietStep, QuietSolo
    <2> QED BY <1>4, <2>1, <2>2, <2>3 DEF Step
  <1>5. CASE Interrupt BY <1>2, <1>5, QuietInterrupt, QuietSolo
  <1>6. CASE Kill BY <1>2, <1>6, KillSolo
  <1>7. CASE UNCHANGED vars
    <2>1. UNCHANGED <<file, receipt, run, ident, pc, copy, call>>
      BY <1>7 DEF vars, durable, command
    <2> QED BY <1>2, <2>1 DEF Solo, Alone, Durable, Marked, Valid, Now, Over
  <1> QED BY <1>3, <1>4, <1>5, <1>6, <1>7 DEF Next

LEMMA InitSolo == Init => SoloInv
  <1> SUFFICES ASSUME Init PROVE Solo
    BY SoloLemma
  <1>1. \A s \in Source : pc[s] \in {"new", "absent"} /\ file.doc[s] = NoEntry
    BY DEF Init, Empty
  <1>2. \A u \in Unit : call[u] = "none" BY DEF Init
  <1>3. run = 0 BY DEF Init
  <1>4. NoEntry # Now("succeeded") /\ NoEntry.run = 0 BY DEF NoEntry, Now
  <1> QED BY <1>1, <1>2, <1>3, <1>4 DEF Solo, Alone, Durable, Marked, Done, Busy

LEMMA SoloAlways == Spec => [](TypeOK /\ Given /\ OrderInv /\ SoloInv)
  BY InitType, InitOrder, InitSolo, TypeNext, OrderNext, SoloNext, PTL DEF Spec

\* An answer recorded while one source is worked on at a time stays recorded as
\* long as its command runs: no later save or failing write takes it back, nor
\* does Ctrl-C.
THEOREM RecordedAnswersAreKept == Spec => []KeptIsReusable
  <1>1. SoloInv => KeptIsReusable BY DEF SoloInv, KeptIsReusable, Done
  <1> QED BY <1>1, SoloAlways, PTL

\* A document marked complete while one source is worked on at a time has a valid
\* receipt for each of its units.
THEOREM CompleteDocumentsAreWhole == Spec => []DocumentHasReceipts
  <1>1. SoloInv => DocumentHasReceipts BY DEF SoloInv, DocumentHasReceipts
  <1> QED BY <1>1, SoloAlways, PTL
=============================================================================
