-------------------------- MODULE WorkUnitsProofs --------------------------
(* What WorkUnits guarantees for every set of runs, roots, units and       *)
(* results.                                                                *)
EXTENDS WorkUnits, SequenceTheorems, TLAPS

\* Entries have their type; a recorded leaf has a result.
LEMMA EntryLemma ==
    /\ NoEntry \in Entry /\ Split \in Entry
    /\ NoEntry.status # "succeeded" /\ Split.status # "succeeded"
    /\ \A r \in Result : /\ Leaf(r) \in Entry /\ Leaf(r).status = "succeeded"
                          /\ Leaf(r).result = r
    /\ \A e \in Entry : e.status = "succeeded" => e.result \in Result /\ e = Leaf(e.result)
    /\ None \notin Result /\ Torn \notin Result /\ Torn # None
<1>1. NoEntry \in Entry /\ Split \in Entry /\ (\A r \in Result : Leaf(r) \in Entry)
  BY DEF Entry
<1>2. NoEntry.status # "succeeded" /\ Split.status # "succeeded"
  BY DEF NoEntry, Split
<1>3. \A r \in Result : Leaf(r).status = "succeeded" /\ Leaf(r).result = r
  BY DEF Leaf
<1>4. \A e \in Entry : e.status = "succeeded" => e.result \in Result /\ e = Leaf(e.result)
  <2> SUFFICES ASSUME NEW e \in Entry, e.status = "succeeded"
               PROVE  e.result \in Result /\ e = Leaf(e.result)
    OBVIOUS
  <2>1. PICK r \in Result : e = Leaf(r)
    BY <1>2 DEF Entry
  <2> QED
    BY <2>1, <1>3
<1> QED
  BY <1>1, <1>2, <1>3, <1>4, ResultAssumption

\* What a memory takes for a leaf is a result, whatever was read.
LEMMA LeafLemma == \A r : Leaf(r) \in Entry => r \in Result
<1> SUFFICES ASSUME NEW r, Leaf(r) \in Entry PROVE r \in Result
  OBVIOUS
<1>1. Leaf(r).status = "succeeded" /\ Leaf(r).result = r
  BY DEF Leaf
<1> QED
  BY <1>1, EntryLemma

\* A thread under way has a current unit; taking it off its stack, or putting
\* its children in its place, leaves a stack of units.
LEMMA CurrentLemma ==
    ASSUME TypeOK, ThreadsInv, NEW p \in Proc, NEW t \in Root,
           pc[p][t] \notin {"idle", "failed"}
    PROVE  /\ Current(p, t) \in Unit
           /\ Tail(stack[p][t]) \in Seq(Unit)
           /\ Children[Current(p, t)] # <<>> =>
                 /\ Children[Current(p, t)] \o Tail(stack[p][t]) \in Seq(Unit)
                 /\ Children[Current(p, t)] \o Tail(stack[p][t]) # <<>>
<1> DEFINE s == stack[p][t]
<1>1. s \in Seq(Unit) /\ s # <<>>
  BY DEF TypeOK, ThreadsInv
<1> HIDE DEF s
<1>2. /\ Head(s) \in Unit /\ Tail(s) \in Seq(Unit)
  BY <1>1, HeadTailProperties
<1> DEFINE c == Children[Head(s)]
<1>4. c \in Seq(Unit)
  BY <1>2, ChildrenAssumption
<1> HIDE DEF c
<1>5. c \o Tail(s) \in Seq(Unit) /\ (c # <<>> => c \o Tail(s) # <<>>)
  <2>1. c \o Tail(s) \in Seq(Unit)
    BY <1>2, <1>4, ConcatProperties
  <2>2. c \o Tail(s) = <<>> => c = <<>>
    BY <1>2, <1>4, ConcatEqualIffEmpty
  <2> QED
    BY <2>1, <2>2
<1> QED
  BY <1>2, <1>5 DEF s, c, Current


\* What the updates of one thread do to the state of all of them.
Elsewhere(f, g, p, t) ==
    \A q \in Proc, x \in Root : (q # p \/ x # t) => g[q][x] = f[q][x]

LEMMA GotoLemma ==
    ASSUME TypeOK, NEW p \in Proc, NEW t \in Root, NEW n \in Pc, Goto(p, t, n)
    PROVE  pc' \in [Proc -> [Root -> Pc]] /\ pc'[p][t] = n /\ Elsewhere(pc, pc', p, t)
BY DEF TypeOK, Goto, Elsewhere

LEMMA CarryLemma ==
    ASSUME TypeOK, NEW p \in Proc, NEW t \in Root, NEW r \in Result \cup {None}, Carry(p, t, r)
    PROVE  /\ held' \in [Proc -> [Root -> Result \cup {None}]]
           /\ held'[p][t] = r /\ Elsewhere(held, held', p, t)
BY DEF TypeOK, Carry, Elsewhere

LEMMA RememberLemma ==
    ASSUME TypeOK, NEW p \in Proc, NEW u \in Unit, NEW e \in Entry, Remember(p, u, e)
    PROVE  /\ mem' \in [Proc -> [Unit -> Entry]]
           /\ mem'[p][u] = e
           /\ \A q \in Proc, v \in Unit : (q # p \/ v # u) => mem'[q][v] = mem[q][v]
BY DEF TypeOK, Remember

LEMMA LockLemma ==
    ASSUME TypeOK, NEW p \in Proc, NEW t \in Root, Lock(p, t) \/ Unlock(p)
    PROVE  mutex' \in [Proc -> Root \cup {None}]
BY DEF TypeOK, Lock, Unlock

LEMMA SeeLemma ==
    ASSUME TypeOK, NEW p \in Proc, NEW t \in Root, NEW r \in Result \cup {None},
           seen' = [seen EXCEPT ![p][t] = r]
    PROVE  /\ seen' \in [Proc -> [Root -> Result \cup {None}]]
           /\ seen'[p][t] = r /\ Elsewhere(seen, seen', p, t)
BY DEF TypeOK, Elsewhere

\* A thread done with its unit, or gone on to the children of it, has a unit
\* to visit or is finished.
LEMMA FinishLemma ==
    ASSUME TypeOK, ThreadsInv, NEW p \in Proc, NEW t \in Root,
           pc[p][t] \notin {"idle", "failed"}, NEW r \in Result \cup {None}, Finish(p, t, r)
    PROVE  /\ pc' \in [Proc -> [Root -> Pc]] /\ Elsewhere(pc, pc', p, t)
           /\ pc'[p][t] = "idle" \/ (pc'[p][t] = "reuse" /\ stack'[p][t] # <<>>)
           /\ stack' \in [Proc -> [Root -> Seq(Unit)]] /\ Elsewhere(stack, stack', p, t)
           /\ held' \in [Proc -> [Root -> Result \cup {None}]] /\ Elsewhere(held, held', p, t)
           /\ got' \in [Proc -> [Unit -> Result \cup {None}]]
<1> DEFINE rest == Tail(stack[p][t])
           next == IF rest = <<>> THEN "idle" ELSE "reuse"
<1>1. rest \in Seq(Unit)
  BY CurrentLemma
<1>2. stack' = [stack EXCEPT ![p][t] = rest] /\ Goto(p, t, next) /\ Carry(p, t, None)
  BY DEF Finish
<1>3. got' \in [Proc -> [Unit -> Result \cup {None}]]
  BY CurrentLemma DEF Finish, TypeOK
<1> HIDE DEF rest
<1>4. /\ stack' \in [Proc -> [Root -> Seq(Unit)]] /\ Elsewhere(stack, stack', p, t)
      /\ stack'[p][t] = rest
  BY <1>1, <1>2 DEF TypeOK, Elsewhere
<1>5. next \in Pc
  BY DEF Pc
<1>6. pc' \in [Proc -> [Root -> Pc]] /\ pc'[p][t] = next /\ Elsewhere(pc, pc', p, t)
  BY <1>2, <1>5, GotoLemma
<1>7. held' \in [Proc -> [Root -> Result \cup {None}]] /\ Elsewhere(held, held', p, t)
  BY <1>2, CarryLemma
<1> QED
  BY <1>3, <1>4, <1>6, <1>7

LEMMA DescendLemma ==
    ASSUME TypeOK, ThreadsInv, NEW p \in Proc, NEW t \in Root,
           pc[p][t] \notin {"idle", "failed"}, Children[Current(p, t)] # <<>>, Descend(p, t)
    PROVE  /\ pc' \in [Proc -> [Root -> Pc]] /\ Elsewhere(pc, pc', p, t)
           /\ pc'[p][t] = "reuse" /\ stack'[p][t] # <<>>
           /\ stack' \in [Proc -> [Root -> Seq(Unit)]] /\ Elsewhere(stack, stack', p, t)
<1> DEFINE down == Children[Current(p, t)] \o Tail(stack[p][t])
<1>1. down \in Seq(Unit) /\ down # <<>>
  BY CurrentLemma
<1>2. stack' = [stack EXCEPT ![p][t] = down] /\ Goto(p, t, "reuse")
  BY DEF Descend
<1> HIDE DEF down
<1>3. /\ stack' \in [Proc -> [Root -> Seq(Unit)]] /\ Elsewhere(stack, stack', p, t)
      /\ stack'[p][t] = down
  BY <1>1, <1>2 DEF TypeOK, Elsewhere
<1>4. pc' \in [Proc -> [Root -> Pc]] /\ pc'[p][t] = "reuse" /\ Elsewhere(pc, pc', p, t)
  BY <1>2, GotoLemma DEF Pc
<1> QED
  BY <1>1, <1>3, <1>4

\* A step of one thread keeps the other threads' part of the invariant.
LEMMA LocalLemma ==
    ASSUME ThreadsInv, NEW p \in Proc, NEW t \in Root,
           Elsewhere(pc, pc', p, t), Elsewhere(stack, stack', p, t),
           Elsewhere(held, held', p, t), Elsewhere(seen, seen', p, t),
           pc'[p][t] \notin {"idle", "failed"} => stack'[p][t] # <<>>,
           pc'[p][t] \in Holding => held'[p][t] \in Result,
           pc'[p][t] = "fresh" => seen'[p][t] \in Result
    PROVE  ThreadsInv'
BY DEF ThreadsInv, Elsewhere

LEMMA SameLemma == \A f, p, t : Elsewhere(f, f, p, t)
BY DEF Elsewhere

LEMMA StackLemma ==
    ASSUME ThreadsInv, NEW p \in Proc, NEW t \in Root, pc[p][t] \notin {"idle", "failed"}
    PROVE  stack[p][t] # <<>>
BY DEF ThreadsInv

\* A run that starts has the state file in memory, or nothing.
LEMMA StartLemma ==
    ASSUME TypeOK, NEW p \in Proc, Start(p)
    PROVE  /\ mem' \in [Proc -> [Unit -> Entry]]
           /\ \A q \in Proc, u \in Unit : mem'[q][u] \in {mem[q][u], disk[u], NoEntry}
<1>1. NoEntries \in [Unit -> Entry] /\ \A u \in Unit : NoEntries[u] = NoEntry
  BY EntryLemma DEF NoEntries
<1>2. disk \in [Unit -> Entry] /\ mem \in [Proc -> [Unit -> Entry]]
  BY DEF TypeOK
<1>3. CASE mem' = [mem EXCEPT ![p] = disk]
  BY <1>2, <1>3
<1>4. CASE mem' = [mem EXCEPT ![p] = NoEntries]
  BY <1>1, <1>2, <1>4
<1> QED
  BY <1>3, <1>4 DEF Start

\* Every step keeps the shape of every variable, and a thread under way its unit.
LEMMA ThreadsStep == TypeOK /\ ThreadsInv /\ [Next]_vars => (TypeOK /\ ThreadsInv)'
<1> SUFFICES ASSUME TypeOK, ThreadsInv, [Next]_vars PROVE (TypeOK /\ ThreadsInv)'
    OBVIOUS
<1>1. ASSUME NEW p \in Proc, Start(p) PROVE (TypeOK /\ ThreadsInv)'
  <2>2. mem' \in [Proc -> [Unit -> Entry]]
    BY <1>1, StartLemma
  <2>3. blind' \subseteq active'
    BY <1>1 DEF Start, TypeOK
  <2> QED
    BY <1>1, <2>2, <2>3, EntryLemma, RootAssumption
      DEF Start, TypeOK, ThreadsInv, Holding, Writing, Pc, files
<1>2. ASSUME NEW p \in Proc, End(p) PROVE (TypeOK /\ ThreadsInv)'
  BY <1>2, EntryLemma, RootAssumption
    DEF End, Forget, NoEntries, TypeOK, ThreadsInv, Holding, Writing, Pc, files
<1>3. ASSUME NEW p \in Proc, Crash(p) PROVE (TypeOK /\ ThreadsInv)'
  BY <1>3, EntryLemma, RootAssumption
    DEF Crash, Forget, NoEntries, TypeOK, ThreadsInv, Holding, Writing, Pc, files
<1>4. ASSUME NEW p \in Proc, NEW t \in Root, Reuse(p, t) PROVE (TypeOK /\ ThreadsInv)'
  <2>1. pc[p][t] \notin {"idle", "failed"}
    BY <1>4 DEF Reuse
  <2>2. Current(p, t) \in Unit
    BY <2>1, CurrentLemma
  <2>0. PICK prior \in Readings(Current(p, t)) :
            IF mem[p][Current(p, t)] = Leaf(prior)
              THEN Finish(p, t, prior)
              ELSE Goto(p, t, "reuse_split") /\ UNCHANGED <<stack, held, got>>
    BY <1>4 DEF Reuse
  <2>3. CASE mem[p][Current(p, t)] = Leaf(prior)
    <3>1. /\ Finish(p, t, prior)
          /\ UNCHANGED <<active, blind, mem, mutex, seen, disk, file>>
      BY <1>4, <2>0, <2>3 DEF Reuse, files
    <3>2. prior \in Result \cup {None}
      BY <2>2, <2>3, LeafLemma DEF TypeOK
    <3>3. /\ pc' \in [Proc -> [Root -> Pc]]
          /\ Elsewhere(pc, pc', p, t)
          /\ stack' \in [Proc -> [Root -> Seq(Unit)]]
          /\ Elsewhere(stack, stack', p, t)
          /\ pc'[p][t] = "idle" \/ (pc'[p][t] = "reuse" /\ stack'[p][t] # <<>>)
          /\ held' \in [Proc -> [Root -> Result \cup {None}]]
          /\ Elsewhere(held, held', p, t)
          /\ got' \in [Proc -> [Unit -> Result \cup {None}]]
      BY <3>1, <3>2, <2>1, FinishLemma
    <3>4. TypeOK'
      BY <3>1, <3>3 DEF TypeOK
    <3>5. ThreadsInv'
      BY <3>1, <3>2, <3>3, <2>1, StackLemma, LocalLemma, SameLemma DEF Holding, Writing
    <3> QED
      BY <3>4, <3>5
  <2>4. CASE mem[p][Current(p, t)] # Leaf(prior)
    <3>1. /\ Goto(p, t, "reuse_split")
          /\ UNCHANGED <<active, blind, stack, held, got, mem, mutex, seen, disk, file>>
      BY <1>4, <2>0, <2>4 DEF Reuse, files
    <3>2. /\ pc' \in [Proc -> [Root -> Pc]]
          /\ pc'[p][t] = "reuse_split"
          /\ Elsewhere(pc, pc', p, t)
      BY <3>1, <2>1, GotoLemma DEF Pc
    <3>3. TypeOK'
      BY <3>1, <3>2 DEF TypeOK
    <3>4. ThreadsInv'
      BY <3>1, <3>2, <2>1, StackLemma, LocalLemma, SameLemma DEF Holding, Writing
    <3> QED
      BY <3>3, <3>4
  <2> QED
    BY <2>3, <2>4
<1>5. ASSUME NEW p \in Proc, NEW t \in Root, ReuseSplit(p, t) PROVE (TypeOK /\ ThreadsInv)'
  <2>1. pc[p][t] \notin {"idle", "failed"}
    BY <1>5 DEF ReuseSplit
  <2>2. Current(p, t) \in Unit
    BY <2>1, CurrentLemma
  <2>3. CASE mem[p][Current(p, t)].status = "split" /\ Children[Current(p, t)] # <<>>
    <3>1. /\ Descend(p, t)
          /\ UNCHANGED <<active, blind, held, got, mem, mutex, seen, disk, file>>
      BY <1>5, <2>3 DEF ReuseSplit, files
    <3>2. /\ pc' \in [Proc -> [Root -> Pc]]
          /\ Elsewhere(pc, pc', p, t)
          /\ stack' \in [Proc -> [Root -> Seq(Unit)]]
          /\ Elsewhere(stack, stack', p, t)
          /\ pc'[p][t] = "reuse"
          /\ stack'[p][t] # <<>>
      BY <3>1, <2>1, DescendLemma, <2>3, <1>5 DEF ReuseSplit
    <3>3. TypeOK'
      BY <3>1, <3>2 DEF TypeOK
    <3>4. ThreadsInv'
      BY <3>1, <3>2, <2>1, StackLemma, LocalLemma, SameLemma DEF Holding, Writing
    <3> QED
      BY <3>3, <3>4
  <2>4. CASE ~(mem[p][Current(p, t)].status = "split" /\ Children[Current(p, t)] # <<>>)
    <3>1. /\ Goto(p, t, "call")
          /\ UNCHANGED <<active, blind, stack, held, got, mem, mutex, seen, disk, file>>
      BY <1>5, <2>4 DEF ReuseSplit, files
    <3>2. /\ pc' \in [Proc -> [Root -> Pc]]
          /\ pc'[p][t] = "call"
          /\ Elsewhere(pc, pc', p, t)
      BY <3>1, <2>1, GotoLemma DEF Pc
    <3>3. TypeOK'
      BY <3>1, <3>2 DEF TypeOK
    <3>4. ThreadsInv'
      BY <3>1, <3>2, <2>1, StackLemma, LocalLemma, SameLemma DEF Holding, Writing
    <3> QED
      BY <3>3, <3>4
  <2> QED
    BY <1>5, <2>3, <2>4 DEF ReuseSplit
<1>6. ASSUME NEW p \in Proc, NEW t \in Root, Call(p, t) PROVE (TypeOK /\ ThreadsInv)'
  <2>1. ASSUME NEW r \in Result \cup {None}, NEW n \in {"respond", "failed"},
               Carry(p, t, r), Goto(p, t, n),
               UNCHANGED <<files, mem, active, blind, stack, seen, mutex, got>>,
               pc[p][t] = "call"
        PROVE  (TypeOK /\ ThreadsInv)'
    BY <2>1 DEF TypeOK, ThreadsInv, Holding, Writing, Pc, Goto, Carry, files
  <2>2. held[p][t] \in Result \cup {None} /\ (UNCHANGED held => Carry(p, t, held[p][t]))
    BY DEF TypeOK, Carry
  <2> QED
    BY <1>6, <2>1, <2>2 DEF Call
<1>7. ASSUME NEW p \in Proc, NEW t \in Root, RecordSplit(p, t) PROVE (TypeOK /\ ThreadsInv)'
  <2>1. pc[p][t] \notin {"idle", "failed"}
    BY <1>7 DEF RecordSplit
  <2>2. Current(p, t) \in Unit
    BY <2>1, CurrentLemma
  <2>3. CASE Children[Current(p, t)] = <<>>
    <3>1. /\ Goto(p, t, "failed")
          /\ UNCHANGED <<active, blind, stack, held, got, mem, mutex, seen, disk, file>>
      BY <1>7, <2>3 DEF RecordSplit, files
    <3>2. /\ pc' \in [Proc -> [Root -> Pc]]
          /\ pc'[p][t] = "failed"
          /\ Elsewhere(pc, pc', p, t)
      BY <3>1, <2>1, GotoLemma DEF Pc
    <3>3. TypeOK'
      BY <3>1, <3>2 DEF TypeOK
    <3>4. ThreadsInv'
      BY <3>1, <3>2, <2>1, StackLemma, LocalLemma, SameLemma DEF Holding, Writing
    <3> QED
      BY <3>3, <3>4
  <2>4. CASE Children[Current(p, t)] # <<>>
    <3>1. /\ Descend(p, t)
          /\ Remember(p, Current(p, t), Split)
          /\ disk' = mem'[p]
          /\ UNCHANGED <<active, blind, held, got, mutex, seen, file>>
      BY <1>7, <2>4 DEF RecordSplit, files
    <3>2. Split \in Entry
      BY <1>7, <2>4, <2>2, EntryLemma DEF RecordSplit, TypeOK, ThreadsInv, Holding, Writing
    <3>3. /\ pc' \in [Proc -> [Root -> Pc]]
          /\ Elsewhere(pc, pc', p, t)
          /\ stack' \in [Proc -> [Root -> Seq(Unit)]]
          /\ Elsewhere(stack, stack', p, t)
          /\ pc'[p][t] = "reuse"
          /\ stack'[p][t] # <<>>
      BY <3>1, <3>2, <2>1, DescendLemma, <2>4, <1>7 DEF RecordSplit
    <3>4. mem' \in [Proc -> [Unit -> Entry]]
      BY <3>1, <3>2, <2>2, EntryLemma, RememberLemma
    <3>5. TypeOK'
      BY <3>1, <3>3, <3>4 DEF TypeOK
    <3>6. ThreadsInv'
      BY <3>1, <3>2, <3>3, <3>4, <2>1, StackLemma, LocalLemma, SameLemma DEF Holding, Writing
    <3> QED
      BY <3>5, <3>6
  <2> QED
    BY <1>7, <2>3, <2>4 DEF RecordSplit
<1>8. ASSUME NEW p \in Proc, NEW t \in Root, RecordLeaf(p, t) PROVE (TypeOK /\ ThreadsInv)'
  <2>1. pc[p][t] \notin {"idle", "failed"}
    BY <1>8 DEF RecordLeaf
  <2>2. Current(p, t) \in Unit
    BY <2>1, CurrentLemma
  <2>0. PICK prior, existing \in Readings(Current(p, t)) :
          \/ /\ mem[p][Current(p, t)] = Leaf(prior)
             /\ Finish(p, t, prior)
             /\ UNCHANGED <<seen, mutex>>
          \/ /\ existing \notin Result
             /\ Lock(p, t)
             /\ Goto(p, t, "truncate")
             /\ UNCHANGED <<stack, held, seen, got>>
          \/ /\ existing \in Result
             /\ Lock(p, t)
             /\ seen' = [seen EXCEPT ![p][t] = existing]
             /\ Goto(p, t, "fresh")
             /\ UNCHANGED <<stack, held, got>>
    BY <1>8 DEF RecordLeaf
  <2>3. CASE /\ mem[p][Current(p, t)] = Leaf(prior)
             /\ Finish(p, t, prior)
             /\ UNCHANGED <<seen, mutex>>
    <3>1. /\ Finish(p, t, prior)
          /\ UNCHANGED <<active, blind, mem, mutex, seen, disk, file>>
      BY <1>8, <2>3 DEF RecordLeaf, files
    <3>2. prior \in Result \cup {None}
      BY <2>2, <2>3, LeafLemma DEF TypeOK
    <3>3. /\ pc' \in [Proc -> [Root -> Pc]]
          /\ Elsewhere(pc, pc', p, t)
          /\ stack' \in [Proc -> [Root -> Seq(Unit)]]
          /\ Elsewhere(stack, stack', p, t)
          /\ pc'[p][t] = "idle" \/ (pc'[p][t] = "reuse" /\ stack'[p][t] # <<>>)
          /\ held' \in [Proc -> [Root -> Result \cup {None}]]
          /\ Elsewhere(held, held', p, t)
          /\ got' \in [Proc -> [Unit -> Result \cup {None}]]
      BY <3>1, <3>2, <2>1, FinishLemma
    <3>4. TypeOK'
      BY <3>1, <3>3 DEF TypeOK
    <3>5. ThreadsInv'
      BY <3>1, <3>2, <3>3, <2>1, StackLemma, LocalLemma, SameLemma DEF Holding, Writing
    <3> QED
      BY <3>4, <3>5
  <2>4. CASE /\ existing \notin Result
             /\ Lock(p, t)
             /\ Goto(p, t, "truncate")
             /\ UNCHANGED <<stack, held, seen, got>>
    <3>1. /\ Goto(p, t, "truncate")
          /\ Lock(p, t)
          /\ UNCHANGED <<active, blind, stack, held, got, mem, seen, disk, file>>
      BY <1>8, <2>4 DEF RecordLeaf, files
    <3>2. held[p][t] \in Result
      BY <1>8, <2>4, <2>2, EntryLemma DEF RecordLeaf, TypeOK, ThreadsInv, Holding, Writing
    <3>3. /\ pc' \in [Proc -> [Root -> Pc]]
          /\ pc'[p][t] = "truncate"
          /\ Elsewhere(pc, pc', p, t)
      BY <3>1, <3>2, <2>1, GotoLemma DEF Pc
    <3>4. mutex' \in [Proc -> Root \cup {None}]
      BY <3>1, LockLemma
    <3>5. TypeOK'
      BY <3>1, <3>3, <3>4 DEF TypeOK
    <3>6. ThreadsInv'
      BY <3>1, <3>2, <3>3, <3>4, <2>1, StackLemma, LocalLemma, SameLemma DEF Holding, Writing
    <3> QED
      BY <3>5, <3>6
  <2>5. CASE /\ existing \in Result
             /\ Lock(p, t)
             /\ seen' = [seen EXCEPT ![p][t] = existing]
             /\ Goto(p, t, "fresh")
             /\ UNCHANGED <<stack, held, got>>
    <3>1. /\ Goto(p, t, "fresh")
          /\ Lock(p, t)
          /\ seen' = [seen EXCEPT ![p][t] = existing]
          /\ UNCHANGED <<active, blind, stack, held, got, mem, disk, file>>
      BY <1>8, <2>5 DEF RecordLeaf, files
    <3>2. held[p][t] \in Result /\ existing \in Result
      BY <1>8, <2>5, <2>2, EntryLemma DEF RecordLeaf, TypeOK, ThreadsInv, Holding, Writing
    <3>3. /\ pc' \in [Proc -> [Root -> Pc]]
          /\ pc'[p][t] = "fresh"
          /\ Elsewhere(pc, pc', p, t)
      BY <3>1, <3>2, <2>1, GotoLemma DEF Pc
    <3>4. mutex' \in [Proc -> Root \cup {None}]
      BY <3>1, LockLemma
    <3>5. seen' \in [Proc -> [Root -> Result \cup {None}]] /\ seen'[p][t] = existing /\ Elsewhere(seen, seen', p, t)
      BY <3>1, <3>2, SeeLemma
    <3>6. TypeOK'
      BY <3>1, <3>3, <3>4, <3>5 DEF TypeOK
    <3>7. ThreadsInv'
      BY <3>1, <3>2, <3>3, <3>4, <3>5, <2>1, StackLemma, LocalLemma, SameLemma DEF Holding, Writing
    <3> QED
      BY <3>6, <3>7
  <2> QED
    BY <2>0, <2>3, <2>4, <2>5
<1>9. ASSUME NEW p \in Proc, NEW t \in Root, ReadFresh(p, t) PROVE (TypeOK /\ ThreadsInv)'
  <2>1. pc[p][t] \notin {"idle", "failed"}
    BY <1>9 DEF ReadFresh
  <2>2. Current(p, t) \in Unit
    BY <2>1, CurrentLemma
  <2>3. CASE /\ mem' = [mem EXCEPT ![p] = disk]
             /\ Finish(p, t, seen[p][t])
             /\ Unlock(p)
    <3>1. /\ Finish(p, t, seen[p][t])
          /\ mem' = [mem EXCEPT ![p] = disk]
          /\ Unlock(p)
          /\ seen' = [seen EXCEPT ![p][t] = None]
          /\ UNCHANGED <<active, blind, disk, file>>
      BY <1>9, <2>3 DEF ReadFresh, files
    <3>2. seen[p][t] \in Result \cup {None} /\ None \in Result \cup {None}
      BY <1>9, <2>3, <2>2, EntryLemma DEF ReadFresh, TypeOK, ThreadsInv, Holding, Writing
    <3>3. /\ pc' \in [Proc -> [Root -> Pc]]
          /\ Elsewhere(pc, pc', p, t)
          /\ stack' \in [Proc -> [Root -> Seq(Unit)]]
          /\ Elsewhere(stack, stack', p, t)
          /\ pc'[p][t] = "idle" \/ (pc'[p][t] = "reuse" /\ stack'[p][t] # <<>>)
          /\ held' \in [Proc -> [Root -> Result \cup {None}]]
          /\ Elsewhere(held, held', p, t)
          /\ got' \in [Proc -> [Unit -> Result \cup {None}]]
      BY <3>1, <3>2, <2>1, FinishLemma
    <3>4. mem' \in [Proc -> [Unit -> Entry]]
      BY <3>1 DEF TypeOK
    <3>5. mutex' \in [Proc -> Root \cup {None}]
      BY <3>1, LockLemma
    <3>6. seen' \in [Proc -> [Root -> Result \cup {None}]] /\ seen'[p][t] = None /\ Elsewhere(seen, seen', p, t)
      BY <3>1, <3>2, SeeLemma
    <3>7. TypeOK'
      BY <3>1, <3>3, <3>4, <3>5, <3>6 DEF TypeOK
    <3>8. ThreadsInv'
      BY <3>1, <3>2, <3>3, <3>4, <3>5, <3>6, <2>1, StackLemma, LocalLemma, SameLemma DEF Holding, Writing
    <3> QED
      BY <3>7, <3>8
  <2>4. CASE /\ Remember(p, Current(p, t), Leaf(seen[p][t]))
             /\ Carry(p, t, seen[p][t])
             /\ Goto(p, t, "persist")
             /\ UNCHANGED <<stack, mutex, got>>
    <3>1. /\ Goto(p, t, "persist")
          /\ Carry(p, t, seen[p][t])
          /\ Remember(p, Current(p, t), Leaf(seen[p][t]))
          /\ seen' = [seen EXCEPT ![p][t] = None]
          /\ UNCHANGED <<active, blind, stack, got, mutex, disk, file>>
      BY <1>9, <2>4 DEF ReadFresh, files
    <3>2. seen[p][t] \in Result /\ Leaf(seen[p][t]) \in Entry /\ None \in Result \cup {None}
      BY <1>9, <2>4, <2>2, EntryLemma DEF ReadFresh, TypeOK, ThreadsInv, Holding, Writing
    <3>3. /\ pc' \in [Proc -> [Root -> Pc]]
          /\ pc'[p][t] = "persist"
          /\ Elsewhere(pc, pc', p, t)
      BY <3>1, <3>2, <2>1, GotoLemma DEF Pc
    <3>4. held' \in [Proc -> [Root -> Result \cup {None}]] /\ held'[p][t] = seen[p][t] /\ Elsewhere(held, held', p, t)
      BY <3>1, <3>2, CarryLemma
    <3>5. mem' \in [Proc -> [Unit -> Entry]]
      BY <3>1, <3>2, <2>2, EntryLemma, RememberLemma
    <3>6. seen' \in [Proc -> [Root -> Result \cup {None}]] /\ seen'[p][t] = None /\ Elsewhere(seen, seen', p, t)
      BY <3>1, <3>2, SeeLemma
    <3>7. TypeOK'
      BY <3>1, <3>3, <3>4, <3>5, <3>6 DEF TypeOK
    <3>8. ThreadsInv'
      BY <3>1, <3>2, <3>3, <3>4, <3>5, <3>6, <2>1, StackLemma, LocalLemma, SameLemma DEF Holding, Writing
    <3> QED
      BY <3>7, <3>8
  <2>5. CASE /\ seen[p][t] = held[p][t]
             /\ Remember(p, Current(p, t), Leaf(seen[p][t]))
             /\ Goto(p, t, "persist")
             /\ UNCHANGED <<stack, held, mutex, got>>
    <3>1. /\ Goto(p, t, "persist")
          /\ Remember(p, Current(p, t), Leaf(seen[p][t]))
          /\ seen' = [seen EXCEPT ![p][t] = None]
          /\ UNCHANGED <<active, blind, stack, held, got, mutex, disk, file>>
      BY <1>9, <2>5 DEF ReadFresh, files
    <3>2. held[p][t] \in Result /\ Leaf(seen[p][t]) \in Entry /\ None \in Result \cup {None}
      BY <1>9, <2>5, <2>2, EntryLemma DEF ReadFresh, TypeOK, ThreadsInv, Holding, Writing
    <3>3. /\ pc' \in [Proc -> [Root -> Pc]]
          /\ pc'[p][t] = "persist"
          /\ Elsewhere(pc, pc', p, t)
      BY <3>1, <3>2, <2>1, GotoLemma DEF Pc
    <3>4. mem' \in [Proc -> [Unit -> Entry]]
      BY <3>1, <3>2, <2>2, EntryLemma, RememberLemma
    <3>5. seen' \in [Proc -> [Root -> Result \cup {None}]] /\ seen'[p][t] = None /\ Elsewhere(seen, seen', p, t)
      BY <3>1, <3>2, SeeLemma
    <3>6. TypeOK'
      BY <3>1, <3>3, <3>4, <3>5 DEF TypeOK
    <3>7. ThreadsInv'
      BY <3>1, <3>2, <3>3, <3>4, <3>5, <2>1, StackLemma, LocalLemma, SameLemma DEF Holding, Writing
    <3> QED
      BY <3>6, <3>7
  <2>6. CASE /\ Goto(p, t, "failed")
             /\ Unlock(p)
             /\ UNCHANGED <<mem, stack, held, got>>
    <3>1. /\ Goto(p, t, "failed")
          /\ Unlock(p)
          /\ seen' = [seen EXCEPT ![p][t] = None]
          /\ UNCHANGED <<active, blind, stack, held, got, mem, disk, file>>
      BY <1>9, <2>6 DEF ReadFresh, files
    <3>2. None \in Result \cup {None}
      BY <1>9, <2>6, <2>2, EntryLemma DEF ReadFresh, TypeOK, ThreadsInv, Holding, Writing
    <3>3. /\ pc' \in [Proc -> [Root -> Pc]]
          /\ pc'[p][t] = "failed"
          /\ Elsewhere(pc, pc', p, t)
      BY <3>1, <3>2, <2>1, GotoLemma DEF Pc
    <3>4. mutex' \in [Proc -> Root \cup {None}]
      BY <3>1, LockLemma
    <3>5. seen' \in [Proc -> [Root -> Result \cup {None}]] /\ seen'[p][t] = None /\ Elsewhere(seen, seen', p, t)
      BY <3>1, <3>2, SeeLemma
    <3>6. TypeOK'
      BY <3>1, <3>3, <3>4, <3>5 DEF TypeOK
    <3>7. ThreadsInv'
      BY <3>1, <3>2, <3>3, <3>4, <3>5, <2>1, StackLemma, LocalLemma, SameLemma DEF Holding, Writing
    <3> QED
      BY <3>6, <3>7
  <2> QED
    BY <1>9, <2>3, <2>4, <2>5, <2>6 DEF ReadFresh
<1>10. ASSUME NEW p \in Proc, NEW t \in Root, Truncate(p, t) PROVE (TypeOK /\ ThreadsInv)'
  <2>1. pc[p][t] \notin {"idle", "failed"}
    BY <1>10 DEF Truncate
  <2>2. Current(p, t) \in Unit
    BY <2>1, CurrentLemma
  <2>3. /\ Goto(p, t, "fill")
        /\ file' = [file EXCEPT ![Current(p, t)] = Torn]
        /\ UNCHANGED <<active, blind, stack, held, got, mem, mutex, seen, disk>>
    BY <1>10 DEF Truncate, files
  <2>4. held[p][t] \in Result
    BY <1>10, <2>2, EntryLemma DEF Truncate, TypeOK, ThreadsInv, Holding, Writing
  <2>5. /\ pc' \in [Proc -> [Root -> Pc]]
        /\ pc'[p][t] = "fill"
        /\ Elsewhere(pc, pc', p, t)
    BY <2>3, <2>4, <2>1, GotoLemma DEF Pc
  <2>6. file' \in [Unit -> Result \cup {None, Torn}]
    BY <2>3, <2>4, <2>2 DEF TypeOK
  <2>7. TypeOK'
    BY <2>3, <2>5, <2>6 DEF TypeOK
  <2>8. ThreadsInv'
    BY <2>3, <2>4, <2>5, <2>6, <2>1, StackLemma, LocalLemma, SameLemma DEF Holding, Writing
  <2> QED
    BY <2>7, <2>8
<1>11. ASSUME NEW p \in Proc, NEW t \in Root, Fill(p, t) PROVE (TypeOK /\ ThreadsInv)'
  <2>1. pc[p][t] \notin {"idle", "failed"}
    BY <1>11 DEF Fill
  <2>2. Current(p, t) \in Unit
    BY <2>1, CurrentLemma
  <2>3. /\ Goto(p, t, "persist")
        /\ Remember(p, Current(p, t), Leaf(held[p][t]))
        /\ file' = [file EXCEPT ![Current(p, t)] = held[p][t]]
        /\ UNCHANGED <<active, blind, stack, held, got, mutex, seen, disk>>
    BY <1>11 DEF Fill, files
  <2>4. held[p][t] \in Result /\ Leaf(held[p][t]) \in Entry
    BY <1>11, <2>2, EntryLemma DEF Fill, TypeOK, ThreadsInv, Holding, Writing
  <2>5. /\ pc' \in [Proc -> [Root -> Pc]]
        /\ pc'[p][t] = "persist"
        /\ Elsewhere(pc, pc', p, t)
    BY <2>3, <2>4, <2>1, GotoLemma DEF Pc
  <2>6. mem' \in [Proc -> [Unit -> Entry]]
    BY <2>3, <2>4, <2>2, EntryLemma, RememberLemma
  <2>7. file' \in [Unit -> Result \cup {None, Torn}]
    BY <2>3, <2>4, <2>2 DEF TypeOK
  <2>8. TypeOK'
    BY <2>3, <2>5, <2>6, <2>7 DEF TypeOK
  <2>9. ThreadsInv'
    BY <2>3, <2>4, <2>5, <2>6, <2>7, <2>1, StackLemma, LocalLemma, SameLemma DEF Holding, Writing
  <2> QED
    BY <2>8, <2>9
<1>12. ASSUME NEW p \in Proc, NEW t \in Root, Persist(p, t) PROVE (TypeOK /\ ThreadsInv)'
  <2>1. pc[p][t] \notin {"idle", "failed"}
    BY <1>12 DEF Persist
  <2>2. Current(p, t) \in Unit
    BY <2>1, CurrentLemma
  <2>3. /\ Finish(p, t, held[p][t])
        /\ Unlock(p)
        /\ disk' = mem[p]
        /\ UNCHANGED <<active, blind, mem, seen, file>>
    BY <1>12 DEF Persist, files
  <2>4. held[p][t] \in Result \cup {None}
    BY <1>12, <2>2, EntryLemma DEF Persist, TypeOK, ThreadsInv, Holding, Writing
  <2>5. /\ pc' \in [Proc -> [Root -> Pc]]
        /\ Elsewhere(pc, pc', p, t)
        /\ stack' \in [Proc -> [Root -> Seq(Unit)]]
        /\ Elsewhere(stack, stack', p, t)
        /\ pc'[p][t] = "idle" \/ (pc'[p][t] = "reuse" /\ stack'[p][t] # <<>>)
        /\ held' \in [Proc -> [Root -> Result \cup {None}]]
        /\ Elsewhere(held, held', p, t)
        /\ got' \in [Proc -> [Unit -> Result \cup {None}]]
    BY <2>3, <2>4, <2>1, FinishLemma
  <2>6. mutex' \in [Proc -> Root \cup {None}]
    BY <2>3, LockLemma
  <2>7. TypeOK'
    BY <2>3, <2>5, <2>6 DEF TypeOK
  <2>8. ThreadsInv'
    BY <2>3, <2>4, <2>5, <2>6, <2>1, StackLemma, LocalLemma, SameLemma DEF Holding, Writing
  <2> QED
    BY <2>7, <2>8
<1>13. ASSUME NEW p \in Proc, NEW t \in Root, WriteFails(p, t) PROVE (TypeOK /\ ThreadsInv)'
  <2>1. pc[p][t] \notin {"idle", "failed"}
    BY <1>13 DEF WriteFails
  <2>2. Current(p, t) \in Unit
    BY <2>1, CurrentLemma
  <2>3. CASE pc[p][t] # "respond"
    <3>1. /\ Goto(p, t, "failed")
          /\ Unlock(p)
          /\ UNCHANGED <<active, blind, stack, held, got, mem, seen, disk, file>>
      BY <1>13, <2>3 DEF WriteFails, DecodeFails, files
    <3>2. /\ pc' \in [Proc -> [Root -> Pc]]
          /\ pc'[p][t] = "failed"
          /\ Elsewhere(pc, pc', p, t)
      BY <3>1, <2>1, GotoLemma DEF Pc
    <3>3. mutex' \in [Proc -> Root \cup {None}]
      BY <3>1, LockLemma
    <3>4. TypeOK'
      BY <3>1, <3>2, <3>3 DEF TypeOK
    <3>5. ThreadsInv'
      BY <3>1, <3>2, <3>3, <2>1, StackLemma, LocalLemma, SameLemma DEF Holding, Writing
    <3> QED
      BY <3>4, <3>5
  <2>5. CASE pc[p][t] = "respond" /\ held[p][t] # None
    <3>1. /\ Goto(p, t, "failed")
          /\ UNCHANGED <<active, blind, stack, held, got, mem, mutex, seen, disk, file>>
      BY <1>13, <2>5 DEF WriteFails, DecodeFails, files
    <3>2. /\ pc' \in [Proc -> [Root -> Pc]]
          /\ pc'[p][t] = "failed"
          /\ Elsewhere(pc, pc', p, t)
      BY <3>1, <2>1, GotoLemma DEF Pc
    <3>3. TypeOK'
      BY <3>1, <3>2 DEF TypeOK
    <3>4. ThreadsInv'
      BY <3>1, <3>2, <2>1, StackLemma, LocalLemma, SameLemma DEF Holding, Writing
    <3> QED
      BY <3>3, <3>4
  <2>4. CASE pc[p][t] = "respond" /\ held[p][t] = None
    <3>1. /\ Goto(p, t, "failed")
          /\ Remember(p, Current(p, t), Split)
          /\ UNCHANGED <<active, blind, stack, held, got, mutex, seen, disk, file>>
      BY <1>13, <2>4 DEF WriteFails, DecodeFails, files
    <3>2. Split \in Entry
      BY <1>13, <2>4, <2>2, EntryLemma DEF WriteFails, TypeOK, ThreadsInv, Holding, Writing
    <3>3. /\ pc' \in [Proc -> [Root -> Pc]]
          /\ pc'[p][t] = "failed"
          /\ Elsewhere(pc, pc', p, t)
      BY <3>1, <3>2, <2>1, GotoLemma DEF Pc
    <3>4. mem' \in [Proc -> [Unit -> Entry]]
      BY <3>1, <3>2, <2>2, EntryLemma, RememberLemma
    <3>5. TypeOK'
      BY <3>1, <3>3, <3>4 DEF TypeOK
    <3>6. ThreadsInv'
      BY <3>1, <3>2, <3>3, <3>4, <2>1, StackLemma, LocalLemma, SameLemma DEF Holding, Writing
    <3> QED
      BY <3>5, <3>6
  <2> QED
    BY <2>3, <2>4, <2>5
<1>15. ASSUME NEW p \in Proc, NEW t \in Root, DecodeFails(p, t) PROVE (TypeOK /\ ThreadsInv)'
  <2>1. /\ pc[p][t] \notin {"idle", "failed"}
        /\ Goto(p, t, "failed")
        /\ UNCHANGED <<active, blind, stack, held, got, mem, mutex, seen, disk, file>>
    BY <1>15 DEF DecodeFails, files
  <2>2. /\ pc' \in [Proc -> [Root -> Pc]]
        /\ pc'[p][t] = "failed"
        /\ Elsewhere(pc, pc', p, t)
    BY <2>1, GotoLemma DEF Pc
  <2>3. TypeOK'
    BY <2>1, <2>2 DEF TypeOK
  <2>4. ThreadsInv'
    BY <2>1, <2>2, StackLemma, LocalLemma, SameLemma DEF Holding, Writing
  <2> QED
    BY <2>3, <2>4
<1>14. CASE UNCHANGED vars
  BY <1>14 DEF vars, TypeOK, ThreadsInv, Holding, Writing, Pc, files
<1> QED
  BY <1>1, <1>2, <1>3, <1>4, <1>5, <1>6, <1>7, <1>8, <1>9, <1>10, <1>11, <1>12, <1>13, <1>14, <1>15
    DEF Next, Thread

\* The type invariant: whatever the runs do, the state keeps its shape.
THEOREM TypeCorrect == Spec => []TypeOK
<1>1. Init => TypeOK /\ ThreadsInv
  BY EntryLemma DEF Init, NoEntries, TypeOK, ThreadsInv, Blank, Pc, Holding, Writing
<1> QED
  BY <1>1, ThreadsStep, PTL DEF Spec

\* A step of a thread changes nothing of the other threads.
LEMMA FrameLemma ==
    ASSUME TypeOK, NEW p \in Proc, NEW t \in Root, Thread(p, t)
    PROVE  /\ Elsewhere(pc, pc', p, t) /\ Elsewhere(stack, stack', p, t)
           /\ Elsewhere(held, held', p, t) /\ Elsewhere(seen, seen', p, t)
           /\ active' = active /\ blind' = blind
<1>1. ASSUME NEW n, Goto(p, t, n) PROVE Elsewhere(pc, pc', p, t)
  BY <1>1 DEF TypeOK, Goto, Elsewhere
<1>2. ASSUME NEW r, Carry(p, t, r) PROVE Elsewhere(held, held', p, t)
  BY <1>2 DEF TypeOK, Carry, Elsewhere
<1>3. ASSUME NEW s, stack' = [stack EXCEPT ![p][t] = s] PROVE Elsewhere(stack, stack', p, t)
  BY <1>3 DEF TypeOK, Elsewhere
<1>4. ASSUME NEW r, seen' = [seen EXCEPT ![p][t] = r] PROVE Elsewhere(seen, seen', p, t)
  BY <1>4 DEF TypeOK, Elsewhere
<1>5. ASSUME NEW r, Finish(p, t, r)
      PROVE  /\ Elsewhere(pc, pc', p, t) /\ Elsewhere(stack, stack', p, t)
             /\ Elsewhere(held, held', p, t)
  BY <1>1, <1>2, <1>3, <1>5 DEF Finish
<1>6. ASSUME Descend(p, t) PROVE Elsewhere(pc, pc', p, t) /\ Elsewhere(stack, stack', p, t)
  BY <1>1, <1>3, <1>6 DEF Descend
<1> USE <1>1, <1>2, <1>4, <1>5, <1>6, SameLemma
<1>7. CASE Reuse(p, t)
  BY <1>7 DEF Reuse
<1>8. CASE ReuseSplit(p, t)
  BY <1>8 DEF ReuseSplit
<1>9. CASE Call(p, t)
  BY <1>9 DEF Call
<1>10. CASE RecordSplit(p, t)
  BY <1>10 DEF RecordSplit
<1>11. CASE RecordLeaf(p, t)
  BY <1>11 DEF RecordLeaf
<1>12. CASE ReadFresh(p, t)
  BY <1>12 DEF ReadFresh
<1>13. CASE Truncate(p, t)
  BY <1>13 DEF Truncate
<1>14. CASE Fill(p, t)
  BY <1>14 DEF Fill
<1>15. CASE Persist(p, t)
  BY <1>15 DEF Persist
<1>16. CASE WriteFails(p, t)
  BY <1>16 DEF WriteFails
<1>17. CASE DecodeFails(p, t)
  BY <1>17 DEF DecodeFails
<1> QED
  BY <1>7, <1>8, <1>9, <1>10, <1>11, <1>12, <1>13, <1>14, <1>15, <1>16, <1>17 DEF Thread

\* A leaf is reused with what was read of its artifact, or not at all.
LEMMA ReuseLemma ==
    ASSUME TypeOK, ThreadsInv, NEW p \in Proc, NEW t \in Root, Reuse(p, t)
    PROVE  \E r \in Readings(Current(p, t)) :
              \/ mem[p][Current(p, t)] = Leaf(r) /\ r \in Result /\ Finish(p, t, r)
              \/ /\ mem[p][Current(p, t)] # Leaf(r) /\ Goto(p, t, "reuse_split")
                 /\ UNCHANGED <<stack, held, got>>
<1>1. pc[p][t] \notin {"idle", "failed"}
  BY DEF Reuse
<1>2. mem[p][Current(p, t)] \in Entry
  BY <1>1, CurrentLemma DEF TypeOK
<1> QED
  BY <1>2, LeafLemma DEF Reuse

\* record_leaf returns what it remembers, writes an artifact that is no result
\* as it reads it, or goes on with the result that is there.
LEMMA RecordLeafLemma ==
    ASSUME TypeOK, ThreadsInv, NEW p \in Proc, NEW t \in Root, RecordLeaf(p, t)
    PROVE  LET u == Current(p, t) IN
           \/ \E r \in Result : mem[p][u] = Leaf(r) /\ Finish(p, t, r) /\ mutex' = mutex
           \/ /\ u \notin Unreadable => file[u] \notin Result
              /\ \E r \in Readings(u) : mem[p][u] # Leaf(r)
              /\ Lock(p, t) /\ Goto(p, t, "truncate")
              /\ UNCHANGED <<stack, held, seen, got>>
           \/ /\ file[u] \in Result /\ seen' = [seen EXCEPT ![p][t] = file[u]]
              /\ \E r \in Readings(u) : mem[p][u] # Leaf(r)
              /\ Lock(p, t) /\ Goto(p, t, "fresh")
              /\ UNCHANGED <<stack, held, got>>
<1> DEFINE u == Current(p, t)
<1>1. pc[p][t] \notin {"idle", "failed"}
  BY DEF RecordLeaf
<1>2. mem[p][u] \in Entry
  BY <1>1, CurrentLemma DEF TypeOK
<1>3. /\ \A r \in Readings(u) : r \in Result => r = file[u]
      /\ u \notin Unreadable => Readings(u) = {file[u]}
  BY ResultAssumption DEF Readings
<1>4. \A r : mem[p][u] = Leaf(r) => r \in Result
  BY <1>2, LeafLemma
<1> HIDE DEF u
<1>5. PICK prior, existing \in Readings(u) :
          \/ /\ mem[p][u] = Leaf(prior)
             /\ Finish(p, t, prior)
             /\ UNCHANGED <<seen, mutex>>
          \/ /\ mem[p][u] # Leaf(prior) /\ existing \notin Result
             /\ Lock(p, t)
             /\ Goto(p, t, "truncate")
             /\ UNCHANGED <<stack, held, seen, got>>
          \/ /\ mem[p][u] # Leaf(prior) /\ existing \in Result
             /\ Lock(p, t)
             /\ seen' = [seen EXCEPT ![p][t] = existing]
             /\ Goto(p, t, "fresh")
             /\ UNCHANGED <<stack, held, got>>
  BY DEF RecordLeaf, u
<1>6. CASE mem[p][u] = Leaf(prior) /\ Finish(p, t, prior) /\ UNCHANGED <<seen, mutex>>
  BY <1>4, <1>6 DEF u
<1>7. CASE /\ mem[p][u] # Leaf(prior) /\ existing \notin Result
           /\ Lock(p, t)
           /\ Goto(p, t, "truncate")
           /\ UNCHANGED <<stack, held, seen, got>>
  BY <1>3, <1>7 DEF u
<1>8. CASE /\ mem[p][u] # Leaf(prior) /\ existing \in Result
           /\ Lock(p, t)
           /\ seen' = [seen EXCEPT ![p][t] = existing]
           /\ Goto(p, t, "fresh")
           /\ UNCHANGED <<stack, held, got>>
  <2>1. existing = file[u]
    BY <1>3, <1>8
  <2> QED
    BY <2>1, <1>8 DEF u
<1> QED
  BY <1>5, <1>6, <1>7, <1>8

\* Only record_leaf goes on to read the state file again, with an artifact seen.
LEMMA FreshLemma ==
    ASSUME TypeOK, ThreadsInv, NEW p \in Proc, NEW t \in Root, Thread(p, t), pc'[p][t] = "fresh"
    PROVE  /\ RecordLeaf(p, t) /\ file[Current(p, t)] \in Result
           /\ stack' = stack /\ seen'[p][t] = file[Current(p, t)]
<1>1. ASSUME NEW n \in Pc, Goto(p, t, n) PROVE n = "fresh"
  BY <1>1, GotoLemma
<1>2. ASSUME NEW r \in Result \cup {None}, pc[p][t] \notin {"idle", "failed"}, Finish(p, t, r)
      PROVE  FALSE
  BY <1>2, FinishLemma
<1>3. ~Descend(p, t)
  BY <1>1 DEF Descend, Pc
<1> USE <1>1, <1>2, <1>3 DEF Pc
<1>4. ~Reuse(p, t)
  BY ReuseLemma DEF Reuse
<1>5. ~ReuseSplit(p, t)
  BY DEF ReuseSplit
<1>6. ~Call(p, t)
  BY DEF Call
<1>7. ~RecordSplit(p, t)
  BY DEF RecordSplit
<1>8. ~ReadFresh(p, t)
  BY DEF ReadFresh, ThreadsInv
<1>9. ~Truncate(p, t) /\ ~Fill(p, t) /\ ~WriteFails(p, t) /\ ~DecodeFails(p, t)
  BY DEF Truncate, Fill, WriteFails, DecodeFails
<1>10. ~Persist(p, t)
  BY DEF Persist, ThreadsInv, Holding
<1>11. RecordLeaf(p, t)
  BY <1>4, <1>5, <1>6, <1>7, <1>8, <1>9, <1>10 DEF Thread
<1>12. pc[p][t] = "respond"
  BY <1>11 DEF RecordLeaf
<1>13. /\ file[Current(p, t)] \in Result /\ stack' = stack
       /\ seen' = [seen EXCEPT ![p][t] = file[Current(p, t)]]
  BY <1>11, <1>12, RecordLeafLemma
<1> QED
  BY <1>11, <1>13 DEF TypeOK

\* Files change in two steps only, and are never removed.
LEMMA FileLemma ==
    ASSUME TypeOK, ThreadsInv, NEW p \in Proc, NEW t \in Root, Thread(p, t), file' # file
    PROVE  /\ pc[p][t] \in Writing /\ Current(p, t) \in Unit
           /\ file'[Current(p, t)] \in Result \cup {Torn}
           /\ \A u \in Unit : u # Current(p, t) => file'[u] = file[u]
<1>1. Truncate(p, t) \/ Fill(p, t)
  BY DEF Thread, Reuse, ReuseSplit, Call, RecordSplit, RecordLeaf, ReadFresh, Persist,
         WriteFails, DecodeFails, files
<1>2. pc[p][t] \in Writing /\ Current(p, t) \in Unit
  BY <1>1, CurrentLemma DEF Truncate, Fill, Writing
<1> QED
  BY <1>1, <1>2 DEF Truncate, Fill, TypeOK, ThreadsInv, Holding, Writing

\* What a step of a thread does to the index of its run.
LEMMA MemLemma ==
    ASSUME TypeOK, ThreadsInv, NEW p \in Proc, NEW t \in Root, Thread(p, t)
    PROVE  \/ mem' = mem
           \/ mem' = [mem EXCEPT ![p] = disk]
           \/ Remember(p, Current(p, t), Split)
           \/ Remember(p, Current(p, t), Leaf(seen[p][t])) /\ pc[p][t] = "fresh"
           \/ Remember(p, Current(p, t), Leaf(held[p][t])) /\ Fill(p, t)
BY DEF Thread, Reuse, ReuseSplit, Call, RecordSplit, RecordLeaf, ReadFresh, Persist,
       WriteFails, DecodeFails, Truncate, Fill

\* The state file becomes the index of the run, or stays.
LEMMA DiskLemma ==
    ASSUME NEW p \in Proc, NEW t \in Root, Thread(p, t)
    PROVE  disk' = disk \/ (disk' = mem'[p] /\ file' = file)
BY DEF Thread, Reuse, ReuseSplit, Call, RecordSplit, RecordLeaf, ReadFresh, Persist,
       WriteFails, DecodeFails, Truncate, Fill, files

\* Only an artifact that is missing or torn, or read so, is written.
LEMMA WritingLemma ==
    ASSUME TypeOK, ThreadsInv, NEW p \in Proc, NEW t \in Root, Thread(p, t),
           pc'[p][t] \in Writing, Head(stack'[p][t]) \notin Unreadable
    PROVE  file'[Head(stack'[p][t])] \notin Result
<1>1. ASSUME NEW n \in Pc, Goto(p, t, n) PROVE n \in Writing
  BY <1>1, GotoLemma
<1>2. ASSUME NEW r \in Result \cup {None}, pc[p][t] \notin {"idle", "failed"}, Finish(p, t, r)
      PROVE  FALSE
  BY <1>2, FinishLemma DEF Writing
<1>3. ~Descend(p, t)
  BY <1>1 DEF Descend, Pc, Writing
<1> USE <1>1, <1>2, <1>3 DEF Pc, Writing
<1>4. ~Reuse(p, t)
  BY ReuseLemma DEF Reuse
<1>5. ~ReuseSplit(p, t) /\ ~Call(p, t) /\ ~RecordSplit(p, t)
  BY DEF ReuseSplit, Call, RecordSplit
<1>6. /\ ~ReadFresh(p, t) /\ ~Fill(p, t) /\ ~WriteFails(p, t) /\ ~Persist(p, t)
      /\ ~DecodeFails(p, t)
  BY DEF ReadFresh, Fill, WriteFails, DecodeFails, Persist, ThreadsInv, Holding
<1>7. CASE RecordLeaf(p, t)
  BY <1>7, RecordLeafLemma DEF RecordLeaf, Current, files
<1>8. CASE Truncate(p, t)
  BY <1>8, CurrentLemma, EntryLemma DEF Truncate, Current, TypeOK
<1> QED
  BY <1>4, <1>5, <1>6, <1>7, <1>8 DEF Thread

\* No entry without a file survives any step, whoever runs and is killed.
LEMMA ArtifactStep ==
    TypeOK /\ ThreadsInv /\ ArtifactInv /\ [Next]_vars => ArtifactInv'
<1> SUFFICES ASSUME TypeOK, ThreadsInv, ArtifactInv, [Next]_vars PROVE ArtifactInv'
    OBVIOUS
<1>1. ASSUME NEW p \in Proc, Start(p) PROVE ArtifactInv'
  <2>1. \A q \in Proc, u \in Unit :
           mem'[q][u] = mem[q][u] \/ mem'[q][u] = disk[u] \/ mem'[q][u] = NoEntry
    BY <1>1, StartLemma
  <2>2. \A q \in Proc, u \in Unit : mem'[q][u].status = "succeeded" => file[u] # None
    BY <2>1, EntryLemma DEF ArtifactInv, EntryHasArtifact
  <2> QED
    BY <1>1, <2>2 DEF Start, ArtifactInv, EntryHasArtifact, TypeOK, files, Current
<1>2. ASSUME NEW p \in Proc, Forget(p) PROVE ArtifactInv'
  BY <1>2, EntryLemma DEF Forget, NoEntries, ArtifactInv, EntryHasArtifact, TypeOK, files, Current
<1>3. ASSUME NEW p \in Proc, NEW t \in Root, Thread(p, t) PROVE ArtifactInv'
  <2>1. \A u \in Unit : file[u] # None => file'[u] # None
    BY <1>3, FileLemma, EntryLemma
  <2>2. \A q \in Proc, u \in Unit : mem'[q][u].status = "succeeded" => file'[u] # None
    <3>1. CASE mem' = mem \/ mem' = [mem EXCEPT ![p] = disk]
      BY <3>1, <2>1 DEF ArtifactInv, EntryHasArtifact, TypeOK
    <3>2. ASSUME NEW e \in Entry, Remember(p, Current(p, t), e), pc[p][t] \notin {"idle", "failed"},
                 e.status = "succeeded" => file'[Current(p, t)] # None
          PROVE  \A q \in Proc, u \in Unit : mem'[q][u].status = "succeeded" => file'[u] # None
      <4>1. Current(p, t) \in Unit
        BY <3>2, CurrentLemma
      <4>2. /\ mem'[p][Current(p, t)] = e
            /\ \A q \in Proc, v \in Unit : (q # p \/ v # Current(p, t)) => mem'[q][v] = mem[q][v]
        BY <4>1, <3>2, RememberLemma
      <4> QED
        BY <4>2, <3>2, <2>1 DEF ArtifactInv
    <3>3. CASE Remember(p, Current(p, t), Split)
      <4>1. pc[p][t] \notin {"idle", "failed"} \/ mem' = mem
        BY <1>3 DEF Thread, Reuse, ReuseSplit, Call, RecordSplit, RecordLeaf, ReadFresh, Persist,
                    WriteFails, DecodeFails, Truncate, Fill
      <4> QED
        BY <4>1, <3>1, <3>2, <3>3, EntryLemma
    <3>4. CASE Remember(p, Current(p, t), Leaf(seen[p][t])) /\ pc[p][t] = "fresh"
      <4>1. seen[p][t] \in Result /\ file[Current(p, t)] # None /\ Current(p, t) \in Unit
        BY <3>4, CurrentLemma DEF ThreadsInv, ArtifactInv
      <4> QED
        BY <4>1, <3>2, <3>4, <2>1, EntryLemma
    <3>5. CASE Remember(p, Current(p, t), Leaf(held[p][t])) /\ Fill(p, t)
      <4>1. held[p][t] \in Result /\ pc[p][t] = "fill"
        BY <3>5 DEF Fill, ThreadsInv, Holding, Writing
      <4>2. file'[Current(p, t)] = held[p][t]
        BY <3>5, <4>1, CurrentLemma DEF Fill, TypeOK
      <4> QED
        BY <4>1, <4>2, <3>2, <3>5, EntryLemma
    <3> QED
      BY <1>3, <3>1, <3>3, <3>4, <3>5, MemLemma
  <2>3. \A u \in Unit : disk'[u].status = "succeeded" => file'[u] # None
    BY <1>3, <2>1, <2>2, DiskLemma DEF ArtifactInv, EntryHasArtifact
  <2>4. ASSUME NEW q \in Proc, NEW x \in Root, pc'[q][x] = "fresh"
        PROVE  file'[Head(stack'[q][x])] # None
    <3>1. CASE q = p /\ x = t
      BY <3>1, <2>4, <1>3, <2>1, FreshLemma, CurrentLemma, EntryLemma DEF RecordLeaf, Current
    <3>2. CASE q # p \/ x # t
      <4>1. pc[q][x] = "fresh" /\ stack'[q][x] = stack[q][x]
        BY <3>2, <2>4, <1>3, FrameLemma DEF Elsewhere
      <4>2. Current(q, x) \in Unit /\ file[Current(q, x)] # None
        BY <4>1, CurrentLemma DEF ArtifactInv
      <4> QED
        BY <4>1, <4>2, <2>1 DEF Current
    <3> QED
      BY <3>1, <3>2
  <2> QED
    BY <2>2, <2>3, <2>4 DEF ArtifactInv, EntryHasArtifact, Current
<1>4. CASE UNCHANGED vars
  BY <1>4 DEF vars, ArtifactInv, EntryHasArtifact, Current
<1> QED
  BY <1>1, <1>2, <1>3, <1>4 DEF Next, End, Crash

\* The index on disk never lists a leaf that has no artifact file, however
\* many runs share the directory and whoever is killed when.
THEOREM IndexNeverRunsAhead == Spec => []EntryHasArtifact
<1>1. Init => TypeOK /\ ThreadsInv
  BY EntryLemma DEF Init, NoEntries, TypeOK, ThreadsInv, Blank, Pc, Holding, Writing
<1>2. Init => ArtifactInv
  BY EntryLemma DEF Init, NoEntries, ArtifactInv, EntryHasArtifact, Blank
<1>3. ArtifactInv => EntryHasArtifact
  BY DEF ArtifactInv
<1> QED
  BY <1>1, <1>2, <1>3, ThreadsStep, ArtifactStep, PTL DEF Spec

\* The lock is taken free and given back by its holder.
LEMMA MutexLemma ==
    ASSUME TypeOK, ThreadsInv, NEW p \in Proc, NEW t \in Root, Thread(p, t)
    PROVE  /\ mutex' = mutex \/ Lock(p, t) \/ (Unlock(p) /\ pc[p][t] \in Holding)
           /\ pc'[p][t] \in Holding =>
                 Lock(p, t) \/ (mutex' = mutex /\ pc[p][t] \in Holding)
<1>1. mutex' = mutex \/ Lock(p, t) \/ (Unlock(p) /\ pc[p][t] \in Holding)
  BY DEF Thread, Reuse, ReuseSplit, Call, RecordSplit, RecordLeaf, ReadFresh, Persist,
         WriteFails, DecodeFails, Truncate, Fill, Holding, Writing
<1>2. ASSUME pc'[p][t] \in Holding
      PROVE  Lock(p, t) \/ (mutex' = mutex /\ pc[p][t] \in Holding)
  <2>1. ASSUME NEW n \in Pc, Goto(p, t, n) PROVE n \in Holding
    BY <1>2, <2>1, GotoLemma
  <2>2. ASSUME NEW r \in Result \cup {None}, pc[p][t] \notin {"idle", "failed"}, Finish(p, t, r)
        PROVE  FALSE
    BY <1>2, <2>2, FinishLemma DEF Holding, Writing
  <2>3. ~Descend(p, t)
    BY <2>1 DEF Descend, Pc, Holding, Writing
  <2> USE <2>1, <2>2, <2>3 DEF Pc, Holding, Writing
  <2>4. ~Reuse(p, t)
    BY ReuseLemma DEF Reuse
  <2>5. ~ReuseSplit(p, t) /\ ~Call(p, t) /\ ~RecordSplit(p, t)
    BY DEF ReuseSplit, Call, RecordSplit
  <2>6. ~Persist(p, t) /\ ~WriteFails(p, t) /\ ~DecodeFails(p, t)
    BY DEF Persist, WriteFails, DecodeFails, ThreadsInv
  <2>7. CASE RecordLeaf(p, t)
    <3>1. pc[p][t] \notin {"idle", "failed"}
      BY <2>7 DEF RecordLeaf
    <3> QED
      BY <2>7, <3>1, RecordLeafLemma
  <2>8. CASE ReadFresh(p, t)
    BY <2>8 DEF ReadFresh, ThreadsInv
  <2>9. CASE Truncate(p, t) \/ Fill(p, t)
    BY <2>9 DEF Truncate, Fill
  <2> QED
    BY <2>4, <2>5, <2>6, <2>7, <2>8, <2>9 DEF Thread
<1> QED
  BY <1>1, <1>2

\* A run that is not active does nothing.
LEMMA ActiveLemma ==
    ASSUME ExclusionInv, NEW p \in Proc, NEW t \in Root, Thread(p, t)
    PROVE  p \in active
<1>1. pc[p][t] # "idle"
  BY DEF Thread, Reuse, ReuseSplit, Call, RecordSplit, RecordLeaf, ReadFresh, Persist,
         WriteFails, DecodeFails, Truncate, Fill
<1> QED
  BY <1>1 DEF ExclusionInv

LEMMA ExclusionStep ==
    ASSUME ~MayOverlap
    PROVE  TypeOK /\ ThreadsInv /\ ExclusionInv /\ [Next]_vars => ExclusionInv'
<1> SUFFICES ASSUME TypeOK, ThreadsInv, ExclusionInv, [Next]_vars PROVE ExclusionInv'
    OBVIOUS
<1>1. ASSUME NEW p \in Proc, Start(p) PROVE ExclusionInv'
  BY <1>1 DEF Start, ExclusionInv, TypeOK, Holding, Writing
<1>2. ASSUME NEW p \in Proc, Forget(p) PROVE ExclusionInv'
  BY <1>2 DEF Forget, ExclusionInv, TypeOK, Holding, Writing
<1>3. ASSUME NEW p \in Proc, NEW t \in Root, Thread(p, t) PROVE ExclusionInv'
  <2>1. active' = active /\ p \in active /\ Elsewhere(pc, pc', p, t)
    BY <1>3, FrameLemma, ActiveLemma
  <2>2. ASSUME NEW q \in Proc, NEW x \in Root, pc'[q][x] \in Holding PROVE mutex'[q] = x
    <3>1. CASE q = p /\ x = t
      BY <3>1, <2>2, <1>3, MutexLemma DEF Lock, TypeOK, ExclusionInv
    <3>2. CASE q # p \/ x # t
      <4>1. pc[q][x] \in Holding /\ mutex[q] = x /\ x # None
        BY <3>2, <2>1, <2>2, RootAssumption DEF Elsewhere, ExclusionInv
      <4>2. CASE q # p
        <5>1. mutex' = mutex \/ Lock(p, t) \/ Unlock(p)
          BY <1>3, MutexLemma
        <5> QED
          BY <4>1, <4>2, <5>1 DEF Lock, Unlock, TypeOK
      <4>3. CASE q = p
        BY <4>1, <4>3, <3>2, <1>3, MutexLemma DEF Lock, ExclusionInv
      <4> QED
        BY <4>2, <4>3
    <3> QED
      BY <3>1, <3>2
  <2>3. \A q \in Proc \ active, x \in Root : pc'[q][x] = "idle"
    BY <2>1 DEF Elsewhere, ExclusionInv
  <2> QED
    BY <2>1, <2>2, <2>3 DEF ExclusionInv
<1>4. CASE UNCHANGED vars
  BY <1>4 DEF vars, ExclusionInv
<1> QED
  BY <1>1, <1>2, <1>3, <1>4 DEF Next, End, Crash

\* The holder of the lock is alone: no other thread of any run is writing or
\* has looked at an artifact.
LEMMA AloneLemma ==
    ASSUME ExclusionInv, NEW p \in Proc, NEW t \in Root, pc[p][t] \in Holding,
           NEW q \in Proc, NEW x \in Root, pc[q][x] \in Holding
    PROVE  q = p /\ x = t
<1>1. p \in active /\ q \in active
  BY DEF ExclusionInv, Holding, Writing
<1> QED
  BY <1>1 DEF ExclusionInv

\* Where runs do not overlap, a valid artifact is never touched, and both
\* indexes go on describing the artifacts.
LEMMA MatchStep ==
    TypeOK /\ ThreadsInv /\ ExclusionInv /\ MatchInv /\ ExclusionInv' /\ [Next]_vars
        => MatchInv' /\ \A u \in Unit \ Unreadable : file[u] \in Result => file'[u] = file[u]
<1> DEFINE Stays == \A u \in Unit \ Unreadable : file[u] \in Result => file'[u] = file[u]
<1> SUFFICES ASSUME TypeOK, ThreadsInv, ExclusionInv, MatchInv, ExclusionInv', [Next]_vars
             PROVE  MatchInv' /\ Stays
    OBVIOUS
<1>1. ASSUME NEW p \in Proc, Start(p) PROVE MatchInv' /\ Stays
  <2>1. \A q \in Proc, u \in Unit :
           mem'[q][u] = mem[q][u] \/ mem'[q][u] = disk[u] \/ mem'[q][u] = NoEntry
    BY <1>1, StartLemma
  <2>2. \A q \in Proc, u \in Unit \ Unreadable :
           mem'[q][u].status = "succeeded" => file[u] = mem'[q][u].result
    BY <2>1, EntryLemma DEF MatchInv, EntryMatchesArtifact
  <2> QED
    BY <1>1, <2>2 DEF Start, MatchInv, EntryMatchesArtifact, TypeOK, files, Current, Writing
<1>2. ASSUME NEW p \in Proc, Forget(p) PROVE MatchInv' /\ Stays
  BY <1>2, EntryLemma DEF Forget, NoEntries, MatchInv, EntryMatchesArtifact, TypeOK, files, Current, Writing
<1>3. ASSUME NEW p \in Proc, NEW t \in Root, Thread(p, t) PROVE MatchInv' /\ Stays
  <2>1. Stays
    BY <1>3, FileLemma DEF MatchInv
  <2>2. \A q \in Proc, u \in Unit \ Unreadable :
           mem'[q][u].status = "succeeded" => file'[u] = mem'[q][u].result
    <3>1. CASE mem' = mem \/ mem' = [mem EXCEPT ![p] = disk]
      <4>1. \A q \in Proc, u \in Unit : mem[q][u] \in Entry /\ disk[u] \in Entry
        BY DEF TypeOK
      <4>2. \A q \in Proc, u \in Unit : mem'[q][u] = mem[q][u] \/ mem'[q][u] = disk[u]
        BY <3>1 DEF TypeOK
      <4> QED
        BY <4>1, <4>2, <2>1, EntryLemma DEF MatchInv, EntryMatchesArtifact
    <3>2. ASSUME NEW e \in Entry, Remember(p, Current(p, t), e), pc[p][t] \notin {"idle", "failed"},
                 e.status = "succeeded" /\ Current(p, t) \notin Unreadable =>
                     file'[Current(p, t)] = e.result
          PROVE  \A q \in Proc, u \in Unit \ Unreadable :
                    mem'[q][u].status = "succeeded" => file'[u] = mem'[q][u].result
      <4>1. Current(p, t) \in Unit
        BY <3>2, CurrentLemma
      <4>2. /\ mem'[p][Current(p, t)] = e
            /\ \A q \in Proc, v \in Unit : (q # p \/ v # Current(p, t)) => mem'[q][v] = mem[q][v]
        BY <4>1, <3>2, RememberLemma
      <4>3. \A q \in Proc, u \in Unit : mem[q][u] \in Entry
        BY DEF TypeOK
      <4> QED
        BY <4>2, <4>3, <3>2, <2>1, EntryLemma DEF MatchInv
    <3>3. CASE Remember(p, Current(p, t), Split)
      <4>1. pc[p][t] \notin {"idle", "failed"} \/ mem' = mem
        BY <1>3 DEF Thread, Reuse, ReuseSplit, Call, RecordSplit, RecordLeaf, ReadFresh, Persist,
                    WriteFails, DecodeFails, Truncate, Fill
      <4> QED
        BY <4>1, <3>1, <3>2, <3>3, EntryLemma
    <3>4. CASE Remember(p, Current(p, t), Leaf(seen[p][t])) /\ pc[p][t] = "fresh"
      <4>1. /\ seen[p][t] \in Result /\ Current(p, t) \in Unit
            /\ Current(p, t) \notin Unreadable => file[Current(p, t)] = seen[p][t]
        BY <3>4, CurrentLemma DEF ThreadsInv, MatchInv
      <4> QED
        BY <4>1, <3>2, <3>4, <2>1, EntryLemma
    <3>5. CASE Remember(p, Current(p, t), Leaf(held[p][t])) /\ Fill(p, t)
      <4>1. held[p][t] \in Result /\ pc[p][t] = "fill"
        BY <3>5 DEF Fill, ThreadsInv, Holding, Writing
      <4>2. file'[Current(p, t)] = held[p][t]
        BY <3>5, <4>1, CurrentLemma DEF Fill, TypeOK
      <4> QED
        BY <4>1, <4>2, <3>2, <3>5, EntryLemma
    <3> QED
      BY <1>3, <3>1, <3>3, <3>4, <3>5, MemLemma
  <2>3. \A u \in Unit \ Unreadable : disk'[u].status = "succeeded" => file'[u] = disk'[u].result
    <3>1. \A u \in Unit : disk[u] \in Entry
      BY DEF TypeOK
    <3> QED
      BY <1>3, <3>1, <2>1, <2>2, DiskLemma, EntryLemma DEF MatchInv, EntryMatchesArtifact
  <2>4. ASSUME NEW q \in Proc, NEW x \in Root, pc'[q][x] = "fresh",
               Head(stack'[q][x]) \notin Unreadable
        PROVE  seen'[q][x] = file'[Head(stack'[q][x])]
    <3>1. CASE q = p /\ x = t
      BY <3>1, <2>4, <1>3, <2>1, FreshLemma, CurrentLemma DEF RecordLeaf, Current
    <3>2. CASE q # p \/ x # t
      <4>1. /\ pc[q][x] = "fresh" /\ stack'[q][x] = stack[q][x]
            /\ seen'[q][x] = seen[q][x]
        BY <3>2, <2>4, <1>3, FrameLemma DEF Elsewhere
      <4>2. Current(q, x) \in Unit \ Unreadable
        BY <4>1, <2>4, CurrentLemma DEF Current
      <4>3. file[Current(q, x)] = seen[q][x] /\ seen[q][x] \in Result
        BY <4>1, <4>2 DEF MatchInv, ThreadsInv
      <4> QED
        BY <4>1, <4>2, <4>3, <2>1 DEF Current
    <3> QED
      BY <3>1, <3>2
  <2>5. ASSUME NEW q \in Proc, NEW x \in Root, pc'[q][x] \in Writing,
               Head(stack'[q][x]) \notin Unreadable
        PROVE  file'[Head(stack'[q][x])] \notin Result
    <3>1. CASE q = p /\ x = t
      BY <3>1, <2>5, <1>3, WritingLemma
    <3>2. CASE q # p \/ x # t
      <4>1. pc[q][x] \in Writing /\ stack'[q][x] = stack[q][x]
        BY <3>2, <2>5, <1>3, FrameLemma DEF Elsewhere
      <4>2. file' = file
        BY <3>2, <4>1, <1>3, FileLemma, AloneLemma DEF Holding
      <4> QED
        BY <2>5, <4>1, <4>2 DEF Current, MatchInv
    <3> QED
      BY <3>1, <3>2
  <2> QED
    BY <2>1, <2>2, <2>3, <2>4, <2>5 DEF MatchInv, EntryMatchesArtifact, Current
<1>4. CASE UNCHANGED vars
  BY <1>4 DEF vars, MatchInv, EntryMatchesArtifact, Current
<1> QED
  BY <1>1, <1>2, <1>3, <1>4 DEF Next, End, Crash

LEMMA SequentialInvariants ==
    ASSUME ~MayOverlap
    PROVE  Spec => [](TypeOK /\ ThreadsInv /\ ExclusionInv /\ MatchInv)
<1>1. Init => TypeOK /\ ThreadsInv
  BY EntryLemma DEF Init, NoEntries, TypeOK, ThreadsInv, Blank, Pc, Holding, Writing
<1>2. Init => ExclusionInv
  BY DEF Init, ExclusionInv, Blank, Holding, Writing
<1>3. Init => MatchInv
  BY EntryLemma DEF Init, NoEntries, MatchInv, EntryMatchesArtifact, Blank, Writing
<1> QED
  BY <1>1, <1>2, <1>3, ThreadsStep, ExclusionStep, MatchStep, PTL DEF Spec

\* Where runs do not overlap, every leaf the index lists has the bytes whose
\* hash the index records: it can be reused, whatever was killed, and whatever
\* reads failed but those of the artifact itself.
THEOREM IndexMatchesArtifacts ==
    ASSUME ~MayOverlap
    PROVE  Spec => []EntryMatchesArtifact
<1>1. MatchInv => EntryMatchesArtifact
  BY DEF MatchInv
<1> QED
  BY <1>1, SequentialInvariants, PTL

\* Where runs do not overlap, a valid leaf artifact is immutable, also for
\* a run that could not read the state file; the exception is the artifact of a
\* unit in Unreadable, which a failed read lets record_leaf write anew.
THEOREM ArtifactsAreImmutable ==
    ASSUME ~MayOverlap
    PROVE  Spec => LeafImmutable
<1>1. TypeOK /\ ThreadsInv /\ ExclusionInv /\ MatchInv /\ ExclusionInv' /\ [Next]_vars
        => [\A u \in Unit \ Unreadable : file[u] \in Result => file'[u] = file[u]]_vars
  BY MatchStep
<1> QED
  BY <1>1, SequentialInvariants, PTL DEF Spec, LeafImmutable

\* A thread keeps to the units split from its root.
LEMMA FamilyStep ==
    TypeOK /\ ThreadsInv /\ FamilyInv /\ [Next]_vars => FamilyInv'
<1> SUFFICES ASSUME TypeOK, ThreadsInv, FamilyInv, [Next]_vars PROVE FamilyInv'
    OBVIOUS
<1>1. ASSUME NEW p \in Proc, Start(p) PROVE FamilyInv'
  BY <1>1, RootOfAssumption DEF Start, TypeOK, FamilyInv
<1>2. ASSUME NEW p \in Proc, Forget(p) PROVE FamilyInv'
  BY <1>2 DEF Forget, TypeOK, FamilyInv
<1>3. ASSUME NEW p \in Proc, NEW t \in Root, Thread(p, t) PROVE FamilyInv'
  <2> DEFINE s == stack[p][t]
             c == Children[Head(s)]
  <2>1. pc[p][t] \notin {"idle", "failed"}
    BY <1>3 DEF Thread, Reuse, ReuseSplit, Call, RecordSplit, RecordLeaf, ReadFresh, Persist,
                WriteFails, DecodeFails, Truncate, Fill
  <2>2. s \in Seq(Unit) /\ s # <<>>
    BY <2>1 DEF TypeOK, ThreadsInv
  <2>3. \A i \in DOMAIN s : RootOf[s[i]] = t
    BY SMTT(30) DEF FamilyInv
  <2>4. stack' = stack \/ stack' = [stack EXCEPT ![p][t] = Tail(s)]
          \/ stack' = [stack EXCEPT ![p][t] = c \o Tail(s)]
    BY <1>3, ZenonT(30) DEF Thread, Reuse, ReuseSplit, Call, RecordSplit, RecordLeaf, ReadFresh, Persist,
                WriteFails, DecodeFails, Truncate, Fill, Finish, Descend, Current
  <2> HIDE DEF s
  <2>5. Head(s) \in Unit /\ RootOf[Head(s)] = t /\ \A i \in DOMAIN Tail(s) : RootOf[Tail(s)[i]] = t
    <3>1. Len(s) \in Nat \ {0} /\ DOMAIN s = 1..Len(s) /\ Head(s) = s[1]
      BY <2>2
    <3>2. Len(Tail(s)) = Len(s) - 1 /\ Tail(s) \in Seq(Unit)
      BY <2>2, HeadTailProperties
    <3>3. \A i \in 1..Len(Tail(s)) : Tail(s)[i] = s[i + 1] /\ i + 1 \in DOMAIN s
      BY <2>2, <3>1, <3>2
    <3>4. DOMAIN Tail(s) = 1..Len(Tail(s))
      BY <3>2
    <3> QED
      BY <2>2, <2>3, <3>1, <3>3, <3>4
  <2>6. c \in Seq(Unit) /\ Tail(s) \in Seq(Unit) /\ \A i \in DOMAIN c : RootOf[c[i]] = t
    BY <2>2, <2>5, ChildrenAssumption, RootOfAssumption
  <2> HIDE DEF c
  <2>7. \A i \in DOMAIN (c \o Tail(s)) : RootOf[(c \o Tail(s))[i]] = t
    <3> DEFINE r == Tail(s)
    <3>1. r \in Seq(Unit) /\ \A i \in DOMAIN r : RootOf[r[i]] = t
      BY <2>5, <2>6
    <3> HIDE DEF r
    <3>2. /\ DOMAIN (c \o r) = 1..(Len(c) + Len(r)) /\ Len(c) \in Nat /\ Len(r) \in Nat
          /\ \A i \in 1..(Len(c) + Len(r)) : (c \o r)[i] = IF i <= Len(c) THEN c[i] ELSE r[i - Len(c)]
      BY <2>6, <3>1
    <3>3. \A i \in DOMAIN (c \o r) : RootOf[(c \o r)[i]] = t
      <4> SUFFICES ASSUME NEW i \in 1..(Len(c) + Len(r)) PROVE RootOf[(c \o r)[i]] = t
        BY <3>2
      <4>1. CASE i <= Len(c)
        BY <4>1, <3>2, <2>6
      <4>2. CASE i > Len(c)
        <5>1. i - Len(c) \in DOMAIN r /\ (c \o r)[i] = r[i - Len(c)]
          BY <4>2, <3>1, <3>2
        <5> QED
          BY <5>1, <3>1
      <4> QED
        BY <4>1, <4>2, <3>2
    <3> QED
      BY <3>3 DEF r
  <2>8. Elsewhere(stack, stack', p, t)
    BY <1>3, FrameLemma
  <2>9. \A i \in DOMAIN stack'[p][t] : RootOf[stack'[p][t][i]] = t
    <3>1. stack \in [Proc -> [Root -> Seq(Unit)]]
      BY DEF TypeOK
    <3>2. stack'[p][t] = s \/ stack'[p][t] = Tail(s) \/ stack'[p][t] = c \o Tail(s)
      BY <2>4, <3>1 DEF s
    <3> QED
      BY <3>2, <2>3, <2>5, <2>7
  <2> QED
    BY <2>8, <2>9 DEF FamilyInv, Elsewhere
<1>4. CASE UNCHANGED vars
  BY <1>4 DEF vars, FamilyInv
<1> QED
  BY <1>1, <1>2, <1>3, <1>4 DEF Next, End, Crash

\* The current unit of a thread under way is of its root.
LEMMA OwnLemma ==
    ASSUME TypeOK, ThreadsInv, FamilyInv, NEW p \in Proc, NEW t \in Root,
           pc[p][t] \notin {"idle", "failed"}
    PROVE  Current(p, t) \in Unit /\ RootOf[Current(p, t)] = t
<1>1. stack[p][t] \in Seq(Unit) /\ stack[p][t] # <<>>
  BY DEF TypeOK, ThreadsInv
<1>2. 1 \in DOMAIN stack[p][t] /\ Head(stack[p][t]) = stack[p][t][1]
  BY <1>1
<1> QED
  BY <1>2, CurrentLemma DEF FamilyInv, Current

\* An entry that is neither a leaf nor a split is none.
LEMMA KindLemma ==
    /\ \A e \in Entry : e.status # "succeeded" /\ e.status # "split" => e = NoEntry
    /\ \A e \in Entry : e.status = "split" <=> e = Split
    /\ NoEntry # Split /\ \A r : Leaf(r) # NoEntry /\ Leaf(r) # Split
    /\ NoEntry.status = "none"
<1>1. NoEntry.status = "none" /\ Split.status = "split" /\ \A r : Leaf(r).status = "succeeded"
  BY DEF NoEntry, Split, Leaf
<1>2. \A e \in Entry : e = NoEntry \/ e = Split \/ \E r \in Result : e = Leaf(r)
  BY DEF Entry
<1>3. ASSUME NEW e \in Entry
      PROVE  /\ e.status # "succeeded" /\ e.status # "split" => e = NoEntry
             /\ e.status = "split" <=> e = Split
  <2>1. CASE e = NoEntry
    BY <1>1, <2>1
  <2>2. CASE e = Split
    BY <1>1, <2>2
  <2>3. CASE \E r \in Result : e = Leaf(r)
    BY <1>1, <2>3
  <2> QED
    BY <1>2, <2>1, <2>2, <2>3
<1>4. NoEntry # Split /\ \A r : Leaf(r) # NoEntry /\ Leaf(r) # Split
  BY <1>1
<1> QED
  BY <1>1, <1>3, <1>4

\* CurrentInv of one thread.
AtUnit(p, t) ==
    /\ pc[p][t] = "persist" => mem[p][Current(p, t)] = Leaf(held[p][t])
    /\ pc[p][t] \notin {"idle", "failed", "reuse"} /\ Current(p, t) \notin Unreadable =>
          got[p][Current(p, t)] = None
    /\ pc[p][t] = "reuse_split" /\ p \notin blind /\ Current(p, t) \notin Unreadable =>
          mem[p][Current(p, t)].status # "succeeded"
    /\ /\ pc[p][t] \in {"call", "respond", "fresh"} \cup Writing
       /\ p \notin blind /\ Current(p, t) \notin Unreadable
       => mem[p][Current(p, t)] = NoEntry

\* What a thread at unit u must see to, h being the unit it goes on with.
KeptAt(p, t, u, h) ==
    /\ \A q \in Proc, v \in Unit : q # p \/ v # u => mem'[q][v] = mem[q][v]
    /\ \A q \in Proc, v \in Unit : q # p \/ v # u => got'[q][v] = got[q][v]
    /\ disk' = disk \/ disk' = mem'[p]
    /\ mem'[p][u] = Split => Children[u] # <<>>
    /\ disk'[u] # NoEntry /\ p \notin blind /\ u \notin Unreadable => mem'[p][u] = disk'[u]
    /\ mem'[p][u] \notin {disk'[u], NoEntry} =>
          \/ pc'[p][t] = "failed"
          \/ pc'[p][t] = "persist" /\ h = u
    /\ got'[p][u] # None /\ u \notin Unreadable =>
          disk'[u] = Leaf(got'[p][u]) /\ mem'[p][u] = Leaf(got'[p][u])
    /\ pc'[p][t] = "persist" => mem'[p][h] = Leaf(held'[p][t])
    /\ pc'[p][t] \notin {"idle", "failed", "reuse"} /\ h \notin Unreadable => got'[p][h] = None
    /\ pc'[p][t] = "reuse_split" /\ p \notin blind /\ h \notin Unreadable =>
          mem'[p][h].status # "succeeded"
    /\ /\ pc'[p][t] \in {"call", "respond", "fresh"} \cup Writing
       /\ p \notin blind /\ h \notin Unreadable
       => mem'[p][h] = NoEntry

Kept(p, t, u) == KeptAt(p, t, u, Head(stack'[p][t]))

\* The rest follows, since a thread touches no other unit and no other thread
\* touches its own.
LEMMA OthersLemma ==
    ASSUME TypeOK, ThreadsInv, ExclusionInv, FamilyInv, SplitInv, IndexInv, CurrentInv,
           NEW p \in Proc, NEW t \in Root, NEW u \in Unit,
           p \in active, active' = active, blind' = blind, u = Current(p, t), RootOf[u] = t,
           pc[p][t] \notin {"idle", "failed"},
           Elsewhere(pc, pc', p, t), Elsewhere(stack, stack', p, t), Elsewhere(held, held', p, t),
           Kept(p, t, u)
    PROVE  (SplitInv /\ IndexInv /\ CurrentInv)'
<1>1. SplitInv'
  <2>1. \A q \in Proc, v \in Unit : mem'[q][v] = Split => Children[v] # <<>>
    BY DEF SplitInv, Kept, KeptAt
  <2>2. disk' = disk \/ disk' = mem'[p]
    BY DEF Kept, KeptAt
  <2> QED
    BY <2>1, <2>2 DEF SplitInv
<1>2. ASSUME NEW q \in active, NEW v \in Unit
      PROVE  /\ disk'[v] # NoEntry /\ q \notin blind /\ v \notin Unreadable =>
                   mem'[q][v] = disk'[v]
             /\ mem'[q][v] \notin {disk'[v], NoEntry} =>
                   \E x \in Root : /\ RootOf[v] = x
                                   /\ \/ pc'[q][x] = "failed"
                                      \/ pc'[q][x] = "persist" /\ Head(stack'[q][x]) = v
             /\ got'[q][v] # None /\ v \notin Unreadable =>
                   disk'[v] = Leaf(got'[q][v]) /\ mem'[q][v] = Leaf(got'[q][v])
  <2>1. q = p
    BY DEF ExclusionInv
  <2>2. CASE v = u
    BY <2>1, <2>2 DEF Kept, KeptAt
  <2>3. CASE v # u
    <3>1. mem'[p][v] = mem[p][v] /\ got'[p][v] = got[p][v] /\ (disk'[v] = disk[v] \/ disk'[v] = mem[p][v])
      BY <2>3 DEF Kept, KeptAt
    <3>2. /\ disk[v] # NoEntry /\ p \notin blind /\ v \notin Unreadable => mem[p][v] = disk[v]
          /\ got[p][v] # None /\ v \notin Unreadable =>
                disk[v] = Leaf(got[p][v]) /\ mem[p][v] = Leaf(got[p][v])
      BY DEF IndexInv
    <3>3. ASSUME mem'[p][v] \notin {disk'[v], NoEntry}
          PROVE  \E x \in Root : /\ RootOf[v] = x
                                 /\ \/ pc'[p][x] = "failed"
                                    \/ pc'[p][x] = "persist" /\ Head(stack'[p][x]) = v
      <4>1. mem[p][v] \notin {disk[v], NoEntry}
        BY <3>1, <3>3
      <4>2. PICK x \in Root : /\ RootOf[v] = x
                              /\ \/ pc[p][x] = "failed"
                                 \/ pc[p][x] = "persist" /\ Current(p, x) = v
        BY <4>1 DEF IndexInv
      <4>3. x # t
        BY <4>2, <2>3
      <4>4. pc'[p][x] = pc[p][x] /\ stack'[p][x] = stack[p][x]
        BY <4>3 DEF Elsewhere
      <4> QED
        BY <4>2, <4>4 DEF Current
    <3>4. /\ disk'[v] # NoEntry /\ p \notin blind /\ v \notin Unreadable =>
                mem'[p][v] = disk'[v]
          /\ got'[p][v] # None /\ v \notin Unreadable =>
                disk'[v] = Leaf(got'[p][v]) /\ mem'[p][v] = Leaf(got'[p][v])
      BY <3>1, <3>2
    <3> QED
      BY <2>1, <3>3, <3>4
  <2> QED
    BY <2>2, <2>3
<1>3. IndexInv'
  BY <1>2 DEF IndexInv, Current
<1>4. ASSUME NEW q \in Proc, NEW x \in Root, q # p \/ x # t
      PROVE  AtUnit(q, x)'
  <2>1. pc'[q][x] = pc[q][x] /\ stack'[q][x] = stack[q][x] /\ held'[q][x] = held[q][x]
    BY <1>4 DEF Elsewhere
  <2>2. CASE pc[q][x] \in {"idle", "failed"}
    BY <2>1, <2>2 DEF Writing, AtUnit
  <2>3. CASE pc[q][x] \notin {"idle", "failed"}
    <3>1. Current(q, x) \in Unit /\ RootOf[Current(q, x)] = x
      BY <2>3, OwnLemma
    <3>2. /\ mem'[q][Current(q, x)] = mem[q][Current(q, x)]
          /\ got'[q][Current(q, x)] = got[q][Current(q, x)]
      BY <3>1, <1>4 DEF Kept, KeptAt
    <3>3. AtUnit(q, x)
      BY DEF CurrentInv, AtUnit
    <3> QED
      BY <2>1, <3>2, <3>3 DEF AtUnit, Current
  <2> QED
    BY <2>2, <2>3
<1>5. AtUnit(p, t)'
  BY DEF AtUnit, Current, Kept, KeptAt
<1>6. CurrentInv'
  <2>1. \A q \in Proc, x \in Root : AtUnit(q, x)'
    BY <1>4, <1>5
  <2> QED
    BY <2>1 DEF CurrentInv, AtUnit
<1> QED
  BY <1>1, <1>3, <1>6

\* A thread that takes over the state file loses nothing it has returned.
LEMMA AdoptStep ==
    ASSUME TypeOK, ThreadsInv, ExclusionInv, FamilyInv, SplitInv, IndexInv, CurrentInv,
           NEW p \in Proc, NEW t \in Root, pc[p][t] = "fresh",
           disk[Current(p, t)] = Leaf(seen[p][t]), mem' = [mem EXCEPT ![p] = disk],
           Finish(p, t, seen[p][t]), disk' = disk, active' = active, blind' = blind
    PROVE  (SplitInv /\ IndexInv /\ CurrentInv)'
<1> DEFINE u == Current(p, t)
<1>1. u \in Unit /\ RootOf[u] = t /\ seen[p][t] \in Result
  BY OwnLemma DEF ThreadsInv
<1>2. p \in active
  BY DEF ExclusionInv
<1>3. /\ Elsewhere(pc, pc', p, t) /\ Elsewhere(stack, stack', p, t)
      /\ Elsewhere(held, held', p, t)
      /\ pc'[p][t] \in {"idle", "reuse"}
  BY <1>1, FinishLemma
<1>4. /\ got'[p][u] = seen[p][t]
      /\ \A q \in Proc, v \in Unit : q # p \/ v # u => got'[q][v] = got[q][v]
  BY <1>1 DEF Finish, TypeOK
<1>5. \A q \in Proc, v \in Unit :
         /\ mem'[p][v] = disk[v]
         /\ q # p => mem'[q][v] = mem[q][v]
  BY DEF TypeOK
<1>6. disk[u] = Leaf(seen[p][t])
  OBVIOUS
<1> HIDE DEF u
<1>7. SplitInv'
  BY <1>5 DEF SplitInv
<1>8. \A q \in active : q = p
  BY <1>2 DEF ExclusionInv
<1>9. IndexInv'
  <2>1. ASSUME NEW v \in Unit, v \notin Unreadable, got'[p][v] # None
        PROVE  disk'[v] = Leaf(got'[p][v]) /\ mem'[p][v] = Leaf(got'[p][v])
    <3>1. CASE v = u
      BY <1>4, <1>5, <1>6, <3>1
    <3>2. CASE v # u
      BY <1>2, <1>4, <1>5, <2>1, <3>2 DEF IndexInv
    <3> QED
      BY <3>1, <3>2
  <2> QED
    BY <1>5, <1>8, <2>1 DEF IndexInv
<1>10. ASSUME NEW q \in Proc, NEW x \in Root, q # p \/ x # t
       PROVE  AtUnit(q, x)'
  <2>1. pc'[q][x] = pc[q][x] /\ stack'[q][x] = stack[q][x] /\ held'[q][x] = held[q][x]
    BY <1>3, <1>10 DEF Elsewhere
  <2>2. CASE pc[q][x] \in {"idle", "failed"}
    BY <2>1, <2>2 DEF Writing, AtUnit
  <2>3. CASE pc[q][x] \notin {"idle", "failed"}
    <3>1. Current(q, x) \in Unit /\ RootOf[Current(q, x)] = x
      BY <2>3, OwnLemma
    <3>2. q = p /\ x # t
      BY <1>8, <1>10, <2>3 DEF ExclusionInv
    <3>3. pc[q][x] \notin Holding
      BY <3>2, AloneLemma DEF Holding
    <3>4. got'[q][Current(q, x)] = got[q][Current(q, x)]
      BY <1>1, <1>4, <3>1, <3>2
    <3>5. /\ mem'[q][Current(q, x)] = disk[Current(q, x)]
          /\ disk[Current(q, x)] # NoEntry /\ q \notin blind /\ Current(q, x) \notin Unreadable =>
                mem[q][Current(q, x)] = disk[Current(q, x)]
      BY <1>2, <1>5, <3>1, <3>2 DEF IndexInv
    <3>6. AtUnit(q, x)
      BY DEF CurrentInv, AtUnit
    <3> DEFINE w == Current(q, x)
    <3>7. Current(q, x)' = w
      BY <2>1 DEF Current
    <3>8. pc[q][x] = "reuse_split" /\ q \notin blind /\ w \notin Unreadable =>
             mem'[q][w].status # "succeeded"
      BY <3>5, <3>6, EntryLemma DEF AtUnit
    <3>9. pc[q][x] \in {"call", "respond"} /\ q \notin blind /\ w \notin Unreadable =>
             mem'[q][w] = NoEntry
      BY <3>5, <3>6 DEF AtUnit
    <3>10. pc[q][x] \notin {"idle", "failed", "reuse"} /\ w \notin Unreadable => got'[q][w] = None
      BY <3>4, <3>6 DEF AtUnit
    <3> HIDE DEF w
    <3> QED
      BY <2>1, <3>3, <3>7, <3>8, <3>9, <3>10 DEF AtUnit, Holding, Writing
  <2> QED
    BY <2>2, <2>3
<1>11. AtUnit(p, t)'
  BY <1>3 DEF AtUnit, Writing
<1>12. CurrentInv'
  <2>1. \A q \in Proc, x \in Root : AtUnit(q, x)'
    BY <1>10, <1>11
  <2> QED
    BY <2>1 DEF CurrentInv, AtUnit
<1> QED
  BY <1>7, <1>9, <1>12

\* What is recorded is never lost sight of: every step of a thread keeps it.
LEMMA RecordStep ==
    ASSUME TypeOK, ThreadsInv, ExclusionInv, MatchInv, FamilyInv, SplitInv, IndexInv, CurrentInv,
           NEW p \in Proc, NEW t \in Root, Thread(p, t)
    PROVE  (SplitInv /\ IndexInv /\ CurrentInv)'
<1> DEFINE u == Current(p, t)
<1>1. pc[p][t] \notin {"idle", "failed"}
  BY DEF Thread, Reuse, ReuseSplit, Call, RecordSplit, RecordLeaf, ReadFresh, Persist,
         WriteFails, DecodeFails, Truncate, Fill
<1>2. u \in Unit /\ RootOf[u] = t
  BY <1>1, OwnLemma
<1>3. p \in active
  BY ActiveLemma
<1>4. mem[p][u] \in Entry /\ disk[u] \in Entry
  BY <1>2 DEF TypeOK
<1>5. /\ disk[u] # NoEntry /\ p \notin blind /\ u \notin Unreadable => mem[p][u] = disk[u]
      /\ got[p][u] # None /\ u \notin Unreadable =>
            disk[u] = Leaf(got[p][u]) /\ mem[p][u] = Leaf(got[p][u])
      /\ pc[p][t] # "persist" => mem[p][u] \in {disk[u], NoEntry}
  BY <1>1, <1>2, <1>3 DEF IndexInv
<1>6. /\ Elsewhere(pc, pc', p, t) /\ Elsewhere(stack, stack', p, t)
      /\ Elsewhere(held, held', p, t) /\ active' = active /\ blind' = blind
  BY FrameLemma
<1>7. /\ pc[p][t] = "persist" => mem[p][u] = Leaf(held[p][t])
      /\ pc[p][t] \notin {"idle", "failed", "reuse"} /\ u \notin Unreadable => got[p][u] = None
      /\ pc[p][t] = "reuse_split" /\ p \notin blind /\ u \notin Unreadable =>
            mem[p][u].status # "succeeded"
      /\ /\ pc[p][t] \in {"call", "respond", "fresh"} \cup Writing
         /\ p \notin blind /\ u \notin Unreadable
         => mem[p][u] = NoEntry
  BY DEF CurrentInv
<1>8. mem[p][u] = Split => Children[u] # <<>>
  BY <1>2 DEF SplitInv
<1>9. mem[p][u].status = "succeeded" /\ u \notin Unreadable => file[u] = mem[p][u].result
  BY <1>2 DEF MatchInv
<1>10. ASSUME NEW n \in Pc, Goto(p, t, n) PROVE pc'[p][t] = n
  BY <1>10, GotoLemma
<1>11. ASSUME NEW e \in Entry, Remember(p, u, e)
       PROVE  /\ mem'[p][u] = e
              /\ \A q \in Proc, v \in Unit : q # p \/ v # u => mem'[q][v] = mem[q][v]
  BY <1>2, <1>11, RememberLemma
<1>12. ASSUME NEW r \in Result \cup {None}, Finish(p, t, r)
       PROVE  /\ pc'[p][t] \in {"idle", "reuse"} /\ got'[p][u] = r
              /\ \A q \in Proc, v \in Unit : q # p \/ v # u => got'[q][v] = got[q][v]
  <2>1. pc'[p][t] \in {"idle", "reuse"}
    BY <1>1, <1>12, FinishLemma
  <2>2. got' = [got EXCEPT ![p][u] = r] /\ got \in [Proc -> [Unit -> Result \cup {None}]]
    BY <1>12 DEF Finish, TypeOK
  <2> QED
    BY <1>2, <2>1, <2>2
<1>13. ASSUME Descend(p, t) PROVE pc'[p][t] = "reuse"
  BY <1>13, <1>10 DEF Descend, Pc
<1> DEFINE h == Head(stack'[p][t])
<1>14. stack' = stack => h = u
  BY DEF Current
<1> DEFINE Adopts == /\ pc[p][t] = "fresh" /\ disk[u] = Leaf(seen[p][t]) /\ disk' = disk
                     /\ mem' = [mem EXCEPT ![p] = disk] /\ Finish(p, t, seen[p][t])
<1>27. CASE Adopts
  BY <1>6, <1>27, AdoptStep
<1>15. SUFFICES ASSUME ~Adopts PROVE KeptAt(p, t, u, h)
  <2>1. CASE Kept(p, t, u)
    BY <2>1, <1>1, <1>2, <1>3, <1>6, OthersLemma
  <2> QED
    BY <1>27, <2>1 DEF Kept
<1> HIDE DEF Adopts, h
<1> HIDE DEF u
<1> USE <1>1, <1>2, <1>4, <1>5, <1>7, <1>8, <1>9, <1>10, <1>14, KindLemma DEF Pc, Writing, KeptAt
<1>16. CASE Reuse(p, t)
  <2>1. PICK r \in Readings(u) :
             \/ mem[p][u] = Leaf(r) /\ r \in Result /\ Finish(p, t, r)
             \/ /\ mem[p][u] # Leaf(r) /\ Goto(p, t, "reuse_split")
                /\ UNCHANGED <<stack, held, got>>
    BY <1>16, ReuseLemma DEF u
  <2>2. UNCHANGED <<mem, disk>> /\ pc[p][t] = "reuse"
    BY <1>16 DEF Reuse, files
  <2>3. CASE mem[p][u] = Leaf(r) /\ r \in Result /\ Finish(p, t, r)
    <3>1. mem[p][u] = disk[u]
      BY <2>2, <2>3
    <3> QED
      BY <2>2, <2>3, <3>1, <1>12
  <2>4. CASE mem[p][u] # Leaf(r) /\ Goto(p, t, "reuse_split") /\ UNCHANGED <<stack, held, got>>
    <3>1. u \notin Unreadable => mem[p][u].status # "succeeded"
      <4>1. u \notin Unreadable => r = file[u]
        BY <2>1 DEF Readings
      <4> QED
        BY <2>4, <4>1, EntryLemma
    <3>2. u \notin Unreadable => got[p][u] = None
      BY <3>1 DEF Leaf
    <3> QED
      BY <2>2, <2>4, <3>1, <3>2
  <2> QED
    BY <2>1, <2>3, <2>4
<1>17. CASE ReuseSplit(p, t)
  <2>1. UNCHANGED <<mem, disk, got>> /\ pc[p][t] = "reuse_split"
    BY <1>17 DEF ReuseSplit, files
  <2>2. CASE mem[p][u].status = "split" /\ Children[u] # <<>>
    BY <1>17, <2>1, <2>2, <1>13 DEF ReuseSplit, u
  <2>3. CASE ~(mem[p][u].status = "split" /\ Children[u] # <<>>)
    <3>1. Goto(p, t, "call") /\ stack' = stack
      BY <1>17, <2>3 DEF ReuseSplit, u
    <3>2. p \notin blind /\ u \notin Unreadable => mem[p][u] = NoEntry
      BY <2>1, <2>3
    <3> QED
      BY <2>1, <3>1, <3>2
  <2> QED
    BY <2>2, <2>3
<1>18. CASE Call(p, t)
  <2>1. /\ UNCHANGED <<mem, disk, got, stack>> /\ pc[p][t] = "call"
        /\ Goto(p, t, "respond") \/ Goto(p, t, "failed")
    BY <1>18 DEF Call, files
  <2> QED
    BY <2>1
<1>19. CASE RecordSplit(p, t)
  <2>1. UNCHANGED got /\ pc[p][t] = "respond"
    BY <1>19 DEF RecordSplit
  <2>2. CASE Children[u] = <<>>
    <3>1. Goto(p, t, "failed") /\ UNCHANGED <<mem, disk, stack>>
      BY <1>19, <2>2 DEF RecordSplit, u
    <3> QED
      BY <2>1, <3>1
  <2>3. CASE Children[u] # <<>>
    <3>1. Remember(p, u, Split) /\ disk' = mem'[p] /\ Descend(p, t)
      BY <1>19, <2>3 DEF RecordSplit, u
    <3>2. /\ mem'[p][u] = Split /\ pc'[p][t] = "reuse"
          /\ \A q \in Proc, v \in Unit : q # p \/ v # u => mem'[q][v] = mem[q][v]
      BY <3>1, <1>11, <1>13, EntryLemma
    <3>3. u \notin Unreadable => got'[p][u] = None
      BY <2>1
    <3> QED
      BY <2>1, <2>3, <3>1, <3>2, <3>3
  <2> QED
    BY <2>2, <2>3
<1>20. CASE RecordLeaf(p, t)
  <2>1. UNCHANGED <<mem, disk>> /\ pc[p][t] = "respond"
    BY <1>20 DEF RecordLeaf, files
  <2>2. CASE \E r \in Result : mem[p][u] = Leaf(r) /\ Finish(p, t, r)
    <3>1. PICK r \in Result : mem[p][u] = Leaf(r) /\ Finish(p, t, r)
      BY <2>2
    <3>2. mem[p][u] = disk[u]
      BY <2>1, <3>1
    <3> QED
      BY <2>1, <3>1, <3>2, <1>12
  <2>3. CASE UNCHANGED <<got, stack>> /\ (Goto(p, t, "truncate") \/ Goto(p, t, "fresh"))
    BY <2>1, <2>3
  <2> QED
    BY <1>20, <2>2, <2>3, RecordLeafLemma DEF u
<1>21. CASE ReadFresh(p, t)
  <2>1. pc[p][t] = "fresh" /\ disk' = disk
    BY <1>21 DEF ReadFresh, files
  <2>2. seen[p][t] \in Result
    BY <2>1 DEF ThreadsInv
  <2>3. CASE /\ disk[u] = Leaf(seen[p][t]) /\ mem' = [mem EXCEPT ![p] = disk]
             /\ Finish(p, t, seen[p][t])
    BY <2>1, <2>3, <1>15 DEF Adopts
  <2>4. CASE /\ Remember(p, u, Leaf(seen[p][t])) /\ held'[p][t] = seen[p][t]
             /\ Goto(p, t, "persist") /\ UNCHANGED <<got, stack>>
    <3>1. /\ mem'[p][u] = Leaf(seen[p][t])
          /\ \A q \in Proc, v \in Unit : q # p \/ v # u => mem'[q][v] = mem[q][v]
      BY <2>2, <2>4, <1>11, EntryLemma
    <3>2. p \notin blind /\ u \notin Unreadable => disk[u] = NoEntry
      BY <2>1
    <3>3. u \notin Unreadable => got[p][u] = None
      BY <2>1
    <3> QED
      BY <2>1, <2>4, <3>1, <3>2, <3>3
  <2>5. CASE Goto(p, t, "failed") /\ UNCHANGED <<mem, got, stack>>
    BY <2>1, <2>5
  <2>6. \/ /\ disk[u] = Leaf(seen[p][t]) /\ mem' = [mem EXCEPT ![p] = disk]
           /\ Finish(p, t, seen[p][t])
        \/ /\ Remember(p, u, Leaf(seen[p][t])) /\ Carry(p, t, seen[p][t])
           /\ Goto(p, t, "persist") /\ UNCHANGED <<got, stack>>
        \/ /\ Remember(p, u, Leaf(seen[p][t])) /\ seen[p][t] = held[p][t] /\ UNCHANGED held
           /\ Goto(p, t, "persist") /\ UNCHANGED <<got, stack>>
        \/ Goto(p, t, "failed") /\ UNCHANGED <<mem, got, stack>>
    BY <1>21 DEF ReadFresh, u
  <2>7. Carry(p, t, seen[p][t]) => held'[p][t] = seen[p][t]
    BY <2>2, CarryLemma
  <2> QED
    BY <2>3, <2>4, <2>5, <2>6, <2>7
<1>22. CASE Truncate(p, t)
  <2>1. /\ Goto(p, t, "fill") /\ UNCHANGED <<mem, disk, got, stack>>
        /\ pc[p][t] = "truncate"
    BY <1>22 DEF Truncate
  <2> QED
    BY <2>1
<1>23. CASE Fill(p, t)
  <2>1. pc[p][t] = "fill" /\ held[p][t] \in Result
    BY <1>23 DEF Fill, ThreadsInv, Holding
  <2>2. /\ Remember(p, u, Leaf(held[p][t])) /\ Goto(p, t, "persist")
        /\ UNCHANGED <<disk, got, stack, held>>
    BY <1>23 DEF Fill, u
  <2>3. /\ mem'[p][u] = Leaf(held[p][t])
        /\ \A q \in Proc, v \in Unit : q # p \/ v # u => mem'[q][v] = mem[q][v]
    BY <2>1, <2>2, <1>11, EntryLemma
  <2>4. p \notin blind /\ u \notin Unreadable => disk[u] = NoEntry
    BY <2>1
  <2>5. u \notin Unreadable => got[p][u] = None
    BY <2>1
  <2> QED
    BY <2>1, <2>2, <2>3, <2>4, <2>5
<1>24. CASE Persist(p, t)
  <2>1. /\ pc[p][t] = "persist" /\ mem[p][u] = Leaf(held[p][t]) /\ held[p][t] \in Result
        /\ disk' = mem[p] /\ Finish(p, t, held[p][t]) /\ mem' = mem
    BY <1>24 DEF Persist, ThreadsInv, Holding
  <2> QED
    BY <2>1, <1>12
<1>25. CASE WriteFails(p, t)
  <2>1. Goto(p, t, "failed") /\ UNCHANGED <<disk, got, stack>>
    BY <1>25 DEF WriteFails, DecodeFails, files
  <2>2. CASE mem' = mem
    BY <2>1, <2>2
  <2>3. CASE mem' # mem
    <3>1. pc[p][t] = "respond" /\ Children[u] # <<>> /\ Remember(p, u, Split)
      BY <1>25, <2>3 DEF WriteFails, u
    <3>3. u \notin Unreadable => got[p][u] = None
      BY <3>1
    <3>4. p \notin blind /\ u \notin Unreadable => disk[u] = NoEntry
      BY <3>1
    <3>2. /\ mem'[p][u] = Split
          /\ \A q \in Proc, v \in Unit : q # p \/ v # u => mem'[q][v] = mem[q][v]
      BY <3>1, <1>11, EntryLemma
    <3> QED
      BY <2>1, <3>1, <3>2, <3>3, <3>4
  <2> QED
    BY <2>2, <2>3
<1>26. CASE DecodeFails(p, t)
  <2>1. Goto(p, t, "failed") /\ UNCHANGED <<mem, disk, got, stack>> /\ pc[p][t] # "persist"
    BY <1>26 DEF DecodeFails, files
  <2> QED
    BY <2>1
<1> QED
  BY <1>16, <1>17, <1>18, <1>19, <1>20, <1>21, <1>22, <1>23, <1>24, <1>25, <1>26
    DEF Thread

LEMMA RecordsStep ==
    TypeOK /\ ThreadsInv /\ ExclusionInv /\ MatchInv /\ FamilyInv /\ SplitInv /\ IndexInv
        /\ CurrentInv /\ ExclusionInv' /\ [Next]_vars => (SplitInv /\ IndexInv /\ CurrentInv)'
<1> SUFFICES ASSUME TypeOK, ThreadsInv, ExclusionInv, MatchInv, FamilyInv, SplitInv, IndexInv,
                    CurrentInv, ExclusionInv', [Next]_vars
             PROVE  (SplitInv /\ IndexInv /\ CurrentInv)'
    OBVIOUS
<1>1. ASSUME NEW p \in Proc, Start(p) PROVE (SplitInv /\ IndexInv /\ CurrentInv)'
  <2>0. p \notin blind
    BY <1>1 DEF Start, TypeOK
  <2>1. /\ p \in active' /\ disk' = disk
        /\ \/ mem' = [mem EXCEPT ![p] = disk]
           \/ mem' = [mem EXCEPT ![p] = NoEntries] /\ p \in blind'
        /\ pc' = [pc EXCEPT ![p] = [x \in Root |-> "reuse"]]
        /\ got' = [got EXCEPT ![p] = [u \in Unit |-> None]]
    BY <1>1 DEF Start, files
  <2>2. SplitInv'
    <3>1. \A q \in Proc, u \in Unit : mem'[q][u] \in {mem[q][u], disk[u], NoEntry}
      BY <1>1, StartLemma
    <3> QED
      BY <2>1, <3>1, KindLemma DEF SplitInv
  <2>3. active' = {p}
    BY <2>1, <1>1 DEF ExclusionInv, Start, TypeOK
  <2>4. \A u \in Unit : /\ got'[p][u] = None
                        /\ mem'[p][u] = disk'[u] \/ (mem'[p][u] = NoEntry /\ p \in blind')
    BY <2>1 DEF TypeOK, NoEntries
  <2>5. IndexInv'
    BY <2>3, <2>4 DEF IndexInv
  <2>6. \A q \in Proc, x \in Root : pc'[q][x] \in {"reuse", "idle"}
    <3>1. \A q \in Proc, x \in Root : q # p => pc'[q][x] = "idle"
      BY <2>3 DEF ExclusionInv
    <3> QED
      BY <2>1, <3>1 DEF TypeOK
  <2>7. CurrentInv'
    BY <2>6 DEF CurrentInv, Writing
  <2> QED
    BY <2>2, <2>5, <2>7
<1>2. ASSUME NEW p \in Proc, Forget(p), p \in active PROVE (SplitInv /\ IndexInv /\ CurrentInv)'
  <2>1. active' = {} /\ disk' = disk
    BY <1>2 DEF Forget, ExclusionInv, files
  <2>2. \A q \in Proc, x \in Root : pc'[q][x] = "idle"
    BY <2>1 DEF ExclusionInv
  <2>3. \A q \in Proc, u \in Unit : mem'[q][u] = mem[q][u] \/ mem'[q][u] = NoEntry
    BY <1>2 DEF Forget, NoEntries, TypeOK
  <2>4. SplitInv'
    BY <2>1, <2>3, KindLemma DEF SplitInv
  <2> QED
    BY <2>1, <2>2, <2>4 DEF IndexInv, CurrentInv, Writing
<1>3. ASSUME NEW p \in Proc, NEW t \in Root, Thread(p, t)
      PROVE  (SplitInv /\ IndexInv /\ CurrentInv)'
  BY <1>3, RecordStep
<1>4. CASE UNCHANGED vars
  BY <1>4 DEF vars, SplitInv, IndexInv, CurrentInv, Current
<1> QED
  BY <1>1, <1>2, <1>3, <1>4 DEF Next, End, Crash

LEMMA RecordsHold ==
    ASSUME ~MayOverlap
    PROVE  Spec => [](TypeOK /\ ThreadsInv /\ ExclusionInv /\ MatchInv /\ SplitInv /\ IndexInv
                     /\ CurrentInv)
<1> DEFINE Before == TypeOK /\ ThreadsInv /\ ExclusionInv /\ MatchInv
           Records == FamilyInv /\ SplitInv /\ IndexInv /\ CurrentInv
<1>1. Init => Records
  BY KindLemma DEF Init, NoEntries, FamilyInv, SplitInv, IndexInv, CurrentInv, Blank, Writing
<1>2. Before /\ Before' /\ Records /\ [Next]_vars => Records'
  BY FamilyStep, RecordsStep
<1>3. Spec => []Before
  BY SequentialInvariants
<1> QED
  BY <1>1, <1>2, <1>3, PTL DEF Spec

\* Where runs do not overlap, what a run returns for a unit is what a later
\* run will reuse: its artifact and its entry are there, unless reads of that
\* artifact fail.
THEOREM ReturnsAreRecorded ==
    ASSUME ~MayOverlap
    PROVE  Spec => []ReturnedIsRecorded
<1>1. TypeOK /\ MatchInv /\ IndexInv => ReturnedIsRecorded
  <2> SUFFICES ASSUME TypeOK, MatchInv, IndexInv, NEW p \in active, NEW u \in Unit \ Unreadable,
                      got[p][u] # None
               PROVE  file[u] = got[p][u] /\ disk[u] = Leaf(got[p][u])
    BY DEF ReturnedIsRecorded
  <2>1. disk[u] = Leaf(got[p][u])
    BY DEF IndexInv
  <2>2. disk[u].status = "succeeded" /\ disk[u].result = got[p][u]
    BY <2>1 DEF Leaf
  <2> QED
    BY <2>1, <2>2 DEF MatchInv, EntryMatchesArtifact
<1> QED
  BY <1>1, RecordsHold, PTL

\* Where runs do not overlap, a run that could read the state file calls the
\* model only for units that file knows nothing of: no recorded leaf and no
\* recorded split is paid for twice, unless reads of the leaf's artifact fail.
THEOREM CallsAreForNews ==
    ASSUME ~MayOverlap
    PROVE  Spec => CallOnlyUnrecorded
<1> DEFINE News == \A p \in Proc \ blind, t \in Root :
              /\ pc[p][t] = "reuse_split" /\ pc'[p][t] = "call"
              /\ Current(p, t) \notin Unreadable
              => disk[Current(p, t)] = NoEntry
<1> DEFINE Inv == TypeOK /\ ThreadsInv /\ ExclusionInv /\ SplitInv /\ IndexInv /\ CurrentInv
<1>1. Inv /\ [Next]_vars => [News]_vars
  <2> SUFFICES ASSUME Inv, Next, NEW p \in Proc \ blind, NEW t \in Root,
                      pc[p][t] = "reuse_split", pc'[p][t] = "call",
                      Current(p, t) \notin Unreadable
               PROVE  disk[Current(p, t)] = NoEntry
    OBVIOUS
  <2>1. ASSUME NEW q \in Proc, Start(q) \/ Forget(q) PROVE FALSE
    <3>1. \E n \in {"reuse", "idle"} : pc' = [pc EXCEPT ![q] = [x \in Root |-> n]]
      BY <2>1 DEF Start, Forget
    <3>2. pc \in [Proc -> [Root -> Pc]]
      BY DEF TypeOK
    <3>3. pc'[p][t] \in {"reuse", "idle", pc[p][t]}
      BY <3>1, <3>2
    <3> QED
      BY <3>3
  <2>2. PICK q \in Proc, x \in Root : Thread(q, x)
    BY <2>1 DEF Next, End, Crash
  <2>3. q = p /\ x = t
    BY <2>2, FrameLemma DEF Elsewhere
  <2>4. ReuseSplit(p, t)
    <3>1. pc[p][t] = "reuse_split" /\ Thread(p, t)
      BY <2>2, <2>3
    <3> QED
      BY <3>1 DEF Thread, Reuse, Call, RecordSplit, RecordLeaf, ReadFresh, Persist,
                  WriteFails, DecodeFails, Truncate, Fill
  <2> DEFINE u == Current(p, t)
  <2>5. u \in Unit /\ p \in active
    BY <2>2, <2>3, CurrentLemma, ActiveLemma
  <2>6. mem[p][u] \in Entry /\ mem[p][u].status # "succeeded"
    BY <2>5 DEF TypeOK, CurrentInv
  <2>7. ~(mem[p][u].status = "split" /\ Children[u] # <<>>)
    <3>1. ASSUME Descend(p, t) PROVE FALSE
      BY <3>1, GotoLemma DEF Descend, Pc
    <3> QED
      BY <2>4, <3>1 DEF ReuseSplit
  <2>8. mem[p][u] = NoEntry
    BY <2>5, <2>6, <2>7, KindLemma DEF SplitInv
  <2> QED
    BY <2>5, <2>8 DEF IndexInv
<1> QED
  BY <1>1, RecordsHold, PTL DEF Spec, CallOnlyUnrecorded
=============================================================================
