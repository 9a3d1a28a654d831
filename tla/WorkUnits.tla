----------------------------- MODULE WorkUnits -----------------------------
(***************************************************************************)
(* The L2 extraction checkpoint of enrichment/schema2_work_units.py.       *)
(*                                                                         *)
(* A run of L2 extracts every root work unit in a thread of its own.  A    *)
(* thread asks the checkpoint for a recorded leaf or split, calls the      *)
(* model otherwise, and records what came back: one artifact file per leaf *)
(* and one state file that indexes leaves and splits.  The state file is   *)
(* replaced atomically with the whole in-memory index of its process; the  *)
(* artifact is written in place.  A run may be killed at any point and     *)
(* started again, and nothing stops two runs over one state directory.     *)
(*                                                                         *)
(* Abstraction.  A unit's identifier contains its authority fingerprint,   *)
(* so the fingerprint comparisons of the code never fail and are left out; *)
(* a leaf result is a model value, its SHA-256 the value itself.  A read   *)
(* may fail with an OSError, which the code takes for a missing entry or a *)
(* missing artifact: of the state file at any time, of an artifact where   *)
(* the constant Unreadable says so.                                        *)
(***************************************************************************)
EXTENDS Naturals, Sequences, FiniteSets

CONSTANTS
    Proc,        \* runs of the L2 stage over one state directory
    Root,        \* the root work units
    Unit,        \* every work unit the split policy can produce
    Children,    \* split_work_unit: unit -> <<left, right>>, or <<>> if indivisible
    RootOf,      \* root_work_unit_id: the root a unit is split from
    Result,      \* the leaf results a model response can lead to
    Unreadable,  \* units whose artifact a read may fail to get, at any time
    MayOverlap,  \* whether a run may start while another one is active
    None,        \* no entry, no file, nothing read
    Torn         \* an artifact that is not valid JSON

ASSUME RootAssumption     == Root \subseteq Unit /\ None \notin Root
ASSUME ChildrenAssumption ==
    /\ Children \in [Unit -> Seq(Unit)]
    /\ \A u \in Unit : Len(Children[u]) \in {0, 2}
ASSUME RootOfAssumption ==
    /\ \A t \in Root : RootOf[t] = t
    /\ \A u \in Unit : \A i \in DOMAIN Children[u] : RootOf[Children[u][i]] = RootOf[u]
ASSUME UnreadableAssumption == Unreadable \subseteq Unit
ASSUME OverlapAssumption  == MayOverlap \in BOOLEAN
ASSUME ResultAssumption   == None \notin Result /\ Torn \notin Result \cup {None}

VARIABLES
    file,    \* artifact of each unit: None, Torn or a result
    disk,    \* the state file: unit -> entry
    mem,     \* _state of each run
    active,  \* the runs under way
    blind,   \* history: those whose first read of the state file failed
    pc,      \* step of each thread of each run
    stack,   \* work units a thread has still to visit, the current one first
    held,    \* what a thread carries: the response, then the result to return
    seen,    \* artifact content read by record_leaf
    mutex,   \* thread holding WorkUnitCheckpoint._lock of each run
    got      \* leaf results of each run

vars == <<file, disk, mem, active, blind, pc, stack, held, seen, mutex, got>>
files == <<file, disk>>

NoEntry == [status |-> "none", result |-> None]
Split   == [status |-> "split", result |-> None]
Leaf(r) == [status |-> "succeeded", result |-> r]
NoEntries == [u \in Unit |-> NoEntry]
Entry   == {NoEntry, Split} \cup {Leaf(r) : r \in Result}

Pc == {"idle", "reuse", "reuse_split", "call", "respond", "fresh",
       "truncate", "fill", "persist", "failed"}

Current(p, t) == Head(stack[p][t])

Goto(p, t, step)    == pc' = [pc EXCEPT ![p][t] = step]
Carry(p, t, r)      == held' = [held EXCEPT ![p][t] = r]
Lock(p, t)          == mutex[p] = None /\ mutex' = [mutex EXCEPT ![p] = t]
Unlock(p)           == mutex' = [mutex EXCEPT ![p] = None]
Remember(p, u, e)   == mem' = [mem EXCEPT ![p][u] = e]

\* The current unit is done with result r; the thread goes on with the next.
Finish(p, t, r) ==
    /\ got' = [got EXCEPT ![p][Current(p, t)] = r]
    /\ stack' = [stack EXCEPT ![p][t] = Tail(stack[p][t])]
    /\ Goto(p, t, IF Tail(stack[p][t]) = <<>> THEN "idle" ELSE "reuse")
    /\ Carry(p, t, None)

Descend(p, t) ==
    /\ stack' = [stack EXCEPT ![p][t] = Children[Current(p, t)] \o Tail(stack[p][t])]
    /\ Goto(p, t, "reuse")

Blank(x) == [p \in Proc |-> [t \in Root |-> x]]

Init ==
    /\ file = [u \in Unit |-> None]
    /\ disk = NoEntries
    /\ mem = [p \in Proc |-> NoEntries]
    /\ active = {}
    /\ blind = {}
    /\ pc = Blank("idle")
    /\ stack = Blank(<<>>)
    /\ held = Blank(None)
    /\ seen = Blank(None)
    /\ mutex = [p \in Proc |-> None]
    /\ got = [p \in Proc |-> [u \in Unit |-> None]]

\* A run loads the state file, which counts as empty if it cannot be read, and
\* submits every root to its pool.
Start(p) ==
    /\ p \notin active
    /\ MayOverlap \/ active = {}
    /\ active' = active \cup {p}
    /\ \/ mem' = [mem EXCEPT ![p] = disk] /\ UNCHANGED blind
       \/ mem' = [mem EXCEPT ![p] = NoEntries] /\ blind' = blind \cup {p}
    /\ pc' = [pc EXCEPT ![p] = [t \in Root |-> "reuse"]]
    /\ stack' = [stack EXCEPT ![p] = [t \in Root |-> <<t>>]]
    /\ got' = [got EXCEPT ![p] = [u \in Unit |-> None]]
    /\ UNCHANGED <<files, held, seen, mutex>>

\* What reading the artifact of u may give; None stands for an OSError.
Readings(u) == {file[u]} \cup (IF u \in Unreadable THEN {None} ELSE {})

\* A leaf counts only if its artifact still has the recorded hash.
Reuse(p, t) ==
    /\ pc[p][t] = "reuse"
    /\ mutex[p] = None
    /\ LET u == Current(p, t) IN
       \E prior \in Readings(u) :
          IF mem[p][u] = Leaf(prior)
            THEN Finish(p, t, prior)
            ELSE Goto(p, t, "reuse_split") /\ UNCHANGED <<stack, held, got>>
    /\ UNCHANGED <<files, mem, active, blind, seen, mutex>>

\* Mutant: the recorded children are never recognised.
ReuseSplitNever(p, t) ==
    /\ pc[p][t] = "reuse_split"
    /\ mutex[p] = None
    /\ Goto(p, t, "call")
    /\ UNCHANGED <<files, mem, active, blind, stack, held, seen, mutex, got>>

ReuseSplit(p, t) ==
    /\ pc[p][t] = "reuse_split"
    /\ mutex[p] = None
    /\ LET u == Current(p, t) IN
       IF mem[p][u].status = "split" /\ Children[u] # <<>>
         THEN Descend(p, t)
         ELSE Goto(p, t, "call") /\ UNCHANGED stack
    /\ UNCHANGED <<files, mem, active, blind, held, seen, mutex, got>>

\* service.complete and the processor: a result, too many relationships, or
\* an error that ends the thread.
Call(p, t) ==
    /\ pc[p][t] = "call"
    /\ \/ \E r \in Result : Carry(p, t, r) /\ Goto(p, t, "respond")
       \/ Carry(p, t, None) /\ Goto(p, t, "respond")
       \/ Goto(p, t, "failed") /\ UNCHANGED held
    /\ UNCHANGED <<files, mem, active, blind, stack, seen, mutex, got>>

\* The response exceeds max_relations_per_work_unit: record_split, or
\* L2_RELATION_BUDGET_ATOMIC_OVERFLOW for an indivisible unit.
RecordSplit(p, t) ==
    /\ pc[p][t] = "respond" /\ held[p][t] = None
    /\ mutex[p] = None
    /\ IF Children[Current(p, t)] = <<>>
         THEN Goto(p, t, "failed") /\ UNCHANGED <<disk, mem, stack>>
         ELSE /\ Remember(p, Current(p, t), Split)
              /\ disk' = mem'[p]
              /\ Descend(p, t)
    /\ UNCHANGED <<file, active, blind, held, seen, mutex, got>>

\* Mutant: an artifact without an entry is overwritten.
RecordLeafOverwrite(p, t) ==
    /\ pc[p][t] = "respond" /\ held[p][t] # None
    /\ LET u == Current(p, t) IN
       \E prior, existing \in Readings(u) :
          \/ /\ mem[p][u] = Leaf(prior)
             /\ mutex[p] = None
             /\ Finish(p, t, prior)
             /\ UNCHANGED <<seen, mutex>>
          \/ /\ mem[p][u] # Leaf(prior)
             /\ Lock(p, t)
             /\ Goto(p, t, "truncate")
             /\ UNCHANGED <<stack, held, seen, got>>
          \/ /\ mem[p][u] # Leaf(prior) /\ FALSE
             /\ Lock(p, t)
             /\ seen' = [seen EXCEPT ![p][t] = existing]
             /\ Goto(p, t, "fresh")
             /\ UNCHANGED <<stack, held, got>>
    /\ UNCHANGED <<files, mem, active, blind>>

\* record_leaf: it reads the artifact for the entry it remembers, then once more
\* for an artifact it does not expect; one that is missing, torn or cannot be
\* read is written anew.
RecordLeaf(p, t) ==
    /\ pc[p][t] = "respond" /\ held[p][t] # None
    /\ LET u == Current(p, t) IN
       \E prior, existing \in Readings(u) :
          \/ /\ mem[p][u] = Leaf(prior)
             /\ mutex[p] = None
             /\ Finish(p, t, prior)
             /\ UNCHANGED <<seen, mutex>>
          \/ /\ mem[p][u] # Leaf(prior) /\ existing \notin Result
             /\ Lock(p, t)
             /\ Goto(p, t, "truncate")
             /\ UNCHANGED <<stack, held, seen, got>>
          \/ /\ mem[p][u] # Leaf(prior) /\ existing \in Result
             /\ Lock(p, t)
             /\ seen' = [seen EXCEPT ![p][t] = existing]
             /\ Goto(p, t, "fresh")
             /\ UNCHANGED <<stack, held, got>>
    /\ UNCHANGED <<files, mem, active, blind>>

\* Mutant: the index gets the hash of the run's own result.
AdoptOwnHash(p, t) ==
    /\ pc[p][t] = "fresh"
    /\ LET u == Current(p, t)
           r == seen[p][t]
       IN
       \/ \* another run committed this very artifact: take its index
          /\ disk[u] = Leaf(r)
          /\ mem' = [mem EXCEPT ![p] = disk]
          /\ Finish(p, t, r)
          /\ Unlock(p)
       \/ \* an orphan of a killed or unfinished run: adopt it
          /\ disk[u] = NoEntry
          /\ Remember(p, u, Leaf(held[p][t]))
          /\ Carry(p, t, r)
          /\ Goto(p, t, "persist")
          /\ UNCHANGED <<stack, mutex, got>>
       \/ /\ disk[u] \notin {NoEntry, Leaf(r)} /\ r = held[p][t]
          /\ Remember(p, u, Leaf(r))
          /\ Goto(p, t, "persist")
          /\ UNCHANGED <<stack, held, mutex, got>>
       \/ \* L2_CHECKPOINT_STALE
          /\ disk[u] \notin {NoEntry, Leaf(r)} /\ r # held[p][t]
          /\ Goto(p, t, "failed")
          /\ Unlock(p)
          /\ UNCHANGED <<mem, stack, held, got>>
    /\ seen' = [seen EXCEPT ![p][t] = None]
    /\ UNCHANGED <<files, active, blind>>

\* Mutant: the run returns its own result for an adopted artifact.
AdoptReturnOwn(p, t) ==
    /\ pc[p][t] = "fresh"
    /\ LET u == Current(p, t)
           r == seen[p][t]
       IN
       \/ \* another run committed this very artifact: take its index
          /\ disk[u] = Leaf(r)
          /\ mem' = [mem EXCEPT ![p] = disk]
          /\ Finish(p, t, r)
          /\ Unlock(p)
       \/ \* an orphan of a killed or unfinished run: adopt it
          /\ disk[u] = NoEntry
          /\ Remember(p, u, Leaf(r))
          /\ Goto(p, t, "persist")
          /\ UNCHANGED <<stack, held, mutex, got>>
       \/ /\ disk[u] \notin {NoEntry, Leaf(r)} /\ r = held[p][t]
          /\ Remember(p, u, Leaf(r))
          /\ Goto(p, t, "persist")
          /\ UNCHANGED <<stack, held, mutex, got>>
       \/ \* L2_CHECKPOINT_STALE
          /\ disk[u] \notin {NoEntry, Leaf(r)} /\ r # held[p][t]
          /\ Goto(p, t, "failed")
          /\ Unlock(p)
          /\ UNCHANGED <<mem, stack, held, got>>
    /\ seen' = [seen EXCEPT ![p][t] = None]
    /\ UNCHANGED <<files, active, blind>>

\* record_leaf found a valid artifact and reads the state file again; one that
\* cannot be read counts as having no entry.
ReadFresh(p, t) ==
    /\ pc[p][t] = "fresh"
    /\ LET u == Current(p, t)
           r == seen[p][t]
       IN
       \/ \* another run committed this very artifact: take its index
          /\ disk[u] = Leaf(r)
          /\ mem' = [mem EXCEPT ![p] = disk]
          /\ Finish(p, t, r)
          /\ Unlock(p)
       \/ \* an orphan of a killed or unfinished run, or no index: adopt it
          /\ Remember(p, u, Leaf(r))
          /\ Carry(p, t, r)
          /\ Goto(p, t, "persist")
          /\ UNCHANGED <<stack, mutex, got>>
       \/ /\ disk[u] \notin {NoEntry, Leaf(r)} /\ r = held[p][t]
          /\ Remember(p, u, Leaf(r))
          /\ Goto(p, t, "persist")
          /\ UNCHANGED <<stack, held, mutex, got>>
       \/ \* L2_CHECKPOINT_STALE
          /\ disk[u] \notin {NoEntry, Leaf(r)} /\ r # held[p][t]
          /\ Goto(p, t, "failed")
          /\ Unlock(p)
          /\ UNCHANGED <<mem, stack, held, got>>
    /\ seen' = [seen EXCEPT ![p][t] = None]
    /\ UNCHANGED <<files, active, blind>>

\* write_text truncates the artifact and then fills it.
Truncate(p, t) ==
    /\ pc[p][t] = "truncate"
    /\ file' = [file EXCEPT ![Current(p, t)] = Torn]
    /\ Goto(p, t, "fill")
    /\ UNCHANGED <<disk, mem, active, blind, stack, held, seen, mutex, got>>

Fill(p, t) ==
    /\ pc[p][t] = "fill"
    /\ file' = [file EXCEPT ![Current(p, t)] = held[p][t]]
    /\ Remember(p, Current(p, t), Leaf(held[p][t]))
    /\ Goto(p, t, "persist")
    /\ UNCHANGED <<disk, active, blind, stack, held, seen, mutex, got>>

\* Mutant: the lock is not released.
PersistKeepsLock(p, t) ==
    /\ pc[p][t] = "persist"
    /\ disk' = mem[p]
    /\ Finish(p, t, held[p][t])
    /\ UNCHANGED mutex
    /\ UNCHANGED <<file, mem, active, blind, seen>>

\* _persist_locked: the state file becomes this run's index.
Persist(p, t) ==
    /\ pc[p][t] = "persist"
    /\ disk' = mem[p]
    /\ Finish(p, t, held[p][t])
    /\ Unlock(p)
    /\ UNCHANGED <<file, mem, active, blind, seen>>

\* An OSError of a write (of a mkdir) inside record_leaf or record_split: the
\* lock is released, what was written stays, the exception ends the thread.
WriteFails(p, t) ==
    /\ \/ pc[p][t] \in {"truncate", "fill", "persist"}
          /\ Unlock(p)
          /\ UNCHANGED mem
       \/ /\ pc[p][t] = "respond" /\ held[p][t] # None
          /\ mutex[p] = None
          /\ UNCHANGED <<mem, mutex>>
       \/ /\ pc[p][t] = "respond" /\ held[p][t] = None /\ Children[Current(p, t)] # <<>>
          /\ mutex[p] = None
          /\ Remember(p, Current(p, t), Split)
          /\ UNCHANGED mutex
    /\ Goto(p, t, "failed")
    /\ UNCHANGED <<files, active, blind, stack, held, seen, got>>

\* A file cut inside a character is not UTF-8: UnicodeDecodeError is neither
\* of the errors that reuse and record_leaf expect, and ends the thread.
DecodeFails(p, t) ==
    /\ \/ pc[p][t] = "reuse" /\ mem[p][Current(p, t)].status = "succeeded"
       \/ pc[p][t] = "respond" /\ held[p][t] # None
    /\ mutex[p] = None
    /\ file[Current(p, t)] = Torn
    /\ Goto(p, t, "failed")
    /\ UNCHANGED <<files, mem, active, blind, stack, held, seen, mutex, got>>

\* The memory of a run that is over.
Forget(p) ==
    /\ active' = active \ {p}
    /\ blind' = blind \ {p}
    /\ mem' = [mem EXCEPT ![p] = NoEntries]
    /\ pc' = [pc EXCEPT ![p] = [t \in Root |-> "idle"]]
    /\ stack' = [stack EXCEPT ![p] = [t \in Root |-> <<>>]]
    /\ held' = [held EXCEPT ![p] = [t \in Root |-> None]]
    /\ seen' = [seen EXCEPT ![p] = [t \in Root |-> None]]
    /\ mutex' = [mutex EXCEPT ![p] = None]
    /\ got' = [got EXCEPT ![p] = [u \in Unit |-> None]]
    /\ UNCHANGED files

\* Every thread has returned; or one raised, and only roots of later batches,
\* which are never submitted then, have not run.
Unsubmitted(p, t) == pc[p][t] = "reuse" /\ stack[p][t] = <<t>>

End(p) ==
    /\ p \in active
    /\ \/ \A t \in Root : pc[p][t] \in {"idle", "failed"}
       \/ /\ \E t \in Root : pc[p][t] = "failed"
          /\ \A t \in Root : pc[p][t] \in {"idle", "failed"} \/ Unsubmitted(p, t)
    /\ Forget(p)

\* The run is killed.
Crash(p) == p \in active /\ Forget(p)

Thread(p, t) ==
    \/ Reuse(p, t) \/ ReuseSplit(p, t) \/ Call(p, t) \/ RecordSplit(p, t)
    \/ RecordLeaf(p, t) \/ ReadFresh(p, t) \/ Truncate(p, t) \/ Fill(p, t)
    \/ Persist(p, t) \/ WriteFails(p, t) \/ DecodeFails(p, t)

Next ==
    \E p \in Proc :
       \/ Start(p) \/ End(p) \/ Crash(p)
       \/ \E t \in Root : Thread(p, t)

Spec == Init /\ [][Next]_vars

\* The operating system runs every thread of a live run, and a thread that
\* waits for _lock gets it in the end although others take it in between:
\* hence strong fairness.
FairSpec ==
    /\ Spec
    /\ \A p \in Proc :
          /\ WF_vars(End(p))
          /\ \A t \in Root : SF_vars(Thread(p, t))

-----------------------------------------------------------------------------
TypeOK ==
    /\ file \in [Unit -> Result \cup {None, Torn}]
    /\ disk \in [Unit -> Entry]
    /\ mem \in [Proc -> [Unit -> Entry]]
    /\ active \subseteq Proc
    /\ blind \subseteq active
    /\ pc \in [Proc -> [Root -> Pc]]
    /\ stack \in [Proc -> [Root -> Seq(Unit)]]
    /\ held \in [Proc -> [Root -> Result \cup {None}]]
    /\ seen \in [Proc -> [Root -> Result \cup {None}]]
    /\ mutex \in [Proc -> Root \cup {None}]
    /\ got \in [Proc -> [Unit -> Result \cup {None}]]

\* The index never runs ahead of the artifacts: a leaf listed in the state
\* file has a file, also with two runs at work and whoever is killed when.
EntryHasArtifact ==
    \A u \in Unit : disk[u].status = "succeeded" => file[u] # None

\* Where runs do not overlap, a listed leaf can be reused: its artifact has
\* the recorded hash.  A kill between the two writes leaves an orphan, never
\* an entry without its bytes; a failed read of the state file breaks no entry,
\* one of an artifact that of its own unit at most.
EntryMatchesArtifact ==
    \A u \in Unit \ Unreadable : disk[u].status = "succeeded" => file[u] = disk[u].result

\* A leaf artifact that once was valid is never written again, also by a run
\* that could not read the state file, unless a read of that artifact failed.
LeafImmutable ==
    [][\A u \in Unit \ Unreadable : file[u] \in Result => file'[u] = file[u]]_vars

\* What a run returns for a unit is what a later run will reuse.
ReturnedIsRecorded ==
    \A p \in active, u \in Unit \ Unreadable :
       got[p][u] # None => file[u] = got[p][u] /\ disk[u] = Leaf(got[p][u])

\* A run that could read the state file when it started calls the model only
\* for units the file knows nothing of (or whose artifact it cannot read): no
\* recorded leaf and no recorded split is paid for twice.
CallOnlyUnrecorded ==
    [][\A p \in Proc \ blind, t \in Root :
          /\ pc[p][t] = "reuse_split" /\ pc'[p][t] = "call"
          /\ Current(p, t) \notin Unreadable
          => disk[Current(p, t)] = NoEntry]_vars

\* Every run ends, the lock of the checkpoint notwithstanding.
RunEnds == \A p \in Proc : p \in active ~> p \notin active
-----------------------------------------------------------------------------
(* The inductive invariants behind the theorems of WorkUnitsProofs.        *)

Writing == {"truncate", "fill"}
Holding == Writing \cup {"fresh", "persist"}

\* A thread under way has a current unit and, once it records a leaf, a result.
ThreadsInv ==
    \A p \in Proc, t \in Root :
       /\ pc[p][t] \notin {"idle", "failed"} => stack[p][t] # <<>>
       /\ pc[p][t] \in Holding => held[p][t] \in Result
       /\ pc[p][t] = "fresh" => seen[p][t] \in Result

\* Files are never removed, so that what a memory lists exists.
ArtifactInv ==
    /\ EntryHasArtifact
    /\ \A p \in Proc, u \in Unit : mem[p][u].status = "succeeded" => file[u] # None
    /\ \A p \in Proc, t \in Root : pc[p][t] = "fresh" => file[Current(p, t)] # None

\* One run at a time, one thread of it between a lock and an unlock.
ExclusionInv ==
    /\ \A p, q \in active : p = q
    /\ \A p \in Proc \ active, t \in Root : pc[p][t] = "idle"
    /\ \A p \in Proc, t \in Root : pc[p][t] \in Holding => mutex[p] = t

\* What the holder of the lock knows of a readable artifact stays true, and
\* both indexes describe such artifacts.
MatchInv ==
    /\ EntryMatchesArtifact
    /\ \A p \in Proc, u \in Unit \ Unreadable :
          mem[p][u].status = "succeeded" => file[u] = mem[p][u].result
    /\ \A p \in Proc, t \in Root :
          /\ pc[p][t] = "fresh" /\ Current(p, t) \notin Unreadable =>
                seen[p][t] = file[Current(p, t)]
          /\ pc[p][t] \in Writing /\ Current(p, t) \notin Unreadable =>
                file[Current(p, t)] \notin Result

\* A thread visits units of its own root only.
FamilyInv ==
    \A p \in Proc, t \in Root : \A i \in DOMAIN stack[p][t] : RootOf[stack[p][t][i]] = t

\* Only what can be split is recorded as split.
SplitInv ==
    \A u \in Unit :
       /\ disk[u] = Split => Children[u] # <<>>
       /\ \A p \in Proc : mem[p][u] = Split => Children[u] # <<>>

\* What a run has returned is in the state file and in its memory.  A memory
\* is ahead of the state file only in a unit that a thread is about to persist
\* or whose thread has failed; that of a run that read the state file has all
\* of it.
IndexInv ==
    /\ \A p \in active, u \in Unit \ Unreadable :
          got[p][u] # None => disk[u] = Leaf(got[p][u]) /\ mem[p][u] = Leaf(got[p][u])
    /\ \A p \in active, u \in Unit :
          mem[p][u] \notin {disk[u], NoEntry} =>
             \E t \in Root : /\ RootOf[u] = t
                            /\ \/ pc[p][t] = "failed"
                               \/ pc[p][t] = "persist" /\ Current(p, t) = u
    /\ \A p \in active \ blind, u \in Unit \ Unreadable :
          disk[u] # NoEntry => mem[p][u] = disk[u]

\* What the index says of the unit a thread is at: nothing has been returned
\* for it yet.
CurrentInv ==
    \A p \in Proc, t \in Root :
       /\ pc[p][t] = "persist" => mem[p][Current(p, t)] = Leaf(held[p][t])
       /\ pc[p][t] \notin {"idle", "failed", "reuse"} /\ Current(p, t) \notin Unreadable =>
             got[p][Current(p, t)] = None
       /\ pc[p][t] = "reuse_split" /\ p \notin blind /\ Current(p, t) \notin Unreadable =>
             mem[p][Current(p, t)].status # "succeeded"
       /\ /\ pc[p][t] \in {"call", "respond", "fresh"} \cup Writing
          /\ p \notin blind /\ Current(p, t) \notin Unreadable
          => mem[p][Current(p, t)] = NoEntry
=============================================================================
