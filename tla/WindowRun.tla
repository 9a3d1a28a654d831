------------------------------ MODULE WindowRun ------------------------------
(* The windowed discovery of a corpus, domain/window_run.py.               *)
(*                                                                         *)
(* The corpus is cut into windows of chunks.  A window asks the model about *)
(* its chunks, may ask for a repair of what a chunk's answer proposed, and *)
(* is committed once all answers are there; the next window is asked with  *)
(* the schema the last one left.  Every artifact is created once and never *)
(* changed, but for the pointer to the latest report.                      *)
(*                                                                         *)
(* A model call costs money and may be answered without the answer coming  *)
(* back.  It is recorded before it is made; its answer is recorded before  *)
(* it is used; a call whose fate is unknown is made again only when the    *)
(* command was told so.  A command spends no more than its budget.         *)
(*                                                                         *)
(* An advisory lock of the operating system, which dies with its holder,   *)
(* keeps a second coordinator out.  The status command takes no lock.      *)
EXTENDS Naturals, Sequences, FiniteSets

CONSTANTS
    Chunk,          \* the chunks of the corpus
    Plan,           \* the windows: a sequence of sequences of chunks
    Modes,          \* the discovery modes an instance covers
    MaxConcurrent,  \* RunConfig.max_concurrency
    Budgets,        \* the budgets a command is given
    MaxFaults,      \* bound on kills of the coordinator and failing calls
    None            \* no value

Windows == Len(Plan)
InWindow(w) == {Plan[w][i] : i \in DOMAIN Plan[w]}
Request == [chunk : Chunk, repair : BOOLEAN]
Original(c) == [chunk |-> c, repair |-> FALSE]
Repair(c) == [chunk |-> c, repair |-> TRUE]

\* RunBudget.  Its ceilings of tokens and characters stop a reservation as the
\* one of calls does; its stop after a document is one after a window.
Budget == [calls : Nat, repairs : Nat, windows : Nat, retryUncertain : BOOLEAN,
           retryInvalid : BOOLEAN, transportRetries : Nat]

ASSUME WindowAssumption ==
    /\ Plan \in Seq(Seq(Chunk))
    /\ \A w \in DOMAIN Plan : Plan[w] # <<>>
    /\ \A w, x \in DOMAIN Plan : w # x => InWindow(w) \cap InWindow(x) = {}
    /\ IsFiniteSet(Chunk)
    /\ Modes \subseteq {"chunked", "whole-document"}
    /\ Budgets \subseteq Budget
    /\ MaxConcurrent \in Nat \ {0}
    /\ MaxFaults \in Nat
    /\ None \notin Nat

VARIABLES
    mode,       \* manifest: the sealed discovery mode
    tries,      \* dispatches/: how often each request was reserved
    last,       \* received-invalid/, physical-errors/: what is known of the last
    response,   \* responses/: the answer, if it is there
    commits,    \* windows/: for each window, what it took over and left
    latest,     \* latest.json: the windows of the report it names, or None
    final,      \* does run.json exist, the report of the whole corpus?
    pc, budget, \* the coordinator and the budget of its command
    pos,        \* ... its place in the window
    job,        \* ... the calls its threads make
    blocked,    \* ... was a reservation refused, or did a call fail?
    fixed,      \* ... the chunks of the window whose repair it holds
    calls, repairs, opened, retried,   \* ... its counters
    asked,      \* how often the model was asked each request
    rpc, seen, found,   \* the status command: place, commits, report
    kills, failures

bounds == <<kills, failures>>
ledger == <<tries, last, response>>
published == <<commits, latest, final>>
counters == <<calls, repairs, opened, retried>>
coordinator == <<pc, budget, pos, job, blocked, fixed, counters>>
reader == <<rpc, seen, found>>
vars == <<mode, ledger, published, coordinator, asked, reader, bounds>>

NoBudget == [calls |-> 0, repairs |-> 0, windows |-> 0, retryUncertain |-> FALSE,
             retryInvalid |-> FALSE, transportRetries |-> 0]
NoJobs == [r \in Request |-> "none"]

Init ==
    /\ mode \in Modes
    /\ tries = [r \in Request |-> 0]
    /\ last = [r \in Request |-> "none"]
    /\ response = [r \in Request |-> "none"]
    /\ commits = <<>> /\ latest = None /\ final = FALSE
    /\ pc = "idle" /\ budget = NoBudget /\ pos = 1
    /\ job = NoJobs /\ blocked = FALSE /\ fixed = {}
    /\ calls = 0 /\ repairs = 0 /\ opened = 0 /\ retried = 0
    /\ asked = [r \in Request |-> 0]
    /\ rpc = "idle" /\ seen = 0 /\ found = None
    /\ kills = 0 /\ failures = 0

-----------------------------------------------------------------------------
(* Helpers.                                                                *)

\* The window at work, and the chunks it asks about: a document is asked
\* about as one.
Here == Len(commits) + 1
Asking(w) == IF mode = "whole-document" THEN SubSeq(Plan[w], 1, 1) ELSE Plan[w]
ChunkAt == Asking(Here)[pos]
AtEnd == pos > Len(Asking(Here))

\* The records of all repairs ever dispatched, known by chunk and number: a
\* coordinator counts them when it starts.
RepairRecords == UNION {{c} \X (1..tries[Repair(c)]) : c \in Chunk}
Repairs == Cardinality(RepairRecords)

HasConcepts == commits # <<>> /\ commits[Len(commits)].concepts
Complete == Len(commits) = Windows /\ HasConcepts

\* Mutant: an answer that was unusable once is never asked for again.
AdmissibleOnce(r, automatic) ==
    /\ tries[r] > 0 => /\ last[r] # "invalid"
                       /\ automatic \/ budget.retryUncertain
    /\ calls < budget.calls
    /\ r.repair => repairs < budget.repairs

\* May request r be reserved?  Automatic: its last call failed just now in a
\* way that was recorded and may be retried.
Admissible(r, automatic) ==
    /\ tries[r] > 0 => IF last[r] = "invalid" THEN budget.retryInvalid
                       ELSE automatic \/ budget.retryUncertain
    /\ calls < budget.calls
    /\ r.repair => repairs < budget.repairs

\* Mutant: the dispatch is recorded only in memory.
EnqueueUnrecorded(r) ==
    /\ tries' = [tries EXCEPT ![r] = IF @ = 0 THEN 0 ELSE @ + 1]
    /\ last' = [last EXCEPT ![r] = "none"]
    /\ calls' = calls + 1
    /\ repairs' = IF r.repair THEN repairs + 1 ELSE repairs
    /\ job' = [job EXCEPT ![r] = "queued"]

\* The dispatch is recorded, and the call is left to a thread.
Enqueue(r) ==
    /\ tries' = [tries EXCEPT ![r] = @ + 1]
    /\ last' = [last EXCEPT ![r] = "none"]
    /\ calls' = calls + 1
    /\ repairs' = IF r.repair THEN repairs + 1 ELSE repairs
    /\ job' = [job EXCEPT ![r] = "queued"]

-----------------------------------------------------------------------------
(* The coordinator: a command, and the windows it works on.                *)

\* Mutant: a coordinator counts its own repairs only.
StartAfresh(b) ==
    /\ pc = "idle"
    /\ pc' = IF final THEN "publish" ELSE "window"
    /\ budget' = b
    /\ UNCHANGED <<mode, ledger, published, pos, job, blocked, fixed, counters,
                   asked, reader, bounds>>

Start(b) ==
    /\ pc = "idle"
    /\ pc' = IF final THEN "publish" ELSE "window"
    /\ budget' = b
    /\ repairs' = Repairs
    /\ UNCHANGED <<mode, ledger, published, pos, job, blocked, fixed, calls,
                   opened, retried, asked, reader, bounds>>

Open ==
    /\ pc = "window"
    /\ IF Here <= Windows /\ opened < budget.windows
       THEN pc' = "reserve" /\ pos' = 1 /\ opened' = opened + 1
       ELSE pc' = "publish" /\ UNCHANGED <<pos, opened>>
    /\ UNCHANGED <<mode, ledger, published, budget, job, blocked, fixed, calls,
                   repairs, retried, asked, reader, bounds>>

\* The next request of the window; after the last the pool dispatches.
NextRequest ==
    IF pos < Len(Asking(Here)) THEN pos' = pos + 1 /\ UNCHANGED pc
                               ELSE pc' = "dispatch" /\ UNCHANGED pos

\* Mutant: an answer that is already there is asked for again if it can be paid.
ReserveAgain ==
    /\ pc = "reserve"
    /\ LET r == Original(ChunkAt) IN
       \/ /\ Admissible(r, response[r] # "none")
          /\ Enqueue(r)
          /\ NextRequest
          /\ UNCHANGED blocked
       \/ /\ ~Admissible(r, response[r] # "none")
          /\ IF response[r] # "none"
             THEN NextRequest /\ UNCHANGED blocked
             ELSE pc' = "dispatch" /\ blocked' = TRUE /\ UNCHANGED pos
          /\ UNCHANGED <<tries, last, job, calls, repairs>>
    /\ UNCHANGED <<mode, response, published, budget, fixed, opened, retried,
                   asked, reader, bounds>>

\* The requests of the window are reserved one after the other, until one may
\* not be; one whose answer is there needs no reservation.
Reserve ==
    /\ pc = "reserve"
    /\ LET r == Original(ChunkAt) IN
       \/ /\ response[r] # "none"
          /\ NextRequest
          /\ UNCHANGED <<tries, last, job, blocked, calls, repairs>>
       \/ /\ response[r] = "none" /\ Admissible(r, FALSE)
          /\ Enqueue(r)
          /\ NextRequest
          /\ UNCHANGED blocked
       \/ /\ response[r] = "none" /\ ~Admissible(r, FALSE)
          /\ pc' = "dispatch" /\ blocked' = TRUE
          /\ UNCHANGED <<tries, last, pos, job, calls, repairs>>
    /\ UNCHANGED <<mode, response, published, budget, fixed, opened, retried,
                   asked, reader, bounds>>

-----------------------------------------------------------------------------
(* The threads of the pool: what was reserved is asked, whatever else was   *)
(* refused, and the answer, or what is known of its absence, is recorded.  *)

Dispatching == pc \in {"dispatch", "repairing"}

Ask(r) ==
    /\ Dispatching /\ job[r] = "queued"
    /\ Cardinality({q \in Request : job[q] = "sent"}) < MaxConcurrent
    /\ job' = [job EXCEPT ![r] = "sent"]
    /\ asked' = [asked EXCEPT ![r] = @ + 1]
    /\ UNCHANGED <<mode, ledger, published, pc, budget, pos, blocked, fixed,
                   counters, reader, bounds>>

\* The answer: sound, faulty if some of its proposals can be repaired, or
\* malformed, which shows only when the window is evaluated.
Answer(r) ==
    /\ job[r] = "sent"
    /\ \E a \in {"sound", "faulty", "malformed"} :
         /\ a = "faulty" => mode = "chunked" /\ ~r.repair
         /\ response' = [response EXCEPT ![r] = a]
    /\ job' = [job EXCEPT ![r] = "none"]
    /\ UNCHANGED <<mode, tries, last, published, pc, budget, pos, blocked,
                   fixed, counters, asked, reader, bounds>>

\* A call fails: nothing is known of it, the answer is unusable, or the failure
\* itself is on record and may be retried.
FailCall(r) ==
    /\ job[r] = "sent" /\ kills + failures < MaxFaults
    /\ failures' = failures + 1
    /\ \/ /\ last' \in {last, [last EXCEPT ![r] = "invalid"]}
          /\ job' = [job EXCEPT ![r] = "none"] /\ blocked' = TRUE
       \/ /\ mode = "whole-document"
          /\ last' = [last EXCEPT ![r] = "retryable"]
          /\ job' = [job EXCEPT ![r] = "failed"] /\ UNCHANGED blocked
    /\ UNCHANGED <<mode, tries, response, published, pc, budget, pos, fixed,
                   counters, asked, reader, kills>>

\* It is retried, as a new dispatch of the same command, or given up: the
\* retries, the patience or the budget may be exhausted.
Retry(r) ==
    /\ job[r] = "failed"
    /\ \/ /\ retried < budget.transportRetries /\ Admissible(r, TRUE)
          /\ Enqueue(r)
          /\ retried' = retried + 1
          /\ UNCHANGED blocked
       \/ /\ job' = [job EXCEPT ![r] = "none"] /\ blocked' = TRUE
          /\ UNCHANGED <<tries, last, calls, repairs, retried>>
    /\ UNCHANGED <<mode, response, published, pc, budget, pos, fixed, opened,
                   asked, reader, bounds>>

\* Mutant: the window goes on with the answers it got.
JoinPartial ==
    /\ pc = "dispatch" /\ job = NoJobs
    /\ IF \E i \in DOMAIN Asking(Here) : response[Original(Asking(Here)[i])] = "malformed"
       THEN pc' = "publish" /\ UNCHANGED pos
       ELSE pc' = "repair" /\ pos' = 1
    /\ retried' = 0
    /\ UNCHANGED <<mode, ledger, published, budget, job, blocked, fixed, calls,
                   repairs, opened, asked, reader, bounds>>

\* The barrier: all calls of the window are over.
Join ==
    /\ pc = "dispatch" /\ job = NoJobs
    /\ IF blocked \/ \E i \in DOMAIN Asking(Here) :
                        response[Original(Asking(Here)[i])] = "malformed"
       THEN pc' = "publish" /\ UNCHANGED pos
       ELSE pc' = "repair" /\ pos' = 1
    /\ retried' = 0
    /\ UNCHANGED <<mode, ledger, published, budget, job, blocked, fixed, calls,
                   repairs, opened, asked, reader, bounds>>

-----------------------------------------------------------------------------
(* Repairs are asked one after the other.  One that was never asked is left *)
(* out if it may not be reserved; one that was must not be.                *)

\* Mutant: whatever may not be reserved is left out.
RepairSkips ==
    /\ pc = "repair" /\ ~AtEnd
    /\ LET r == Repair(ChunkAt)
           needed == response[Original(ChunkAt)] = "faulty" IN
       \/ /\ ~needed \/ (response[r] = "none" /\ ~Admissible(r, FALSE))
          /\ pos' = pos + 1
          /\ UNCHANGED <<tries, last, pc, job, fixed, calls, repairs>>
       \/ /\ needed /\ response[r] # "none"
          /\ fixed' = fixed \cup {ChunkAt} /\ pos' = pos + 1
          /\ UNCHANGED <<tries, last, pc, job, calls, repairs>>
       \/ /\ needed /\ response[r] = "none" /\ Admissible(r, FALSE)
          /\ Enqueue(r)
          /\ pc' = "repairing" /\ UNCHANGED <<pos, fixed>>
    /\ UNCHANGED <<mode, response, published, budget, blocked, opened, retried,
                   asked, reader, bounds>>

AskRepair ==
    /\ pc = "repair" /\ ~AtEnd
    /\ LET r == Repair(ChunkAt)
           needed == response[Original(ChunkAt)] = "faulty" IN
       \/ /\ \/ ~needed
             \/ response[r] = "none" /\ tries[r] = 0 /\ ~Admissible(r, FALSE)
          /\ pos' = pos + 1
          /\ UNCHANGED <<tries, last, pc, job, fixed, calls, repairs>>
       \/ /\ needed /\ response[r] # "none"
          /\ fixed' = fixed \cup {ChunkAt} /\ pos' = pos + 1
          /\ UNCHANGED <<tries, last, pc, job, calls, repairs>>
       \/ /\ needed /\ response[r] = "none" /\ Admissible(r, FALSE)
          /\ Enqueue(r)
          /\ pc' = "repairing" /\ UNCHANGED <<pos, fixed>>
       \/ /\ needed /\ response[r] = "none" /\ tries[r] > 0 /\ ~Admissible(r, FALSE)
          /\ pc' = "publish"
          /\ UNCHANGED <<tries, last, pos, job, fixed, calls, repairs>>
    /\ UNCHANGED <<mode, response, published, budget, blocked, opened, retried,
                   asked, reader, bounds>>

Repaired ==
    /\ pc = "repairing" /\ job = NoJobs
    /\ IF blocked
       THEN pc' = "publish" /\ UNCHANGED <<pos, fixed>>
       ELSE pc' = "repair" /\ pos' = pos + 1 /\ fixed' = fixed \cup {ChunkAt}
    /\ UNCHANGED <<mode, ledger, published, budget, job, blocked, counters,
                   asked, reader, bounds>>

\* The window is committed.  A schema that has no concept yet ends a command
\* that goes by chunks.
Commit ==
    /\ pc = "repair" /\ AtEnd
    /\ \E c \in {HasConcepts, TRUE} :
         /\ commits' = Append(commits, [repaired |-> fixed, concepts |-> c])
         /\ pc' = IF ~c /\ mode = "chunked" THEN "publish" ELSE "window"
    /\ fixed' = {}
    /\ UNCHANGED <<mode, ledger, latest, final, budget, pos, job,
                   blocked, counters, asked, reader, bounds>>

-----------------------------------------------------------------------------
(* The report, then run.json if it is complete, then the pointer to it.  A *)
(* report is a file of its own, which nobody reads until one of them says.  *)

\* The command is over, or dead: what it had in memory is gone.
Forget ==
    /\ pc' = "idle" /\ budget' = NoBudget /\ pos' = 1
    /\ job' = NoJobs /\ blocked' = FALSE /\ fixed' = {}
    /\ calls' = 0 /\ repairs' = 0 /\ opened' = 0 /\ retried' = 0

Publish ==
    /\ pc = "publish"
    /\ final' = Complete
    /\ pc' = "point"
    /\ UNCHANGED <<mode, ledger, commits, latest, budget, pos, job, blocked,
                   fixed, counters, asked, reader, bounds>>

Point ==
    /\ pc = "point"
    /\ latest' = Len(commits)
    /\ Forget
    /\ UNCHANGED <<mode, ledger, commits, final, asked, reader, bounds>>

\* A kill, or an exception that is not handled.
Kill ==
    /\ pc # "idle" /\ kills + failures < MaxFaults
    /\ kills' = kills + 1
    /\ Forget
    /\ UNCHANGED <<mode, ledger, published, asked, reader, failures>>

-----------------------------------------------------------------------------
(* The status command: it lists the commits, reads the report, lists them   *)
(* again if the report is ahead, and refuses a report that still is.       *)

ListCommits ==
    /\ rpc = "idle"
    /\ seen' = Len(commits)
    /\ rpc' = "report"
    /\ UNCHANGED <<mode, ledger, published, coordinator, asked, found, bounds>>

ReadReport ==
    /\ rpc = "report"
    /\ LET cursor == IF final THEN Windows ELSE latest IN
       IF cursor # None /\ cursor > seen
       THEN rpc' = "refresh" /\ found' = cursor /\ UNCHANGED seen
       ELSE rpc' = "idle" /\ seen' = 0 /\ UNCHANGED found
    /\ UNCHANGED <<mode, ledger, published, coordinator, asked, bounds>>

\* Mutant: the commits are not listed again.
RefreshNever ==
    /\ rpc = "refresh"
    /\ rpc' = IF found > seen THEN "refused" ELSE "idle"
    /\ seen' = 0 /\ found' = None
    /\ UNCHANGED <<mode, ledger, published, coordinator, asked, bounds>>

Refresh ==
    /\ rpc = "refresh"
    /\ rpc' = IF found > Len(commits) THEN "refused" ELSE "idle"
    /\ seen' = 0 /\ found' = None
    /\ UNCHANGED <<mode, ledger, published, coordinator, asked, bounds>>

Step == \/ Open \/ Reserve \/ Join \/ AskRepair \/ Repaired
        \/ Commit \/ Publish \/ Point
        \/ \E r \in Request : Ask(r) \/ Answer(r) \/ Retry(r)

Status == ListCommits \/ ReadReport \/ Refresh

Next == \/ \E b \in Budgets : Start(b)
        \/ Step \/ Status \/ Kill
        \/ \E r \in Request : FailCall(r)

Spec == Init /\ [][Next]_vars

\* A budget that allows all there is to do, and every retry.
Generous(b) ==
    /\ b.retryUncertain /\ b.retryInvalid
    /\ b.calls >= Cardinality(Request) + MaxFaults
    /\ b.repairs >= Cardinality(Request) + MaxFaults
    /\ b.windows >= Windows

\* The operator gives such a command again and again, and a command goes on.
FairSpec == /\ Spec
            /\ WF_vars(Step)
            /\ SF_vars(\E b \in Budgets : Generous(b) /\ Start(b))

-----------------------------------------------------------------------------
(* Properties.                                                             *)

TypeOK ==
    /\ mode \in {"chunked", "whole-document"}
    /\ tries \in [Request -> Nat]
    /\ last \in [Request -> {"none", "invalid", "retryable"}]
    /\ response \in [Request -> {"none", "sound", "faulty", "malformed"}]
    /\ commits \in Seq([repaired : SUBSET Chunk, concepts : BOOLEAN])
    /\ Len(commits) <= Windows
    /\ latest \in 0..Windows \cup {None}
    /\ final \in BOOLEAN
    /\ pc \in {"idle", "window", "reserve", "dispatch", "repair", "repairing",
               "publish", "point"}
    /\ budget \in Budgets \cup {NoBudget}
    /\ pos \in Nat \ {0}
    /\ job \in [Request -> {"none", "queued", "sent", "failed"}]
    /\ blocked \in BOOLEAN /\ fixed \subseteq Chunk
    /\ calls \in Nat /\ repairs \in Nat /\ opened \in Nat /\ retried \in Nat
    /\ asked \in [Request -> Nat]
    /\ rpc \in {"idle", "report", "refresh", "refused"}
    /\ seen \in 0..Windows /\ found \in 0..Windows \cup {None}
    /\ kills \in 0..MaxFaults /\ failures \in 0..MaxFaults

\* Every call that was made is on record, whenever the command died.
CallsReserved == \A r \in Request : asked[r] <= tries[r]

\* A repair that was paid for is never left out: a committed window has taken
\* over every repair that was asked for it, so none of its calls is in doubt.
RepairNotSkipped ==
    \A w \in DOMAIN commits : \A c \in InWindow(w) :
        tries[Repair(c)] > 0 => c \in commits[w].repaired

\* A window is asked about only with the schema of the windows before, all of
\* them committed, and a committed one has all its answers.
WindowsInOrder ==
    \A w \in 1..Windows : \A i \in DOMAIN Asking(w) :
        LET c == Asking(w)[i] IN
        /\ w <= Len(commits) => response[Original(c)] \in {"sound", "faulty"}
        /\ w <= Len(commits) /\ c \in commits[w].repaired => response[Repair(c)] # "none"
        /\ w > Here => tries[Original(c)] = 0 /\ tries[Repair(c)] = 0

\* An answer that is there is never replaced and never asked for again.
AnswersFinal ==
    [][\A r \in Request : response[r] # "none" =>
        /\ response'[r] = response[r]
        /\ asked'[r] = asked[r] /\ tries'[r] = tries[r]]_vars

\* The budget of repairs is one for all commands together: none is reserved
\* that exceeds it, those of killed commands counted.
RepairsBounded ==
    [][Repairs' > Repairs => Repairs' <= budget.repairs]_vars

\* The status command, which takes no lock, never refuses a sound run.
StatusAccepts == rpc # "refused"

\* An answer that is malformed stays for good, and no later command asks again;
\* a corpus in which no window found a concept has no schema.
Stuck ==
    \/ \E r \in Request : ~r.repair /\ response[r] = "malformed"
    \/ Len(commits) = Windows /\ ~HasConcepts

\* With a generous operator a run is completed, unless it is stuck.
CompletesOrStuck == <>final \/ <>[]Stuck
=============================================================================
