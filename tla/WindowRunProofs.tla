---------------------------- MODULE WindowRunProofs ----------------------------
(***************************************************************************)
(* Theorems about WindowRun, for any corpus and any cut of it into         *)
(* windows, any budgets, and every number of threads, kills and failures.  *)
(***************************************************************************)
EXTENDS WindowRun, FiniteSetTheorems, TLAPS

-----------------------------------------------------------------------------
(* Windows.                                                                *)

LEMMA WindowCount == Windows \in Nat /\ DOMAIN Plan = 1..Windows
  BY WindowAssumption DEF Windows

\* A window asks about some of its chunks; by chunks, about all of them.
LEMMA AskingFacts ==
  ASSUME TypeOK, NEW w \in 1..Windows
  PROVE  /\ Asking(w) \in Seq(Chunk) /\ Len(Asking(w)) \in Nat \ {0}
         /\ DOMAIN Asking(w) = 1..Len(Asking(w))
         /\ \A i \in 1..Len(Asking(w)) : Asking(w)[i] \in InWindow(w)
         /\ InWindow(w) \subseteq Chunk
         /\ mode = "chunked" => \A c \in InWindow(w) : \E i \in 1..Len(Asking(w)) : c = Asking(w)[i]
<1>1. Plan[w] \in Seq(Chunk) /\ Plan[w] # <<>> /\ w \in DOMAIN Plan
  <2>1. Plan \in Seq(Seq(Chunk)) /\ w \in DOMAIN Plan
    BY WindowCount, WindowAssumption
  <2>2. Plan[w] # <<>>
    BY <2>1, WindowAssumption
  <2> QED
    BY <2>1, <2>2
<1>2. Len(Plan[w]) \in Nat \ {0} /\ DOMAIN Plan[w] = 1..Len(Plan[w])
  BY <1>1
<1>3. InWindow(w) \subseteq Chunk
  BY <1>1, <1>2 DEF InWindow
<1>4. CASE mode = "whole-document"
  <2>1. Asking(w) = SubSeq(Plan[w], 1, 1)
    BY <1>4 DEF Asking
  <2>2. /\ Asking(w) \in Seq(Chunk) /\ Len(Asking(w)) = 1
        /\ Asking(w)[1] = Plan[w][1]
    BY <1>1, <1>2, <2>1
  <2> QED
    BY <1>2, <1>3, <1>4, <2>2 DEF InWindow
<1>5. CASE mode = "chunked"
  <2>1. Asking(w) = Plan[w]
    BY <1>5 DEF Asking
  <2> QED
    BY <1>1, <1>2, <1>3, <2>1 DEF InWindow
<1> QED
  BY <1>4, <1>5 DEF TypeOK

\* Two windows share no chunk.
LEMMA Apart ==
  ASSUME NEW w \in 1..Windows, NEW x \in 1..Windows, w # x,
         NEW c \in InWindow(w)
  PROVE  c \notin InWindow(x)
  BY WindowCount, WindowAssumption

LEMMA Requests ==
  ASSUME NEW c \in Chunk
  PROVE  /\ Original(c) \in Request /\ Repair(c) \in Request
         /\ Original(c) # Repair(c)
         /\ Original(c).chunk = c /\ ~Original(c).repair
         /\ Repair(c).chunk = c /\ Repair(c).repair
  BY DEF Original, Repair, Request

\* Every request is one of these two.
LEMMA RequestIs ==
  ASSUME NEW r \in Request
  PROVE  r.chunk \in Chunk /\ r = IF r.repair THEN Repair(r.chunk) ELSE Original(r.chunk)
  BY DEF Original, Repair, Request

-----------------------------------------------------------------------------
(* Shape.                                                                  *)

AtWork == {"reserve", "dispatch", "repair", "repairing"}

\* The coordinator's place fits the window, and calls are made only there.
PlaceFits ==
    /\ pc \in AtWork => Here <= Windows
    /\ pc \in {"reserve", "repairing"} => pos <= Len(Asking(Here))
    /\ pc \notin {"reserve", "dispatch", "repairing"} => job = NoJobs

LEMMA HereFacts ==
  ASSUME TypeOK, PlaceFits
  PROVE  /\ Len(commits) \in Nat /\ Here \in Nat \ {0} /\ DOMAIN commits = 1..Len(commits)
         /\ pc \in AtWork => Here \in 1..Windows
         /\ pc \in {"reserve", "repairing"} => ChunkAt \in InWindow(Here) /\ ChunkAt \in Chunk
         /\ pc = "repair" /\ ~AtEnd => ChunkAt \in InWindow(Here) /\ ChunkAt \in Chunk
<1>1. Len(commits) \in Nat /\ DOMAIN commits = 1..Len(commits) /\ Here \in Nat \ {0}
  BY DEF TypeOK, Here
<1>2. pc \in AtWork => Here \in 1..Windows
  BY <1>1, WindowCount DEF PlaceFits
<1>3. pos \in Nat \ {0}
  BY DEF TypeOK
<1>4. ASSUME pc \in AtWork, pos <= Len(Asking(Here))
      PROVE  ChunkAt \in InWindow(Here) /\ ChunkAt \in Chunk
  BY <1>2, <1>3, <1>4, AskingFacts DEF ChunkAt
<1>5. ASSUME pc \in AtWork, ~AtEnd
      PROVE  pos <= Len(Asking(Here))
  BY <1>2, <1>3, <1>5, AskingFacts DEF AtEnd
<1> QED
  BY <1>1, <1>2, <1>4, <1>5 DEF PlaceFits, AtWork

\* The records of repairs can be counted.
LEMMA RecordsFinite ==
  ASSUME TypeOK
  PROVE  IsFiniteSet(RepairRecords) /\ Repairs \in Nat
<1> DEFINE Of(c) == {c} \X (1..tries[Repair(c)])
           T == {Of(c) : c \in Chunk}
           f == [c \in Chunk |-> Of(c)]
<1>1. f \in Surjection(Chunk, T)
  BY DEF Surjection
<1>2. IsFiniteSet(T)
  BY <1>1, WindowAssumption, FS_Surjection
<1>3. ASSUME NEW c \in Chunk
      PROVE  IsFiniteSet(Of(c))
  <2>1. tries[Repair(c)] \in Int /\ 1 \in Int
    BY Requests DEF TypeOK
  <2>2. IsFiniteSet({c}) /\ IsFiniteSet(1..tries[Repair(c)])
    BY <2>1, FS_Singleton, FS_Interval
  <2> QED
    BY <2>2, FS_Product
<1>4. IsFiniteSet(UNION T)
  BY <1>2, <1>3, FS_UNION
<1> QED
  BY <1>4, FS_CardinalityType DEF RepairRecords, Repairs

LEMMA EnqueueType ==
  ASSUME TypeOK, NEW r \in Request, Enqueue(r)
  PROVE  /\ tries' \in [Request -> Nat] /\ calls' \in Nat /\ repairs' \in Nat
         /\ last' \in [Request -> {"none", "invalid", "retryable"}]
         /\ job' \in [Request -> {"none", "queued", "sent", "failed"}]
  BY DEF Enqueue, TypeOK

LEMMA NoJobsType == NoJobs \in [Request -> {"none", "queued", "sent", "failed"}]
  BY DEF NoJobs

LEMMA ForgetType ==
  ASSUME Forget
  PROVE  /\ pc' = "idle" /\ budget' \in Budgets \cup {NoBudget} /\ pos' \in Nat \ {0}
         /\ job' \in [Request -> {"none", "queued", "sent", "failed"}]
         /\ blocked' \in BOOLEAN /\ fixed' \subseteq Chunk
         /\ calls' \in Nat /\ repairs' \in Nat /\ opened' \in Nat /\ retried' \in Nat
<1>1. blocked' \in BOOLEAN
  BY DEF Forget
<1>2. /\ pc' = "idle" /\ budget' = NoBudget /\ pos' = 1 /\ job' = NoJobs /\ fixed' = {}
      /\ calls' = 0 /\ repairs' = 0 /\ opened' = 0 /\ retried' = 0
  BY DEF Forget
<1> QED
  BY <1>1, <1>2, NoJobsType

LEMMA TypeNext ==
  ASSUME TypeOK, PlaceFits, [Next]_vars
  PROVE  TypeOK'
<1> USE WindowCount DEF ledger, published, counters, coordinator, reader, bounds
<1>1. CASE UNCHANGED vars
  BY <1>1 DEF vars, TypeOK
<1>2. ASSUME NEW b \in Budgets, Start(b)
      PROVE  TypeOK'
  BY <1>2, RecordsFinite DEF Start, TypeOK
<1>3. CASE Open
  BY <1>3 DEF Open, TypeOK
<1>4. CASE Reserve
  <2>1. ChunkAt \in Chunk
    BY <1>4, HereFacts DEF Reserve
  <2>2. Original(ChunkAt) \in Request
    BY <2>1, Requests
  <2>3. pos' \in Nat \ {0} /\ pc' \in {"reserve", "dispatch"} /\ blocked' \in BOOLEAN
    <3>1. pos' \in {pos, pos + 1} /\ pc' \in {"reserve", "dispatch"}
      BY <1>4 DEF Reserve, NextRequest
    <3>2. blocked' = blocked \/ blocked' = TRUE
      BY <1>4 DEF Reserve
    <3>3. pos' \in Nat \ {0}
      BY <3>1 DEF TypeOK
    <3>4. blocked' \in BOOLEAN
      BY <3>2 DEF TypeOK
    <3> QED
      BY <3>1, <3>3, <3>4
  <2>4. /\ tries' \in [Request -> Nat] /\ calls' \in Nat /\ repairs' \in Nat
        /\ last' \in [Request -> {"none", "invalid", "retryable"}]
        /\ job' \in [Request -> {"none", "queued", "sent", "failed"}]
    BY <1>4, <2>2, EnqueueType DEF Reserve, TypeOK
  <2> QED
    BY <1>4, <2>3, <2>4 DEF Reserve, TypeOK
<1>5. CASE Join
  BY <1>5 DEF Join, TypeOK
<1>6. CASE AskRepair
  <2>1. ChunkAt \in Chunk
    BY <1>6, HereFacts DEF AskRepair
  <2>2. Repair(ChunkAt) \in Request
    BY <2>1, Requests
  <2>3. pos' \in Nat \ {0} /\ pc' \in {"repair", "repairing", "publish"} /\ fixed' \subseteq Chunk
    <3>1. /\ pos' \in {pos, pos + 1} /\ pc' \in {"repair", "repairing", "publish"}
          /\ fixed' \in {fixed, fixed \cup {ChunkAt}}
      BY <1>6 DEF AskRepair
    <3> QED
      BY <2>1, <3>1 DEF TypeOK
  <2>4. /\ tries' \in [Request -> Nat] /\ calls' \in Nat /\ repairs' \in Nat
        /\ last' \in [Request -> {"none", "invalid", "retryable"}]
        /\ job' \in [Request -> {"none", "queued", "sent", "failed"}]
    BY <1>6, <2>2, EnqueueType DEF AskRepair, TypeOK
  <2> QED
    BY <1>6, <2>3, <2>4 DEF AskRepair, TypeOK
<1>7. CASE Repaired
  <2>1. ChunkAt \in Chunk
    BY <1>7, HereFacts DEF Repaired
  <2> QED
    BY <1>7, <2>1 DEF Repaired, TypeOK
<1>8. CASE Commit
  <2>1. Here <= Windows /\ Len(commits) \in Nat
    BY <1>8, HereFacts DEF Commit, AtWork
  <2>2. PICK c \in BOOLEAN :
          /\ commits' = Append(commits, [repaired |-> fixed, concepts |-> c])
          /\ pc' \in {"publish", "window"}
    <3>1. HasConcepts \in BOOLEAN
      BY DEF HasConcepts, TypeOK
    <3> QED
      BY <1>8, <3>1 DEF Commit
  <2>3. [repaired |-> fixed, concepts |-> c] \in [repaired : SUBSET Chunk, concepts : BOOLEAN]
    BY DEF TypeOK
  <2>4. /\ commits' \in Seq([repaired : SUBSET Chunk, concepts : BOOLEAN])
        /\ Len(commits') = Len(commits) + 1
    BY <2>2, <2>3 DEF TypeOK
  <2> QED
    BY <1>8, <2>1, <2>2, <2>4 DEF Commit, TypeOK, Here
<1>9. CASE Publish
  <2>1. final' \in BOOLEAN
    BY <1>9 DEF Publish, Complete
  <2> QED
    BY <1>9, <2>1 DEF Publish, TypeOK
<1>10. CASE Point
  <2>1. latest' \in 0..Windows
    BY <1>10, HereFacts DEF Point, TypeOK
  <2> QED
    BY <1>10, <2>1, ForgetType DEF Point, TypeOK
<1>11. ASSUME NEW r \in Request, Ask(r)
       PROVE  TypeOK'
  BY <1>11 DEF Ask, TypeOK
<1>12. ASSUME NEW r \in Request, Answer(r)
       PROVE  TypeOK'
  BY <1>12 DEF Answer, TypeOK
<1>13. ASSUME NEW r \in Request, Retry(r)
       PROVE  TypeOK'
  <2>1. /\ tries' \in [Request -> Nat] /\ calls' \in Nat /\ repairs' \in Nat
        /\ last' \in [Request -> {"none", "invalid", "retryable"}]
        /\ job' \in [Request -> {"none", "queued", "sent", "failed"}]
    BY <1>13, EnqueueType DEF Retry, TypeOK
  <2>2. retried' \in Nat
    <3>1. retried' = retried \/ retried' = retried + 1
      BY <1>13 DEF Retry
    <3> QED
      BY <3>1 DEF TypeOK
  <2>3. blocked' = blocked \/ blocked' = TRUE
    BY <1>13 DEF Retry
  <2>4. blocked' \in BOOLEAN
    BY <2>3 DEF TypeOK
  <2> QED
    BY <1>13, <2>1, <2>2, <2>4 DEF Retry, TypeOK
<1>14. CASE Status
  <2>1. seen' \in 0..Windows /\ found' \in 0..Windows \cup {None}
    <3>1. CASE ListCommits
      BY <3>1, HereFacts DEF ListCommits, TypeOK
    <3>2. CASE ReadReport
      BY <3>2 DEF ReadReport, TypeOK
    <3>3. CASE Refresh
      BY <3>3, HereFacts DEF Refresh, TypeOK
    <3> QED
      BY <1>14, <3>1, <3>2, <3>3 DEF Status
  <2> QED
    BY <1>14, <2>1, ZenonT(30) DEF Status, ListCommits, ReadReport, Refresh, TypeOK
<1>15. CASE Kill
  <2>1. kills' \in 0..MaxFaults
    BY <1>15, WindowAssumption DEF Kill, TypeOK
  <2> QED
    BY <1>15, <2>1, ForgetType DEF Kill, TypeOK
<1>16. ASSUME NEW r \in Request, FailCall(r)
       PROVE  TypeOK'
  <2>1. failures' \in 0..MaxFaults
    BY <1>16, WindowAssumption DEF FailCall, TypeOK
  <2>2. /\ last' \in [Request -> {"none", "invalid", "retryable"}]
        /\ job' \in [Request -> {"none", "queued", "sent", "failed"}]
        /\ blocked' \in BOOLEAN
    BY <1>16 DEF FailCall, TypeOK
  <2> QED
    BY <1>16, <2>1, <2>2 DEF FailCall, TypeOK
<1> QED
  BY <1>1, <1>2, <1>3, <1>4, <1>5, <1>6, <1>7, <1>8, <1>9, <1>10, <1>11, <1>12, <1>13,
     <1>14, <1>15, <1>16 DEF Next, Step

LEMMA PlaceNext ==
  ASSUME TypeOK, PlaceFits, [Next]_vars
  PROVE  PlaceFits'
<1> USE DEF ledger, published, counters, coordinator, reader, bounds, AtWork
<1>1. CASE UNCHANGED <<mode, commits, pc, pos, job>>
  BY <1>1 DEF PlaceFits, Here, Asking
<1>2. CASE Open
  <2>1. CASE pc' = "reserve"
    <3>1. Here \in 1..Windows /\ pos' = 1 /\ UNCHANGED <<mode, commits, job>>
      BY <1>2, <2>1, HereFacts, WindowCount DEF Open
    <3>2. Len(Asking(Here)) >= 1
      BY <3>1, AskingFacts
    <3> QED
      BY <2>1, <3>1, <3>2 DEF PlaceFits, Here, Asking
  <2>2. CASE pc' = "publish"
    BY <1>2, <2>2 DEF Open, PlaceFits
  <2> QED
    BY <1>2, <2>1, <2>2 DEF Open
<1>3. CASE Reserve
  <2>1. Here \in 1..Windows /\ UNCHANGED <<mode, commits>> /\ pos \in Nat \ {0}
    BY <1>3, HereFacts DEF Reserve, TypeOK
  <2>2. Len(Asking(Here)) \in Nat
    BY <2>1, AskingFacts
  <2>3. pc' = "dispatch" \/ (pc' = "reserve" /\ pos < Len(Asking(Here)) /\ pos' = pos + 1)
    BY <1>3 DEF Reserve, NextRequest
  <2> QED
    BY <2>1, <2>2, <2>3 DEF PlaceFits, Here, Asking
<1>4. CASE Join
  BY <1>4 DEF Join, PlaceFits, Here, Asking
<1>5. CASE AskRepair
  <2>1. Here \in 1..Windows /\ UNCHANGED <<mode, commits>> /\ pos \in Nat \ {0} /\ job = NoJobs
    BY <1>5, HereFacts DEF AskRepair, TypeOK, PlaceFits
  <2>2. Len(Asking(Here)) \in Nat /\ ~(pos > Len(Asking(Here)))
    BY <1>5, <2>1, AskingFacts DEF AskRepair, AtEnd
  <2>3. \/ pc' = "repairing" /\ pos' = pos
        \/ pc' \in {"repair", "publish"} /\ job' = job
    BY <1>5 DEF AskRepair
  <2> QED
    BY <2>1, <2>2, <2>3 DEF PlaceFits, Here, Asking
<1>6. CASE Repaired
  BY <1>6 DEF Repaired, PlaceFits, Here, Asking
<1>7. CASE Commit
  BY <1>7 DEF Commit, PlaceFits
<1>8. CASE Publish \/ Point \/ Kill \/ \E b \in Budgets : Start(b)
  BY <1>8 DEF Publish, Point, Kill, Start, Forget, PlaceFits
<1>9. ASSUME NEW r \in Request, Ask(r) \/ Answer(r) \/ Retry(r) \/ FailCall(r)
      PROVE  PlaceFits'
  <2>1. job # NoJobs /\ UNCHANGED <<mode, commits, pc, pos>>
    BY <1>9 DEF Ask, Answer, Retry, FailCall, NoJobs
  <2> QED
    BY <2>1 DEF PlaceFits, Here, Asking
<1> QED
  BY <1>1, <1>2, <1>3, <1>4, <1>5, <1>6, <1>7, <1>8, <1>9
     DEF Next, Step, Status, ListCommits, ReadReport, Refresh, vars

-----------------------------------------------------------------------------
(* Calls and answers.                                                      *)

\* What holds of every request: its calls are on record, one that is under way
\* before it is made; only a request without an answer is called, and only one
\* of the window at work.
CallFacts(r) ==
    /\ asked[r] <= tries[r]
    /\ job[r] = "queued" => asked[r] < tries[r]
    /\ job[r] # "none" => /\ tries[r] > 0
                          /\ response[r] = "none"
                          /\ r.chunk \in InWindow(Here)

\* A repair is asked for only what a chunk's answer proposed.
RepairFacts(c) ==
    /\ tries[Repair(c)] > 0 => response[Original(c)] = "faulty"
    /\ response[Original(c)] = "faulty" => mode = "chunked"

Calls == \A r \in Request : CallFacts(r)
RepairsKnown == \A c \in Chunk : RepairFacts(c)

\* What a step may do to a request: reserve it, if it is one of the window at
\* work and has no answer, call it, or record its answer.
Reserved(r) ==
    tries'[r] # tries[r] =>
        /\ tries'[r] = tries[r] + 1 /\ asked'[r] = asked[r] /\ response'[r] = response[r]
        /\ response[r] = "none" /\ r.chunk \in InWindow(Here) /\ pc \in AtWork
        /\ r.repair => response[Original(r.chunk)] = "faulty"

Answered(r) ==
    response'[r] # response[r] =>
        /\ job[r] = "sent" /\ asked'[r] = asked[r] /\ tries'[r] = tries[r]
        /\ response'[r] = "faulty" => mode = "chunked" /\ ~r.repair

Called(r) ==
    asked'[r] # asked[r] =>
        job[r] = "queued" /\ asked'[r] = asked[r] + 1 /\ tries'[r] = tries[r]

Moved(r) ==
    /\ \/ job'[r] \in {job[r], "none"}
       \/ job'[r] = "queued" /\ tries'[r] = tries[r] + 1
       \/ job[r] = "queued" /\ job'[r] = "sent"
       \/ job[r] = "sent" /\ job'[r] = "failed"
    /\ job'[r] = "queued" => tries'[r] = tries[r] + 1 \/ asked'[r] = asked[r]
    /\ job'[r] # "none" => response'[r] = response[r]

Recorded(r) == Reserved(r) /\ Answered(r) /\ Called(r) /\ Moved(r)

LEMMA RecordedSame ==
  ASSUME NEW r, tries'[r] = tries[r], response'[r] = response[r], asked'[r] = asked[r],
         job'[r] \in {job[r], "none"}
  PROVE  Recorded(r)
  BY DEF Recorded, Reserved, Answered, Called, Moved

\* Reserving one request leaves all others as they are.
LEMMA EnqueueAt ==
  ASSUME TypeOK, NEW q \in Request, Enqueue(q), NEW r \in Request
  PROVE  /\ r = q => tries'[r] = tries[r] + 1 /\ job'[r] = "queued"
         /\ r # q => tries'[r] = tries[r] /\ job'[r] = job[r]
  BY DEF Enqueue, TypeOK

LEMMA RecordedNext ==
  ASSUME TypeOK, PlaceFits, Calls, RepairsKnown, [Next]_vars, NEW r \in Request
  PROVE  Recorded(r)
<1> USE DEF ledger, published, counters, coordinator, reader, bounds
<1>1. CASE UNCHANGED <<tries, response, asked>> /\ (job' = job \/ job' = NoJobs)
  <2>1. job'[r] \in {job[r], "none"}
    BY <1>1 DEF NoJobs
  <2> QED
    BY <1>1, <2>1, RecordedSame
<1>2. ASSUME NEW q \in Request, Enqueue(q), UNCHANGED <<response, asked>>,
             response[q] = "none", q.chunk \in InWindow(Here), pc \in AtWork,
             q.repair => response[Original(q.chunk)] = "faulty"
      PROVE  Recorded(r)
  <2>1. tries[r] \in Nat
    BY DEF TypeOK
  <2>2. CASE r = q
    BY <1>2, <2>1, <2>2, EnqueueAt DEF Recorded, Reserved, Answered, Called, Moved
  <2>3. CASE r # q
    BY <1>2, <2>3, EnqueueAt, RecordedSame
  <2> QED
    BY <2>2, <2>3
<1>3. CASE Reserve
  <2>1. ChunkAt \in Chunk /\ ChunkAt \in InWindow(Here) /\ pc \in AtWork
    BY <1>3, HereFacts DEF Reserve, AtWork
  <2>2. CASE tries' = tries /\ job' = job
    BY <1>1, <1>3, <2>2 DEF Reserve
  <2>3. CASE Enqueue(Original(ChunkAt)) /\ response[Original(ChunkAt)] = "none"
    BY <1>2, <1>3, <2>1, <2>3, Requests DEF Reserve
  <2> QED
    BY <1>3, <2>2, <2>3 DEF Reserve
<1>4. CASE AskRepair
  <2>1. ChunkAt \in Chunk /\ ChunkAt \in InWindow(Here) /\ pc \in AtWork
    BY <1>4, HereFacts DEF AskRepair, AtWork
  <2>2. CASE tries' = tries /\ job' = job
    BY <1>1, <1>4, <2>2 DEF AskRepair
  <2>3. CASE /\ Enqueue(Repair(ChunkAt)) /\ response[Repair(ChunkAt)] = "none"
             /\ response[Original(ChunkAt)] = "faulty"
    BY <1>2, <1>4, <2>1, <2>3, Requests DEF AskRepair
  <2> QED
    BY <1>4, <2>2, <2>3 DEF AskRepair
<1>5. ASSUME NEW q \in Request, Ask(q)
      PROVE  Recorded(r)
  <2>1. CASE r = q
    BY <1>5, <2>1 DEF Ask, TypeOK, Recorded, Reserved, Answered, Called, Moved
  <2>2. CASE r # q
    BY <1>5, <2>2, RecordedSame DEF Ask, TypeOK
  <2> QED
    BY <2>1, <2>2
<1>6. ASSUME NEW q \in Request, Answer(q)
      PROVE  Recorded(r)
  <2>1. CASE r = q
    BY <1>6, <2>1 DEF Answer, TypeOK, Recorded, Reserved, Answered, Called, Moved
  <2>2. CASE r # q
    BY <1>6, <2>2, RecordedSame DEF Answer, TypeOK
  <2> QED
    BY <2>1, <2>2
<1>7. ASSUME NEW q \in Request, Retry(q)
      PROVE  Recorded(r)
  <2>1. CASE Enqueue(q)
    <3>1. /\ response[q] = "none" /\ q.chunk \in InWindow(Here) /\ tries[q] > 0
          /\ job # NoJobs
      BY <1>7 DEF Retry, Calls, CallFacts, NoJobs
    <3>2. pc \in AtWork
      BY <3>1 DEF PlaceFits, AtWork
    <3>3. q.repair => response[Original(q.chunk)] = "faulty"
      BY <3>1, RequestIs DEF RepairsKnown, RepairFacts
    <3> QED
      BY <1>2, <1>7, <2>1, <3>1, <3>2, <3>3 DEF Retry
  <2>2. CASE job' = [job EXCEPT ![q] = "none"] /\ tries' = tries
    <3>1. job'[r] \in {job[r], "none"} /\ UNCHANGED <<response, asked>>
      BY <1>7, <2>2 DEF Retry, TypeOK
    <3> QED
      BY <2>2, <3>1, RecordedSame
  <2> QED
    BY <1>7, <2>1, <2>2 DEF Retry
<1>8. ASSUME NEW q \in Request, FailCall(q)
      PROVE  Recorded(r)
  <2>1. CASE r = q
    BY <1>8, <2>1 DEF FailCall, TypeOK, Recorded, Reserved, Answered, Called, Moved
  <2>2. CASE r # q
    BY <1>8, <2>2, RecordedSame DEF FailCall, TypeOK
  <2> QED
    BY <2>1, <2>2
<1>9. CASE \/ UNCHANGED vars \/ Open \/ Join \/ Repaired \/ Commit \/ Publish \/ Point \/ Status
           \/ Kill \/ \E b \in Budgets : Start(b)
  BY <1>1, <1>9 DEF vars, Open, Join, Repaired, Commit, Publish, Point, Status, ListCommits,
     ReadReport, Refresh, Kill, Start, Forget
<1> QED
  BY <1>3, <1>4, <1>5, <1>6, <1>7, <1>8, <1>9 DEF Next, Step

\* The window at work changes only when no call is under way.
LEMMA HereMoves ==
  ASSUME TypeOK, PlaceFits, [Next]_vars
  PROVE  \/ commits' = commits /\ Here' = Here
         \/ /\ pc = "repair" /\ AtEnd /\ pc' \in {"publish", "window"} /\ fixed' = {}
            /\ job = NoJobs /\ job' = NoJobs /\ Here' = Here + 1
            /\ UNCHANGED <<tries, response, asked>>
            /\ \E c \in BOOLEAN :
                 commits' = Append(commits, [repaired |-> fixed, concepts |-> c])
<1> USE DEF ledger, published, counters, coordinator, reader, bounds
<1>1. CASE commits' = commits
  BY <1>1 DEF Here
<1>2. CASE Commit
  <2>1. HasConcepts \in BOOLEAN
    BY DEF HasConcepts, TypeOK
  <2>2. PICK c \in BOOLEAN :
          commits' = Append(commits, [repaired |-> fixed, concepts |-> c])
          /\ pc' \in {"publish", "window"}
    BY <1>2, <2>1 DEF Commit
  <2>3. [repaired |-> fixed, concepts |-> c] \in [repaired : SUBSET Chunk, concepts : BOOLEAN]
    BY DEF TypeOK
  <2>4. Len(commits') = Len(commits) + 1
    BY <2>2, <2>3 DEF TypeOK
  <2> QED
    BY <1>2, <2>2, <2>4 DEF Commit, Here, PlaceFits, TypeOK
<1> QED
  BY <1>1, <1>2 DEF Next, Step, Start, Open, Reserve, Join, AskRepair, Repaired, Publish, Point,
     Ask, Answer, Retry, FailCall, Status, ListCommits, ReadReport, Refresh, Kill, Forget, vars

LEMMA CallsNext ==
  ASSUME TypeOK, PlaceFits, Calls, RepairsKnown, [Next]_vars
  PROVE  Calls' /\ RepairsKnown'
<1>1. ASSUME NEW r \in Request
      PROVE  CallFacts(r)'
  <2>1. Recorded(r) /\ CallFacts(r)
    BY <1>1, RecordedNext DEF Calls
  <2>2. tries[r] \in Nat /\ asked[r] \in Nat
    BY <1>1 DEF TypeOK
  <2>3. CASE Here' = Here
    <3>1. InWindow(Here)' = InWindow(Here)
      BY <2>3 DEF InWindow
    <3> QED
      BY <2>1, <2>2, <2>3, <3>1 DEF Recorded, Reserved, Answered, Called, Moved, CallFacts
  <2>4. CASE job' = NoJobs /\ job = NoJobs /\ UNCHANGED <<tries, response, asked>>
    BY <1>1, <2>1, <2>4 DEF CallFacts, NoJobs
  <2> QED
    BY <2>3, <2>4, HereMoves
<1>2. mode' = mode
  BY DEF Next, Step, Start, Open, Reserve, Join, AskRepair, Repaired, Commit, Publish, Point,
     Ask, Answer, Retry, FailCall, Status, ListCommits, ReadReport, Refresh, Kill, vars
<1>3. ASSUME NEW c \in Chunk
      PROVE  RepairFacts(c)'
  <2>1. /\ Recorded(Repair(c)) /\ Recorded(Original(c)) /\ RepairFacts(c)
        /\ CallFacts(Original(c)) /\ Repair(c).repair /\ Repair(c).chunk = c
    BY <1>3, RecordedNext, Requests DEF RepairsKnown, Calls
  <2>2. tries[Repair(c)] \in Nat
    BY <1>3, Requests DEF TypeOK
  <2> QED
    BY <1>2, <2>1, <2>2 DEF Recorded, Reserved, Answered, RepairFacts, CallFacts
<1> QED
  BY <1>1, <1>3 DEF Calls, RepairsKnown

\* An answer that is there is final.
Final(r) == response[r] # "none" => /\ response'[r] = response[r]
                                    /\ asked'[r] = asked[r] /\ tries'[r] = tries[r]

LEMMA FinalNext ==
  ASSUME TypeOK, PlaceFits, Calls, RepairsKnown, [Next]_vars, NEW r \in Request
  PROVE  Final(r)
<1>1. Recorded(r) /\ CallFacts(r)
  BY RecordedNext DEF Calls
<1> QED
  BY <1>1 DEF Recorded, Reserved, Answered, Called, CallFacts, Final

-----------------------------------------------------------------------------
(* The windows ahead.                                                      *)

\* Nothing was asked about a window that is not yet due.
Ahead ==
    \A w \in 1..Windows : w > Here =>
        \A c \in InWindow(w) : tries[Original(c)] = 0 /\ tries[Repair(c)] = 0

\* A step reserves nothing outside the window at work.
LEMMA OnlyHere ==
  ASSUME TypeOK, PlaceFits, Calls, RepairsKnown, [Next]_vars,
         NEW w \in 1..Windows, w # Here, NEW c \in InWindow(w)
  PROVE  tries'[Original(c)] = tries[Original(c)] /\ tries'[Repair(c)] = tries[Repair(c)]
<1>1. c \in Chunk
  BY AskingFacts
<1>2. pc \in AtWork => c \notin InWindow(Here)
  BY HereFacts, Apart
<1> QED
  BY <1>1, <1>2, Requests, RecordedNext DEF Recorded, Reserved

LEMMA AheadNext ==
  ASSUME TypeOK, PlaceFits, Calls, RepairsKnown, Ahead, [Next]_vars
  PROVE  Ahead'
<1>1. Here \in Nat /\ Here' \in {Here, Here + 1}
  BY HereMoves, HereFacts
<1>2. ASSUME NEW w \in 1..Windows, w > Here', NEW c \in InWindow(w)
      PROVE  tries'[Original(c)] = 0 /\ tries'[Repair(c)] = 0
  <2>1. w > Here /\ w # Here
    BY <1>1, <1>2, WindowCount
  <2> QED
    BY <1>2, <2>1, OnlyHere DEF Ahead
<1> QED
  BY <1>2 DEF Ahead, InWindow, Windows

-----------------------------------------------------------------------------
(* The window at work.                                                     *)

Covered(r) == response[r] # "none" \/ job[r] # "none"
Settled(c) == response[Original(c)] \in {"sound", "faulty"}

\* Unless something was refused or failed, what the coordinator has been through
\* is answered or under way.
Covering ==
    /\ pc = "reserve" /\ ~blocked =>
        \A i \in 1..Len(Asking(Here)) : i < pos => Covered(Original(Asking(Here)[i]))
    /\ pc = "dispatch" /\ ~blocked =>
        \A i \in 1..Len(Asking(Here)) : Covered(Original(Asking(Here)[i]))
    /\ pc = "repairing" /\ ~blocked => Covered(Repair(ChunkAt))

\* Repairs begin when all is answered.
Answers ==
    /\ pc \in {"repair", "repairing"} =>
        \A i \in 1..Len(Asking(Here)) : Settled(Asking(Here)[i])
    /\ \A c \in fixed : response[Repair(c)] # "none"

\* Of the chunks it has been through, every repair ever reserved is taken over.
TakenOver ==
    pc \in {"repair", "repairing"} =>
        \A i \in 1..Len(Asking(Here)) :
            i < pos /\ tries[Repair(Asking(Here)[i])] > 0 =>
                \/ Asking(Here)[i] \in fixed
                \/ pc = "repairing" /\ Asking(Here)[i] = ChunkAt

\* What is covered stays so, or the command is blocked.
LEMMA CoveredNext ==
  ASSUME TypeOK, PlaceFits, Calls, RepairsKnown, [Next]_vars, pc' # "idle",
         NEW r \in Request, Covered(r)
  PROVE  (~blocked' => ~blocked) /\ (Covered(r)' \/ blocked')
<1> USE DEF ledger, published, counters, coordinator, reader, bounds
<1>1. Final(r) /\ (job[r] \notin {"none"} => response[r] = "none")
  BY FinalNext DEF Calls, CallFacts
<1>2. CASE UNCHANGED <<job, blocked>>
  BY <1>1, <1>2 DEF Covered, Final
<1>3. CASE Reserve
  <2>1. ChunkAt \in Chunk
    BY <1>3, HereFacts DEF Reserve
  <2>2. Original(ChunkAt) \in Request
    BY <2>1, Requests
  <2> QED
    <3>1. UNCHANGED job \/ Enqueue(Original(ChunkAt))
      BY <1>3 DEF Reserve
    <3>2. job[r] # "none" => job'[r] # "none"
      BY <2>2, <3>1, EnqueueAt
    <3>3. blocked' = blocked \/ blocked'
      BY <1>3 DEF Reserve
    <3> QED
      BY <1>1, <3>2, <3>3 DEF Covered, Final
<1>4. CASE AskRepair
  <2>1. ChunkAt \in Chunk
    BY <1>4, HereFacts DEF AskRepair
  <2>2. Repair(ChunkAt) \in Request
    BY <2>1, Requests
  <2> QED
    BY <1>1, <1>4, <2>2, EnqueueAt DEF AskRepair, Covered, Final
<1>5. ASSUME NEW q \in Request, Ask(q)
      PROVE  (~blocked' => ~blocked) /\ (Covered(r)' \/ blocked')
  BY <1>1, <1>5 DEF Ask, Covered, Final, TypeOK
<1>6. ASSUME NEW q \in Request, Answer(q)
      PROVE  (~blocked' => ~blocked) /\ (Covered(r)' \/ blocked')
  BY <1>1, <1>6 DEF Answer, Covered, Final, TypeOK
<1>7. ASSUME NEW q \in Request, Retry(q)
      PROVE  (~blocked' => ~blocked) /\ (Covered(r)' \/ blocked')
  <2>1. CASE Enqueue(q) /\ blocked' = blocked
    <3>1. job[r] # "none" => job'[r] # "none"
      BY <2>1, EnqueueAt
    <3> QED
      BY <1>1, <2>1, <3>1 DEF Covered, Final
  <2>2. CASE blocked'
    BY <2>2
  <2> QED
    BY <1>7, <2>1, <2>2 DEF Retry
<1>8. ASSUME NEW q \in Request, FailCall(q)
      PROVE  (~blocked' => ~blocked) /\ (Covered(r)' \/ blocked')
  BY <1>1, <1>8 DEF FailCall, Covered, Final, TypeOK
<1> QED
  BY <1>2, <1>3, <1>4, <1>5, <1>6, <1>7, <1>8 DEF Next, Step, Start, Open, Join, Repaired, Commit,
     Publish, Point, Status, ListCommits, ReadReport, Refresh, Kill, Forget, vars

\* The steps that leave the coordinator's place as it is.
LEMMA Elsewhere ==
  ASSUME TypeOK, PlaceFits, Calls, RepairsKnown, [Next]_vars,
         UNCHANGED <<mode, commits, pc, pos, fixed>>, pc \in AtWork, ~Reserve, ~AskRepair
  PROVE  \A r \in Request : tries'[r] > 0 => tries[r] > 0
<1> USE DEF ledger, published, counters, coordinator, reader, bounds
<1>1. CASE tries' = tries
  BY <1>1
<1>2. ASSUME NEW q \in Request, Retry(q), NEW r \in Request, tries'[r] > 0
      PROVE  tries[r] > 0
  <2>1. tries[q] > 0
    BY <1>2 DEF Retry, Calls, CallFacts
  <2>2. r # q => tries'[r] = tries[r]
    BY <1>2, EnqueueAt DEF Retry
  <2> QED
    BY <1>2, <2>1, <2>2
<1> QED
  BY <1>1, <1>2 DEF Next, Step, Start, Open, Join, Repaired, Commit, Publish, Point, Ask, Answer,
     FailCall, Status, ListCommits, ReadReport, Refresh, Kill, Forget, vars

\* What the coordinator asks about, as requests.
LEMMA AskedHere ==
  ASSUME TypeOK, PlaceFits, pc \in AtWork
  PROVE  /\ Here \in 1..Windows /\ Len(Asking(Here)) \in Nat /\ pos \in Nat \ {0}
         /\ DOMAIN Asking(Here) = 1..Len(Asking(Here))
         /\ \A i \in 1..Len(Asking(Here)) :
              /\ Asking(Here)[i] \in InWindow(Here) /\ Asking(Here)[i] \in Chunk
              /\ Original(Asking(Here)[i]) \in Request /\ Repair(Asking(Here)[i]) \in Request
<1>1. Here \in 1..Windows
  BY HereFacts
<1> QED
  BY <1>1, AskingFacts, Requests DEF TypeOK

\* A place that changes nothing of the window's record keeps its facts.
LEMMA SamePlace ==
  ASSUME TypeOK, PlaceFits, Calls, RepairsKnown, Covering, Answers, TakenOver, [Next]_vars,
         UNCHANGED <<mode, commits, pc, pos, fixed>>, ~Reserve, ~AskRepair
  PROVE  Covering' /\ Answers' /\ TakenOver'
<1>1. /\ Here' = Here /\ Asking(Here)' = Asking(Here) /\ ChunkAt' = ChunkAt
  BY DEF Here, Asking, ChunkAt
<1>2. \A c \in fixed' : response'[Repair(c)] # "none"
  BY Requests, FinalNext DEF Answers, Final, TypeOK
<1>3. CASE pc \notin AtWork
  BY <1>2, <1>3 DEF Covering, Answers, TakenOver, AtWork
<1>4. CASE pc \in AtWork
  <2>1. pc' # "idle"
    BY <1>4 DEF AtWork
  <2>2. \A r \in Request : Covered(r) /\ ~blocked' => ~blocked /\ Covered(r)'
    BY <2>1, CoveredNext
  <2>3. Covering'
    <3>1. pc = "repairing" => Repair(ChunkAt) \in Request
      BY HereFacts, Requests
    <3>2. ~blocked' => ~blocked
      BY <1>4 DEF Next, Step, Start, Open, Join, Repaired, Commit, Publish, Point, Ask, Answer,
         Retry, FailCall, Status, ListCommits, ReadReport, Refresh, Kill, Forget, vars, coordinator,
         ledger, published, counters, reader, bounds, AtWork
    <3> QED
      BY <1>1, <1>4, <2>2, <3>1, <3>2, AskedHere DEF Covering, Covered
  <2>4. Answers'
    <3>1. \A r \in Request : response[r] # "none" => response'[r] = response[r]
      BY FinalNext DEF Final
    <3> QED
      BY <1>1, <1>2, <1>4, <3>1, AskedHere DEF Answers, Settled
  <2>5. TakenOver'
    <3>1. \A r \in Request : tries'[r] > 0 => tries[r] > 0
      BY <1>4, Elsewhere
    <3> QED
      BY <1>1, <1>4, <3>1, AskedHere DEF TakenOver
  <2> QED
    BY <2>3, <2>4, <2>5
<1> QED
  BY <1>3, <1>4

LEMMA WorkNext ==
  ASSUME TypeOK, PlaceFits, Calls, RepairsKnown, Covering, Answers, TakenOver, [Next]_vars
  PROVE  Covering' /\ Answers' /\ TakenOver'
<1> USE DEF ledger, published, counters, coordinator, reader, bounds
<1>0. \A r \in Request : response[r] # "none" => response'[r] = response[r] /\ tries'[r] = tries[r]
  BY FinalNext DEF Final
<1>a. ASSUME fixed' \in {fixed, {}}
      PROVE  \A c \in fixed' : response'[Repair(c)] # "none"
  BY <1>0, <1>a, Requests DEF Answers, TypeOK
<1>1. CASE UNCHANGED <<mode, commits, pc, pos, fixed>> /\ ~Reserve /\ ~AskRepair
  BY <1>1, SamePlace
<1>2. CASE pc' \notin AtWork /\ fixed' \in {fixed, {}}
  BY <1>a, <1>2 DEF Covering, Answers, TakenOver, AtWork
<1>3. CASE Open /\ pc' = "reserve"
  BY <1>a, <1>3 DEF Open, Covering, Answers, TakenOver
<1>4. CASE Reserve
  <2>1. /\ pc \in AtWork /\ pc' \in AtWork /\ pc = "reserve" /\ ChunkAt = Asking(Here)[pos]
        /\ pos <= Len(Asking(Here)) /\ Asking(Here)' = Asking(Here) /\ fixed' = fixed
        /\ pc' \in {"reserve", "dispatch"}
    BY <1>4 DEF Reserve, NextRequest, AtWork, ChunkAt, PlaceFits, Here, Asking
  <2>2. Original(ChunkAt) \in Request
    BY <2>1, AskedHere
  <2>3. \A r \in Request : Covered(r) /\ ~blocked' => ~blocked /\ Covered(r)'
    BY <2>1, CoveredNext DEF AtWork
  <2>4. ~blocked' => /\ \A r \in Request : r = Original(ChunkAt) => Covered(r)'
                     /\ (pc' = "reserve" => pos' = pos + 1)
                     /\ (pc' = "dispatch" => pos = Len(Asking(Here)))
    <3>1. CASE response[Original(ChunkAt)] # "none" /\ NextRequest
      BY <1>0, <2>1, <2>2, <3>1, AskedHere DEF NextRequest, Covered
    <3>2. CASE Enqueue(Original(ChunkAt)) /\ NextRequest
      BY <2>1, <2>2, <3>2, EnqueueAt, AskedHere DEF NextRequest, Covered
    <3>3. CASE blocked'
      BY <3>3
    <3> QED
      BY <1>4, <3>1, <3>2, <3>3 DEF Reserve
  <2>5. ~blocked' => ~blocked
    BY <1>4 DEF Reserve
  <2>6. Covering'
    <3>1. ASSUME ~blocked', NEW i \in 1..Len(Asking(Here)), i < pos \/ i = pos
          PROVE  Covered(Original(Asking(Here)[i]))'
      <4>1. CASE i = pos
        <5>1. Asking(Here)[i] = ChunkAt
          BY <2>1, <4>1
        <5>2. \A r \in Request : r = Original(Asking(Here)[i]) => Covered(r)'
          BY <2>4, <3>1, <5>1
        <5> QED
          BY <2>1, <2>2, <5>1, <5>2 DEF Covered
      <4>2. CASE i < pos
        <5>1. Covered(Original(Asking(Here)[i])) /\ Original(Asking(Here)[i]) \in Request
          BY <2>1, <2>5, <3>1, <4>2, AskedHere DEF Covering
        <5> QED
          BY <2>1, <2>3, <3>1, <5>1 DEF Covered
      <4> QED
        BY <3>1, <4>1, <4>2
    <3> QED
      BY <2>1, <2>4, <3>1, AskedHere DEF Covering
  <2> QED
    BY <1>a, <2>1, <2>6 DEF Answers, TakenOver
<1>5. CASE Join /\ pc' = "repair"
  <2>1. /\ pc = "dispatch" /\ job = NoJobs /\ ~blocked /\ pos' = 1 /\ response' = response
        /\ Asking(Here)' = Asking(Here) /\ fixed' = fixed
        /\ \A i \in DOMAIN Asking(Here) : response[Original(Asking(Here)[i])] # "malformed"
    BY <1>5 DEF Join, Here, Asking
  <2>2. \A i \in 1..Len(Asking(Here)) : Settled(Asking(Here)[i])
    BY <2>1, AskedHere DEF Covering, Covered, Settled, NoJobs, AtWork, TypeOK
  <2>3. Answers'
    BY <1>a, <2>1, <2>2 DEF Answers, Settled
  <2>4. TakenOver'
    BY <2>1, AskedHere DEF TakenOver, AtWork
  <2> QED
    BY <1>5, <2>3, <2>4 DEF Covering
<1>6. CASE AskRepair /\ pc' # "publish"
  <2>1. /\ pc = "repair" /\ pc \in AtWork /\ ChunkAt = Asking(Here)[pos] /\ ~AtEnd
        /\ Asking(Here)' = Asking(Here) /\ response' = response
    BY <1>6 DEF AskRepair, AtWork, ChunkAt, Here, Asking
  <2>2. /\ pos \in 1..Len(Asking(Here)) /\ Repair(ChunkAt) \in Request /\ ChunkAt \in Chunk
        /\ Settled(ChunkAt) /\ tries[Repair(ChunkAt)] \in Nat
    BY <2>1, AskedHere DEF AtEnd, Answers, TypeOK
  <2>3. \A i \in 1..Len(Asking(Here)) : Settled(Asking(Here)[i])'
    BY <2>1 DEF Answers, Settled
  <2>4. CASE pc' = "repairing"
    <3>1. Enqueue(Repair(ChunkAt)) /\ UNCHANGED <<pos, fixed>>
      BY <1>6, <2>1, <2>4 DEF AskRepair
    <3>2. Answers'
      BY <1>a, <2>1, <2>3, <3>1 DEF Answers
    <3>3. ChunkAt' = ChunkAt
      BY <2>1, <3>1 DEF ChunkAt
    <3>4. Covering'
      BY <2>2, <2>4, <3>1, <3>3, EnqueueAt DEF Covering, Covered
    <3>5. \A i \in 1..Len(Asking(Here)) :
            Asking(Here)[i] # ChunkAt =>
              tries'[Repair(Asking(Here)[i])] = tries[Repair(Asking(Here)[i])]
      <4> TAKE i \in 1..Len(Asking(Here))
      <4>1. Asking(Here)[i] # ChunkAt => Repair(Asking(Here)[i]) # Repair(ChunkAt)
        BY DEF Repair
      <4> QED
        BY <2>1, <2>2, <3>1, <4>1, EnqueueAt, AskedHere
    <3>6. TakenOver'
      BY <2>1, <2>4, <3>1, <3>3, <3>5 DEF TakenOver
    <3> QED
      BY <3>2, <3>4, <3>6
  <2>5. CASE pc' = "repair"
    <3>1. /\ UNCHANGED <<tries, job>> /\ pos' = pos + 1
          /\ \/ fixed' = fixed /\ (response[Original(ChunkAt)] # "faulty" \/ tries[Repair(ChunkAt)] = 0)
             \/ fixed' = fixed \cup {ChunkAt} /\ response[Repair(ChunkAt)] # "none"
      BY <1>6, <2>1, <2>5 DEF AskRepair
    <3>2. \A c \in fixed' : response'[Repair(c)] # "none"
      BY <2>1, <3>1 DEF Answers
    <3>3. tries[Repair(ChunkAt)] > 0 => ChunkAt \in fixed'
      BY <2>2, <3>1 DEF RepairsKnown, RepairFacts
    <3>4. fixed \subseteq fixed'
      BY <3>1
    <3>5. \A i \in 1..Len(Asking(Here)) :
            i < pos + 1 /\ tries[Repair(Asking(Here)[i])] > 0 => Asking(Here)[i] \in fixed'
      BY <2>1, <2>2, <3>3, <3>4 DEF TakenOver
    <3>6. TakenOver'
      BY <2>1, <2>5, <3>1, <3>5 DEF TakenOver
    <3> QED
      BY <2>1, <2>3, <2>5, <3>2, <3>6 DEF Covering, Answers
  <2> QED
    BY <1>6, <2>4, <2>5 DEF AskRepair
<1>7. CASE Repaired /\ pc' = "repair"
  <2>1. /\ pc = "repairing" /\ job = NoJobs /\ ~blocked /\ pc \in AtWork
        /\ UNCHANGED <<response, tries>> /\ Asking(Here)' = Asking(Here)
        /\ pos' = pos + 1 /\ fixed' = fixed \cup {ChunkAt} /\ ChunkAt = Asking(Here)[pos]
    BY <1>7 DEF Repaired, Here, Asking, AtWork, ChunkAt
  <2>2. Repair(ChunkAt) \in Request
    BY <2>1, HereFacts, Requests
  <2>3. response[Repair(ChunkAt)] # "none"
    BY <2>1, <2>2 DEF Covering, Covered, NoJobs
  <2>4. Answers'
    BY <1>7, <2>1, <2>3 DEF Answers, Settled
  <2>5. TakenOver'
    BY <1>7, <2>1, AskedHere DEF TakenOver
  <2> QED
    BY <1>7, <2>4, <2>5 DEF Covering
<1>8. CASE \/ Open /\ pc' # "reserve"
           \/ Join /\ pc' # "repair"
           \/ AskRepair /\ pc' = "publish"
           \/ Repaired /\ pc' # "repair"
           \/ Commit \/ Publish \/ Point \/ Kill \/ \E b \in Budgets : Start(b)
  <2>1. pc' \notin AtWork /\ fixed' \in {fixed, {}}
    BY <1>8 DEF Open, Join, AskRepair, Repaired, Commit, Publish, Point, Kill, Start, Forget, AtWork
  <2> QED
    BY <1>2, <2>1
<1>9. ASSUME \/ UNCHANGED vars \/ Status
             \/ \E r \in Request : Ask(r) \/ Answer(r) \/ Retry(r) \/ FailCall(r)
      PROVE  Covering' /\ Answers' /\ TakenOver'
  <2>1. UNCHANGED <<mode, commits, pc, pos, fixed>>
    BY <1>9 DEF vars, Status, ListCommits, ReadReport, Refresh, Ask, Answer, Retry, FailCall
  <2> QED
    BY <1>1, <1>4, <1>6, <1>8, <2>1
<1>10. Next \/ UNCHANGED vars
  OBVIOUS
<1>11. CASE Open \/ Join \/ AskRepair \/ Repaired \/ Commit \/ Publish \/ Point \/ Kill
  BY <1>3, <1>5, <1>6, <1>7, <1>8, <1>11
<1> QED
  BY <1>4, <1>8, <1>9, <1>10, <1>11 DEF Next, Step

-----------------------------------------------------------------------------
(* The windows behind.                                                     *)

\* A committed window has its answers and every repair ever reserved for it.
CommitFacts(w) ==
    /\ \A i \in 1..Len(Asking(w)) : Settled(Asking(w)[i])
    /\ \A c \in commits[w].repaired : response[Repair(c)] # "none"
    /\ \A c \in InWindow(w) : tries[Repair(c)] > 0 => c \in commits[w].repaired

Behind == \A w \in 1..Len(commits) : CommitFacts(w)

LEMMA ElementOfSeq ==
  ASSUME NEW S, NEW s \in Seq(S), NEW i \in 1..Len(s)
  PROVE  s[i] \in S
  OBVIOUS

LEMMA BehindNext ==
  ASSUME TypeOK, PlaceFits, Calls, RepairsKnown, Covering, Answers, TakenOver, Behind,
         [Next]_vars
  PROVE  Behind'
<1>1. /\ Len(commits) \in 0..Windows /\ Windows \in Nat /\ Here = Len(commits) + 1
  BY WindowCount, HereFacts DEF TypeOK, Here
<1>0. mode' = mode
  BY DEF Next, Step, Start, Open, Reserve, Join, AskRepair, Repaired, Commit, Publish, Point,
     Ask, Answer, Retry, FailCall, Status, ListCommits, ReadReport, Refresh, Kill, vars
<1>2. ASSUME NEW w \in 1..Len(commits), commits'[w] = commits[w]
      PROVE  CommitFacts(w)'
  <2>1. w \in 1..Windows /\ w # Here /\ CommitFacts(w)
    BY <1>1 DEF Behind
  <2>2. Asking(w)' = Asking(w) /\ InWindow(w)' = InWindow(w)
    BY <1>0 DEF Asking, InWindow
  <2>3. \A i \in 1..Len(Asking(w)) : Original(Asking(w)[i]) \in Request
    BY <2>1, AskingFacts, Requests
  <2>4. commits[w].repaired \subseteq Chunk
    <3>1. commits[w] \in [repaired : SUBSET Chunk, concepts : BOOLEAN]
      <4>1. commits \in Seq([repaired : SUBSET Chunk, concepts : BOOLEAN])
        BY DEF TypeOK
      <4> QED
        BY <4>1, ElementOfSeq
    <3> QED
      BY <3>1
  <2>5. \A r \in Request : response[r] # "none" => response'[r] = response[r]
    BY FinalNext DEF Final
  <2>6. \A c \in InWindow(w) : tries'[Repair(c)] = tries[Repair(c)]
    BY <2>1, OnlyHere
  <2>7. \A i \in 1..Len(Asking(w)) : Settled(Asking(w)[i])'
    BY <2>1, <2>2, <2>3, <2>5 DEF CommitFacts, Settled
  <2>8. \A c \in commits[w].repaired : response'[Repair(c)] # "none"
    BY <2>1, <2>4, <2>5, Requests DEF CommitFacts
  <2> QED
    BY <1>2, <2>1, <2>2, <2>6, <2>7, <2>8 DEF CommitFacts
<1>3. CASE commits' = commits
  BY <1>2, <1>3 DEF Behind
<1>4. CASE /\ pc = "repair" /\ AtEnd /\ UNCHANGED <<tries, response>>
           /\ \E c \in BOOLEAN :
                commits' = Append(commits, [repaired |-> fixed, concepts |-> c])
  <2>1. PICK c \in BOOLEAN : commits' = Append(commits, [repaired |-> fixed, concepts |-> c])
    BY <1>4
  <2>2. /\ Len(commits') = Here /\ commits'[Here].repaired = fixed
        /\ \A w \in 1..Len(commits) : commits'[w] = commits[w]
    <3>1. [repaired |-> fixed, concepts |-> c] \in [repaired : SUBSET Chunk, concepts : BOOLEAN]
      BY DEF TypeOK
    <3> QED
      BY <1>1, <2>1, <3>1 DEF TypeOK
  <2>3. /\ Here \in 1..Windows /\ Len(Asking(Here)) \in Nat /\ pos \in Nat
        /\ \A i \in 1..Len(Asking(Here)) : i < pos
    BY <1>4, AskedHere DEF AtWork, AtEnd
  <2>4. /\ \A i \in 1..Len(Asking(Here)) : Settled(Asking(Here)[i])
        /\ \A d \in fixed : response[Repair(d)] # "none"
    BY <1>4 DEF Answers
  <2>5. ASSUME NEW d \in InWindow(Here), tries[Repair(d)] > 0
        PROVE  d \in fixed
    <3>1. d \in Chunk /\ mode = "chunked"
      BY <2>3, <2>5, AskingFacts DEF RepairsKnown, RepairFacts
    <3>2. PICK i \in 1..Len(Asking(Here)) : d = Asking(Here)[i]
      BY <2>3, <2>5, <3>1, AskingFacts
    <3> QED
      BY <1>4, <2>3, <2>5, <3>2 DEF TakenOver
  <2>6. \A w : w = Here => CommitFacts(w)'
    BY <1>1, <1>0, <1>4, <2>2, <2>4, <2>5 DEF CommitFacts, Settled, Asking, InWindow
  <2> QED
    BY <1>1, <1>2, <2>2, <2>6 DEF Behind
<1> QED
  BY <1>3, <1>4, HereMoves

-----------------------------------------------------------------------------
(* The reports.                                                            *)

\* No report is ahead of the commits, neither the ones on disk nor the one the
\* status command has read: commits are only added.
ReportsFit ==
    /\ final => Len(commits) = Windows
    /\ latest # None => latest <= Len(commits)
    /\ rpc = "refresh" => found # None /\ found <= Len(commits)
    /\ rpc # "refused"

LEMMA ReportsNext ==
  ASSUME TypeOK, PlaceFits, ReportsFit, [Next]_vars
  PROVE  ReportsFit'
<1> USE DEF ledger, published, counters, coordinator, reader, bounds
<1>0. /\ Len(commits) \in Nat /\ Windows \in Nat /\ None \notin Nat
      /\ latest \in Nat \cup {None} /\ found \in Nat \cup {None}
  BY WindowCount, WindowAssumption DEF TypeOK
<1>1. CASE UNCHANGED <<commits, latest, final, rpc, found>>
  BY <1>1 DEF ReportsFit
<1>2. CASE Commit
  <2>1. Len(commits') = Len(commits) + 1 /\ Len(commits) + 1 <= Windows
    <3>1. HasConcepts \in BOOLEAN
      BY DEF HasConcepts, TypeOK
    <3>2. PICK c \in BOOLEAN : commits' = Append(commits, [repaired |-> fixed, concepts |-> c])
      BY <1>2, <3>1 DEF Commit
    <3>3. Here <= Windows
      BY <1>2 DEF Commit, PlaceFits, AtWork
    <3> QED
      BY <3>2, <3>3 DEF Here, TypeOK
  <2>2. ~final
    BY <1>0, <2>1 DEF ReportsFit
  <2>3. UNCHANGED <<latest, final, rpc, found>>
    BY <1>2 DEF Commit
  <2> QED
    BY <1>0, <2>1, <2>2, <2>3 DEF ReportsFit
<1>3. CASE Publish
  BY <1>3 DEF Publish, Complete, ReportsFit
<1>4. CASE Point
  BY <1>0, <1>4 DEF Point, ReportsFit
<1>5. CASE ListCommits
  BY <1>5 DEF ListCommits, ReportsFit
<1>6. CASE ReadReport
  <2>1. (IF final THEN Windows ELSE latest) # None =>
          (IF final THEN Windows ELSE latest) <= Len(commits)
    BY <1>0 DEF ReportsFit
  <2>2. UNCHANGED <<commits, latest, final>> /\ rpc' \in {"idle", "refresh"}
        /\ (rpc' = "refresh" => /\ found' = (IF final THEN Windows ELSE latest)
                                /\ found' # None)
    BY <1>6 DEF ReadReport
  <2> QED
    BY <2>1, <2>2 DEF ReportsFit
<1>7. CASE Refresh
  <2>1. found # None /\ found <= Len(commits)
    BY <1>7 DEF Refresh, ReportsFit
  <2>2. ~(found > Len(commits))
    BY <1>0, <2>1
  <2> QED
    BY <1>7, <2>2 DEF Refresh, ReportsFit
<1> QED
  BY <1>1, <1>2, <1>3, <1>4, <1>5, <1>6, <1>7 DEF Next, Step, Start, Open, Reserve, Join, AskRepair,
     Repaired, Ask, Answer, Retry, FailCall, Status, Kill, vars

-----------------------------------------------------------------------------
(* The budget of repairs.                                                  *)

\* A coordinator at work has counted all repairs, those of commands that were
\* killed included.
Counted == pc # "idle" => repairs = Repairs

\* Reserving a repair adds one record, reserving another request none.
LEMMA RecordAdded ==
  ASSUME TypeOK, NEW r \in Request, Enqueue(r)
  PROVE  Repairs' = IF r.repair THEN Repairs + 1 ELSE Repairs
<1>1. \A c \in Chunk : tries[Repair(c)] \in Nat
  BY Requests DEF TypeOK
<1>2. CASE r.repair
  <2> DEFINE x == <<r.chunk, tries[r] + 1>>
  <2>1. r.chunk \in Chunk /\ r = Repair(r.chunk)
    BY <1>2, RequestIs
  <2>2. \A c \in Chunk : tries'[Repair(c)] = IF c = r.chunk THEN tries[r] + 1
                                                            ELSE tries[Repair(c)]
    BY <2>1, EnqueueAt, Requests
  <2>3. tries[r] \in Nat
    BY DEF TypeOK
  <2>4. 1..(tries[r] + 1) = (1..tries[r]) \cup {tries[r] + 1} /\ tries[r] + 1 \notin 1..tries[r]
    BY <2>3
  <2>5. ASSUME NEW y
        PROVE  y \in RepairRecords' <=> y \in RepairRecords \/ y = x
    <3>1. y \in RepairRecords <=> \E c \in Chunk : y \in {c} \X (1..tries[Repair(c)])
      BY DEF RepairRecords
    <3>2. y \in RepairRecords' <=> \E c \in Chunk : y \in {c} \X (1..tries'[Repair(c)])
      BY DEF RepairRecords, Repair
    <3>3. \A c \in Chunk : y \in {c} \X (1..tries'[Repair(c)]) <=>
            \/ y \in {c} \X (1..tries[Repair(c)])
            \/ c = r.chunk /\ y = x
      BY <2>1, <2>2, <2>4
    <3> QED
      BY <2>1, <3>1, <3>2, <3>3
  <2>6. RepairRecords' = RepairRecords \cup {x}
    BY <2>5
  <2>7. x \notin RepairRecords
    BY <2>1, <2>4 DEF RepairRecords
  <2> QED
    BY <1>2, <2>6, <2>7, RecordsFinite, FS_AddElement DEF Repairs
<1>3. CASE ~r.repair
  <2>1. \A c \in Chunk : tries'[Repair(c)] = tries[Repair(c)]
    BY <1>3, EnqueueAt, Requests
  <2>2. RepairRecords' = RepairRecords
    BY <2>1 DEF RepairRecords, Repair
  <2> QED
    BY <1>3, <2>2 DEF Repairs
<1> QED
  BY <1>2, <1>3

\* A step reserves one request, within the budget, or none.
LEMMA ReservesOne ==
  ASSUME TypeOK, PlaceFits, [Next]_vars
  PROVE  \/ tries' = tries /\ repairs' = repairs /\ (pc' # "idle" => pc # "idle")
         \/ tries' = tries /\ repairs' = Repairs
         \/ tries' = tries /\ pc' = "idle"
         \/ \E r \in Request, automatic \in BOOLEAN :
              Enqueue(r) /\ Admissible(r, automatic) /\ pc # "idle"
<1> USE DEF ledger, published, counters, coordinator, reader, bounds
<1>1. CASE Reserve
  <2>1. Original(ChunkAt) \in Request
    BY <1>1, HereFacts, Requests DEF Reserve
  <2> QED
    BY <1>1, <2>1 DEF Reserve, NextRequest
<1>2. CASE AskRepair
  <2>1. Repair(ChunkAt) \in Request
    BY <1>2, HereFacts, Requests DEF AskRepair
  <2> QED
    BY <1>2, <2>1 DEF AskRepair
<1>3. ASSUME NEW r \in Request, Retry(r)
      PROVE  \/ tries' = tries /\ repairs' = repairs /\ (pc' # "idle" => pc # "idle")
             \/ Enqueue(r) /\ Admissible(r, TRUE) /\ pc # "idle"
  <2>1. pc # "idle"
    BY <1>3 DEF Retry, PlaceFits, NoJobs
  <2> QED
    BY <1>3, <2>1 DEF Retry
<1>4. CASE \E r \in Request : Ask(r) \/ Answer(r) \/ FailCall(r)
  BY <1>4 DEF Ask, Answer, FailCall
<1>5. CASE Open \/ Join \/ Repaired \/ Commit \/ Publish
  BY <1>5 DEF Open, Join, Repaired, Commit, Publish
<1> QED
  BY <1>1, <1>2, <1>3, <1>4, <1>5 DEF Next, Step, Start, Point, Kill, Forget, Status, ListCommits,
     ReadReport, Refresh, vars

LEMMA CountedNext ==
  ASSUME TypeOK, PlaceFits, Counted, [Next]_vars
  PROVE  Counted' /\ (Repairs' > Repairs => Repairs' <= budget.repairs)
<1>0. Repairs \in Nat
  BY RecordsFinite
<1>1. CASE tries' = tries
  <2>1. Repairs' = Repairs
    BY <1>1 DEF Repairs, RepairRecords
  <2>2. Counted'
    <3>1. CASE repairs' = repairs /\ (pc' # "idle" => pc # "idle")
      BY <2>1, <3>1 DEF Counted
    <3>2. CASE repairs' = Repairs \/ pc' = "idle"
      BY <2>1, <3>2 DEF Counted
    <3>3. ~ \E r \in Request : Enqueue(r)
      BY <1>1, EnqueueAt DEF TypeOK
    <3> QED
      BY <3>1, <3>2, <3>3, ReservesOne
  <2> QED
    BY <1>0, <2>1, <2>2
<1>2. ASSUME NEW r \in Request, NEW automatic \in BOOLEAN,
             Enqueue(r), Admissible(r, automatic), pc # "idle"
      PROVE  Counted' /\ (Repairs' > Repairs => Repairs' <= budget.repairs)
  <2>1. repairs = Repairs /\ budget.repairs \in Nat
    BY <1>2, WindowAssumption DEF Counted, TypeOK, Budget, NoBudget
  <2>2. repairs' = Repairs'
    BY <1>2, <2>1, RecordAdded DEF Enqueue
  <2>3. Repairs' > Repairs => r.repair /\ Repairs' = repairs + 1
    BY <1>0, <1>2, <2>1, RecordAdded
  <2>4. r.repair => repairs < budget.repairs
    BY <1>2 DEF Admissible
  <2> QED
    BY <1>0, <2>1, <2>2, <2>3, <2>4 DEF Counted
<1> QED
  BY <1>1, <1>2, ReservesOne

-----------------------------------------------------------------------------
(* The invariant.                                                          *)

Inv == TypeOK /\ PlaceFits /\ Calls /\ RepairsKnown /\ Ahead /\ Covering /\ Answers /\ TakenOver
       /\ Behind /\ ReportsFit /\ Counted

LEMMA InvInit == Init => Inv
<1> SUFFICES ASSUME Init PROVE Inv
  OBVIOUS
<1>1. TypeOK
  <2>1. /\ commits \in Seq([repaired : SUBSET Chunk, concepts : BOOLEAN]) /\ Len(commits) = 0
    BY DEF Init
  <2>2. kills \in 0..MaxFaults /\ failures \in 0..MaxFaults /\ seen \in 0..Windows
    BY WindowAssumption, WindowCount DEF Init
  <2>3. mode \in {"chunked", "whole-document"}
    BY WindowAssumption DEF Init
  <2>4. final \in BOOLEAN /\ blocked \in BOOLEAN
    BY DEF Init
  <2> QED
    BY <2>1, <2>2, <2>3, <2>4, NoJobsType, WindowCount DEF Init, TypeOK
<1>2. PlaceFits /\ Calls /\ Answers /\ TakenOver /\ Covering
  BY DEF Init, PlaceFits, Calls, CallFacts, Answers, TakenOver, Covering, NoJobs, AtWork
<1>3. RepairsKnown
  BY Requests DEF Init, RepairsKnown, RepairFacts
<1>4. Ahead
  BY <1>1, AskingFacts, Requests DEF Init, Ahead
<1>5. Behind
  BY DEF Init, Behind
<1>6. ReportsFit /\ Counted
  BY DEF Init, ReportsFit, Counted
<1> QED
  BY <1>1, <1>2, <1>3, <1>4, <1>5, <1>6 DEF Inv

LEMMA InvNext == Inv /\ [Next]_vars => Inv'
  BY TypeNext, PlaceNext, CallsNext, AheadNext, WorkNext, BehindNext,
     ReportsNext, CountedNext DEF Inv

THEOREM Invariant == Spec => []Inv
  BY InvInit, InvNext, PTL DEF Spec

\* Every reachable state has its shape.
THEOREM TypeCorrect == Spec => []TypeOK
<1>1. Inv => TypeOK
  BY DEF Inv
<1> QED
  BY <1>1, Invariant, PTL

\* No model call (domain/window_run.py, _dispatch) is made that is not on record.
THEOREM CallsAreReserved == Spec => []CallsReserved
<1>1. Inv => CallsReserved
  BY DEF Inv, Calls, CallFacts, CallsReserved
<1> QED
  BY <1>1, Invariant, PTL

\* A committed window left out no repair that was ever paid for.
THEOREM NoRepairIsSkipped == Spec => []RepairNotSkipped
<1>1. Inv => RepairNotSkipped
  BY HereFacts DEF Inv, Behind, CommitFacts, RepairNotSkipped
<1> QED
  BY <1>1, Invariant, PTL

\* A window is asked about only over the committed windows before it.
THEOREM WindowsAreInOrder == Spec => []WindowsInOrder
<1>1. Inv => WindowsInOrder
  <2> SUFFICES ASSUME Inv, NEW w \in 1..Windows, NEW i \in DOMAIN Asking(w)
               PROVE  LET c == Asking(w)[i] IN
                      /\ w <= Len(commits) => response[Original(c)] \in {"sound", "faulty"}
                      /\ w <= Len(commits) /\ c \in commits[w].repaired
                           => response[Repair(c)] # "none"
                      /\ w > Here => tries[Original(c)] = 0 /\ tries[Repair(c)] = 0
    BY DEF WindowsInOrder
  <2>1. i \in 1..Len(Asking(w)) /\ Asking(w)[i] \in InWindow(w)
    BY AskingFacts DEF Inv
  <2>2. w <= Len(commits) => CommitFacts(w)
    BY HereFacts DEF Inv, Behind
  <2> QED
    BY <2>1, <2>2 DEF Inv, CommitFacts, Settled, Ahead
<1> QED
  BY <1>1, Invariant, PTL

\* An answer that was recorded is neither replaced nor asked for again.
THEOREM AnswersAreFinal == Spec => AnswersFinal
<1>1. Inv /\ [Next]_vars => [\A r \in Request : Final(r)]_vars
  BY FinalNext DEF Inv
<1> QED
  BY <1>1, Invariant, PTL DEF Spec, AnswersFinal, Final

\* However a coordinator runs on beside it, the status command, which takes no
\* lock, refuses no run: it never meets a report that is ahead of the commits.
THEOREM StatusIsAccepted == Spec => []StatusAccepts
<1>1. Inv => StatusAccepts
  BY DEF Inv, ReportsFit, StatusAccepts
<1> QED
  BY <1>1, Invariant, PTL

\* No repair is reserved beyond the budget, which counts the repairs of all
\* commands before, however they ended.
THEOREM RepairsAreBounded == Spec => RepairsBounded
<1>1. Inv /\ [Next]_vars => (Repairs' > Repairs => Repairs' <= budget.repairs)
  BY CountedNext DEF Inv
<1> QED
  BY <1>1, Invariant, PTL DEF Spec, RepairsBounded
=============================================================================
