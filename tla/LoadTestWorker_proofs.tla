------------------------ MODULE LoadTestWorker_proofs ------------------------
(***************************************************************************)
(* Proofs about the load-test workers: which tests exclude each other,     *)
(* which scores are sent twice, and which outcomes can be lost, for any    *)
(* number of workers, requests, teams and failures.                        *)
(*                                                                         *)
(* The argument: the pop receipt names the one worker that has a request,  *)
(* unless its message came back while it was worked on; a worker's step    *)
(* then only concerns its own request (Frame), and what the others rely    *)
(* on, that a request taken is shown as running, stays.                    *)
(***************************************************************************)
EXTENDS LoadTestWorker, TLAPS

Bad == unmarked \cup redelivered

Marked(w) == pc[w] \in {"check", "acquire", "test", "post"}
Passed(w) == pc[w] \in {"acquire", "test", "post"}

\* A worker holds its message and shows its request as running, and each step
\* of markFailedAndDrop that leaves nothing behind is a fault more.
WorkerOK(w) ==
    /\ job[w] = None <=> pc[w] = "poll"
    /\ job[w] # None /\ job[w] \notin redelivered =>
          message[job[w]] = "hidden" /\ receipt[job[w]] = w
    /\ Marked(w) /\ job[w] \notin Bad => Busy(job[w])
    /\ pc[w] = "release" => job[w] \in scored
    /\ pc[w] = "dead_letter" => faults > 0
    /\ pc[w] = "fail" => job[w] \in dlq \/ faults > 1
    /\ pc[w] = "delete" =>
          Recorded(job[w]) \/ job[w] \in malformed \cup redelivered \/ faults > 2

\* A score taken without a fault is on its way to the deletion of its message.
Handled(r) ==
    \/ message[r] = "deleted"
    \/ \E w \in Workers : job[w] = r /\ pc[w] \in {"release", "delete"}

RequestOK(r) ==
    /\ row[r] = "finished" => r \in scored
    /\ r \in again => r \in redelivered \/ faults > 0
    /\ r \in scored => r \in redelivered \/ Handled(r) \/ faults > 0
    /\ message[r] = "deleted" =>
          Recorded(r) \/ r \in malformed \cup redelivered \/ faults > 2

\* Of two workers of one team that have passed the check, one has a request
\* that could not be entered or was given out twice.
PairOK(v, w) ==
    v # w /\ Passed(v) /\ Passed(w) /\ TeamOf(job[v]) = TeamOf(job[w])
        => {job[v], job[w]} \cap Bad # {}

IInv ==
    /\ TypeOK
    /\ \A w \in Workers : WorkerOK(w)
    /\ \A r \in Requests : RequestOK(r)
    /\ \A v, w \in Workers : PairOK(v, w)

USE WorkerAssumption
-----------------------------------------------------------------------------
(***************************************************************************)
(* What moves, and what a worker's step leaves alone                       *)
(***************************************************************************)

LEMMA GoMoves ==
    ASSUME TypeOK, NEW w \in Workers, NEW label \in PCs, Go(w, label)
    PROVE  /\ pc' \in [Workers -> PCs] /\ job' = job
           /\ pc'[w] = label /\ \A v \in Workers \ {w} : pc'[v] = pc[v]
BY DEF TypeOK, Go

LEMMA LeaveMoves ==
    ASSUME TypeOK, NEW w \in Workers, Leave(w)
    PROVE  /\ pc' \in [Workers -> PCs] /\ job' \in [Workers -> Requests \cup {None}]
           /\ pc'[w] = "poll" /\ job'[w] = None
           /\ \A v \in Workers \ {w} : pc'[v] = pc[v] /\ job'[v] = job[v]
BY DEF TypeOK, Leave, PCs

LEMMA UpsertWrites ==
    ASSUME TypeOK, NEW r \in Requests,
           NEW status \in {"none", "waiting", "running", "finished", "failed"}, Upsert(r, status)
    PROVE  /\ row' \in [Requests -> {"none", "waiting", "running", "finished", "failed"}]
           /\ row'[r] = status /\ \A q \in Requests \ {r} : row'[q] = row[q]
           /\ recent' \subseteq Requests /\ recent' = recent \cup {r}
BY DEF TypeOK, Upsert

LEMMA FaultCounts ==
    ASSUME TypeOK, Fault
    PROVE  faults' \in 0..MaxFaults /\ faults' = faults + 1 /\ faults \in Nat
BY DEF TypeOK, Fault

\* A worker that is not polling has a request.
LEMMA HasJob ==
    ASSUME IInv, NEW w \in Workers, pc[w] # "poll"
    PROVE  job[w] \in Requests /\ job[w] # None
BY DEF IInv, TypeOK, WorkerOK

\* What every step of a worker with a request has in common.
Frame(w) ==
    /\ \A q \in Requests \ {job[w]} : message'[q] = message[q] /\ row'[q] = row[q]
    /\ \/ message'[job[w]] = message[job[w]]
       \/ message'[job[w]] = "deleted" /\ receipt[job[w]] = w
    /\ receipt' = receipt /\ malformed' = malformed /\ redelivered' = redelivered
    /\ recent \subseteq recent'
    /\ scored \subseteq scored' /\ scored' \subseteq scored \cup {job[w]}
    /\ dlq \subseteq dlq' /\ unmarked \subseteq unmarked'
    /\ again' \subseteq again \cup {job[w]}
    /\ faults' >= faults
    /\ \A v \in Workers \ {w} : pc'[v] = pc[v] /\ job'[v] = job[v]

\* So a step is in order when it is for its own worker and request, and moves
\* nobody past the check.
LEMMA FrameKept ==
    ASSUME IInv, NEW w \in Workers, NEW r \in Requests, r = job[w], TypeOK', Frame(w),
           WorkerOK(w)', RequestOK(r)',
           \/ Passed(w)' => Passed(w) /\ job'[w] = job[w]
           \/ \A v \in Workers \ {w} : PairOK(v, w)' /\ PairOK(w, v)'
    PROVE  IInv'
<1>1. r \in Requests /\ faults \in Nat /\ faults' \in Nat
  BY DEF IInv, TypeOK
<1>2. ASSUME NEW v \in Workers, v # w PROVE WorkerOK(v)'
  <2>1. pc'[v] = pc[v] /\ job'[v] = job[v] /\ WorkerOK(v)
    BY <1>2 DEF Frame, IInv
  <2>2. job[v] = r => r \in redelivered
    BY <1>2, <1>1, <2>1 DEF IInv, WorkerOK
  <2>3. job[v] # None => job[v] \in Requests
    BY DEF IInv, TypeOK
  <2>4. CASE job[v] = r
    BY <1>1, <2>1, <2>2, <2>4 DEF Frame, WorkerOK, Marked, Bad
  <2>5. CASE job[v] # r /\ job[v] # None
    <3>1. message'[job[v]] = message[job[v]] /\ row'[job[v]] = row[job[v]]
      BY <2>3, <2>5 DEF Frame
    <3>2. Busy(job[v]) => Busy(job[v])'
      BY <3>1, <2>1 DEF Busy, Frame
    <3>3. Recorded(job[v]) => Recorded(job[v])'
      BY <3>1, <2>1 DEF Recorded, Frame
    <3>4. QED
      BY <1>1, <2>1, <3>1, <3>2, <3>3 DEF Frame, WorkerOK, Marked, Bad
  <2>6. CASE job[v] = None
    BY <2>1, <2>6 DEF WorkerOK, Marked
  <2>7. QED
    BY <2>4, <2>5, <2>6
<1>3. ASSUME NEW q \in Requests, q # r PROVE RequestOK(q)'
  <2>1. message'[q] = message[q] /\ row'[q] = row[q] /\ RequestOK(q)
    BY <1>3 DEF Frame, IInv
  <2>2. Recorded(q) => Recorded(q)'
    BY <2>1 DEF Recorded, Frame
  <2>3. Handled(q) => Handled(q)'
    BY <1>3, <2>1 DEF Handled, Frame
  <2>4. /\ q \in scored' => q \in scored
        /\ q \in again' => q \in again
        /\ faults' >= faults /\ malformed' = malformed /\ redelivered' = redelivered
        /\ scored \subseteq scored'
    BY <1>3 DEF Frame
  <2>5. faults > 0 => faults' > 0
    BY <1>1, <2>4
  <2>6. faults > 2 => faults' > 2
    BY <1>1, <2>4
  <2>7. QED
    BY <2>1, <2>2, <2>3, <2>4, <2>5, <2>6 DEF RequestOK
<1>4. ASSUME NEW u \in Workers, NEW v \in Workers PROVE PairOK(u, v)'
  <2>1. \A x \in Workers \ {w} : Passed(x)' => Passed(x) /\ job'[x] = job[x]
    BY DEF Passed, Frame
  <2>2. PairOK(u, v) /\ Bad \subseteq Bad'
    BY DEF IInv, Bad, Frame
  <2>3. CASE u # w /\ v # w
    BY <2>1, <2>2, <2>3 DEF PairOK
  <2>4. CASE Passed(w)' => Passed(w) /\ job'[w] = job[w]
    BY <2>1, <2>2, <2>4 DEF PairOK
  <2>5. CASE \A x \in Workers \ {w} : PairOK(x, w)' /\ PairOK(w, x)'
    BY <2>3, <2>5 DEF PairOK
  <2>6. QED
    BY <2>4, <2>5
<1>5. QED
  BY <1>2, <1>3, <1>4 DEF IInv
-----------------------------------------------------------------------------
(***************************************************************************)
(* The steps of a worker                                                   *)
(***************************************************************************)

LEMMA DropMalformedKept ==
    ASSUME IInv, NEW w \in Workers, DropMalformed(w)
    PROVE  IInv'
<1> DEFINE r == job[w]
<1>1. /\ TypeOK /\ r \in Requests /\ WorkerOK(w) /\ RequestOK(r) /\ pc[w] = "mark"
      /\ Go(w, "delete") /\ UNCHANGED <<azure, entity, outcome, faults>> /\ r \in malformed
  BY HasJob DEF DropMalformed, IInv
<1>2. /\ pc' \in [Workers -> PCs] /\ job' = job
      /\ pc'[w] = "delete" /\ \A v \in Workers \ {w} : pc'[v] = pc[v]
  BY <1>1, GoMoves DEF PCs
<1>3. TypeOK'
  BY <1>1, <1>2 DEF TypeOK, azure, entity, outcome, history
<1>4. Frame(w)
  BY <1>1, <1>2 DEF Frame, TypeOK, azure, entity, outcome, history
<1>5. WorkerOK(w)'
  BY <1>1, <1>2 DEF WorkerOK, Marked, azure, entity, outcome, history
<1>6. RequestOK(r)'
  BY <1>1, <1>2 DEF RequestOK, Handled, Recorded, azure, entity, outcome, history
<1>7. QED
  BY <1>1, <1>2, <1>3, <1>4, <1>5, <1>6, FrameKept DEF Passed

LEMMA MarkKept ==
    ASSUME IInv, NEW w \in Workers, Mark(w)
    PROVE  IInv'
<1> DEFINE r == job[w]
<1>1. /\ TypeOK /\ r \in Requests /\ WorkerOK(w) /\ RequestOK(r) /\ pc[w] = "mark"
      /\ Go(w, "check") /\ UNCHANGED <<azure, scored, dlq, redelivered, again>>
  BY HasJob DEF Mark, IInv
<1>2. /\ pc' \in [Workers -> PCs] /\ job' = job
      /\ pc'[w] = "check" /\ \A v \in Workers \ {w} : pc'[v] = pc[v]
  BY <1>1, GoMoves DEF PCs
<1>3. CASE Upsert(r, "running") /\ UNCHANGED <<faults, unmarked>>
  <2>1. /\ row' \in [Requests -> {"none", "waiting", "running", "finished", "failed"}]
        /\ row'[r] = "running" /\ \A q \in Requests \ {r} : row'[q] = row[q]
        /\ recent' \subseteq Requests /\ recent' = recent \cup {r}
    BY <1>1, <1>3, UpsertWrites
  <2>2. TypeOK'
    BY <1>1, <1>2, <1>3, <2>1 DEF TypeOK, azure
  <2>3. Frame(w)
    BY <1>1, <1>2, <1>3, <2>1 DEF Frame, TypeOK, azure
  <2>4. WorkerOK(w)'
    BY <1>1, <1>2, <2>1 DEF WorkerOK, Marked, Busy, azure
  <2>5. RequestOK(r)'
    BY <1>1, <1>2, <1>3, <2>1 DEF RequestOK, Handled, Recorded, WorkerOK, azure
  <2>6. QED
    BY <1>1, <1>2, <2>2, <2>3, <2>4, <2>5, FrameKept DEF Passed
<1>4. CASE Fault /\ UNCHANGED entity /\ unmarked' = unmarked \cup {r}
  <2>1. faults' \in 0..MaxFaults /\ faults' = faults + 1 /\ faults \in Nat
    BY <1>1, <1>4, FaultCounts
  <2>2. TypeOK'
    BY <1>1, <1>2, <1>4, <2>1 DEF TypeOK, azure, entity
  <2>3. Frame(w)
    BY <1>1, <1>2, <1>4, <2>1 DEF Frame, TypeOK, azure, entity
  <2>4. WorkerOK(w)'
    BY <1>1, <1>2, <1>4 DEF WorkerOK, Marked, Bad, azure, entity
  <2>5. RequestOK(r)'
    BY <1>1, <1>2, <1>4, <2>1 DEF RequestOK, Handled, Recorded, azure, entity
  <2>6. QED
    BY <1>1, <1>2, <2>2, <2>3, <2>4, <2>5, FrameKept DEF Passed
<1>5. QED
  BY <1>3, <1>4 DEF Mark

\* A request that its worker has not brought to its score is not handled.
LEMMA Unhandled ==
    ASSUME IInv, NEW w \in Workers, pc[w] \notin {"poll", "release", "delete"},
           job[w] \notin redelivered
    PROVE  ~Handled(job[w])
<1>1. job[w] # None /\ message[job[w]] = "hidden" /\ receipt[job[w]] = w
  BY DEF IInv, WorkerOK
<1>2. ASSUME NEW v \in Workers, job[v] = job[w] PROVE v = w
  BY <1>1, <1>2 DEF IInv, WorkerOK
<1>3. QED
  BY <1>1, <1>2 DEF Handled

LEMMA AcquireLockKept ==
    ASSUME IInv, NEW w \in Workers, AcquireLock(w)
    PROVE  IInv'
<1> PICK r \in Requests : r = job[w]
  BY HasJob DEF AcquireLock
<1>1. /\ TypeOK /\ r = job[w] /\ job[w] # None /\ WorkerOK(w) /\ RequestOK(r) /\ pc[w] = "acquire"
      /\ UNCHANGED <<azure, outcome>>
  BY HasJob DEF AcquireLock, IInv
<1>2. ASSUME Go(w, "test")
      PROVE  /\ pc' \in [Workers -> PCs] /\ job' = job
             /\ pc'[w] = "test" /\ \A v \in Workers \ {w} : pc'[v] = pc[v]
  BY <1>1, <1>2, GoMoves DEF PCs
<1>3. ASSUME Leave(w)
      PROVE  /\ pc' \in [Workers -> PCs] /\ job' \in [Workers -> Requests \cup {None}]
             /\ pc'[w] = "poll" /\ job'[w] = None
             /\ \A v \in Workers \ {w} : pc'[v] = pc[v] /\ job'[v] = job[v]
  BY <1>1, <1>3, LeaveMoves
<1>4. CASE Upsert(r, "running") /\ Go(w, "test") /\ UNCHANGED faults
  <2>1. /\ pc' \in [Workers -> PCs] /\ job' = job
        /\ pc'[w] = "test" /\ \A v \in Workers \ {w} : pc'[v] = pc[v]
    BY <1>4, <1>2
  <2>2. /\ row' \in [Requests -> {"none", "waiting", "running", "finished", "failed"}]
        /\ row'[r] = "running" /\ \A q \in Requests \ {r} : row'[q] = row[q]
        /\ recent' \subseteq Requests /\ recent' = recent \cup {r}
    BY <1>1, <1>4, UpsertWrites
  <2>3. TypeOK'
    BY <1>1, <1>4, <2>1, <2>2 DEF TypeOK, azure, outcome, history
  <2>4. Frame(w)
    BY <1>1, <1>4, <2>1, <2>2 DEF Frame, TypeOK, azure, outcome, history
  <2>5. WorkerOK(w)'
    BY <1>1, <1>4, <2>1, <2>2 DEF WorkerOK, Marked, Busy, Bad, Recorded, azure, outcome, history
  <2>6. RequestOK(r)'
    BY <1>1, <1>4, <2>1, <2>2 DEF RequestOK, Handled, Recorded, WorkerOK, azure, outcome, history
  <2>7. QED
    BY <1>1, <2>1, <2>3, <2>4, <2>5, <2>6, FrameKept DEF Passed
<1>5. CASE Fault /\ UNCHANGED entity /\ Leave(w)
  <2>1. /\ pc' \in [Workers -> PCs] /\ job' \in [Workers -> Requests \cup {None}]
        /\ pc'[w] = "poll" /\ job'[w] = None
        /\ \A v \in Workers \ {w} : pc'[v] = pc[v] /\ job'[v] = job[v]
    BY <1>5, <1>3
  <2>2. faults' \in 0..MaxFaults /\ faults' = faults + 1 /\ faults \in Nat
    BY <1>1, <1>5, FaultCounts
  <2>3. TypeOK'
    BY <1>1, <1>5, <2>1, <2>2 DEF TypeOK, azure, entity, outcome, history
  <2>4. Frame(w)
    BY <1>1, <1>5, <2>1, <2>2 DEF Frame, TypeOK, azure, entity, outcome, history
  <2>5. WorkerOK(w)'
    BY <1>1, <1>5, <2>1, <2>2 DEF WorkerOK, Marked
  <2>6. RequestOK(r)'
    BY <1>1, <1>5, <2>1, <2>2 DEF RequestOK, Handled, Recorded, WorkerOK, azure, entity, outcome, history
  <2>7. QED
    BY <1>1, <2>1, <2>3, <2>4, <2>5, <2>6, FrameKept DEF Passed
<1>6. QED
  BY <1>4, <1>5 DEF AcquireLock

LEMMA RunLoadTestKept ==
    ASSUME IInv, NEW w \in Workers, RunLoadTest(w)
    PROVE  IInv'
<1> DEFINE r == job[w]
<1>1. /\ TypeOK /\ r \in Requests /\ WorkerOK(w) /\ RequestOK(r) /\ pc[w] = "test"
      /\ UNCHANGED <<azure, entity, outcome>>
  BY HasJob DEF RunLoadTest, IInv
<1>2. ASSUME Go(w, "post")
      PROVE  /\ pc' \in [Workers -> PCs] /\ job' = job
             /\ pc'[w] = "post" /\ \A v \in Workers \ {w} : pc'[v] = pc[v]
  BY <1>1, <1>2, GoMoves DEF PCs
<1>3. ASSUME Go(w, "dead_letter")
      PROVE  /\ pc' \in [Workers -> PCs] /\ job' = job
             /\ pc'[w] = "dead_letter" /\ \A v \in Workers \ {w} : pc'[v] = pc[v]
  BY <1>1, <1>3, GoMoves DEF PCs
<1>4. CASE Go(w, "post") /\ UNCHANGED faults
  <2>1. /\ pc' \in [Workers -> PCs] /\ job' = job
        /\ pc'[w] = "post" /\ \A v \in Workers \ {w} : pc'[v] = pc[v]
    BY <1>4, <1>2
  <2>2. TypeOK'
    BY <1>1, <1>4, <2>1 DEF TypeOK, azure, entity, outcome, history
  <2>3. Frame(w)
    BY <1>1, <1>4, <2>1 DEF Frame, TypeOK, azure, entity, outcome, history
  <2>4. WorkerOK(w)'
    BY <1>1, <1>4, <2>1 DEF WorkerOK, Marked, Busy, Bad, Recorded, azure, entity, outcome, history
  <2>5. RequestOK(r)'
    BY <1>1, <1>4, <2>1 DEF RequestOK, Handled, Recorded, WorkerOK, azure, entity, outcome, history
  <2>6. QED
    BY <1>1, <2>1, <2>2, <2>3, <2>4, <2>5, FrameKept DEF Passed
<1>5. CASE Fault /\ Go(w, "dead_letter")
  <2>1. /\ pc' \in [Workers -> PCs] /\ job' = job
        /\ pc'[w] = "dead_letter" /\ \A v \in Workers \ {w} : pc'[v] = pc[v]
    BY <1>5, <1>3
  <2>2. faults' \in 0..MaxFaults /\ faults' = faults + 1 /\ faults \in Nat
    BY <1>1, <1>5, FaultCounts
  <2>3. TypeOK'
    BY <1>1, <1>5, <2>1, <2>2 DEF TypeOK, azure, entity, outcome, history
  <2>4. Frame(w)
    BY <1>1, <1>5, <2>1, <2>2 DEF Frame, TypeOK, azure, entity, outcome, history
  <2>5. WorkerOK(w)'
    BY <1>1, <1>5, <2>1, <2>2 DEF WorkerOK, Marked, Busy, Bad, Recorded, azure, entity, outcome, history
  <2>6. RequestOK(r)'
    BY <1>1, <1>5, <2>1, <2>2 DEF RequestOK, Handled, Recorded, WorkerOK, azure, entity, outcome, history
  <2>7. QED
    BY <1>1, <2>1, <2>3, <2>4, <2>5, <2>6, FrameKept DEF Passed
<1>6. QED
  BY <1>4, <1>5 DEF RunLoadTest

LEMMA PostScoreKept ==
    ASSUME IInv, NEW w \in Workers, PostScore(w)
    PROVE  IInv'
<1> DEFINE r == job[w]
<1>1. /\ TypeOK /\ r \in Requests /\ WorkerOK(w) /\ RequestOK(r) /\ pc[w] = "post"
      /\ UNCHANGED <<azure, entity, dlq, unmarked, redelivered>>
      /\ again' = again \cup ({r} \cap scored)
  BY HasJob DEF PostScore, IInv
<1>2. ASSUME Go(w, "release")
      PROVE  /\ pc' \in [Workers -> PCs] /\ job' = job
             /\ pc'[w] = "release" /\ \A v \in Workers \ {w} : pc'[v] = pc[v]
  BY <1>1, <1>2, GoMoves DEF PCs
<1>3. ASSUME Go(w, "dead_letter")
      PROVE  /\ pc' \in [Workers -> PCs] /\ job' = job
             /\ pc'[w] = "dead_letter" /\ \A v \in Workers \ {w} : pc'[v] = pc[v]
  BY <1>1, <1>3, GoMoves DEF PCs
<1>4. CASE scored' = scored \cup {r} /\ Go(w, "release") /\ UNCHANGED faults
  <2>1. /\ pc' \in [Workers -> PCs] /\ job' = job
        /\ pc'[w] = "release" /\ \A v \in Workers \ {w} : pc'[v] = pc[v]
    BY <1>4, <1>2
  <2>2. TypeOK'
    BY <1>1, <1>4, <2>1 DEF TypeOK, azure, entity
  <2>3. Frame(w)
    BY <1>1, <1>4, <2>1 DEF Frame, TypeOK, azure, entity
  <2>4. WorkerOK(w)'
    BY <1>1, <1>4, <2>1 DEF WorkerOK, Marked, Busy, Bad, Recorded, azure, entity
  <2>5. RequestOK(r)'
    BY <1>1, <1>4, <2>1, Unhandled DEF RequestOK, Handled, Recorded, WorkerOK, azure, entity
  <2>6. QED
    BY <1>1, <2>1, <2>2, <2>3, <2>4, <2>5, FrameKept DEF Passed
<1>5. CASE Fault /\ scored' \in {scored, scored \cup {r}} /\ Go(w, "dead_letter")
  <2>1. /\ pc' \in [Workers -> PCs] /\ job' = job
        /\ pc'[w] = "dead_letter" /\ \A v \in Workers \ {w} : pc'[v] = pc[v]
    BY <1>5, <1>3
  <2>2. faults' \in 0..MaxFaults /\ faults' = faults + 1 /\ faults \in Nat
    BY <1>1, <1>5, FaultCounts
  <2>3. TypeOK'
    BY <1>1, <1>5, <2>1, <2>2 DEF TypeOK, azure, entity
  <2>4. Frame(w)
    BY <1>1, <1>5, <2>1, <2>2 DEF Frame, TypeOK, azure, entity
  <2>5. WorkerOK(w)'
    BY <1>1, <1>5, <2>1, <2>2 DEF WorkerOK, Marked, Busy, Bad, Recorded, azure, entity
  <2>6. RequestOK(r)'
    BY <1>1, <1>5, <2>1, <2>2 DEF RequestOK, Handled, Recorded, WorkerOK, azure, entity
  <2>7. QED
    BY <1>1, <2>1, <2>3, <2>4, <2>5, <2>6, FrameKept DEF Passed
<1>6. QED
  BY <1>4, <1>5 DEF PostScore

LEMMA ReleaseLockKept ==
    ASSUME IInv, NEW w \in Workers, ReleaseLock(w)
    PROVE  IInv'
<1> DEFINE r == job[w]
<1>1. /\ TypeOK /\ r \in Requests /\ WorkerOK(w) /\ RequestOK(r) /\ pc[w] = "release"
      /\ Go(w, "delete") /\ UNCHANGED <<azure, outcome>>
  BY HasJob DEF ReleaseLock, IInv
<1>2. ASSUME Go(w, "delete")
      PROVE  /\ pc' \in [Workers -> PCs] /\ job' = job
             /\ pc'[w] = "delete" /\ \A v \in Workers \ {w} : pc'[v] = pc[v]
  BY <1>1, <1>2, GoMoves DEF PCs
<1>3. CASE Upsert(r, "finished") /\ UNCHANGED faults
  <2>1. /\ pc' \in [Workers -> PCs] /\ job' = job
        /\ pc'[w] = "delete" /\ \A v \in Workers \ {w} : pc'[v] = pc[v]
    BY <1>1, <1>2
  <2>2. /\ row' \in [Requests -> {"none", "waiting", "running", "finished", "failed"}]
        /\ row'[r] = "finished" /\ \A q \in Requests \ {r} : row'[q] = row[q]
        /\ recent' \subseteq Requests /\ recent' = recent \cup {r}
    BY <1>1, <1>3, UpsertWrites
  <2>3. TypeOK'
    BY <1>1, <1>3, <2>1, <2>2 DEF TypeOK, azure, outcome, history
  <2>4. Frame(w)
    BY <1>1, <1>3, <2>1, <2>2 DEF Frame, TypeOK, azure, outcome, history
  <2>5. WorkerOK(w)'
    BY <1>1, <1>3, <2>1, <2>2 DEF WorkerOK, Marked, Busy, Bad, Recorded, azure, outcome, history
  <2>6. RequestOK(r)'
    BY <1>1, <1>3, <2>1, <2>2 DEF RequestOK, Handled, Recorded, WorkerOK, azure, outcome, history
  <2>7. QED
    BY <1>1, <2>1, <2>3, <2>4, <2>5, <2>6, FrameKept DEF Passed
<1>4. CASE Fault /\ UNCHANGED entity
  <2>1. /\ pc' \in [Workers -> PCs] /\ job' = job
        /\ pc'[w] = "delete" /\ \A v \in Workers \ {w} : pc'[v] = pc[v]
    BY <1>1, <1>2
  <2>2. faults' \in 0..MaxFaults /\ faults' = faults + 1 /\ faults \in Nat
    BY <1>1, <1>4, FaultCounts
  <2>3. TypeOK'
    BY <1>1, <1>4, <2>1, <2>2 DEF TypeOK, azure, entity, outcome, history
  <2>4. Frame(w)
    BY <1>1, <1>4, <2>1, <2>2 DEF Frame, TypeOK, azure, entity, outcome, history
  <2>5. WorkerOK(w)'
    BY <1>1, <1>4, <2>1, <2>2 DEF WorkerOK, Marked, Busy, Bad, Recorded, azure, entity, outcome, history
  <2>6. RequestOK(r)'
    BY <1>1, <1>4, <2>1, <2>2 DEF RequestOK, Handled, Recorded, WorkerOK, azure, entity, outcome, history
  <2>7. QED
    BY <1>1, <2>1, <2>3, <2>4, <2>5, <2>6, FrameKept DEF Passed
<1>5. QED
  BY <1>3, <1>4 DEF ReleaseLock

LEMMA DeadLetterKept ==
    ASSUME IInv, NEW w \in Workers, DeadLetter(w)
    PROVE  IInv'
<1> DEFINE r == job[w]
<1>1. /\ TypeOK /\ r \in Requests /\ WorkerOK(w) /\ RequestOK(r) /\ pc[w] = "dead_letter"
      /\ Go(w, "fail") /\ UNCHANGED <<azure, entity, scored, history>>
  BY HasJob DEF DeadLetter, IInv
<1>2. ASSUME Go(w, "fail")
      PROVE  /\ pc' \in [Workers -> PCs] /\ job' = job
             /\ pc'[w] = "fail" /\ \A v \in Workers \ {w} : pc'[v] = pc[v]
  BY <1>1, <1>2, GoMoves DEF PCs
<1>3. CASE dlq' = dlq \cup {r} /\ UNCHANGED faults
  <2>1. /\ pc' \in [Workers -> PCs] /\ job' = job
        /\ pc'[w] = "fail" /\ \A v \in Workers \ {w} : pc'[v] = pc[v]
    BY <1>1, <1>2
  <2>2. TypeOK'
    BY <1>1, <1>3, <2>1 DEF TypeOK, azure, entity, history
  <2>3. Frame(w)
    BY <1>1, <1>3, <2>1 DEF Frame, TypeOK, azure, entity, history
  <2>4. WorkerOK(w)'
    BY <1>1, <1>3, <2>1 DEF WorkerOK, Marked, Busy, Bad, Recorded, azure, entity, history
  <2>5. RequestOK(r)'
    BY <1>1, <1>3, <2>1 DEF RequestOK, Handled, Recorded, WorkerOK, azure, entity, history
  <2>6. QED
    BY <1>1, <2>1, <2>2, <2>3, <2>4, <2>5, FrameKept DEF Passed
<1>4. CASE Fault /\ UNCHANGED dlq
  <2>1. /\ pc' \in [Workers -> PCs] /\ job' = job
        /\ pc'[w] = "fail" /\ \A v \in Workers \ {w} : pc'[v] = pc[v]
    BY <1>1, <1>2
  <2>2. faults' \in 0..MaxFaults /\ faults' = faults + 1 /\ faults \in Nat
    BY <1>1, <1>4, FaultCounts
  <2>3. TypeOK'
    BY <1>1, <1>4, <2>1, <2>2 DEF TypeOK, azure, entity, history
  <2>4. Frame(w)
    BY <1>1, <1>4, <2>1, <2>2 DEF Frame, TypeOK, azure, entity, history
  <2>5. WorkerOK(w)'
    BY <1>1, <1>4, <2>1, <2>2 DEF WorkerOK, Marked, Busy, Bad, Recorded, azure, entity, history
  <2>6. RequestOK(r)'
    BY <1>1, <1>4, <2>1, <2>2 DEF RequestOK, Handled, Recorded, WorkerOK, azure, entity, history
  <2>7. QED
    BY <1>1, <2>1, <2>3, <2>4, <2>5, <2>6, FrameKept DEF Passed
<1>5. QED
  BY <1>3, <1>4 DEF DeadLetter

LEMMA MarkFailedKept ==
    ASSUME IInv, NEW w \in Workers, MarkFailed(w)
    PROVE  IInv'
<1> DEFINE r == job[w]
<1>1. /\ TypeOK /\ r \in Requests /\ WorkerOK(w) /\ RequestOK(r) /\ pc[w] = "fail"
      /\ Go(w, "delete") /\ UNCHANGED <<azure, outcome>>
  BY HasJob DEF MarkFailed, IInv
<1>2. ASSUME Go(w, "delete")
      PROVE  /\ pc' \in [Workers -> PCs] /\ job' = job
             /\ pc'[w] = "delete" /\ \A v \in Workers \ {w} : pc'[v] = pc[v]
  BY <1>1, <1>2, GoMoves DEF PCs
<1>3. CASE Upsert(r, "failed") /\ UNCHANGED faults
  <2>1. /\ pc' \in [Workers -> PCs] /\ job' = job
        /\ pc'[w] = "delete" /\ \A v \in Workers \ {w} : pc'[v] = pc[v]
    BY <1>1, <1>2
  <2>2. /\ row' \in [Requests -> {"none", "waiting", "running", "finished", "failed"}]
        /\ row'[r] = "failed" /\ \A q \in Requests \ {r} : row'[q] = row[q]
        /\ recent' \subseteq Requests /\ recent' = recent \cup {r}
    BY <1>1, <1>3, UpsertWrites
  <2>3. TypeOK'
    BY <1>1, <1>3, <2>1, <2>2 DEF TypeOK, azure, outcome, history
  <2>4. Frame(w)
    BY <1>1, <1>3, <2>1, <2>2 DEF Frame, TypeOK, azure, outcome, history
  <2>5. WorkerOK(w)'
    BY <1>1, <1>3, <2>1, <2>2 DEF WorkerOK, Marked, Busy, Bad, Recorded, azure, outcome, history
  <2>6. RequestOK(r)'
    BY <1>1, <1>3, <2>1, <2>2 DEF RequestOK, Handled, Recorded, WorkerOK, azure, outcome, history
  <2>7. QED
    BY <1>1, <2>1, <2>3, <2>4, <2>5, <2>6, FrameKept DEF Passed
<1>4. CASE Fault /\ UNCHANGED entity
  <2>1. /\ pc' \in [Workers -> PCs] /\ job' = job
        /\ pc'[w] = "delete" /\ \A v \in Workers \ {w} : pc'[v] = pc[v]
    BY <1>1, <1>2
  <2>2. faults' \in 0..MaxFaults /\ faults' = faults + 1 /\ faults \in Nat
    BY <1>1, <1>4, FaultCounts
  <2>3. TypeOK'
    BY <1>1, <1>4, <2>1, <2>2 DEF TypeOK, azure, entity, outcome, history
  <2>4. Frame(w)
    BY <1>1, <1>4, <2>1, <2>2 DEF Frame, TypeOK, azure, entity, outcome, history
  <2>5. WorkerOK(w)'
    BY <1>1, <1>4, <2>1, <2>2 DEF WorkerOK, Marked, Busy, Bad, Recorded, azure, entity, outcome, history
  <2>6. RequestOK(r)'
    BY <1>1, <1>4, <2>1, <2>2 DEF RequestOK, Handled, Recorded, WorkerOK, azure, entity, outcome, history
  <2>7. QED
    BY <1>1, <2>1, <2>3, <2>4, <2>5, <2>6, FrameKept DEF Passed
<1>5. QED
  BY <1>3, <1>4 DEF MarkFailed

LEMMA DeleteMessageKept ==
    ASSUME IInv, NEW w \in Workers, DeleteMessage(w)
    PROVE  IInv'
<1> PICK r \in Requests : r = job[w]
  BY HasJob DEF DeleteMessage
<1>1. /\ TypeOK /\ r = job[w] /\ job[w] # None /\ WorkerOK(w) /\ RequestOK(r) /\ pc[w] = "delete"
      /\ Leave(w) /\ UNCHANGED <<receipt, malformed, entity, outcome>>
  BY HasJob DEF DeleteMessage, IInv
<1>2. ASSUME Leave(w)
      PROVE  /\ pc' \in [Workers -> PCs] /\ job' \in [Workers -> Requests \cup {None}]
             /\ pc'[w] = "poll" /\ job'[w] = None
             /\ \A v \in Workers \ {w} : pc'[v] = pc[v] /\ job'[v] = job[v]
  BY <1>1, <1>2, LeaveMoves
<1>3. CASE receipt[r] = w /\ message' = [message EXCEPT ![r] = "deleted"] /\ UNCHANGED faults
  <2>1. /\ pc' \in [Workers -> PCs] /\ job' \in [Workers -> Requests \cup {None}]
        /\ pc'[w] = "poll" /\ job'[w] = None
        /\ \A v \in Workers \ {w} : pc'[v] = pc[v] /\ job'[v] = job[v]
    BY <1>1, <1>2
  <2>2. TypeOK'
    BY <1>1, <1>3, <2>1 DEF TypeOK, entity, outcome, history
  <2>3. Frame(w)
    BY <1>1, <1>3, <2>1 DEF Frame, TypeOK, entity, outcome, history
  <2>4. WorkerOK(w)'
    BY <1>1, <1>3, <2>1 DEF WorkerOK, Marked
  <2>5. RequestOK(r)'
    <3>1. message'[r] = "deleted" /\ Handled(r)' /\ (Recorded(r) => Recorded(r)')
      BY <1>1, <1>3 DEF TypeOK, Handled, Recorded, entity, outcome
    <3>2. Recorded(r) \/ r \in malformed \cup redelivered \/ faults > 2
      BY <1>1 DEF WorkerOK
    <3>3. QED
      BY <1>1, <1>3, <3>1, <3>2 DEF RequestOK, entity, outcome, history
  <2>6. QED
    BY <1>1, <2>1, <2>2, <2>3, <2>4, <2>5, FrameKept DEF Passed
<1>4. CASE receipt[r] # w /\ UNCHANGED message /\ UNCHANGED faults
  <2>1. /\ pc' \in [Workers -> PCs] /\ job' \in [Workers -> Requests \cup {None}]
        /\ pc'[w] = "poll" /\ job'[w] = None
        /\ \A v \in Workers \ {w} : pc'[v] = pc[v] /\ job'[v] = job[v]
    BY <1>1, <1>2
  <2>2. TypeOK'
    BY <1>1, <1>4, <2>1 DEF TypeOK, entity, outcome, history
  <2>3. Frame(w)
    BY <1>1, <1>4, <2>1 DEF Frame, TypeOK, entity, outcome, history
  <2>4. WorkerOK(w)'
    BY <1>1, <1>4, <2>1 DEF WorkerOK, Marked
  <2>5. RequestOK(r)'
    BY <1>1, <1>4, <2>1 DEF RequestOK, Handled, Recorded, WorkerOK, entity, outcome, history
  <2>6. QED
    BY <1>1, <2>1, <2>2, <2>3, <2>4, <2>5, FrameKept DEF Passed
<1>5. CASE Fault /\ UNCHANGED message
  <2>1. /\ pc' \in [Workers -> PCs] /\ job' \in [Workers -> Requests \cup {None}]
        /\ pc'[w] = "poll" /\ job'[w] = None
        /\ \A v \in Workers \ {w} : pc'[v] = pc[v] /\ job'[v] = job[v]
    BY <1>1, <1>2
  <2>2. faults' \in 0..MaxFaults /\ faults' = faults + 1 /\ faults \in Nat
    BY <1>1, <1>5, FaultCounts
  <2>3. TypeOK'
    BY <1>1, <1>5, <2>1, <2>2 DEF TypeOK, entity, outcome, history
  <2>4. Frame(w)
    BY <1>1, <1>5, <2>1, <2>2 DEF Frame, TypeOK, entity, outcome, history
  <2>5. WorkerOK(w)'
    BY <1>1, <1>5, <2>1, <2>2 DEF WorkerOK, Marked
  <2>6. RequestOK(r)'
    BY <1>1, <1>5, <2>1, <2>2 DEF RequestOK, Handled, Recorded, WorkerOK, entity, outcome, history
  <2>7. QED
    BY <1>1, <2>1, <2>3, <2>4, <2>5, <2>6, FrameKept DEF Passed
<1>6. QED
  BY <1>3, <1>4, <1>5 DEF DeleteMessage

LEMMA CrashKept ==
    ASSUME IInv, NEW w \in Workers, Crash(w)
    PROVE  IInv'
<1> PICK r \in Requests : r = job[w]
  BY DEF IInv, TypeOK, Crash
<1>1. /\ TypeOK /\ r = job[w] /\ job[w] # None /\ WorkerOK(w) /\ RequestOK(r)
      /\ Leave(w) /\ Fault /\ UNCHANGED <<azure, entity, outcome>>
  BY DEF Crash, IInv, TypeOK
<1>2. ASSUME Leave(w)
      PROVE  /\ pc' \in [Workers -> PCs] /\ job' \in [Workers -> Requests \cup {None}]
             /\ pc'[w] = "poll" /\ job'[w] = None
             /\ \A v \in Workers \ {w} : pc'[v] = pc[v] /\ job'[v] = job[v]
  BY <1>1, <1>2, LeaveMoves
<1>3. /\ pc' \in [Workers -> PCs] /\ job' \in [Workers -> Requests \cup {None}]
      /\ pc'[w] = "poll" /\ job'[w] = None
      /\ \A v \in Workers \ {w} : pc'[v] = pc[v] /\ job'[v] = job[v]
  BY <1>1, <1>2
<1>4. faults' \in 0..MaxFaults /\ faults' = faults + 1 /\ faults \in Nat
  BY <1>1, FaultCounts
<1>5. TypeOK'
  BY <1>1, <1>3, <1>4 DEF TypeOK, azure, entity, outcome, history
<1>6. Frame(w)
  BY <1>1, <1>3, <1>4 DEF Frame, TypeOK, azure, entity, outcome, history
<1>7. WorkerOK(w)'
  BY <1>1, <1>3, <1>4 DEF WorkerOK, Marked
<1>8. RequestOK(r)'
  BY <1>1, <1>3, <1>4 DEF RequestOK, Handled, Recorded, WorkerOK, azure, entity, outcome, history
<1>9. QED
  BY <1>1, <1>3, <1>5, <1>6, <1>7, <1>8, FrameKept DEF Passed

LEMMA CheckKept ==
    ASSUME IInv, NEW w \in Workers, Check(w)
    PROVE  IInv'
<1> PICK r \in Requests : r = job[w]
  BY HasJob DEF Check
<1>1. /\ TypeOK /\ r = job[w] /\ job[w] # None /\ WorkerOK(w) /\ RequestOK(r) /\ pc[w] = "check"
      /\ UNCHANGED <<azure, entity, outcome>>
  BY HasJob DEF Check, IInv
<1>2. CASE Leave(w)
  <2>1. /\ pc' \in [Workers -> PCs] /\ job' \in [Workers -> Requests \cup {None}]
        /\ pc'[w] = "poll" /\ job'[w] = None
        /\ \A v \in Workers \ {w} : pc'[v] = pc[v] /\ job'[v] = job[v]
    BY <1>1, <1>2, LeaveMoves
  <2>2. faults' \in 0..MaxFaults /\ faults' >= faults /\ faults \in Nat
    BY <1>1, FaultCounts DEF Check, TypeOK
  <2>3. TypeOK'
    BY <1>1, <2>1, <2>2 DEF TypeOK, azure, entity, outcome, history
  <2>4. Frame(w)
    BY <1>1, <2>1, <2>2 DEF Frame, azure, entity, outcome, history
  <2>5. WorkerOK(w)'
    BY <1>1, <2>1 DEF WorkerOK, Marked
  <2>6. RequestOK(r)'
    BY <1>1, <2>1, <2>2, Unhandled DEF RequestOK, Handled, Recorded, azure, entity, outcome, history
  <2>7. QED
    BY <1>1, <2>1, <2>3, <2>4, <2>5, <2>6, FrameKept DEF Passed
<1>3. CASE Go(w, "acquire") /\ UNCHANGED faults /\ ~\E q \in Rivals(r) : Busy(q)
  <2>1. /\ pc' \in [Workers -> PCs] /\ job' = job
        /\ pc'[w] = "acquire" /\ \A v \in Workers \ {w} : pc'[v] = pc[v]
    BY <1>1, <1>3, GoMoves DEF PCs
  <2>2. TypeOK'
    BY <1>1, <1>3, <2>1 DEF TypeOK, azure, entity, outcome, history
  <2>3. Frame(w)
    BY <1>1, <1>3, <2>1 DEF Frame, TypeOK, azure, entity, outcome, history
  <2>4. WorkerOK(w)'
    BY <1>1, <1>3, <2>1 DEF WorkerOK, Marked, Busy, Bad, azure, entity, outcome, history
  <2>5. RequestOK(r)'
    BY <1>1, <1>3, <2>1 DEF RequestOK, Handled, Recorded, azure, entity, outcome, history
  <2>6. ASSUME NEW v \in Workers \ {w}, Passed(v), TeamOf(job[v]) = TeamOf(r),
               {job[v], r} \cap Bad = {}
        PROVE  FALSE
    <3>1. WorkerOK(v) /\ job[v] \in Requests /\ job[v] # None /\ Marked(v)
      BY <2>6, HasJob DEF IInv, Passed, Marked
    <3>2. Busy(job[v])
      BY <2>6, <3>1 DEF WorkerOK
    <3>3. job[v] # r
      BY <1>1, <2>6, <3>1 DEF WorkerOK, Bad
    <3>4. QED
      BY <1>3, <2>6, <3>1, <3>2, <3>3 DEF Rivals
  <2>7. \A v \in Workers \ {w} : PairOK(v, w)' /\ PairOK(w, v)'
    <3> SUFFICES ASSUME NEW v \in Workers \ {w}, Passed(v)', TeamOf(job[v]) = TeamOf(r)
                 PROVE  {job[v], r} \cap Bad # {}
      BY <1>1, <2>1 DEF PairOK, Bad, outcome, history
    <3>1. Passed(v)
      BY <2>1 DEF Passed
    <3>2. QED
      BY <2>6, <3>1
  <2>8. QED
    BY <1>1, <2>2, <2>3, <2>4, <2>5, <2>7, FrameKept
<1>4. QED
  BY <1>1, <1>2, <1>3 DEF Check

LEMMA ReceiveKept ==
    ASSUME IInv, NEW w \in Workers, NEW r \in Requests, Receive(w, r)
    PROVE  IInv'
<1>1. /\ TypeOK /\ pc[w] = "poll" /\ job[w] = None /\ message[r] = "visible" /\ r # None
      /\ UNCHANGED malformed /\ UNCHANGED <<entity, outcome, faults>>
  BY DEF Receive, IInv, WorkerOK
<1>2. /\ message' \in [Requests -> {"none", "visible", "hidden", "deleted"}]
      /\ receipt' \in [Requests -> Workers \cup {None}]
      /\ job' \in [Workers -> Requests \cup {None}] /\ pc' \in [Workers -> PCs]
      /\ message'[r] = "hidden" /\ receipt'[r] = w /\ job'[w] = r /\ pc'[w] = "mark"
      /\ \A q \in Requests \ {r} : message'[q] = message[q] /\ receipt'[q] = receipt[q]
      /\ \A v \in Workers \ {w} : job'[v] = job[v] /\ pc'[v] = pc[v]
  BY <1>1 DEF Receive, TypeOK, PCs
<1>3. TypeOK'
  BY <1>1, <1>2 DEF TypeOK, entity, outcome, history
<1>4. ASSUME NEW v \in Workers PROVE WorkerOK(v)'
  <2>1. CASE v = w
    BY <1>1, <1>2, <2>1 DEF WorkerOK, Marked
  <2>2. CASE v # w
    <3>1. WorkerOK(v) /\ job'[v] = job[v] /\ pc'[v] = pc[v]
      BY <1>2, <2>2 DEF IInv
    <3>2. job[v] = r => r \in redelivered
      BY <1>1, <3>1 DEF WorkerOK
    <3>3. job[v] # None /\ job[v] # r =>
            message'[job[v]] = message[job[v]] /\ receipt'[job[v]] = receipt[job[v]]
      BY <1>1, <1>2 DEF TypeOK
    <3>4. QED
      BY <1>1, <3>1, <3>2, <3>3 DEF WorkerOK, Marked, Busy, Bad, Recorded, entity, outcome, history
  <2>3. QED
    BY <2>1, <2>2
<1>5. ASSUME NEW q \in Requests PROVE RequestOK(q)'
  <2>1. RequestOK(q) /\ (Handled(q) => Handled(q)')
    BY <1>1, <1>2 DEF IInv, Handled
  <2>2. message'[q] = "deleted" => message[q] = "deleted"
    BY <1>1, <1>2
  <2>3. QED
    BY <1>1, <2>1, <2>2 DEF RequestOK, Recorded, entity, outcome, history
<1>6. ASSUME NEW u \in Workers, NEW v \in Workers PROVE PairOK(u, v)'
  <2>1. \A x \in Workers : Passed(x)' => Passed(x) /\ job'[x] = job[x]
    BY <1>2 DEF Passed
  <2>2. PairOK(u, v) /\ Bad' = Bad
    BY <1>1 DEF IInv, Bad, outcome, history
  <2>3. QED
    BY <2>1, <2>2 DEF PairOK
<1>7. QED
  BY <1>3, <1>4, <1>5, <1>6 DEF IInv
-----------------------------------------------------------------------------
(***************************************************************************)
(* What surrounds the workers                                              *)
(***************************************************************************)

\* A step that leaves the workers where they are, and unknown requests out of
\* what has been tested.
LEMMA OutsideKept ==
    ASSUME IInv, TypeOK', UNCHANGED <<pc, job, faults, scored, dlq, unmarked, again>>,
           redelivered \subseteq redelivered', malformed \subseteq malformed',
           \A w \in Workers : WorkerOK(w)', \A r \in Requests : RequestOK(r)'
    PROVE  IInv'
<1>1. \A u, v \in Workers : PairOK(u, v)'
  BY DEF IInv, PairOK, Passed, Bad
<1>2. QED
  BY <1>1 DEF IInv

LEMMA SubmitKept ==
    ASSUME IInv, NEW r \in Requests, Submit(r)
    PROVE  IInv'
<1>1. /\ TypeOK /\ message[r] = "none" /\ UNCHANGED <<receipt, outcome, pc, job, faults>>
      /\ message' = [message EXCEPT ![r] = "visible"]
      /\ malformed \subseteq malformed' /\ malformed' \subseteq malformed \cup {r}
      /\ recent \subseteq recent'
  BY DEF Submit, IInv, Upsert, entity
<1>2. /\ message' \in [Requests -> {"none", "visible", "hidden", "deleted"}]
      /\ message'[r] = "visible" /\ \A q \in Requests \ {r} : message'[q] = message[q]
  BY <1>1 DEF TypeOK
<1>3. /\ row' \in [Requests -> {"none", "waiting", "running", "finished", "failed"}]
      /\ row'[r] = "finished" => row[r] = "finished"
      /\ recent' \subseteq Requests
      /\ \A q \in Requests \ {r} : row'[q] = row[q]
  BY <1>1, UpsertWrites DEF Submit, TypeOK, entity
<1>4. TypeOK'
  BY <1>1, <1>2, <1>3 DEF TypeOK, outcome, history
<1>5. ASSUME NEW w \in Workers PROVE WorkerOK(w)'
  <2>1. WorkerOK(w) /\ (job[w] = r => r \in redelivered)
    BY <1>1 DEF IInv, WorkerOK
  <2>2. CASE job[w] = r
    BY <1>1, <2>1, <2>2 DEF WorkerOK, Marked, Bad, outcome, history
  <2>3. CASE job[w] # r /\ job[w] # None
    <3>1. job[w] \in Requests \ {r}
      BY <1>1, <2>3 DEF TypeOK
    <3>2. message'[job[w]] = message[job[w]] /\ row'[job[w]] = row[job[w]]
      BY <1>2, <1>3, <3>1
    <3>3. QED
      BY <1>1, <2>1, <2>3, <3>2 DEF WorkerOK, Marked, Busy, Bad, Recorded, outcome, history
  <2>4. CASE job[w] = None
    BY <1>1, <2>1, <2>4 DEF WorkerOK, Marked
  <2>5. QED
    BY <2>2, <2>3, <2>4
<1>6. ASSUME NEW q \in Requests PROVE RequestOK(q)'
  <2>1. RequestOK(q) /\ (Handled(q) => Handled(q)')
    BY <1>1, <1>2 DEF IInv, Handled
  <2>2. CASE q = r
    BY <1>1, <1>2, <1>3, <2>1, <2>2 DEF RequestOK, outcome, history
  <2>3. CASE q # r
    BY <1>1, <1>2, <1>3, <2>1, <2>3 DEF RequestOK, Recorded, outcome, history
  <2>4. QED
    BY <2>2, <2>3
<1>7. QED
  BY <1>1, <1>4, <1>5, <1>6, OutsideKept DEF outcome, history

LEMMA ReappearKept ==
    ASSUME IInv, NEW r \in Requests, Reappear(r)
    PROVE  IInv'
<1>1. /\ TypeOK /\ message[r] = "hidden" /\ redelivered \subseteq redelivered'
      /\ redelivered' \subseteq redelivered \cup {r} /\ (Working(r) => r \in redelivered')
      /\ UNCHANGED <<receipt, malformed, entity, scored, dlq, unmarked, again, pc, job, faults>>
  BY DEF Reappear, IInv
<1>2. /\ message' \in [Requests -> {"none", "visible", "hidden", "deleted"}]
      /\ message'[r] = "visible" /\ \A q \in Requests \ {r} : message'[q] = message[q]
  BY <1>1 DEF TypeOK, Reappear
<1>3. TypeOK'
  BY <1>1, <1>2 DEF TypeOK, entity
<1>4. ASSUME NEW w \in Workers PROVE WorkerOK(w)'
  <2>1. WorkerOK(w) /\ (job[w] = r => r \in redelivered')
    BY <1>1 DEF IInv, Working
  <2>2. job[w] # r /\ job[w] # None => message'[job[w]] = message[job[w]]
    BY <1>1, <1>2 DEF TypeOK
  <2>3. QED
    BY <1>1, <2>1, <2>2 DEF WorkerOK, Marked, Busy, Bad, Recorded, entity
<1>5. ASSUME NEW q \in Requests PROVE RequestOK(q)'
  <2>1. RequestOK(q)
    BY DEF IInv
  <2>2. CASE q = r
    <3>1. Handled(r) => r \in redelivered'
      BY <1>1 DEF Handled, Working
    <3>2. QED
      BY <1>1, <1>2, <2>1, <2>2, <3>1 DEF RequestOK, entity
  <2>3. CASE q # r
    BY <1>1, <1>2, <2>1, <2>3 DEF RequestOK, Handled, Recorded, entity
  <2>4. QED
    BY <2>2, <2>3
<1>6. QED
  BY <1>1, <1>3, <1>4, <1>5, OutsideKept

LEMMA AgeKept ==
    ASSUME IInv, NEW r \in Requests, Age(r)
    PROVE  IInv'
<1>1. /\ TypeOK /\ ~Working(r) /\ recent' = recent \ {r}
      /\ UNCHANGED <<azure, row, outcome, pc, job, faults>>
  BY DEF Age, IInv
<1>2. TypeOK'
  BY <1>1 DEF TypeOK, azure, outcome, history
<1>3. ASSUME NEW w \in Workers PROVE WorkerOK(w)'
  <2>1. WorkerOK(w) /\ job[w] # r
    BY <1>1 DEF IInv, Working
  <2>2. QED
    BY <1>1, <2>1 DEF WorkerOK, Marked, Busy, Bad, Recorded, azure, outcome, history
<1>4. ASSUME NEW q \in Requests PROVE RequestOK(q)'
  BY <1>1 DEF IInv, RequestOK, Handled, Recorded, azure, outcome, history
<1>5. QED
  BY <1>1, <1>2, <1>3, <1>4, OutsideKept DEF azure, outcome, history
-----------------------------------------------------------------------------
(***************************************************************************)
(* The theorems                                                            *)
(***************************************************************************)

LEMMA WorkersInit == Init => IInv
<1> SUFFICES ASSUME Init PROVE IInv
  OBVIOUS
<1>1. TypeOK
  BY DEF Init, TypeOK, PCs
<1>2. \A w \in Workers : WorkerOK(w)
  BY DEF Init, WorkerOK, Marked
<1>3. \A r \in Requests : RequestOK(r)
  BY DEF Init, RequestOK
<1>4. \A v, w \in Workers : PairOK(v, w)
  BY DEF Init, PairOK, Passed
<1>5. QED
  BY <1>1, <1>2, <1>3, <1>4 DEF IInv

LEMMA StillKept ==
    ASSUME IInv, UNCHANGED vars
    PROVE  IInv'
<1> USE DEF vars, azure, entity, outcome, history
<1>1. TypeOK'
  BY DEF IInv, TypeOK
<1>2. \A w \in Workers : WorkerOK(w)'
  BY DEF IInv, WorkerOK, Marked, Busy, Bad, Recorded
<1>3. \A r \in Requests : RequestOK(r)'
  BY DEF IInv, RequestOK, Handled, Recorded
<1>4. \A v, w \in Workers : PairOK(v, w)'
  BY DEF IInv, PairOK, Passed, Bad
<1>5. QED
  BY <1>1, <1>2, <1>3, <1>4 DEF IInv

LEMMA WorkersStep == IInv /\ [Next]_vars => IInv'
<1>1. ASSUME IInv, NEW w \in Workers, Step(w) \/ Crash(w) PROVE IInv'
  BY <1>1, ReceiveKept, DropMalformedKept, MarkKept, CheckKept, AcquireLockKept, RunLoadTestKept,
     PostScoreKept, ReleaseLockKept, DeadLetterKept, MarkFailedKept, DeleteMessageKept, CrashKept
  DEF Step
<1>2. QED
  BY <1>1, SubmitKept, ReappearKept, AgeKept, StillKept DEF Next

\* What the workers hold, have shown and have left behind, in every reachable
\* state.
THEOREM WorkersInvariance == Spec => []IInv
BY WorkersInit, WorkersStep, PTL DEF Spec

\* Variables keep their shapes; only the five statuses are ever shown.
THEOREM WorkersTyped == Spec => []TypeOK
<1>1. IInv => TypeOK
  BY DEF IInv
<1>2. QED
  BY <1>1, WorkersInvariance, PTL

\* processMessage: two workers test one team at the same time only where the
\* entry of a request on its receipt failed, or a message came back while its
\* worker was still at it.
THEOREM TestsExclude == Spec => []MarkedTestsExclude
<1>1. IInv => MarkedTestsExclude
  BY DEF IInv, MarkedTestsExclude, PairOK, Together, Testing, Passed, Bad
<1>2. QED
  BY <1>1, WorkersInvariance, PTL

\* postScore: a score goes out again only after an early redelivery or a fault.
THEOREM ScoresOnce == Spec => []ScoredOnce
<1>1. IInv => ScoredOnce
  BY DEF IInv, TypeOK, ScoredOnce, RequestOK
<1>2. QED
  BY <1>1, WorkersInvariance, PTL

\* releaseLock: "finished" is only shown of a request whose score was taken.
THEOREM FinishedScored == Spec => []FinishedIsScored
<1>1. IInv => FinishedIsScored
  BY DEF IInv, FinishedIsScored, RequestOK
<1>2. QED
  BY <1>1, WorkersInvariance, PTL

\* markFailedAndDrop: a message whose outcome is recorded nowhere is deleted
\* after three faults at least, or when two workers had it.
THEOREM DeletedRecorded == Spec => []DeletedIsRecorded
<1>1. IInv => DeletedIsRecorded
  BY DEF IInv, TypeOK, DeletedIsRecorded, RequestOK
<1>2. QED
  BY <1>1, WorkersInvariance, PTL
=============================================================================
