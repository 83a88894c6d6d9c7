--------------------------- MODULE LoadTestWorker ---------------------------
(***************************************************************************)
(* The load-test workers (benchmarker/worker): each takes requests from an *)
(* Azure storage queue one at a time, keeps two tests of one team apart by *)
(* rows of an Azure table, runs k6, posts the score and deletes the        *)
(* message.                                                                *)
(*                                                                         *)
(* A received message is hidden for a while and comes back if it has not   *)
(* been deleted by then; whoever receives it last holds the only valid pop *)
(* receipt.  Every call to Azure and to the score server can fail; the     *)
(* container is restarted when it dies.                                    *)
(***************************************************************************)
EXTENDS Naturals

CONSTANTS
    Workers,
    Requests,      \* load_test_id
    Teams,
    None,          \* neither a worker nor a request
    TeamOf(_),     \* team_id of a request
    Overrun,       \* a test may outlast the visibility timeout
    MaxFaults      \* bound: calls that fail, and crashes

ASSUME WorkerAssumption ==
    /\ None \notin Workers \cup Requests
    /\ \A r \in Requests : TeamOf(r) \in Teams
    /\ Overrun \in BOOLEAN /\ MaxFaults \in Nat

VARIABLES
    message,  \* request -> where its queue message is
    malformed, \* messages that are not the JSON of a request
    receipt,  \* request -> worker whose pop receipt is valid, or None
    row,      \* request -> Status of its table entity
    recent,   \* requests whose entity was updated within the hour
    scored,   \* requests whose score the server has taken
    dlq,      \* requests in the dead-letter queue
    unmarked, \* history: requests whose receipt could not be entered in the table
    redelivered, \* history: those whose message came back while a worker had it
    again,    \* history: those whose score was sent again after it was taken
    pc, job,  \* where each worker stands, and with which request
    faults

azure   == <<message, malformed, receipt>>
entity  == <<row, recent>>
history == <<unmarked, redelivered, again>>
outcome == <<scored, dlq, history>>
vars    == <<azure, entity, outcome, pc, job, faults>>

PCs == {"poll", "mark", "check", "acquire", "test", "post", "release",
        "dead_letter", "fail", "delete"}

Init ==
    /\ message = [r \in Requests |-> "none"]
    /\ malformed = {}
    /\ receipt = [r \in Requests |-> None]
    /\ row = [r \in Requests |-> "none"]
    /\ recent = {} /\ scored = {} /\ dlq = {}
    /\ unmarked = {} /\ redelivered = {} /\ again = {}
    /\ pc = [w \in Workers |-> "poll"]
    /\ job = [w \in Workers |-> None]
    /\ faults = 0

Go(w, label) == pc' = [pc EXCEPT ![w] = label] /\ UNCHANGED job
Leave(w)     == pc' = [pc EXCEPT ![w] = "poll"] /\ job' = [job EXCEPT ![w] = None]

\* A call goes wrong.
Fault == faults < MaxFaults /\ faults' = faults + 1

Upsert(r, status) ==
    /\ row' = [row EXCEPT ![r] = status]
    /\ recent' = recent \cup {r}

Testing(w)   == pc[w] \in {"test", "post"}
Working(r)   == \E w \in Workers : job[w] = r
Busy(r)      == row[r] \in {"waiting", "running"} /\ r \in recent
Rivals(r)    == {q \in Requests \ {r} : TeamOf(q) = TeamOf(r)}
-----------------------------------------------------------------------------
(* What surrounds the workers *)

\* The intermediate server accepts a request: entity "waiting", then a message;
\* or something else ends up in the queue.
Submit(r) ==
    /\ message[r] = "none"
    /\ message' = [message EXCEPT ![r] = "visible"]
    /\ \/ Upsert(r, "waiting") /\ UNCHANGED malformed
       \/ malformed' = malformed \cup {r} /\ UNCHANGED entity
    /\ UNCHANGED <<receipt, outcome, pc, job, faults>>

\* The visibility timeout of a received message: 300 s, counted from its
\* receipt, whatever its worker is doing.
Reappear(r) ==
    /\ message[r] = "hidden"
    /\ Overrun \/ ~Working(r)
    /\ message' = [message EXCEPT ![r] = "visible"]
    /\ redelivered' = IF Working(r) THEN redelivered \cup {r} ELSE redelivered
    /\ UNCHANGED <<receipt, malformed, entity, scored, dlq, unmarked, again, pc, job, faults>>

\* An hour passes without an update of the entity.
Age(r) ==
    /\ r \in recent /\ ~Working(r) /\ message[r] # "hidden"
    /\ recent' = recent \ {r}
    /\ UNCHANGED <<azure, row, outcome, pc, job, faults>>

\* The container dies, k6 with it, and is restarted.
Crash(w) ==
    /\ job[w] # None
    /\ Fault
    /\ Leave(w)
    /\ UNCHANGED <<azure, entity, outcome>>
-----------------------------------------------------------------------------
(* pollQueue and processMessage *)

Receive(w, r) ==
    /\ pc[w] = "poll"
    /\ message[r] = "visible"
    /\ message' = [message EXCEPT ![r] = "hidden"]
    /\ receipt' = [receipt EXCEPT ![r] = w]
    /\ UNCHANGED malformed
    /\ job' = [job EXCEPT ![w] = r]
    /\ pc' = [pc EXCEPT ![w] = "mark"]
    /\ UNCHANGED <<entity, outcome, faults>>

\* Mutant: the entity is not touched until the check is passed.
MarkNothing(w) ==
    /\ pc[w] = "mark" /\ job[w] \notin malformed
    /\ Go(w, "check")
    /\ UNCHANGED <<azure, entity, outcome, faults>>

\* parseQueueMessage: what cannot be parsed is deleted at once.
DropMalformed(w) ==
    /\ pc[w] = "mark" /\ job[w] \in malformed
    /\ Go(w, "delete")
    /\ UNCHANGED <<azure, entity, outcome, faults>>

\* parseQueueMessage: "running" on receipt; an error is only logged.
Mark(w) ==
    /\ pc[w] = "mark" /\ job[w] \notin malformed
    /\ \/ Upsert(job[w], "running") /\ UNCHANGED <<faults, unmarked>>
       \/ Fault /\ UNCHANGED entity /\ unmarked' = unmarked \cup {job[w]}
    /\ Go(w, "check")
    /\ UNCHANGED <<azure, scored, dlq, redelivered, again>>

\* Mutant: a duplicate is deleted instead of left for later.
CheckDropsDuplicate(w) ==
    /\ pc[w] = "check"
    /\ Go(w, IF \E q \in Rivals(job[w]) : Busy(q) THEN "delete" ELSE "acquire")
    /\ UNCHANGED <<azure, entity, outcome, faults>>

\* isDuplicateOrSkip: return, leaving entity and message as they are, when
\* another request of the team is waiting or running, or the query fails.
Check(w) ==
    /\ pc[w] = "check"
    /\ \/ /\ IF \E q \in Rivals(job[w]) : Busy(q) THEN Leave(w) ELSE Go(w, "acquire")
          /\ UNCHANGED faults
       \/ Fault /\ Leave(w)
    /\ UNCHANGED <<azure, entity, outcome>>

AcquireLock(w) ==
    /\ pc[w] = "acquire"
    /\ \/ Upsert(job[w], "running") /\ Go(w, "test") /\ UNCHANGED faults
       \/ Fault /\ UNCHANGED entity /\ Leave(w)
    /\ UNCHANGED <<azure, outcome>>

\* Mutant: a failed test is dropped without markFailedAndDrop.
RunLoadTestDrops(w) ==
    /\ pc[w] = "test"
    /\ \/ Go(w, "post") /\ UNCHANGED faults
       \/ Fault /\ Go(w, "delete")
    /\ UNCHANGED <<azure, entity, outcome>>

RunLoadTest(w) ==
    /\ pc[w] = "test"
    /\ \/ Go(w, "post") /\ UNCHANGED faults
       \/ Fault /\ Go(w, "dead_letter")
    /\ UNCHANGED <<azure, entity, outcome>>

\* Mutant: the error of postScore is ignored.
PostScoreUnchecked(w) ==
    /\ pc[w] = "post"
    /\ \/ scored' = scored \cup {job[w]} /\ UNCHANGED faults
       \/ Fault /\ UNCHANGED scored
    /\ Go(w, "release")
    /\ UNCHANGED <<azure, entity, dlq, history>>

\* The server may have taken the score although the call fails.
PostScore(w) ==
    /\ pc[w] = "post"
    /\ \/ scored' = scored \cup {job[w]} /\ Go(w, "release") /\ UNCHANGED faults
       \/ Fault /\ scored' \in {scored, scored \cup {job[w]}} /\ Go(w, "dead_letter")
    /\ again' = again \cup ({job[w]} \cap scored)
    /\ UNCHANGED <<azure, entity, dlq, unmarked, redelivered>>

\* Mutant: the message is not deleted after a test that went well.
ReleaseLockKeepsMessage(w) ==
    /\ pc[w] = "release"
    /\ \/ Upsert(job[w], "finished") /\ UNCHANGED faults
       \/ Fault /\ UNCHANGED entity
    /\ Leave(w)
    /\ UNCHANGED <<azure, outcome>>

\* The result of releaseLock is ignored.
ReleaseLock(w) ==
    /\ pc[w] = "release"
    /\ \/ Upsert(job[w], "finished") /\ UNCHANGED faults
       \/ Fault /\ UNCHANGED entity
    /\ Go(w, "delete")
    /\ UNCHANGED <<azure, outcome>>

\* markFailedAndDrop: each error is logged and the next call made.
DeadLetter(w) ==
    /\ pc[w] = "dead_letter"
    /\ \/ dlq' = dlq \cup {job[w]} /\ UNCHANGED faults
       \/ Fault /\ UNCHANGED dlq
    /\ Go(w, "fail")
    /\ UNCHANGED <<azure, entity, scored, history>>

\* Mutant: a status nobody else knows.
MarkFailedAsError(w) ==
    /\ pc[w] = "fail"
    /\ Upsert(job[w], "error")
    /\ Go(w, "delete")
    /\ UNCHANGED <<azure, outcome, faults>>

MarkFailed(w) ==
    /\ pc[w] = "fail"
    /\ \/ Upsert(job[w], "failed") /\ UNCHANGED faults
       \/ Fault /\ UNCHANGED entity
    /\ Go(w, "delete")
    /\ UNCHANGED <<azure, outcome>>

\* DeleteMessage needs the pop receipt of the last receipt.
DeleteMessage(w) ==
    /\ pc[w] = "delete"
    /\ \/ /\ IF receipt[job[w]] = w
             THEN message' = [message EXCEPT ![job[w]] = "deleted"]
             ELSE UNCHANGED message
          /\ UNCHANGED faults
       \/ Fault /\ UNCHANGED message
    /\ Leave(w)
    /\ UNCHANGED <<receipt, malformed, entity, outcome>>

Step(w) ==
    \/ \E r \in Requests : Receive(w, r)
    \/ DropMalformed(w) \/ Mark(w) \/ Check(w) \/ AcquireLock(w) \/ RunLoadTest(w) \/ PostScore(w)
    \/ ReleaseLock(w) \/ DeadLetter(w) \/ MarkFailed(w)
    \/ DeleteMessage(w)

Next ==
    \/ \E w \in Workers : Step(w) \/ Crash(w)
    \/ \E r \in Requests : Submit(r) \/ Reappear(r) \/ Age(r)

\* Workers poll for ever, timeouts expire, and a visible message has its turn
\* (the queue hands out the oldest first).
Fairness ==
    /\ \A w \in Workers : WF_vars(Step(w))
    /\ \A r \in Requests :
        /\ WF_vars(Reappear(r))
        /\ SF_vars(\E w \in Workers : Receive(w, r))

Spec == Init /\ [][Next]_vars /\ Fairness
-----------------------------------------------------------------------------
(* Properties *)

TypeOK ==
    /\ message \in [Requests -> {"none", "visible", "hidden", "deleted"}]
    /\ malformed \subseteq Requests
    /\ receipt \in [Requests -> Workers \cup {None}]
    /\ row \in [Requests -> {"none", "waiting", "running", "finished", "failed"}]
    /\ recent \subseteq Requests
    /\ scored \subseteq Requests /\ dlq \subseteq Requests
    /\ unmarked \subseteq Requests /\ redelivered \subseteq Requests
    /\ again \subseteq Requests
    /\ pc \in [Workers -> PCs] /\ job \in [Workers -> Requests \cup {None}]
    /\ faults \in 0..MaxFaults

Together(v, w) == v # w /\ Testing(v) /\ Testing(w) /\ TeamOf(job[v]) = TeamOf(job[w])

\* What the documents say of a VM, that it serves the load test of one request
\* at a time: no two requests of a team are tested together.
OneRequestPerTeam ==
    \A v, w \in Workers : Together(v, w) => job[v] = job[w]

\* No two workers test a team together, whoever checks first, as each enters
\* its request as "running" before it looks for others: unless that entry
\* failed, which is only logged, or one of the two messages came back while
\* its worker was still at it, and the request has been given out twice.
MarkedTestsExclude ==
    \A v, w \in Workers :
        Together(v, w) => {job[v], job[w]} \cap (unmarked \cup redelivered) # {}

\* A score is sent for a request a second time only when its message came back
\* while a worker had it, a call failed or a worker died: what was done is not
\* done again otherwise.
ScoredOnce == \A r \in again : r \in redelivered \/ faults > 0

\* "finished" is shown for requests whose score the server has taken only.
FinishedIsScored == \A r \in Requests : row[r] = "finished" => r \in scored

Recorded(r) == r \in scored \cup dlq \/ row[r] = "failed"

\* A message is only deleted when the outcome of its request is recorded
\* somewhere (a score, the dead-letter queue or a "failed" entity), whatever
\* fails, up to two calls: the test, the dead letter and the entity together
\* lose a request.  So does a message that comes back too early: the slower of
\* its workers enters "running" over the "failed" of the other.
DeletedIsRecorded ==
    \A r \in Requests \ malformed :
        message[r] = "deleted" /\ faults <= 2 => Recorded(r) \/ r \in redelivered

\* A request that is not held up for ever by others of its team (two that wait
\* do that to each other) has its outcome recorded in the end, over crashes,
\* failed calls and redelivery after them.
Settled ==
    \A r \in Requests :
        <>[](\A q \in Rivals(r) : ~Busy(q)) =>
            (message[r] # "none" ~> Recorded(r) \/ r \in malformed \/ faults > 2)
=============================================================================
