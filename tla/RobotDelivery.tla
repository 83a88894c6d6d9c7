---------------------------- MODULE RobotDelivery ----------------------------
(***************************************************************************)
(* The delivery robot (one client, as benchmarker/scenarios/robot.js runs  *)
(* it) at work against OrderStore: it asks for a plan, reports the orders  *)
(* of the plan one by one, and starts over, also after an error.           *)
(*                                                                         *)
(* A call that takes too long is given up.  The server then cancels the    *)
(* request's context before the robot's next call arrives, but the         *)
(* goroutine that serves it runs on until it notices.                      *)
(***************************************************************************)
EXTENDS OrderStore

CONSTANT MaxFaults   \* bound: calls that fail, time out or are given up
ASSUME FaultsAssumption == MaxFaults \in Nat

VARIABLES
    stage,      \* what the robot is doing
    cargo,      \* orders of its plan not yet reported
    current,    \* the one it is reporting, or 0
    handler,    \* goroutine serving its call, or None
    cancelled,  \* goroutines whose request has been given up
    dropped,    \* history: orders of trips that failed
    faults

robot   == <<stage, cargo, current, handler, dropped, faults>>
allVars == <<vars, robot, cancelled>>

Stages == {"ask", "planning", "refused", "report", "reporting"}

RobotInit ==
    /\ Init
    /\ stage = "ask" /\ cargo = {} /\ current = 0
    /\ handler = None /\ cancelled = {}
    /\ dropped = {id \in DOMAIN orders : orders[id].shipped_status # "shipping"}
    /\ faults = 0

\* The trip ends in an error: robot.js fails and starts over.
EndTrip(lost) ==
    /\ faults < MaxFaults /\ faults' = faults + 1
    /\ stage' = "ask" /\ cargo' = {} /\ current' = 0 /\ handler' = None
    /\ dropped' = dropped \cup cargo \cup lost
-----------------------------------------------------------------------------
(* GET /delivery-plan *)

\* HasShippingOrders says yes.
Ask(p) ==
    /\ stage = "ask" /\ shipping # << >>
    /\ PlanBegin(p)
    /\ stage' = "planning" /\ handler' = p
    /\ UNCHANGED <<cargo, current, dropped, faults, cancelled>>

\* The poll times out, as nothing is on offer, or as CreateMany keeps the lock
\* that the count waits for: 500 is sent, and a plan is made all the same, of
\* whatever is on offer by then.
AskTimesOut(p) ==
    /\ stage = "ask" /\ faults < MaxFaults
    /\ PlanBegin(p)
    /\ stage' = "refused" /\ handler' = p
    /\ faults' = faults + 1
    /\ UNCHANGED <<cargo, current, dropped, cancelled>>

\* selectOrdersForDelivery finds something whenever orders are on offer: one
\* that fits, or all of them when none fits (PlanSelection).
Select(p) == PlanSelect(p) /\ (shipping # << >> => plan'[p] # {})

\* The plan is sent.  robot.js fails on an empty one, and on one that comes
\* after a 500: its orders are in "delivering" all the same.
Answer(p) ==
    /\ p = handler /\ Commit(p)
    /\ handler' = None
    /\ IF stage = "planning" /\ plan[p] # {}
       THEN stage' = "report" /\ cargo' = plan[p] /\ UNCHANGED dropped
       ELSE stage' = "ask" /\ UNCHANGED cargo /\ dropped' = dropped \cup plan[p]
    /\ UNCHANGED <<current, faults, cancelled>>

PlanRefused(p) ==
    /\ p = handler
    /\ PlanFail(p) \/ CommitFail(p)
    /\ EndTrip(plan[p])
    /\ UNCHANGED cancelled
-----------------------------------------------------------------------------
(* PATCH /orders/status *)

Report(p) ==
    /\ stage = "report"
    /\ \E id \in cargo : PatchBegin(p, id, "completed") /\ current' = id
    /\ stage' = "reporting" /\ handler' = p
    /\ UNCHANGED <<cargo, dropped, faults, cancelled>>

\* Mutant: the answer does not wait for the statement.
ReportedEarly(p) ==
    /\ p = handler /\ stage = "reporting"
    /\ pc[p] = "update"
    /\ cargo' = cargo \ {current} /\ current' = 0 /\ handler' = None
    /\ stage' = IF cargo' = {} THEN "ask" ELSE "report"
    /\ UNCHANGED <<vars, dropped, faults, cancelled>>

\* UpdateStatuses returns: 200.
Reported(p) ==
    /\ p = handler /\ stage = "reporting"
    /\ MarkEnd(p)
    /\ cargo' = cargo \ {current} /\ current' = 0 /\ handler' = None
    /\ stage' = IF cargo' = {} THEN "ask" ELSE "report"
    /\ UNCHANGED <<dropped, faults, cancelled>>

ReportRefused(p) ==
    /\ p = handler
    /\ PatchFail(p)
    /\ EndTrip({})
    /\ UNCHANGED cancelled

\* The client closes the connection, or WithTimeout has answered 500: an open
\* transaction is rolled back, unless its COMMIT is on the way.
GiveUp(p) ==
    /\ p = handler
    /\ EndTrip(plan[p])
    /\ cancelled' = cancelled \cup {p}
    /\ IF pc[p] \in {"tx_lock", "tx_mark"} THEN TxCancel(p) ELSE UNCHANGED vars
-----------------------------------------------------------------------------
(* Goroutines *)

\* Steps of a request the robot does not see.  A cancelled one runs no more
\* statements; what it had sent may still have been executed.
Work(p) ==
    /\ \/ pc[p] # "idle" /\ CreateMany(p)
       \/ Select(p)
       \/ p \notin cancelled /\ (PlanUpdate(p) \/ PatchUpdate(p))
       \/ p \in cancelled /\ (PlanFail(p) \/ CommitFail(p) \/ PatchFail(p))
       \/ MarkLock(p) \/ Mark(p) \/ MarkPanic(p)
       \/ (pc[p] = "tx_mark" \/ p \in cancelled) /\ MarkEnd(p)
    /\ cancelled' = {q \in cancelled : pc'[q] # "idle"}
    /\ UNCHANGED robot

Customer(p) ==
    /\ pc[p] = "idle" /\ CreateMany(p)
    /\ UNCHANGED <<robot, cancelled>>

Load == LoadOrder /\ UNCHANGED <<robot, cancelled>>

Forward(p) == Ask(p) \/ Answer(p) \/ Report(p) \/ Reported(p)

RobotNext ==
    \/ Load
    \/ \E p \in Procs :
        \/ Forward(p) \/ Work(p) \/ Customer(p)
        \/ AskTimesOut(p) \/ PlanRefused(p) \/ ReportRefused(p) \/ GiveUp(p)

\* As in OrderStore, whoever can go on again and again does; the robot
\* always has a next call to make.
RobotFairness ==
    /\ WF_allVars(Load)
    /\ SF_allVars(\E p \in Procs : Forward(p))
    /\ \A p \in Procs : SF_allVars(Work(p))

RobotSpec == RobotInit /\ [][RobotNext]_allVars /\ RobotFairness
-----------------------------------------------------------------------------
(* Properties *)

RobotTypeOK ==
    /\ stage \in Stages
    /\ cargo \subseteq Ids /\ current \in CacheIds
    /\ handler \in Procs \cup {None} /\ cancelled \subseteq Procs
    /\ dropped \subseteq Ids /\ faults \in 0..MaxFaults

\* With one robot the database and the cache do what OrderLifecycle promises:
\* no order is given out twice or comes back from "completed", and the robot
\* is told "updated" of completed orders only, whatever fails or is given up.
Promise == INSTANCE OrderLifecycle
           WITH Orders <- Ids,
                status <- [id \in DOMAIN orders |-> orders[id].shipped_status],
                aboard <- cargo
KeepsPromise == Promise!Spec

InFlight(id) ==
    \E p \in Procs : id \in txRows[p] \/ (pc[p] \in {"lock", "mark"} /\ id \in todo[p])

\* The cached history shows the status of the row, except while a request is
\* between the two and where a statement reported an error.
CacheFollowsTable ==
    \A id \in DOMAIN orderIdUserId \ {0} :
        \/ Slot(id).ShippedStatus = orders[id].shipped_status
        \/ InFlight(id) \/ id \in unsure

\* An order in "delivering" is on the robot's list, or on the list of a trip
\* that failed: none gets lost on a trip that went well.
DeliveringIsCarried ==
    \A id \in DOMAIN orders :
        orders[id].shipped_status = "delivering" => id \in cargo \cup dropped

\* The robot only reports orders the cache knows: it never ends the process.
RobotNeverPanics == up

\* An order on offer is delivered in the end, unless a trip with it failed.
OfferedIsDelivered ==
    \A id \in Ids :
        id \in DOMAIN shipping ~>
            \/ id \in dropped \cup unsure
            \/ id \in DOMAIN orders /\ orders[id].shipped_status = "completed"
=============================================================================
