------------------------ MODULE RobotDelivery_proofs ------------------------
(***************************************************************************)
(* Proofs about the robot at work against the backend: what it carries,    *)
(* what the cache shows meanwhile, and that every step is one              *)
(* OrderLifecycle allows, for any number of goroutines, orders, customers  *)
(* and failed or given-up calls.                                           *)
(*                                                                         *)
(* The argument: only the goroutine that serves the robot writes rows of   *)
(* its own accord; one that has been given up can only find out what had   *)
(* become of a statement it had sent.  So a row only moves on from         *)
(* "shipping" to "delivering" to "completed", each order on offer or in an *)
(* open transaction still waits, and none that is carried does.            *)
(***************************************************************************)
EXTENDS RobotDelivery, OrderOffer_proofs

(***************************************************************************)
(* The invariant                                                           *)
(***************************************************************************)

\* Who serves the robot, and what it is doing meanwhile.
CallInv ==
    /\ stage \in {"ask", "report"} => handler = None
    /\ stage \in {"planning", "refused"} => handler \in Procs /\ pc[handler] \in PlanPC
    /\ stage = "reporting" =>
          /\ handler \in Procs /\ pc[handler] \in PatchPC
          /\ current \in cargo
          /\ pc[handler] = "update" => todo[handler] = {current}
    /\ stage \notin {"report", "reporting"} => cargo = {}
    /\ handler \notin cancelled
    /\ \A p \in Procs : pc[p] \in PlanPC \cup PatchPC <=> p = handler \/ p \in cancelled
    /\ \A p \in Procs : pc[p] \in PatchPC => newStatus[p] = "completed"

StatusIs(id, s) == id \in DOMAIN orders /\ orders[id].shipped_status = s
Waits(id)   == StatusIs(id, "shipping")
Left(id)    == StatusIs(id, "delivering") \/ StatusIs(id, "completed")

\* Rows on offer or in a transaction wait, and each is in one transaction;
\* rows carried or reported do not wait.
RowsInv ==
    /\ \A id \in DOMAIN shipping : Waits(id)
    /\ \A p \in Procs : \A id \in txRows[p] : Waits(id)
    /\ \A p, q \in Procs : p # q => txRows[p] \cap txRows[q] = {}
    /\ \A p \in cancelled : txRows[p] # {} => pc[p] = "commit"
    /\ \A p \in Procs \ cancelled :
          pc[p] = "tx_update" => RowsFree(p) /\ \A id \in todo[p] : Waits(id)
    /\ \A id \in cargo : Left(id)
    /\ \A p \in Procs : \A id \in todo[p] :
          /\ pc[p] = "update" => Left(id)
          /\ pc[p] \in {"lock", "mark"} => StatusIs(id, "completed")
    /\ stage = "reporting" /\ pc[handler] \in {"lock", "mark"} =>
          StatusIs(current, "completed")

\* A transaction writes its plan; what is carried or reported is cached.
KnownInv ==
    /\ \A p \in Procs : txRows[p] \subseteq plan[p]
    /\ cargo \subseteq DOMAIN orderIdUserId
    /\ \A p \in Procs : pc[p] \in PatchPC => todo[p] \subseteq DOMAIN orderIdUserId

\* What a transaction has marked stays "delivering" in the cache.
MarkedInv ==
    \A p \in Procs : \A id \in txRows[p] \ todo[p] : Slot(id).ShippedStatus = "delivering"

\* What a goroutine that was given up may still commit is on a dropped trip.
DroppedInv == \A p \in cancelled : txRows[p] \subseteq dropped

\* AUTO_INCREMENT is beyond the rows.
FreshInv == \A id \in DOMAIN orders : id < autoInc

\* Plans hold real ids: the zero OrderID is never on offer.
PlansReal == \A p \in Procs : plan[p] \subseteq Ids

\* What the layers below start from.
BaseInv == IInv /\ SInv /\ RobotTypeOK /\ CallInv /\ PlansReal
-----------------------------------------------------------------------------
(***************************************************************************)
(* The robot's steps are steps of the backend                              *)
(***************************************************************************)

\* A PATCH of the robot is the one step OrderStore's Next need not have.
LEMMA RobotStepIsBackend ==
    ASSUME [RobotNext]_allVars
    PROVE  \/ [Next]_vars
           \/ \E p \in Procs : \E id \in cargo : PatchBegin(p, id, "completed")
<1>1. CASE Load
  BY <1>1 DEF Load, Next
<1>2. ASSUME NEW p \in Procs, Forward(p) \/ Work(p) \/ Customer(p) \/ AskTimesOut(p)
                              \/ PlanRefused(p) \/ ReportRefused(p) \/ GiveUp(p)
      PROVE  \/ CreateMany(p) \/ DeliveryPlan(p) \/ UpdateOrderStatus(p) \/ MarkCache(p)
             \/ UNCHANGED vars
             \/ \E id \in cargo : PatchBegin(p, id, "completed")
  BY <1>2 DEF Forward, Ask, Answer, Report, Reported, Work, Customer, AskTimesOut,
              PlanRefused, ReportRefused, GiveUp, Select, DeliveryPlan, UpdateOrderStatus,
              MarkCache
<1>3. CASE UNCHANGED allVars
  BY <1>3 DEF allVars
<1>4. QED
  BY <1>1, <1>2, <1>3 DEF RobotNext, Next

LEMMA RobotStepBase ==
    ASSUME IInv, SInv, RobotTypeOK, [RobotNext]_allVars
    PROVE  IInv' /\ SInv'
<1>1. CASE [Next]_vars
  BY <1>1, NextIInv, NextSInv
<1>2. ASSUME NEW p \in Procs, NEW id \in cargo, PatchBegin(p, id, "completed")
      PROVE  IInv' /\ SInv'
  <2>1. id \in CacheIds /\ "completed" \in Statuses
    BY DEF RobotTypeOK, CacheIds, Statuses
  <2>2. QED
    BY <1>2, <2>1, PatchBeginIInv, PatchBeginSInv
<1>3. QED
  BY <1>1, <1>2, RobotStepIsBackend
-----------------------------------------------------------------------------
(***************************************************************************)
(* What each step does to the request that takes it                        *)
(***************************************************************************)

\* A request that takes no part in the step.
Kept(q) ==
    /\ pc'[q] = pc[q] /\ todo'[q] = todo[q] /\ newStatus'[q] = newStatus[q]
    /\ plan'[q] = plan[q] /\ txRows'[q] = txRows[q]

\* The locals of p after Finish.
Ended(p) == pc'[p] = "idle" /\ todo'[p] = {} /\ plan'[p] = {}

LEMMA FinishEnds ==
    ASSUME TypeOK, NEW p \in Procs, Finish(p),
           txRows' = txRows \/ txRows' = [txRows EXCEPT ![p] = {}]
    PROVE  Ended(p) /\ \A q \in Procs \ {p} : Kept(q)
BY DEF TypeOK, Finish, Go, Ended, Kept

\* A request that creates orders is none that plans or reports.
LEMMA CreateLocals ==
    ASSUME TypeOK, NEW p \in Procs, CreateMany(p)
    PROVE  /\ \A q \in Procs \ {p} : Kept(q)
           /\ pc[p] \in NewPC \cup {"idle"} /\ pc'[p] \in NewPC \cup {"idle"}
           /\ plan'[p] \subseteq plan[p] /\ todo'[p] \subseteq todo[p]
           /\ txRows' = txRows
<1>. USE DEF Kept, NewPC
<1>1. CASE \E u \in Users, b \in Batch : CreateBegin(p, u, b)
  BY <1>1 DEF CreateBegin, Go, TypeOK
<1>2. CASE Insert(p)
  BY <1>2 DEF Insert, Go, call, TypeOK
<1>3. CASE InsertFail(p)
  BY <1>3, FinishEnds DEF InsertFail, Ended
<1>4. CASE CacheNew(p)
  BY <1>4 DEF CacheNew, TypeOK
<1>5. CASE CreateEnd(p)
  BY <1>5, FinishEnds DEF CreateEnd, Ended
<1>6. QED
  BY <1>1, <1>2, <1>3, <1>4, <1>5 DEF CreateMany

LEMMA PlanBeginLocals ==
    ASSUME TypeOK, NEW p \in Procs, PlanBegin(p)
    PROVE  /\ \A q \in Procs \ {p} : Kept(q)
           /\ pc[p] = "idle" /\ pc'[p] = "plan"
           /\ plan'[p] = plan[p] /\ todo'[p] = todo[p] /\ txRows' = txRows
BY DEF PlanBegin, Go, call, TypeOK, Kept

LEMMA PlanSelectLocals ==
    ASSUME TypeOK, NEW p \in Procs, PlanSelect(p)
    PROVE  /\ \A q \in Procs \ {p} : Kept(q)
           /\ pc[p] = "plan" /\ pc'[p] = (IF plan'[p] = {} THEN "commit" ELSE "tx_update")
           /\ plan'[p] \subseteq DOMAIN shipping /\ todo'[p] = plan'[p] /\ txRows' = txRows
BY DEF PlanSelect, Go, TypeOK, Kept

LEMMA PlanUpdateLocals ==
    ASSUME TypeOK, NEW p \in Procs, PlanUpdate(p)
    PROVE  /\ \A q \in Procs \ {p} : Kept(q)
           /\ pc[p] = "tx_update" /\ pc'[p] = "tx_lock"
           /\ plan' = plan /\ todo' = todo /\ newStatus' = newStatus
           /\ txRows'[p] = todo[p]
BY DEF PlanUpdate, Go, call, TypeOK, Kept

LEMMA PlanFailLocals ==
    ASSUME TypeOK, NEW p \in Procs, PlanFail(p)
    PROVE  /\ \A q \in Procs \ {p} : Kept(q)
           /\ pc[p] \in {"plan", "tx_update"} /\ Ended(p) /\ txRows' = txRows
BY FinishEnds DEF PlanFail

LEMMA CommitLocals ==
    ASSUME TypeOK, NEW p \in Procs, Commit(p) \/ CommitFail(p)
    PROVE  /\ \A q \in Procs \ {p} : Kept(q)
           /\ pc[p] = "commit" /\ Ended(p) /\ txRows'[p] = {}
<1>1. pc[p] = "commit" /\ Finish(p) /\ txRows' = [txRows EXCEPT ![p] = {}]
  BY DEF Commit, CommitFail
<1>2. txRows'[p] = {}
  BY <1>1 DEF TypeOK
<1>3. QED
  BY <1>1, <1>2, FinishEnds

LEMMA TxCancelLocals ==
    ASSUME TypeOK, NEW p \in Procs, TxCancel(p)
    PROVE  /\ \A q \in Procs \ {p} : Kept(q)
           /\ pc' = pc /\ plan' = plan /\ todo' = todo /\ newStatus' = newStatus
           /\ pc[p] \in {"tx_lock", "tx_mark"} /\ txRows'[p] = {}
BY DEF TxCancel, call, TypeOK, Kept

LEMMA PatchBeginLocals ==
    ASSUME TypeOK, NEW p \in Procs, NEW id, NEW s, PatchBegin(p, id, s)
    PROVE  /\ \A q \in Procs \ {p} : Kept(q)
           /\ pc[p] = "idle" /\ pc'[p] = "update"
           /\ plan' = plan /\ todo'[p] = {id} /\ newStatus'[p] = s /\ txRows' = txRows
BY DEF PatchBegin, Go, TypeOK, Kept

LEMMA PatchUpdateLocals ==
    ASSUME TypeOK, NEW p \in Procs, PatchUpdate(p)
    PROVE  /\ \A q \in Procs \ {p} : Kept(q)
           /\ pc[p] = "update" /\ pc'[p] = "lock"
           /\ plan' = plan /\ todo' = todo /\ newStatus' = newStatus /\ txRows' = txRows
BY DEF PatchUpdate, Go, call, TypeOK, Kept

LEMMA PatchFailLocals ==
    ASSUME TypeOK, NEW p \in Procs, PatchFail(p)
    PROVE  /\ \A q \in Procs \ {p} : Kept(q)
           /\ pc[p] = "update" /\ Ended(p) /\ txRows' = txRows
BY FinishEnds DEF PatchFail

LEMMA MarkLockLocals ==
    ASSUME TypeOK, NEW p \in Procs, MarkLock(p)
    PROVE  /\ \A q \in Procs \ {p} : Kept(q)
           /\ \/ pc[p] = "lock" /\ pc'[p] = "mark"
              \/ pc[p] = "tx_lock" /\ pc'[p] = "tx_mark"
           /\ plan' = plan /\ todo' = todo /\ newStatus' = newStatus /\ txRows' = txRows
BY DEF MarkLock, Go, call, TypeOK, Kept

LEMMA MarkLocals ==
    ASSUME TypeOK, NEW p \in Procs, Mark(p)
    PROVE  /\ \A q \in Procs \ {p} : Kept(q)
           /\ pc[p] \in {"tx_mark", "mark"} /\ pc' = pc
           /\ plan' = plan /\ newStatus' = newStatus /\ txRows' = txRows
           /\ todo'[p] \subseteq todo[p]
BY DEF Mark, TypeOK, Kept

LEMMA MarkEndLocals ==
    ASSUME TypeOK, NEW p \in Procs, MarkEnd(p)
    PROVE  /\ \A q \in Procs \ {p} : Kept(q)
           /\ txRows' = txRows /\ todo[p] = {}
           /\ \/ pc[p] = "mark" /\ Ended(p)
              \/ /\ pc[p] = "tx_mark" /\ pc'[p] = "commit"
                 /\ plan' = plan /\ todo' = todo /\ newStatus' = newStatus
<1>1. CASE pc[p] = "mark" /\ Finish(p)
  BY <1>1, FinishEnds DEF MarkEnd
<1>2. CASE pc[p] = "tx_mark" /\ Go(p, "commit") /\ UNCHANGED call
  BY <1>2 DEF MarkEnd, Go, call, TypeOK, Kept
<1>3. QED
  BY <1>1, <1>2 DEF MarkEnd
-----------------------------------------------------------------------------
(***************************************************************************)
(* Who serves the robot                                                    *)
(***************************************************************************)

CallPC == PlanPC \cup PatchPC

\* A plan is made of orders on offer, and is only forgotten.
LEMMA PlansRealKept ==
    ASSUME BaseInv, \A p \in Procs : plan'[p] \subseteq plan[p] \cup DOMAIN shipping
    PROVE  PlansReal'
<1>1. DOMAIN shipping \subseteq Ids
  BY DEF BaseInv, IInv, TypeOK, SInv, ZeroNotOffered, CacheIds
<1>2. QED
  BY <1>1 DEF BaseInv, PlansReal

\* A step that does not change what the robot sees: p goes on in its class,
\* or p was given up and ends.
LEMMA WorkKeepsCall ==
    ASSUME BaseInv, NEW p \in Procs, \A q \in Procs \ {p} : Kept(q),
           UNCHANGED robot, cancelled' = {q \in cancelled : pc'[q] # "idle"},
           \/ pc[p] \notin CallPC /\ pc'[p] \notin CallPC
           \/ pc[p] \in PlanPC /\ pc'[p] \in PlanPC
           \/ /\ pc[p] \in PatchPC /\ pc'[p] \in PatchPC \ {"update"}
              /\ newStatus'[p] = newStatus[p]
           \/ p \in cancelled /\ pc'[p] = "idle"
    PROVE  CallInv'
<1>. USE DEF BaseInv, CallInv, CallPC, PlanPC, PatchPC, Kept, robot, RobotTypeOK
<1>1. \A q \in Procs : q \in cancelled' <=> q \in cancelled /\ pc'[q] # "idle"
  OBVIOUS
<1>2. \A q \in Procs : pc'[q] \in PlanPC \cup PatchPC <=> q = handler' \/ q \in cancelled'
  BY <1>1
<1>3. \A q \in Procs : pc'[q] \in PatchPC => newStatus'[q] = "completed"
  OBVIOUS
<1>4. /\ stage' \in {"planning", "refused"} => handler' \in Procs /\ pc'[handler'] \in PlanPC
      /\ stage' = "reporting" =>
          /\ handler' \in Procs /\ pc'[handler'] \in PatchPC
          /\ current' \in cargo'
          /\ pc'[handler'] = "update" => todo'[handler'] = {current'}
  OBVIOUS
<1>5. QED
  BY <1>1, <1>2, <1>3, <1>4

\* What every step of a goroutine gives the robot's types.
LEMMA WorkKeepsTypes ==
    ASSUME RobotTypeOK, UNCHANGED robot, cancelled' \subseteq cancelled
    PROVE  RobotTypeOK'
BY DEF RobotTypeOK, robot

LEMMA WorkLocals ==
    ASSUME TypeOK, NEW p \in Procs, Work(p)
    PROVE  /\ \A q \in Procs \ {p} : Kept(q)
           /\ \/ pc[p] \notin CallPC /\ pc'[p] \notin CallPC
              \/ pc[p] \in PlanPC /\ pc'[p] \in PlanPC
              \/ /\ pc[p] \in PatchPC /\ pc'[p] \in PatchPC \ {"update"}
                 /\ newStatus'[p] = newStatus[p]
              \/ p \in cancelled /\ pc'[p] = "idle"
           /\ plan'[p] \subseteq plan[p] \cup DOMAIN shipping
<1>. USE DEF CallPC, PlanPC, PatchPC, NewPC
<1>1. CASE CreateMany(p)
  BY <1>1, CreateLocals
<1>2. CASE Select(p)
  BY <1>2, PlanSelectLocals DEF Select
<1>3. CASE PlanUpdate(p)
  BY <1>3, PlanUpdateLocals
<1>4. CASE PatchUpdate(p)
  BY <1>4, PatchUpdateLocals
<1>5. CASE p \in cancelled /\ (PlanFail(p) \/ CommitFail(p) \/ PatchFail(p))
  BY <1>5, PlanFailLocals, CommitLocals, PatchFailLocals DEF Ended
<1>6. CASE MarkLock(p)
  BY <1>6, MarkLockLocals
<1>7. CASE Mark(p)
  BY <1>7, MarkLocals
<1>8. CASE MarkPanic(p)
  BY <1>8 DEF MarkPanic, call, Kept
<1>9. CASE (pc[p] = "tx_mark" \/ p \in cancelled) /\ MarkEnd(p)
  BY <1>9, MarkEndLocals DEF Ended
<1>10. QED
  BY <1>1, <1>2, <1>3, <1>4, <1>5, <1>6, <1>7, <1>8, <1>9 DEF Work

LEMMA WorkBase ==
    ASSUME BaseInv, NEW p \in Procs, Work(p)
    PROVE  RobotTypeOK' /\ CallInv' /\ PlansReal'
<1>1. UNCHANGED robot /\ cancelled' = {q \in cancelled : pc'[q] # "idle"}
  BY DEF Work
<1>2. RobotTypeOK'
  BY <1>1, WorkKeepsTypes DEF BaseInv
<1>3. CallInv'
  BY <1>1, WorkLocals, WorkKeepsCall DEF BaseInv, IInv
<1>4. PlansReal'
  BY WorkLocals, PlansRealKept DEF BaseInv, IInv, Kept
<1>5. QED
  BY <1>2, <1>3, <1>4

LEMMA CustomerBase ==
    ASSUME BaseInv, NEW p \in Procs, Customer(p)
    PROVE  RobotTypeOK' /\ CallInv' /\ PlansReal'
<1>0. TypeOK
  BY DEF BaseInv, IInv
<1>1. /\ \A q \in Procs \ {p} : Kept(q)
      /\ pc[p] \notin CallPC /\ pc'[p] \notin CallPC
      /\ plan'[p] \subseteq plan[p]
  BY <1>0, CreateLocals DEF Customer, CallPC, PlanPC, PatchPC, NewPC
<1>2. cancelled' = {q \in cancelled : pc'[q] # "idle"} /\ UNCHANGED robot
  BY <1>1 DEF Customer, BaseInv, CallInv, RobotTypeOK, CallPC, PlanPC, PatchPC, Kept
<1>3. RobotTypeOK'
  BY <1>2, WorkKeepsTypes DEF BaseInv
<1>4. CallInv'
  BY <1>1, <1>2, WorkKeepsCall
<1>5. PlansReal'
  BY <1>1, PlansRealKept DEF Kept
<1>6. QED
  BY <1>3, <1>4, <1>5

\* A call of the robot is taken by a goroutine that was idle.
LEMMA AskBase ==
    ASSUME BaseInv, NEW p \in Procs, Ask(p) \/ AskTimesOut(p)
    PROVE  RobotTypeOK' /\ CallInv' /\ PlansReal'
<1>. USE DEF BaseInv, Ask, AskTimesOut
<1>1. /\ \A q \in Procs \ {p} : Kept(q)
      /\ pc[p] = "idle" /\ pc'[p] = "plan" /\ plan'[p] = plan[p]
  BY PlanBeginLocals DEF IInv
<1>2. RobotTypeOK'
  BY FaultsAssumption DEF RobotTypeOK, Stages
<1>3. CallInv'
  BY <1>1, <1>2, ParamAssumption DEF CallInv, PlanPC, PatchPC, Kept, RobotTypeOK
<1>4. PlansReal'
  BY <1>1, PlansRealKept DEF Kept
<1>5. QED
  BY <1>2, <1>3, <1>4

LEMMA ReportBase ==
    ASSUME BaseInv, NEW p \in Procs, Report(p)
    PROVE  RobotTypeOK' /\ CallInv' /\ PlansReal'
<1>. USE DEF BaseInv, Report
<1>1. PICK id \in cargo : PatchBegin(p, id, "completed") /\ current' = id
  OBVIOUS
<1>2. /\ \A q \in Procs \ {p} : Kept(q)
      /\ pc[p] = "idle" /\ pc'[p] = "update" /\ plan' = plan
      /\ todo'[p] = {id} /\ newStatus'[p] = "completed"
  BY <1>1, PatchBeginLocals DEF IInv
<1>3. RobotTypeOK'
  BY <1>1 DEF RobotTypeOK, Stages, CacheIds
<1>4. CallInv'
  BY <1>1, <1>2, <1>3, ParamAssumption DEF CallInv, PlanPC, PatchPC, Kept, RobotTypeOK
<1>5. PlansReal'
  BY <1>2 DEF PlansReal
<1>6. QED
  BY <1>3, <1>4, <1>5

\* A call that is answered leaves the robot without a goroutine.
LEMMA AnswerBase ==
    ASSUME BaseInv, NEW p \in Procs, Answer(p)
    PROVE  RobotTypeOK' /\ CallInv' /\ PlansReal'
<1>. USE DEF BaseInv, Answer
<1>1. /\ \A q \in Procs \ {p} : Kept(q)
      /\ pc[p] = "commit" /\ Ended(p)
  BY CommitLocals DEF IInv
<1>2. stage \in {"planning", "refused"} /\ cargo = {}
  BY <1>1, ParamAssumption DEF CallInv, RobotTypeOK, Stages, PatchPC
<1>3. plan[p] \subseteq Ids
  BY DEF PlansReal
<1>4. RobotTypeOK'
  BY <1>3 DEF RobotTypeOK, Stages
<1>5. CallInv'
  BY <1>1, <1>2, <1>4, ParamAssumption
     DEF CallInv, PlanPC, PatchPC, Kept, Ended, RobotTypeOK
<1>6. PlansReal'
  BY <1>1 DEF PlansReal, Kept, Ended
<1>7. QED
  BY <1>4, <1>5, <1>6

LEMMA ReportedBase ==
    ASSUME BaseInv, NEW p \in Procs, Reported(p)
    PROVE  RobotTypeOK' /\ CallInv' /\ PlansReal'
<1>. USE DEF BaseInv, Reported
<1>1. /\ \A q \in Procs \ {p} : Kept(q)
      /\ pc[p] = "mark" /\ Ended(p)
  BY MarkEndLocals DEF IInv, CallInv, PatchPC
<1>2. RobotTypeOK'
  BY DEF RobotTypeOK, Stages, CacheIds
<1>3. CallInv'
  BY <1>1, <1>2, ParamAssumption DEF CallInv, PlanPC, PatchPC, Kept, Ended, RobotTypeOK
<1>4. PlansReal'
  BY <1>1 DEF PlansReal, Kept, Ended
<1>5. QED
  BY <1>2, <1>3, <1>4

LEMMA EndTripTypes ==
    ASSUME RobotTypeOK, NEW lost \in SUBSET Ids, EndTrip(lost), cancelled' \subseteq Procs
    PROVE  RobotTypeOK'
BY FaultsAssumption DEF RobotTypeOK, EndTrip, Stages, CacheIds

LEMMA RefusedBase ==
    ASSUME BaseInv, NEW p \in Procs, PlanRefused(p) \/ ReportRefused(p)
    PROVE  RobotTypeOK' /\ CallInv' /\ PlansReal'
<1>. USE DEF BaseInv, PlanRefused, ReportRefused
<1>1. (\A q \in Procs \ {p} : Kept(q)) /\ Ended(p) /\ p = handler /\ UNCHANGED cancelled
  BY PlanFailLocals, CommitLocals, PatchFailLocals DEF IInv
<1>2. PICK lost \in SUBSET Ids : EndTrip(lost)
  BY DEF PlansReal
<1>3. RobotTypeOK'
  BY <1>1, <1>2, EndTripTypes DEF RobotTypeOK
<1>4. CallInv'
  BY <1>1, <1>2, <1>3, ParamAssumption
     DEF CallInv, PlanPC, PatchPC, Kept, Ended, RobotTypeOK, EndTrip
<1>5. PlansReal'
  BY <1>1 DEF PlansReal, Kept, Ended
<1>6. QED
  BY <1>3, <1>4, <1>5

\* A goroutine that is given up is on its own.
LEMMA GiveUpBase ==
    ASSUME BaseInv, NEW p \in Procs, GiveUp(p)
    PROVE  RobotTypeOK' /\ CallInv' /\ PlansReal'
<1>. USE DEF BaseInv, GiveUp
<1>1. pc' = pc /\ todo' = todo /\ newStatus' = newStatus /\ plan' = plan
  BY DEF TxCancel, vars, call
<1>2. plan[p] \in SUBSET Ids
  BY DEF PlansReal
<1>3. RobotTypeOK'
  BY <1>2, EndTripTypes DEF RobotTypeOK
<1>4. CallInv'
  BY <1>1, <1>3, ParamAssumption DEF CallInv, EndTrip, RobotTypeOK
<1>5. PlansReal'
  BY <1>1 DEF PlansReal
<1>6. QED
  BY <1>3, <1>4, <1>5

\* Loading, and steps in which nothing happens.
LEMMA LoadBase ==
    ASSUME BaseInv, Load \/ UNCHANGED allVars
    PROVE  RobotTypeOK' /\ CallInv' /\ PlansReal'
<1>1. UNCHANGED <<pc, todo, newStatus, plan, robot, cancelled>>
  BY DEF Load, LoadOrder, call, allVars, vars
<1>2. QED
  BY <1>1 DEF BaseInv, RobotTypeOK, CallInv, PlansReal, robot

LEMMA RobotInitBase == RobotInit => BaseInv
<1>. SUFFICES ASSUME RobotInit PROVE BaseInv
  OBVIOUS
<1>1. Init
  BY DEF RobotInit
<1>2. IInv /\ SInv
  BY <1>1, InitIInv, InitSInv
<1>3. RobotTypeOK
  BY <1>2, FaultsAssumption DEF RobotInit, RobotTypeOK, Stages, CacheIds, IInv, TypeOK
<1>4. CallInv
  BY <1>1, ParamAssumption DEF RobotInit, Init, CallInv, PlanPC, PatchPC
<1>5. PlansReal
  BY <1>1 DEF Init, PlansReal
<1>6. QED
  BY <1>2, <1>3, <1>4, <1>5 DEF BaseInv

LEMMA RobotNextBase == BaseInv /\ [RobotNext]_allVars => BaseInv'
<1>. SUFFICES ASSUME BaseInv, [RobotNext]_allVars PROVE BaseInv'
  OBVIOUS
<1>1. IInv' /\ SInv'
  BY RobotStepBase DEF BaseInv
<1>2. RobotTypeOK' /\ CallInv' /\ PlansReal'
  <2>1. CASE Load \/ UNCHANGED allVars
    BY <2>1, LoadBase
  <2>2. ASSUME NEW p \in Procs, Forward(p)
        PROVE  RobotTypeOK' /\ CallInv' /\ PlansReal'
    BY <2>2, AskBase, AnswerBase, ReportBase, ReportedBase DEF Forward
  <2>3. ASSUME NEW p \in Procs,
               Work(p) \/ Customer(p) \/ AskTimesOut(p) \/ PlanRefused(p)
               \/ ReportRefused(p) \/ GiveUp(p)
        PROVE  RobotTypeOK' /\ CallInv' /\ PlansReal'
    BY <2>3, WorkBase, CustomerBase, AskBase, RefusedBase, GiveUpBase
  <2>4. QED
    BY <2>1, <2>2, <2>3 DEF RobotNext
<1>3. QED
  BY <1>1, <1>2 DEF BaseInv

\* The backend's invariants hold with the robot at work, and the goroutine that
\* serves it is where its call says.
THEOREM RobotBase == RobotSpec => []BaseInv
BY RobotInitBase, RobotNextBase, PTL DEF RobotSpec

\* The robot and its calls keep their shapes: it has one goroutine at work for
\* it at a time, beside those it has given up.
THEOREM RobotTypeCorrect == RobotSpec => []RobotTypeOK
<1>1. BaseInv => RobotTypeOK
  BY DEF BaseInv
<1>2. QED
  BY <1>1, RobotBase, PTL
-----------------------------------------------------------------------------
(***************************************************************************)
(* What each step does to the table                                        *)
(***************************************************************************)

\* Rows that have left "shipping" never come back, nor from "completed".
RowsForward ==
    \A id : /\ Left(id) => Left(id)'
            /\ StatusIs(id, "completed") => StatusIs(id, "completed")'

\* Rows outside W that wait go on waiting.
WaitOutside(W) == \A id : id \notin W /\ Waits(id) => Waits(id)'

LEMMA RowsUnchanged ==
    ASSUME orders' = orders
    PROVE  RowsForward /\ WaitOutside({})
BY DEF RowsForward, WaitOutside, Left, Waits, StatusIs

LEMMA CreateRows ==
    ASSUME NEW p \in Procs, CreateMany(p)
    PROVE  RowsForward /\ WaitOutside({})
<1>1. orders' = orders \/ orders' = Inserted(user[p], batch[p])
  BY CreateWrites
<1>2. CASE orders' = Inserted(user[p], batch[p])
  <2>1. \A id \in DOMAIN orders : id \in DOMAIN orders' /\ orders'[id] = orders[id]
    BY <1>2 DEF Inserted
  <2>2. QED
    BY <2>1 DEF RowsForward, WaitOutside, Left, Waits, StatusIs
<1>3. QED
  BY <1>1, <1>2, RowsUnchanged

\* What a statement does to the rows it names and to the others.
LEMMA WrittenStatus ==
    ASSUME TypeOK, NEW W, NEW s, orders' = Written(W, s)
    PROVE  \A id, t : StatusIs(id, t)' <=>
              IF id \in W THEN id \in DOMAIN orders /\ t = s ELSE StatusIs(id, t)
<1>1. \A id \in DOMAIN orders : orders[id] \in Row
  BY DEF TypeOK
<1>2. QED
  BY <1>1 DEF Written, StatusIs, Row

\* A transaction takes its rows, which wait, to "delivering", or none.
LEMMA CommitRows ==
    ASSUME TypeOK, SInv, RowsInv, NEW p \in Procs, Commit(p) \/ CommitFail(p)
    PROVE  /\ RowsForward /\ WaitOutside(txRows[p])
           /\ orders' = orders \/ \A id \in txRows[p] : StatusIs(id, "delivering")'
           /\ Commit(p) => \A id \in txRows[p] : StatusIs(id, "delivering")'
           /\ \A id : StatusIs(id, "delivering")' =>
                         StatusIs(id, "delivering") \/ id \in txRows[p]
<1>1. newStatus[p] = "delivering"
  BY DEF Commit, CommitFail, SInv, TxInv, TxPC
<1>2. \A id \in txRows[p] : id \in DOMAIN orders /\ ~Left(id)
  BY DEF RowsInv, Waits, Left, StatusIs
<1>3. CASE orders' = orders /\ ~Commit(p)
  BY <1>3, RowsUnchanged DEF WaitOutside, StatusIs
<1>4. CASE orders' = Written(txRows[p], "delivering")
  <2>1. \A id, t : StatusIs(id, t)' <=>
           IF id \in txRows[p] THEN id \in DOMAIN orders /\ t = "delivering" ELSE StatusIs(id, t)
    BY <1>4, WrittenStatus
  <2>2. RowsForward
    BY <1>2, <2>1 DEF RowsForward, Left, Waits
  <2>3. QED
    BY <1>2, <2>1, <2>2 DEF WaitOutside, Left, Waits
<1>5. QED
  BY <1>1, <1>3, <1>4 DEF Commit, CommitFail

\* A PATCH of the robot takes rows that do not wait to "completed", or none.
LEMMA PatchRows ==
    ASSUME TypeOK, CallInv, RowsInv, NEW p \in Procs, PatchUpdate(p) \/ PatchFail(p)
    PROVE  /\ RowsForward /\ WaitOutside({})
           /\ orders' = orders \/ orders' = Written(todo[p], "completed")
           /\ PatchUpdate(p) => \A id \in todo[p] : StatusIs(id, "completed")'
           /\ \A id : StatusIs(id, "delivering")' => StatusIs(id, "delivering")
<1>1. newStatus[p] = "completed"
  BY DEF PatchUpdate, PatchFail, CallInv, PatchPC
<1>2. \A id \in todo[p] : id \in DOMAIN orders /\ ~Waits(id)
  BY DEF RowsInv, PatchUpdate, PatchFail, Waits, Left, StatusIs
<1>3. CASE orders' = orders /\ ~PatchUpdate(p)
  BY <1>3, RowsUnchanged DEF StatusIs
<1>4. CASE orders' = Written(todo[p], "completed")
  <2>1. \A id, t : StatusIs(id, t)' <=>
           IF id \in todo[p] THEN id \in DOMAIN orders /\ t = "completed" ELSE StatusIs(id, t)
    BY <1>4, WrittenStatus
  <2>2. RowsForward
    BY <1>2, <2>1 DEF RowsForward, Left, Waits
  <2>3. QED
    BY <1>2, <1>4, <2>1, <2>2 DEF WaitOutside, Left, Waits
<1>5. QED
  BY <1>1, <1>3, <1>4 DEF PatchUpdate, PatchFail

\* Steps that leave the table alone.
LEMMA TableKept ==
    ASSUME NEW p \in Procs,
           \/ PlanBegin(p) \/ PlanSelect(p) \/ PlanUpdate(p) \/ PlanFail(p) \/ TxCancel(p)
           \/ (\E id, s : PatchBegin(p, id, s)) \/ MarkLock(p) \/ Mark(p) \/ MarkPanic(p)
           \/ MarkEnd(p) \/ CacheNew(p) \/ CreateEnd(p) \/ LoadOrder \/ UNCHANGED vars
    PROVE  orders' = orders /\ autoInc' = autoInc
BY DEF PlanBegin, PlanSelect, PlanUpdate, PlanFail, TxCancel, PatchBegin, MarkLock, Mark,
       MarkPanic, MarkEnd, CacheNew, CreateEnd, LoadOrder, vars, table

\* Only InitCache puts orders on offer.
LEMMA OffersShrink ==
    ASSUME BaseInv, NEW p \in Procs,
           \/ CreateMany(p) \/ DeliveryPlan(p) \/ UpdateOrderStatus(p) \/ MarkCache(p)
           \/ (\E id, s : PatchBegin(p, id, s)) \/ UNCHANGED vars
    PROVE  DOMAIN shipping' \subseteq DOMAIN shipping
<1>1. CASE UNCHANGED cache
  BY <1>1 DEF cache
<1>2. CASE CacheNew(p)
  BY <1>2 DEF CacheNew, UpdateOrder, Without, Restrict
<1>3. CASE Mark(p)
  BY <1>3 DEF Mark, SetStatus, Without, Restrict
<1>4. \/ UNCHANGED cache \/ CacheNew(p) \/ Mark(p)
  <2>1. CASE CreateMany(p)
    BY <2>1 DEF CreateMany, CreateBegin, Insert, InsertFail, CreateEnd
  <2>2. CASE DeliveryPlan(p) \/ UpdateOrderStatus(p)
    BY <2>2, PlanWrites, PatchWrites
  <2>3. CASE MarkCache(p)
    BY <2>3 DEF MarkCache, MarkLock, MarkPanic, MarkEnd
  <2>4. CASE (\E id, s : PatchBegin(p, id, s)) \/ UNCHANGED vars
    BY <2>4 DEF PatchBegin, vars
  <2>5. QED
    BY <2>1, <2>2, <2>3, <2>4
<1>5. QED
  BY <1>1, <1>2, <1>3, <1>4
-----------------------------------------------------------------------------
(***************************************************************************)
(* What is carried, and what waits                                         *)
(***************************************************************************)

CarryInv == KnownInv /\ RowsInv /\ DroppedInv /\ DeliveringIsCarried

\* The index of the cache only grows.
LEMMA RobotIndexGrows ==
    ASSUME BaseInv, [RobotNext]_allVars
    PROVE  DOMAIN orderIdUserId \subseteq DOMAIN orderIdUserId'
<1>1. CASE [Next]_vars
  BY <1>1, NextEntriesKept DEF BaseInv, EntriesKept
<1>2. ASSUME NEW p \in Procs, NEW id \in cargo, PatchBegin(p, id, "completed")
      PROVE  UNCHANGED orderIdUserId
  BY <1>2 DEF PatchBegin, cache
<1>3. QED
  BY <1>1, <1>2, RobotStepIsBackend

\* A step of p that gives up nobody else.
OnlyP(p) == \A q \in Procs \ {p} : Kept(q) /\ (q \in cancelled' <=> q \in cancelled)

LEMMA WorkOnly ==
    ASSUME BaseInv, NEW p \in Procs, Work(p)
    PROVE  OnlyP(p) /\ (p \in cancelled' => p \in cancelled)
<1>1. \A q \in Procs \ {p} : Kept(q)
  BY WorkLocals DEF BaseInv, IInv
<1>2. \A q \in Procs : q \in cancelled' <=> q \in cancelled /\ pc'[q] # "idle"
  BY DEF Work, BaseInv, RobotTypeOK
<1>3. \A q \in cancelled : pc[q] # "idle"
  BY DEF BaseInv, CallInv, RobotTypeOK, PlanPC, PatchPC
<1>4. QED
  BY <1>1, <1>2, <1>3 DEF OnlyP, Kept

LEMMA KnownStep ==
    ASSUME KnownInv, NEW p \in Procs, OnlyP(p),
           DOMAIN orderIdUserId \subseteq DOMAIN orderIdUserId',
           txRows'[p] \subseteq plan'[p],
           cargo' \subseteq DOMAIN orderIdUserId,
           pc'[p] \in PatchPC => todo'[p] \subseteq DOMAIN orderIdUserId
    PROVE  KnownInv'
BY DEF KnownInv, OnlyP, Kept

LEMMA DroppedStep ==
    ASSUME DroppedInv, RobotTypeOK, RobotTypeOK', NEW p \in Procs, OnlyP(p),
           dropped \subseteq dropped',
           p \in cancelled' => txRows'[p] \subseteq dropped'
    PROVE  DroppedInv'
BY DEF DroppedInv, RobotTypeOK, OnlyP, Kept

\* Nothing becomes "delivering" that is not carried or dropped, and only
\* completed orders are neither any more.
LEMMA CarriedStep ==
    ASSUME DeliveringIsCarried,
           \A id : StatusIs(id, "delivering")' =>
              \/ id \in cargo' \cup dropped'
              \/ StatusIs(id, "delivering") /\ (id \in cargo => id \in cargo' \cup dropped'),
           dropped \subseteq dropped'
    PROVE  DeliveringIsCarried'
BY DEF DeliveringIsCarried, StatusIs

\* The rows W are those p writes to the table as its transaction ends; what p
\* itself goes on with is the last hypotheses' concern.
LEMMA RowsStep ==
    ASSUME BaseInv, RowsInv, RobotTypeOK', NEW p \in Procs, OnlyP(p),
           NEW W, W = {} \/ (W = txRows[p] /\ txRows'[p] = {}),
           W \cap DOMAIN shipping = {},
           RowsForward, WaitOutside(W),
           DOMAIN shipping' \subseteq DOMAIN shipping,
           txRows'[p] \subseteq txRows[p],
           p \in cancelled' /\ txRows'[p] # {} => pc'[p] = "commit",
           p \notin cancelled' /\ pc'[p] = "tx_update" =>
              /\ todo'[p] \subseteq DOMAIN shipping
              /\ \A q \in Procs \ {p} : txRows[q] \cap todo'[p] = {},
           pc'[p] = "update" => \A id \in todo'[p] : Left(id)',
           pc'[p] \in {"lock", "mark"} => \A id \in todo'[p] : StatusIs(id, "completed")',
           \A id \in cargo' : Left(id)',
           stage' = "reporting" /\ pc'[handler'] \in {"lock", "mark"} =>
              StatusIs(current, "completed")'
    PROVE  RowsInv'
<1>. USE DEF BaseInv, RobotTypeOK
<1>1. \A id \in DOMAIN shipping' : Waits(id)'
  BY DEF RowsInv, WaitOutside
<1>2. \A q \in Procs : \A id \in txRows'[q] : Waits(id)'
  BY DEF RowsInv, WaitOutside, OnlyP, Kept
<1>3. \A q, r \in Procs : q # r => txRows'[q] \cap txRows'[r] = {}
  BY DEF RowsInv, OnlyP, Kept
<1>4. \A q \in cancelled' : txRows'[q] # {} => pc'[q] = "commit"
  BY DEF RowsInv, OnlyP, Kept
<1>5. ASSUME NEW q \in Procs \ cancelled', pc'[q] = "tx_update"
      PROVE  RowsFree(q)' /\ \A id \in todo'[q] : Waits(id)'
  <2>1. CASE q = p
    BY <1>5, <2>1 DEF RowsInv, RowsFree, WaitOutside, OnlyP, Kept
  <2>2. CASE q # p
    <3>1. /\ RowsFree(q) /\ todo'[q] = todo[q]
          /\ \A id \in todo[q] : Waits(id) /\ id \notin W
      BY <1>5, <2>2 DEF RowsInv, RowsFree, OnlyP, Kept
    <3>2. \A r \in Procs : txRows'[r] \subseteq txRows[r]
      BY DEF OnlyP, Kept
    <3>3. QED
      BY <3>1, <3>2 DEF RowsFree, WaitOutside
  <2>3. QED
    BY <2>1, <2>2
<1>6. ASSUME NEW q \in Procs, NEW id \in todo'[q]
      PROVE  /\ pc'[q] = "update" => Left(id)'
             /\ pc'[q] \in {"lock", "mark"} => StatusIs(id, "completed")'
  BY <1>6 DEF RowsInv, RowsForward, OnlyP, Kept
<1>7. QED
  BY <1>1, <1>2, <1>3, <1>4, <1>5, <1>6 DEF RowsInv

\* A step of a goroutine that the robot does not see.
LEMMA WorkStep ==
    ASSUME BaseInv, BaseInv', CarryInv, NEW p \in Procs, UNCHANGED robot, OnlyP(p),
           p \in cancelled' => p \in cancelled,
           DOMAIN orderIdUserId \subseteq DOMAIN orderIdUserId',
           NEW W, W = {} \/ (W = txRows[p] /\ txRows'[p] = {} /\ W \subseteq dropped),
           W \cap DOMAIN shipping = {},
           RowsForward, WaitOutside(W),
           \A id : StatusIs(id, "delivering")' => StatusIs(id, "delivering") \/ id \in W,
           DOMAIN shipping' \subseteq DOMAIN shipping,
           txRows'[p] \subseteq txRows[p] \cap plan'[p],
           p \in cancelled' /\ txRows'[p] # {} => pc'[p] = "commit",
           p \notin cancelled' /\ pc'[p] = "tx_update" =>
              /\ todo'[p] \subseteq DOMAIN shipping
              /\ \A q \in Procs \ {p} : txRows[q] \cap todo'[p] = {},
           pc'[p] # "update",
           pc'[p] \in {"lock", "mark"} =>
              /\ \A id \in todo'[p] : StatusIs(id, "completed")' /\ id \in DOMAIN orderIdUserId
              /\ p = handler /\ stage = "reporting" => StatusIs(current, "completed")'
    PROVE  CarryInv'
<1>. USE DEF CarryInv, BaseInv
<1>1. KnownInv'
  <2>1. cargo' \subseteq DOMAIN orderIdUserId
    BY DEF KnownInv, robot
  <2>2. QED
    BY <2>1, KnownStep DEF PatchPC
<1>2. RowsInv'
  <2>1. \A id \in cargo' : Left(id)'
    BY DEF RowsInv, RowsForward, robot
  <2>2. ASSUME stage' = "reporting", pc'[handler'] \in {"lock", "mark"}
        PROVE  StatusIs(current, "completed")'
    <3>1. handler' = handler /\ handler \in Procs /\ stage = "reporting" /\ current' = current
      BY <2>2 DEF CallInv, robot
    <3>2. CASE handler = p
      BY <2>2, <3>1, <3>2
    <3>3. CASE handler # p
      <4>1. StatusIs(current, "completed")
        BY <2>2, <3>1, <3>3 DEF RowsInv, OnlyP, Kept
      <4>2. QED
        BY <3>1, <4>1 DEF RowsForward, StatusIs
    <3>4. QED
      BY <3>2, <3>3
  <2>3. QED
    BY <2>1, <2>2, RowsStep
<1>3. DroppedInv'
  <2>1. dropped' = dropped
    BY DEF robot
  <2>2. p \in cancelled' => txRows'[p] \subseteq dropped
    BY DEF DroppedInv
  <2>3. QED
    BY <2>1, <2>2, DroppedStep
<1>4. DeliveringIsCarried'
  <2>1. cargo' = cargo /\ dropped' = dropped
    BY DEF robot
  <2>2. QED
    BY <2>1, CarriedStep
<1>5. QED
  BY <1>1, <1>2, <1>3, <1>4

\* A request outside its transaction has locked no rows.
LEMMA NoTx ==
    ASSUME SInv, NEW p \in Procs, pc[p] \notin TxPC
    PROVE  txRows[p] = {}
BY DEF SInv, TxInv

\* Every row on offer that a transaction has locked is that transaction's to mark.
LEMMA OfferLocks ==
    ASSUME BaseInv, RowsInv, NEW p \in Procs \ cancelled, pc[p] = "plan"
    PROVE  \A q \in Procs \ {p} : txRows[q] \cap DOMAIN shipping = {}
<1>1. ASSUME NEW q \in Procs \ {p}, txRows[q] # {} PROVE todo[q] = {}
  <2>1. pc[q] \in TxPC
    BY <1>1, NoTx DEF BaseInv
  <2>2. p = handler
    BY DEF BaseInv, CallInv, PlanPC
  <2>3. q \in cancelled
    BY <2>1, <2>2 DEF BaseInv, CallInv, PlanPC, TxPC
  <2>4. QED
    BY <1>1, <2>3 DEF RowsInv, BaseInv, SInv, TxInv
<1>2. QED
  BY <1>1 DEF BaseInv, SInv, TxInv

\* Orders are created without a glance at those on their way.
LEMMA CreateCarry ==
    ASSUME BaseInv, BaseInv', CarryInv, NEW p \in Procs, CreateMany(p),
           UNCHANGED robot, OnlyP(p), p \notin cancelled',
           DOMAIN orderIdUserId \subseteq DOMAIN orderIdUserId'
    PROVE  CarryInv'
<1>1. /\ pc[p] \notin TxPC /\ txRows' = txRows
      /\ pc'[p] \notin {"tx_update", "update", "lock", "mark"}
  BY CreateLocals DEF BaseInv, IInv, TxPC, NewPC
<1>2. txRows'[p] = {}
  BY <1>1, NoTx DEF BaseInv
<1>3. RowsForward /\ WaitOutside({})
  BY CreateRows
<1>4. \A id : StatusIs(id, "delivering")' => StatusIs(id, "delivering")
  <2>1. orders' = orders \/ orders' = Inserted(user[p], batch[p])
    BY CreateWrites
  <2>2. QED
    BY <2>1 DEF StatusIs, Inserted
<1>5. DOMAIN shipping' \subseteq DOMAIN shipping
  BY OffersShrink
<1>6. QED
  BY <1>1, <1>2, <1>3, <1>4, <1>5, WorkStep

LEMMA SelectCarry ==
    ASSUME BaseInv, BaseInv', CarryInv, NEW p \in Procs, Work(p), PlanSelect(p),
           DOMAIN orderIdUserId \subseteq DOMAIN orderIdUserId'
    PROVE  CarryInv'
<1>1. UNCHANGED robot /\ OnlyP(p) /\ (p \in cancelled' => p \in cancelled)
  BY WorkOnly DEF Work
<1>2. /\ pc[p] = "plan" /\ pc'[p] \in {"commit", "tx_update"}
      /\ todo'[p] \subseteq DOMAIN shipping /\ txRows' = txRows
  BY PlanSelectLocals DEF BaseInv, IInv
<1>3. txRows[p] = {}
  BY <1>2, NoTx DEF BaseInv, TxPC
<1>4. orders' = orders /\ shipping' = shipping
  BY TableKept DEF PlanSelect, cache
<1>5. p \notin cancelled' => \A q \in Procs \ {p} : txRows[q] \cap todo'[p] = {}
  <2>1. ASSUME p \notin cancelled' PROVE p \notin cancelled
    BY <1>2, <2>1 DEF Work
  <2>2. QED
    BY <1>2, <2>1, OfferLocks DEF CarryInv
<1>6. QED
  BY <1>1, <1>2, <1>3, <1>4, <1>5, RowsUnchanged, WorkStep DEF StatusIs

\* The UPDATE of a plan locks rows that nobody else has locked.
LEMMA PlanUpdateCarry ==
    ASSUME BaseInv, BaseInv', CarryInv, NEW p \in Procs, Work(p), PlanUpdate(p),
           p \notin cancelled,
           DOMAIN orderIdUserId \subseteq DOMAIN orderIdUserId'
    PROVE  CarryInv'
<1>. USE DEF CarryInv, BaseInv
<1>1. UNCHANGED robot /\ OnlyP(p) /\ p \notin cancelled'
  BY WorkOnly DEF Work
<1>2. /\ pc[p] = "tx_update" /\ pc'[p] = "tx_lock"
      /\ txRows'[p] = todo[p] /\ plan' = plan /\ RowsFree(p)
  BY PlanUpdateLocals DEF IInv, PlanUpdate
<1>3. orders' = orders /\ shipping' = shipping
  BY TableKept DEF PlanUpdate, cache
<1>4. /\ todo[p] \subseteq plan[p]
      /\ \A id \in todo[p] : Waits(id)
  BY <1>1, <1>2 DEF IInv, PlansIndexed, PlanPC, RowsInv
<1>5. p = handler /\ stage # "reporting"
  BY <1>2 DEF CallInv, PlanPC, PatchPC
<1>6. KnownInv'
  <2>1. cargo' \subseteq DOMAIN orderIdUserId
    BY <1>1 DEF KnownInv, robot
  <2>2. QED
    BY <1>1, <1>2, <1>4, <2>1, KnownStep DEF PatchPC
<1>7. RowsInv'
  <2>1. \A id : (Waits(id)' <=> Waits(id)) /\ (Left(id)' <=> Left(id))
    BY <1>3 DEF Waits, Left, StatusIs
  <2>2. \A id : StatusIs(id, "completed")' <=> StatusIs(id, "completed")
    BY <1>3 DEF StatusIs
  <2>3. \A q \in Procs : \A id \in txRows'[q] : Waits(id)'
    BY <1>1, <1>2, <1>4, <2>1 DEF RowsInv, OnlyP, Kept
  <2>4. \A q, r \in Procs : q # r => txRows'[q] \cap txRows'[r] = {}
    BY <1>1, <1>2 DEF RowsInv, RowsFree, OnlyP, Kept
  <2>5. \A q \in cancelled' : txRows'[q] # {} => pc'[q] = "commit"
    BY <1>1 DEF RowsInv, RobotTypeOK, OnlyP, Kept
  <2>6. \A q \in Procs \ cancelled' : pc'[q] # "tx_update"
    BY <1>1, <1>2, <1>5 DEF CallInv, PlanPC, OnlyP, Kept
  <2>7. ASSUME NEW q \in Procs, NEW id \in todo'[q]
        PROVE  /\ pc'[q] = "update" => Left(id)'
               /\ pc'[q] \in {"lock", "mark"} => StatusIs(id, "completed")'
    BY <1>1, <1>2, <2>1, <2>2 DEF RowsInv, OnlyP, Kept
  <2>8. (\A id \in DOMAIN shipping' : Waits(id)') /\ (\A id \in cargo' : Left(id)')
    BY <1>1, <1>3, <2>1 DEF RowsInv, robot
  <2>9. stage' # "reporting"
    BY <1>1, <1>5 DEF robot
  <2>10. QED
    BY <2>3, <2>4, <2>5, <2>6, <2>7, <2>8, <2>9 DEF RowsInv
<1>8. DroppedInv'
  BY <1>1, DroppedStep DEF robot
<1>9. DeliveringIsCarried'
  BY <1>1, <1>3 DEF DeliveringIsCarried, robot
<1>10. QED
  BY <1>6, <1>7, <1>8, <1>9

\* The PATCH writes the row the robot is reporting.
LEMMA PatchUpdateCarry ==
    ASSUME BaseInv, BaseInv', CarryInv, NEW p \in Procs, Work(p), PatchUpdate(p),
           DOMAIN orderIdUserId \subseteq DOMAIN orderIdUserId'
    PROVE  CarryInv'
<1>. USE DEF BaseInv, CarryInv
<1>1. UNCHANGED robot /\ OnlyP(p) /\ (p \in cancelled' => p \in cancelled)
  BY WorkOnly DEF Work
<1>2. /\ pc[p] = "update" /\ pc'[p] = "lock" /\ todo' = todo /\ txRows' = txRows
  BY PatchUpdateLocals DEF IInv
<1>3. txRows[p] = {}
  BY <1>2, NoTx DEF TxPC
<1>4. /\ RowsForward /\ WaitOutside({})
      /\ \A id \in todo[p] : StatusIs(id, "completed")'
      /\ \A id : StatusIs(id, "delivering")' => StatusIs(id, "delivering")
  BY PatchRows DEF IInv
<1>5. DOMAIN shipping' \subseteq DOMAIN shipping
  BY DEF PatchUpdate, cache
<1>6. \A id \in todo'[p] : StatusIs(id, "completed")' /\ id \in DOMAIN orderIdUserId
  BY <1>2, <1>4 DEF KnownInv, PatchPC
<1>7. p = handler /\ stage = "reporting" => StatusIs(current, "completed")'
  <2>1. p = handler /\ stage = "reporting" => todo[p] = {current}
    BY <1>2 DEF CallInv
  <2>2. current' = current
    BY <1>1 DEF robot
  <2>3. QED
    BY <1>4, <2>1, <2>2 DEF StatusIs
<1>8. QED
  BY <1>1, <1>2, <1>3, <1>4, <1>5, <1>6, <1>7, WorkStep

\* The rows a transaction commits are off offer.
LEMMA CommitOffers ==
    ASSUME SInv, NEW p \in Procs, pc[p] = "commit"
    PROVE  txRows[p] \cap DOMAIN shipping = {}
BY DEF SInv, TxInv

\* One that was given up finds out what had become of its statement: what it
\* may have committed is on the list of the trip that failed.
LEMMA FailCarry ==
    ASSUME BaseInv, BaseInv', CarryInv, NEW p \in Procs, Work(p), p \in cancelled,
           PlanFail(p) \/ CommitFail(p) \/ PatchFail(p),
           DOMAIN orderIdUserId \subseteq DOMAIN orderIdUserId'
    PROVE  CarryInv'
<1>. USE DEF BaseInv, CarryInv
<1>1. UNCHANGED robot /\ OnlyP(p) /\ (p \in cancelled' => p \in cancelled)
  BY WorkOnly DEF Work
<1>2. pc'[p] = "idle" /\ txRows'[p] = {}
  BY PlanFailLocals, CommitLocals, PatchFailLocals, NoTx DEF IInv, Ended, TxPC
<1>3. DOMAIN shipping' \subseteq DOMAIN shipping
  BY DEF PlanFail, CommitFail, PatchFail, cache
<1>4. CASE PlanFail(p)
  <2>1. orders' = orders
    BY <1>4, TableKept
  <2>2. QED
    BY <1>1, <1>2, <1>3, <2>1, RowsUnchanged, WorkStep DEF StatusIs
<1>5. CASE CommitFail(p)
  <2>1. pc[p] = "commit"
    BY <1>5 DEF CommitFail
  <2>2. txRows[p] \cap DOMAIN shipping = {} /\ txRows[p] \subseteq dropped
    BY <2>1, CommitOffers DEF DroppedInv
  <2>3. /\ RowsForward /\ WaitOutside(txRows[p])
        /\ \A id : StatusIs(id, "delivering")' =>
                      StatusIs(id, "delivering") \/ id \in txRows[p]
    BY <1>5, CommitRows DEF IInv
  <2>4. QED
    BY <1>1, <1>2, <1>3, <2>2, <2>3, WorkStep
<1>6. CASE PatchFail(p)
  <2>1. /\ RowsForward /\ WaitOutside({})
        /\ \A id : StatusIs(id, "delivering")' => StatusIs(id, "delivering")
    BY <1>6, PatchRows DEF IInv
  <2>2. QED
    BY <1>1, <1>2, <1>3, <2>1, WorkStep
<1>7. QED
  BY <1>4, <1>5, <1>6

\* Taking the lock, and marking what the statement has written.
LEMMA MarkCarry ==
    ASSUME BaseInv, BaseInv', CarryInv, NEW p \in Procs, Work(p),
           MarkLock(p) \/ Mark(p) \/ MarkPanic(p),
           DOMAIN orderIdUserId \subseteq DOMAIN orderIdUserId'
    PROVE  CarryInv'
<1>. USE DEF BaseInv, CarryInv
<1>1. UNCHANGED robot /\ OnlyP(p) /\ (p \in cancelled' => p \in cancelled)
  BY WorkOnly DEF Work
<1>2. /\ \/ pc[p] \in {"tx_lock", "tx_mark"} /\ pc'[p] \in {"tx_lock", "tx_mark"}
         \/ pc[p] \in {"lock", "mark"} /\ pc'[p] \in {"lock", "mark"}
      /\ todo'[p] \subseteq todo[p] /\ txRows' = txRows /\ plan' = plan
  <2>1. ASSUME MarkPanic(p)
        PROVE  pc[p] = "mark" /\ pc' = pc /\ todo' = todo /\ txRows' = txRows /\ plan' = plan
    BY <2>1 DEF MarkPanic, call
  <2>2. QED
    BY <2>1, MarkLockLocals, MarkLocals DEF IInv
<1>3. orders' = orders /\ DOMAIN shipping' \subseteq DOMAIN shipping
  BY TableKept, OffersShrink DEF MarkCache
<1>4. txRows'[p] \subseteq txRows[p] \cap plan'[p]
  BY <1>2 DEF KnownInv
<1>5. p \in cancelled' => txRows'[p] = {}
  BY <1>1, <1>2, NoTx DEF RowsInv, TxPC
<1>6. pc'[p] \in {"lock", "mark"} =>
         /\ \A id \in todo'[p] : StatusIs(id, "completed")' /\ id \in DOMAIN orderIdUserId
         /\ p = handler /\ stage = "reporting" => StatusIs(current, "completed")'
  <2>1. \A id : StatusIs(id, "completed")' <=> StatusIs(id, "completed")
    BY <1>3 DEF StatusIs
  <2>2. current' = current
    BY <1>1 DEF robot
  <2>3. QED
    BY <1>2, <1>3, <2>1, <2>2 DEF RowsInv, KnownInv, PatchPC, StatusIs
<1>7. \A id : StatusIs(id, "delivering")' => StatusIs(id, "delivering")
  BY <1>3 DEF StatusIs
<1>8. pc'[p] # "update" /\ pc'[p] # "tx_update"
  BY <1>2
<1>9. QED
  BY <1>1, <1>3, <1>4, <1>5, <1>6, <1>7, <1>8, RowsUnchanged, WorkStep

LEMMA MarkEndCarry ==
    ASSUME BaseInv, BaseInv', CarryInv, NEW p \in Procs, Work(p), MarkEnd(p),
           DOMAIN orderIdUserId \subseteq DOMAIN orderIdUserId'
    PROVE  CarryInv'
<1>. USE DEF BaseInv, CarryInv
<1>1. UNCHANGED robot /\ OnlyP(p) /\ (p \in cancelled' => p \in cancelled)
  BY WorkOnly DEF Work
<1>2. /\ txRows' = txRows
      /\ \/ pc[p] = "mark" /\ pc'[p] = "idle"
         \/ pc[p] = "tx_mark" /\ pc'[p] = "commit" /\ plan' = plan
  BY MarkEndLocals DEF IInv, Ended
<1>3. orders' = orders /\ DOMAIN shipping' \subseteq DOMAIN shipping
  BY TableKept DEF MarkEnd, cache
<1>4. txRows'[p] \subseteq txRows[p] \cap plan'[p]
  BY <1>2, NoTx DEF KnownInv, TxPC
<1>5. p \in cancelled' => txRows'[p] = {}
  BY <1>1, <1>2, NoTx DEF RowsInv, TxPC
<1>6. QED
  BY <1>1, <1>2, <1>3, <1>4, <1>5, RowsUnchanged, WorkStep DEF StatusIs

LEMMA WorkCarry ==
    ASSUME BaseInv, BaseInv', CarryInv, NEW p \in Procs, Work(p),
           DOMAIN orderIdUserId \subseteq DOMAIN orderIdUserId'
    PROVE  CarryInv'
<1>1. CASE pc[p] # "idle" /\ CreateMany(p)
  <2>1. UNCHANGED robot /\ OnlyP(p)
    BY WorkOnly DEF Work
  <2>2. p \notin cancelled'
    <3>1. pc'[p] \in NewPC \cup {"idle"}
      BY <1>1, CreateLocals DEF BaseInv, IInv
    <3>2. QED
      BY <3>1 DEF BaseInv, CallInv, NewPC, PlanPC, PatchPC
  <2>3. QED
    BY <1>1, <2>1, <2>2, CreateCarry
<1>2. CASE Select(p)
  BY <1>2, SelectCarry DEF Select
<1>3. CASE p \notin cancelled /\ (PlanUpdate(p) \/ PatchUpdate(p))
  BY <1>3, PlanUpdateCarry, PatchUpdateCarry
<1>4. CASE p \in cancelled /\ (PlanFail(p) \/ CommitFail(p) \/ PatchFail(p))
  BY <1>4, FailCarry
<1>5. CASE MarkLock(p) \/ Mark(p) \/ MarkPanic(p)
  BY <1>5, MarkCarry
<1>6. CASE MarkEnd(p)
  BY <1>6, MarkEndCarry
<1>7. QED
  BY <1>1, <1>2, <1>3, <1>4, <1>5, <1>6 DEF Work

LEMMA CustomerCarry ==
    ASSUME BaseInv, BaseInv', CarryInv, NEW p \in Procs, Customer(p),
           DOMAIN orderIdUserId \subseteq DOMAIN orderIdUserId'
    PROVE  CarryInv'
<1>1. UNCHANGED robot /\ cancelled' = cancelled /\ CreateMany(p) /\ pc[p] = "idle"
  BY DEF Customer
<1>2. p \notin cancelled'
  BY <1>1 DEF BaseInv, CallInv, PlanPC, PatchPC
<1>3. OnlyP(p)
  BY <1>1, CreateLocals DEF BaseInv, IInv, OnlyP
<1>4. QED
  BY <1>1, <1>2, <1>3, CreateCarry

\* A call of the robot begins.
LEMMA AskCarry ==
    ASSUME BaseInv, BaseInv', CarryInv, NEW p \in Procs, Ask(p) \/ AskTimesOut(p),
           DOMAIN orderIdUserId \subseteq DOMAIN orderIdUserId'
    PROVE  CarryInv'
<1>. USE DEF BaseInv, CarryInv
<1>1. PlanBegin(p) /\ UNCHANGED <<cargo, dropped, cancelled>> /\ stage' # "reporting"
  BY DEF Ask, AskTimesOut
<1>2. /\ OnlyP(p) /\ pc[p] = "idle" /\ pc'[p] = "plan" /\ txRows' = txRows
  BY <1>1, PlanBeginLocals DEF IInv, OnlyP
<1>3. txRows'[p] = {}
  BY <1>2, NoTx DEF TxPC
<1>4. orders' = orders /\ shipping' = shipping
  BY <1>1, TableKept DEF PlanBegin, cache
<1>5. KnownInv'
  BY <1>1, <1>2, <1>3, KnownStep DEF KnownInv, PatchPC
<1>6. RowsInv'
  <2>1. \A id \in cargo' : Left(id)'
    BY <1>1, <1>4 DEF RowsInv, Left, StatusIs
  <2>2. QED
    BY <1>1, <1>2, <1>3, <1>4, <2>1, RowsUnchanged, RowsStep
<1>7. DroppedInv'
  BY <1>1, <1>2, <1>3, DroppedStep
<1>8. DeliveringIsCarried'
  BY <1>1, <1>4 DEF DeliveringIsCarried
<1>9. QED
  BY <1>5, <1>6, <1>7, <1>8

LEMMA ReportCarry ==
    ASSUME BaseInv, BaseInv', CarryInv, NEW p \in Procs, Report(p),
           DOMAIN orderIdUserId \subseteq DOMAIN orderIdUserId'
    PROVE  CarryInv'
<1>. USE DEF BaseInv, CarryInv
<1>1. PICK id \in cargo : PatchBegin(p, id, "completed")
  BY DEF Report
<1>2. UNCHANGED <<cargo, dropped, cancelled>> /\ handler' = p
  BY DEF Report
<1>3. /\ OnlyP(p) /\ pc[p] = "idle" /\ pc'[p] = "update" /\ todo'[p] = {id}
      /\ txRows' = txRows
  BY <1>1, <1>2, PatchBeginLocals DEF IInv, OnlyP
<1>4. txRows'[p] = {}
  BY <1>3, NoTx DEF TxPC
<1>5. orders' = orders /\ shipping' = shipping
  BY <1>1, TableKept DEF PatchBegin, cache
<1>6. KnownInv'
  BY <1>2, <1>3, <1>4, KnownStep DEF KnownInv
<1>7. RowsInv'
  <2>1. \A k \in cargo' : Left(k)'
    BY <1>2, <1>5 DEF RowsInv, Left, StatusIs
  <2>2. \A k \in todo'[p] : Left(k)'
    BY <1>2, <1>3, <2>1
  <2>3. pc'[handler'] \notin {"lock", "mark"}
    BY <1>2, <1>3
  <2>4. QED
    BY <1>2, <1>3, <1>4, <1>5, <2>1, <2>2, <2>3, RowsUnchanged, RowsStep
<1>8. DroppedInv'
  BY <1>2, <1>3, <1>4, DroppedStep
<1>9. DeliveringIsCarried'
  BY <1>2, <1>5 DEF DeliveringIsCarried
<1>10. QED
  BY <1>6, <1>7, <1>8, <1>9

\* The plan is committed as it is sent: its orders go on the robot's list, or
\* on that of the trip the robot had given up on.
LEMMA AnswerCarry ==
    ASSUME BaseInv, BaseInv', CarryInv, NEW p \in Procs, Answer(p),
           DOMAIN orderIdUserId \subseteq DOMAIN orderIdUserId'
    PROVE  CarryInv'
<1>. USE DEF BaseInv, CarryInv
<1>1. /\ Commit(p) /\ p = handler /\ UNCHANGED cancelled /\ stage' # "reporting"
      /\ \/ cargo' = plan[p] /\ dropped' = dropped
         \/ cargo' = cargo /\ dropped' = dropped \cup plan[p]
  BY DEF Answer
<1>2. OnlyP(p) /\ pc[p] = "commit" /\ pc'[p] = "idle" /\ txRows'[p] = {}
  BY <1>1, CommitLocals DEF IInv, OnlyP, Ended
<1>3. p \notin cancelled' /\ cargo = {}
  BY <1>1, <1>2, ParamAssumption DEF CallInv, RobotTypeOK, Stages, PatchPC
<1>4. txRows[p] = plan[p] /\ plan[p] \subseteq DOMAIN orderIdUserId
  BY <1>1 DEF Commit, Cancelled, IInv, PlansIndexed
<1>5. shipping' = shipping /\ txRows[p] \cap DOMAIN shipping = {}
  BY <1>1, <1>2, CommitOffers DEF Commit, cache
<1>6. /\ RowsForward /\ WaitOutside(txRows[p])
      /\ \A id \in txRows[p] : StatusIs(id, "delivering")'
      /\ \A id : StatusIs(id, "delivering")' => StatusIs(id, "delivering") \/ id \in txRows[p]
  BY <1>1, CommitRows DEF IInv
<1>7. KnownInv'
  BY <1>1, <1>2, <1>3, <1>4, KnownStep DEF PatchPC
<1>8. RowsInv'
  <2>1. \A id \in cargo' : Left(id)'
    BY <1>1, <1>3, <1>4, <1>6 DEF Left
  <2>2. QED
    BY <1>1, <1>2, <1>5, <1>6, <2>1, RowsStep
<1>9. DroppedInv'
  BY <1>1, <1>2, <1>3, DroppedStep
<1>10. DeliveringIsCarried'
  BY <1>1, <1>3, <1>4, <1>6, CarriedStep
<1>11. QED
  BY <1>7, <1>8, <1>9, <1>10

\* Only an order whose row is completed goes off the robot's list.
LEMMA ReportedCarry ==
    ASSUME BaseInv, BaseInv', CarryInv, NEW p \in Procs, Reported(p),
           DOMAIN orderIdUserId \subseteq DOMAIN orderIdUserId'
    PROVE  CarryInv'
<1>. USE DEF BaseInv, CarryInv
<1>1. /\ MarkEnd(p) /\ p = handler /\ stage = "reporting" /\ cargo' = cargo \ {current}
      /\ UNCHANGED <<dropped, cancelled>> /\ stage' # "reporting"
  BY DEF Reported
<1>2. OnlyP(p) /\ pc[p] = "mark" /\ pc'[p] = "idle" /\ txRows' = txRows
  BY <1>1, MarkEndLocals DEF IInv, OnlyP, CallInv, PatchPC, Ended
<1>3. txRows'[p] = {}
  BY <1>2, NoTx DEF TxPC
<1>4. orders' = orders /\ shipping' = shipping
  BY <1>1, TableKept DEF MarkEnd, cache
<1>5. StatusIs(current, "completed")
  BY <1>1, <1>2 DEF RowsInv
<1>6. KnownInv'
  BY <1>1, <1>2, <1>3, KnownStep DEF KnownInv, PatchPC
<1>7. RowsInv'
  <2>1. \A id \in cargo' : Left(id)'
    BY <1>1, <1>4 DEF RowsInv, Left, StatusIs
  <2>2. QED
    BY <1>1, <1>2, <1>3, <1>4, <2>1, RowsUnchanged, RowsStep
<1>8. DroppedInv'
  BY <1>1, <1>2, <1>3, DroppedStep
<1>9. DeliveringIsCarried'
  BY <1>1, <1>4, <1>5 DEF DeliveringIsCarried, StatusIs
<1>10. QED
  BY <1>6, <1>7, <1>8, <1>9

\* A trip that ends early: what the robot carried, and what the request may
\* have committed, is dropped.
LEMMA EndTripCarry ==
    ASSUME BaseInv, BaseInv', CarryInv, NEW p \in Procs, OnlyP(p),
           NEW lost, EndTrip(lost), NEW W, W = {} \/ (W = txRows[p] /\ txRows'[p] = {}),
           W \subseteq lost, W \cap DOMAIN shipping = {},
           DOMAIN orderIdUserId \subseteq DOMAIN orderIdUserId',
           RowsForward, WaitOutside(W),
           \A id : StatusIs(id, "delivering")' => StatusIs(id, "delivering") \/ id \in W,
           DOMAIN shipping' \subseteq DOMAIN shipping,
           txRows'[p] \subseteq txRows[p] \cap plan'[p] \cap lost,
           p \in cancelled' => todo'[p] \subseteq todo[p],
           p \in cancelled' /\ txRows'[p] # {} => pc'[p] = "commit",
           p \in cancelled' => pc'[p] = pc[p],
           p \notin cancelled' => pc'[p] = "idle"
    PROVE  CarryInv'
<1>. USE DEF BaseInv, CarryInv
<1>1. cargo' = {} /\ dropped' = dropped \cup cargo \cup lost /\ stage' # "reporting"
  BY DEF EndTrip
<1>2. KnownInv'
  BY <1>1, KnownStep DEF KnownInv, PatchPC
<1>3. RowsInv'
  <2>1. pc'[p] = "update" => \A id \in todo'[p] : Left(id)'
    BY DEF RowsInv, RowsForward
  <2>2. pc'[p] \in {"lock", "mark"} => \A id \in todo'[p] : StatusIs(id, "completed")'
    BY DEF RowsInv, RowsForward
  <2>3. QED
    BY <1>1, <2>1, <2>2, RowsStep
<1>4. DroppedInv'
  BY <1>1, DroppedStep
<1>5. DeliveringIsCarried'
  BY <1>1, CarriedStep
<1>6. QED
  BY <1>2, <1>3, <1>4, <1>5

LEMMA RefusedCarry ==
    ASSUME BaseInv, BaseInv', CarryInv, NEW p \in Procs, PlanRefused(p) \/ ReportRefused(p),
           DOMAIN orderIdUserId \subseteq DOMAIN orderIdUserId'
    PROVE  CarryInv'
<1>. USE DEF BaseInv, CarryInv
<1>1. p = handler /\ UNCHANGED cancelled
  BY DEF PlanRefused, ReportRefused
<1>2. OnlyP(p) /\ pc'[p] = "idle" /\ txRows'[p] = {} /\ p \notin cancelled'
  BY <1>1, PlanFailLocals, CommitLocals, PatchFailLocals, NoTx
     DEF PlanRefused, ReportRefused, IInv, OnlyP, Ended, TxPC, CallInv
<1>3. DOMAIN shipping' \subseteq DOMAIN shipping
  BY DEF PlanRefused, ReportRefused, PlanFail, CommitFail, PatchFail, cache
<1>4. CASE PlanFail(p) /\ EndTrip(plan[p])
  <2>1. orders' = orders
    BY <1>4, TableKept
  <2>2. QED
    BY <1>2, <1>3, <1>4, <2>1, RowsUnchanged, EndTripCarry DEF StatusIs
<1>5. CASE CommitFail(p) /\ EndTrip(plan[p])
  <2>1. txRows[p] \cap DOMAIN shipping = {} /\ txRows[p] \subseteq plan[p]
    BY <1>5, CommitOffers DEF KnownInv, CommitFail
  <2>2. /\ RowsForward /\ WaitOutside(txRows[p])
        /\ \A id : StatusIs(id, "delivering")' =>
                      StatusIs(id, "delivering") \/ id \in txRows[p]
    BY <1>5, CommitRows DEF IInv
  <2>3. QED
    BY <1>2, <1>3, <1>5, <2>1, <2>2, EndTripCarry
<1>6. CASE PatchFail(p) /\ EndTrip({})
  <2>1. /\ RowsForward /\ WaitOutside({})
        /\ \A id : StatusIs(id, "delivering")' => StatusIs(id, "delivering")
    BY <1>6, PatchRows DEF IInv
  <2>2. QED
    BY <1>2, <1>3, <1>6, <2>1, EndTripCarry
<1>7. QED
  BY <1>4, <1>5, <1>6 DEF PlanRefused, ReportRefused

LEMMA GiveUpCarry ==
    ASSUME BaseInv, BaseInv', CarryInv, NEW p \in Procs, GiveUp(p),
           DOMAIN orderIdUserId \subseteq DOMAIN orderIdUserId'
    PROVE  CarryInv'
<1>. USE DEF BaseInv, CarryInv
<1>1. /\ p = handler /\ EndTrip(plan[p]) /\ cancelled' = cancelled \cup {p}
      /\ \/ pc[p] \in {"tx_lock", "tx_mark"} /\ TxCancel(p)
         \/ pc[p] \notin {"tx_lock", "tx_mark"} /\ UNCHANGED vars
  BY DEF GiveUp
<1>2. pc' = pc /\ todo' = todo /\ newStatus' = newStatus /\ plan' = plan
      /\ orders' = orders /\ shipping' = shipping
  BY <1>1 DEF TxCancel, vars, call, cache, table
<1>3. OnlyP(p) /\ p \in cancelled'
  BY <1>1, TxCancelLocals DEF IInv, OnlyP, Kept, vars, call
<1>4. txRows'[p] \subseteq txRows[p] /\ (txRows'[p] # {} => pc[p] = "commit")
  <2>1. CASE TxCancel(p)
    BY <2>1, TxCancelLocals DEF IInv
  <2>2. CASE pc[p] \notin {"tx_lock", "tx_mark"} /\ UNCHANGED vars
    BY <2>2, NoTx DEF TxPC, vars
  <2>3. QED
    BY <1>1, <2>1, <2>2
<1>5. QED
  BY <1>1, <1>2, <1>3, <1>4, RowsUnchanged, EndTripCarry DEF KnownInv, StatusIs

\* A row is put on offer as it stands; until all are, nobody works.
LEMMA LoadCarry ==
    ASSUME BaseInv, BaseInv', CarryInv, Load \/ UNCHANGED allVars,
           DOMAIN orderIdUserId \subseteq DOMAIN orderIdUserId'
    PROVE  CarryInv'
<1>. USE DEF BaseInv, CarryInv
<1>1. UNCHANGED <<orders, pc, todo, newStatus, plan, txRows, robot, cancelled>>
  BY DEF Load, LoadOrder, table, call, allVars, vars
<1>2. \A id \in DOMAIN shipping' : Waits(id)
  <2>1. CASE Load
    <3>1. PICK k \in toLoad :
            UpdateOrder([OrderID |-> k, UserID |-> orders[k].user_id,
                         ProductID |-> orders[k].product_id,
                         ShippedStatus |-> orders[k].shipped_status])
      BY <2>1 DEF Load, LoadOrder
    <3>2. k \in DOMAIN orders
      BY DEF IInv, LoadInv
    <3>3. \A id \in DOMAIN shipping' :
             id \in DOMAIN shipping \/ (id = k /\ orders[k].shipped_status = "shipping")
      BY <3>1 DEF UpdateOrder, Put, Without, Restrict
    <3>4. QED
      BY <3>2, <3>3 DEF RowsInv, Waits, StatusIs
  <2>2. CASE UNCHANGED allVars
    BY <2>2 DEF RowsInv, allVars, vars, cache
  <2>3. QED
    BY <2>1, <2>2
<1>3. KnownInv'
  BY <1>1 DEF KnownInv, robot
<1>4. RowsInv'
  <2>1. \A id, s : StatusIs(id, s)' <=> StatusIs(id, s)
    BY <1>1 DEF StatusIs
  <2>2. \A id : (Waits(id)' <=> Waits(id)) /\ (Left(id)' <=> Left(id))
    BY <2>1 DEF Waits, Left
  <2>3. \A q \in Procs : RowsFree(q)' <=> RowsFree(q)
    BY <1>1 DEF RowsFree
  <2>4. UNCHANGED <<stage, cargo, current, handler>>
    BY <1>1 DEF robot
  <2>5. StatusIs(current, "completed")' <=> StatusIs(current, "completed")
    BY <1>1, <2>4 DEF StatusIs
  <2>6. QED
    BY <1>1, <1>2, <2>1, <2>2, <2>3, <2>4, <2>5 DEF RowsInv
<1>5. DroppedInv' /\ DeliveringIsCarried'
  BY <1>1 DEF DroppedInv, DeliveringIsCarried, robot
<1>6. QED
  BY <1>3, <1>4, <1>5

LEMMA RobotInitCarry == RobotInit => CarryInv
<1>. SUFFICES ASSUME RobotInit PROVE CarryInv
  OBVIOUS
<1>1. Init
  BY DEF RobotInit
<1>2. KnownInv /\ RowsInv /\ DroppedInv
  <2>1. DOMAIN shipping = {}
    BY <1>1 DEF Init
  <2>2. QED
    BY <1>1, <2>1 DEF RobotInit, Init, KnownInv, RowsInv, DroppedInv, PatchPC
<1>3. DeliveringIsCarried
  BY DEF RobotInit, DeliveringIsCarried
<1>4. QED
  BY <1>2, <1>3 DEF CarryInv

LEMMA RobotNextCarry == BaseInv /\ BaseInv' /\ CarryInv /\ [RobotNext]_allVars => CarryInv'
<1>. SUFFICES ASSUME BaseInv, BaseInv', CarryInv, [RobotNext]_allVars PROVE CarryInv'
  OBVIOUS
<1>1. DOMAIN orderIdUserId \subseteq DOMAIN orderIdUserId'
  BY RobotIndexGrows
<1>2. CASE Load \/ UNCHANGED allVars
  BY <1>1, <1>2, LoadCarry
<1>3. ASSUME NEW p \in Procs, Forward(p) PROVE CarryInv'
  BY <1>1, <1>3, AskCarry, AnswerCarry, ReportCarry, ReportedCarry DEF Forward
<1>4. ASSUME NEW p \in Procs,
             Work(p) \/ Customer(p) \/ AskTimesOut(p) \/ PlanRefused(p)
             \/ ReportRefused(p) \/ GiveUp(p)
      PROVE  CarryInv'
  BY <1>1, <1>4, WorkCarry, CustomerCarry, AskCarry, RefusedCarry, GiveUpCarry
<1>5. QED
  BY <1>2, <1>3, <1>4 DEF RobotNext

\* What is on offer or in a transaction waits, what is carried does not, and a
\* goroutine that was given up can commit only what a failed trip had planned.
THEOREM CarryInvariance == RobotSpec => [](BaseInv /\ CarryInv)
<1>1. RobotInit => CarryInv
  BY RobotInitCarry
<1>2. BaseInv /\ BaseInv' /\ CarryInv /\ [RobotNext]_allVars => CarryInv'
  BY RobotNextCarry
<1>3. QED
  BY <1>1, <1>2, RobotBase, PTL DEF RobotSpec

\* An order in "delivering" is on the robot's list, or on the list of a trip
\* that failed: none gets lost on a trip that went well.
THEOREM NothingLostOnTheWay == RobotSpec => []DeliveringIsCarried
<1>1. CarryInv => DeliveringIsCarried
  BY DEF CarryInv
<1>2. QED
  BY <1>1, CarryInvariance, PTL
-----------------------------------------------------------------------------
(***************************************************************************)
(* The process stays up                                                    *)
(***************************************************************************)

\* What a PATCH of the robot marks is cached, so nothing is indexed out of range.
LEMMA RobotNextUp ==
    ASSUME BaseInv, CarryInv, RobotNeverPanics, [RobotNext]_allVars
    PROVE  RobotNeverPanics'
<1>1. ASSUME NEW p \in Procs, MarkPanic(p) PROVE FALSE
  BY <1>1 DEF MarkPanic, CarryInv, KnownInv, PatchPC
<1>2. CASE [Next]_vars
  <2>1. ASSUME NEW p \in Procs, CreateMany(p) PROVE up' = up
    BY <2>1 DEF CreateMany, CreateBegin, Insert, InsertFail, CacheNew, CreateEnd
  <2>2. ASSUME NEW p \in Procs, DeliveryPlan(p) \/ UpdateOrderStatus(p) PROVE up' = up
    BY <2>2 DEF DeliveryPlan, PlanBegin, PlanSelect, PlanUpdate, PlanFail, Commit, CommitFail,
                TxCancel, UpdateOrderStatus, PatchBegin, PatchUpdate, PatchFail
  <2>3. ASSUME NEW p \in Procs, MarkCache(p) PROVE up' = up
    BY <1>1, <2>3 DEF MarkCache, MarkLock, Mark, MarkEnd
  <2>4. ASSUME LoadOrder \/ Stopped \/ UNCHANGED vars PROVE up' = up
    BY <2>4 DEF LoadOrder, Stopped, vars
  <2>5. QED
    BY <1>2, <2>1, <2>2, <2>3, <2>4 DEF Next, RobotNeverPanics
<1>3. ASSUME NEW p \in Procs, NEW id \in cargo, PatchBegin(p, id, "completed")
      PROVE  up' = up
  BY <1>3 DEF PatchBegin
<1>4. QED
  BY <1>2, <1>3, RobotStepIsBackend DEF RobotNeverPanics

\* The robot only reports orders the cache knows: it never ends the process.
THEOREM RobotKeepsServerUp == RobotSpec => []RobotNeverPanics
<1>1. RobotInit => RobotNeverPanics
  BY DEF RobotInit, Init, RobotNeverPanics
<1>2. BaseInv /\ CarryInv /\ RobotNeverPanics /\ [RobotNext]_allVars => RobotNeverPanics'
  BY RobotNextUp
<1>3. QED
  BY <1>1, <1>2, CarryInvariance, PTL DEF RobotSpec
-----------------------------------------------------------------------------
(***************************************************************************)
(* What the cached history shows                                           *)
(***************************************************************************)

InFlightBy(p, id) == id \in txRows[p] \/ (pc[p] \in {"lock", "mark"} /\ id \in todo[p])

ShownInv == CacheFollowsTable /\ MarkedInv

\* The cached history is right after a step of p if each order it shows is
\* shown right, or is p's to set right, or if neither it nor its row changed.
LEMMA ShownStep ==
    ASSUME BaseInv, CacheFollowsTable, NEW p \in Procs, \A q \in Procs \ {p} : Kept(q),
           unsure \subseteq unsure',
           \A id \in DOMAIN orderIdUserId' \ {0} :
              \/ Slot(id)'.ShippedStatus = orders'[id].shipped_status
              \/ InFlightBy(p, id)'
              \/ id \in unsure'
              \/ /\ id \in DOMAIN orderIdUserId /\ ~InFlightBy(p, id)
                 /\ Slot(id)'.ShippedStatus = Slot(id).ShippedStatus
                 /\ orders'[id].shipped_status = orders[id].shipped_status
    PROVE  CacheFollowsTable'
<1>1. \A q \in Procs \ {p} : \A id : InFlightBy(q, id) => InFlightBy(q, id)'
  BY DEF InFlightBy, Kept
<1>2. \A id : InFlight(id) <=> \E q \in Procs : InFlightBy(q, id)
  BY DEF InFlight, InFlightBy
<1>3. \A id : InFlight(id)' <=> \E q \in Procs : InFlightBy(q, id)'
  BY DEF InFlight, InFlightBy
<1>4. ASSUME NEW id \in DOMAIN orderIdUserId' \ {0}
      PROVE  \/ Slot(id)'.ShippedStatus = orders'[id].shipped_status
             \/ InFlight(id)' \/ id \in unsure'
  <2>1. CASE id \in DOMAIN orderIdUserId
    <3>1. \/ Slot(id).ShippedStatus = orders[id].shipped_status
          \/ InFlight(id) \/ id \in unsure
      BY <1>4, <2>1 DEF CacheFollowsTable
    <3>2. QED
      BY <1>1, <1>2, <1>3, <3>1
  <2>2. CASE id \notin DOMAIN orderIdUserId
    BY <1>3, <2>2
  <2>3. QED
    BY <2>1, <2>2
<1>5. QED
  BY <1>4 DEF CacheFollowsTable

LEMMA MarkedStep ==
    ASSUME MarkedInv, NEW p \in Procs, \A q \in Procs \ {p} : Kept(q),
           \A q \in Procs \ {p} : \A id \in txRows[q] \ todo[q] :
              Slot(id).ShippedStatus = "delivering" => Slot(id)'.ShippedStatus = "delivering",
           \A id \in txRows'[p] \ todo'[p] :
              \/ Slot(id)'.ShippedStatus = "delivering"
              \/ id \in txRows[p] \ todo[p] /\ Slot(id)' = Slot(id)
    PROVE  MarkedInv'
<1>1. ASSUME NEW q \in Procs, NEW id \in txRows'[q] \ todo'[q]
      PROVE  Slot(id)'.ShippedStatus = "delivering"
  <2>1. CASE q = p
    BY <2>1 DEF MarkedInv
  <2>2. CASE q # p
    BY <2>2 DEF MarkedInv, Kept
  <2>3. QED
    BY <2>1, <2>2
<1>2. QED
  BY <1>1 DEF MarkedInv

LEMMA SlotsUnchanged == UNCHANGED cache => \A id : Slot(id)' = Slot(id)
BY DEF cache, Slot

\* A transaction's rows are cached under real ids.
LEMMA TxRowsCached ==
    ASSUME BaseInv, CarryInv, NEW p \in Procs
    PROVE  txRows[p] \subseteq DOMAIN orderIdUserId \ {0}
<1>1. plan[p] \subseteq DOMAIN orderIdUserId /\ 0 \notin plan[p]
  BY DEF BaseInv, IInv, PlansIndexed, PlansReal, Ids
<1>2. QED
  BY <1>1 DEF CarryInv, KnownInv

\* Steps that change neither the cache nor the table, and lock no new row
\* unless it is to be marked.
LEMMA QuietShown ==
    ASSUME BaseInv, ShownInv, NEW p \in Procs, \A q \in Procs \ {p} : Kept(q),
           UNCHANGED <<orders, cache>>, unsure \subseteq unsure',
           \A id : InFlightBy(p, id) => InFlightBy(p, id)' \/ id \in unsure',
           \A id \in txRows'[p] : id \in todo'[p] \/ id \in txRows[p] \ todo[p]
    PROVE  ShownInv'
<1>1. \A id : Slot(id)' = Slot(id)
  BY SlotsUnchanged
<1>2. CacheFollowsTable'
  BY <1>1, ShownStep DEF ShownInv, cache
<1>3. MarkedInv'
  BY <1>1, MarkedStep DEF ShownInv
<1>4. QED
  BY <1>2, <1>3 DEF ShownInv

LEMMA PlanShown ==
    ASSUME BaseInv, CarryInv, ShownInv, NEW p \in Procs,
           PlanBegin(p) \/ PlanSelect(p) \/ PlanUpdate(p) \/ PlanFail(p) \/ TxCancel(p)
    PROVE  ShownInv'
<1>0. TypeOK /\ SInv
  BY DEF BaseInv, IInv
<1>1. UNCHANGED <<orders, cache>> /\ unsure \subseteq unsure'
  BY DEF PlanBegin, PlanSelect, PlanUpdate, PlanFail, TxCancel, table
<1>2. CASE PlanBegin(p) \/ PlanSelect(p) \/ PlanFail(p)
  <2>1. pc[p] \notin TxPC \cup {"lock", "mark"} /\ txRows' = txRows
    BY <1>0, <1>2, PlanBeginLocals, PlanSelectLocals, PlanFailLocals DEF TxPC
  <2>2. txRows[p] = {}
    BY <1>0, <2>1, NoTx
  <2>3. QED
    BY <1>0, <1>1, <1>2, <2>1, <2>2, PlanBeginLocals, PlanSelectLocals, PlanFailLocals,
       QuietShown DEF InFlightBy
<1>3. CASE PlanUpdate(p)
  <2>1. pc[p] = "tx_update" /\ txRows[p] = {}
    BY <1>0, <1>3, NoTx DEF TxPC, PlanUpdate
  <2>2. QED
    BY <1>0, <1>1, <1>3, <2>1, PlanUpdateLocals, QuietShown DEF InFlightBy
<1>4. CASE TxCancel(p)
  <2>1. unsure' = unsure \cup txRows[p]
    BY <1>4 DEF TxCancel
  <2>2. QED
    BY <1>0, <1>1, <1>4, <2>1, TxCancelLocals, QuietShown DEF InFlightBy
<1>5. QED
  BY <1>2, <1>3, <1>4

LEMMA PatchShown ==
    ASSUME BaseInv, CarryInv, ShownInv, NEW p \in Procs,
           (\E id, s : PatchBegin(p, id, s)) \/ MarkLock(p) \/ MarkPanic(p) \/ MarkEnd(p)
    PROVE  ShownInv'
<1>0. TypeOK /\ SInv
  BY DEF BaseInv, IInv
<1>1. UNCHANGED <<orders, cache>> /\ unsure \subseteq unsure'
  BY DEF PatchBegin, MarkLock, MarkPanic, MarkEnd, table
<1>2. ASSUME NEW id, NEW s, PatchBegin(p, id, s) PROVE ShownInv'
  <2>1. /\ \A q \in Procs \ {p} : Kept(q)
        /\ pc[p] = "idle" /\ txRows' = txRows
    BY <1>0, <1>2, PatchBeginLocals
  <2>2. txRows[p] = {}
    BY <1>0, <2>1, NoTx DEF TxPC
  <2>3. QED
    BY <1>1, <2>1, <2>2, QuietShown DEF InFlightBy
<1>3. CASE MarkLock(p)
  BY <1>0, <1>1, <1>3, MarkLockLocals, QuietShown DEF InFlightBy
<1>4. CASE MarkPanic(p)
  BY <1>1, <1>4, QuietShown DEF InFlightBy, MarkPanic, call, Kept
<1>5. CASE MarkEnd(p)
  <2>1. /\ \A q \in Procs \ {p} : Kept(q)
        /\ txRows' = txRows /\ todo[p] = {}
    BY <1>0, <1>5, MarkEndLocals
  <2>2. QED
    BY <1>1, <2>1, QuietShown DEF InFlightBy
<1>6. QED
  BY <1>2, <1>3, <1>4, <1>5

\* New rows are not cached under their ids, and the rows there were stay.
LEMMA CreateShown ==
    ASSUME BaseInv, CarryInv, ShownInv, NEW p \in Procs, CreateMany(p)
    PROVE  ShownInv'
<1>0. IInv /\ TypeOK /\ SInv
  BY DEF BaseInv, IInv
<1>1. /\ \A q \in Procs \ {p} : Kept(q)
      /\ pc[p] \notin TxPC \cup {"lock", "mark"} /\ txRows' = txRows
  BY <1>0, CreateLocals DEF TxPC, NewPC
<1>2. txRows[p] = {} /\ \A id : ~InFlightBy(p, id)
  BY <1>0, <1>1, NoTx DEF InFlightBy
<1>3. unsure \subseteq unsure'
  BY DEF CreateMany, CreateBegin, Insert, InsertFail, CacheNew, CreateEnd
<1>4. \A id \in DOMAIN orderIdUserId \ {0} : orders'[id] = orders[id]
  <2>1. DOMAIN orderIdUserId \ {0} \subseteq DOMAIN orders
    BY <1>0 DEF IInv, CachedRows
  <2>2. orders' = orders \/ orders' = Inserted(user[p], batch[p])
    BY CreateWrites
  <2>3. QED
    BY <2>1, <2>2 DEF Inserted
<1>5. /\ DOMAIN orderIdUserId' \ {0} \subseteq DOMAIN orderIdUserId
      /\ \A id \in DOMAIN orderIdUserId \ {0} : Slot(id)' = Slot(id)
  <2>1. CASE UNCHANGED cache
    BY <2>1, SlotsUnchanged DEF cache
  <2>2. CASE CacheNew(p)
    <3>. DEFINE o == [OrderID |-> 0, UserID |-> user[p],
                      ProductID |-> Head(batch[p]), ShippedStatus |-> ""]
    <3>1. UpdateOrder(o) /\ o.OrderID = 0
      BY <2>2 DEF CacheNew
    <3>2. o \in Order
      <4>1. user[p] \in Users /\ batch[p] \in Seq(Products) /\ batch[p] # << >>
        BY <1>0, <2>2 DEF IInv, TypeOK, NewInv, NewPC, CacheNew
      <4>2. QED
        BY <4>1, HeadTailProperties DEF Order, CacheIds
    <3>3. CacheInv
      BY <1>0, IInvParts
    <3>. HIDE DEF o
    <3>4. QED
      BY <3>1, <3>2, <3>3, UpdateOrderKeepsCache
  <2>3. QED
    BY <2>1, <2>2 DEF CreateMany, CreateBegin, Insert, InsertFail, CreateEnd
<1>6. CacheFollowsTable'
  BY <1>1, <1>2, <1>3, <1>4, <1>5, ShownStep DEF ShownInv
<1>7. MarkedInv'
  <2>1. \A q \in Procs : txRows[q] \subseteq DOMAIN orderIdUserId \ {0}
    BY TxRowsCached
  <2>2. QED
    BY <1>1, <1>2, <1>5, <2>1, MarkedStep DEF ShownInv
<1>8. QED
  BY <1>6, <1>7 DEF ShownInv

\* A transaction has marked all its rows when it commits them.
LEMMA CommitShown ==
    ASSUME BaseInv, CarryInv, ShownInv, NEW p \in Procs, Commit(p) \/ CommitFail(p)
    PROVE  ShownInv'
<1>0. IInv /\ TypeOK /\ SInv /\ RowsInv
  BY DEF BaseInv, IInv, CarryInv
<1>1. /\ \A q \in Procs \ {p} : Kept(q)
      /\ pc[p] = "commit" /\ txRows'[p] = {}
  BY <1>0, CommitLocals
<1>2. todo[p] = {}
  BY <1>0, <1>1 DEF SInv, TxInv
<1>3. UNCHANGED cache /\ unsure \subseteq unsure'
  BY DEF Commit, CommitFail
<1>4. \A id : Slot(id)' = Slot(id)
  BY <1>3, SlotsUnchanged
<1>5. \A id \in txRows[p] : Slot(id).ShippedStatus = "delivering"
  BY <1>2 DEF ShownInv, MarkedInv
<1>6. ASSUME NEW id \in DOMAIN orderIdUserId' \ {0}
      PROVE  \/ Slot(id)'.ShippedStatus = orders'[id].shipped_status
             \/ id \in unsure'
             \/ /\ id \in DOMAIN orderIdUserId /\ ~InFlightBy(p, id)
                /\ Slot(id)'.ShippedStatus = Slot(id).ShippedStatus
                /\ orders'[id].shipped_status = orders[id].shipped_status
  <2>1. id \in DOMAIN orderIdUserId /\ id \in DOMAIN orders
    BY <1>0, <1>3, <1>6 DEF IInv, CachedRows, cache
  <2>2. CASE id \in txRows[p]
    <3>1. CASE Commit(p)
      <4>1. StatusIs(id, "delivering")'
        BY <1>0, <2>2, <3>1, CommitRows
      <4>2. QED
        BY <1>4, <1>5, <2>2, <4>1 DEF StatusIs
    <3>2. CASE CommitFail(p)
      BY <2>2, <3>2 DEF CommitFail
    <3>3. QED
      BY <3>1, <3>2
  <2>3. CASE id \notin txRows[p]
    <3>1. orders'[id] = orders[id]
      BY <2>1, <2>3 DEF Commit, CommitFail, Written
    <3>2. ~InFlightBy(p, id)
      BY <1>1, <2>3 DEF InFlightBy
    <3>3. QED
      BY <1>4, <2>1, <3>1, <3>2
  <2>4. QED
    BY <2>2, <2>3
<1>7. CacheFollowsTable'
  BY <1>1, <1>3, <1>6, ShownStep DEF ShownInv
<1>8. MarkedInv'
  BY <1>1, <1>4, MarkedStep DEF ShownInv
<1>9. QED
  BY <1>7, <1>8 DEF ShownInv

\* The row a PATCH writes is on its way to the cache, or its answer an error.
LEMMA PatchWrittenShown ==
    ASSUME BaseInv, CarryInv, ShownInv, NEW p \in Procs, PatchUpdate(p) \/ PatchFail(p)
    PROVE  ShownInv'
<1>0. IInv /\ TypeOK /\ SInv
  BY DEF BaseInv, IInv
<1>1. /\ \A q \in Procs \ {p} : Kept(q)
      /\ pc[p] = "update" /\ txRows' = txRows
  BY <1>0, PatchUpdateLocals, PatchFailLocals
<1>2. txRows[p] = {} /\ \A id : ~InFlightBy(p, id)
  BY <1>0, <1>1, NoTx DEF InFlightBy, TxPC
<1>3. UNCHANGED cache /\ unsure \subseteq unsure'
  BY DEF PatchUpdate, PatchFail
<1>4. \A id : Slot(id)' = Slot(id)
  BY <1>3, SlotsUnchanged
<1>5. ASSUME NEW id \in DOMAIN orderIdUserId' \ {0}
      PROVE  \/ InFlightBy(p, id)'
             \/ id \in unsure'
             \/ /\ id \in DOMAIN orderIdUserId
                /\ orders'[id].shipped_status = orders[id].shipped_status
  <2>1. id \in DOMAIN orderIdUserId /\ id \in DOMAIN orders
    BY <1>0, <1>3, <1>5 DEF IInv, CachedRows, cache
  <2>2. CASE PatchUpdate(p)
    <3>1. pc'[p] = "lock" /\ todo' = todo
      BY <1>0, <2>2, PatchUpdateLocals
    <3>2. id \notin todo[p] => orders'[id] = orders[id]
      BY <2>1, <2>2 DEF PatchUpdate, Written
    <3>3. QED
      BY <2>1, <3>1, <3>2 DEF InFlightBy
  <2>3. CASE PatchFail(p)
    BY <2>1, <2>3 DEF PatchFail, Written
  <2>4. QED
    BY <2>2, <2>3
<1>6. CacheFollowsTable'
  BY <1>1, <1>2, <1>3, <1>4, <1>5, ShownStep DEF ShownInv
<1>7. MarkedInv'
  BY <1>1, <1>2, <1>4, MarkedStep DEF ShownInv
<1>8. QED
  BY <1>6, <1>7 DEF ShownInv

\* What is marked is what the statement has written, or what was rolled back.
LEMMA MarkShown ==
    ASSUME BaseInv, CarryInv, ShownInv, NEW p \in Procs, Mark(p)
    PROVE  ShownInv'
<1>0. IInv /\ TypeOK /\ SInv /\ RowsInv
  BY DEF BaseInv, IInv, CarryInv
<1>1. /\ \A q \in Procs \ {p} : Kept(q)
      /\ pc[p] \in {"tx_mark", "mark"} /\ pc' = pc /\ txRows' = txRows
  BY <1>0, MarkLocals
<1>2. PICK k \in todo[p] : /\ k \in DOMAIN orderIdUserId
                           /\ SetStatus(k, newStatus[p])
                           /\ todo' = [todo EXCEPT ![p] = @ \ {k}]
  BY DEF Mark
<1>3. todo'[p] = todo[p] \ {k} /\ newStatus[p] \in Statuses
  BY <1>0, <1>2 DEF TypeOK
<1>4. CacheInv
  BY <1>0, IInvParts
<1>5. /\ orderIdUserId' = orderIdUserId
      /\ Slot(k)'.ShippedStatus = newStatus[p]
      /\ \A id \in DOMAIN orderIdUserId \ {k} : Slot(id)' = Slot(id)
  BY <1>2, <1>3, <1>4, SetStatusKeepsCache
<1>6. orders' = orders /\ unsure' = unsure
  BY DEF Mark, table
<1>7. pc[p] = "mark" => newStatus[p] = "completed" /\ StatusIs(k, "completed")
  BY <1>0, <1>2 DEF BaseInv, CallInv, PatchPC, RowsInv
<1>8. pc[p] = "tx_mark" => newStatus[p] = "delivering" /\ k \in txRows[p] \cup unsure
  BY <1>0, <1>2 DEF SInv, TxInv, TxPC
<1>9. ASSUME NEW id \in DOMAIN orderIdUserId' \ {0}
      PROVE  \/ Slot(id)'.ShippedStatus = orders'[id].shipped_status
             \/ InFlightBy(p, id)'
             \/ id \in unsure'
             \/ /\ id \in DOMAIN orderIdUserId /\ ~InFlightBy(p, id)
                /\ Slot(id)'.ShippedStatus = Slot(id).ShippedStatus
                /\ orders'[id].shipped_status = orders[id].shipped_status
  <2>1. CASE id = k
    BY <1>1, <1>5, <1>6, <1>7, <1>8, <2>1 DEF InFlightBy, StatusIs
  <2>2. CASE id # k
    <3>1. InFlightBy(p, id) => InFlightBy(p, id)'
      BY <1>1, <1>3, <2>2 DEF InFlightBy
    <3>2. QED
      BY <1>5, <1>6, <1>9, <2>2, <3>1
  <2>3. QED
    BY <2>1, <2>2
<1>10. CacheFollowsTable'
  BY <1>1, <1>6, <1>9, ShownStep DEF ShownInv
<1>11. MarkedInv'
  <2>1. \A q \in Procs : txRows[q] \subseteq DOMAIN orderIdUserId
    BY TxRowsCached
  <2>2. pc[p] = "mark" => \A q \in Procs : k \notin txRows[q]
    BY <1>0, <1>7 DEF RowsInv, Waits, StatusIs
  <2>3. \A q \in Procs : \A id \in txRows[q] \ {k} : Slot(id)' = Slot(id)
    BY <1>5, <2>1
  <2>4. \A q \in Procs : k \in txRows[q] => Slot(k)'.ShippedStatus = "delivering"
    BY <1>1, <1>5, <1>8, <2>2
  <2>5. QED
    BY <1>1, <1>3, <2>3, <2>4, MarkedStep DEF ShownInv
<1>12. QED
  BY <1>10, <1>11 DEF ShownInv

LEMMA LoadShown == ASSUME BaseInv, CarryInv, ShownInv, LoadOrder PROVE ShownInv'
<1>0. IInv /\ TypeOK /\ SInv
  BY DEF BaseInv, IInv
<1>1. PICK k \in toLoad :
        UpdateOrder([OrderID |-> k, UserID |-> orders[k].user_id,
                     ProductID |-> orders[k].product_id,
                     ShippedStatus |-> orders[k].shipped_status])
  BY DEF LoadOrder
<1>. DEFINE o == [OrderID |-> k, UserID |-> orders[k].user_id,
                  ProductID |-> orders[k].product_id,
                  ShippedStatus |-> orders[k].shipped_status]
<1>2. k \in DOMAIN orders /\ orders[k] \in Row /\ k \in Ids
  BY <1>0 DEF IInv, LoadInv, TypeOK
<1>3. o \in Order /\ o.OrderID = k /\ o.ShippedStatus = orders[k].shipped_status
  BY <1>2 DEF Order, Row, CacheIds
<1>4. CacheInv
  BY <1>0, IInvParts
<1>5. UpdateOrder(o)
  BY <1>1
<1>. HIDE DEF o
<1>6. /\ DOMAIN orderIdUserId' = DOMAIN orderIdUserId \cup {k}
      /\ Slot(k)' = o
      /\ \A id \in DOMAIN orderIdUserId \ {k} : Slot(id)' = Slot(id)
  BY <1>3, <1>4, <1>5, UpdateOrderKeepsCache
<1>7. UNCHANGED <<orders, unsure, pc, todo, txRows>>
  BY DEF LoadOrder, table, call
<1>8. \A p \in Procs : pc[p] = "idle" /\ txRows[p] = {}
  BY <1>0, <1>1 DEF SInv, LoadFirst, TxInv, TxPC
<1>9. MarkedInv'
  BY <1>7, <1>8 DEF MarkedInv
<1>10. ASSUME NEW id \in DOMAIN orderIdUserId' \ {0}
       PROVE  Slot(id)'.ShippedStatus = orders'[id].shipped_status \/ id \in unsure'
  <2>1. CASE id = k
    BY <1>3, <1>6, <1>7, <2>1
  <2>2. CASE id # k
    <3>1. ~InFlight(id)
      BY <1>8 DEF InFlight
    <3>2. QED
      BY <1>6, <1>7, <1>10, <2>2, <3>1 DEF ShownInv, CacheFollowsTable
  <2>3. QED
    BY <2>1, <2>2
<1>11. CacheFollowsTable'
  BY <1>10 DEF CacheFollowsTable
<1>12. QED
  BY <1>9, <1>11 DEF ShownInv

LEMMA RobotNextShown ==
    ASSUME BaseInv, CarryInv, ShownInv, [RobotNext]_allVars
    PROVE  ShownInv'
<1>1. ASSUME NEW p \in Procs, NEW id \in cargo, PatchBegin(p, id, "completed")
      PROVE  ShownInv'
  BY <1>1, PatchShown
<1>2. CASE [Next]_vars
  <2>1. CASE LoadOrder
    BY <2>1, LoadShown
  <2>2. CASE Stopped \/ UNCHANGED vars
    BY <2>2 DEF Stopped, vars, table, cache, call, ShownInv, CacheFollowsTable, MarkedInv,
                InFlight, Slot
  <2>3. ASSUME NEW p \in Procs, CreateMany(p) PROVE ShownInv'
    BY <2>3, CreateShown
  <2>4. ASSUME NEW p \in Procs, DeliveryPlan(p) PROVE ShownInv'
    BY <2>4, PlanShown, CommitShown DEF DeliveryPlan
  <2>5. ASSUME NEW p \in Procs, UpdateOrderStatus(p) PROVE ShownInv'
    BY <2>5, PatchShown, PatchWrittenShown DEF UpdateOrderStatus
  <2>6. ASSUME NEW p \in Procs, MarkCache(p) PROVE ShownInv'
    BY <2>6, PatchShown, MarkShown DEF MarkCache
  <2>7. QED
    BY <1>2, <2>1, <2>2, <2>3, <2>4, <2>5, <2>6 DEF Next
<1>3. QED
  BY <1>1, <1>2, RobotStepIsBackend

\* The cached history shows the status of the row, except while a request is
\* between the two and where a statement reported an error.
THEOREM HistoryFollowsTable == RobotSpec => []CacheFollowsTable
<1>1. RobotInit => ShownInv
  BY DEF RobotInit, Init, ShownInv, CacheFollowsTable, MarkedInv
<1>2. BaseInv /\ CarryInv /\ ShownInv /\ [RobotNext]_allVars => ShownInv'
  BY RobotNextShown
<1>3. ShownInv => CacheFollowsTable
  BY DEF ShownInv
<1>4. QED
  BY <1>1, <1>2, <1>3, CarryInvariance, PTL DEF RobotSpec
-----------------------------------------------------------------------------
(***************************************************************************)
(* Every step keeps the promise of OrderLifecycle                          *)
(***************************************************************************)

\* A PATCH writes one row.
OneRow == \A p \in Procs : pc[p] = "update" => \E id \in CacheIds : todo[p] = {id}

\* New rows get ids the table has not.
NewIds(p) == autoInc..(autoInc + Len(batch[p]) - 1)

LEMMA InsertedIds ==
    ASSUME IInv, FreshInv, NEW p \in Procs, pc[p] = "insert"
    PROVE  /\ NewIds(p) # {} /\ NewIds(p) \subseteq Ids
           /\ NewIds(p) \cap DOMAIN orders = {}
           /\ Len(batch[p]) \in Nat \ {0} /\ autoInc \in Nat
<1>1. autoInc \in 1..(MaxOrders + 1) /\ batch[p] \in Seq(Products) /\ MaxOrders \in Nat
  BY ParamAssumption DEF IInv, TypeOK
<1>2. Len(batch[p]) \in Nat /\ Len(batch[p]) > 0 /\ autoInc + Len(batch[p]) <= MaxOrders + 1
  BY <1>1, LenProperties DEF IInv, NewInv
<1>3. autoInc \in NewIds(p)
  BY <1>1, <1>2 DEF NewIds
<1>4. ASSUME NEW id \in NewIds(p) PROVE id \in Ids /\ id \notin DOMAIN orders
  BY <1>1, <1>2, <1>4 DEF NewIds, Ids, FreshInv
<1>5. Len(batch[p]) \in Nat \ {0} /\ autoInc \in Nat
  BY <1>1, <1>2
<1>6. QED
  BY <1>3, <1>4, <1>5

\* What happens to the rows that exist, and which come to exist.
LEMMA RowsExist ==
    ASSUME [RobotNext]_allVars
    PROVE  \/ DOMAIN orders' = DOMAIN orders /\ autoInc' = autoInc
           \/ \E p \in Procs : /\ pc[p] = "insert"
                               /\ orders' = Inserted(user[p], batch[p])
                               /\ autoInc' = autoInc + Len(batch[p])
<1>1. ASSUME NEW p \in Procs, NEW id \in cargo, PatchBegin(p, id, "completed")
      PROVE  orders' = orders /\ autoInc' = autoInc
  BY <1>1, TableKept
<1>2. CASE [Next]_vars
  <2>1. ASSUME NEW p \in Procs, CreateMany(p)
        PROVE  \/ orders' = orders /\ autoInc' = autoInc
               \/ /\ pc[p] = "insert"
                  /\ orders' = Inserted(user[p], batch[p])
                  /\ autoInc' = autoInc + Len(batch[p])
    BY <2>1 DEF CreateMany, CreateBegin, Insert, InsertFail, CacheNew, CreateEnd, table
  <2>2. ASSUME NEW p \in Procs, DeliveryPlan(p) \/ UpdateOrderStatus(p) \/ MarkCache(p)
        PROVE  DOMAIN orders' = DOMAIN orders /\ autoInc' = autoInc
    <3>1. CASE Commit(p) \/ CommitFail(p) \/ PatchUpdate(p) \/ PatchFail(p)
      BY <3>1 DEF Commit, CommitFail, PatchUpdate, PatchFail, Written
    <3>2. CASE ~(Commit(p) \/ CommitFail(p) \/ PatchUpdate(p) \/ PatchFail(p))
      BY <2>2, <3>2, TableKept DEF DeliveryPlan, UpdateOrderStatus, MarkCache
    <3>3. QED
      BY <3>1, <3>2
  <2>3. CASE LoadOrder \/ Stopped \/ UNCHANGED vars
    BY <2>3 DEF LoadOrder, Stopped, vars, table
  <2>4. QED
    BY <1>2, <2>1, <2>2, <2>3 DEF Next
<1>3. QED
  BY <1>1, <1>2, RobotStepIsBackend

LEMMA RobotNextFresh ==
    ASSUME BaseInv, FreshInv, [RobotNext]_allVars
    PROVE  FreshInv'
<1>1. CASE DOMAIN orders' = DOMAIN orders /\ autoInc' = autoInc
  BY <1>1 DEF FreshInv
<1>2. ASSUME NEW p \in Procs, pc[p] = "insert", orders' = Inserted(user[p], batch[p]),
             autoInc' = autoInc + Len(batch[p])
      PROVE  FreshInv'
  <2>1. Len(batch[p]) \in Nat \ {0} /\ autoInc \in Nat
    BY <1>2, InsertedIds DEF BaseInv
  <2>2. DOMAIN orders' = DOMAIN orders \cup NewIds(p)
    BY <1>2 DEF Inserted, NewIds
  <2>3. ASSUME NEW id \in DOMAIN orders' PROVE id < autoInc'
    <3>1. CASE id \in DOMAIN orders
      <4>1. id < autoInc /\ id \in Nat
        BY <3>1 DEF FreshInv, BaseInv, IInv, TypeOK, Ids
      <4>2. QED
        BY <1>2, <2>1, <4>1
    <3>2. CASE id \in NewIds(p)
      BY <1>2, <2>1, <3>2 DEF NewIds
    <3>3. QED
      BY <2>2, <3>1, <3>2
  <2>4. QED
    BY <2>3 DEF FreshInv
<1>3. QED
  BY <1>1, <1>2, RowsExist

LEMMA RobotNextOneRow ==
    ASSUME BaseInv, OneRow, [RobotNext]_allVars
    PROVE  OneRow'
<1>0. TypeOK /\ SInv
  BY DEF BaseInv, IInv
<1>1. ASSUME NEW p \in Procs, NEW id \in CacheIds, NEW s, PatchBegin(p, id, s)
      PROVE  OneRow'
  BY <1>0, <1>1, PatchBeginLocals DEF OneRow, Kept
<1>2. ASSUME NEW p \in Procs, \A q \in Procs \ {p} : Kept(q), pc'[p] # "update"
      PROVE  OneRow'
  BY <1>2 DEF OneRow, Kept
<1>3. CASE [Next]_vars
  <2>1. ASSUME NEW p \in Procs, CreateMany(p) PROVE OneRow'
    BY <1>0, <1>2, <2>1, CreateLocals DEF NewPC
  <2>2. ASSUME NEW p \in Procs, DeliveryPlan(p) PROVE OneRow'
    BY <1>0, <1>2, <2>2, PlanBeginLocals, PlanSelectLocals, PlanUpdateLocals, PlanFailLocals,
       CommitLocals, TxCancelLocals DEF DeliveryPlan, Ended
  <2>3. ASSUME NEW p \in Procs, UpdateOrderStatus(p) PROVE OneRow'
    BY <1>0, <1>1, <1>2, <2>3, PatchUpdateLocals, PatchFailLocals, ParamAssumption
       DEF UpdateOrderStatus, Ended
  <2>4. ASSUME NEW p \in Procs, MarkCache(p) PROVE OneRow'
    <3>1. CASE MarkPanic(p)
      BY <3>1 DEF MarkPanic, call, OneRow
    <3>2. CASE MarkLock(p) \/ Mark(p) \/ MarkEnd(p)
      BY <1>0, <1>2, <3>2, MarkLockLocals, MarkLocals, MarkEndLocals DEF Ended
    <3>3. QED
      BY <2>4, <3>1, <3>2 DEF MarkCache
  <2>5. CASE LoadOrder \/ Stopped \/ UNCHANGED vars
    BY <2>5 DEF LoadOrder, Stopped, vars, call, OneRow
  <2>6. QED
    BY <1>3, <2>1, <2>2, <2>3, <2>4, <2>5 DEF Next
<1>4. cargo \subseteq CacheIds
  BY DEF BaseInv, RobotTypeOK, CacheIds
<1>5. QED
  BY <1>1, <1>3, <1>4, RobotStepIsBackend

\* What the promise sees of the table.
ShippedStatus == [id \in DOMAIN orders |-> orders[id].shipped_status]

Promised == [Promise!Next]_Promise!vars

LEMMA ShippedStatusOf ==
    /\ DOMAIN ShippedStatus = DOMAIN orders
    /\ \A id \in DOMAIN orders : ShippedStatus[id] = orders[id].shipped_status
BY DEF ShippedStatus

\* A step that touches no row and nothing that is carried.
LEMMA PromiseStutter ==
    ASSUME orders' = orders, cargo' = cargo
    PROVE  Promised
BY DEF Promised, Promise!vars

LEMMA PromisePlace ==
    ASSUME IInv, FreshInv, NEW p \in Procs, pc[p] = "insert",
           orders' = Inserted(user[p], batch[p]), cargo' = cargo
    PROVE  Promised
<1>1. PICK S \in SUBSET Ids : S = NewIds(p) /\ S # {} /\ S \cap DOMAIN orders = {}
  BY InsertedIds
<1>2. ShippedStatus' = [id \in DOMAIN orders \cup S |->
                          IF id \in S THEN "shipping" ELSE ShippedStatus[id]]
  BY <1>1 DEF ShippedStatus, Inserted, NewIds
<1>3. Promise!Place(S)
  BY <1>1, <1>2, ShippedStatusOf DEF Promise!Place, ShippedStatus
<1>4. S \in SUBSET (Ids \ DOMAIN ShippedStatus)
  BY <1>1, ShippedStatusOf
<1>5. QED
  BY <1>3, <1>4 DEF Promised, Promise!Next, ShippedStatus

\* The robot gives up its list, or has none.
LEMMA PromiseAbandon ==
    ASSUME orders' = orders, cargo' = {}
    PROVE  Promised
<1>1. CASE cargo = {}
  BY <1>1, PromiseStutter
<1>2. CASE cargo # {}
  BY <1>2 DEF Promised, Promise!Next, Promise!Abandon
<1>3. QED
  BY <1>1, <1>2

\* A transaction is committed, whether or not the robot hears of it.
LEMMA PromiseAssign ==
    ASSUME TypeOK, NEW W, \A id \in W : Waits(id), orders' = Written(W, "delivering"),
           cargo' = cargo \/ (cargo = {} /\ cargo' = W)
    PROVE  Promised
<1>0. \A id \in DOMAIN orders : orders[id] \in Row
  BY DEF TypeOK
<1>1. ShippedStatus' = [id \in DOMAIN orders |->
                          IF id \in W THEN "delivering" ELSE ShippedStatus[id]]
  BY <1>0 DEF ShippedStatus, Written, Row
<1>2. CASE W = {}
  <2>1. ShippedStatus' = ShippedStatus
    BY <1>1, <1>2 DEF ShippedStatus
  <2>2. QED
    BY <1>2, <2>1 DEF Promised, Promise!vars, ShippedStatus
<1>3. CASE W # {}
  <2>1. W \in SUBSET DOMAIN ShippedStatus /\ \A id \in W : ShippedStatus[id] = "shipping"
    BY ShippedStatusOf DEF Waits, StatusIs
  <2>2. Promise!Assign(W)
    BY <1>1, <1>3, <2>1, ShippedStatusOf DEF Promise!Assign, ShippedStatus
  <2>3. QED
    BY <2>1, <2>2 DEF Promised, Promise!Next, ShippedStatus
<1>4. QED
  BY <1>2, <1>3

\* A PATCH writes its row, for the first time or again.
LEMMA PromiseDeliver ==
    ASSUME TypeOK, NEW k, Left(k), orders' = Written({k}, "completed"),
           cargo' \in {cargo, {}}
    PROVE  Promised
<1>0. (\A id \in DOMAIN orders : orders[id] \in Row) /\ k \in DOMAIN orders
  BY DEF TypeOK, Left, StatusIs
<1>1. ShippedStatus' = [ShippedStatus EXCEPT ![k] = "completed"]
  BY <1>0 DEF ShippedStatus, Written, Row
<1>2. CASE StatusIs(k, "delivering")
  <2>1. ShippedStatus[k] = "delivering" /\ k \in DOMAIN ShippedStatus
    BY <1>2, ShippedStatusOf DEF StatusIs
  <2>2. Promise!Deliver(k)
    BY <1>1, <2>1 DEF Promise!Deliver, ShippedStatus
  <2>3. QED
    BY <2>1, <2>2 DEF Promised, Promise!Next, ShippedStatus
<1>3. CASE StatusIs(k, "completed")
  <2>1. ShippedStatus' = ShippedStatus
    BY <1>0, <1>1, <1>3 DEF ShippedStatus, StatusIs
  <2>2. CASE cargo' = cargo
    BY <2>1, <2>2 DEF Promised, Promise!vars, ShippedStatus
  <2>3. CASE cargo # {} /\ cargo' = {}
    BY <2>1, <2>3 DEF Promised, Promise!Next, Promise!Abandon, ShippedStatus
  <2>4. QED
    BY <2>2, <2>3
<1>4. QED
  BY <1>2, <1>3 DEF Left

LEMMA PromiseReport ==
    ASSUME NEW k \in cargo, StatusIs(k, "completed"), orders' = orders,
           cargo' = cargo \ {k}
    PROVE  Promised
<1>1. ShippedStatus[k] = "completed" /\ ShippedStatus' = ShippedStatus
  BY DEF ShippedStatus, StatusIs
<1>2. Promise!Report(k)
  BY <1>1 DEF Promise!Report, ShippedStatus
<1>3. QED
  BY <1>2 DEF Promised, Promise!Next

\* What the steps of each request come to.
LEMMA CreatePromised ==
    ASSUME BaseInv, FreshInv, NEW p \in Procs, CreateMany(p), cargo' = cargo
    PROVE  Promised
<1>1. \/ orders' = orders
      \/ pc[p] = "insert" /\ orders' = Inserted(user[p], batch[p])
  BY DEF CreateMany, CreateBegin, Insert, InsertFail, CacheNew, CreateEnd, table
<1>2. QED
  BY <1>1, PromiseStutter, PromisePlace DEF BaseInv

LEMMA CommitPromised ==
    ASSUME BaseInv, CarryInv, NEW p \in Procs, Commit(p) \/ CommitFail(p),
           cargo' = cargo \/ (Commit(p) /\ cargo = {} /\ cargo' = txRows[p])
    PROVE  Promised
<1>1. newStatus[p] = "delivering"
  BY DEF Commit, CommitFail, BaseInv, SInv, TxInv, TxPC
<1>2. PICK W \in SUBSET CacheIds : W = txRows[p] /\ \A id \in W : Waits(id)
  BY DEF BaseInv, IInv, TypeOK, CarryInv, RowsInv
<1>3. CASE orders' = orders /\ cargo' = cargo
  BY <1>3, PromiseStutter
<1>4. CASE orders' = Written(W, "delivering")
  BY <1>2, <1>4, PromiseAssign DEF BaseInv, IInv
<1>5. QED
  BY <1>1, <1>2, <1>3, <1>4 DEF Commit, CommitFail

LEMMA PatchPromised ==
    ASSUME BaseInv, CarryInv, OneRow, NEW p \in Procs, PatchUpdate(p) \/ PatchFail(p),
           cargo' \in {cargo, {}}
    PROVE  Promised
<1>1. newStatus[p] = "completed" /\ pc[p] = "update"
  BY DEF PatchUpdate, PatchFail, BaseInv, CallInv, PatchPC
<1>2. PICK k \in CacheIds : todo[p] = {k} /\ Left(k)
  BY <1>1 DEF OneRow, CarryInv, RowsInv
<1>3. CASE orders' = orders
  BY <1>3, PromiseStutter, PromiseAbandon
<1>4. CASE orders' = Written({k}, "completed")
  BY <1>2, <1>4, PromiseDeliver DEF BaseInv, IInv
<1>5. QED
  BY <1>1, <1>2, <1>3, <1>4 DEF PatchUpdate, PatchFail

LEMMA WorkPromised ==
    ASSUME BaseInv, CarryInv, FreshInv, OneRow, NEW p \in Procs, Work(p)
    PROVE  Promised
<1>1. cargo' = cargo
  BY DEF Work, robot
<1>2. CASE CreateMany(p)
  BY <1>1, <1>2, CreatePromised
<1>3. CASE CommitFail(p)
  BY <1>1, <1>3, CommitPromised
<1>4. CASE PatchUpdate(p) \/ PatchFail(p)
  BY <1>1, <1>4, PatchPromised
<1>5. CASE Select(p) \/ PlanUpdate(p) \/ PlanFail(p) \/ MarkLock(p) \/ Mark(p)
           \/ MarkPanic(p) \/ MarkEnd(p)
  BY <1>1, <1>5, TableKept, PromiseStutter DEF Select
<1>6. QED
  BY <1>2, <1>3, <1>4, <1>5 DEF Work

\* What the robot sees of them.
LEMMA ForwardPromised ==
    ASSUME BaseInv, CarryInv, NEW p \in Procs, Forward(p)
    PROVE  Promised
<1>1. CASE Ask(p) \/ Report(p)
  BY <1>1, TableKept, PromiseStutter DEF Ask, Report
<1>2. CASE Answer(p)
  <2>1. Commit(p) /\ txRows[p] = plan[p] /\ p = handler /\ pc[p] = "commit"
    BY <1>2 DEF Answer, Commit, Cancelled
  <2>2. cargo = {}
    BY <2>1, ParamAssumption DEF BaseInv, CallInv, RobotTypeOK, Stages, PatchPC
  <2>3. cargo' = cargo \/ cargo' = txRows[p]
    BY <1>2, <2>1 DEF Answer
  <2>4. QED
    BY <2>1, <2>2, <2>3, CommitPromised
<1>3. CASE Reported(p)
  <2>1. MarkEnd(p) /\ p = handler /\ stage = "reporting" /\ cargo' = cargo \ {current}
    BY <1>3 DEF Reported
  <2>2. current \in cargo /\ pc[p] = "mark"
    BY <2>1 DEF BaseInv, CallInv, MarkEnd, PatchPC
  <2>3. StatusIs(current, "completed") /\ orders' = orders
    BY <2>1, <2>2, TableKept DEF CarryInv, RowsInv
  <2>4. PICK k \in cargo : k = current
    BY <2>2
  <2>5. QED
    BY <2>1, <2>3, <2>4, PromiseReport
<1>4. QED
  BY <1>1, <1>2, <1>3 DEF Forward

LEMMA RefusedPromised ==
    ASSUME BaseInv, CarryInv, OneRow, NEW p \in Procs,
           PlanRefused(p) \/ ReportRefused(p) \/ GiveUp(p)
    PROVE  Promised
<1>1. cargo' = {} /\ p = handler
  BY DEF PlanRefused, ReportRefused, GiveUp, EndTrip
<1>2. CASE PlanRefused(p)
  <2>1. pc[p] \in PlanPC /\ p # None
    BY <1>2, ParamAssumption DEF PlanRefused, PlanFail, CommitFail, PlanPC
  <2>2. cargo' = cargo
    BY <1>1, <2>1 DEF BaseInv, CallInv, RobotTypeOK, Stages, PlanPC, PatchPC
  <2>3. CASE PlanFail(p)
    BY <2>2, <2>3, TableKept, PromiseStutter
  <2>4. QED
    BY <1>2, <2>2, <2>3, CommitPromised DEF PlanRefused
<1>3. CASE ReportRefused(p)
  BY <1>1, <1>3, PatchPromised DEF ReportRefused
<1>4. CASE GiveUp(p)
  <2>1. orders' = orders
    BY <1>4, TableKept DEF GiveUp
  <2>2. QED
    BY <1>1, <2>1, PromiseAbandon
<1>5. QED
  BY <1>2, <1>3, <1>4

LEMMA RobotNextPromised ==
    ASSUME BaseInv, CarryInv, FreshInv, OneRow, [RobotNext]_allVars
    PROVE  Promised
<1>1. CASE Load
  BY <1>1, PromiseStutter DEF Load, LoadOrder, table, robot
<1>2. ASSUME NEW p \in Procs, Customer(p) \/ AskTimesOut(p)
      PROVE  Promised
  <2>1. CASE Customer(p)
    BY <2>1, CreatePromised DEF Customer, robot
  <2>2. CASE AskTimesOut(p)
    BY <2>2, TableKept, PromiseStutter DEF AskTimesOut
  <2>3. QED
    BY <1>2, <2>1, <2>2
<1>3. CASE UNCHANGED allVars
  BY <1>3, PromiseStutter DEF allVars, vars, table, robot
<1>4. QED
  BY <1>1, <1>2, <1>3, ForwardPromised, WorkPromised, RefusedPromised DEF RobotNext

LEMMA RobotInitPromised ==
    RobotInit => Promise!Init /\ FreshInv /\ OneRow
<1>. SUFFICES ASSUME RobotInit PROVE Promise!Init /\ FreshInv /\ OneRow
  OBVIOUS
<1>1. /\ DOMAIN orders = 1..NumInit /\ autoInc = NumInit + 1 /\ cargo = {}
      /\ \A id \in DOMAIN orders : orders[id].shipped_status \in InitStatuses
      /\ \A p \in Procs : pc[p] = "idle"
  BY DEF RobotInit, Init
<1>2. FreshInv /\ OneRow
  BY <1>1, ParamAssumption DEF FreshInv, OneRow
<1>3. DOMAIN orders \in SUBSET Ids
  BY <1>1, ParamAssumption DEF Ids
<1>4. ShippedStatus \in [DOMAIN orders -> Promise!Statuses]
  BY <1>1, ParamAssumption DEF ShippedStatus, Statuses, Promise!Statuses
<1>5. QED
  BY <1>1, <1>2, <1>3, <1>4 DEF Promise!Init, ShippedStatus

\* One robot, whatever fails or is given up, sees of the table and its list
\* only what OrderLifecycle allows: an order is given out once, never comes
\* back from "completed", and is reported "updated" when its row is completed.
THEOREM RobotKeepsPromise == RobotSpec => KeepsPromise
<1>1. RobotInit => BaseInv /\ CarryInv
  BY RobotInitBase, RobotInitCarry
<1>2. (BaseInv /\ CarryInv) /\ (FreshInv /\ OneRow) /\ [RobotNext]_allVars
        => (FreshInv /\ OneRow)'
  BY RobotNextFresh, RobotNextOneRow
<1>3. (BaseInv /\ CarryInv) /\ (FreshInv /\ OneRow) /\ [RobotNext]_allVars
        => [Promise!Next]_Promise!vars
  BY RobotNextPromised DEF Promised
<1>4. QED
  BY <1>2, <1>3, CarryInvariance, RobotInitPromised, PTL
     DEF RobotSpec, KeepsPromise, Promise!Spec
=============================================================================
