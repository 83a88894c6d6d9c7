----------------------------- MODULE OrderStore -----------------------------
(***************************************************************************)
(* The orders of StoreLink: the MySQL table "orders", the in-process cache *)
(* the backend answers from (internal/cache.go) and the request goroutines *)
(* that change both (repository/order.go, repository/store.go,             *)
(* service/robot.go, service/product.go).                                  *)
(*                                                                         *)
(* A statement on the table and a critical section on the cache are        *)
(* separate steps, so requests interleave between them exactly where the   *)
(* code lets them.  A section under Cache.Order that runs no statement and *)
(* has no loop is one step; the loops keep the lock over several steps.    *)
(*                                                                         *)
(* OrderID 0 is the zero value of model.Order: CreateMany never fills the  *)
(* OrderID of the orders it caches.                                        *)
(***************************************************************************)
EXTENDS Naturals, Sequences, FiniteSets, Functions

CONSTANTS
    NumUsers,       \* users are 1..NumUsers, Cache.UserOrders has NumUsers+1 slices
    Products,       \* rows of products
    Procs,          \* request goroutines
    None,           \* not a goroutine: nobody holds Cache.Order
    NumInit,        \* orders in the table when the process boots
    InitStatuses,   \* shipped_status values of those orders
    MaxOrders,      \* bound: order ids the table may hold
    MaxBatch,       \* bound: orders of one POST /product/post
    MaxConns,       \* db.SetMaxOpenConns
    PatchIds,       \* order_id values PATCH /orders/status is called with
    PatchStatuses   \* new_status values it is called with

Users    == 1..NumUsers
Statuses == {"shipping", "delivering", "completed"}
Ids      == 1..MaxOrders
CacheIds == {0} \cup Ids

ASSUME ParamAssumption ==
    /\ NumUsers \in Nat /\ NumInit \in Nat /\ MaxOrders \in Nat
    /\ MaxBatch \in Nat /\ MaxConns \in Nat
    /\ NumInit <= MaxOrders
    /\ None \notin Procs
    /\ InitStatuses \subseteq Statuses /\ PatchStatuses \subseteq Statuses
    /\ PatchIds \subseteq CacheIds

Row    == [user_id : Users, product_id : Products, shipped_status : Statuses]
\* model.Order as the cache keeps it; "" is the zero value of ShippedStatus.
Order  == [OrderID : CacheIds, UserID : Users, ProductID : Products,
           ShippedStatus : Statuses \cup {""}]
Entry  == [UserID : Users, Index : Nat \ {0}]   \* Go's index, counted from 1
Batch  == UNION {[1..n -> Products] : n \in 1..MaxBatch}

VARIABLES
    up,             \* FALSE once an unrecovered panic has ended the process
    orders,         \* table orders: order_id -> row (committed)
    autoInc,        \* its AUTO_INCREMENT
    toLoad,         \* rows InitCache has read and not yet cached
    shipping,       \* Cache.ShippingOrderProductId
    userOrders,     \* Cache.UserOrders
    orderIdUserId,  \* Cache.OrderIdUserId
    lock,           \* holder of Cache.Order, or None
    pc,             \* where each request stands
    todo,           \* order ids UpdateStatuses has still to write
    newStatus,      \* its newStatus
    plan,           \* plan.Orders of GenerateDeliveryPlan
    txRows,         \* rows a transaction has written and holds locked
    user, batch,    \* CreateMany: the customer, and the orders not yet cached
    unsure          \* history: rows written by what reported an error

cache == <<shipping, userOrders, orderIdUserId>>
table == <<orders, autoInc>>
call  == <<todo, newStatus, plan, user, batch>>
vars  == <<up, table, toLoad, cache, lock, pc, call, txRows, unsure>>

PlanPC  == {"plan", "tx_update", "tx_lock", "tx_mark", "commit"}
PatchPC == {"update", "lock", "mark"}
NewPC   == {"insert", "cache_new"}
-----------------------------------------------------------------------------
(* The cache *)

Without(f, k) == Restrict(f, DOMAIN f \ {k})
Put(f, k, v)  == [x \in DOMAIN f \cup {k} |-> IF x = k THEN v ELSE f[x]]

Slot(id) == userOrders[orderIdUserId[id].UserID][orderIdUserId[id].Index]

\* Mutant: an order that is already cached gets a second slot.
UpdateOrderAlwaysAppends(o) ==
    /\ shipping' = IF o.ShippedStatus = "shipping"
                   THEN Put(shipping, o.OrderID, o.ProductID)
                   ELSE Without(shipping, o.OrderID)
    /\ userOrders' = [userOrders EXCEPT ![o.UserID] = Append(@, o)]
    /\ orderIdUserId' = Put(orderIdUserId, o.OrderID,
                            [UserID |-> o.UserID, Index |-> Len(userOrders[o.UserID]) + 1])

\* Mutant: the index is taken before the append.
UpdateOrderShortIndex(o) ==
    /\ shipping' = IF o.ShippedStatus = "shipping"
                   THEN Put(shipping, o.OrderID, o.ProductID)
                   ELSE Without(shipping, o.OrderID)
    /\ userOrders' = [userOrders EXCEPT ![o.UserID] = Append(@, o)]
    /\ orderIdUserId' = Put(orderIdUserId, o.OrderID,
                            [UserID |-> o.UserID, Index |-> Len(userOrders[o.UserID])])

\* Mutant: an order on offer is not entered in the history.
UpdateOrderOffersOnly(o) ==
    IF o.ShippedStatus = "shipping"
    THEN /\ shipping' = Put(shipping, o.OrderID, o.ProductID)
         /\ UNCHANGED <<userOrders, orderIdUserId>>
    ELSE UpdateOrderAlwaysAppends(o)

\* cache.UpdateOrder: the order's slot is found by its OrderID.
UpdateOrder(o) ==
    /\ shipping' = IF o.ShippedStatus = "shipping"
                   THEN Put(shipping, o.OrderID, o.ProductID)
                   ELSE Without(shipping, o.OrderID)
    /\ \/ /\ o.OrderID \notin DOMAIN orderIdUserId
          /\ userOrders' = [userOrders EXCEPT ![o.UserID] = Append(@, o)]
          /\ orderIdUserId' = Put(orderIdUserId, o.OrderID,
                                  [UserID |-> o.UserID,
                                   Index  |-> Len(userOrders[o.UserID]) + 1])
       \/ /\ o.OrderID \in DOMAIN orderIdUserId
          /\ LET e == orderIdUserId[o.OrderID]
             IN  userOrders' = [userOrders EXCEPT ![e.UserID][e.Index] = o]
          /\ UNCHANGED orderIdUserId

\* Mutant: the order stays on offer.
SetStatusKeepsOffer(id, s) ==
    /\ LET e == orderIdUserId[id]
       IN  userOrders' = [userOrders EXCEPT ![e.UserID][e.Index].ShippedStatus = s]
    /\ UNCHANGED <<shipping, orderIdUserId>>

\* Mutant: an order that is no longer on offer is evicted from the index.
SetStatusEvicts(id, s) ==
    /\ shipping' = IF s # "shipping" THEN Without(shipping, id) ELSE shipping
    /\ orderIdUserId' = Without(orderIdUserId, id)
    /\ UNCHANGED userOrders

\* Mutant: a completed order is cut out of its history.
SetStatusCuts(id, s) ==
    /\ shipping' = IF s # "shipping" THEN Without(shipping, id) ELSE shipping
    /\ LET e == orderIdUserId[id]
       IN  userOrders' = [userOrders EXCEPT ![e.UserID] =
               [i \in 1..(Len(@) - 1) |-> IF i < e.Index THEN @[i] ELSE @[i + 1]]]
    /\ orderIdUserId' = Without(orderIdUserId, id)

\* The body of UpdateStatuses' loop for an id the cache knows.
SetStatus(id, s) ==
    /\ shipping' = IF s # "shipping" THEN Without(shipping, id) ELSE shipping
    /\ LET e == orderIdUserId[id]
       IN  userOrders' = [userOrders EXCEPT ![e.UserID][e.Index].ShippedStatus = s]
    /\ UNCHANGED orderIdUserId
-----------------------------------------------------------------------------
(* The table *)

Written(ids, s) ==
    [id \in DOMAIN orders |->
        IF id \in ids THEN [orders[id] EXCEPT !.shipped_status = s] ELSE orders[id]]

Inserted(u, b) ==
    [id \in DOMAIN orders \cup autoInc..(autoInc + Len(b) - 1) |->
        IF id \in DOMAIN orders THEN orders[id]
        ELSE [user_id |-> u, product_id |-> b[id - autoInc + 1],
              shipped_status |-> "shipping"]]

\* The client of the transaction has gone away, see TxCancel.
RolledBack(p) == pc[p] \in {"tx_lock", "tx_mark", "commit"} /\ txRows[p] # plan[p]

\* A transaction keeps its connection until it ends; a PATCH keeps one while
\* its statement waits for row locks.
UsesConn(p) == pc[p] = "update" \/ (pc[p] \in PlanPC /\ ~RolledBack(p))
ConnFree    == Cardinality({p \in Procs : UsesConn(p)}) < MaxConns

RowsFree(p) == \A q \in Procs \ {p} : txRows[q] \cap todo[p] = {}
-----------------------------------------------------------------------------
Init ==
    /\ up = TRUE
    /\ orders \in [1..NumInit ->
                    [user_id : Users, product_id : Products, shipped_status : InitStatuses]]
    /\ autoInc = NumInit + 1
    /\ toLoad = 1..NumInit
    /\ shipping = << >>
    /\ userOrders = [u \in 0..NumUsers |-> << >>]
    /\ orderIdUserId = << >>
    /\ lock = None
    /\ pc = [p \in Procs |-> "idle"]
    /\ todo = [p \in Procs |-> {}]
    /\ newStatus = [p \in Procs |-> "shipping"]
    /\ plan = [p \in Procs |-> {}]
    /\ txRows = [p \in Procs |-> {}]
    /\ user = [p \in Procs |-> 0]
    /\ batch = [p \in Procs |-> << >>]
    /\ unsure = {}

\* Mutant: only orders still waiting are cached ("Failed to get shipping
\* orders" is what the code logs when this query fails).
LoadShippingOnly ==
    /\ up
    /\ \E id \in toLoad :
        /\ \A other \in toLoad : id <= other
        /\ \/ /\ orders[id].shipped_status = "shipping"
              /\ UpdateOrder([OrderID |-> id, UserID |-> orders[id].user_id,
                              ProductID |-> orders[id].product_id,
                              ShippedStatus |-> orders[id].shipped_status])
           \/ orders[id].shipped_status # "shipping" /\ UNCHANGED cache
        /\ toLoad' = toLoad \ {id}
    /\ UNCHANGED <<up, table, lock, pc, call, txRows, unsure>>

\* The last loop of InitCache: rows in the order SELECT returns them.
LoadOrder ==
    /\ up
    /\ \E id \in toLoad :
        /\ \A other \in toLoad : id <= other
        /\ UpdateOrder([OrderID |-> id, UserID |-> orders[id].user_id,
                        ProductID |-> orders[id].product_id,
                        ShippedStatus |-> orders[id].shipped_status])
        /\ toLoad' = toLoad \ {id}
    /\ UNCHANGED <<up, table, lock, pc, call, txRows, unsure>>

\* Requests are taken once the cache is loaded.
Serving == up /\ toLoad = {}

Go(p, label) == pc' = [pc EXCEPT ![p] = label]

\* The request is answered: its locals are dropped.
Finish(p) ==
    /\ Go(p, "idle")
    /\ todo' = [todo EXCEPT ![p] = {}]
    /\ newStatus' = [newStatus EXCEPT ![p] = "shipping"]
    /\ plan' = [plan EXCEPT ![p] = {}]
    /\ user' = [user EXCEPT ![p] = 0]
    /\ batch' = [batch EXCEPT ![p] = << >>]
-----------------------------------------------------------------------------
(* POST /product/post: OrderRepository.CreateMany *)

\* Lock; read AUTO_INCREMENT (the read only feeds the returned ids).
CreateBegin(p, u, b) ==
    /\ Serving /\ pc[p] = "idle" /\ lock = None
    /\ autoInc + Len(b) <= MaxOrders + 1
    /\ lock' = p
    /\ user' = [user EXCEPT ![p] = u]
    /\ batch' = [batch EXCEPT ![p] = b]
    /\ Go(p, "insert")
    /\ UNCHANGED <<up, table, toLoad, cache, todo, newStatus, plan, txRows, unsure>>

\* The bulk INSERT, on a connection of the pool.
Insert(p) ==
    /\ up /\ pc[p] = "insert" /\ ConnFree
    /\ orders' = Inserted(user[p], batch[p])
    /\ autoInc' = autoInc + Len(batch[p])
    /\ Go(p, "cache_new")
    /\ UNCHANGED <<up, toLoad, cache, lock, call, txRows, unsure>>

\* Mutant: the statements do not use the request's context, so that a wait for
\* a connection does not end with the request.
InsertFailUncancelled(p) ==
    /\ up /\ pc[p] = "insert" /\ ConnFree
    /\ \/ /\ orders' = Inserted(user[p], batch[p])
          /\ autoInc' = autoInc + Len(batch[p])
          /\ unsure' = unsure \cup (DOMAIN orders' \ DOMAIN orders)
       \/ UNCHANGED <<table, unsure>>
    /\ lock' = None
    /\ Finish(p)
    /\ UNCHANGED <<up, toLoad, cache, txRows>>

\* Either statement returns an error (the request was cancelled while it
\* waited for a connection, or the reply was lost): the rows may have been
\* inserted all the same, the cache is not touched.
InsertFail(p) ==
    /\ up /\ pc[p] = "insert"
    /\ \/ /\ ConnFree
          /\ orders' = Inserted(user[p], batch[p])
          /\ autoInc' = autoInc + Len(batch[p])
          /\ unsure' = unsure \cup (DOMAIN orders' \ DOMAIN orders)
       \/ UNCHANGED <<table, unsure>>
    /\ lock' = None
    /\ Finish(p)
    /\ UNCHANGED <<up, toLoad, cache, txRows>>

\* Mutant: ids are assigned, one too low (AUTO_INCREMENT taken for the last
\* id used rather than the next).
CacheNewIdTooLow(p) ==
    /\ up /\ pc[p] = "cache_new" /\ batch[p] # << >>
    /\ UpdateOrder([OrderID |-> autoInc - Len(batch[p]) - 1, UserID |-> user[p],
                    ProductID |-> Head(batch[p]), ShippedStatus |-> ""])
    /\ batch' = [batch EXCEPT ![p] = Tail(@)]
    /\ UNCHANGED <<up, table, toLoad, lock, pc, todo, newStatus, plan, user, txRows, unsure>>

\* Mutant: the status is assigned, the id is not.
CacheNewOffered(p) ==
    /\ up /\ pc[p] = "cache_new" /\ batch[p] # << >>
    /\ UpdateOrder([OrderID |-> 0, UserID |-> user[p],
                    ProductID |-> Head(batch[p]), ShippedStatus |-> "shipping"])
    /\ batch' = [batch EXCEPT ![p] = Tail(@)]
    /\ UNCHANGED <<up, table, toLoad, lock, pc, todo, newStatus, plan, user, txRows, unsure>>

\* The loop over *orders[i]: OrderID and ShippedStatus were never assigned.
CacheNew(p) ==
    /\ up /\ pc[p] = "cache_new" /\ batch[p] # << >>
    /\ UpdateOrder([OrderID |-> 0, UserID |-> user[p],
                    ProductID |-> Head(batch[p]), ShippedStatus |-> ""])
    /\ batch' = [batch EXCEPT ![p] = Tail(@)]
    /\ UNCHANGED <<up, table, toLoad, lock, pc, todo, newStatus, plan, user, txRows, unsure>>

CreateEnd(p) ==
    /\ up /\ pc[p] = "cache_new" /\ batch[p] = << >>
    /\ lock' = None
    /\ Finish(p)
    /\ UNCHANGED <<up, table, toLoad, cache, txRows, unsure>>
-----------------------------------------------------------------------------
(* GET /robot/delivery-plan: RobotService.GenerateDeliveryPlan *)

\* The handler polls until orders are waiting; when the poll times out it
\* goes on all the same.  Then BeginTxx.
PlanBegin(p) ==
    /\ Serving /\ pc[p] = "idle" /\ ConnFree
    /\ Go(p, "plan")
    /\ UNCHANGED <<up, table, toLoad, cache, lock, call, txRows, unsure>>

\* GetShippingOrders under the lock, then selectOrdersForDelivery, which
\* keeps some of them (module PlanSelection says which).
PlanSelect(p) ==
    /\ up /\ pc[p] = "plan" /\ lock = None
    /\ \E S \in SUBSET DOMAIN shipping :
        /\ plan' = [plan EXCEPT ![p] = S]
        /\ todo' = [todo EXCEPT ![p] = S]
        /\ Go(p, IF S = {} THEN "commit" ELSE "tx_update")
    /\ newStatus' = [newStatus EXCEPT ![p] = "delivering"]
    /\ UNCHANGED <<up, table, toLoad, cache, lock, user, batch, txRows, unsure>>

\* UPDATE inside the transaction: the rows stay locked until it ends.
PlanUpdate(p) ==
    /\ up /\ pc[p] = "tx_update" /\ RowsFree(p)
    /\ txRows' = [txRows EXCEPT ![p] = todo[p]]
    /\ Go(p, "tx_lock")
    /\ UNCHANGED <<up, table, toLoad, cache, lock, call, unsure>>

\* BeginTxx or the UPDATE fails: deferred Rollback.
PlanFail(p) ==
    /\ up /\ pc[p] \in {"plan", "tx_update"}
    /\ Finish(p)
    /\ UNCHANGED <<up, table, toLoad, cache, lock, txRows, unsure>>

\* The client goes away: database/sql rolls the transaction back at once, and
\* UpdateStatuses, once past its statement, goes on to the cache.
TxCancel(p) ==
    /\ up /\ pc[p] \in {"tx_lock", "tx_mark"} /\ txRows[p] # {}
    /\ unsure' = unsure \cup txRows[p]
    /\ txRows' = [txRows EXCEPT ![p] = {}]
    /\ UNCHANGED <<up, table, toLoad, cache, lock, pc, call>>

Cancelled(p) == pc[p] = "commit" /\ txRows[p] # plan[p]

Commit(p) ==
    /\ up /\ pc[p] = "commit" /\ ~Cancelled(p)
    /\ orders' = Written(txRows[p], newStatus[p])
    /\ txRows' = [txRows EXCEPT ![p] = {}]
    /\ Finish(p)
    /\ UNCHANGED <<up, autoInc, toLoad, cache, lock, unsure>>

\* Commit returns an error (the table may have it all the same): nothing
\* undoes what UpdateStatuses wrote to the cache.
CommitFail(p) ==
    /\ up /\ pc[p] = "commit"
    /\ orders' \in {orders, Written(txRows[p], newStatus[p])}
    /\ unsure' = unsure \cup txRows[p]
    /\ txRows' = [txRows EXCEPT ![p] = {}]
    /\ Finish(p)
    /\ UNCHANGED <<up, autoInc, toLoad, cache, lock>>
-----------------------------------------------------------------------------
(* PATCH /robot/orders/status: RobotService.UpdateOrderStatus *)

\* Mutant: the cache is updated first, the statement left for later.
PatchBeginCacheFirst(p, id, s) ==
    /\ Serving /\ pc[p] = "idle" /\ ConnFree
    /\ todo' = [todo EXCEPT ![p] = {id}]
    /\ newStatus' = [newStatus EXCEPT ![p] = s]
    /\ Go(p, "lock")
    /\ UNCHANGED <<up, table, toLoad, cache, lock, plan, user, batch, txRows, unsure>>

PatchBegin(p, id, s) ==
    /\ Serving /\ pc[p] = "idle" /\ ConnFree
    /\ todo' = [todo EXCEPT ![p] = {id}]
    /\ newStatus' = [newStatus EXCEPT ![p] = s]
    /\ Go(p, "update")
    /\ UNCHANGED <<up, table, toLoad, cache, lock, plan, user, batch, txRows, unsure>>

\* Mutant: the request returns once the table is written.
PatchUpdateTableOnly(p) ==
    /\ up /\ pc[p] = "update" /\ RowsFree(p)
    /\ orders' = Written(todo[p], newStatus[p])
    /\ Finish(p)
    /\ UNCHANGED <<up, autoInc, toLoad, cache, lock, txRows, unsure>>

\* The autocommitted UPDATE waits for rows a transaction holds.
PatchUpdate(p) ==
    /\ up /\ pc[p] = "update" /\ RowsFree(p)
    /\ orders' = Written(todo[p], newStatus[p])
    /\ Go(p, "lock")
    /\ UNCHANGED <<up, autoInc, toLoad, cache, lock, call, txRows, unsure>>

\* The statement returns an error (a cancelled request, a lost connection):
\* the row may have been written, the cache is not.
PatchFail(p) ==
    /\ up /\ pc[p] = "update"
    /\ \/ /\ RowsFree(p)
          /\ orders' = Written(todo[p], newStatus[p])
          /\ unsure' = unsure \cup todo[p]
       \/ UNCHANGED <<orders, unsure>>
    /\ Finish(p)
    /\ UNCHANGED <<up, autoInc, toLoad, cache, lock, txRows>>
-----------------------------------------------------------------------------
(* UpdateStatuses, after its statement: shared by the plan and the PATCH *)

MarkLock(p) ==
    /\ up /\ pc[p] \in {"tx_lock", "lock"} /\ lock = None
    /\ lock' = p
    /\ Go(p, IF pc[p] = "lock" THEN "mark" ELSE "tx_mark")
    /\ UNCHANGED <<up, table, toLoad, cache, call, txRows, unsure>>

Mark(p) ==
    /\ up /\ pc[p] \in {"tx_mark", "mark"}
    /\ \E id \in todo[p] :
        /\ id \in DOMAIN orderIdUserId
        /\ SetStatus(id, newStatus[p])
        /\ todo' = [todo EXCEPT ![p] = @ \ {id}]
    /\ UNCHANGED <<up, table, toLoad, lock, pc, newStatus, plan, user, batch, txRows, unsure>>

\* An id the cache does not know reads the zero entry, UserOrders[0][0]:
\* the index is out of range.  In the goroutine of WithTimeout nobody recovers.
MarkPanic(p) ==
    /\ up /\ pc[p] = "mark"
    /\ \E id \in todo[p] : id \notin DOMAIN orderIdUserId
    /\ up' = FALSE
    /\ UNCHANGED <<table, toLoad, cache, lock, pc, call, txRows, unsure>>

\* Mutant: Unlock is missing after the loop.
MarkEndKeepsLock(p) ==
    /\ up /\ pc[p] \in {"tx_mark", "mark"} /\ todo[p] = {}
    /\ \/ pc[p] = "mark" /\ Finish(p)
       \/ pc[p] = "tx_mark" /\ Go(p, "commit") /\ UNCHANGED call
    /\ UNCHANGED <<up, table, toLoad, cache, lock, txRows, unsure>>

MarkEnd(p) ==
    /\ up /\ pc[p] \in {"tx_mark", "mark"} /\ todo[p] = {}
    /\ lock' = None
    /\ \/ pc[p] = "mark" /\ Finish(p)
       \/ pc[p] = "tx_mark" /\ Go(p, "commit") /\ UNCHANGED call
    /\ UNCHANGED <<up, table, toLoad, cache, txRows, unsure>>
-----------------------------------------------------------------------------
CreateMany(p) ==
    \/ \E u \in Users, b \in Batch : CreateBegin(p, u, b)
    \/ Insert(p) \/ InsertFail(p) \/ CacheNew(p) \/ CreateEnd(p)

DeliveryPlan(p) ==
    PlanBegin(p) \/ PlanSelect(p) \/ PlanUpdate(p) \/ PlanFail(p)
    \/ Commit(p) \/ CommitFail(p) \/ TxCancel(p)

UpdateOrderStatus(p) ==
    \/ \E id \in PatchIds, s \in PatchStatuses : PatchBegin(p, id, s)
    \/ PatchUpdate(p) \/ PatchFail(p)

MarkCache(p) == MarkLock(p) \/ Mark(p) \/ MarkPanic(p) \/ MarkEnd(p)

\* After the panic the process is gone, and its container is not restarted.
Stopped == ~up /\ UNCHANGED vars

Next ==
    \/ LoadOrder \/ Stopped
    \/ \E p \in Procs : CreateMany(p) \/ DeliveryPlan(p)
                        \/ UpdateOrderStatus(p) \/ MarkCache(p)

Spec == Init /\ [][Next]_vars

\* The steps of a request that do not fail, unless it was rolled back.
Progress(p) ==
    \/ Insert(p) \/ CacheNew(p) \/ CreateEnd(p)
    \/ PlanSelect(p) \/ PlanUpdate(p) \/ Commit(p)
    \/ Cancelled(p) /\ CommitFail(p)
    \/ PatchUpdate(p) \/ MarkLock(p) \/ Mark(p) \/ MarkEnd(p)

\* Whoever waits for an answer (the client, or nginx) has a timeout: a call
\* that finds no connection ends with its context, r.Context().
GivenUp(p) == ~ConnFree /\ InsertFail(p)

\* sync.RWMutex wakes its waiters in turn, InnoDB queues lock requests and
\* database/sql queues requests for a connection: a request that could go on
\* again and again does go on.
Fairness ==
    /\ WF_vars(LoadOrder)
    /\ \A p \in Procs :
        SF_vars(Progress(p)) /\ WF_vars(MarkPanic(p)) /\ WF_vars(GivenUp(p))

LiveSpec == Spec /\ Fairness
-----------------------------------------------------------------------------
(* Properties *)

LockPC == NewPC \cup {"mark", "tx_mark"}

\* Every variable has the shape the Go code gives it.
TypeOK ==
    /\ up \in BOOLEAN
    /\ DOMAIN orders \subseteq Ids /\ orders \in [DOMAIN orders -> Row]
    /\ autoInc \in 1..(MaxOrders + 1)
    /\ toLoad \subseteq Ids
    /\ DOMAIN shipping \subseteq CacheIds /\ shipping \in [DOMAIN shipping -> Products]
    /\ userOrders \in [0..NumUsers -> Seq(Order)]
    /\ DOMAIN orderIdUserId \subseteq CacheIds
    /\ orderIdUserId \in [DOMAIN orderIdUserId -> Entry]
    /\ lock \in Procs \cup {None}
    /\ pc \in [Procs -> {"idle"} \cup PlanPC \cup PatchPC \cup NewPC]
    /\ todo \in [Procs -> SUBSET CacheIds]
    /\ newStatus \in [Procs -> Statuses]
    /\ plan \in [Procs -> SUBSET CacheIds]
    /\ txRows \in [Procs -> SUBSET CacheIds]
    /\ user \in [Procs -> Users \cup {0}]
    /\ batch \in [Procs -> Seq(Products)]
    /\ unsure \subseteq CacheIds

\* OrderIdUserId and UserOrders are inverse to each other: every entry points
\* at the slot that holds its order, and every slot is the one its order's
\* entry points at, however loads, new orders and status writes interleave.
SlotsIndexed ==
    /\ \A id \in DOMAIN orderIdUserId :
        /\ orderIdUserId[id].Index <= Len(userOrders[orderIdUserId[id].UserID])
        /\ Slot(id).OrderID = id
    /\ \A u \in 0..NumUsers : \A i \in 1..Len(userOrders[u]) :
        LET id == userOrders[u][i].OrderID
        IN  /\ id \in DOMAIN orderIdUserId
            /\ orderIdUserId[id] = [UserID |-> u, Index |-> i]

\* An order a robot may be offered is one the cached history still shows as
\* "shipping", with the same product (GetShippingOrders weighs that product).
ShippingCached ==
    \A id \in DOMAIN shipping :
        /\ id \in DOMAIN orderIdUserId
        /\ Slot(id).ShippedStatus = "shipping"
        /\ Slot(id).ProductID = shipping[id]

\* A cached order that carries a real id is a row of the table, kept in the
\* history of the row's customer, with the row's product.
CachedRows ==
    \A id \in DOMAIN orderIdUserId \ {0} :
        /\ id \in DOMAIN orders
        /\ orderIdUserId[id].UserID = orders[id].user_id
        /\ Slot(id).UserID = orders[id].user_id
        /\ Slot(id).ProductID = orders[id].product_id

\* UpdateStatuses writes the table first: an order still offered to robots
\* whose row has left "shipping" is one whose writer is on its way to the
\* cache, or whose statement reported an error.
OfferedIsShipping ==
    \A id \in DOMAIN shipping :
        \/ orders[id].shipped_status = "shipping"
        \/ \E p \in Procs : /\ pc[p] \in {"lock", "mark"}
                             /\ id \in todo[p] /\ newStatus[p] # "shipping"
        \/ id \in unsure

\* GenerateDeliveryPlan never reaches an id the cache does not know (that
\* would index UserOrders out of range), although the plan is computed
\* outside the lock and other requests change the cache meanwhile.
PlansIndexed ==
    \A p \in Procs :
        /\ plan[p] \subseteq DOMAIN orderIdUserId
        /\ pc[p] \in PlanPC \ {"plan"} => todo[p] \subseteq plan[p]

\* ListOrders reads the slots of the slice it copied after it has let go of the
\* lock, while other requests write statuses and cache orders.  No step makes
\* a history shorter, and a slot keeps its order: what another step changes of
\* an order with a real id is its status.  (The slot of id 0 is another matter:
\* each new order takes it over, see HistoryIsOwn.)
SlotsKeepOrders ==
    [][\A u \in Users : \A i \in 1..Len(userOrders[u]) :
          /\ i <= Len(userOrders'[u])
          /\ userOrders'[u][i].OrderID = userOrders[u][i].OrderID
          /\ userOrders[u][i].OrderID # 0 =>
                /\ userOrders'[u][i].UserID = userOrders[u][i].UserID
                /\ userOrders'[u][i].ProductID = userOrders[u][i].ProductID]_vars

\* The process only dies on orders created after the cache was loaded: a
\* status write for an order of the initial table never panics.
LoadedNeverPanics ==
    ~up => \E p \in Procs : \E id \in todo[p] : pc[p] = "mark" /\ id \notin 1..NumInit

\* An order stops being offered only after its row has been written, while a
\* transaction that wrote it is open, or after such a transaction was lost.
RetiredAfterWrite ==
    [][\A id \in DOMAIN shipping \ DOMAIN shipping' :
          \/ orders[id].shipped_status # "shipping"
          \/ \E p \in Procs : id \in txRows[p]
          \/ id \in unsure]_vars

\* What the comment on GetShippingOrders says it returns, "the orders with
\* shipped_status shipping": an order whose row waits for a robot, whose
\* statements all succeeded and which no request is working on, is on offer.
ShippingRowsOffered ==
    (Serving /\ \A p \in Procs : pc[p] = "idle") =>
        \A id \in DOMAIN orders \ unsure :
            orders[id].shipped_status = "shipping" => id \in DOMAIN shipping

\* What FetchOrders says it returns, "the user's order history": the history
\* kept for a user holds that user's orders.
HistoryIsOwn ==
    \A u \in Users : \A i \in 1..Len(userOrders[u]) : userOrders[u][i].UserID = u

\* Every request is answered, also when the pool is used up.  CreateMany then
\* waits for a connection under the cache lock, while the transactions that
\* keep the connections wait for that lock: a circle, which ends when CreateMany
\* is given up and returns through its deferred Unlock.  No other circle of
\* the lock, the row locks and the connections forms.
Answered ==
    \A p \in Procs : pc[p] # "idle" ~> (pc[p] = "idle" \/ ~up)
=============================================================================
