------------------------- MODULE OrderOffer_proofs -------------------------
(***************************************************************************)
(* Proofs that UpdateStatuses keeps the offers behind the table: an order  *)
(* whose row has left "shipping" is taken off offer by the request that    *)
(* wrote the row, and not before the row is written.                       *)
(***************************************************************************)
EXTENDS OrderStore_proofs

(***************************************************************************)
(* The invariant                                                           *)
(***************************************************************************)

\* Requests are only taken once everything is loaded.
LoadFirst == toLoad # {} => \A p \in Procs : pc[p] = "idle"

\* The zero OrderID is never on offer: CreateMany caches it without a status.
ZeroNotOffered == 0 \notin DOMAIN shipping

TxPC == {"tx_lock", "tx_mark", "commit"}

\* What an open transaction has written: its rows are off offer unless they
\* are still to be marked, and what is still to be marked it has written,
\* unless it was rolled back.
TxInv ==
    \A p \in Procs :
        /\ pc[p] \in TxPC \cup {"tx_update"} => newStatus[p] = "delivering"
        /\ pc[p] \notin TxPC => txRows[p] = {}
        /\ pc[p] = "commit" => todo[p] = {}
        /\ pc[p] \in {"tx_lock", "tx_mark"} => todo[p] \subseteq txRows[p] \cup unsure
        /\ txRows[p] \cap DOMAIN shipping \subseteq todo[p]

SInv == LoadFirst /\ ZeroNotOffered /\ TxInv /\ OfferedIsShipping

\* What OfferedIsShipping means by a writer on its way to the cache.
Marking(p, id) ==
    pc[p] \in {"lock", "mark"} /\ id \in todo[p] /\ newStatus[p] # "shipping"
-----------------------------------------------------------------------------
(***************************************************************************)
(* Steps that put nothing on offer                                         *)
(***************************************************************************)

\* Offers stay behind the table when nothing is added to them, no row of
\* theirs changes without a report, and nobody forgets to mark one.
LEMMA OffersKept ==
    ASSUME OfferedIsShipping, DOMAIN shipping' \subseteq DOMAIN shipping,
           unsure \subseteq unsure',
           \A id \in DOMAIN shipping' :
              \/ orders'[id].shipped_status = orders[id].shipped_status
              \/ id \in unsure',
           \A p \in Procs, id \in DOMAIN shipping' : Marking(p, id) => Marking(p, id)'
    PROVE  OfferedIsShipping'
<1>1. ASSUME NEW id \in DOMAIN shipping'
      PROVE  \/ orders'[id].shipped_status = "shipping"
             \/ \E p \in Procs : Marking(p, id)'
             \/ id \in unsure'
  <2>1. \/ orders[id].shipped_status = "shipping"
        \/ \E p \in Procs : Marking(p, id)
        \/ id \in unsure
    BY DEF OfferedIsShipping, Marking
  <2>2. QED
    BY <2>1
<1>2. QED
  BY <1>1 DEF OfferedIsShipping, Marking

\* An order on offer is a row of the table.
LEMMA OfferedRows ==
    ASSUME IInv, ZeroNotOffered
    PROVE  DOMAIN shipping \subseteq DOMAIN orders
BY DEF IInv, ZeroNotOffered, ShippingCached, CachedRows

\* A request that is answered.
LEMMA FinishLocals ==
    ASSUME TypeOK, NEW p \in Procs, Finish(p)
    PROVE  /\ pc'[p] = "idle" /\ todo'[p] = {}
           /\ \A q \in Procs \ {p} : /\ pc'[q] = pc[q] /\ todo'[q] = todo[q]
                                    /\ newStatus'[q] = newStatus[q]
BY DEF TypeOK, Finish, Go
-----------------------------------------------------------------------------
(***************************************************************************)
(* The invariant holds initially and every step keeps it                   *)
(***************************************************************************)

LEMMA InitSInv == Init => SInv
<1>. SUFFICES ASSUME Init PROVE SInv
  OBVIOUS
<1>1. DOMAIN shipping = {}
  BY DEF Init
<1>2. QED
  BY <1>1 DEF Init, SInv, LoadFirst, ZeroNotOffered, TxInv, OfferedIsShipping, TxPC

\* The rows are loaded while no request runs; a row is offered as it stands.
LEMMA LoadOrderSInv == ASSUME IInv, SInv, LoadOrder PROVE SInv'
<1>. USE DEF SInv
<1>1. PICK k \in toLoad :
        /\ UpdateOrder([OrderID |-> k, UserID |-> orders[k].user_id,
                        ProductID |-> orders[k].product_id,
                        ShippedStatus |-> orders[k].shipped_status])
        /\ toLoad' = toLoad \ {k}
  BY DEF LoadOrder
<1>. DEFINE o == [OrderID |-> k, UserID |-> orders[k].user_id,
                  ProductID |-> orders[k].product_id,
                  ShippedStatus |-> orders[k].shipped_status]
<1>2. UNCHANGED <<orders, pc, todo, newStatus, txRows, unsure>>
  BY DEF LoadOrder, table, call
<1>3. k \in DOMAIN orders /\ orders[k] \in Row /\ k \in CacheIds /\ k # 0
  BY DEF IInv, TypeOK, LoadInv, CacheIds, Ids
<1>4. o \in Order
  BY <1>3 DEF Order, Row
<1>5. /\ DOMAIN shipping' \subseteq DOMAIN shipping \cup {k}
      /\ k \in DOMAIN shipping' => orders[k].shipped_status = "shipping"
  <2>1. CacheTypeOK
    BY IInvParts DEF CacheInv
  <2>2. UpdateOrder(o)
    BY <1>1
  <2>3. o.OrderID = k /\ o.ShippedStatus = orders[k].shipped_status
    OBVIOUS
  <2>. HIDE DEF o
  <2>4. QED
    BY <1>4, <2>1, <2>2, <2>3, UpdateOrderOffers
<1>6. \A p \in Procs : pc[p] = "idle" /\ txRows[p] = {}
  BY <1>1 DEF LoadFirst, TxInv, TxPC
<1>7. LoadFirst' /\ ZeroNotOffered' /\ TxInv'
  BY <1>2, <1>3, <1>5, <1>6 DEF LoadFirst, ZeroNotOffered, TxInv, TxPC
<1>8. OfferedIsShipping'
  BY <1>2, <1>5, <1>6 DEF OfferedIsShipping
<1>9. QED
  BY <1>7, <1>8

LEMMA CreateBeginSInv ==
    ASSUME IInv, SInv, NEW p \in Procs, NEW u \in Users, NEW b \in Batch, CreateBegin(p, u, b)
    PROVE  SInv'
<1>. USE DEF SInv, CreateBegin, Go, cache, table
<1>1. LoadFirst' /\ ZeroNotOffered'
  BY DEF LoadFirst, ZeroNotOffered, Serving
<1>2. TxInv'
  BY DEF TxInv, TxPC, IInv, TypeOK
<1>3. OfferedIsShipping'
  BY OffersKept DEF Marking, IInv, TypeOK
<1>4. QED
  BY <1>1, <1>2, <1>3

\* New rows touch no row on offer.
LEMMA InsertedOffers ==
    ASSUME IInv, ZeroNotOffered, NEW u, NEW b, orders' = Inserted(u, b),
           shipping' = shipping
    PROVE  \A id \in DOMAIN shipping' : orders'[id] = orders[id]
BY OfferedRows DEF Inserted

LEMMA InsertSInv == ASSUME IInv, SInv, NEW p \in Procs, Insert(p) PROVE SInv'
<1>. USE DEF SInv, Insert, Go, cache, call
<1>1. LoadFirst' /\ ZeroNotOffered'
  BY DEF LoadFirst, ZeroNotOffered
<1>2. TxInv'
  BY DEF TxInv, TxPC, IInv, TypeOK
<1>3. \A id \in DOMAIN shipping' : orders'[id] = orders[id]
  BY InsertedOffers
<1>4. OfferedIsShipping'
  BY <1>3, OffersKept DEF Marking, IInv, TypeOK
<1>5. QED
  BY <1>1, <1>2, <1>4

\* A request that holds no transaction and is not at its marks is answered.
LEMMA FinishSInv ==
    ASSUME IInv, SInv, NEW p \in Procs, Finish(p),
           pc[p] \notin {"lock", "mark"}, toLoad' = toLoad, shipping' = shipping,
           unsure \subseteq unsure',
           txRows' = [txRows EXCEPT ![p] = {}],
           \A id \in DOMAIN shipping' :
              \/ orders'[id].shipped_status = orders[id].shipped_status
              \/ id \in unsure'
    PROVE  SInv'
<1>. USE DEF SInv
<1>1. /\ pc'[p] = "idle" /\ todo'[p] = {}
      /\ \A q \in Procs \ {p} : /\ pc'[q] = pc[q] /\ todo'[q] = todo[q]
                               /\ newStatus'[q] = newStatus[q]
  BY FinishLocals DEF IInv
<1>2. LoadFirst' /\ ZeroNotOffered'
  BY <1>1 DEF LoadFirst, ZeroNotOffered
<1>3. /\ txRows'[p] = {}
      /\ \A q \in Procs \ {p} : txRows'[q] = txRows[q]
  BY DEF IInv, TypeOK
<1>4. TxInv'
  BY <1>1, <1>3 DEF TxInv, TxPC
<1>5. OfferedIsShipping'
  BY <1>1, OffersKept DEF Marking
<1>6. QED
  BY <1>2, <1>4, <1>5

\* A request without an open transaction loses no rows when it ends.
LEMMA NoRows ==
    ASSUME IInv, TxInv, NEW p \in Procs, pc[p] \notin TxPC, txRows' = txRows
    PROVE  txRows' = [txRows EXCEPT ![p] = {}]
BY DEF TxInv, IInv, TypeOK

LEMMA InsertFailSInv == ASSUME IInv, SInv, NEW p \in Procs, InsertFail(p) PROVE SInv'
<1>. USE DEF SInv, InsertFail, cache, table
<1>1. \A id \in DOMAIN shipping' : orders'[id] = orders[id]
  BY InsertedOffers
<1>2. txRows' = [txRows EXCEPT ![p] = {}]
  BY NoRows DEF TxPC
<1>3. QED
  BY <1>1, <1>2, FinishSInv

\* The order a new order is cached as has no status: it is not offered.
LEMMA CacheNewSInv == ASSUME IInv, SInv, NEW p \in Procs, CacheNew(p) PROVE SInv'
<1>. USE DEF SInv, CacheNew, table
<1>. DEFINE o == [OrderID |-> 0, UserID |-> user[p],
                  ProductID |-> Head(batch[p]), ShippedStatus |-> ""]
<1>1. o \in Order
  <2>1. user[p] \in Users /\ batch[p] \in Seq(Products) /\ batch[p] # << >>
    BY DEF IInv, TypeOK, NewInv, NewPC
  <2>2. QED
    BY <2>1, HeadTailProperties DEF Order, CacheIds
<1>2. DOMAIN shipping' \subseteq DOMAIN shipping /\ 0 \notin DOMAIN shipping'
  <2>1. CacheTypeOK
    BY IInvParts DEF CacheInv
  <2>2. UpdateOrder(o) /\ o.OrderID = 0 /\ o.ShippedStatus # "shipping"
    OBVIOUS
  <2>. HIDE DEF o
  <2>3. QED
    BY <1>1, <2>1, <2>2, UpdateOrderOffers
<1>3. LoadFirst' /\ ZeroNotOffered'
  BY <1>2 DEF LoadFirst, ZeroNotOffered
<1>4. TxInv'
  BY <1>2 DEF TxInv, TxPC
<1>5. OfferedIsShipping'
  BY <1>2, OffersKept DEF Marking
<1>6. QED
  BY <1>3, <1>4, <1>5

LEMMA CreateEndSInv == ASSUME IInv, SInv, NEW p \in Procs, CreateEnd(p) PROVE SInv'
<1>. USE DEF SInv, CreateEnd, cache, table
<1>1. txRows' = [txRows EXCEPT ![p] = {}]
  BY NoRows DEF TxPC
<1>2. QED
  BY <1>1, FinishSInv

LEMMA PlanBeginSInv == ASSUME IInv, SInv, NEW p \in Procs, PlanBegin(p) PROVE SInv'
<1>. USE DEF SInv, PlanBegin, Go, cache, table, call
<1>1. LoadFirst' /\ ZeroNotOffered'
  BY DEF LoadFirst, ZeroNotOffered, Serving
<1>2. TxInv'
  BY DEF TxInv, TxPC, IInv, TypeOK
<1>3. OfferedIsShipping'
  BY OffersKept DEF Marking, IInv, TypeOK
<1>4. QED
  BY <1>1, <1>2, <1>3

LEMMA PlanSelectSInv == ASSUME IInv, SInv, NEW p \in Procs, PlanSelect(p) PROVE SInv'
<1>. USE DEF SInv, PlanSelect, Go, cache, table
<1>1. PICK S \in SUBSET DOMAIN shipping :
        /\ todo' = [todo EXCEPT ![p] = S]
        /\ pc' = [pc EXCEPT ![p] = IF S = {} THEN "commit" ELSE "tx_update"]
  OBVIOUS
<1>2. LoadFirst' /\ ZeroNotOffered'
  BY DEF LoadFirst, ZeroNotOffered
<1>3. TxInv'
  BY <1>1 DEF TxInv, TxPC, IInv, TypeOK
<1>4. OfferedIsShipping'
  BY <1>1, OffersKept DEF Marking, IInv, TypeOK
<1>5. QED
  BY <1>2, <1>3, <1>4

LEMMA PlanUpdateSInv == ASSUME IInv, SInv, NEW p \in Procs, PlanUpdate(p) PROVE SInv'
<1>. USE DEF SInv, PlanUpdate, Go, cache, table, call
<1>1. LoadFirst' /\ ZeroNotOffered'
  BY DEF LoadFirst, ZeroNotOffered
<1>2. TxInv'
  BY DEF TxInv, TxPC, IInv, TypeOK
<1>3. OfferedIsShipping'
  BY OffersKept DEF Marking, IInv, TypeOK
<1>4. QED
  BY <1>1, <1>2, <1>3

LEMMA PlanFailSInv == ASSUME IInv, SInv, NEW p \in Procs, PlanFail(p) PROVE SInv'
<1>. USE DEF SInv, PlanFail, cache, table
<1>1. txRows' = [txRows EXCEPT ![p] = {}]
  BY NoRows DEF TxPC
<1>2. QED
  BY <1>1, FinishSInv

\* Every row a transaction commits has been taken off offer, or was lost.
LEMMA CommitSInv ==
    ASSUME IInv, SInv, NEW p \in Procs, Commit(p) \/ CommitFail(p)
    PROVE  SInv'
<1>. USE DEF SInv, Commit, CommitFail, cache
<1>1. /\ pc[p] = "commit" /\ Finish(p)
      /\ UNCHANGED <<toLoad, shipping>>
      /\ txRows' = [txRows EXCEPT ![p] = {}]
      /\ unsure \subseteq unsure'
      /\ orders' \in {orders, Written(txRows[p], newStatus[p])}
  OBVIOUS
<1>2. txRows[p] \cap DOMAIN shipping = {}
  BY <1>1 DEF TxInv
<1>3. ASSUME NEW id \in DOMAIN shipping'
      PROVE  orders'[id].shipped_status = orders[id].shipped_status
  BY <1>1, <1>2, <1>3, OfferedRows DEF Written
<1>4. QED
  BY <1>1, <1>3, FinishSInv

LEMMA TxCancelSInv == ASSUME IInv, SInv, NEW p \in Procs, TxCancel(p) PROVE SInv'
<1>. USE DEF SInv, TxCancel, cache, table, call
<1>1. LoadFirst' /\ ZeroNotOffered'
  BY DEF LoadFirst, ZeroNotOffered
<1>2. TxInv'
  BY DEF TxInv, TxPC, IInv, TypeOK
<1>3. OfferedIsShipping'
  BY OffersKept DEF Marking
<1>4. QED
  BY <1>1, <1>2, <1>3

LEMMA PatchBeginSInv ==
    ASSUME IInv, SInv, NEW p \in Procs, NEW k \in CacheIds, NEW s \in Statuses,
           PatchBegin(p, k, s)
    PROVE  SInv'
<1>. USE DEF SInv, PatchBegin, Go, cache, table
<1>1. LoadFirst' /\ ZeroNotOffered'
  BY DEF LoadFirst, ZeroNotOffered, Serving
<1>2. TxInv'
  BY DEF TxInv, TxPC, IInv, TypeOK
<1>3. OfferedIsShipping'
  BY OffersKept DEF Marking, IInv, TypeOK
<1>4. QED
  BY <1>1, <1>2, <1>3

\* The writer of a row becomes its marker, unless it wrote "shipping".
LEMMA PatchUpdateSInv == ASSUME IInv, SInv, NEW p \in Procs, PatchUpdate(p) PROVE SInv'
<1>. USE DEF SInv, PatchUpdate, Go, cache, call
<1>1. LoadFirst' /\ ZeroNotOffered'
  BY DEF LoadFirst, ZeroNotOffered
<1>2. TxInv'
  BY DEF TxInv, TxPC, IInv, TypeOK
<1>3. \A q \in Procs : /\ q = p => pc'[q] = "lock"
                       /\ q # p => pc'[q] = pc[q]
  BY DEF IInv, TypeOK
<1>4. ASSUME NEW id \in DOMAIN shipping'
      PROVE  \/ orders'[id].shipped_status = "shipping"
             \/ \E q \in Procs : Marking(q, id)'
             \/ id \in unsure'
  <2>1. orders[id] \in Row /\ id \in DOMAIN orders
    BY OfferedRows DEF IInv, TypeOK
  <2>2. CASE id \in todo[p]
    <3>1. orders'[id].shipped_status = newStatus[p]
      BY <2>1, <2>2 DEF Written, Row
    <3>2. QED
      BY <1>3, <2>2, <3>1 DEF Marking
  <2>3. CASE id \notin todo[p]
    <3>1. orders'[id] = orders[id]
      BY <2>1, <2>3 DEF Written
    <3>2. \/ orders[id].shipped_status = "shipping"
          \/ \E q \in Procs : Marking(q, id)
          \/ id \in unsure
      BY DEF OfferedIsShipping, Marking
    <3>3. QED
      BY <1>3, <3>1, <3>2 DEF Marking
  <2>4. QED
    BY <2>2, <2>3
<1>5. OfferedIsShipping'
  BY <1>4 DEF OfferedIsShipping, Marking
<1>6. QED
  BY <1>1, <1>2, <1>5

LEMMA PatchFailSInv == ASSUME IInv, SInv, NEW p \in Procs, PatchFail(p) PROVE SInv'
<1>. USE DEF SInv, PatchFail, cache
<1>1. ASSUME NEW id \in DOMAIN shipping'
      PROVE  \/ orders'[id].shipped_status = orders[id].shipped_status
             \/ id \in unsure'
  BY <1>1, OfferedRows DEF Written
<1>2. txRows' = [txRows EXCEPT ![p] = {}]
  BY NoRows DEF TxPC
<1>3. QED
  BY <1>1, <1>2, FinishSInv

LEMMA MarkLockSInv == ASSUME IInv, SInv, NEW p \in Procs, MarkLock(p) PROVE SInv'
<1>. USE DEF SInv, MarkLock, Go, cache, table, call
<1>1. LoadFirst' /\ ZeroNotOffered'
  BY DEF LoadFirst, ZeroNotOffered
<1>2. TxInv'
  BY DEF TxInv, TxPC, IInv, TypeOK
<1>3. OfferedIsShipping'
  BY OffersKept DEF Marking, IInv, TypeOK
<1>4. QED
  BY <1>1, <1>2, <1>3

\* What Mark takes off its list it takes off offer, unless it marks "shipping".
LEMMA MarkSInv == ASSUME IInv, SInv, NEW p \in Procs, Mark(p) PROVE SInv'
<1>. USE DEF SInv, Mark, table
<1>1. PICK k \in todo[p] : /\ k \in DOMAIN orderIdUserId
                           /\ SetStatus(k, newStatus[p])
                           /\ todo' = [todo EXCEPT ![p] = @ \ {k}]
  OBVIOUS
<1>2. /\ DOMAIN shipping' \subseteq DOMAIN shipping
      /\ newStatus[p] # "shipping" => k \notin DOMAIN shipping'
  BY <1>1 DEF SetStatus, Without, Restrict
<1>3. /\ todo'[p] = todo[p] \ {k}
      /\ \A q \in Procs \ {p} : todo'[q] = todo[q]
  BY <1>1 DEF IInv, TypeOK
<1>4. LoadFirst' /\ ZeroNotOffered'
  BY <1>2 DEF LoadFirst, ZeroNotOffered
<1>5. TxInv'
  BY <1>2, <1>3 DEF TxInv, TxPC
<1>6. OfferedIsShipping'
  BY <1>2, <1>3, OffersKept DEF Marking
<1>7. QED
  BY <1>4, <1>5, <1>6

LEMMA MarkEndSInv == ASSUME IInv, SInv, NEW p \in Procs, MarkEnd(p) PROVE SInv'
<1>. USE DEF SInv, MarkEnd, cache, table
<1>1. CASE pc[p] = "mark" /\ Finish(p)
  <2>1. /\ pc'[p] = "idle" /\ todo'[p] = {}
        /\ \A q \in Procs \ {p} : /\ pc'[q] = pc[q] /\ todo'[q] = todo[q]
                                 /\ newStatus'[q] = newStatus[q]
    BY <1>1, FinishLocals DEF IInv
  <2>2. LoadFirst' /\ ZeroNotOffered'
    BY <2>1 DEF LoadFirst, ZeroNotOffered
  <2>3. TxInv'
    BY <1>1, <2>1 DEF TxInv, TxPC
  <2>4. OfferedIsShipping'
    BY <2>1, OffersKept DEF Marking
  <2>5. QED
    BY <2>2, <2>3, <2>4
<1>2. CASE pc[p] = "tx_mark" /\ Go(p, "commit") /\ UNCHANGED call
  <2>. USE <1>2 DEF Go, call
  <2>1. LoadFirst' /\ ZeroNotOffered'
    BY DEF LoadFirst, ZeroNotOffered
  <2>2. TxInv'
    BY DEF TxInv, TxPC, IInv, TypeOK
  <2>3. OfferedIsShipping'
    BY OffersKept DEF Marking, IInv, TypeOK
  <2>4. QED
    BY <2>1, <2>2, <2>3
<1>3. QED
  BY <1>1, <1>2

\* A panic changes nothing the invariant speaks of; neither does a stutter.
LEMMA StutterSInv ==
    ASSUME SInv, UNCHANGED <<orders, toLoad, shipping, pc, todo, newStatus, txRows, unsure>>
    PROVE  SInv'
BY DEF SInv, LoadFirst, ZeroNotOffered, TxInv, OfferedIsShipping

LEMMA NextSInv == IInv /\ SInv /\ [Next]_vars => SInv'
<1>. SUFFICES ASSUME IInv, SInv, [Next]_vars PROVE SInv'
  OBVIOUS
<1>1. CASE LoadOrder
  BY <1>1, LoadOrderSInv
<1>2. CASE Stopped \/ UNCHANGED vars
  BY <1>2, StutterSInv DEF Stopped, vars, table, cache, call
<1>3. ASSUME NEW p \in Procs, CreateMany(p) PROVE SInv'
  BY <1>3, CreateBeginSInv, InsertSInv, InsertFailSInv, CacheNewSInv, CreateEndSInv
     DEF CreateMany
<1>4. ASSUME NEW p \in Procs, DeliveryPlan(p) PROVE SInv'
  BY <1>4, PlanBeginSInv, PlanSelectSInv, PlanUpdateSInv, PlanFailSInv, CommitSInv,
     TxCancelSInv
     DEF DeliveryPlan
<1>5. ASSUME NEW p \in Procs, UpdateOrderStatus(p) PROVE SInv'
  BY <1>5, ParamAssumption, PatchBeginSInv, PatchUpdateSInv, PatchFailSInv
     DEF UpdateOrderStatus
<1>6. ASSUME NEW p \in Procs, MarkCache(p) PROVE SInv'
  <2>1. ASSUME MarkPanic(p) PROVE SInv'
    BY <2>1, StutterSInv DEF MarkPanic, table, cache, call
  <2>2. QED
    BY <1>6, <2>1, MarkLockSInv, MarkSInv, MarkEndSInv DEF MarkCache
<1>7. QED
  BY <1>1, <1>2, <1>3, <1>4, <1>5, <1>6 DEF Next

\* Both invariants hold in every behaviour.
THEOREM OfferInvariance == Spec => [](IInv /\ SInv)
<1>1. Init => SInv
  BY InitSInv
<1>2. IInv /\ SInv /\ [Next]_vars => SInv'
  BY NextSInv
<1>3. QED
  BY <1>1, <1>2, Invariance, PTL DEF Spec

\* An order on offer waits for a robot in the table, or is about to be taken
\* off offer, or was written by what reported an error.
THEOREM OffersFollowTable == Spec => []OfferedIsShipping
<1>1. SInv => OfferedIsShipping
  BY DEF SInv
<1>2. QED
  BY <1>1, OfferInvariance, PTL
-----------------------------------------------------------------------------
(***************************************************************************)
(* An offer is withdrawn only after the table was written.  This needs     *)
(* that no request puts an order back to "shipping": one that did could    *)
(* overtake another request that has yet to take the order off offer.      *)
(***************************************************************************)

NoReopening == "shipping" \notin PatchStatuses

\* A PATCH past its statement has taken the rows the cache knows out of
\* "shipping", and nobody puts them back.
PatchInv ==
    \A p \in Procs :
        /\ pc[p] \in PatchPC => newStatus[p] # "shipping"
        /\ pc[p] \in {"lock", "mark"} =>
             \A id \in todo[p] \cap (DOMAIN orderIdUserId \ {0}) :
                orders[id].shipped_status # "shipping"

\* A step that enters nothing in the index and puts no row back to "shipping"
\* owes only the requests that change what they write.
LEMMA PatchesKept ==
    ASSUME IInv, PatchInv, DOMAIN orderIdUserId' \ {0} \subseteq DOMAIN orderIdUserId,
           \A id \in DOMAIN orders :
              orders'[id].shipped_status = "shipping" => orders[id].shipped_status = "shipping",
           \A p \in Procs :
              \/ pc'[p] \notin PatchPC
              \/ pc'[p] = "update" /\ newStatus'[p] # "shipping"
              \/ /\ pc[p] \in PatchPC /\ newStatus'[p] = newStatus[p]
                 /\ \/ pc[p] \in {"lock", "mark"} /\ todo'[p] \subseteq todo[p]
                    \/ \A id \in todo'[p] \cap DOMAIN orders :
                          orders'[id].shipped_status # "shipping"
    PROVE  PatchInv'
<1>1. DOMAIN orderIdUserId \ {0} \subseteq DOMAIN orders
  BY DEF IInv, CachedRows
<1>2. ASSUME NEW p \in Procs
      PROVE  /\ pc'[p] \in PatchPC => newStatus'[p] # "shipping"
             /\ pc'[p] \in {"lock", "mark"} =>
                  \A id \in todo'[p] \cap (DOMAIN orderIdUserId' \ {0}) :
                     orders'[id].shipped_status # "shipping"
  BY <1>1 DEF PatchInv, PatchPC
<1>3. QED
  BY <1>2 DEF PatchInv

\* The statements of each request on the table: only an INSERT puts a row
\* to "shipping", and it adds that row.
LEMMA CreateWrites ==
    ASSUME NEW p \in Procs, CreateMany(p)
    PROVE  orders' = orders \/ orders' = Inserted(user[p], batch[p])
<1>1. CASE \E u \in Users, b \in Batch : CreateBegin(p, u, b)
  BY <1>1 DEF CreateBegin, table
<1>2. CASE Insert(p)
  BY <1>2 DEF Insert
<1>3. CASE InsertFail(p)
  BY <1>3 DEF InsertFail, table
<1>4. CASE CacheNew(p) \/ CreateEnd(p)
  BY <1>4 DEF CacheNew, CreateEnd, table
<1>5. QED
  BY <1>1, <1>2, <1>3, <1>4 DEF CreateMany

LEMMA PlanWrites ==
    ASSUME NEW p \in Procs, DeliveryPlan(p)
    PROVE  /\ orders' = orders \/ (pc[p] = "commit" /\ orders' = Written(txRows[p], newStatus[p]))
           /\ UNCHANGED cache
<1>1. CASE PlanBegin(p) \/ PlanUpdate(p) \/ PlanFail(p) \/ TxCancel(p)
  BY <1>1 DEF PlanBegin, PlanUpdate, PlanFail, TxCancel, table, cache
<1>2. CASE PlanSelect(p)
  BY <1>2 DEF PlanSelect, table, cache
<1>3. CASE Commit(p) \/ CommitFail(p)
  BY <1>3 DEF Commit, CommitFail, cache
<1>4. QED
  BY <1>1, <1>2, <1>3 DEF DeliveryPlan

LEMMA PatchWrites ==
    ASSUME NEW p \in Procs, UpdateOrderStatus(p)
    PROVE  /\ orders' = orders \/ (pc[p] = "update" /\ orders' = Written(todo[p], newStatus[p]))
           /\ UNCHANGED cache
<1>1. CASE \E k \in PatchIds, s \in PatchStatuses : PatchBegin(p, k, s)
  BY <1>1 DEF PatchBegin, table, cache
<1>2. CASE PatchUpdate(p)
  BY <1>2 DEF PatchUpdate, cache
<1>3. CASE PatchFail(p)
  BY <1>3 DEF PatchFail, cache
<1>4. QED
  BY <1>1, <1>2, <1>3 DEF UpdateOrderStatus

LEMMA InitPatchInv == Init => PatchInv
BY DEF Init, PatchInv, PatchPC

LEMMA NextPatchInv ==
    ASSUME NoReopening, IInv, SInv, PatchInv, [Next]_vars
    PROVE  PatchInv'
<1>0. \A id \in DOMAIN orders : orders[id] \in Row
  BY DEF IInv, TypeOK
<1>1. CASE LoadOrder
  <2>1. \A p \in Procs : pc'[p] = "idle"
    BY <1>1 DEF LoadOrder, call, SInv, LoadFirst
  <2>2. QED
    BY <2>1 DEF PatchInv, PatchPC
<1>2. CASE Stopped \/ UNCHANGED vars
  BY <1>2 DEF Stopped, vars, table, cache, call, PatchInv
<1>3. ASSUME NEW p \in Procs, CreateMany(p) PROVE PatchInv'
  <2>1. \A q \in Procs : \/ pc'[q] = "idle" \/ pc'[q] \in NewPC
                         \/ pc'[q] = pc[q] /\ todo'[q] = todo[q] /\ newStatus'[q] = newStatus[q]
    BY <1>3 DEF CreateMany, CreateBegin, Insert, InsertFail, CacheNew, CreateEnd,
                Finish, Go, call, NewPC, IInv, TypeOK
  <2>2. orders' = orders \/ orders' = Inserted(user[p], batch[p])
    BY <1>3, CreateWrites
  <2>3. \A id \in DOMAIN orders :
           orders'[id].shipped_status = "shipping" => orders[id].shipped_status = "shipping"
    BY <2>2 DEF Inserted
  <2>4. DOMAIN orderIdUserId' \ {0} \subseteq DOMAIN orderIdUserId
    <3>1. CASE UNCHANGED cache
      BY <3>1 DEF cache
    <3>2. CASE CacheNew(p)
      BY <3>2 DEF CacheNew, UpdateOrder, Put
    <3>3. QED
      BY <1>3, <3>1, <3>2
         DEF CreateMany, CreateBegin, Insert, InsertFail, CreateEnd
  <2>5. \A q \in Procs : \/ pc'[q] \notin PatchPC
                         \/ pc'[q] = "update" /\ newStatus'[q] # "shipping"
                         \/ /\ pc[q] \in {"lock", "mark"} /\ newStatus'[q] = newStatus[q]
                            /\ todo'[q] \subseteq todo[q]
    BY <2>1 DEF PatchInv, PatchPC, NewPC
  <2>6. QED
    BY <2>3, <2>4, <2>5, PatchesKept DEF PatchPC
<1>4. ASSUME NEW p \in Procs, DeliveryPlan(p) PROVE PatchInv'
  <2>1. \A q \in Procs : \/ pc'[q] \notin PatchPC
                         \/ pc'[q] = pc[q] /\ todo'[q] = todo[q] /\ newStatus'[q] = newStatus[q]
    BY <1>4 DEF DeliveryPlan, PlanBegin, PlanSelect, PlanUpdate, PlanFail, Commit, CommitFail,
                TxCancel, Finish, Go, call, PatchPC, IInv, TypeOK
  <2>2. orders' = orders \/ (pc[p] = "commit" /\ orders' = Written(txRows[p], newStatus[p]))
    BY <1>4, PlanWrites
  <2>3. \A id \in DOMAIN orders :
           orders'[id].shipped_status = "shipping" => orders[id].shipped_status = "shipping"
    BY <1>0, <2>2 DEF Written, Row, SInv, TxInv, TxPC
  <2>4. UNCHANGED orderIdUserId
    BY <1>4, PlanWrites DEF cache
  <2>5. \A q \in Procs : \/ pc'[q] \notin PatchPC
                         \/ pc'[q] = "update" /\ newStatus'[q] # "shipping"
                         \/ /\ pc[q] \in {"lock", "mark"} /\ newStatus'[q] = newStatus[q]
                            /\ todo'[q] \subseteq todo[q]
    BY <2>1 DEF PatchInv, PatchPC
  <2>6. QED
    BY <2>3, <2>4, <2>5, PatchesKept DEF PatchPC
<1>5. ASSUME NEW p \in Procs, UpdateOrderStatus(p) PROVE PatchInv'
  <2>1. UNCHANGED orderIdUserId
    BY <1>5, PatchWrites DEF cache
  <2>2. orders' = orders \/ (pc[p] = "update" /\ orders' = Written(todo[p], newStatus[p]))
    BY <1>5, PatchWrites
  <2>3. \A id \in DOMAIN orders :
           orders'[id].shipped_status = "shipping" => orders[id].shipped_status = "shipping"
    BY <1>0, <2>2 DEF Written, Row, PatchInv, PatchPC
  <2>4. CASE PatchUpdate(p)
    <3>1. /\ newStatus[p] # "shipping" /\ newStatus' = newStatus /\ todo' = todo
          /\ pc[p] = "update"
          /\ \A q \in Procs \ {p} : pc'[q] = pc[q]
          /\ orders' = Written(todo[p], newStatus[p])
      BY <2>4 DEF PatchUpdate, Go, call, PatchInv, PatchPC, IInv, TypeOK
    <3>2. \A id \in todo'[p] \cap DOMAIN orders : orders'[id].shipped_status # "shipping"
      BY <1>0, <3>1 DEF Written, Row
    <3>3. \A q \in Procs \ {p} :
             \/ pc'[q] \notin PatchPC
             \/ pc'[q] = "update" /\ newStatus'[q] # "shipping"
             \/ pc[q] \in {"lock", "mark"}
      BY <3>1 DEF PatchInv, PatchPC
    <3>4. QED
      BY <2>1, <2>3, <3>1, <3>2, <3>3, PatchesKept DEF PatchPC
  <2>5. CASE ~PatchUpdate(p)
    <3>1. \A q \in Procs : \/ pc'[q] = "idle"
                           \/ pc'[q] = "update" /\ newStatus'[q] \in PatchStatuses
                           \/ /\ pc'[q] = pc[q] /\ todo'[q] = todo[q]
                              /\ newStatus'[q] = newStatus[q]
      BY <1>5, <2>5 DEF UpdateOrderStatus, PatchBegin, PatchFail, Finish, Go, call,
                        IInv, TypeOK
    <3>2. \A q \in Procs : \/ pc'[q] \notin PatchPC
                           \/ pc'[q] = "update" /\ newStatus'[q] # "shipping"
                           \/ /\ pc[q] \in {"lock", "mark"} /\ newStatus'[q] = newStatus[q]
                              /\ todo'[q] \subseteq todo[q]
      BY <3>1 DEF PatchInv, PatchPC, NoReopening
    <3>3. QED
      BY <2>1, <2>3, <3>2, PatchesKept DEF PatchPC
  <2>6. QED
    BY <2>4, <2>5
<1>6. ASSUME NEW p \in Procs, MarkCache(p) PROVE PatchInv'
  <2>1. orders' = orders /\ orderIdUserId' = orderIdUserId
    BY <1>6 DEF MarkCache, MarkLock, Mark, MarkPanic, MarkEnd, SetStatus, cache, table
  <2>2. \A q \in Procs : \/ pc'[q] \notin PatchPC
                         \/ /\ pc'[q] = pc[q] \/ pc[q] \in {"lock", "mark"}
                            /\ todo'[q] \subseteq todo[q] /\ newStatus'[q] = newStatus[q]
    BY <1>6 DEF MarkCache, MarkLock, Mark, MarkPanic, MarkEnd, Finish, Go, call, PatchPC,
                IInv, TypeOK
  <2>3. \A q \in Procs : \/ pc'[q] \notin PatchPC
                         \/ pc'[q] = "update" /\ newStatus'[q] # "shipping"
                         \/ /\ pc[q] \in {"lock", "mark"} /\ newStatus'[q] = newStatus[q]
                            /\ todo'[q] \subseteq todo[q]
    BY <2>2 DEF PatchInv, PatchPC
  <2>4. QED
    BY <2>1, <2>3, PatchesKept DEF PatchPC
<1>7. QED
  BY <1>1, <1>2, <1>3, <1>4, <1>5, <1>6 DEF Next

\* The requests never write an order back to "shipping", so what they have
\* written stays written until they mark it.
THEOREM PatchInvariance == NoReopening => (Spec => [](IInv /\ SInv /\ PatchInv))
<1>. SUFFICES ASSUME NoReopening PROVE Spec => [](IInv /\ SInv /\ PatchInv)
  OBVIOUS
<1>1. Init => PatchInv
  BY InitPatchInv
<1>2. IInv /\ SInv /\ PatchInv /\ [Next]_vars => PatchInv'
  BY NextPatchInv
<1>3. QED
  BY <1>1, <1>2, OfferInvariance, PTL DEF Spec

\* What one step may take off offer, and why it may.
LEMMA RetiredStep ==
    ASSUME IInv, SInv, PatchInv, [Next]_vars, NEW id \in DOMAIN shipping \ DOMAIN shipping'
    PROVE  \/ orders[id].shipped_status # "shipping"
           \/ \E p \in Procs : id \in txRows[p]
           \/ id \in unsure
<1>0. id # 0
  BY DEF SInv, ZeroNotOffered
<1>1. CASE LoadOrder
  <2>1. PICK k \in toLoad :
          UpdateOrder([OrderID |-> k, UserID |-> orders[k].user_id,
                       ProductID |-> orders[k].product_id,
                       ShippedStatus |-> orders[k].shipped_status])
    BY <1>1 DEF LoadOrder
  <2>2. QED
    BY <2>1 DEF UpdateOrder, Put, Without, Restrict
<1>2. ASSUME NEW p \in Procs, CreateMany(p) PROVE FALSE
  <2>1. ~UNCHANGED shipping
    OBVIOUS
  <2>2. CASE CacheNew(p)
    BY <1>0, <2>2 DEF CacheNew, UpdateOrder, Put, Without, Restrict
  <2>3. CASE ~CacheNew(p)
    BY <1>2, <2>1, <2>3 DEF CreateMany, CreateBegin, Insert, InsertFail, CreateEnd, cache
  <2>4. QED
    BY <2>2, <2>3
<1>3. ASSUME NEW p \in Procs, DeliveryPlan(p) \/ UpdateOrderStatus(p) PROVE FALSE
  BY <1>3, PlanWrites, PatchWrites DEF cache
<1>4. ASSUME NEW p \in Procs, MarkCache(p)
      PROVE  \/ orders[id].shipped_status # "shipping"
             \/ id \in txRows[p]
             \/ id \in unsure
  <2>1. Mark(p)
    BY <1>4 DEF MarkCache, MarkLock, MarkPanic, MarkEnd, cache
  <2>2. PICK k \in todo[p] : /\ k \in DOMAIN orderIdUserId
                             /\ SetStatus(k, newStatus[p])
    BY <2>1 DEF Mark
  <2>3. id = k
    BY <2>2 DEF SetStatus, Without, Restrict
  <2>4. CASE pc[p] = "tx_mark"
    BY <2>2, <2>3, <2>4 DEF SInv, TxInv
  <2>5. CASE pc[p] = "mark"
    BY <1>0, <2>2, <2>3, <2>5 DEF PatchInv
  <2>6. QED
    BY <2>1, <2>4, <2>5 DEF Mark
<1>5. CASE Stopped \/ UNCHANGED vars
  BY <1>5 DEF Stopped, vars, cache
<1>6. QED
  BY <1>1, <1>2, <1>3, <1>4, <1>5 DEF Next

\* An order stops being offered only after its row has been written, while a
\* transaction that wrote it is open, or after such a transaction was lost.
THEOREM OffersRetiredLate == NoReopening => (Spec => RetiredAfterWrite)
<1>. SUFFICES ASSUME NoReopening PROVE Spec => RetiredAfterWrite
  OBVIOUS
<1>. DEFINE A == \A id \in DOMAIN shipping \ DOMAIN shipping' :
                   \/ orders[id].shipped_status # "shipping"
                   \/ \E p \in Procs : id \in txRows[p]
                   \/ id \in unsure
<1>1. IInv /\ SInv /\ PatchInv /\ [Next]_vars => [A]_vars
  BY RetiredStep
<1>2. Spec => [][A]_vars
  BY <1>1, PatchInvariance, PTL DEF Spec
<1>3. QED
  BY <1>2 DEF RetiredAfterWrite
-----------------------------------------------------------------------------
(***************************************************************************)
(* Only orders created while the process runs can end it                   *)
(***************************************************************************)

\* The rows of the initial table are cached, or about to be.
InitialIndexed == 1..NumInit \subseteq toLoad \cup DOMAIN orderIdUserId

PanicInv == InitialIndexed /\ LoadedNeverPanics

\* A step that ends no process and forgets no order keeps both.
LEMMA NoPanicStep ==
    ASSUME PanicInv, up, up' = up, toLoad' = toLoad,
           DOMAIN orderIdUserId \subseteq DOMAIN orderIdUserId'
    PROVE  PanicInv'
BY DEF PanicInv, InitialIndexed, LoadedNeverPanics

LEMMA NextPanicInv ==
    ASSUME IInv, SInv, PanicInv, [Next]_vars
    PROVE  PanicInv'
<1>1. CASE LoadOrder
  <2>1. PICK k \in toLoad :
          /\ UpdateOrder([OrderID |-> k, UserID |-> orders[k].user_id,
                          ProductID |-> orders[k].product_id,
                          ShippedStatus |-> orders[k].shipped_status])
          /\ toLoad' = toLoad \ {k}
    BY <1>1 DEF LoadOrder
  <2>2. up' = up /\ up
    BY <1>1 DEF LoadOrder
  <2>3. DOMAIN orderIdUserId \cup {k} \subseteq DOMAIN orderIdUserId'
    BY <2>1 DEF UpdateOrder, Put
  <2>4. QED
    BY <2>1, <2>2, <2>3 DEF PanicInv, InitialIndexed, LoadedNeverPanics
<1>2. CASE Stopped \/ UNCHANGED vars
  BY <1>2
     DEF Stopped, vars, cache, table, call, PanicInv, InitialIndexed, LoadedNeverPanics
<1>3. ASSUME NEW p \in Procs, CreateMany(p) PROVE PanicInv'
  <2>1. CASE CacheNew(p)
    <3>1. DOMAIN orderIdUserId \subseteq DOMAIN orderIdUserId'
      BY <2>1 DEF CacheNew, UpdateOrder, Put
    <3>2. QED
      BY <2>1, <3>1, NoPanicStep DEF CacheNew
  <2>2. CASE ~CacheNew(p)
    <3>1. up /\ up' = up /\ toLoad' = toLoad /\ UNCHANGED orderIdUserId
      BY <1>3, <2>2
         DEF CreateMany, CreateBegin, Insert, InsertFail, CreateEnd, Serving, cache
    <3>2. QED
      BY <3>1, NoPanicStep
  <2>3. QED
    BY <2>1, <2>2
<1>4. ASSUME NEW p \in Procs, DeliveryPlan(p) \/ UpdateOrderStatus(p) PROVE PanicInv'
  <2>1. up /\ up' = up /\ toLoad' = toLoad
    BY <1>4 DEF DeliveryPlan, PlanBegin, PlanSelect, PlanUpdate, PlanFail, Commit,
                CommitFail, TxCancel, UpdateOrderStatus, PatchBegin, PatchUpdate,
                PatchFail, Serving
  <2>2. UNCHANGED orderIdUserId
    BY <1>4, PlanWrites, PatchWrites DEF cache
  <2>3. QED
    BY <2>1, <2>2, NoPanicStep
<1>5. ASSUME NEW p \in Procs, MarkCache(p) PROVE PanicInv'
  <2>1. CASE MarkPanic(p)
    <3>1. /\ pc[p] = "mark" /\ pc' = pc /\ todo' = todo
          /\ UNCHANGED <<toLoad, orderIdUserId>>
      BY <2>1 DEF MarkPanic, call, cache
    <3>2. PICK id \in todo[p] : id \notin DOMAIN orderIdUserId
      BY <2>1 DEF MarkPanic
    <3>3. toLoad = {}
      BY <3>1 DEF SInv, LoadFirst
    <3>4. id \notin 1..NumInit
      BY <3>2, <3>3 DEF PanicInv, InitialIndexed
    <3>5. QED
      BY <3>1, <3>2, <3>4 DEF PanicInv, InitialIndexed, LoadedNeverPanics
  <2>2. CASE ~MarkPanic(p)
    <3>1. up /\ up' = up /\ toLoad' = toLoad /\ UNCHANGED orderIdUserId
      BY <1>5, <2>2 DEF MarkCache, MarkLock, Mark, MarkEnd, SetStatus, cache
    <3>2. QED
      BY <3>1, NoPanicStep
  <2>3. QED
    BY <2>1, <2>2
<1>6. QED
  BY <1>1, <1>2, <1>3, <1>4, <1>5 DEF Next

\* The process only dies on orders created after the cache was loaded: a
\* status write for an order of the initial table never panics.
THEOREM LoadedOrdersNeverPanic == Spec => []LoadedNeverPanics
<1>1. Init => PanicInv
  BY DEF Init, PanicInv, InitialIndexed, LoadedNeverPanics
<1>2. IInv /\ SInv /\ PanicInv /\ [Next]_vars => PanicInv'
  BY NextPanicInv
<1>3. PanicInv => LoadedNeverPanics
  BY DEF PanicInv
<1>4. QED
  BY <1>1, <1>2, <1>3, OfferInvariance, PTL DEF Spec
=============================================================================
