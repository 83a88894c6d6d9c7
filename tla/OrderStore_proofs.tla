------------------------- MODULE OrderStore_proofs -------------------------
(***************************************************************************)
(* Proofs about OrderStore: the types and the invariants that tie the      *)
(* three maps of the cache to each other and to the table, for every       *)
(* number of users, orders, requests and connections.                      *)
(***************************************************************************)
EXTENDS OrderStore, SequenceTheorems, TLAPS

(***************************************************************************)
(* The inductive invariant                                                 *)
(***************************************************************************)

\* Cache.Order is held by p exactly between p's Lock and Unlock.
LockInv == \A p \in Procs : lock = p <=> pc[p] \in LockPC

\* What CreateMany's locals hold: rows fit the table until they are inserted.
NewInv ==
    \A p \in Procs :
        /\ pc[p] \in NewPC => user[p] \in Users
        /\ pc[p] = "insert" => /\ Len(batch[p]) > 0
                               /\ autoInc + Len(batch[p]) <= MaxOrders + 1

\* Rows still to load are rows of the table.
LoadInv == toLoad \subseteq DOMAIN orders

\* The part of TypeOK that the cache operations change.
CacheTypeOK ==
    /\ DOMAIN shipping \subseteq CacheIds /\ shipping \in [DOMAIN shipping -> Products]
    /\ userOrders \in [0..NumUsers -> Seq(Order)]
    /\ DOMAIN orderIdUserId \subseteq CacheIds
    /\ orderIdUserId \in [DOMAIN orderIdUserId -> Entry]

CacheInv == CacheTypeOK /\ SlotsIndexed /\ ShippingCached

IInv ==
    /\ TypeOK /\ LockInv /\ NewInv /\ LoadInv
    /\ SlotsIndexed /\ ShippingCached /\ CachedRows /\ PlansIndexed
-----------------------------------------------------------------------------
(***************************************************************************)
(* The operations on the cache                                             *)
(***************************************************************************)

LEMMA UserSlice == Users \subseteq 0..NumUsers
BY ParamAssumption DEF Users

\* What UpdateOrder does to the set of orders on offer.
LEMMA UpdateOrderOffers ==
    ASSUME CacheTypeOK, NEW o \in Order, UpdateOrder(o)
    PROVE  /\ DOMAIN shipping' \subseteq CacheIds
           /\ shipping' \in [DOMAIN shipping' -> Products]
           /\ DOMAIN shipping' \subseteq DOMAIN shipping \cup {o.OrderID}
           /\ o.OrderID \in DOMAIN shipping' =>
                o.ShippedStatus = "shipping" /\ shipping'[o.OrderID] = o.ProductID
           /\ \A x \in DOMAIN shipping' \ {o.OrderID} : shipping'[x] = shipping[x]
<1>0. shipping \in [DOMAIN shipping -> Products] /\ DOMAIN shipping \subseteq CacheIds
  BY DEF CacheTypeOK
<1>1. o.OrderID \in CacheIds /\ o.ProductID \in Products
  BY DEF Order
<1>2. CASE o.ShippedStatus = "shipping"
  <2>1. shipping' = Put(shipping, o.OrderID, o.ProductID)
    BY <1>2 DEF UpdateOrder
  <2>2. QED
    BY <1>0, <1>1, <1>2, <2>1 DEF Put
<1>3. CASE o.ShippedStatus # "shipping"
  <2>1. shipping' = Without(shipping, o.OrderID)
    BY <1>3 DEF UpdateOrder
  <2>2. QED
    BY <1>0, <1>1, <1>3, <2>1 DEF Without, Restrict
<1>4. QED
  BY <1>2, <1>3

\* UpdateOrder keeps the cache consistent, whatever order it is given: it
\* writes the slot of that order and no other, and moves no cached order.
LEMMA UpdateOrderKeepsCache ==
    ASSUME CacheInv, NEW o \in Order, UpdateOrder(o)
    PROVE  /\ CacheInv'
           /\ DOMAIN orderIdUserId' = DOMAIN orderIdUserId \cup {o.OrderID}
           /\ Slot(o.OrderID)' = o
           /\ o.OrderID \notin DOMAIN orderIdUserId =>
                orderIdUserId'[o.OrderID].UserID = o.UserID
           /\ \A id \in DOMAIN orderIdUserId :
                /\ orderIdUserId'[id] = orderIdUserId[id]
                /\ id # o.OrderID => Slot(id)' = Slot(id)
<1>. USE DEF CacheInv
<1>0. /\ o.OrderID \in CacheIds /\ o.UserID \in Users /\ o.ProductID \in Products
      /\ o.UserID \in 0..NumUsers
  BY UserSlice DEF Order
<1>1. /\ userOrders \in [0..NumUsers -> Seq(Order)]
      /\ orderIdUserId \in [DOMAIN orderIdUserId -> Entry]
      /\ DOMAIN orderIdUserId \subseteq CacheIds
  BY DEF CacheTypeOK
<1>2. CASE o.OrderID \notin DOMAIN orderIdUserId
  <2>. DEFINE s == userOrders[o.UserID]
              e == [UserID |-> o.UserID, Index |-> Len(s) + 1]
  <2>1. /\ userOrders' = [userOrders EXCEPT ![o.UserID] = Append(s, o)]
        /\ orderIdUserId' = Put(orderIdUserId, o.OrderID, e)
    BY <1>2 DEF UpdateOrder
  <2>2. s \in Seq(Order) /\ Len(s) \in Nat
    BY <1>0, <1>1
  <2>3. /\ Append(s, o) \in Seq(Order) /\ Len(Append(s, o)) = Len(s) + 1
        /\ \A i \in 1..Len(s) : Append(s, o)[i] = s[i]
        /\ Append(s, o)[Len(s) + 1] = o
    BY <2>2, AppendProperties
  <2>4. e \in Entry
    BY <1>0, <2>2 DEF Entry
  <2>5. /\ DOMAIN orderIdUserId' = DOMAIN orderIdUserId \cup {o.OrderID}
        /\ orderIdUserId' \in [DOMAIN orderIdUserId' -> Entry]
        /\ orderIdUserId'[o.OrderID] = e
        /\ \A x \in DOMAIN orderIdUserId : orderIdUserId'[x] = orderIdUserId[x]
    BY <1>1, <1>2, <2>1, <2>4 DEF Put
  <2>6. /\ userOrders' \in [0..NumUsers -> Seq(Order)]
        /\ userOrders'[o.UserID] = Append(s, o)
        /\ \A u \in 0..NumUsers \ {o.UserID} : userOrders'[u] = userOrders[u]
    BY <1>0, <1>1, <2>1, <2>3
  <2>7. CacheTypeOK'
    BY <1>0, <1>1, <2>5, <2>6, UpdateOrderOffers DEF CacheTypeOK
  <2>8. ASSUME NEW id \in DOMAIN orderIdUserId
        PROVE  /\ orderIdUserId'[id] = orderIdUserId[id]
               /\ orderIdUserId[id].Index <= Len(userOrders'[orderIdUserId[id].UserID])
               /\ Slot(id)' = Slot(id)
    <3>1. orderIdUserId'[id] = orderIdUserId[id]
      BY <2>5
    <3>2. /\ orderIdUserId[id].UserID \in 0..NumUsers
          /\ orderIdUserId[id].Index \in 1..Len(userOrders[orderIdUserId[id].UserID])
      BY <1>1, UserSlice DEF SlotsIndexed, Entry
    <3>3. ASSUME NEW u \in 0..NumUsers, NEW i \in 1..Len(userOrders[u])
          PROVE  userOrders'[u][i] = userOrders[u][i] /\ i <= Len(userOrders'[u])
      BY <1>1, <2>2, <2>3, <2>6, LenProperties
    <3>4. QED
      BY <3>1, <3>2, <3>3 DEF Slot
  <2>9. Slot(o.OrderID)' = o
    BY <2>3, <2>5, <2>6 DEF Slot
  <2>10. SlotsIndexed'
    <3>1. ASSUME NEW id \in DOMAIN orderIdUserId'
          PROVE  /\ orderIdUserId'[id].Index <= Len(userOrders'[orderIdUserId'[id].UserID])
                 /\ Slot(id)'.OrderID = id
      <4>1. CASE id \in DOMAIN orderIdUserId
        BY <2>8, <4>1 DEF SlotsIndexed
      <4>2. CASE id = o.OrderID
        BY <2>2, <2>3, <2>5, <2>6, <2>9, <4>2
      <4>3. QED
        BY <2>5, <4>1, <4>2
    <3>2. ASSUME NEW u \in 0..NumUsers, NEW i \in 1..Len(userOrders'[u])
          PROVE  /\ userOrders'[u][i].OrderID \in DOMAIN orderIdUserId'
                 /\ orderIdUserId'[userOrders'[u][i].OrderID] = [UserID |-> u, Index |-> i]
      <4>1. CASE u = o.UserID /\ i = Len(s) + 1
        BY <2>3, <2>5, <2>6, <4>1
      <4>2. CASE ~(u = o.UserID /\ i = Len(s) + 1)
        <5>1. i \in 1..Len(userOrders[u]) /\ userOrders'[u][i] = userOrders[u][i]
          BY <2>2, <2>3, <2>6, <4>2
        <5>2. QED
          BY <2>5, <5>1 DEF SlotsIndexed
      <4>3. QED
        BY <4>1, <4>2
    <3>3. QED
      BY <3>1, <3>2 DEF SlotsIndexed
  <2>11. ShippingCached'
    BY <1>2, <2>5, <2>8, <2>9, UpdateOrderOffers DEF ShippingCached
  <2>12. QED
    BY <1>2, <2>5, <2>7, <2>8, <2>9, <2>10, <2>11
<1>3. CASE o.OrderID \in DOMAIN orderIdUserId
  <2>. DEFINE e == orderIdUserId[o.OrderID]
              s == userOrders[e.UserID]
  <2>1. /\ userOrders' = [userOrders EXCEPT ![e.UserID][e.Index] = o]
        /\ orderIdUserId' = orderIdUserId
    BY <1>3 DEF UpdateOrder
  <2>2. /\ e.UserID \in 0..NumUsers /\ s \in Seq(Order)
        /\ e.Index \in 1..Len(s) /\ s[e.Index].OrderID = o.OrderID
    BY <1>1, <1>3, UserSlice DEF SlotsIndexed, Slot, Entry
  <2>3. [s EXCEPT ![e.Index] = o] \in Seq(Order)
    BY <2>2, ExceptSeq
  <2>4. /\ userOrders' \in [0..NumUsers -> Seq(Order)]
        /\ userOrders'[e.UserID] = [s EXCEPT ![e.Index] = o]
        /\ \A u \in 0..NumUsers \ {e.UserID} : userOrders'[u] = userOrders[u]
    BY <1>1, <2>1, <2>2, <2>3
  <2>5. /\ Len(userOrders'[e.UserID]) = Len(s)
        /\ userOrders'[e.UserID][e.Index] = o
        /\ \A i \in 1..Len(s) \ {e.Index} : userOrders'[e.UserID][i] = s[i]
    <3>. DEFINE t == [s EXCEPT ![e.Index] = o]
    <3>1. Len(t) = Len(s) /\ \A i \in 1..Len(s) : t[i] = IF i = e.Index THEN o ELSE s[i]
      BY <2>2, ExceptSeq
    <3>2. userOrders'[e.UserID] = t
      BY <2>4
    <3>. HIDE DEF t
    <3>3. QED
      BY <2>2, <3>1, <3>2
  <2>6. CacheTypeOK'
    BY <1>1, <2>1, <2>4, UpdateOrderOffers DEF CacheTypeOK
  <2>7. ASSUME NEW u \in 0..NumUsers
        PROVE  /\ Len(userOrders'[u]) = Len(userOrders[u])
               /\ \A i \in 1..Len(userOrders[u]) :
                    /\ userOrders'[u][i].OrderID = userOrders[u][i].OrderID
                    /\ <<u, i>> # <<e.UserID, e.Index>> => userOrders'[u][i] = userOrders[u][i]
    BY <2>2, <2>4, <2>5
  <2>8. SlotsIndexed'
    <3>1. ASSUME NEW id \in DOMAIN orderIdUserId'
          PROVE  /\ orderIdUserId'[id].Index <= Len(userOrders'[orderIdUserId'[id].UserID])
                 /\ Slot(id)'.OrderID = id
      <4>1. /\ orderIdUserId[id].UserID \in 0..NumUsers
            /\ orderIdUserId[id].Index \in 1..Len(userOrders[orderIdUserId[id].UserID])
            /\ Slot(id).OrderID = id
        BY <1>1, <2>1, UserSlice DEF SlotsIndexed, Entry
      <4>2. QED
        BY <2>1, <2>7, <4>1 DEF Slot
    <3>2. ASSUME NEW u \in 0..NumUsers, NEW i \in 1..Len(userOrders'[u])
          PROVE  /\ userOrders'[u][i].OrderID \in DOMAIN orderIdUserId'
                 /\ orderIdUserId'[userOrders'[u][i].OrderID] = [UserID |-> u, Index |-> i]
      BY <2>1, <2>7 DEF SlotsIndexed
    <3>3. QED
      BY <3>1, <3>2 DEF SlotsIndexed
  <2>9. ASSUME NEW id \in DOMAIN orderIdUserId, id # o.OrderID
        PROVE  Slot(id)' = Slot(id)
    <3>1. /\ orderIdUserId[id].UserID \in 0..NumUsers
          /\ orderIdUserId[id].Index \in 1..Len(userOrders[orderIdUserId[id].UserID])
          /\ Slot(id).OrderID = id
      BY <1>1, UserSlice DEF SlotsIndexed, Entry
    <3>2. <<orderIdUserId[id].UserID, orderIdUserId[id].Index>> # <<e.UserID, e.Index>>
      BY <2>2, <2>9, <3>1 DEF Slot
    <3>3. QED
      BY <2>1, <2>7, <3>1, <3>2 DEF Slot
  <2>10. Slot(o.OrderID)' = o
    BY <2>1, <2>5 DEF Slot
  <2>11. ShippingCached'
    BY <1>3, <2>1, <2>9, <2>10, UpdateOrderOffers DEF ShippingCached
  <2>12. QED
    BY <1>3, <2>1, <2>6, <2>8, <2>9, <2>10, <2>11
<1>4. QED
  BY <1>2, <1>3

\* The loop body of UpdateStatuses keeps the cache consistent: it writes the
\* status of one order, and changes no order's place, customer or product.
LEMMA SetStatusKeepsCache ==
    ASSUME CacheInv, NEW k \in DOMAIN orderIdUserId, NEW s \in Statuses, SetStatus(k, s)
    PROVE  /\ CacheInv'
           /\ orderIdUserId' = orderIdUserId
           /\ DOMAIN shipping' \subseteq DOMAIN shipping
           /\ \A id \in DOMAIN orderIdUserId :
                /\ Slot(id).UserID = Slot(id)'.UserID
                /\ Slot(id).ProductID = Slot(id)'.ProductID
                /\ id # k => Slot(id)' = Slot(id)
           /\ Slot(k)'.ShippedStatus = s
<1>. USE DEF CacheInv
<1>. DEFINE e == orderIdUserId[k]
            q == userOrders[e.UserID]
            o == [q[e.Index] EXCEPT !.ShippedStatus = s]
<1>1. /\ userOrders \in [0..NumUsers -> Seq(Order)]
      /\ orderIdUserId \in [DOMAIN orderIdUserId -> Entry]
      /\ DOMAIN orderIdUserId \subseteq CacheIds
      /\ shipping \in [DOMAIN shipping -> Products]
      /\ DOMAIN shipping \subseteq CacheIds
  BY DEF CacheTypeOK
<1>2. /\ orderIdUserId' = orderIdUserId
      /\ userOrders' = [userOrders EXCEPT ![e.UserID][e.Index] = o]
  BY DEF SetStatus
<1>3. /\ e.UserID \in 0..NumUsers /\ q \in Seq(Order)
      /\ e.Index \in 1..Len(q) /\ q[e.Index].OrderID = k
      /\ q[e.Index] \in Order
  BY <1>1, UserSlice DEF SlotsIndexed, Slot, Entry
<1>4. /\ o \in Order /\ o.OrderID = k /\ o.ShippedStatus = s
      /\ o.UserID = q[e.Index].UserID /\ o.ProductID = q[e.Index].ProductID
  BY <1>3 DEF Order
<1>5. /\ shipping' \in [DOMAIN shipping' -> Products]
      /\ DOMAIN shipping' \subseteq DOMAIN shipping
      /\ s # "shipping" => k \notin DOMAIN shipping'
      /\ \A id \in DOMAIN shipping' : shipping'[id] = shipping[id]
  BY <1>1 DEF SetStatus, Without, Restrict
<1>6. [q EXCEPT ![e.Index] = o] \in Seq(Order)
  BY <1>3, <1>4, ExceptSeq
<1>7. /\ userOrders' \in [0..NumUsers -> Seq(Order)]
      /\ userOrders'[e.UserID] = [q EXCEPT ![e.Index] = o]
      /\ \A u \in 0..NumUsers \ {e.UserID} : userOrders'[u] = userOrders[u]
  BY <1>1, <1>2, <1>3, <1>6
<1>8. /\ Len(userOrders'[e.UserID]) = Len(q)
      /\ userOrders'[e.UserID][e.Index] = o
      /\ \A i \in 1..Len(q) \ {e.Index} : userOrders'[e.UserID][i] = q[i]
  <2>. DEFINE t == [q EXCEPT ![e.Index] = o]
  <2>1. Len(t) = Len(q) /\ \A i \in 1..Len(q) : t[i] = IF i = e.Index THEN o ELSE q[i]
    BY <1>3, <1>4, ExceptSeq
  <2>2. userOrders'[e.UserID] = t
    BY <1>7
  <2>. HIDE DEF t
  <2>3. QED
    BY <1>3, <2>1, <2>2
<1>9. CacheTypeOK'
  BY <1>1, <1>2, <1>5, <1>7 DEF CacheTypeOK
<1>10. ASSUME NEW u \in 0..NumUsers
       PROVE  /\ Len(userOrders'[u]) = Len(userOrders[u])
              /\ \A i \in 1..Len(userOrders[u]) :
                   /\ userOrders'[u][i].OrderID = userOrders[u][i].OrderID
                   /\ userOrders'[u][i].UserID = userOrders[u][i].UserID
                   /\ userOrders'[u][i].ProductID = userOrders[u][i].ProductID
                   /\ userOrders[u][i].OrderID # k => userOrders'[u][i] = userOrders[u][i]
  BY <1>3, <1>4, <1>7, <1>8
<1>11. ASSUME NEW id \in DOMAIN orderIdUserId
       PROVE  /\ orderIdUserId'[id].Index <= Len(userOrders'[orderIdUserId'[id].UserID])
              /\ Slot(id)'.OrderID = id
              /\ Slot(id).UserID = Slot(id)'.UserID
              /\ Slot(id).ProductID = Slot(id)'.ProductID
              /\ id # k => Slot(id)' = Slot(id)
  <2>1. /\ orderIdUserId[id].UserID \in 0..NumUsers
        /\ orderIdUserId[id].Index \in 1..Len(userOrders[orderIdUserId[id].UserID])
        /\ Slot(id).OrderID = id
    BY <1>1, UserSlice DEF SlotsIndexed, Entry
  <2>2. QED
    <3>1. Slot(id)' = userOrders'[orderIdUserId[id].UserID][orderIdUserId[id].Index]
      BY <1>2 DEF Slot
    <3>2. Slot(id) = userOrders[orderIdUserId[id].UserID][orderIdUserId[id].Index]
      BY DEF Slot
    <3>3. /\ Slot(id)'.OrderID = Slot(id).OrderID
          /\ Slot(id)'.UserID = Slot(id).UserID
          /\ Slot(id)'.ProductID = Slot(id).ProductID
          /\ Slot(id).OrderID # k => Slot(id)' = Slot(id)
      BY <1>10, <2>1, <3>1, <3>2
    <3>4. orderIdUserId'[id].Index <= Len(userOrders'[orderIdUserId'[id].UserID])
      BY <1>2, <1>10, <2>1
    <3>5. QED
      BY <2>1, <3>3, <3>4
<1>12. SlotsIndexed'
  <2>1. ASSUME NEW u \in 0..NumUsers, NEW i \in 1..Len(userOrders'[u])
        PROVE  /\ userOrders'[u][i].OrderID \in DOMAIN orderIdUserId'
               /\ orderIdUserId'[userOrders'[u][i].OrderID] = [UserID |-> u, Index |-> i]
    <3>1. /\ i \in 1..Len(userOrders[u])
          /\ userOrders'[u][i].OrderID = userOrders[u][i].OrderID
      BY <1>10
    <3>2. orderIdUserId' = orderIdUserId
      BY <1>2
    <3>3. QED
      BY <3>1, <3>2 DEF SlotsIndexed
  <2>2. QED
    BY <1>2, <1>11, <2>1 DEF SlotsIndexed
<1>13. ShippingCached'
  <2>1. ASSUME NEW id \in DOMAIN shipping'
        PROVE  /\ id \in DOMAIN orderIdUserId'
               /\ Slot(id)'.ShippedStatus = "shipping"
               /\ Slot(id)'.ProductID = shipping'[id]
    <3>1. /\ id \in DOMAIN orderIdUserId /\ Slot(id).ShippedStatus = "shipping"
          /\ Slot(id).ProductID = shipping[id] /\ shipping'[id] = shipping[id]
      BY <1>5 DEF ShippingCached
    <3>2. CASE id # k
      BY <1>2, <1>11, <3>1, <3>2
    <3>3. CASE id = k
      <4>1. s = "shipping"
        BY <1>5, <3>3
      <4>2. Slot(k)' = o
        BY <1>2, <1>8 DEF Slot
      <4>3. QED
        BY <1>2, <1>4, <1>11, <3>1, <3>3, <4>1, <4>2
    <3>4. QED
      BY <3>2, <3>3
  <2>2. QED
    BY <2>1 DEF ShippingCached
<1>14. Slot(k)' = o
  BY <1>2, <1>8 DEF Slot
<1>15. QED
  BY <1>2, <1>4, <1>5, <1>9, <1>11, <1>12, <1>13, <1>14
-----------------------------------------------------------------------------
(***************************************************************************)
(* Steps that leave the cache, or the table, alone                         *)
(***************************************************************************)

\* The table only gains rows, and a row keeps its customer and its product.
RowsKept ==
    \A id \in DOMAIN orders :
        /\ id \in DOMAIN orders'
        /\ orders'[id].user_id = orders[id].user_id
        /\ orders'[id].product_id = orders[id].product_id

LEMMA CacheUnchanged ==
    ASSUME CacheInv, UNCHANGED cache
    PROVE  CacheInv'
BY DEF CacheInv, CacheTypeOK, SlotsIndexed, ShippingCached, Slot, cache

LEMMA CachedRowsUnchanged ==
    ASSUME CachedRows, UNCHANGED cache, RowsKept
    PROVE  CachedRows'
BY DEF CachedRows, RowsKept, Slot, cache

LEMMA WrittenRows ==
    ASSUME NEW ids, NEW s \in Statuses,
           orders \in [DOMAIN orders -> Row], orders' = Written(ids, s)
    PROVE  /\ DOMAIN orders' = DOMAIN orders
           /\ orders' \in [DOMAIN orders' -> Row]
           /\ RowsKept
BY DEF Written, RowsKept, Row

LEMMA InsertedRows ==
    ASSUME NEW u \in Users, NEW b \in Seq(Products),
           orders \in [DOMAIN orders -> Row], DOMAIN orders \subseteq Ids,
           autoInc \in 1..(MaxOrders + 1), autoInc + Len(b) <= MaxOrders + 1,
           orders' = Inserted(u, b)
    PROVE  /\ DOMAIN orders' \subseteq Ids
           /\ orders' \in [DOMAIN orders' -> Row]
           /\ RowsKept
<1>1. DOMAIN orders' = DOMAIN orders \cup autoInc..(autoInc + Len(b) - 1)
  BY DEF Inserted
<1>2. Len(b) \in Nat
  BY LenProperties
<1>3. DOMAIN orders' \subseteq Ids
  BY <1>1, <1>2, ParamAssumption DEF Ids
<1>4. ASSUME NEW id \in DOMAIN orders'
      PROVE  orders'[id] \in Row
  <2>1. CASE id \in DOMAIN orders
    BY <2>1 DEF Inserted
  <2>2. CASE id \notin DOMAIN orders
    <3>1. id - autoInc + 1 \in 1..Len(b)
      BY <1>1, <1>2, <2>2, ParamAssumption
    <3>2. b[id - autoInc + 1] \in Products
      BY <3>1
    <3>3. orders'[id] = [user_id |-> u, product_id |-> b[id - autoInc + 1],
                         shipped_status |-> "shipping"]
      BY <1>1, <2>2 DEF Inserted
    <3>4. QED
      BY <3>2, <3>3 DEF Row, Statuses
  <2>3. QED
    BY <2>1, <2>2
<1>5. orders' \in [DOMAIN orders' -> Row]
  BY <1>4 DEF Inserted
<1>6. QED
  BY <1>3, <1>5 DEF RowsKept, Inserted

\* Dropping a request's locals.
LEMMA FinishTypes ==
    ASSUME TypeOK, NEW p \in Procs, Finish(p)
    PROVE  /\ pc' \in [Procs -> {"idle"} \cup PlanPC \cup PatchPC \cup NewPC]
           /\ todo' \in [Procs -> SUBSET CacheIds]
           /\ newStatus' \in [Procs -> Statuses]
           /\ plan' \in [Procs -> SUBSET CacheIds]
           /\ user' \in [Procs -> Users \cup {0}]
           /\ batch' \in [Procs -> Seq(Products)]
           /\ pc'[p] = "idle" /\ plan'[p] = {}
           /\ \A q \in Procs \ {p} :
                /\ pc'[q] = pc[q] /\ plan'[q] = plan[q] /\ todo'[q] = todo[q]
                /\ user'[q] = user[q] /\ batch'[q] = batch[q]
<1>1. << >> \in Seq(Products)
  OBVIOUS
<1>2. QED
  BY <1>1 DEF TypeOK, Finish, Go, Statuses
-----------------------------------------------------------------------------
(***************************************************************************)
(* The invariant holds initially and every step keeps it                   *)
(***************************************************************************)

LEMMA IInvParts ==
    IInv <=> /\ TypeOK /\ LockInv /\ NewInv /\ LoadInv
             /\ CacheInv /\ CachedRows /\ PlansIndexed
BY DEF IInv, CacheInv, CacheTypeOK, TypeOK

LEMMA InitIInv == Init => IInv
<1>. SUFFICES ASSUME Init PROVE IInv
  OBVIOUS
<1>1. DOMAIN shipping = {} /\ DOMAIN orderIdUserId = {}
  BY DEF Init
<1>2. /\ shipping \in [DOMAIN shipping -> Products]
      /\ orderIdUserId \in [DOMAIN orderIdUserId -> Entry]
  BY <1>1 DEF Init
<1>3. orders \in [1..NumInit -> Row] /\ 1..NumInit \subseteq Ids
  BY ParamAssumption DEF Init, Row, Ids
<1>4. /\ userOrders \in [0..NumUsers -> Seq(Order)]
      /\ \A u \in 0..NumUsers : Len(userOrders[u]) = 0
  BY DEF Init
<1>5. TypeOK
  BY <1>1, <1>2, <1>3, <1>4, ParamAssumption
     DEF Init, TypeOK, Statuses, CacheIds, Ids
<1>6. LockInv /\ NewInv /\ LoadInv /\ PlansIndexed
  BY <1>3, ParamAssumption
     DEF Init, LockInv, NewInv, LoadInv, PlansIndexed, LockPC, NewPC, PlanPC
<1>7. SlotsIndexed /\ ShippingCached /\ CachedRows
  BY <1>1, <1>4 DEF SlotsIndexed, ShippingCached, CachedRows
<1>8. QED
  BY <1>5, <1>6, <1>7 DEF IInv

LEMMA LoadOrderIInv == IInv /\ LoadOrder => IInv'
<1>. SUFFICES ASSUME IInv, LoadOrder PROVE IInv'
  OBVIOUS
<1>. USE DEF IInv
<1>1. PICK id \in toLoad :
        /\ UpdateOrder([OrderID |-> id, UserID |-> orders[id].user_id,
                        ProductID |-> orders[id].product_id,
                        ShippedStatus |-> orders[id].shipped_status])
        /\ toLoad' = toLoad \ {id}
  BY DEF LoadOrder
<1>. DEFINE o == [OrderID |-> id, UserID |-> orders[id].user_id,
                  ProductID |-> orders[id].product_id,
                  ShippedStatus |-> orders[id].shipped_status]
<1>2. /\ UNCHANGED <<up, orders, autoInc, lock, pc, todo, newStatus, plan>>
      /\ UNCHANGED <<user, batch, txRows, unsure>>
  BY DEF LoadOrder, table, call
<1>3. id \in DOMAIN orders /\ orders[id] \in Row /\ id \in CacheIds /\ id # 0
  BY DEF TypeOK, LoadInv, CacheIds, Ids
<1>4. o \in Order
  BY <1>3 DEF Order, Row
<1>5. CacheInv'
  BY <1>1, <1>4, IInvParts, UpdateOrderKeepsCache
<1>6. /\ DOMAIN orderIdUserId' = DOMAIN orderIdUserId \cup {id}
      /\ Slot(id)' = o
      /\ id \notin DOMAIN orderIdUserId =>
           orderIdUserId'[id].UserID = orders[id].user_id
      /\ \A k \in DOMAIN orderIdUserId :
           /\ orderIdUserId'[k] = orderIdUserId[k]
           /\ k # id => Slot(k)' = Slot(k)
  BY <1>1, <1>4, IInvParts, UpdateOrderKeepsCache
<1>7. CachedRows'
  <2>1. ASSUME NEW k \in DOMAIN orderIdUserId' \ {0}
        PROVE  /\ k \in DOMAIN orders'
               /\ orderIdUserId'[k].UserID = orders'[k].user_id
               /\ Slot(k)'.UserID = orders'[k].user_id
               /\ Slot(k)'.ProductID = orders'[k].product_id
    <3>1. CASE k = id
      BY <1>2, <1>3, <1>6, <3>1 DEF CachedRows
    <3>2. CASE k # id
      BY <1>2, <1>6, <3>2 DEF CachedRows
    <3>3. QED
      BY <3>1, <3>2
  <2>2. QED
    BY <2>1 DEF CachedRows
<1>8. TypeOK'
  BY <1>1, <1>2, <1>5 DEF TypeOK, CacheInv, CacheTypeOK
<1>9. LockInv' /\ NewInv' /\ LoadInv'
  BY <1>1, <1>2 DEF LockInv, NewInv, LoadInv
<1>10. PlansIndexed'
  BY <1>2, <1>6 DEF PlansIndexed
<1>11. QED
  BY <1>5, <1>7, <1>8, <1>9, <1>10 DEF CacheInv

\* A step that leaves the cache alone and keeps the rows owes only the parts
\* about the requests.
LEMMA QuietStep ==
    ASSUME IInv, UNCHANGED cache, RowsKept,
           TypeOK', LockInv', NewInv', LoadInv', PlansIndexed'
    PROVE  IInv'
<1>1. CacheInv'
  BY CacheUnchanged, IInvParts
<1>2. CachedRows'
  BY CachedRowsUnchanged DEF IInv
<1>3. QED
  BY <1>1, <1>2 DEF IInv, CacheInv

LEMMA SameRows == UNCHANGED orders => RowsKept
BY DEF RowsKept

LEMMA BatchSeq == \A b \in Batch : b \in Seq(Products) /\ Len(b) \in Nat \ {0}
BY ParamAssumption DEF Batch

LEMMA CreateBeginIInv ==
    ASSUME IInv, NEW p \in Procs, NEW u \in Users, NEW b \in Batch, CreateBegin(p, u, b)
    PROVE  IInv'
<1>. USE DEF IInv, CreateBegin, Go, table, cache
<1>1. b \in Seq(Products) /\ Len(b) \in Nat \ {0}
  BY BatchSeq
<1>2. UNCHANGED cache /\ RowsKept
  BY SameRows
<1>3. TypeOK'
  BY <1>1 DEF TypeOK, NewPC
<1>4. LockInv'
  BY ParamAssumption DEF LockInv, LockPC, NewPC, TypeOK
<1>5. NewInv'
  BY <1>1 DEF NewInv, NewPC, TypeOK
<1>6. LoadInv' /\ PlansIndexed'
  BY DEF LoadInv, PlansIndexed, PlanPC, TypeOK
<1>7. QED
  BY <1>2, <1>3, <1>4, <1>5, <1>6, QuietStep

LEMMA InsertIInv == ASSUME IInv, NEW p \in Procs, Insert(p) PROVE IInv'
<1>. USE DEF IInv, Insert, Go, cache, call
<1>1. /\ batch[p] \in Seq(Products) /\ user[p] \in Users /\ Len(batch[p]) \in Nat
      /\ Len(batch[p]) > 0 /\ autoInc + Len(batch[p]) <= MaxOrders + 1
  BY LenProperties DEF TypeOK, NewInv, NewPC
<1>2. /\ DOMAIN orders' \subseteq Ids /\ orders' \in [DOMAIN orders' -> Row]
      /\ RowsKept
  BY <1>1, InsertedRows DEF TypeOK
<1>3. TypeOK'
  BY <1>1, <1>2, ParamAssumption DEF TypeOK, NewPC
<1>4. LockInv' /\ PlansIndexed'
  BY DEF LockInv, PlansIndexed, LockPC, NewPC, PlanPC, TypeOK
<1>5. NewInv'
  <2>1. lock = p
    BY DEF LockInv, LockPC, NewPC
  <2>2. \A q \in Procs \ {p} : pc[q] # "insert"
    BY <2>1 DEF LockInv, LockPC, NewPC
  <2>3. QED
    BY <1>1, <2>2 DEF NewInv, NewPC, TypeOK
<1>6. LoadInv'
  BY <1>2 DEF LoadInv, RowsKept
<1>7. QED
  BY <1>2, <1>3, <1>4, <1>5, <1>6, QuietStep

LEMMA InsertFailIInv == ASSUME IInv, NEW p \in Procs, InsertFail(p) PROVE IInv'
<1>. USE DEF IInv, InsertFail, cache, table
<1>1. /\ batch[p] \in Seq(Products) /\ user[p] \in Users /\ Len(batch[p]) \in Nat
      /\ Len(batch[p]) > 0 /\ autoInc + Len(batch[p]) <= MaxOrders + 1
  BY LenProperties DEF TypeOK, NewInv, NewPC
<1>2. /\ DOMAIN orders' \subseteq Ids /\ orders' \in [DOMAIN orders' -> Row]
      /\ RowsKept
      /\ autoInc' \in 1..(MaxOrders + 1)
      /\ unsure' \subseteq CacheIds
  <2>1. CASE UNCHANGED <<table, unsure>>
    BY <2>1, SameRows DEF TypeOK
  <2>2. CASE ~UNCHANGED <<table, unsure>>
    <3>1. /\ orders' = Inserted(user[p], batch[p])
          /\ autoInc' = autoInc + Len(batch[p])
          /\ unsure' = unsure \cup (DOMAIN orders' \ DOMAIN orders)
      BY <2>2
    <3>2. /\ DOMAIN orders' \subseteq Ids /\ orders' \in [DOMAIN orders' -> Row]
          /\ RowsKept
      BY <1>1, <3>1, InsertedRows DEF TypeOK
    <3>3. QED
      BY <1>1, <3>1, <3>2, ParamAssumption DEF TypeOK, CacheIds
  <2>3. QED
    BY <2>1, <2>2
<1>3. TypeOK'
  BY <1>2, FinishTypes DEF TypeOK
<1>4. lock = p /\ \A q \in Procs \ {p} : pc[q] \notin LockPC
  BY DEF LockInv, LockPC, NewPC
<1>5. LockInv' /\ NewInv' /\ PlansIndexed'
  BY <1>4, FinishTypes, ParamAssumption
     DEF LockInv, NewInv, PlansIndexed, LockPC, NewPC, PlanPC
<1>6. LoadInv'
  BY <1>2 DEF LoadInv, RowsKept
<1>7. QED
  BY <1>2, <1>3, <1>5, <1>6, QuietStep

LEMMA CreateEndIInv == ASSUME IInv, NEW p \in Procs, CreateEnd(p) PROVE IInv'
<1>. USE DEF IInv, CreateEnd, cache, table
<1>1. UNCHANGED cache /\ RowsKept
  BY SameRows
<1>2. TypeOK'
  BY FinishTypes DEF TypeOK
<1>3. lock = p /\ \A q \in Procs \ {p} : pc[q] \notin LockPC
  BY DEF LockInv, LockPC, NewPC
<1>4. /\ pc'[p] = "idle" /\ plan'[p] = {} /\ lock' = None
      /\ \A q \in Procs \ {p} : /\ pc'[q] = pc[q] /\ plan'[q] = plan[q] /\ todo'[q] = todo[q]
                               /\ user'[q] = user[q] /\ batch'[q] = batch[q]
  BY FinishTypes
<1>5. LockInv'
  BY <1>3, <1>4, ParamAssumption DEF LockInv, LockPC, NewPC
<1>6. NewInv' /\ PlansIndexed' /\ LoadInv'
  BY <1>4 DEF NewInv, PlansIndexed, LoadInv, NewPC, PlanPC
<1>7. QED
  BY <1>1, <1>2, <1>5, <1>6, QuietStep

\* The zero OrderID stands for no row, so CachedRows does not speak of it.
LEMMA CacheNewIInv == ASSUME IInv, NEW p \in Procs, CacheNew(p) PROVE IInv'
<1>. USE DEF IInv, CacheNew, table
<1>. DEFINE o == [OrderID |-> 0, UserID |-> user[p],
                  ProductID |-> Head(batch[p]), ShippedStatus |-> ""]
<1>1. /\ user[p] \in Users /\ batch[p] \in Seq(Products)
      /\ Head(batch[p]) \in Products /\ Tail(batch[p]) \in Seq(Products)
  <2>1. user[p] \in Users /\ batch[p] \in Seq(Products) /\ batch[p] # << >>
    BY DEF TypeOK, NewInv, NewPC
  <2>2. QED
    BY <2>1, HeadTailProperties
<1>2. o \in Order
  BY <1>1 DEF Order, CacheIds
<1>3. /\ CacheInv'
      /\ DOMAIN orderIdUserId' = DOMAIN orderIdUserId \cup {0}
      /\ \A id \in DOMAIN orderIdUserId :
           /\ orderIdUserId'[id] = orderIdUserId[id]
           /\ id # 0 => Slot(id)' = Slot(id)
  BY <1>2, IInvParts, UpdateOrderKeepsCache
<1>4. CachedRows'
  <2>1. ASSUME NEW k \in DOMAIN orderIdUserId' \ {0}
        PROVE  /\ k \in DOMAIN orders'
               /\ orderIdUserId'[k].UserID = orders'[k].user_id
               /\ Slot(k)'.UserID = orders'[k].user_id
               /\ Slot(k)'.ProductID = orders'[k].product_id
    BY <1>3 DEF CachedRows
  <2>2. QED
    BY <2>1 DEF CachedRows
<1>5. TypeOK'
  BY <1>1, <1>3 DEF TypeOK, CacheInv, CacheTypeOK
<1>6. LockInv' /\ LoadInv' /\ PlansIndexed'
  BY <1>3 DEF LockInv, LoadInv, PlansIndexed
<1>7. NewInv'
  BY DEF NewInv, TypeOK
<1>8. QED
  BY <1>3, <1>4, <1>5, <1>6, <1>7 DEF CacheInv

LEMMA PlanBeginIInv == ASSUME IInv, NEW p \in Procs, PlanBegin(p) PROVE IInv'
<1>. USE DEF IInv, PlanBegin, Go, cache, table, call
<1>1. UNCHANGED cache /\ RowsKept
  BY SameRows
<1>2. TypeOK'
  BY DEF TypeOK, PlanPC
<1>3. LockInv' /\ NewInv' /\ LoadInv' /\ PlansIndexed'
  BY DEF LockInv, NewInv, LoadInv, PlansIndexed, LockPC, NewPC, PlanPC, TypeOK
<1>4. QED
  BY <1>1, <1>2, <1>3, QuietStep

LEMMA PlanSelectIInv == ASSUME IInv, NEW p \in Procs, PlanSelect(p) PROVE IInv'
<1>. USE DEF IInv, PlanSelect, Go, cache, table
<1>1. UNCHANGED cache /\ RowsKept
  BY SameRows
<1>2. PICK S \in SUBSET DOMAIN shipping :
        /\ plan' = [plan EXCEPT ![p] = S]
        /\ todo' = [todo EXCEPT ![p] = S]
        /\ pc' = [pc EXCEPT ![p] = IF S = {} THEN "commit" ELSE "tx_update"]
  OBVIOUS
<1>3. S \subseteq CacheIds /\ S \subseteq DOMAIN orderIdUserId
  BY DEF TypeOK, ShippingCached
<1>4. TypeOK'
  BY <1>2, <1>3 DEF TypeOK, PlanPC, Statuses
<1>5. LockInv' /\ NewInv' /\ LoadInv' /\ PlansIndexed'
  BY <1>2, <1>3 DEF LockInv, NewInv, LoadInv, PlansIndexed, LockPC, NewPC, PlanPC, TypeOK
<1>6. QED
  BY <1>1, <1>4, <1>5, QuietStep

LEMMA PlanUpdateIInv == ASSUME IInv, NEW p \in Procs, PlanUpdate(p) PROVE IInv'
<1>. USE DEF IInv, PlanUpdate, Go, cache, table, call
<1>1. UNCHANGED cache /\ RowsKept
  BY SameRows
<1>2. TypeOK'
  BY DEF TypeOK, PlanPC
<1>3. LockInv' /\ NewInv' /\ LoadInv' /\ PlansIndexed'
  BY DEF LockInv, NewInv, LoadInv, PlansIndexed, LockPC, NewPC, PlanPC, TypeOK
<1>4. QED
  BY <1>1, <1>2, <1>3, QuietStep

\* A request that holds no lock is answered.
LEMMA FinishUnlocked ==
    ASSUME IInv, NEW p \in Procs, Finish(p), pc[p] \notin LockPC,
           UNCHANGED <<lock, autoInc, toLoad, cache>>, RowsKept
    PROVE  LockInv' /\ NewInv' /\ LoadInv' /\ PlansIndexed'
<1>1. /\ pc'[p] = "idle" /\ plan'[p] = {}
      /\ \A q \in Procs \ {p} : /\ pc'[q] = pc[q] /\ plan'[q] = plan[q] /\ todo'[q] = todo[q]
                               /\ user'[q] = user[q] /\ batch'[q] = batch[q]
  BY FinishTypes DEF IInv
<1>2. LockInv'
  BY <1>1 DEF IInv, LockInv, LockPC, NewPC
<1>3. NewInv' /\ PlansIndexed'
  BY <1>1 DEF IInv, NewInv, PlansIndexed, NewPC, PlanPC, cache
<1>4. LoadInv'
  BY DEF IInv, LoadInv, RowsKept
<1>5. QED
  BY <1>2, <1>3, <1>4

LEMMA PlanFailIInv == ASSUME IInv, NEW p \in Procs, PlanFail(p) PROVE IInv'
<1>. USE DEF IInv, PlanFail, cache, table
<1>1. RowsKept /\ pc[p] \notin LockPC
  BY SameRows DEF LockPC, NewPC
<1>2. TypeOK'
  BY FinishTypes DEF TypeOK
<1>3. QED
  BY <1>1, <1>2, FinishUnlocked, QuietStep

LEMMA CommitIInv ==
    ASSUME IInv, NEW p \in Procs, Commit(p) \/ CommitFail(p)
    PROVE  IInv'
<1>. USE DEF IInv, Commit, CommitFail, cache
<1>1. /\ pc[p] \notin LockPC /\ Finish(p)
      /\ UNCHANGED <<up, lock, autoInc, toLoad, cache>>
      /\ txRows' = [txRows EXCEPT ![p] = {}]
      /\ unsure' \subseteq unsure \cup txRows[p]
  BY DEF LockPC, NewPC
<1>2. /\ DOMAIN orders' = DOMAIN orders
      /\ orders' \in [DOMAIN orders' -> Row]
      /\ RowsKept
  <2>1. CASE orders' = orders
    BY <2>1, SameRows DEF TypeOK
  <2>2. CASE orders' = Written(txRows[p], newStatus[p])
    BY <2>2, WrittenRows DEF TypeOK
  <2>3. QED
    BY <2>1, <2>2
<1>3. TypeOK'
  BY <1>1, <1>2, FinishTypes DEF TypeOK
<1>4. QED
  BY <1>1, <1>2, <1>3, FinishUnlocked, QuietStep

\* A cancelled transaction only loses its rows.
LEMMA TxCancelIInv == ASSUME IInv, NEW p \in Procs, TxCancel(p) PROVE IInv'
<1>. USE DEF IInv, TxCancel, cache, table, call
<1>1. UNCHANGED cache /\ RowsKept
  BY SameRows
<1>2. TypeOK'
  BY DEF TypeOK
<1>3. LockInv' /\ NewInv' /\ LoadInv' /\ PlansIndexed'
  BY DEF LockInv, NewInv, LoadInv, PlansIndexed
<1>4. QED
  BY <1>1, <1>2, <1>3, QuietStep

LEMMA PatchBeginIInv ==
    ASSUME IInv, NEW p \in Procs, NEW id \in CacheIds, NEW s \in Statuses,
           PatchBegin(p, id, s)
    PROVE  IInv'
<1>. USE DEF IInv, PatchBegin, Go, cache, table
<1>1. UNCHANGED cache /\ RowsKept
  BY SameRows
<1>2. TypeOK'
  BY DEF TypeOK, PatchPC
<1>3. LockInv' /\ NewInv' /\ LoadInv' /\ PlansIndexed'
  BY DEF LockInv, NewInv, LoadInv, PlansIndexed, LockPC, NewPC, PlanPC, TypeOK
<1>4. QED
  BY <1>1, <1>2, <1>3, QuietStep

LEMMA PatchUpdateIInv == ASSUME IInv, NEW p \in Procs, PatchUpdate(p) PROVE IInv'
<1>. USE DEF IInv, PatchUpdate, Go, cache, call
<1>1. /\ DOMAIN orders' = DOMAIN orders
      /\ orders' \in [DOMAIN orders' -> Row]
      /\ RowsKept
  BY WrittenRows DEF TypeOK
<1>2. TypeOK'
  BY <1>1 DEF TypeOK, PatchPC
<1>3. LockInv' /\ NewInv' /\ LoadInv' /\ PlansIndexed'
  BY <1>1 DEF LockInv, NewInv, LoadInv, PlansIndexed, LockPC, NewPC, PlanPC, TypeOK
<1>4. QED
  BY <1>1, <1>2, <1>3, QuietStep

LEMMA PatchFailIInv == ASSUME IInv, NEW p \in Procs, PatchFail(p) PROVE IInv'
<1>. USE DEF IInv, PatchFail, cache
<1>1. pc[p] \notin LockPC
  BY DEF LockPC, NewPC
<1>2. /\ DOMAIN orders' = DOMAIN orders
      /\ orders' \in [DOMAIN orders' -> Row]
      /\ RowsKept
      /\ unsure' \subseteq CacheIds
  <2>1. CASE UNCHANGED <<orders, unsure>>
    BY <2>1, SameRows DEF TypeOK
  <2>2. CASE /\ orders' = Written(todo[p], newStatus[p])
             /\ unsure' = unsure \cup todo[p]
    BY <2>2, WrittenRows DEF TypeOK
  <2>3. QED
    BY <2>1, <2>2
<1>3. TypeOK'
  BY <1>2, FinishTypes DEF TypeOK
<1>4. QED
  BY <1>1, <1>2, <1>3, FinishUnlocked, QuietStep

LEMMA MarkLockIInv == ASSUME IInv, NEW p \in Procs, MarkLock(p) PROVE IInv'
<1>. USE DEF IInv, MarkLock, Go, cache, table, call
<1>1. UNCHANGED cache /\ RowsKept
  BY SameRows
<1>2. TypeOK'
  BY DEF TypeOK, PlanPC, PatchPC
<1>3. LockInv'
  BY ParamAssumption DEF LockInv, LockPC, NewPC, TypeOK
<1>4. NewInv' /\ LoadInv' /\ PlansIndexed'
  BY DEF NewInv, LoadInv, PlansIndexed, NewPC, PlanPC, TypeOK
<1>5. QED
  BY <1>1, <1>2, <1>3, <1>4, QuietStep

LEMMA MarkIInv == ASSUME IInv, NEW p \in Procs, Mark(p) PROVE IInv'
<1>. USE DEF IInv, Mark, table
<1>1. PICK id \in todo[p] : /\ id \in DOMAIN orderIdUserId
                            /\ SetStatus(id, newStatus[p])
                            /\ todo' = [todo EXCEPT ![p] = @ \ {id}]
  OBVIOUS
<1>2. newStatus[p] \in Statuses
  BY DEF TypeOK
<1>3. /\ CacheInv'
      /\ orderIdUserId' = orderIdUserId
      /\ \A k \in DOMAIN orderIdUserId : /\ Slot(k).UserID = Slot(k)'.UserID
                                        /\ Slot(k).ProductID = Slot(k)'.ProductID
  BY <1>1, <1>2, IInvParts, SetStatusKeepsCache
<1>4. CachedRows'
  BY <1>3 DEF CachedRows
<1>5. TypeOK'
  BY <1>1, <1>3 DEF TypeOK, CacheInv, CacheTypeOK
<1>6. LockInv' /\ NewInv' /\ LoadInv'
  BY DEF LockInv, NewInv, LoadInv
<1>7. PlansIndexed'
  BY <1>1, <1>3 DEF PlansIndexed, TypeOK
<1>8. QED
  BY <1>3, <1>4, <1>5, <1>6, <1>7 DEF CacheInv

LEMMA MarkPanicIInv == ASSUME IInv, NEW p \in Procs, MarkPanic(p) PROVE IInv'
<1>. USE DEF IInv, MarkPanic, cache, table, call
<1>1. UNCHANGED cache /\ RowsKept
  BY SameRows
<1>2. TypeOK' /\ LockInv' /\ NewInv' /\ LoadInv' /\ PlansIndexed'
  BY DEF TypeOK, LockInv, NewInv, LoadInv, PlansIndexed
<1>3. QED
  BY <1>1, <1>2, QuietStep

LEMMA MarkEndIInv == ASSUME IInv, NEW p \in Procs, MarkEnd(p) PROVE IInv'
<1>. USE DEF IInv, MarkEnd, cache, table
<1>1. UNCHANGED cache /\ RowsKept
  BY SameRows
<1>2. lock = p /\ \A q \in Procs \ {p} : pc[q] \notin LockPC
  BY DEF LockInv, LockPC
<1>3. CASE pc[p] = "mark" /\ Finish(p)
  <2>1. TypeOK'
    BY <1>3, FinishTypes DEF TypeOK
  <2>2. /\ pc'[p] = "idle" /\ plan'[p] = {} /\ lock' = None
        /\ \A q \in Procs \ {p} : /\ pc'[q] = pc[q] /\ plan'[q] = plan[q] /\ todo'[q] = todo[q]
                                 /\ user'[q] = user[q] /\ batch'[q] = batch[q]
    BY <1>3, FinishTypes
  <2>3. LockInv'
    BY <1>2, <2>2, ParamAssumption DEF LockInv, LockPC, NewPC
  <2>4. NewInv' /\ PlansIndexed' /\ LoadInv'
    BY <2>2 DEF NewInv, PlansIndexed, LoadInv, NewPC, PlanPC
  <2>5. QED
    BY <1>1, <2>1, <2>3, <2>4, QuietStep
<1>4. CASE pc[p] = "tx_mark" /\ Go(p, "commit") /\ UNCHANGED call
  <2>. USE <1>4 DEF Go, call
  <2>1. TypeOK'
    BY DEF TypeOK, PlanPC
  <2>2. LockInv'
    BY <1>2, ParamAssumption DEF LockInv, LockPC, NewPC, TypeOK
  <2>3. NewInv' /\ PlansIndexed' /\ LoadInv'
    BY DEF NewInv, PlansIndexed, LoadInv, NewPC, PlanPC, TypeOK
  <2>4. QED
    BY <1>1, <2>1, <2>2, <2>3, QuietStep
<1>5. QED
  BY <1>3, <1>4

LEMMA StutterIInv == ASSUME IInv, UNCHANGED vars PROVE IInv'
<1>. USE DEF IInv, vars, cache, table, call
<1>1. UNCHANGED cache /\ RowsKept
  BY SameRows
<1>2. TypeOK' /\ LockInv' /\ NewInv' /\ LoadInv' /\ PlansIndexed'
  BY DEF TypeOK, LockInv, NewInv, LoadInv, PlansIndexed
<1>3. QED
  BY <1>1, <1>2, QuietStep

LEMMA NextIInv == IInv /\ [Next]_vars => IInv'
<1>. SUFFICES ASSUME IInv, [Next]_vars PROVE IInv'
  OBVIOUS
<1>1. CASE LoadOrder
  BY <1>1, LoadOrderIInv
<1>2. CASE Stopped \/ UNCHANGED vars
  BY <1>2, StutterIInv DEF Stopped
<1>3. ASSUME NEW p \in Procs, CreateMany(p) PROVE IInv'
  BY <1>3, CreateBeginIInv, InsertIInv, InsertFailIInv, CacheNewIInv, CreateEndIInv
     DEF CreateMany
<1>4. ASSUME NEW p \in Procs, DeliveryPlan(p) PROVE IInv'
  BY <1>4, PlanBeginIInv, PlanSelectIInv, PlanUpdateIInv, PlanFailIInv, CommitIInv,
     TxCancelIInv
     DEF DeliveryPlan
<1>5. ASSUME NEW p \in Procs, UpdateOrderStatus(p) PROVE IInv'
  BY <1>5, ParamAssumption, PatchBeginIInv, PatchUpdateIInv, PatchFailIInv
     DEF UpdateOrderStatus
<1>6. ASSUME NEW p \in Procs, MarkCache(p) PROVE IInv'
  BY <1>6, MarkLockIInv, MarkIInv, MarkPanicIInv, MarkEndIInv DEF MarkCache
<1>7. QED
  BY <1>1, <1>2, <1>3, <1>4, <1>5, <1>6 DEF Next

\* The inductive invariant holds in every behaviour.
THEOREM Invariance == Spec => []IInv
BY InitIInv, NextIInv, PTL DEF Spec
-----------------------------------------------------------------------------
(***************************************************************************)
(* What it gives                                                           *)
(***************************************************************************)

\* The cache, the table and the requests keep their shapes.
THEOREM TypeCorrect == Spec => []TypeOK
<1>1. IInv => TypeOK
  BY DEF IInv
<1>2. QED
  BY <1>1, Invariance, PTL

\* The index and the histories stay inverse to each other.
THEOREM IndexCorrect == Spec => []SlotsIndexed
<1>1. IInv => SlotsIndexed
  BY DEF IInv
<1>2. QED
  BY <1>1, Invariance, PTL

\* An order on offer is cached as "shipping", with the product it is weighed by.
THEOREM OfferCorrect == Spec => []ShippingCached
<1>1. IInv => ShippingCached
  BY DEF IInv
<1>2. QED
  BY <1>1, Invariance, PTL

\* A cached order with a real id agrees with its row on customer and product.
THEOREM HistoryCorrect == Spec => []CachedRows
<1>1. IInv => CachedRows
  BY DEF IInv
<1>2. QED
  BY <1>1, Invariance, PTL

\* A delivery plan never meets an order the cache does not know.
THEOREM PlansNeverPanic == Spec => []PlansIndexed
<1>1. IInv => PlansIndexed
  BY DEF IInv
<1>2. QED
  BY <1>1, Invariance, PTL
-----------------------------------------------------------------------------
(***************************************************************************)
(* A reader of a history without the lock                                  *)
(***************************************************************************)

\* Every cached order keeps its entry of the index.
EntriesKept ==
    \A id \in DOMAIN orderIdUserId :
        /\ id \in DOMAIN orderIdUserId'
        /\ orderIdUserId'[id] = orderIdUserId[id]

LEMMA NextEntriesKept == ASSUME IInv, [Next]_vars PROVE EntriesKept
<1>0. CacheInv
  BY DEF IInv, CacheInv, CacheTypeOK, TypeOK
<1>1. CASE LoadOrder
  <2>1. PICK k \in toLoad :
          UpdateOrder([OrderID |-> k, UserID |-> orders[k].user_id,
                       ProductID |-> orders[k].product_id,
                       ShippedStatus |-> orders[k].shipped_status])
    BY <1>1 DEF LoadOrder
  <2>. DEFINE o == [OrderID |-> k, UserID |-> orders[k].user_id,
                    ProductID |-> orders[k].product_id,
                    ShippedStatus |-> orders[k].shipped_status]
  <2>2. k \in DOMAIN orders /\ orders[k] \in Row /\ k \in Ids
    BY DEF IInv, LoadInv, TypeOK
  <2>3. o \in Order
    BY <2>2 DEF Order, Row, CacheIds
  <2>. HIDE DEF o
  <2>4. UpdateOrder(o)
    BY <2>1 DEF o
  <2>5. QED
    BY <1>0, <2>3, <2>4, UpdateOrderKeepsCache DEF EntriesKept
<1>2. ASSUME NEW p \in Procs, CacheNew(p) PROVE EntriesKept
  <2>. DEFINE o == [OrderID |-> 0, UserID |-> user[p],
                    ProductID |-> Head(batch[p]), ShippedStatus |-> ""]
  <2>1. UpdateOrder(o) /\ batch[p] # << >>
    BY <1>2 DEF CacheNew
  <2>2. user[p] \in Users /\ batch[p] \in Seq(Products)
    BY <1>2 DEF IInv, NewInv, NewPC, TypeOK, CacheNew
  <2>3. Head(batch[p]) \in Products
    BY <2>1, <2>2, HeadTailProperties
  <2>4. o \in Order
    BY <2>2, <2>3 DEF Order, CacheIds
  <2>. HIDE DEF o
  <2>5. QED
    BY <1>0, <2>1, <2>4, UpdateOrderKeepsCache DEF EntriesKept
<1>3. ASSUME NEW p \in Procs, Mark(p) PROVE EntriesKept
  <2>1. PICK id \in todo[p] : id \in DOMAIN orderIdUserId /\ SetStatus(id, newStatus[p])
    BY <1>3 DEF Mark
  <2>2. QED
    BY <2>1 DEF SetStatus, EntriesKept
<1>4. CASE UNCHANGED orderIdUserId
  BY <1>4 DEF EntriesKept
<1>5. ASSUME NEW p \in Procs, CreateMany(p) PROVE EntriesKept
  <2>1. CacheNew(p) \/ UNCHANGED orderIdUserId
    BY <1>5 DEF CreateMany, CreateBegin, Insert, InsertFail, CreateEnd, cache
  <2>2. QED
    BY <1>2, <1>4, <2>1
<1>6. ASSUME NEW p \in Procs, DeliveryPlan(p) \/ UpdateOrderStatus(p) PROVE EntriesKept
  <2>1. UNCHANGED orderIdUserId
    BY <1>6 DEF DeliveryPlan, PlanBegin, PlanSelect, PlanUpdate, PlanFail, Commit,
                CommitFail, TxCancel, UpdateOrderStatus, PatchBegin, PatchUpdate,
                PatchFail, cache
  <2>2. QED
    BY <1>4, <2>1
<1>7. ASSUME NEW p \in Procs, MarkCache(p) PROVE EntriesKept
  <2>1. Mark(p) \/ UNCHANGED orderIdUserId
    BY <1>7 DEF MarkCache, MarkLock, MarkPanic, MarkEnd, cache
  <2>2. QED
    BY <1>3, <1>4, <2>1
<1>8. CASE Stopped \/ UNCHANGED vars
  BY <1>4, <1>8 DEF Stopped, vars, cache
<1>9. QED
  BY <1>1, <1>5, <1>6, <1>7, <1>8 DEF Next

LEMMA NextRowsKept == ASSUME IInv, [Next]_vars PROVE RowsKept
<1>1. orders \in [DOMAIN orders -> Row] /\ newStatus \in [Procs -> Statuses]
  BY DEF IInv, TypeOK
<1>2. CASE UNCHANGED orders
  BY <1>2, SameRows
<1>3. ASSUME NEW p \in Procs, orders' = Inserted(user[p], batch[p]) PROVE RowsKept
  BY <1>3 DEF Inserted, RowsKept
<1>4. ASSUME NEW p \in Procs, NEW ids, orders' = Written(ids, newStatus[p]) PROVE RowsKept
  BY <1>1, <1>4, WrittenRows
<1>5. ASSUME NEW p \in Procs, CreateMany(p) PROVE RowsKept
  <2>1. orders' = Inserted(user[p], batch[p]) \/ UNCHANGED orders
    BY <1>5 DEF CreateMany, CreateBegin, Insert, InsertFail, CacheNew, CreateEnd, table
  <2>2. QED
    BY <1>2, <1>3, <2>1
<1>6. ASSUME NEW p \in Procs, DeliveryPlan(p) PROVE RowsKept
  <2>1. orders' = Written(txRows[p], newStatus[p]) \/ UNCHANGED orders
    BY <1>6 DEF DeliveryPlan, PlanBegin, PlanSelect, PlanUpdate, PlanFail, Commit,
                CommitFail, TxCancel, table
  <2>2. QED
    BY <1>2, <1>4, <2>1
<1>7. ASSUME NEW p \in Procs, UpdateOrderStatus(p) PROVE RowsKept
  <2>1. orders' = Written(todo[p], newStatus[p]) \/ UNCHANGED orders
    BY <1>7 DEF UpdateOrderStatus, PatchBegin, PatchUpdate, PatchFail, table
  <2>2. QED
    BY <1>2, <1>4, <2>1
<1>8. ASSUME NEW p \in Procs, MarkCache(p) PROVE RowsKept
  <2>1. UNCHANGED orders
    BY <1>8 DEF MarkCache, MarkLock, Mark, MarkPanic, MarkEnd, table
  <2>2. QED
    BY <1>2, <2>1
<1>9. CASE LoadOrder \/ Stopped \/ UNCHANGED vars
  <2>1. UNCHANGED orders
    BY <1>9 DEF LoadOrder, Stopped, vars, table
  <2>2. QED
    BY <1>2, <2>1
<1>10. QED
  BY <1>5, <1>6, <1>7, <1>8, <1>9 DEF Next

\* A history never gets shorter and a slot keeps the order it holds, with the
\* order's customer and product where its id is a real one: entries are kept,
\* and the order of an entry is that of its row, which is kept as well.
THEOREM HistoriesReadable == Spec => SlotsKeepOrders
<1>. DEFINE A == \A u \in Users : \A i \in 1..Len(userOrders[u]) :
                    /\ i <= Len(userOrders'[u])
                    /\ userOrders'[u][i].OrderID = userOrders[u][i].OrderID
                    /\ userOrders[u][i].OrderID # 0 =>
                          /\ userOrders'[u][i].UserID = userOrders[u][i].UserID
                          /\ userOrders'[u][i].ProductID = userOrders[u][i].ProductID
<1>1. ASSUME IInv, IInv', [Next]_vars PROVE A
  <2>1. EntriesKept /\ RowsKept
    BY <1>1, NextEntriesKept, NextRowsKept
  <2>2. ASSUME NEW u \in Users, NEW i \in 1..Len(userOrders[u])
        PROVE  /\ i <= Len(userOrders'[u])
               /\ userOrders'[u][i].OrderID = userOrders[u][i].OrderID
               /\ userOrders[u][i].OrderID # 0 =>
                     /\ userOrders'[u][i].UserID = userOrders[u][i].UserID
                     /\ userOrders'[u][i].ProductID = userOrders[u][i].ProductID
    <3>. DEFINE id == userOrders[u][i].OrderID
    <3>1. id \in DOMAIN orderIdUserId /\ orderIdUserId[id] = [UserID |-> u, Index |-> i]
      BY <1>1, UserSlice DEF IInv, SlotsIndexed
    <3>2. id \in DOMAIN orderIdUserId' /\ orderIdUserId'[id] = [UserID |-> u, Index |-> i]
      BY <2>1, <3>1 DEF EntriesKept
    <3>. HIDE DEF id
    <3>3. i <= Len(userOrders'[u]) /\ userOrders'[u][i].OrderID = id
      BY <1>1, <3>2 DEF IInv, SlotsIndexed, Slot
    <3>4. ASSUME id # 0
          PROVE  /\ userOrders'[u][i].UserID = userOrders[u][i].UserID
                 /\ userOrders'[u][i].ProductID = userOrders[u][i].ProductID
      <4>1. /\ id \in DOMAIN orders
            /\ userOrders[u][i].UserID = orders[id].user_id
            /\ userOrders[u][i].ProductID = orders[id].product_id
        BY <1>1, <3>1, <3>4 DEF IInv, CachedRows, Slot
      <4>2. /\ userOrders'[u][i].UserID = orders'[id].user_id
            /\ userOrders'[u][i].ProductID = orders'[id].product_id
        BY <1>1, <3>2, <3>4 DEF IInv, CachedRows, Slot
      <4>3. QED
        BY <2>1, <4>1, <4>2 DEF RowsKept
    <3>5. QED
      BY <3>3, <3>4 DEF id
  <2>3. QED
    BY <2>2
<1>2. IInv /\ IInv' /\ [Next]_vars => [A]_vars
  BY <1>1
<1>3. Spec => [][A]_vars
  BY <1>2, Invariance, PTL DEF Spec
<1>4. QED
  BY <1>3 DEF SlotsKeepOrders
=============================================================================
