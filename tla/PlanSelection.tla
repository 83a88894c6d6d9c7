--------------------------- MODULE PlanSelection ---------------------------
(***************************************************************************)
(* selectOrdersForDelivery (service/robot.go): which of the offered orders *)
(* a robot of a given capacity is told to carry.  A 0/1 knapsack, solved   *)
(* by a table while it is small and by halving the orders when it is not.  *)
(*                                                                         *)
(* A behaviour picks an input and computes one plan.  The orders come from *)
(* iterating a Go map, so any sequence of them may be the input.           *)
(***************************************************************************)
EXTENDS Naturals, FiniteSets, FiniteSetsExt, SequencesExt

CONSTANTS
    Weights, Values,  \* columns of products
    MaxOrders,        \* bound: orders on offer
    MaxCapacity,      \* bound: query parameter capacity
    Threshold         \* smallProblemThreshold

\* With weightless products the table gives up too early: findBestSetRecursive
\* may leave a half no capacity, and solveKnapsackIterative(_, 0) is empty.
\* The catalogue has none.
ASSUME SelectionAssumption ==
    /\ Weights \subseteq Nat \ {0} /\ Values \subseteq Nat
    /\ MaxOrders \in Nat /\ MaxCapacity \in Nat /\ Threshold \in Nat

Kind  == [Weight : Weights, Value : Values]
Order == [OrderID : 1..MaxOrders, Weight : Weights, Value : Values]

VARIABLES orders, capacity, plan
vars == <<orders, capacity, plan>>

\* What the orders of os at the places in S have together in one field.
Total(field, os, S) ==
    LET sum[i \in 0..Len(os)] ==
            IF i = 0 THEN 0 ELSE sum[i - 1] + (IF i \in S THEN os[i][field] ELSE 0)
    IN  sum[Len(os)]

Weight(os) == Total("Weight", os, DOMAIN os)
Value(os)  == Total("Value", os, DOMAIN os)

\* The orders a robot could carry one at a time, as they were offered.
Fitting(os, c) ==
    LET fit[i \in 0..Len(os)] ==
            IF i = 0 THEN << >>
            ELSE IF os[i].Weight <= c THEN Append(fit[i - 1], os[i]) ELSE fit[i - 1]
    IN  fit[Len(os)]
-----------------------------------------------------------------------------
\* One order more: at each capacity w it is taken if that is worth more.
Round(old, o) ==
    [w \in DOMAIN old |->
        IF o.Weight <= w /\ old[w] < old[w - o.Weight] + o.Value
        THEN old[w - o.Weight] + o.Value ELSE old[w]]

\* The table dp: the best values at 0..c, of no orders, the first one, ...
Rows(os, c) ==
    LET dp[i \in 0..Len(os)] ==
            IF i = 0 THEN [w \in 0..c |-> 0] ELSE Round(dp[i - 1], os[i])
    IN  dp

\* Mutant: w runs upwards, so an order can be counted twice.
CalculateMaxValuesUpwards(os, c) ==
    LET dp[i \in 0..Len(os)] ==
            IF i = 0 THEN [w \in 0..c |-> 0]
            ELSE LET o == os[i]
                     new[w \in 0..c] ==
                        IF o.Weight <= w /\ dp[i - 1][w] < new[w - o.Weight] + o.Value
                        THEN new[w - o.Weight] + o.Value ELSE dp[i - 1][w]
                 IN  new
    IN  dp[Len(os)]

\* calculateMaxValues overwrites a single row: w runs downwards, so a round
\* reads only the values the round before it left.
CalculateMaxValues(os, c) == Rows(os, c)[Len(os)]

\* The way back through the table, from each capacity.
Back(os, c) ==
    LET dp == Rows(os, c)
        back[i \in 0..Len(os)] ==
            [w \in 0..c |->
                IF i = 0 THEN << >>
                ELSE IF dp[i][w] # dp[i - 1][w]
                     THEN Append(back[i - 1][w - os[i].Weight], os[i])
                     ELSE back[i - 1][w]]
    IN  back[Len(os)]

SolveKnapsackIterative(os, c) ==
    IF os = << >> \/ c = 0 THEN << >> ELSE Back(os, c)[c]

\* wSplit: the first w at which the halves together are worth the most.
SplitAt(first, second, c) ==
    LET worth(w) == CalculateMaxValues(first, c)[w] + CalculateMaxValues(second, c)[c - w]
    IN  CHOOSE w \in 0..c : /\ \A v \in 0..c : worth(v) <= worth(w)
                            /\ \A v \in 0..(w - 1) : worth(v) < worth(w)

-----------------------------------------------------------------------------
\* A slice that findBestSetRecursive returns: a list of its own, or the places
\* from, ..., from + len - 1 of the array that all the calls share.
Own(list)         == [own |-> list, from |-> 0, len |-> 0]
Shared(from, len) == [own |-> << >>, from |-> from, len |-> len]

Listed(array, slice) ==
    IF slice.len = 0 THEN slice.own
    ELSE SubSeq(array, slice.from, slice.from + slice.len - 1)

\* append(s, t...): while the array has room it is written to, behind s.  (The
\* cells prunedOrders has behind the pruned orders are left out: no call writes
\* behind its own orders, AppendToWithin in PlanSelection_proofs.)
AppendTo(array, s, t) ==
    LET list == Listed(array, t)
        end  == s.from + s.len
    IN  IF s.len = 0 \/ end + Len(list) > Len(array) + 1
        THEN [array |-> array, slice |-> Own(Listed(array, s) \o list)]
        ELSE [array |-> [i \in DOMAIN array |->
                            IF end <= i /\ i < end + Len(list) THEN list[i - end + 1]
                            ELSE array[i]],
              slice |-> Shared(s.from, s.len + Len(list))]

\* Mutant: append(solution2, solution1...), which writes behind the call's own
\* orders.
FindStepSwapped(find, n, array, from, c) ==
    LET os  == SubSeq(array, from, from + n - 1)
        mid == n \div 2
        w   == SplitAt(SubSeq(os, 1, mid), SubSeq(os, mid + 1, n), c)
        solution1 == find[mid][array][from][w]
        solution2 == find[n - mid][solution1.array][from + mid][c - w]
    IN  IF n <= 1
        THEN [array |-> array,
              slice |-> IF n = 1 /\ array[from].Weight <= c THEN Shared(from, 1)
                        ELSE Own(<< >>)]
        ELSE IF n * c <= Threshold
        THEN [array |-> array, slice |-> Own(SolveKnapsackIterative(os, c))]
        ELSE AppendTo(solution2.array, solution2.slice, solution1.slice)

\* One call of findBestSetRecursive, for the n orders of the array that begin
\* at from; find answers the calls it makes.
FindStep(find, n, array, from, c) ==
    LET os  == SubSeq(array, from, from + n - 1)
        mid == n \div 2
        w   == SplitAt(SubSeq(os, 1, mid), SubSeq(os, mid + 1, n), c)
        solution1 == find[mid][array][from][w]
        solution2 == find[n - mid][solution1.array][from + mid][c - w]
    IN  IF n <= 1
        THEN [array |-> array,
              slice |-> IF n = 1 /\ array[from].Weight <= c THEN Shared(from, 1)
                        ELSE Own(<< >>)]
        ELSE IF n * c <= Threshold
        THEN [array |-> array, slice |-> Own(SolveKnapsackIterative(os, c))]
        ELSE AppendTo(solution2.array, solution1.slice, solution2.slice)

\* findBestSetRecursive.
FindBestSet[n \in Nat] ==
    [array \in Seq(Order) |-> [from \in Nat |-> [c \in Nat |->
        FindStep(FindBestSet, n, array, from, c)]]]

Plan(selected, os) ==
    [Orders |-> os, TotalWeight |-> Weight(selected), TotalValue |-> Value(selected)]

\* Mutant: the plan always lists what was offered, as the shortcut does.
SelectOrdersListsAll(os, c) ==
    LET pruned == Fitting(os, c)
        found  == FindBestSet[Len(pruned)][pruned][1][c]
        best   == Listed(found.array, found.slice)
    IN  Plan(IF Weight(pruned) <= c THEN pruned ELSE best, os)

\* When everything that fits alone also fits together, the plan lists all the
\* offered orders, not only those that fit.
SelectOrders(os, c) ==
    LET pruned == Fitting(os, c)
        found  == FindBestSet[Len(pruned)][pruned][1][c]
        best   == Listed(found.array, found.slice)
    IN  IF Weight(pruned) <= c THEN Plan(pruned, os) ELSE Plan(best, best)
-----------------------------------------------------------------------------
Offers == {[i \in DOMAIN ks |-> [OrderID |-> i, Weight |-> ks[i].Weight, Value |-> ks[i].Value]] :
              ks \in BoundedSeq(Kind, MaxOrders)}

Init ==
    /\ orders \in Offers
    /\ capacity \in 0..MaxCapacity
    /\ plan = Plan(<< >>, << >>)

Select ==
    /\ plan = Plan(<< >>, << >>) /\ orders # << >>
    /\ plan' = SelectOrders(orders, capacity)
    /\ UNCHANGED <<orders, capacity>>

Next == Select
Spec == Init /\ [][Next]_vars
-----------------------------------------------------------------------------
(* Properties *)

\* Reference: the most that any set of the offered orders within the capacity
\* is worth.
Optimum ==
    LET Carried == {S \in SUBSET DOMAIN orders : Total("Weight", orders, S) <= capacity}
    IN  Max({Total("Value", orders, S) : S \in Carried})

Planned == plan # Plan(<< >>, << >>)

\* The plan announces the best value the capacity allows, and a weight the
\* robot can carry, whichever of the two algorithms computed it and however
\* the halves divide the capacity.
PlanIsOptimal ==
    Planned => plan.TotalValue = Optimum /\ plan.TotalWeight <= capacity

\* The plan lists offered orders, each once and in the order they were
\* offered, and the announced totals are those of the listed orders that fit
\* the robot one by one.
TotalsAreOfListed ==
    Planned =>
        LET fitting == Fitting(plan.Orders, capacity)
            id(i)   == plan.Orders[i].OrderID
        IN  /\ ToSet(plan.Orders) \subseteq ToSet(orders)
            /\ \A j \in DOMAIN plan.Orders : \A i \in 1..(j - 1) : id(i) < id(j)
            /\ plan.TotalWeight = Weight(fitting)
            /\ plan.TotalValue = Value(fitting)

\* The regulation maximises the price "within the limit of weight".  What is
\* listed is too heavy for the robot only through the shortcut, which lists the
\* offered orders instead of the pruned ones: the pruned ones then fit together.
OverloadsAreUnpruned ==
    (Planned /\ Weight(plan.Orders) > capacity) =>
        plan.Orders = orders /\ Weight(Fitting(orders, capacity)) <= capacity
=============================================================================
