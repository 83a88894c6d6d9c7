----------------------- MODULE PlanSelection_proofs -----------------------
(***************************************************************************)
(* Proofs about PlanSelection: whatever is offered and whatever the robot  *)
(* carries, the announced value is the best one and the announced totals   *)
(* are those of the listed orders.                                         *)
(*                                                                         *)
(* The recursions of the algorithm are over the length of a sequence, and  *)
(* so is the argument.  Induction is stated over sets (the numbers, or the *)
(* sequences, that have a property) and follows from Nat being well        *)
(* founded.                                                                *)
(***************************************************************************)
EXTENDS PlanSelection, SequenceTheorems, WellFoundedInduction, TLAPS

(***************************************************************************)
(* Induction and recursion                                                 *)
(***************************************************************************)

\* Induction over the natural numbers.
LEMMA Induct ==
    ASSUME NEW T, 0 \in T, \A n \in Nat : n \in T => n + 1 \in T
    PROVE  \A n \in Nat : n \in T
<1> DEFINE Missing == {n \in Nat : n \notin T}
<1> SUFFICES ASSUME Missing # {} PROVE FALSE
  OBVIOUS
<1>1. IsWellFoundedOn(OpToRel(<, Nat), Nat)
  BY NatLessThanWellFounded
<1>2. PICK x \in Missing : \A y \in Missing : ~ (<<y, x>> \in OpToRel(<, Nat))
  <2>1. Missing \subseteq Nat
    OBVIOUS
  <2> HIDE DEF Missing
  <2> QED
    BY <1>1, <2>1, WFMin, Zenon
<1>3. ASSUME NEW y \in Missing, y < x
      PROVE  FALSE
  <2>1. <<y, x>> \in OpToRel(<, Nat)
    BY <1>3, Zenon DEF OpToRel
  <2> QED
    BY <1>2, <2>1, Zenon
<1>4. x # 0
  OBVIOUS
<1>5. x - 1 \in Nat /\ x - 1 < x /\ (x - 1) + 1 = x
  BY <1>4
<1>6. x - 1 \in T
  BY <1>3, <1>5
<1> QED
  BY <1>5, <1>6

\* A set that has the empty sequence and is closed under Append has them all.
LEMMA SeqInduct ==
    ASSUME NEW A, NEW T, << >> \in T,
           \A s \in Seq(A), a \in A : s \in T => Append(s, a) \in T
    PROVE  \A s \in Seq(A) : s \in T
<1> DEFINE Reached == {n \in Nat : \A s \in Seq(A) : Len(s) = n => s \in T}
<1>1. 0 \in Reached
  BY EmptySeq
<1>2. ASSUME NEW n \in Nat, n \in Reached
      PROVE  n + 1 \in Reached
  <2> SUFFICES ASSUME NEW s \in Seq(A), Len(s) = n + 1
               PROVE  s \in T
    OBVIOUS
  <2>1. s # << >>
    BY EmptySeq
  <2>2. PICK p \in Seq(A), a \in A : s = Append(p, a)
    BY <2>1, SequenceEmptyOrAppend
  <2>3. Len(p) = n
    BY <2>2, AppendProperties, LenProperties
  <2> QED
    BY <1>2, <2>2, <2>3
<1>3. \A n \in Nat : n \in Reached
  <2> HIDE DEF Reached
  <2> QED
    BY <1>1, <1>2, Induct, Zenon
<1> QED
  BY <1>3, LenProperties

\* f starts at x0 and takes the steps 1..n.
Follows(f, x0, step, n) == f[0] = x0 /\ \A i \in 1..n : f[i] = step[i][f[i - 1]]

\* The equations of a recursion over 1..n have a solution.
LEMMA Recursion ==
    ASSUME NEW X, NEW x0 \in X, NEW n \in Nat, NEW step \in [1..n -> [X -> X]]
    PROVE  \E f \in [0..n -> X] : Follows(f, x0, step, n)
<1> USE DEF Follows
<1> DEFINE Solved == {m \in Nat : m <= n =>
                        \E f \in [0..m -> X] : /\ f[0] = x0
                                               /\ \A i \in 1..m : f[i] = step[i][f[i - 1]]}
<1>1. 0 \in Solved
  <2> DEFINE f == [i \in 0..0 |-> x0]
  <2>1. f \in [0..0 -> X] /\ f[0] = x0 /\ \A i \in 1..0 : f[i] = step[i][f[i - 1]]
    OBVIOUS
  <2> HIDE DEF f
  <2> QED
    BY <2>1
<1>2. ASSUME NEW m \in Nat, m \in Solved
      PROVE  m + 1 \in Solved
  <2> SUFFICES ASSUME m + 1 <= n
               PROVE  \E f \in [0..(m + 1) -> X] : /\ f[0] = x0
                             /\ \A i \in 1..(m + 1) : f[i] = step[i][f[i - 1]]
    OBVIOUS
  <2>1. PICK f \in [0..m -> X] : /\ f[0] = x0
                                 /\ \A i \in 1..m : f[i] = step[i][f[i - 1]]
    BY <1>2
  <2> DEFINE g == [i \in 0..(m + 1) |-> IF i <= m THEN f[i] ELSE step[m + 1][f[m]]]
  <2>2. step[m + 1][f[m]] \in X
    OBVIOUS
  <2>3. g \in [0..(m + 1) -> X]
    BY <2>2
  <2>4. g[0] = x0
    BY <2>1
  <2>5. ASSUME NEW i \in 1..(m + 1)
        PROVE  g[i] = step[i][g[i - 1]]
    <3>1. CASE i <= m
      BY <2>1, <3>1
    <3>2. CASE i = m + 1
      BY <3>2
    <3> QED
      BY <3>1, <3>2
  <2> HIDE DEF g
  <2> QED
    BY <2>3, <2>4, <2>5
<1>3. n \in Solved
  <2> HIDE DEF Solved
  <2> QED
    BY <1>1, <1>2, Induct, Zenon
<1> QED
  BY <1>3

\* f and g start alike, and as long as they are alike they go on alike.
Alike(f, g, n) == f[0] = g[0] /\ \A i \in 1..n : f[i - 1] = g[i - 1] => f[i] = g[i]

\* Functions that start alike and go on alike are alike.
LEMMA SameRecursion ==
    ASSUME NEW n \in Nat, NEW f, NEW g, Alike(f, g, n)
    PROVE  \A i \in 0..n : f[i] = g[i]
<1> USE DEF Alike
<1> DEFINE Same == {m \in Nat : m <= n => f[m] = g[m]}
<1>1. 0 \in Same
  OBVIOUS
<1>2. ASSUME NEW m \in Nat, m \in Same
      PROVE  m + 1 \in Same
  <2> SUFFICES ASSUME m + 1 <= n
               PROVE  f[m + 1] = g[m + 1]
    OBVIOUS
  <2>1. m + 1 \in 1..n /\ (m + 1) - 1 = m
    OBVIOUS
  <2> QED
    BY <1>2, <2>1
<1>3. \A m \in Nat : m \in Same
  <2> HIDE DEF Same
  <2> QED
    BY <1>1, <1>2, Induct, Zenon
<1> QED
  BY <1>3

(***************************************************************************)
(* Totals                                                                  *)
(***************************************************************************)

Fields == {"Weight", "Value"}

\* What an order weighs and is worth are numbers, and no order is weightless.
LEMMA OrderNumbers ==
    ASSUME NEW o \in Order
    PROVE  /\ o.Weight \in Nat \ {0} /\ o.Value \in Nat
           /\ \A field \in Fields : o[field] \in Nat
BY SelectionAssumption DEF Order, Fields

\* The LET of Total, as equations.
TotalSums(f, field, os, S) ==
    /\ f[0] = 0
    /\ \A i \in 1..Len(os) : f[i] = f[i - 1] + (IF i \in S THEN os[i][field] ELSE 0)

\* There is such a sum, and Total is its last value.
LEMMA TotalEquations ==
    ASSUME NEW os \in Seq(Order), NEW field \in Fields, NEW S
    PROVE  \E f \in [0..Len(os) -> Nat] :
              TotalSums(f, field, os, S) /\ Total(field, os, S) = f[Len(os)]
<1> DEFINE n == Len(os)
           gain(i) == IF i \in S THEN os[i][field] ELSE 0
           step == [i \in 1..n |-> [x \in Nat |-> x + gain(i)]]
           Solves(f) == f = [i \in 0..n |-> IF i = 0 THEN 0 ELSE f[i - 1] + gain(i)]
           sum == CHOOSE f : Solves(f)
<1>1. n \in Nat
  BY LenProperties
<1>2. \A i \in 1..n : gain(i) \in Nat
  BY ElementOfSeq, OrderNumbers
<1>3. Total(field, os, S) = sum[n]
  BY Zenon DEF Total
<1> HIDE DEF n, gain
<1>4. step \in [1..n -> [Nat -> Nat]]
  BY <1>2
<1>5. PICK f \in [0..n -> Nat] : Follows(f, 0, step, n)
  <2> HIDE DEF step
  <2> QED
    BY <1>1, <1>4, Recursion
<1>6. f[0] = 0 /\ \A i \in 1..n : f[i] = f[i - 1] + gain(i)
  <2>1. ASSUME NEW i \in 1..n PROVE f[i] = f[i - 1] + gain(i)
    <3>1. f[i - 1] \in Nat
      BY <1>1
    <3> QED
      BY <1>5, <3>1 DEF Follows
  <2> QED
    BY <1>5, <2>1 DEF Follows
<1>7. Solves(f)
  BY <1>1, <1>6
<1>8. Solves(sum)
  <2> HIDE DEF Solves
  <2> QED
    BY <1>7, Zenon
<1>9. sum[0] = 0 /\ \A i \in 1..n : sum[i] = sum[i - 1] + gain(i)
  <2> HIDE DEF sum
  <2> QED
    BY <1>1, <1>8
<1>10. \A i \in 0..n : sum[i] = f[i]
  <2> HIDE DEF sum
  <2>1. Alike(sum, f, n)
    BY <1>6, <1>9 DEF Alike
  <2> QED
    BY <1>1, <2>1, SameRecursion
<1>11. Total(field, os, S) = f[n]
  BY <1>1, <1>3, <1>10
<1>12. TotalSums(f, field, os, S)
  BY <1>6 DEF n, gain, TotalSums
<1> QED
  BY <1>11, <1>12 DEF n

\* A total is a number.
LEMMA TotalNat ==
    ASSUME NEW os \in Seq(Order), NEW field \in Fields, NEW S
    PROVE  Total(field, os, S) \in Nat
BY TotalEquations, LenProperties

\* Of no orders there is no total.
LEMMA TotalEmpty ==
    ASSUME NEW field \in Fields, NEW S
    PROVE  Total(field, << >>, S) = 0
<1>1. << >> \in Seq(Order) /\ Len(<< >>) = 0
  BY EmptySeq
<1>2. PICK f \in [0..Len(<< >>) -> Nat] :
          TotalSums(f, field, << >>, S) /\ Total(field, << >>, S) = f[Len(<< >>)]
  BY <1>1, TotalEquations, Zenon
<1> QED
  BY <1>1, <1>2 DEF TotalSums

\* What o adds to a total at place i.
Gain(field, o, i, S) == IF i \in S THEN o[field] ELSE 0

\* One order more adds its own field, if its place is chosen.
LEMMA TotalAppend ==
    ASSUME NEW os \in Seq(Order), NEW o \in Order, NEW field \in Fields, NEW S
    PROVE  Total(field, Append(os, o), S) =
              Total(field, os, S) + Gain(field, o, Len(os) + 1, S)
<1> USE DEF Gain
<1> DEFINE n == Len(os)
           ps == Append(os, o)
<1>1. /\ n \in Nat /\ ps \in Seq(Order) /\ Len(ps) = n + 1
      /\ \A i \in 1..n : ps[i] = os[i]
      /\ ps[n + 1] = o
  BY LenProperties, AppendProperties
<1>2. PICK f \in [0..n -> Nat] : TotalSums(f, field, os, S) /\ Total(field, os, S) = f[n]
  BY TotalEquations
<1> HIDE DEF ps
<1>3. PICK g \in [0..(n + 1) -> Nat] :
              TotalSums(g, field, ps, S) /\ Total(field, ps, S) = g[n + 1]
  BY <1>1, TotalEquations
<1>4. \A i \in 0..n : f[i] = g[i]
  <2>1. ASSUME NEW i \in 1..n PROVE f[i - 1] = g[i - 1] => f[i] = g[i]
    <3>1. f[i] = f[i - 1] + (IF i \in S THEN os[i][field] ELSE 0)
      BY <1>2 DEF TotalSums
    <3>2. i \in 1..Len(ps)
      BY <1>1
    <3>3. g[i] = g[i - 1] + (IF i \in S THEN ps[i][field] ELSE 0)
      BY <1>3, <3>2 DEF TotalSums
    <3> QED
      BY <1>1, <3>1, <3>3
  <2>2. Alike(f, g, n)
    BY <1>2, <1>3, <2>1 DEF Alike, TotalSums
  <2>3. n \in Nat
    BY <1>1
  <2> HIDE DEF n
  <2> QED
    BY <2>2, <2>3, SameRecursion, Zenon
<1>5. g[n + 1] = g[n] + (IF n + 1 \in S THEN o[field] ELSE 0)
  <2>1. n + 1 \in 1..Len(ps) /\ (n + 1) - 1 = n
    BY <1>1
  <2> QED
    BY <1>1, <1>3, <2>1 DEF TotalSums
<1>6. f[n] = g[n]
  BY <1>1, <1>4
<1> QED
  BY <1>2, <1>3, <1>5, <1>6 DEF ps

\* S and U have the same places in 1..n.
Agree(S, U, n) == \A i \in 1..n : i \in S <=> i \in U

\* A total depends on the chosen places of the sequence only.
LEMMA TotalAgree ==
    ASSUME NEW os \in Seq(Order), NEW field \in Fields, NEW S, NEW U, Agree(S, U, Len(os))
    PROVE  Total(field, os, S) = Total(field, os, U)
<1> DEFINE T == {s \in Seq(Order) :
                    Agree(S, U, Len(s)) => Total(field, s, S) = Total(field, s, U)}
<1>1. << >> \in T
  <2>1. << >> \in Seq(Order)
    BY EmptySeq
  <2> QED
    BY <2>1, TotalEmpty
<1>2. ASSUME NEW s \in Seq(Order), NEW o \in Order, s \in T
      PROVE  Append(s, o) \in T
  <2>1. /\ Append(s, o) \in Seq(Order)
        /\ Len(Append(s, o)) = Len(s) + 1
        /\ Len(s) \in Nat
    BY AppendProperties, LenProperties
  <2>2. SUFFICES ASSUME Agree(S, U, Len(s) + 1)
                 PROVE  Total(field, Append(s, o), S) = Total(field, Append(s, o), U)
    BY <2>1
  <2>3. Agree(S, U, Len(s)) /\ (Len(s) + 1 \in S <=> Len(s) + 1 \in U)
    BY <2>1, <2>2 DEF Agree
  <2>4. Total(field, s, S) = Total(field, s, U)
    BY <1>2, <2>3
  <2>5. /\ Total(field, Append(s, o), S) =
              Total(field, s, S) + Gain(field, o, Len(s) + 1, S)
        /\ Total(field, Append(s, o), U) =
              Total(field, s, U) + Gain(field, o, Len(s) + 1, U)
    BY TotalAppend
  <2> QED
    BY <2>3, <2>4, <2>5 DEF Gain
<1>3. \A s \in Seq(Order) : s \in T
  <2> HIDE DEF T
  <2> QED
    BY <1>1, <1>2, SeqInduct, Zenon
<1> QED
  BY <1>3

\* No choice has more than all the places have.
LEMMA TotalBound ==
    ASSUME NEW os \in Seq(Order), NEW field \in Fields, NEW S
    PROVE  Total(field, os, S) <= Total(field, os, DOMAIN os)
<1> DEFINE T == {s \in Seq(Order) : Total(field, s, S) <= Total(field, s, DOMAIN s)}
<1>1. << >> \in T
  <2>1. << >> \in Seq(Order)
    BY EmptySeq
  <2> QED
    BY <2>1, TotalEmpty
<1>2. ASSUME NEW s \in Seq(Order), NEW o \in Order, s \in T
      PROVE  Append(s, o) \in T
  <2> DEFINE n == Len(s)
             t == Append(s, o)
  <2>1. /\ t \in Seq(Order) /\ n \in Nat /\ DOMAIN s = 1..n /\ DOMAIN t = 1..(n + 1)
    BY AppendProperties, LenProperties
  <2>2. Agree(DOMAIN s, DOMAIN t, n)
    BY <2>1 DEF Agree
  <2>3. Total(field, s, DOMAIN s) = Total(field, s, DOMAIN t)
    BY <2>2, TotalAgree
  <2>4. /\ Total(field, t, S) = Total(field, s, S) + Gain(field, o, n + 1, S)
        /\ Total(field, t, DOMAIN t) =
              Total(field, s, DOMAIN t) + Gain(field, o, n + 1, DOMAIN t)
    BY TotalAppend
  <2>5. n + 1 \in DOMAIN t
    BY <2>1
  <2>6. /\ Total(field, s, S) \in Nat /\ Total(field, s, DOMAIN s) \in Nat
        /\ o[field] \in Nat
    BY TotalNat, OrderNumbers
  <2>7. Total(field, t, S) <= Total(field, t, DOMAIN t)
    <3> HIDE DEF t, n
    <3> QED
      BY <1>2, <2>3, <2>4, <2>5, <2>6 DEF Gain
  <2> QED
    BY <2>1, <2>7
<1>3. \A s \in Seq(Order) : s \in T
  <2> HIDE DEF T
  <2> QED
    BY <1>1, <1>2, SeqInduct, Zenon
<1> QED
  BY <1>3

\* Weight and value of one order more.
LEMMA WeightAppend ==
    ASSUME NEW os \in Seq(Order), NEW o \in Order
    PROVE  /\ Weight(Append(os, o)) = Weight(os) + o.Weight
           /\ Value(Append(os, o)) = Value(os) + o.Value
<1> DEFINE n == Len(os)
           t == Append(os, o)
<1>1. /\ t \in Seq(Order) /\ n \in Nat /\ DOMAIN os = 1..n /\ DOMAIN t = 1..(n + 1)
  BY AppendProperties, LenProperties
<1>2. Agree(DOMAIN os, DOMAIN t, n)
  BY <1>1 DEF Agree
<1>3. n + 1 \in DOMAIN t
  BY <1>1
<1>4. ASSUME NEW field \in Fields
      PROVE  Total(field, t, DOMAIN t) = Total(field, os, DOMAIN os) + o[field]
  <2>1. Total(field, os, DOMAIN os) = Total(field, os, DOMAIN t)
    BY <1>2, TotalAgree
  <2>2. Total(field, t, DOMAIN t) =
            Total(field, os, DOMAIN t) + Gain(field, o, n + 1, DOMAIN t)
    BY TotalAppend
  <2> QED
    BY <1>3, <2>1, <2>2 DEF Gain
<1>5. "Weight" \in Fields /\ "Value" \in Fields
  BY DEF Fields
<1> HIDE DEF t
<1>6. Weight(t) = Weight(os) + o["Weight"] /\ Value(t) = Value(os) + o["Value"]
  BY <1>4, <1>5 DEF Weight, Value
<1> QED
  BY <1>6 DEF t

\* No orders weigh nothing and are worth nothing.
LEMMA WeightEmpty == Weight(<< >>) = 0 /\ Value(<< >>) = 0
BY TotalEmpty DEF Weight, Value, Fields

\* Weight and value are numbers.
LEMMA WeightNat ==
    ASSUME NEW os \in Seq(Order)
    PROVE  Weight(os) \in Nat /\ Value(os) \in Nat
BY TotalNat DEF Weight, Value, Fields

\* The places of a concatenation: those of os in S, those of ps in U.
Places(R, S, U, m, n) ==
    /\ \A i \in 1..m : i \in R <=> i \in S
    /\ \A j \in 1..n : m + j \in R <=> j \in U

\* A choice of places of a concatenation is a choice of each part.
LEMMA TotalConcat ==
    ASSUME NEW os \in Seq(Order), NEW ps \in Seq(Order), NEW field \in Fields,
           NEW R, NEW S, NEW U, Places(R, S, U, Len(os), Len(ps))
    PROVE  Total(field, os \o ps, R) = Total(field, os, S) + Total(field, ps, U)
<1> DEFINE m == Len(os)
           T == {s \in Seq(Order) : Places(R, S, U, m, Len(s)) =>
                    Total(field, os \o s, R) = Total(field, os, S) + Total(field, s, U)}
<1>0. m \in Nat
  BY LenProperties
<1>1. << >> \in T
  <2>1. << >> \in Seq(Order) /\ os \o << >> = os
    BY EmptySeq, ConcatEmptySeq
  <2>2. SUFFICES ASSUME Places(R, S, U, m, Len(<< >>))
                 PROVE  Total(field, os, R) = Total(field, os, S) + Total(field, << >>, U)
    BY <2>1
  <2>3. Agree(R, S, m)
    BY <2>2 DEF Places, Agree
  <2>4. Total(field, os, R) = Total(field, os, S) /\ Total(field, os, S) \in Nat
    BY <2>3, TotalAgree, TotalNat
  <2> QED
    BY <2>4, TotalEmpty
<1>2. ASSUME NEW s \in Seq(Order), NEW o \in Order, s \in T
      PROVE  Append(s, o) \in T
  <2> DEFINE n == Len(s)
             t == Append(s, o)
  <2>1. t \in Seq(Order) /\ n \in Nat /\ Len(t) = n + 1
    BY AppendProperties, LenProperties
  <2>2. SUFFICES ASSUME Places(R, S, U, m, n + 1)
                 PROVE  Total(field, os \o t, R) = Total(field, os, S) + Total(field, t, U)
    BY <2>1
  <2>3. Places(R, S, U, m, n) /\ (m + n + 1 \in R <=> n + 1 \in U)
    BY <1>0, <2>1, <2>2 DEF Places
  <2>4. Total(field, os \o s, R) = Total(field, os, S) + Total(field, s, U)
    BY <1>2, <2>3
  <2>5. os \o t = Append(os \o s, o) /\ os \o s \in Seq(Order) /\ Len(os \o s) = m + n
    <3>1. << o >> \in Seq(Order)
      OBVIOUS
    <3>2. t = s \o << o >> /\ os \o s \in Seq(Order) /\ Len(os \o s) = m + n
      BY AppendIsConcat, ConcatProperties
    <3>3. Append(os \o s, o) = (os \o s) \o << o >>
      BY <3>2, AppendIsConcat
    <3>4. (os \o s) \o << o >> = os \o (s \o << o >>)
      BY <3>1, ConcatAssociative
    <3> QED
      BY <3>2, <3>3, <3>4
  <2>6. /\ Total(field, t, U) = Total(field, s, U) + Gain(field, o, n + 1, U)
        /\ Total(field, Append(os \o s, o), R) =
              Total(field, os \o s, R) + Gain(field, o, m + n + 1, R)
    <3> DEFINE u == os \o s
    <3>1. Total(field, t, U) = Total(field, s, U) + Gain(field, o, n + 1, U)
      BY TotalAppend
    <3>2. u \in Seq(Order) /\ Len(u) + 1 = m + n + 1
      BY <1>0, <2>1, <2>5
    <3> HIDE DEF u
    <3>3. Total(field, Append(u, o), R) = Total(field, u, R) + Gain(field, o, Len(u) + 1, R)
      BY <3>2, TotalAppend
    <3>4. Gain(field, o, Len(u) + 1, R) = Gain(field, o, m + n + 1, R)
      BY <3>2
    <3> QED
      BY <3>1, <3>3, <3>4, Zenon DEF u
  <2>7. /\ Total(field, os, S) \in Nat /\ Total(field, s, U) \in Nat /\ o[field] \in Nat
    BY TotalNat, OrderNumbers
  <2> HIDE DEF t
  <2> QED
    BY <2>3, <2>4, <2>5, <2>6, <2>7 DEF Gain
<1>3. \A s \in Seq(Order) : s \in T
  <2> HIDE DEF T
  <2> QED
    BY <1>1, <1>2, SeqInduct, Zenon
<1> QED
  BY <1>3

\* Every order weighs something: what weighs nothing is nothing.
LEMMA NothingForNothing ==
    ASSUME NEW os \in Seq(Order), NEW S, Total("Weight", os, S) = 0
    PROVE  Total("Value", os, S) = 0
<1> DEFINE T == {s \in Seq(Order) :
                    Total("Weight", s, S) = 0 => Total("Value", s, S) = 0}
<1>0. "Weight" \in Fields /\ "Value" \in Fields
  BY DEF Fields
<1>1. << >> \in T
  <2>1. << >> \in Seq(Order)
    BY EmptySeq
  <2> QED
    BY <1>0, <2>1, TotalEmpty
<1>2. ASSUME NEW s \in Seq(Order), NEW o \in Order, s \in T
      PROVE  Append(s, o) \in T
  <2>1. Append(s, o) \in Seq(Order)
    BY AppendProperties
  <2>2. /\ Total("Weight", Append(s, o), S) =
              Total("Weight", s, S) + Gain("Weight", o, Len(s) + 1, S)
        /\ Total("Value", Append(s, o), S) =
              Total("Value", s, S) + Gain("Value", o, Len(s) + 1, S)
    BY <1>0, TotalAppend
  <2>3. /\ Total("Weight", s, S) \in Nat /\ Total("Value", s, S) \in Nat
        /\ o["Weight"] \in Nat \ {0} /\ o["Value"] \in Nat
    BY <1>0, TotalNat, OrderNumbers
  <2>4. SUFFICES ASSUME Total("Weight", Append(s, o), S) = 0
                 PROVE  Total("Value", Append(s, o), S) = 0
    BY <2>1
  <2>5. Len(s) + 1 \notin S /\ Total("Weight", s, S) = 0
    BY <2>2, <2>3, <2>4 DEF Gain
  <2> QED
    BY <1>2, <2>2, <2>5 DEF Gain
<1>3. \A s \in Seq(Order) : s \in T
  <2> HIDE DEF T
  <2> QED
    BY <1>1, <1>2, SeqInduct, Zenon
<1> QED
  BY <1>3

(***************************************************************************)
(* The best value, and what one order more does to it                      *)
(***************************************************************************)

\* v is the most that orders of os within the capacity c are worth.
Best(os, c, v) ==
    /\ \E S \in SUBSET Nat : Total("Weight", os, S) <= c /\ Total("Value", os, S) = v
    /\ \A S \in SUBSET Nat : Total("Weight", os, S) <= c => Total("Value", os, S) <= v

\* row holds the best values at the capacities 0..c.
BestRow(os, c, row) == row \in [0..c -> Nat] /\ \A w \in 0..c : Best(os, w, row[w])

\* A best value is a number.
LEMMA BestNat ==
    ASSUME NEW os \in Seq(Order), NEW c, NEW v, Best(os, c, v)
    PROVE  v \in Nat
BY TotalNat DEF Best, Fields

\* There is one best value.
LEMMA BestUnique ==
    ASSUME NEW os \in Seq(Order), NEW c, NEW v, NEW u, Best(os, c, v), Best(os, c, u)
    PROVE  v = u
<1>1. v \in Nat /\ u \in Nat
  BY BestNat
<1>2. v <= u /\ u <= v
  BY DEF Best
<1> QED
  BY <1>1, <1>2

\* Of no orders the best value is 0.
LEMMA BestEmpty ==
    ASSUME NEW c \in Nat
    PROVE  Best(<< >>, c, 0)
<1>1. \A S \in SUBSET Nat : Total("Weight", << >>, S) = 0 /\ Total("Value", << >>, S) = 0
  BY TotalEmpty DEF Fields
<1>2. \E S \in SUBSET Nat : Total("Weight", << >>, S) <= c /\ Total("Value", << >>, S) = 0
  <2>1. {} \in SUBSET Nat /\ 0 <= c
    OBVIOUS
  <2>2. Total("Weight", << >>, {}) <= c /\ Total("Value", << >>, {}) = 0
    BY <1>1, <2>1
  <2> QED
    BY <2>1, <2>2
<1>3. ASSUME NEW S \in SUBSET Nat
      PROVE  Total("Value", << >>, S) <= 0
  <2>1. Total("Value", << >>, S) = 0
    BY <1>1
  <2> QED
    BY <2>1
<1> QED
  BY <1>2, <1>3 DEF Best

\* What a choice has, a choice from one order more has that leaves the order out.
LEMMA TotalWithout ==
    ASSUME NEW os \in Seq(Order), NEW o \in Order, NEW S \in SUBSET Nat
    PROVE  \E R \in SUBSET Nat : \A field \in Fields :
              Total(field, Append(os, o), R) = Total(field, os, S)
<1> DEFINE n == Len(os)
           R == S \cap (1..n)
<1>1. n \in Nat
  BY LenProperties
<1>2. Agree(R, S, n)
  BY DEF Agree
<1>3. n + 1 \notin R
  BY <1>1
<1>4. ASSUME NEW field \in Fields
      PROVE  Total(field, Append(os, o), R) = Total(field, os, S)
  <2>1. Total(field, os, R) = Total(field, os, S) /\ Total(field, os, S) \in Nat
    BY <1>2, TotalAgree, TotalNat
  <2>2. Total(field, Append(os, o), R) = Total(field, os, R) + Gain(field, o, n + 1, R)
    BY TotalAppend
  <2> QED
    BY <1>3, <2>1, <2>2 DEF Gain
<1> QED
  BY <1>4

\* What a choice has and the last order, a choice that takes the order has.
LEMMA TotalWith ==
    ASSUME NEW os \in Seq(Order), NEW o \in Order, NEW S \in SUBSET Nat
    PROVE  \E R \in SUBSET Nat : \A field \in Fields :
              Total(field, Append(os, o), R) = Total(field, os, S) + o[field]
<1> DEFINE n == Len(os)
           R == S \cup {n + 1}
<1>1. n \in Nat
  BY LenProperties
<1>2. Agree(R, S, n)
  BY <1>1 DEF Agree
<1>3. n + 1 \in R /\ R \in SUBSET Nat
  <2>1. n + 1 \in Nat
    BY <1>1
  <2> HIDE DEF n
  <2> QED
    BY <2>1
<1>4. ASSUME NEW field \in Fields
      PROVE  Total(field, Append(os, o), R) = Total(field, os, S) + o[field]
  <2>1. Total(field, os, R) = Total(field, os, S)
    BY <1>2, TotalAgree
  <2>2. Total(field, Append(os, o), R) = Total(field, os, R) + Gain(field, o, n + 1, R)
    BY TotalAppend
  <2> QED
    BY <1>3, <2>1, <2>2 DEF Gain
<1> QED
  BY <1>3, <1>4

\* An order that does not fit leaves the best value as it was.
LEMMA BestHeavier ==
    ASSUME NEW os \in Seq(Order), NEW o \in Order, NEW w \in Nat, NEW v,
           w < o.Weight, Best(os, w, v)
    PROVE  Best(Append(os, o), w, v)
<1> DEFINE t == Append(os, o)
<1>0. "Weight" \in Fields /\ "Value" \in Fields
  BY DEF Fields
<1>1. \E R \in SUBSET Nat : Total("Weight", t, R) <= w /\ Total("Value", t, R) = v
  <2>1. PICK S \in SUBSET Nat : Total("Weight", os, S) <= w /\ Total("Value", os, S) = v
    BY DEF Best
  <2>2. PICK R \in SUBSET Nat : \A field \in Fields : Total(field, t, R) = Total(field, os, S)
    BY TotalWithout
  <2> QED
    BY <1>0, <2>1, <2>2
<1>2. ASSUME NEW S \in SUBSET Nat, Total("Weight", t, S) <= w
      PROVE  Total("Value", t, S) <= v
  <2>1. /\ Total("Weight", t, S) =
              Total("Weight", os, S) + Gain("Weight", o, Len(os) + 1, S)
        /\ Total("Value", t, S) =
              Total("Value", os, S) + Gain("Value", o, Len(os) + 1, S)
    BY <1>0, TotalAppend
  <2>2. /\ Total("Weight", os, S) \in Nat /\ Total("Value", os, S) \in Nat
        /\ o["Weight"] \in Nat /\ o["Value"] \in Nat
    BY <1>0, TotalNat, OrderNumbers
  <2> HIDE DEF t
  <2>3. Len(os) + 1 \notin S
    BY <1>2, <2>1, <2>2 DEF Gain
  <2>4. Total("Weight", os, S) <= w
    BY <1>2, <2>1, <2>2, <2>3 DEF Gain
  <2>5. Total("Value", os, S) <= v
    BY <2>4 DEF Best
  <2> QED
    BY <2>1, <2>2, <2>3, <2>5 DEF Gain
<1> QED
  BY <1>1, <1>2 DEF Best

\* One round turns a row that is best for some orders into one that is best
\* for these and one more.
LEMMA BestStep ==
    ASSUME NEW os \in Seq(Order), NEW o \in Order, NEW c \in Nat, NEW row,
           BestRow(os, c, row)
    PROVE  BestRow(Append(os, o), c, Round(row, o))
<1> DEFINE t == Append(os, o)
           new == Round(row, o)
<1>0. /\ "Weight" \in Fields /\ "Value" \in Fields
      /\ o["Weight"] \in Nat /\ o["Value"] \in Nat
  BY OrderNumbers DEF Fields
<1>1. row \in [0..c -> Nat]
  BY DEF BestRow
<1>2. ASSUME NEW w \in 0..c, o.Weight <= w
      PROVE  w - o.Weight \in 0..c
  BY <1>0, <1>2
<1>3. ASSUME NEW w \in 0..c
      PROVE  /\ new[w] \in Nat
             /\ row[w] <= new[w]
             /\ o.Weight <= w => row[w - o.Weight] + o.Value <= new[w]
             /\ \/ new[w] = row[w]
                \/ o.Weight <= w /\ new[w] = row[w - o.Weight] + o.Value
  <2>1. new[w] = IF o.Weight <= w /\ row[w] < row[w - o.Weight] + o.Value
                 THEN row[w - o.Weight] + o.Value ELSE row[w]
    BY <1>1 DEF Round
  <2> HIDE DEF new
  <2>2. row[w] \in Nat
    BY <1>1
  <2>3. CASE o.Weight <= w
    <3>1. row[w - o.Weight] \in Nat
      BY <1>1, <1>2, <2>3
    <3> QED
      BY <1>0, <2>1, <2>2, <2>3, <3>1
  <2>4. CASE ~ (o.Weight <= w)
    BY <2>1, <2>2, <2>4
  <2> QED
    BY <2>3, <2>4
<1>4. new \in [0..c -> Nat]
  BY <1>1, <1>3 DEF Round
<1> HIDE DEF new
<1>5. ASSUME NEW w \in 0..c
      PROVE  \E R \in SUBSET Nat : Total("Weight", t, R) <= w /\ Total("Value", t, R) = new[w]
  <2>1. CASE new[w] = row[w]
    <3>1. PICK S \in SUBSET Nat : Total("Weight", os, S) <= w /\ Total("Value", os, S) = row[w]
      BY DEF BestRow, Best
    <3>2. PICK R \in SUBSET Nat : \A field \in Fields : Total(field, t, R) = Total(field, os, S)
      BY TotalWithout
    <3> QED
      BY <1>0, <2>1, <3>1, <3>2
  <2>2. CASE o.Weight <= w /\ new[w] = row[w - o.Weight] + o.Value
    <3>1. Best(os, w - o.Weight, row[w - o.Weight])
      BY <1>2, <2>2 DEF BestRow
    <3>2. PICK S \in SUBSET Nat : /\ Total("Weight", os, S) <= w - o.Weight
                                  /\ Total("Value", os, S) = row[w - o.Weight]
      BY <3>1 DEF Best
    <3>3. PICK R \in SUBSET Nat :
              \A field \in Fields : Total(field, t, R) = Total(field, os, S) + o[field]
      BY TotalWith
    <3>4. Total("Weight", os, S) \in Nat
      BY <1>0, TotalNat
    <3>5. Total("Weight", t, R) = Total("Weight", os, S) + o.Weight
      BY <1>0, <3>3
    <3>6. Total("Value", t, R) = Total("Value", os, S) + o.Value
      BY <1>0, <3>3
    <3>7. Total("Weight", t, R) <= w
      BY <1>0, <3>2, <3>4, <3>5
    <3> QED
      BY <2>2, <3>2, <3>6, <3>7
  <2> QED
    BY <1>3, <2>1, <2>2
<1>6. ASSUME NEW w \in 0..c, NEW S \in SUBSET Nat, Total("Weight", t, S) <= w
      PROVE  Total("Value", t, S) <= new[w]
  <2>1. /\ Total("Weight", t, S) =
              Total("Weight", os, S) + Gain("Weight", o, Len(os) + 1, S)
        /\ Total("Value", t, S) =
              Total("Value", os, S) + Gain("Value", o, Len(os) + 1, S)
    BY <1>0, TotalAppend
  <2>2. Total("Weight", os, S) \in Nat /\ Total("Value", os, S) \in Nat
    BY <1>0, TotalNat
  <2> HIDE DEF t
  <2>3. CASE Len(os) + 1 \in S
    <3>1. Total("Weight", t, S) = Total("Weight", os, S) + o.Weight
      BY <2>1, <2>3 DEF Gain
    <3>2. Total("Value", t, S) = Total("Value", os, S) + o.Value
      BY <2>1, <2>3 DEF Gain
    <3>3. o.Weight <= w /\ Total("Weight", os, S) <= w - o.Weight
      BY <1>0, <1>6, <2>2, <3>1
    <3>4. Best(os, w - o.Weight, row[w - o.Weight]) /\ row[w - o.Weight] \in Nat
      BY <1>1, <1>2, <3>3 DEF BestRow
    <3>5. Total("Value", os, S) <= row[w - o.Weight]
      BY <3>3, <3>4 DEF Best
    <3>6. row[w - o.Weight] + o.Value <= new[w] /\ new[w] \in Nat
      BY <1>3, <3>3
    <3> QED
      BY <1>0, <2>2, <3>2, <3>4, <3>5, <3>6
  <2>4. CASE Len(os) + 1 \notin S
    <3>1. Total("Weight", t, S) = Total("Weight", os, S)
      BY <2>1, <2>2, <2>4 DEF Gain
    <3>2. Total("Value", t, S) = Total("Value", os, S)
      BY <2>1, <2>2, <2>4 DEF Gain
    <3>3. Total("Value", os, S) <= row[w]
      BY <1>6, <3>1 DEF BestRow, Best
    <3> QED
      BY <1>1, <1>3, <2>2, <3>2, <3>3
  <2> QED
    BY <2>3, <2>4
<1> QED
  BY <1>4, <1>5, <1>6 DEF new, BestRow, Best

(***************************************************************************)
(* The table                                                               *)
(***************************************************************************)

Zeros(c) == [w \in 0..c |-> 0]

\* A round makes a row of a row.
LEMMA RoundType ==
    ASSUME NEW o \in Order, NEW c \in Nat, NEW row \in [0..c -> Nat]
    PROVE  Round(row, o) \in [0..c -> Nat]
<1> SUFFICES ASSUME NEW w \in 0..c
             PROVE  (IF o.Weight <= w /\ row[w] < row[w - o.Weight] + o.Value
                     THEN row[w - o.Weight] + o.Value ELSE row[w]) \in Nat
  BY DEF Round
<1>1. o.Weight \in Nat /\ o.Value \in Nat
  BY OrderNumbers
<1>2. CASE o.Weight <= w
  <2>1. row[w - o.Weight] \in Nat
    BY <1>1, <1>2
  <2> QED
    BY <1>1, <2>1
<1>3. CASE ~ (o.Weight <= w)
  BY <1>3
<1> QED
  BY <1>2, <1>3

\* The LET of Rows, as equations.
TableRounds(dp, os, c) ==
    dp[0] = Zeros(c) /\ \A i \in 1..Len(os) : dp[i] = Round(dp[i - 1], os[i])

\* The table is built by these rounds, each row of numbers.
LEMMA RowsEquations ==
    ASSUME NEW os \in Seq(Order), NEW c \in Nat
    PROVE  Rows(os, c) \in [0..Len(os) -> [0..c -> Nat]] /\ TableRounds(Rows(os, c), os, c)
<1> DEFINE n == Len(os)
           X == [0..c -> Nat]
           step == [i \in 1..n |-> [x \in X |-> Round(x, os[i])]]
           Solves(f) == f = [i \in 0..n |-> IF i = 0 THEN [w \in 0..c |-> 0]
                                             ELSE Round(f[i - 1], os[i])]
           dp == CHOOSE f : Solves(f)
<1>1. n \in Nat
  BY LenProperties
<1>2. \A i \in 1..n : \A x \in X : Round(x, os[i]) \in X
  BY ElementOfSeq, RoundType
<1>3. Rows(os, c) = dp
  BY Zenon DEF Rows
<1>4. Zeros(c) \in X
  BY DEF Zeros
<1> HIDE DEF n, X
<1>5. step \in [1..n -> [X -> X]]
  BY <1>2
<1>6. PICK f \in [0..n -> X] : Follows(f, Zeros(c), step, n)
  <2> HIDE DEF step
  <2> QED
    BY <1>1, <1>4, <1>5, Recursion
<1>7. f[0] = Zeros(c) /\ \A i \in 1..n : f[i] = Round(f[i - 1], os[i])
  <2>1. ASSUME NEW i \in 1..n PROVE f[i] = Round(f[i - 1], os[i])
    <3>1. f[i - 1] \in X
      BY <1>1
    <3> QED
      BY <1>6, <3>1 DEF Follows
  <2> QED
    BY <1>6, <2>1 DEF Follows
<1>8. Solves(f)
  BY <1>1, <1>7 DEF Zeros
<1>9. Solves(dp)
  <2> HIDE DEF Solves
  <2> QED
    BY <1>8, Zenon
<1>10. dp[0] = Zeros(c) /\ \A i \in 1..n : dp[i] = Round(dp[i - 1], os[i])
  <2> HIDE DEF dp
  <2>1. dp[0] = Zeros(c)
    <3>1. 0 \in 0..n
      BY <1>1
    <3> QED
      BY <1>9, <3>1 DEF Zeros
  <2>2. ASSUME NEW i \in 1..n PROVE dp[i] = Round(dp[i - 1], os[i])
    <3>1. i \in 0..n /\ i # 0
      BY <1>1
    <3> QED
      BY <1>9, <3>1
  <2> QED
    BY <2>1, <2>2
<1>11. \A i \in 0..n : dp[i] = f[i]
  <2> HIDE DEF dp
  <2>1. Alike(dp, f, n)
    BY <1>7, <1>10 DEF Alike
  <2> QED
    BY <1>1, <2>1, SameRecursion
<1>12. dp \in [0..n -> X]
  <2> HIDE DEF dp
  <2>1. \A i \in 0..n : dp[i] \in X
    BY <1>11
  <2>2. dp = [i \in 0..n |-> dp[i]]
    BY <1>9
  <2> QED
    BY <2>1, <2>2
<1>13. TableRounds(dp, os, c)
  <2> HIDE DEF dp
  <2> QED
    BY <1>10 DEF TableRounds, n
<1> HIDE DEF dp
<1> QED
  BY <1>3, <1>12, <1>13 DEF n, X

\* The table of more orders begins like the table of fewer.
LEMMA RowsPrefix ==
    ASSUME NEW os \in Seq(Order), NEW o \in Order, NEW c \in Nat
    PROVE  \A i \in 0..Len(os) : Rows(Append(os, o), c)[i] = Rows(os, c)[i]
<1> DEFINE n == Len(os)
           t == Append(os, o)
           f == Rows(os, c)
           g == Rows(t, c)
<1>1. /\ n \in Nat /\ t \in Seq(Order) /\ Len(t) = n + 1
      /\ \A i \in 1..n : t[i] = os[i]
  BY LenProperties, AppendProperties
<1>2. TableRounds(f, os, c)
  BY RowsEquations
<1>3. TableRounds(g, t, c)
  BY <1>1, RowsEquations
<1> HIDE DEF t, f, g
<1>4. ASSUME NEW i \in 1..n PROVE g[i - 1] = f[i - 1] => g[i] = f[i]
  <2>1. f[i] = Round(f[i - 1], os[i])
    BY <1>2 DEF TableRounds
  <2>2. i \in 1..Len(t)
    BY <1>1
  <2>3. g[i] = Round(g[i - 1], t[i])
    BY <1>3, <2>2 DEF TableRounds
  <2> QED
    BY <1>1, <2>1, <2>3
<1>5. Alike(g, f, n)
  BY <1>2, <1>3, <1>4 DEF Alike, TableRounds
<1>6. n \in Nat
  BY <1>1
<1> HIDE DEF n
<1>7. \A i \in 0..n : g[i] = f[i]
  BY <1>5, <1>6, SameRecursion, Zenon
<1> QED
  BY <1>7 DEF n, t, f, g

\* The row of no orders is zeros.
LEMMA CalculateMaxValuesEmpty ==
    ASSUME NEW c \in Nat
    PROVE  CalculateMaxValues(<< >>, c) = Zeros(c)
<1>1. << >> \in Seq(Order) /\ Len(<< >>) = 0
  BY EmptySeq
<1>2. TableRounds(Rows(<< >>, c), << >>, c)
  BY <1>1, RowsEquations
<1> QED
  BY <1>1, <1>2 DEF CalculateMaxValues, TableRounds

\* One order more is one round more.
LEMMA CalculateMaxValuesAppend ==
    ASSUME NEW os \in Seq(Order), NEW o \in Order, NEW c \in Nat
    PROVE  CalculateMaxValues(Append(os, o), c) = Round(CalculateMaxValues(os, c), o)
<1> DEFINE n == Len(os)
           t == Append(os, o)
<1>1. n \in Nat /\ t \in Seq(Order) /\ Len(t) = n + 1 /\ t[n + 1] = o
  BY LenProperties, AppendProperties
<1>2. Rows(t, c)[n] = Rows(os, c)[n]
  BY <1>1, RowsPrefix
<1> HIDE DEF t
<1>3. TableRounds(Rows(t, c), t, c)
  BY <1>1, RowsEquations
<1>4. n + 1 \in 1..Len(t) /\ (n + 1) - 1 = n
  BY <1>1
<1>5. Rows(t, c)[n + 1] = Round(Rows(t, c)[n], t[n + 1])
  BY <1>3, <1>4 DEF TableRounds
<1> QED
  BY <1>1, <1>2, <1>5 DEF CalculateMaxValues, t

\* calculateMaxValues finds the best value at every capacity.
LEMMA CalculateMaxValuesBest ==
    ASSUME NEW os \in Seq(Order), NEW c \in Nat
    PROVE  BestRow(os, c, CalculateMaxValues(os, c))
<1> DEFINE T == {s \in Seq(Order) : BestRow(s, c, CalculateMaxValues(s, c))}
<1>1. << >> \in T
  <2>1. << >> \in Seq(Order)
    BY EmptySeq
  <2>2. BestRow(<< >>, c, Zeros(c))
    BY BestEmpty DEF BestRow, Zeros
  <2> QED
    BY <2>1, <2>2, CalculateMaxValuesEmpty
<1>2. ASSUME NEW s \in Seq(Order), NEW o \in Order, s \in T
      PROVE  Append(s, o) \in T
  <2>1. Append(s, o) \in Seq(Order)
    BY AppendProperties
  <2>2. BestRow(Append(s, o), c, Round(CalculateMaxValues(s, c), o))
    BY <1>2, BestStep
  <2> QED
    BY <2>1, <2>2, CalculateMaxValuesAppend
<1>3. \A s \in Seq(Order) : s \in T
  <2> HIDE DEF T
  <2> QED
    BY <1>1, <1>2, SeqInduct, Zenon
<1> QED
  BY <1>3

(***************************************************************************)
(* Selections                                                              *)
(***************************************************************************)

Ascending(os) == \A j \in DOMAIN os : \A i \in 1..(j - 1) : os[i].OrderID < os[j].OrderID

\* r lists orders of os, in their order and no more than there are.
Picked(r, os) ==
    /\ ToSet(r) \subseteq ToSet(os)
    /\ Ascending(os) => Ascending(r)
    /\ Len(r) <= Len(os)

\* A concatenation lists what its parts list.
LEMMA ToSetConcat ==
    ASSUME NEW s \in Seq(Order), NEW t \in Seq(Order)
    PROVE  ToSet(s \o t) = ToSet(s) \cup ToSet(t)
<1> DEFINE m == Len(s)
           n == Len(t)
           u == s \o t
<1>1. m \in Nat /\ n \in Nat /\ DOMAIN s = 1..m /\ DOMAIN t = 1..n
  BY LenProperties
<1>2. u \in Seq(Order) /\ Len(u) = m + n
      /\ \A i \in 1..(m + n) : u[i] = IF i <= m THEN s[i] ELSE t[i - m]
  BY ConcatProperties
<1>3. DOMAIN u = 1..(m + n)
  BY <1>2, LenProperties
<1> HIDE DEF m, n, u
<1>4. ASSUME NEW i \in 1..(m + n)
      PROVE  u[i] \in ToSet(s) \cup ToSet(t)
  <2>1. CASE i <= m
    <3>1. i \in 1..m /\ u[i] = s[i]
      BY <1>1, <1>2, <2>1
    <3> QED
      BY <1>1, <3>1 DEF ToSet
  <2>2. CASE ~ (i <= m)
    <3>1. i - m \in 1..n /\ u[i] = t[i - m]
      BY <1>1, <1>2, <2>2
    <3> QED
      BY <1>1, <3>1 DEF ToSet
  <2> QED
    BY <2>1, <2>2
<1>5. ASSUME NEW i \in 1..m
      PROVE  s[i] \in ToSet(u)
  <2>1. i \in 1..(m + n) /\ i <= m
    BY <1>1
  <2> QED
    BY <1>2, <1>3, <2>1 DEF ToSet
<1>6. ASSUME NEW i \in 1..n
      PROVE  t[i] \in ToSet(u)
  <2>1. m + i \in 1..(m + n) /\ ~ (m + i <= m) /\ (m + i) - m = i
    BY <1>1
  <2> QED
    BY <1>2, <1>3, <2>1 DEF ToSet
<1> QED
  BY <1>1, <1>3, <1>4, <1>5, <1>6 DEF ToSet, u

\* A concatenation ascends if its parts do and the first lies below the second.
LEMMA AscendingConcat ==
    ASSUME NEW s \in Seq(Order), NEW t \in Seq(Order)
    PROVE  Ascending(s \o t) <=>
              /\ Ascending(s) /\ Ascending(t)
              /\ \A p \in ToSet(s), q \in ToSet(t) : p.OrderID < q.OrderID
<1> DEFINE m == Len(s)
           n == Len(t)
           u == s \o t
<1>1. m \in Nat /\ n \in Nat /\ DOMAIN s = 1..m /\ DOMAIN t = 1..n
  BY LenProperties
<1>2. u \in Seq(Order) /\ Len(u) = m + n
      /\ \A i \in 1..(m + n) : u[i] = IF i <= m THEN s[i] ELSE t[i - m]
  BY ConcatProperties
<1>3. DOMAIN u = 1..(m + n)
  BY <1>2, LenProperties
<1> HIDE DEF m, n, u
<1>4. ASSUME Ascending(u) PROVE Ascending(s)
  <2> SUFFICES ASSUME NEW j \in 1..m, NEW i \in 1..(j - 1)
               PROVE  s[i].OrderID < s[j].OrderID
    BY <1>1 DEF Ascending
  <2>1. j \in 1..(m + n) /\ i \in 1..(m + n) /\ i <= m /\ j <= m
    BY <1>1
  <2> QED
    BY <1>2, <1>3, <1>4, <2>1 DEF Ascending
<1>5. ASSUME Ascending(u) PROVE Ascending(t)
  <2> SUFFICES ASSUME NEW j \in 1..n, NEW i \in 1..(j - 1)
               PROVE  t[i].OrderID < t[j].OrderID
    BY <1>1 DEF Ascending
  <2>1. /\ m + j \in 1..(m + n) /\ m + i \in 1..((m + j) - 1) /\ m + i \in 1..(m + n)
        /\ ~ (m + i <= m) /\ ~ (m + j <= m) /\ (m + i) - m = i /\ (m + j) - m = j
    BY <1>1
  <2>2. u[m + i].OrderID < u[m + j].OrderID
    BY <1>3, <1>5, <2>1 DEF Ascending
  <2>3. u[m + i] = t[i] /\ u[m + j] = t[j]
    BY <1>2, <2>1
  <2> QED
    BY <2>2, <2>3
<1>6. ASSUME Ascending(u), NEW i \in 1..m, NEW j \in 1..n
      PROVE  s[i].OrderID < t[j].OrderID
  <2>1. /\ m + j \in 1..(m + n) /\ i \in 1..((m + j) - 1) /\ i \in 1..(m + n)
        /\ i <= m /\ ~ (m + j <= m) /\ (m + j) - m = j
    BY <1>1
  <2>2. u[i].OrderID < u[m + j].OrderID
    BY <1>3, <1>6, <2>1 DEF Ascending
  <2>3. u[i] = s[i] /\ u[m + j] = t[j]
    BY <1>2, <2>1
  <2> QED
    BY <2>2, <2>3
<1>7. ASSUME Ascending(s), Ascending(t),
             \A p \in ToSet(s), q \in ToSet(t) : p.OrderID < q.OrderID
      PROVE  Ascending(u)
  <2> SUFFICES ASSUME NEW j \in 1..(m + n), NEW i \in 1..(j - 1)
               PROVE  u[i].OrderID < u[j].OrderID
    BY <1>3 DEF Ascending
  <2>0. i \in 1..(m + n)
    BY <1>1
  <2>1. CASE j <= m
    <3>1. j \in 1..m /\ i \in 1..m /\ i <= m
      BY <1>1, <2>1
    <3>2. s[i].OrderID < s[j].OrderID
      BY <1>1, <1>7, <3>1 DEF Ascending
    <3> QED
      BY <1>2, <2>0, <2>1, <3>1, <3>2
  <2>2. CASE ~ (j <= m) /\ i <= m
    <3>1. i \in 1..m /\ j - m \in 1..n
      BY <1>1, <2>2
    <3>2. s[i] \in ToSet(s) /\ t[j - m] \in ToSet(t)
      BY <1>1, <3>1 DEF ToSet
    <3>3. s[i].OrderID < t[j - m].OrderID
      BY <1>7, <3>2
    <3> QED
      BY <1>2, <2>0, <2>2, <3>3
  <2>3. CASE ~ (i <= m)
    <3>1. j - m \in 1..n /\ i - m \in 1..((j - m) - 1) /\ ~ (j <= m)
      BY <1>1, <2>3
    <3>2. t[i - m].OrderID < t[j - m].OrderID
      BY <1>1, <1>7, <3>1 DEF Ascending
    <3> QED
      BY <1>2, <2>0, <2>3, <3>1, <3>2
  <2> QED
    BY <2>1, <2>2, <2>3
<1>8. Ascending(u) => \A p \in ToSet(s), q \in ToSet(t) : p.OrderID < q.OrderID
  BY <1>1, <1>6 DEF ToSet
<1> QED
  BY <1>4, <1>5, <1>7, <1>8 DEF u

\* A sequence of one order.
LEMMA Singleton ==
    ASSUME NEW s \in Seq(Order), NEW o \in Order
    PROVE  /\ << o >> \in Seq(Order) /\ Append(s, o) = s \o << o >>
           /\ ToSet(<< o >>) = {o} /\ Ascending(<< o >>)
<1>1. << o >> \in Seq(Order) /\ DOMAIN << o >> = 1..1 /\ << o >>[1] = o
  OBVIOUS
<1>2. ToSet(<< o >>) = {o}
  BY <1>1 DEF ToSet
<1>3. Ascending(<< o >>)
  BY <1>1 DEF Ascending
<1> QED
  BY <1>1, <1>2, <1>3, AppendIsConcat

\* Append lists one order more.
LEMMA ToSetAppend ==
    ASSUME NEW s \in Seq(Order), NEW o \in Order
    PROVE  ToSet(Append(s, o)) = ToSet(s) \cup {o}
<1>1. /\ << o >> \in Seq(Order) /\ Append(s, o) = s \o << o >>
      /\ ToSet(<< o >>) = {o}
  BY Singleton
<1>2. ToSet(s \o << o >>) = ToSet(s) \cup ToSet(<< o >>)
  BY <1>1, ToSetConcat, Zenon
<1> QED
  BY <1>1, <1>2, Zenon

\* The empty sequence lists nothing.
LEMMA ToSetEmpty == ToSet(<< >>) = {} /\ Ascending(<< >>)
BY DEF ToSet, Ascending

\* Selections of two parts make a selection of the whole.
LEMMA PickedConcat ==
    ASSUME NEW q \in Seq(Order), NEW r \in Seq(Order), NEW s \in Seq(Order), NEW t \in Seq(Order),
           Picked(q, s), Picked(r, t)
    PROVE  Picked(q \o r, s \o t)
<1>1. ToSet(q \o r) \subseteq ToSet(s \o t)
  BY ToSetConcat DEF Picked
<1>2. ASSUME Ascending(s \o t) PROVE Ascending(q \o r)
  <2>1. /\ Ascending(s) /\ Ascending(t)
        /\ \A p \in ToSet(s), p2 \in ToSet(t) : p.OrderID < p2.OrderID
    BY <1>2, AscendingConcat
  <2>2. Ascending(q) /\ Ascending(r)
    BY <2>1 DEF Picked
  <2>3. \A p \in ToSet(q), p2 \in ToSet(r) : p.OrderID < p2.OrderID
    BY <2>1 DEF Picked
  <2> QED
    BY <2>2, <2>3, AscendingConcat
<1>3. Len(q \o r) <= Len(s \o t)
  <2>1. /\ Len(q \o r) = Len(q) + Len(r) /\ Len(s \o t) = Len(s) + Len(t)
        /\ Len(q) \in Nat /\ Len(r) \in Nat /\ Len(s) \in Nat /\ Len(t) \in Nat
    BY ConcatProperties, LenProperties
  <2> QED
    BY <2>1 DEF Picked
<1> QED
  BY <1>1, <1>2, <1>3 DEF Picked

\* A selection stays one when an order is offered behind, taken or not.
LEMMA PickedAppend ==
    ASSUME NEW r \in Seq(Order), NEW s \in Seq(Order), NEW o \in Order, Picked(r, s)
    PROVE  Picked(Append(r, o), Append(s, o)) /\ Picked(r, Append(s, o))
<1>1. << o >> \in Seq(Order) /\ << >> \in Seq(Order)
  BY EmptySeq
<1>2. Picked(<< o >>, << o >>) /\ Picked(<< >>, << o >>)
  <2>1. Len(<< o >>) = 1 /\ Len(<< >>) = 0
    OBVIOUS
  <2> QED
    BY <2>1, ToSetEmpty DEF Picked
<1>3. Picked(r \o << o >>, s \o << o >>)
  BY <1>1, <1>2, PickedConcat
<1>4. Picked(r \o << >>, s \o << o >>)
  BY <1>1, <1>2, PickedConcat
<1>5. r \o << >> = r
  BY ConcatEmptySeq
<1> QED
  BY <1>3, <1>4, <1>5, Singleton

\* Weight and value of a concatenation are sums.
LEMMA WeightConcat ==
    ASSUME NEW s \in Seq(Order), NEW t \in Seq(Order)
    PROVE  /\ Weight(s \o t) = Weight(s) + Weight(t)
           /\ Value(s \o t) = Value(s) + Value(t)
<1> DEFINE m == Len(s)
           n == Len(t)
           u == s \o t
<1>1. m \in Nat /\ n \in Nat /\ DOMAIN s = 1..m /\ DOMAIN t = 1..n
  BY LenProperties
<1>2. DOMAIN u = 1..(m + n)
  BY ConcatProperties, LenProperties
<1>3. Places(DOMAIN u, DOMAIN s, DOMAIN t, m, n)
  <2> HIDE DEF m, n, u
  <2> QED
    BY <1>1, <1>2 DEF Places
<1>4. \A field \in Fields : Total(field, u, DOMAIN u) =
                              Total(field, s, DOMAIN s) + Total(field, t, DOMAIN t)
  BY <1>3, TotalConcat
<1> QED
  BY <1>4 DEF Weight, Value, Fields

(***************************************************************************)
(* The orders that fit one by one                                          *)
(***************************************************************************)

Keep(fit, o, c) == IF o.Weight <= c THEN Append(fit, o) ELSE fit

\* The LET of Fitting, as equations.
FittingSteps(f, os, c) ==
    f[0] = << >> /\ \A i \in 1..Len(os) : f[i] = Keep(f[i - 1], os[i], c)

\* There is such a function, and Fitting is its last value.
LEMMA FittingEquations ==
    ASSUME NEW os \in Seq(Order), NEW c \in Nat
    PROVE  \E f \in [0..Len(os) -> Seq(Order)] :
              FittingSteps(f, os, c) /\ Fitting(os, c) = f[Len(os)]
<1> DEFINE n == Len(os)
           X == Seq(Order)
           step == [i \in 1..n |-> [x \in X |-> Keep(x, os[i], c)]]
           Solves(f) == f = [i \in 0..n |->
                                IF i = 0 THEN << >>
                                ELSE IF os[i].Weight <= c THEN Append(f[i - 1], os[i])
                                ELSE f[i - 1]]
           fit == CHOOSE f : Solves(f)
<1>1. n \in Nat
  BY LenProperties
<1>2. ASSUME NEW i \in 1..n, NEW x \in X
      PROVE  Keep(x, os[i], c) \in X
  <2>1. os[i] \in Order
    BY ElementOfSeq
  <2>2. Append(x, os[i]) \in X
    BY <2>1, AppendProperties
  <2> QED
    BY <2>2 DEF Keep
<1>3. Fitting(os, c) = fit[n]
  BY Zenon DEF Fitting
<1>4. << >> \in X
  BY EmptySeq
<1> HIDE DEF n, X
<1>5. step \in [1..n -> [X -> X]]
  BY <1>2
<1>6. PICK f \in [0..n -> X] : Follows(f, << >>, step, n)
  <2> HIDE DEF step
  <2> QED
    BY <1>1, <1>4, <1>5, Recursion
<1>7. f[0] = << >> /\ \A i \in 1..n : f[i] = Keep(f[i - 1], os[i], c)
  <2>1. ASSUME NEW i \in 1..n PROVE f[i] = Keep(f[i - 1], os[i], c)
    <3>1. f[i - 1] \in X
      BY <1>1
    <3> QED
      BY <1>6, <3>1 DEF Follows
  <2> QED
    BY <1>6, <2>1 DEF Follows
<1>8. Solves(f)
  <2>1. ASSUME NEW i \in 0..n
        PROVE  f[i] = IF i = 0 THEN << >>
                      ELSE IF os[i].Weight <= c THEN Append(f[i - 1], os[i]) ELSE f[i - 1]
    <3>1. CASE i = 0
      BY <1>7, <3>1
    <3>2. CASE i # 0
      <4>1. i \in 1..n
        BY <3>2, <1>1
      <4>2. f[i] = Keep(f[i - 1], os[i], c)
        BY <1>7, <4>1
      <4> QED
        BY <3>2, <4>2 DEF Keep
    <3> QED
      BY <3>1, <3>2
  <2>2. f = [i \in 0..n |-> f[i]]
    OBVIOUS
  <2> QED
    BY <2>1, <2>2
<1>9. Solves(fit)
  <2> HIDE DEF Solves
  <2> QED
    BY <1>8, Zenon
<1>10. fit[0] = << >> /\ \A i \in 1..n : fit[i] = Keep(fit[i - 1], os[i], c)
  <2> HIDE DEF fit
  <2>1. fit[0] = << >>
    <3>1. 0 \in 0..n
      BY <1>1
    <3> QED
      BY <1>9, <3>1
  <2>2. ASSUME NEW i \in 1..n PROVE fit[i] = Keep(fit[i - 1], os[i], c)
    <3>1. i \in 0..n /\ i # 0
      BY <1>1
    <3> QED
      BY <1>9, <3>1 DEF Keep
  <2> QED
    BY <2>1, <2>2
<1>11. \A i \in 0..n : fit[i] = f[i]
  <2> HIDE DEF fit
  <2>1. Alike(fit, f, n)
    BY <1>7, <1>10 DEF Alike
  <2> QED
    BY <1>1, <2>1, SameRecursion
<1>12. Fitting(os, c) = f[n]
  BY <1>1, <1>3, <1>11
<1>13. FittingSteps(f, os, c)
  BY <1>7 DEF FittingSteps, n
<1> QED
  BY <1>12, <1>13 DEF n, X

\* Pruning makes a sequence of orders.
LEMMA FittingType ==
    ASSUME NEW os \in Seq(Order), NEW c \in Nat
    PROVE  Fitting(os, c) \in Seq(Order)
BY FittingEquations, LenProperties

\* Pruning nothing leaves nothing.
LEMMA FittingEmpty ==
    ASSUME NEW c \in Nat
    PROVE  Fitting(<< >>, c) = << >>
<1>1. << >> \in Seq(Order) /\ Len(<< >>) = 0
  BY EmptySeq
<1>2. PICK f \in [0..Len(<< >>) -> Seq(Order)] :
          FittingSteps(f, << >>, c) /\ Fitting(<< >>, c) = f[Len(<< >>)]
  BY <1>1, FittingEquations, Zenon
<1> QED
  BY <1>1, <1>2 DEF FittingSteps

\* One order more is kept if it fits.
LEMMA FittingAppend ==
    ASSUME NEW os \in Seq(Order), NEW o \in Order, NEW c \in Nat
    PROVE  Fitting(Append(os, o), c) = Keep(Fitting(os, c), o, c)
<1> DEFINE n == Len(os)
           t == Append(os, o)
<1>1. /\ n \in Nat /\ t \in Seq(Order) /\ Len(t) = n + 1
      /\ \A i \in 1..n : t[i] = os[i]
      /\ t[n + 1] = o
  BY LenProperties, AppendProperties
<1>2. PICK f \in [0..n -> Seq(Order)] : FittingSteps(f, os, c) /\ Fitting(os, c) = f[n]
  BY FittingEquations
<1> HIDE DEF t
<1>3. PICK g \in [0..(n + 1) -> Seq(Order)] :
              FittingSteps(g, t, c) /\ Fitting(t, c) = g[n + 1]
  BY <1>1, FittingEquations
<1>4. \A i \in 0..n : f[i] = g[i]
  <2>1. ASSUME NEW i \in 1..n PROVE f[i - 1] = g[i - 1] => f[i] = g[i]
    <3>1. f[i] = Keep(f[i - 1], os[i], c)
      BY <1>2 DEF FittingSteps
    <3>2. i \in 1..Len(t)
      BY <1>1
    <3>3. g[i] = Keep(g[i - 1], t[i], c)
      BY <1>3, <3>2 DEF FittingSteps
    <3> QED
      BY <1>1, <3>1, <3>3
  <2>2. Alike(f, g, n)
    BY <1>2, <1>3, <2>1 DEF Alike, FittingSteps
  <2>3. n \in Nat
    BY <1>1
  <2> HIDE DEF n
  <2> QED
    BY <2>2, <2>3, SameRecursion, Zenon
<1>5. g[n + 1] = Keep(g[n], o, c)
  <2>1. n + 1 \in 1..Len(t) /\ (n + 1) - 1 = n
    BY <1>1
  <2>2. g[n + 1] = Keep(g[(n + 1) - 1], t[n + 1], c)
    BY <1>3, <2>1 DEF FittingSteps
  <2> QED
    BY <1>1, <2>1, <2>2
<1>6. f[n] = g[n]
  BY <1>1, <1>4
<1> QED
  BY <1>2, <1>3, <1>5, <1>6 DEF t

\* What is kept is a selection, of orders that fit.
LEMMA FittingPicks ==
    ASSUME NEW os \in Seq(Order), NEW c \in Nat
    PROVE  Picked(Fitting(os, c), os) /\ \A p \in ToSet(Fitting(os, c)) : p.Weight <= c
<1> DEFINE T == {s \in Seq(Order) : /\ Picked(Fitting(s, c), s)
                                    /\ \A p \in ToSet(Fitting(s, c)) : p.Weight <= c}
<1>1. << >> \in T
  BY EmptySeq, FittingEmpty, ToSetEmpty DEF Picked
<1>2. ASSUME NEW s \in Seq(Order), NEW o \in Order, s \in T
      PROVE  Append(s, o) \in T
  <2> DEFINE r == Fitting(s, c)
  <2>1. r \in Seq(Order) /\ Append(s, o) \in Seq(Order)
    BY FittingType, AppendProperties
  <2>2. Picked(r, s) /\ \A p \in ToSet(r) : p.Weight <= c
    BY <1>2
  <2>3. Fitting(Append(s, o), c) = Keep(r, o, c)
    BY FittingAppend
  <2> HIDE DEF r
  <2>4. Picked(Append(r, o), Append(s, o)) /\ Picked(r, Append(s, o))
    BY <2>1, <2>2, PickedAppend
  <2>5. CASE o.Weight <= c
    <3>1. ToSet(Append(r, o)) = ToSet(r) \cup {o}
      BY <2>1, ToSetAppend
    <3> QED
      BY <2>1, <2>2, <2>3, <2>4, <2>5, <3>1 DEF Keep
  <2>6. CASE ~ (o.Weight <= c)
    BY <2>1, <2>2, <2>3, <2>4, <2>6 DEF Keep
  <2> QED
    BY <2>5, <2>6
<1>3. \A s \in Seq(Order) : s \in T
  <2> HIDE DEF T
  <2> QED
    BY <1>1, <1>2, SeqInduct, Zenon
<1> QED
  BY <1>3

\* If all fit alone nothing is pruned.
LEMMA FittingAll ==
    ASSUME NEW os \in Seq(Order), NEW c \in Nat, \A p \in ToSet(os) : p.Weight <= c
    PROVE  Fitting(os, c) = os
<1> DEFINE T == {s \in Seq(Order) :
                    (\A p \in ToSet(s) : p.Weight <= c) => Fitting(s, c) = s}
<1>1. << >> \in T
  BY EmptySeq, FittingEmpty
<1>2. ASSUME NEW s \in Seq(Order), NEW o \in Order, s \in T
      PROVE  Append(s, o) \in T
  <2>1. Append(s, o) \in Seq(Order)
    BY AppendProperties
  <2>2. SUFFICES ASSUME \A p \in ToSet(Append(s, o)) : p.Weight <= c
                 PROVE  Fitting(Append(s, o), c) = Append(s, o)
    BY <2>1
  <2>3. ToSet(Append(s, o)) = ToSet(s) \cup {o}
    BY ToSetAppend
  <2>4. Fitting(s, c) = s /\ o.Weight <= c
    BY <1>2, <2>2, <2>3
  <2> QED
    BY <2>4, FittingAppend DEF Keep
<1>3. \A s \in Seq(Order) : s \in T
  <2> HIDE DEF T
  <2> QED
    BY <1>1, <1>2, SeqInduct, Zenon
<1> QED
  BY <1>3

\* Leaving out what does not fit alone does not change the best value.
LEMMA FittingBest ==
    ASSUME NEW os \in Seq(Order), NEW c \in Nat, NEW v, Best(Fitting(os, c), c, v)
    PROVE  Best(os, c, v)
<1> DEFINE T == {s \in Seq(Order) : BestRow(s, c, CalculateMaxValues(Fitting(s, c), c))}
<1>1. << >> \in T
  <2>1. << >> \in Seq(Order)
    BY EmptySeq
  <2> QED
    BY <2>1, FittingEmpty, CalculateMaxValuesBest
<1>2. ASSUME NEW s \in Seq(Order), NEW o \in Order, s \in T
      PROVE  Append(s, o) \in T
  <2> DEFINE r == Fitting(s, c)
             row == CalculateMaxValues(r, c)
  <2>1. r \in Seq(Order) /\ Append(s, o) \in Seq(Order)
    BY FittingType, AppendProperties
  <2>2. Fitting(Append(s, o), c) = Keep(r, o, c)
    BY FittingAppend
  <2>3. BestRow(s, c, row)
    BY <1>2
  <2> SUFFICES BestRow(Append(s, o), c, CalculateMaxValues(Keep(r, o, c), c))
    BY <2>1, <2>2
  <2> HIDE DEF r
  <2>4. CASE o.Weight <= c
    <3>1. BestRow(Append(s, o), c, Round(row, o))
      BY <2>3, BestStep
    <3>2. CalculateMaxValues(Append(r, o), c) = Round(row, o)
      BY <2>1, CalculateMaxValuesAppend
    <3> QED
      BY <2>4, <3>1, <3>2 DEF Keep
  <2>5. CASE ~ (o.Weight <= c)
    <3>1. ASSUME NEW w \in 0..c
          PROVE  Best(Append(s, o), w, row[w])
      <4>1. w \in Nat /\ w < o.Weight
        BY <2>5, OrderNumbers
      <4>2. Best(s, w, row[w])
        BY <2>3 DEF BestRow
      <4> QED
        BY <4>1, <4>2, BestHeavier
    <3> QED
      BY <2>3, <2>5, <3>1 DEF Keep, BestRow
  <2> QED
    BY <2>4, <2>5
<1>3. \A s \in Seq(Order) : s \in T
  <2> HIDE DEF T
  <2> QED
    BY <1>1, <1>2, SeqInduct, Zenon
<1> DEFINE row == CalculateMaxValues(Fitting(os, c), c)
<1>4. BestRow(os, c, row)
  BY <1>3
<1>5. BestRow(Fitting(os, c), c, row)
  BY FittingType, CalculateMaxValuesBest
<1> HIDE DEF row
<1>6. Best(os, c, row[c]) /\ Best(Fitting(os, c), c, row[c])
  BY <1>4, <1>5 DEF BestRow
<1>7. v = row[c]
  BY <1>6, FittingType, BestUnique
<1> QED
  BY <1>6, <1>7

(***************************************************************************)
(* The way back through the table                                          *)
(***************************************************************************)

\* From the selections of the row old to those of the row new, made with o.
Extend(sel, old, new, o, c) ==
    [w \in 0..c |-> IF new[w] # old[w] THEN Append(sel[w - o.Weight], o) ELSE sel[w]]

\* A round changes the value at w only if the order fits there.
LEMMA RoundChange ==
    ASSUME NEW o \in Order, NEW c \in Nat, NEW row \in [0..c -> Nat], NEW w \in 0..c,
           Round(row, o)[w] # row[w]
    PROVE  w - o.Weight \in 0..c /\ Round(row, o)[w] = row[w - o.Weight] + o.Value
<1>1. Round(row, o)[w] = IF o.Weight <= w /\ row[w] < row[w - o.Weight] + o.Value
                         THEN row[w - o.Weight] + o.Value ELSE row[w]
  BY DEF Round
<1>2. o.Weight <= w /\ Round(row, o)[w] = row[w - o.Weight] + o.Value
  BY <1>1
<1>3. o.Weight \in Nat
  BY OrderNumbers
<1> QED
  BY <1>2, <1>3

\* A selection extended at each capacity is one sequence for each.
LEMMA ExtendType ==
    ASSUME NEW o \in Order, NEW c \in Nat, NEW row \in [0..c -> Nat],
           NEW sel \in [0..c -> Seq(Order)]
    PROVE  Extend(sel, row, Round(row, o), o, c) \in [0..c -> Seq(Order)]
<1> DEFINE new == Round(row, o)
<1>1. ASSUME NEW w \in 0..c, new[w] # row[w]
      PROVE  Append(sel[w - o.Weight], o) \in Seq(Order)
  <2>1. sel[w - o.Weight] \in Seq(Order)
    BY <1>1, RoundChange
  <2> QED
    BY <2>1, AppendProperties
<1> HIDE DEF new
<1> QED
  BY <1>1 DEF Extend, new

\* The LET of Back, as equations.
BackSteps(b, os, c) ==
    /\ b[0] = [w \in 0..c |-> << >>]
    /\ \A i \in 1..Len(os) :
          b[i] = Extend(b[i - 1], Rows(os, c)[i - 1], Rows(os, c)[i], os[i], c)

\* The way back takes these steps.
LEMMA BackEquations ==
    ASSUME NEW os \in Seq(Order), NEW c \in Nat
    PROVE  \E b \in [0..Len(os) -> [0..c -> Seq(Order)]] :
              BackSteps(b, os, c) /\ Back(os, c) = b[Len(os)]
<1> DEFINE n == Len(os)
           X == [0..c -> Seq(Order)]
           dp == Rows(os, c)
           first == [w \in 0..c |-> << >>]
           next(x, i) == Extend(x, dp[i - 1], dp[i], os[i], c)
           step == [i \in 1..n |-> [x \in X |-> next(x, i)]]
           Solves(f) == f = [i \in 0..n |->
                               [w \in 0..c |->
                                  IF i = 0 THEN << >>
                                  ELSE IF dp[i][w] # dp[i - 1][w]
                                       THEN Append(f[i - 1][w - os[i].Weight], os[i])
                                       ELSE f[i - 1][w]]]
           back == CHOOSE f : Solves(f)
<1>1. n \in Nat
  BY LenProperties
<1>2. dp \in [0..n -> [0..c -> Nat]] /\ TableRounds(dp, os, c)
  BY RowsEquations
<1>3. Back(os, c) = back[n]
  BY Zenon DEF Back
<1> HIDE DEF dp
<1>4. ASSUME NEW i \in 1..n, NEW x \in X
      PROVE  next(x, i) \in X
  <2>1. os[i] \in Order
    BY ElementOfSeq
  <2>2. dp[i] = Round(dp[i - 1], os[i])
    BY <1>2 DEF TableRounds
  <2>3. dp[i - 1] \in [0..c -> Nat]
    <3>1. i - 1 \in 0..n
      BY <1>1
    <3> QED
      BY <1>2, <3>1
  <2> QED
    BY <2>1, <2>2, <2>3, ExtendType
<1>5. first \in X
  <2>1. << >> \in Seq(Order)
    BY EmptySeq
  <2> QED
    BY <2>1
<1>6. \A f : \A i \in 1..n :
          next(f[i - 1], i) = [w \in 0..c |-> IF dp[i][w] # dp[i - 1][w]
                                              THEN Append(f[i - 1][w - os[i].Weight], os[i])
                                              ELSE f[i - 1][w]]
  BY Zenon DEF Extend
<1> HIDE DEF n, X, next, first
<1>7. step \in [1..n -> [X -> X]]
  BY <1>4
<1>8. PICK f \in [0..n -> X] : Follows(f, first, step, n)
  <2> HIDE DEF step
  <2> QED
    BY <1>1, <1>5, <1>7, Recursion
<1>9. f[0] = first /\ \A i \in 1..n : f[i] = next(f[i - 1], i)
  <2>1. ASSUME NEW i \in 1..n PROVE f[i] = next(f[i - 1], i)
    <3>1. f[i - 1] \in X
      BY <1>1
    <3> QED
      BY <1>8, <3>1 DEF Follows
  <2> QED
    BY <1>8, <2>1 DEF Follows
<1>10. ASSUME NEW g
       PROVE  \A i \in 0..n : [w \in 0..c |->
                                  IF i = 0 THEN << >>
                                  ELSE IF dp[i][w] # dp[i - 1][w]
                                       THEN Append(g[i - 1][w - os[i].Weight], os[i])
                                       ELSE g[i - 1][w]] =
                               IF i = 0 THEN first ELSE next(g[i - 1], i)
  <2> SUFFICES ASSUME NEW i \in 0..n
               PROVE  [w \in 0..c |->
                          IF i = 0 THEN << >>
                          ELSE IF dp[i][w] # dp[i - 1][w]
                               THEN Append(g[i - 1][w - os[i].Weight], os[i])
                               ELSE g[i - 1][w]] =
                      IF i = 0 THEN first ELSE next(g[i - 1], i)
    OBVIOUS
  <2>1. CASE i = 0
    BY <2>1 DEF first
  <2>2. CASE i # 0
    <3>1. i \in 1..n
      BY <1>1, <2>2
    <3>2. next(g[i - 1], i) = [w \in 0..c |-> IF dp[i][w] # dp[i - 1][w]
                                              THEN Append(g[i - 1][w - os[i].Weight], os[i])
                                              ELSE g[i - 1][w]]
      BY <1>6, <3>1, Zenon
    <3> QED
      BY <2>2, <3>2
  <2> QED
    BY <2>1, <2>2
<1>11. Solves(f)
  <2>1. f = [i \in 0..n |-> f[i]]
    OBVIOUS
  <2>2. ASSUME NEW i \in 0..n
        PROVE  f[i] = IF i = 0 THEN first ELSE next(f[i - 1], i)
    <3>1. CASE i = 0
      BY <1>9, <3>1
    <3>2. CASE i # 0
      <4>1. i \in 1..n
        BY <1>1, <3>2
      <4> QED
        BY <1>9, <3>2, <4>1
    <3> QED
      BY <3>1, <3>2
  <2>3. \A i \in 0..n : f[i] = [w \in 0..c |->
                                  IF i = 0 THEN << >>
                                  ELSE IF dp[i][w] # dp[i - 1][w]
                                       THEN Append(f[i - 1][w - os[i].Weight], os[i])
                                       ELSE f[i - 1][w]]
    BY <1>10, <2>2, Zenon
  <2> QED
    BY <2>1, <2>3, Zenon
<1>12. Solves(back)
  <2> HIDE DEF Solves
  <2> QED
    BY <1>11, Zenon
<1>13. back[0] = first /\ \A i \in 1..n : back[i] = next(back[i - 1], i)
  <2> HIDE DEF back
  <2>1. \A i \in 0..n : back[i] = [w \in 0..c |->
                                  IF i = 0 THEN << >>
                                  ELSE IF dp[i][w] # dp[i - 1][w]
                                       THEN Append(back[i - 1][w - os[i].Weight], os[i])
                                       ELSE back[i - 1][w]]
    BY <1>12, Zenon
  <2>2. \A i \in 0..n : back[i] = IF i = 0 THEN first ELSE next(back[i - 1], i)
    BY <1>10, <2>1, Zenon
  <2>3. 0 \in 0..n /\ \A i \in 1..n : i \in 0..n /\ i # 0
    BY <1>1
  <2> QED
    BY <2>2, <2>3
<1>14. \A i \in 0..n : back[i] = f[i]
  <2> HIDE DEF back
  <2>1. Alike(back, f, n)
    BY <1>9, <1>13 DEF Alike
  <2> QED
    BY <1>1, <2>1, SameRecursion
<1>15. Back(os, c) = f[n]
  <2> HIDE DEF back
  <2>1. n \in 0..n
    BY <1>1
  <2> QED
    BY <1>3, <1>14, <2>1, Zenon
<1>16. BackSteps(f, os, c)
  BY <1>9 DEF BackSteps, n, next, first, dp
<1> QED
  BY <1>15, <1>16 DEF n, X

\* The way back through no rows.
LEMMA BackEmpty ==
    ASSUME NEW c \in Nat
    PROVE  Back(<< >>, c) = [w \in 0..c |-> << >>]
<1>1. << >> \in Seq(Order) /\ Len(<< >>) = 0
  BY EmptySeq
<1>2. PICK b \in [0..Len(<< >>) -> [0..c -> Seq(Order)]] :
          BackSteps(b, << >>, c) /\ Back(<< >>, c) = b[Len(<< >>)]
  BY <1>1, BackEquations, Zenon
<1>3. b[0] = [w \in 0..c |-> << >>]
  BY <1>2 DEF BackSteps
<1> QED
  BY <1>1, <1>2, <1>3, Zenon

\* One order more is one step more of the way back.
LEMMA BackAppend ==
    ASSUME NEW os \in Seq(Order), NEW o \in Order, NEW c \in Nat
    PROVE  /\ Back(os, c) \in [0..c -> Seq(Order)]
           /\ Back(Append(os, o), c) =
                Extend(Back(os, c), CalculateMaxValues(os, c),
                       CalculateMaxValues(Append(os, o), c), o, c)
<1> DEFINE n == Len(os)
           t == Append(os, o)
           dp == Rows(os, c)
           dq == Rows(t, c)
<1>1. /\ n \in Nat /\ t \in Seq(Order) /\ Len(t) = n + 1
      /\ \A i \in 1..n : t[i] = os[i]
      /\ t[n + 1] = o
  BY LenProperties, AppendProperties
<1>2. PICK f \in [0..n -> [0..c -> Seq(Order)]] :
              BackSteps(f, os, c) /\ Back(os, c) = f[n]
  BY BackEquations
<1>3. \A i \in 0..n : dq[i] = dp[i]
  BY RowsPrefix
<1> HIDE DEF t
<1>4. PICK g \in [0..(n + 1) -> [0..c -> Seq(Order)]] :
              BackSteps(g, t, c) /\ Back(t, c) = g[n + 1]
  BY <1>1, BackEquations
<1>5. \A i \in 0..n : f[i] = g[i]
  <2>1. ASSUME NEW i \in 1..n PROVE f[i - 1] = g[i - 1] => f[i] = g[i]
    <3>1. f[i] = Extend(f[i - 1], dp[i - 1], dp[i], os[i], c)
      BY <1>2 DEF BackSteps
    <3>2. i \in 1..Len(t) /\ i - 1 \in 0..n /\ i \in 0..n
      BY <1>1
    <3>3. g[i] = Extend(g[i - 1], dq[i - 1], dq[i], t[i], c)
      BY <1>4, <3>2 DEF BackSteps
    <3>4. dq[i - 1] = dp[i - 1] /\ dq[i] = dp[i] /\ t[i] = os[i]
      BY <1>1, <1>3, <3>2
    <3> HIDE DEF dp, dq
    <3> QED
      BY <3>1, <3>3, <3>4
  <2>2. f[0] = g[0]
    BY <1>2, <1>4 DEF BackSteps
  <2>3. Alike(f, g, n)
    BY <2>1, <2>2 DEF Alike
  <2>4. n \in Nat
    BY <1>1
  <2> HIDE DEF n
  <2> QED
    BY <2>3, <2>4, SameRecursion, Zenon
<1>6. g[n + 1] = Extend(g[n], dp[n], dq[n + 1], o, c)
  <2>1. n + 1 \in 1..Len(t) /\ (n + 1) - 1 = n /\ n \in 0..n
    BY <1>1
  <2>2. g[n + 1] = Extend(g[(n + 1) - 1], dq[(n + 1) - 1], dq[n + 1], t[n + 1], c)
    BY <1>4, <2>1 DEF BackSteps
  <2>3. dq[n] = dp[n]
    BY <1>3, <2>1
  <2> HIDE DEF dp, dq
  <2> QED
    BY <1>1, <2>1, <2>2, <2>3
<1>7. f[n] = g[n] /\ f[n] \in [0..c -> Seq(Order)]
  BY <1>1, <1>5
<1>8. CalculateMaxValues(os, c) = dp[n] /\ CalculateMaxValues(t, c) = dq[n + 1]
  BY <1>1 DEF CalculateMaxValues
<1> HIDE DEF dp, dq
<1> QED
  BY <1>2, <1>4, <1>6, <1>7, <1>8 DEF t

\* sel holds, for every capacity, a selection that is worth what row says.
Carries(sel, row, os, c) ==
    \A w \in 0..c : /\ sel[w] \in Seq(Order)
                    /\ Value(sel[w]) = row[w]
                    /\ Weight(sel[w]) <= w
                    /\ Picked(sel[w], os)

\* The way back makes, for each capacity, a selection worth what the row says.
LEMMA BackCarries ==
    ASSUME NEW os \in Seq(Order), NEW c \in Nat
    PROVE  Carries(Back(os, c), CalculateMaxValues(os, c), os, c)
<1> DEFINE T == {s \in Seq(Order) : Carries(Back(s, c), CalculateMaxValues(s, c), s, c)}
<1>1. << >> \in T
  <2>1. << >> \in Seq(Order)
    BY EmptySeq
  <2>2. Picked(<< >>, << >>)
    BY DEF Picked
  <2>3. Carries([w \in 0..c |-> << >>], Zeros(c), << >>, c)
    BY <2>1, <2>2, WeightEmpty DEF Carries, Zeros
  <2> QED
    BY <2>1, <2>3, BackEmpty, CalculateMaxValuesEmpty
<1>2. ASSUME NEW s \in Seq(Order), NEW o \in Order, s \in T
      PROVE  Append(s, o) \in T
  <2> DEFINE t == Append(s, o)
             old == CalculateMaxValues(s, c)
             new == CalculateMaxValues(t, c)
             sel == Back(s, c)
             ext == Back(t, c)
  <2>1. t \in Seq(Order)
    BY AppendProperties
  <2>2. Carries(sel, old, s, c)
    BY <1>2
  <2>3. new = Round(old, o)
    BY CalculateMaxValuesAppend
  <2>4. old \in [0..c -> Nat]
    BY CalculateMaxValuesBest DEF BestRow
  <2>5. ext = Extend(sel, old, new, o, c)
    BY BackAppend
  <2>6. SUFFICES Carries(ext, new, t, c)
    BY <2>1
  <2> HIDE DEF old, new, sel, ext
  <2>7. ASSUME NEW w \in 0..c
        PROVE  /\ ext[w] \in Seq(Order)
               /\ Value(ext[w]) = new[w]
               /\ Weight(ext[w]) <= w
               /\ Picked(ext[w], t)
    <3>1. ext[w] = IF new[w] # old[w] THEN Append(sel[w - o.Weight], o) ELSE sel[w]
      BY <2>5 DEF Extend
    <3>2. CASE new[w] # old[w]
      <4> DEFINE r == sel[w - o.Weight]
      <4>1. w - o.Weight \in 0..c /\ new[w] = old[w - o.Weight] + o.Value
        BY <2>3, <2>4, <3>2, RoundChange
      <4>2. /\ r \in Seq(Order) /\ Value(r) = old[w - o.Weight]
            /\ Weight(r) <= w - o.Weight /\ Picked(r, s)
        BY <2>2, <4>1 DEF Carries
      <4>3. ext[w] = Append(r, o)
        BY <3>1, <3>2
      <4> HIDE DEF r
      <4>4. Append(r, o) \in Seq(Order) /\ Picked(Append(r, o), t)
        BY <4>2, AppendProperties, PickedAppend
      <4>5. Weight(Append(r, o)) = Weight(r) + o.Weight /\ Value(Append(r, o)) = Value(r) + o.Value
        BY <4>2, WeightAppend
      <4>6. Weight(r) \in Nat /\ o.Weight \in Nat
        BY <4>2, WeightNat, OrderNumbers
      <4>7. Weight(Append(r, o)) <= w
        BY <4>2, <4>5, <4>6
      <4> QED
        BY <4>1, <4>2, <4>3, <4>4, <4>5, <4>7
    <3>3. CASE new[w] = old[w]
      <4>1. /\ sel[w] \in Seq(Order) /\ Value(sel[w]) = old[w]
            /\ Weight(sel[w]) <= w /\ Picked(sel[w], s)
        BY <2>2 DEF Carries
      <4>2. Picked(sel[w], t)
        BY <4>1, PickedAppend
      <4> QED
        BY <3>1, <3>3, <4>1, <4>2
    <3> QED
      BY <3>2, <3>3
  <2> QED
    BY <2>7 DEF Carries
<1>3. \A s \in Seq(Order) : s \in T
  <2> HIDE DEF T
  <2> QED
    BY <1>1, <1>2, SeqInduct, Zenon
<1> QED
  BY <1>3

(***************************************************************************)
(* Best selections                                                         *)
(***************************************************************************)

\* r is a selection of os within the capacity, and no other is worth more.
BestSet(r, os, c) ==
    /\ r \in Seq(Order) /\ Picked(r, os)
    /\ Weight(r) <= c
    /\ Best(os, c, Value(r))

\* Without capacity nothing is best, as every order weighs something.
LEMMA BestWithoutCapacity ==
    ASSUME NEW os \in Seq(Order)
    PROVE  BestSet(<< >>, os, 0)
<1>1. << >> \in Seq(Order) /\ Picked(<< >>, os)
  BY EmptySeq, ToSetEmpty DEF Picked
<1>2. BestRow(os, 0, CalculateMaxValues(os, 0))
  BY CalculateMaxValuesBest
<1>3. ASSUME NEW S \in SUBSET Nat, Total("Weight", os, S) <= 0
      PROVE  Total("Value", os, S) = 0
  <2>1. Total("Weight", os, S) \in Nat
    BY TotalNat DEF Fields
  <2>2. Total("Weight", os, S) = 0
    BY <1>3, <2>1
  <2> QED
    BY <2>2, NothingForNothing
<1>4. PICK S \in SUBSET Nat : Total("Weight", os, S) <= 0
  BY <1>2 DEF BestRow, Best
<1>5. Total("Value", os, S) = 0
  BY <1>3, <1>4
<1>6. Best(os, 0, 0)
  <2>1. \E R \in SUBSET Nat : Total("Weight", os, R) <= 0 /\ Total("Value", os, R) = 0
    BY <1>4, <1>5
  <2>2. \A R \in SUBSET Nat : Total("Weight", os, R) <= 0 => Total("Value", os, R) <= 0
    BY <1>3
  <2> QED
    BY <2>1, <2>2 DEF Best
<1> QED
  BY <1>1, <1>6, WeightEmpty DEF BestSet

\* The table and the way back through it solve the small problems.
LEMMA SolveKnapsackIterativeBest ==
    ASSUME NEW os \in Seq(Order), NEW c \in Nat
    PROVE  BestSet(SolveKnapsackIterative(os, c), os, c)
<1>1. CASE os = << >>
  <2>1. Picked(<< >>, << >>) /\ << >> \in Seq(Order)
    BY EmptySeq DEF Picked
  <2>2. Best(<< >>, c, 0)
    BY BestEmpty
  <2>3. BestSet(<< >>, << >>, c)
    BY <2>1, <2>2, WeightEmpty DEF BestSet
  <2> QED
    BY <1>1, <2>3 DEF SolveKnapsackIterative
<1>2. CASE c = 0
  BY <1>2, BestWithoutCapacity DEF SolveKnapsackIterative
<1>3. CASE os # << >> /\ c # 0
  <2> DEFINE r == Back(os, c)[c]
             row == CalculateMaxValues(os, c)
  <2>1. Carries(Back(os, c), row, os, c) /\ BestRow(os, c, row)
    BY BackCarries, CalculateMaxValuesBest
  <2>2. r \in Seq(Order) /\ Value(r) = row[c] /\ Weight(r) <= c /\ Picked(r, os)
    BY <2>1 DEF Carries
  <2>3. Best(os, c, row[c])
    BY <2>1 DEF BestRow
  <2>4. SolveKnapsackIterative(os, c) = r
    BY <1>3 DEF SolveKnapsackIterative
  <2> HIDE DEF r, row
  <2> QED
    BY <2>2, <2>3, <2>4 DEF BestSet
<1> QED
  BY <1>1, <1>2, <1>3

\* A single order is taken if it fits.
LEMMA FittingSmallBest ==
    ASSUME NEW os \in Seq(Order), NEW c \in Nat, Len(os) <= 1
    PROVE  BestSet(Fitting(os, c), os, c)
<1>0. Fitting(os, c) \in Seq(Order) /\ Picked(Fitting(os, c), os)
  BY FittingType, FittingPicks
<1>1. CASE os = << >>
  <2>1. Best(<< >>, c, 0)
    BY BestEmpty
  <2> QED
    BY <1>0, <1>1, <2>1, FittingEmpty, WeightEmpty DEF BestSet
<1>2. CASE os # << >>
  <2>1. PICK s \in Seq(Order), o \in Order : os = Append(s, o)
    BY <1>2, SequenceEmptyOrAppend
  <2>2. s = << >>
    <3>1. Len(s) \in Nat /\ Len(os) = Len(s) + 1
      BY <2>1, AppendProperties, LenProperties
    <3> QED
      BY <3>1, EmptySeq
  <2>3. o.Weight \in Nat /\ o.Value \in Nat
    BY OrderNumbers
  <2>4. Fitting(os, c) = Keep(<< >>, o, c)
    BY <2>1, <2>2, FittingEmpty, FittingAppend
  <2>5. Best(<< >>, c, 0) /\ << >> \in Seq(Order)
    BY BestEmpty, EmptySeq
  <2>6. CASE o.Weight <= c
    <3>1. BestRow(<< >>, c, Zeros(c))
      BY BestEmpty DEF BestRow, Zeros
    <3>2. BestRow(os, c, Round(Zeros(c), o))
      BY <2>1, <2>2, <2>5, <3>1, BestStep
    <3>3. Best(os, c, Round(Zeros(c), o)[c])
      BY <3>2 DEF BestRow
    <3>4. Round(Zeros(c), o)[c] = o.Value
      <4>1. c - o.Weight \in 0..c
        BY <2>3, <2>6
      <4> QED
        BY <2>3, <2>6, <4>1 DEF Round, Zeros
    <3>5. Fitting(os, c) = Append(s, o)
      BY <2>2, <2>4, <2>6 DEF Keep
    <3>6. Weight(Append(s, o)) = o.Weight /\ Value(Append(s, o)) = o.Value
      <4>1. Weight(Append(s, o)) = Weight(s) + o.Weight /\ Value(Append(s, o)) = Value(s) + o.Value
        BY WeightAppend
      <4>2. Weight(s) = 0 /\ Value(s) = 0
        BY <2>2, WeightEmpty
      <4> QED
        BY <2>3, <4>1, <4>2
    <3> QED
      BY <1>0, <2>6, <3>3, <3>4, <3>5, <3>6 DEF BestSet
  <2>7. CASE ~ (o.Weight <= c)
    <3>1. Best(os, c, 0)
      <4>1. Best(s, c, 0) /\ c < o.Weight
        BY <2>2, <2>3, <2>5, <2>7
      <4>2. Best(Append(s, o), c, 0)
        BY <4>1, BestHeavier
      <4> QED
        BY <2>1, <4>2
    <3>2. Fitting(os, c) = << >>
      BY <2>4, <2>7 DEF Keep
    <3> QED
      BY <1>0, <3>1, <3>2, WeightEmpty DEF BestSet
  <2> QED
    BY <2>6, <2>7
<1> QED
  BY <1>1, <1>2

(***************************************************************************)
(* The split                                                               *)
(***************************************************************************)

\* w is the first place of 0..n where h is largest.
FirstMaximum(h, n, w) ==
    /\ w \in 0..n
    /\ \A v \in 0..n : h[v] <= h[w]
    /\ \A v \in 0..(w - 1) : h[v] < h[w]

\* A row of numbers has a first maximum.
LEMMA FirstMaximumExists ==
    ASSUME NEW c \in Nat, NEW h \in [0..c -> Nat]
    PROVE  \E w \in 0..c : FirstMaximum(h, c, w)
<1> DEFINE T == {n \in Nat : n <= c => \E w \in 0..n : FirstMaximum(h, n, w)}
<1>1. 0 \in T
  <2>1. FirstMaximum(h, 0, 0)
    BY DEF FirstMaximum
  <2> QED
    BY <2>1
<1>2. ASSUME NEW n \in Nat, n \in T
      PROVE  n + 1 \in T
  <2> SUFFICES ASSUME n + 1 <= c
               PROVE  \E w \in 0..(n + 1) : FirstMaximum(h, n + 1, w)
    OBVIOUS
  <2>1. PICK w \in 0..n : FirstMaximum(h, n, w)
    BY <1>2
  <2>2. \A v \in 0..(n + 1) : h[v] \in Nat
    OBVIOUS
  <2>3. CASE h[n + 1] <= h[w]
    <3>1. FirstMaximum(h, n + 1, w)
      BY <2>1, <2>3 DEF FirstMaximum
    <3> QED
      BY <2>1, <3>1
  <2>4. CASE h[w] < h[n + 1]
    <3>1. ASSUME NEW v \in 0..n PROVE h[v] < h[n + 1]
      <4>1. h[v] <= h[w] /\ h[v] \in Nat /\ h[w] \in Nat /\ h[n + 1] \in Nat
        BY <2>1, <2>2 DEF FirstMaximum
      <4> QED
        BY <2>4, <4>1
    <3>2. FirstMaximum(h, n + 1, n + 1)
      <4>1. ASSUME NEW v \in 0..(n + 1) PROVE h[v] <= h[n + 1]
        <5>1. CASE v \in 0..n
          BY <2>2, <3>1, <5>1
        <5>2. CASE v = n + 1
          BY <2>2, <5>2
        <5> QED
          BY <5>1, <5>2
      <4>2. ASSUME NEW v \in 0..((n + 1) - 1) PROVE h[v] < h[n + 1]
        BY <3>1
      <4> QED
        BY <4>1, <4>2 DEF FirstMaximum
    <3> QED
      BY <3>2
  <2> QED
    BY <2>1, <2>2, <2>3, <2>4
<1>3. c \in T
  <2> HIDE DEF T
  <2> QED
    BY <1>1, <1>2, Induct, Zenon
<1> QED
  BY <1>3

\* wSplit exists, and no other split is worth more.
LEMMA SplitAtBest ==
    ASSUME NEW first \in Seq(Order), NEW second \in Seq(Order), NEW c \in Nat
    PROVE  LET a == CalculateMaxValues(first, c)
               b == CalculateMaxValues(second, c)
               w == SplitAt(first, second, c)
           IN  w \in 0..c /\ \A v \in 0..c : a[v] + b[c - v] <= a[w] + b[c - w]
<1> DEFINE a == CalculateMaxValues(first, c)
           b == CalculateMaxValues(second, c)
           h == [v \in 0..c |-> a[v] + b[c - v]]
           Splits(w) == /\ \A v \in 0..c : a[v] + b[c - v] <= a[w] + b[c - w]
                        /\ \A v \in 0..(w - 1) : a[v] + b[c - v] < a[w] + b[c - w]
<1>1. a \in [0..c -> Nat] /\ b \in [0..c -> Nat]
  BY CalculateMaxValuesBest DEF BestRow
<1>2. SplitAt(first, second, c) = CHOOSE w \in 0..c : Splits(w)
  BY Zenon DEF SplitAt
<1> HIDE DEF a, b
<1>3. h \in [0..c -> Nat]
  <2> SUFFICES ASSUME NEW v \in 0..c PROVE a[v] + b[c - v] \in Nat
    OBVIOUS
  <2>1. c - v \in 0..c
    OBVIOUS
  <2> QED
    BY <1>1, <2>1
<1>4. PICK w \in 0..c : FirstMaximum(h, c, w)
  <2> HIDE DEF h
  <2> QED
    BY <1>3, FirstMaximumExists
<1>5. Splits(w)
  <2>1. \A v \in 0..(w - 1) : v \in 0..c
    OBVIOUS
  <2> QED
    BY <1>4, <2>1 DEF FirstMaximum
<1>6. SplitAt(first, second, c) \in 0..c /\ Splits(SplitAt(first, second, c))
  <2> HIDE DEF Splits
  <2> QED
    BY <1>2, <1>4, <1>5, Zenon
<1> QED
  BY <1>6 DEF a, b

\* What carries the best of both halves, at that split, carries the best.
LEMMA SplitBest ==
    ASSUME NEW first \in Seq(Order), NEW second \in Seq(Order), NEW c \in Nat,
           NEW q, NEW r,
           BestSet(q, first, SplitAt(first, second, c)),
           BestSet(r, second, c - SplitAt(first, second, c))
    PROVE  BestSet(q \o r, first \o second, c)
<1> DEFINE w == SplitAt(first, second, c)
           a == CalculateMaxValues(first, c)
           b == CalculateMaxValues(second, c)
           m == Len(first)
           n == Len(second)
           os == first \o second
<1>1. w \in 0..c /\ \A v \in 0..c : a[v] + b[c - v] <= a[w] + b[c - w]
  BY SplitAtBest
<1>2. BestRow(first, c, a) /\ BestRow(second, c, b)
  BY CalculateMaxValuesBest
<1>3. m \in Nat /\ n \in Nat /\ os \in Seq(Order)
  BY LenProperties, ConcatProperties
<1>4. BestSet(q, first, w) /\ BestSet(r, second, c - w)
  OBVIOUS
<1> HIDE DEF w, a, b
<1>5. c - w \in 0..c /\ w \in Nat
  BY <1>1
<1>6. Value(q) = a[w]
  <2>1. Best(first, w, a[w]) /\ Best(first, w, Value(q))
    BY <1>1, <1>2, <1>4 DEF BestRow, BestSet
  <2> QED
    BY <2>1, BestUnique
<1>7. Value(r) = b[c - w]
  <2>1. Best(second, c - w, b[c - w]) /\ Best(second, c - w, Value(r))
    BY <1>2, <1>4, <1>5 DEF BestRow, BestSet
  <2> QED
    BY <2>1, BestUnique
<1>8. /\ q \in Seq(Order) /\ r \in Seq(Order) /\ q \o r \in Seq(Order)
      /\ Picked(q \o r, os)
  BY <1>4, ConcatProperties, PickedConcat DEF BestSet
<1>9. /\ Weight(q) \in Nat /\ Weight(r) \in Nat /\ Value(q) \in Nat /\ Value(r) \in Nat
      /\ Weight(q) <= w /\ Weight(r) <= c - w
  BY <1>4, <1>8, WeightNat DEF BestSet
<1>10. Weight(q \o r) = Weight(q) + Weight(r) /\ Value(q \o r) = Value(q) + Value(r)
  BY <1>8, WeightConcat
<1>11. Weight(q \o r) <= c
  BY <1>5, <1>9, <1>10
<1>12. \E R \in SUBSET Nat : Total("Weight", os, R) <= c /\ Total("Value", os, R) = Value(q \o r)
  <2>1. PICK S \in SUBSET Nat : Total("Weight", first, S) <= w /\ Total("Value", first, S) = Value(q)
    BY <1>4 DEF BestSet, Best
  <2>2. PICK U \in SUBSET Nat : Total("Weight", second, U) <= c - w /\ Total("Value", second, U) = Value(r)
    BY <1>4 DEF BestSet, Best
  <2> DEFINE R == {i \in Nat : IF i <= m THEN i \in S ELSE i - m \in U}
  <2>3. Places(R, S, U, m, n)
    <3>1. ASSUME NEW i \in 1..m PROVE i \in R <=> i \in S
      BY <1>3
    <3>2. ASSUME NEW j \in 1..n PROVE m + j \in R <=> j \in U
      <4>1. m + j \in Nat /\ ~ (m + j <= m) /\ (m + j) - m = j
        BY <1>3
      <4> QED
        BY <4>1
    <3> HIDE DEF R
    <3> QED
      BY <3>1, <3>2 DEF Places
  <2>4. R \in SUBSET Nat
    OBVIOUS
  <2> HIDE DEF R
  <2>5. \A field \in Fields : Total(field, os, R) = Total(field, first, S) + Total(field, second, U)
    BY <2>3, TotalConcat
  <2>6. /\ Total("Weight", os, R) = Total("Weight", first, S) + Total("Weight", second, U)
        /\ Total("Value", os, R) = Value(q) + Value(r)
    BY <2>1, <2>2, <2>5 DEF Fields
  <2>7. Total("Weight", first, S) \in Nat /\ Total("Weight", second, U) \in Nat
    BY TotalNat DEF Fields
  <2>8. Total("Weight", os, R) <= c
    BY <1>5, <2>1, <2>2, <2>6, <2>7
  <2> QED
    BY <1>10, <2>4, <2>6, <2>8
<1>13. ASSUME NEW R \in SUBSET Nat, Total("Weight", os, R) <= c
       PROVE  Total("Value", os, R) <= Value(q \o r)
  <2> DEFINE U == {j \in Nat : m + j \in R}
             x == Total("Weight", first, R)
             y == Total("Weight", second, U)
  <2>1. Places(R, R, U, m, n)
    BY <1>3 DEF Places
  <2>2. U \in SUBSET Nat
    OBVIOUS
  <2> HIDE DEF U
  <2>3. \A field \in Fields : Total(field, os, R) = Total(field, first, R) + Total(field, second, U)
    BY <2>1, TotalConcat
  <2>4. /\ Total("Weight", os, R) = x + y
        /\ Total("Value", os, R) = Total("Value", first, R) + Total("Value", second, U)
    BY <2>3 DEF Fields
  <2>5. /\ x \in Nat /\ y \in Nat
        /\ Total("Value", first, R) \in Nat /\ Total("Value", second, U) \in Nat
    BY TotalNat DEF Fields
  <2>6. x \in 0..c /\ c - x \in 0..c /\ y <= c - x
    BY <1>13, <2>4, <2>5
  <2>7. Total("Value", first, R) <= a[x]
    <3>1. Best(first, x, a[x]) /\ x <= x
      BY <1>2, <2>6 DEF BestRow
    <3> QED
      BY <3>1 DEF Best
  <2>8. Total("Value", second, U) <= b[c - x]
    <3>1. Best(second, c - x, b[c - x])
      BY <1>2, <2>6 DEF BestRow
    <3> QED
      BY <2>2, <2>6, <3>1 DEF Best
  <2>9. a[x] + b[c - x] <= a[w] + b[c - w]
    BY <1>1, <2>6
  <2>10. a[x] \in Nat /\ b[c - x] \in Nat
    BY <1>2, <2>6 DEF BestRow
  <2> HIDE DEF x, y
  <2>11. Total("Value", os, R) <= a[x] + b[c - x] /\ Total("Value", os, R) \in Nat
    BY <2>4, <2>5, <2>7, <2>8, <2>10
  <2>12. a[w] + b[c - w] = Value(q \o r) /\ Value(q \o r) \in Nat
    BY <1>6, <1>7, <1>9, <1>10
  <2>13. a[x] + b[c - x] \in Nat
    BY <2>10
  <2> QED
    BY <2>9, <2>11, <2>12, <2>13
<1>14. Best(os, c, Value(q \o r))
  BY <1>12, <1>13 DEF Best
<1> QED
  BY <1>8, <1>11, <1>14 DEF BestSet

(***************************************************************************)
(* The array that the calls share                                          *)
(***************************************************************************)

\* The n orders of the array that begin at from.
Part(array, from, n) == SubSeq(array, from, from + n - 1)

InRange(array, from, n) == from \in Nat \ {0} /\ n \in Nat /\ from + n <= Len(array) + 1

\* A part of the array in range is a sequence of n orders.
LEMMA PartType ==
    ASSUME NEW array \in Seq(Order), NEW from, NEW n, InRange(array, from, n)
    PROVE  /\ Part(array, from, n) \in Seq(Order)
           /\ Len(Part(array, from, n)) = n
           /\ \A i \in 1..n : Part(array, from, n)[i] = array[from + i - 1]
<1> DEFINE to == from + n - 1
<1>1. from \in Nat \ {0} /\ n \in Nat /\ Len(array) \in Nat /\ to <= Len(array)
  BY LenProperties DEF InRange
<1>2. from \in Int /\ to \in Int
  BY <1>1
<1>3. \A i \in from..to : array[i] \in Order
  <2> SUFFICES ASSUME NEW i \in from..to PROVE array[i] \in Order
    OBVIOUS
  <2>1. i \in 1..Len(array)
    BY <1>1
  <2> QED
    BY <2>1, ElementOfSeq
<1> HIDE DEF to
<1>4. /\ SubSeq(array, from, to) \in Seq(Order)
      /\ Len(SubSeq(array, from, to)) = IF from <= to THEN to - from + 1 ELSE 0
      /\ \A i \in 1..(to - from + 1) : SubSeq(array, from, to)[i] = array[from + i - 1]
  <2>1. SubSeq(array, from, to) \in Seq(Order)
    BY <1>2, <1>3, SubSeqProperties, Zenon
  <2>2. Len(SubSeq(array, from, to)) = IF from <= to THEN to - from + 1 ELSE 0
    BY <1>2, <1>3, SubSeqProperties
  <2>3. \A i \in 1..(to - from + 1) : SubSeq(array, from, to)[i] = array[from + i - 1]
    BY <1>2, <1>3, SubSeqProperties
  <2> QED
    BY <2>1, <2>2, <2>3, Zenon
<1>5. to - from + 1 = n /\ (from <= to <=> n # 0)
  BY <1>1 DEF to
<1>6. /\ SubSeq(array, from, to) \in Seq(Order)
      /\ Len(SubSeq(array, from, to)) = n
      /\ \A i \in 1..n : SubSeq(array, from, to)[i] = array[from + i - 1]
  BY <1>1, <1>4, <1>5
<1> QED
  BY <1>6 DEF Part, to

\* The array is as it was, but for the places from, ..., from + n - 1.
Untouched(new, array, from, n) ==
    /\ new \in Seq(Order) /\ Len(new) = Len(array)
    /\ \A i \in 1..Len(array) : i < from \/ from + n <= i => new[i] = array[i]

\* No place is among the k from at on and among the n from from on.
Apart(at, k, from, n) == at + k <= from \/ from + n <= at

\* A part that lies apart from what was written is as it was.
LEMMA PartUntouched ==
    ASSUME NEW array \in Seq(Order), NEW new, NEW from, NEW n, NEW at, NEW k,
           InRange(array, at, k), from \in Nat, n \in Nat,
           Untouched(new, array, from, n), Apart(at, k, from, n)
    PROVE  Part(new, at, k) = Part(array, at, k)
<1>1. new \in Seq(Order) /\ InRange(new, at, k)
  BY DEF Untouched, InRange
<1>2. /\ Part(array, at, k) \in Seq(Order) /\ Part(new, at, k) \in Seq(Order)
      /\ Len(Part(array, at, k)) = k /\ Len(Part(new, at, k)) = k
  BY <1>1, PartType
<1>3. ASSUME NEW i \in 1..k
      PROVE  Part(new, at, k)[i] = Part(array, at, k)[i]
  <2>1. Part(array, at, k)[i] = array[at + i - 1] /\ Part(new, at, k)[i] = new[at + i - 1]
    BY <1>1, PartType
  <2>2. /\ at + i - 1 \in 1..Len(array)
        /\ at + i - 1 < from \/ from + n <= at + i - 1
    BY LenProperties DEF InRange, Apart
  <2> QED
    BY <2>1, <2>2 DEF Untouched
<1> QED
  BY <1>2, <1>3, SeqEqual

\* The halves of a part are parts, and make it up.
Halved(array, from, n, m) ==
    /\ InRange(array, from, m) /\ InRange(array, from + m, n - m)
    /\ SubSeq(Part(array, from, n), 1, m) = Part(array, from, m)
    /\ SubSeq(Part(array, from, n), m + 1, n) = Part(array, from + m, n - m)
    /\ Part(array, from, m) \o Part(array, from + m, n - m) = Part(array, from, n)

\* For any place m to divide at.
LEMMA PartHalves ==
    ASSUME NEW array \in Seq(Order), NEW from, NEW n, InRange(array, from, n),
           NEW m \in Nat, m <= n
    PROVE  Halved(array, from, n, m)
<1> DEFINE os == Part(array, from, n)
           a == Part(array, from, m)
           b == Part(array, from + m, n - m)
<1>1. from \in Nat \ {0} /\ n \in Nat /\ Len(array) \in Nat /\ from + n <= Len(array) + 1
  BY LenProperties DEF InRange
<1>2. InRange(array, from, m) /\ InRange(array, from + m, n - m)
  BY <1>1 DEF InRange
<1>3. /\ os \in Seq(Order) /\ Len(os) = n
      /\ \A i \in 1..n : os[i] = array[from + i - 1]
  BY PartType
<1>4. /\ a \in Seq(Order) /\ Len(a) = m
      /\ \A i \in 1..m : a[i] = array[from + i - 1]
  BY <1>2, PartType
<1>5. /\ b \in Seq(Order) /\ Len(b) = n - m
      /\ \A i \in 1..(n - m) : b[i] = array[(from + m) + i - 1]
  BY <1>2, PartType
<1> HIDE DEF os, a, b
<1>6. InRange(os, 1, m) /\ InRange(os, m + 1, n - m)
  BY <1>1, <1>3 DEF InRange
<1>7. SubSeq(os, 1, m) = a
  <2>1. Part(os, 1, m) = SubSeq(os, 1, m)
    <3>1. 1 + m - 1 = m
      OBVIOUS
    <3> QED
      BY <3>1 DEF Part
  <2>2. /\ Part(os, 1, m) \in Seq(Order) /\ Len(Part(os, 1, m)) = m
        /\ \A i \in 1..m : Part(os, 1, m)[i] = os[1 + i - 1]
    BY <1>3, <1>6, PartType
  <2>3. ASSUME NEW i \in 1..m PROVE Part(os, 1, m)[i] = a[i]
    <3>1. i \in 1..n /\ 1 + i - 1 = i
      BY <1>1
    <3> QED
      BY <1>3, <1>4, <2>2, <3>1
  <2>4. Part(os, 1, m) = a
    BY <1>4, <2>2, <2>3, SeqEqual
  <2> QED
    BY <2>1, <2>4
<1>8. SubSeq(os, m + 1, n) = b
  <2>1. Part(os, m + 1, n - m) = SubSeq(os, m + 1, n)
    <3>1. (m + 1) + (n - m) - 1 = n
      BY <1>1
    <3> QED
      BY <3>1 DEF Part
  <2>2. /\ Part(os, m + 1, n - m) \in Seq(Order) /\ Len(Part(os, m + 1, n - m)) = n - m
        /\ \A i \in 1..(n - m) : Part(os, m + 1, n - m)[i] = os[(m + 1) + i - 1]
    <3> DEFINE x == m + 1
               k == n - m
    <3>1. os \in Seq(Order) /\ InRange(os, x, k)
      BY <1>3, <1>6
    <3> HIDE DEF x, k
    <3>2. /\ Part(os, x, k) \in Seq(Order) /\ Len(Part(os, x, k)) = k
          /\ \A i \in 1..k : Part(os, x, k)[i] = os[x + i - 1]
      BY <3>1, PartType
    <3> QED
      BY <3>2, Zenon DEF x, k
  <2>3. ASSUME NEW i \in 1..(n - m) PROVE Part(os, m + 1, n - m)[i] = b[i]
    <3>1. m + i \in 1..n /\ (m + 1) + i - 1 = m + i /\ from + (m + i) - 1 = (from + m) + i - 1
      BY <1>1
    <3>2. os[m + i] = array[from + (m + i) - 1]
      BY <1>3, <3>1
    <3> QED
      BY <1>5, <2>2, <3>1, <3>2
  <2>4. Part(os, m + 1, n - m) = b
    BY <1>5, <2>2, <2>3, SeqEqual
  <2> QED
    BY <2>1, <2>4
<1>9. a \o b = os
  <2>1. /\ a \o b \in Seq(Order) /\ Len(a \o b) = Len(a) + Len(b)
        /\ \A i \in 1..(Len(a) + Len(b)) :
              (a \o b)[i] = IF i <= Len(a) THEN a[i] ELSE b[i - Len(a)]
    BY <1>4, <1>5, ConcatProperties
  <2>2. Len(a) + Len(b) = n
    BY <1>1, <1>4, <1>5
  <2>3. ASSUME NEW i \in 1..n PROVE (a \o b)[i] = os[i]
    <3>1. CASE i <= m
      <4>1. i \in 1..m
        BY <3>1
      <4> QED
        BY <1>3, <1>4, <2>1, <2>2, <3>1, <4>1
    <3>2. CASE ~ (i <= m)
      <4>1. i - m \in 1..(n - m) /\ (from + m) + (i - m) - 1 = from + i - 1
        BY <1>1, <3>2
      <4>2. (a \o b)[i] = b[i - m]
        BY <1>4, <2>1, <2>2, <3>2
      <4> QED
        BY <1>3, <1>5, <4>1, <4>2
    <3> QED
      BY <3>1, <3>2
  <2> QED
    BY <1>3, <2>1, <2>2, <2>3, SeqEqual
<1> QED
  BY <1>2, <1>7, <1>8, <1>9, Zenon DEF os, a, b, Halved

\* A slice of the call's own, or one that begins where the call's orders do.
Within(s, from, n) ==
    /\ s.own \in Seq(Order) /\ s.len \in Nat
    /\ s.len # 0 => s.from = from /\ s.len <= n

\* What is listed by a slice in the call's part.
LEMMA ListedShared ==
    ASSUME NEW array \in Seq(Order), NEW s, NEW from, NEW n, InRange(array, from, n),
           Within(s, from, n), s.len # 0
    PROVE  /\ InRange(array, from, s.len)
           /\ Listed(array, s) = Part(array, from, s.len)
<1>1. InRange(array, from, s.len)
  <2>1. /\ from \in Nat \ {0} /\ n \in Nat /\ s.len \in Nat /\ Len(array) \in Nat
        /\ from + n <= Len(array) + 1 /\ s.len <= n
    BY LenProperties DEF InRange, Within
  <2> QED
    BY <2>1 DEF InRange
<1> QED
  BY <1>1 DEF Within, Listed, Part

\* The places before, behind and in y orders that are written from end on, where
\* x orders from the place from on end, and n has room for all.
Written(from, x, y, n, end) ==
    \A i \in Nat :
        /\ (i < from \/ from + n <= i) => (i < end \/ end + y <= i)
        /\ (end <= i /\ i < end + y) => i - end + 1 \in 1..y
        /\ (end <= i /\ i < end + y) => ~ (i < end \/ end + y <= i)
        /\ (i \in 1..(x + y) /\ ~ (i <= x)) =>
               (/\ end <= from + i - 1 /\ from + i - 1 < end + y
                /\ (from + i - 1) - end + 1 = i - x)

\* What an append writes is so placed.
LEMMA Ends ==
    ASSUME NEW from \in Nat, NEW x \in Nat, NEW y \in Nat, NEW n \in Nat, NEW end,
           end = from + x, x + y <= n
    PROVE  Written(from, x, y, n, end)
BY DEF Written

\* append(s, t...) makes the list one expects, and while s begins where the
\* call's orders do and both lists are not longer than these, it writes to no
\* place outside of them.
LEMMA AppendToWithin ==
    ASSUME NEW array \in Seq(Order), NEW s, NEW t, NEW from, NEW n,
           InRange(array, from, n), Within(s, from, n),
           Listed(array, s) \in Seq(Order), Listed(array, t) \in Seq(Order),
           Len(Listed(array, s)) + Len(Listed(array, t)) <= n
    PROVE  LET r == AppendTo(array, s, t)
           IN  /\ Untouched(r.array, array, from, n)
               /\ Within(r.slice, from, n)
               /\ Listed(r.array, r.slice) = Listed(array, s) \o Listed(array, t)
<1> DEFINE q == Listed(array, s)
           list == Listed(array, t)
           end == s.from + s.len
           L == Len(array)
           new == [i \in DOMAIN array |->
                      IF end <= i /\ i < end + Len(list) THEN list[i - end + 1] ELSE array[i]]
           r == AppendTo(array, s, t)
<1>1. /\ from \in Nat \ {0} /\ n \in Nat /\ L \in Nat /\ from + n <= L + 1
      /\ DOMAIN array = 1..L
  BY LenProperties DEF InRange
<1>2. q \in Seq(Order) /\ list \in Seq(Order) /\ q \o list \in Seq(Order)
  BY ConcatProperties
<1>3. Len(q) \in Nat /\ Len(list) \in Nat
  BY <1>2, LenProperties
<1>4. s.len \in Nat
  BY DEF Within
<1>5. r = IF s.len = 0 \/ end + Len(list) > L + 1
          THEN [array |-> array, slice |-> Own(q \o list)]
          ELSE [array |-> new, slice |-> Shared(s.from, s.len + Len(list))]
  BY Zenon DEF AppendTo
<1>6. CASE s.len = 0
  <2>1. r.array = array /\ r.slice = Own(q \o list)
    BY <1>5, <1>6
  <2>2. Untouched(r.array, array, from, n)
    BY <2>1 DEF Untouched
  <2>3. /\ r.slice.own = q \o list /\ r.slice.len = 0
    BY <2>1 DEF Own
  <2>4. Within(r.slice, from, n) /\ Listed(r.array, r.slice) = q \o list
    BY <1>2, <2>3 DEF Within, Listed
  <2> QED
    BY <2>2, <2>4
<1>7. CASE s.len # 0
  <2>1. /\ InRange(array, from, s.len) /\ q = Part(array, from, s.len)
        /\ s.from = from /\ s.len <= n
    BY <1>7, ListedShared DEF Within
  <2>2. Len(q) = s.len /\ \A i \in 1..s.len : q[i] = array[from + i - 1]
    BY <2>1, PartType
  <2> DEFINE k == s.len + Len(list)
  <2>3. k \in Nat /\ k <= n /\ k # 0 /\ end = from + s.len /\ end \in Nat
    BY <1>1, <1>3, <1>4, <1>7, <2>1, <2>2
  <2>4. end + Len(list) <= L + 1 /\ end + Len(list) = from + k
    BY <1>1, <1>3, <1>4, <2>3
  <2>5. r.array = new /\ r.slice = Shared(from, k)
    <3> HIDE DEF new
    <3>1. ~ (s.len = 0 \/ end + Len(list) > L + 1)
      BY <1>1, <1>3, <1>7, <2>3, <2>4
    <3> QED
      BY <1>5, <2>1, <3>1
  <2>55. \A i \in Nat :
            /\ (i < from \/ from + n <= i) => (i < end \/ end + Len(list) <= i)
            /\ (end <= i /\ i < end + Len(list)) => i - end + 1 \in 1..Len(list)
            /\ (end <= i /\ i < end + Len(list)) => ~ (i < end \/ end + Len(list) <= i)
            /\ (i \in 1..k /\ ~ (i <= s.len)) =>
                   (/\ end <= from + i - 1 /\ from + i - 1 < end + Len(list)
                    /\ (from + i - 1) - end + 1 = i - s.len)
    <3> DEFINE x == s.len
               y == Len(list)
    <3>1. /\ from \in Nat /\ x \in Nat /\ y \in Nat /\ n \in Nat
          /\ end = from + x /\ x + y <= n
      <4>1. x \in Nat /\ y \in Nat
        BY <1>3, <1>4
      <4>2. from \in Nat /\ n \in Nat
        BY <1>1
      <4> QED
        BY <2>3, <4>1, <4>2 DEF k
    <3> HIDE DEF x, y, end
    <3>2. Written(from, x, y, n, end)
      BY <3>1, Ends
    <3> QED
      BY <3>2, Zenon DEF x, y, k, Written
  <2> HIDE DEF q, list, end, L, k, r
  <2>6. ASSUME NEW i \in 1..L
        PROVE  /\ new[i] \in Order
               /\ i < end \/ end + Len(list) <= i => new[i] = array[i]
               /\ end <= i /\ i < end + Len(list) => new[i] = list[i - end + 1]
    <3>0. i \in Nat
      BY <1>1
    <3>1. new[i] = IF end <= i /\ i < end + Len(list) THEN list[i - end + 1] ELSE array[i]
      BY <1>1
    <3>2. array[i] \in Order
      BY ElementOfSeq DEF L
    <3> HIDE DEF new
    <3>3. CASE end <= i /\ i < end + Len(list)
      <4>1. /\ i - end + 1 \in 1..Len(list)
            /\ ~ (i < end \/ end + Len(list) <= i)
        BY <2>55, <3>0, <3>3, Zenon
      <4>2. list[i - end + 1] \in Order
        BY <1>2, <4>1, ElementOfSeq
      <4> QED
        BY <3>1, <3>3, <4>1, <4>2, Zenon
    <3>4. CASE ~ (end <= i /\ i < end + Len(list))
      BY <3>1, <3>2, <3>4
    <3> QED
      BY <3>3, <3>4
  <2>7. new \in Seq(Order) /\ Len(new) = L
    <3>1. new \in [1..L -> Order]
      BY <1>1, <2>6
    <3>2. DOMAIN new = 1..L
      BY <3>1
    <3> HIDE DEF new
    <3>3. new \in Seq(Order)
      BY <1>1, <3>1, SeqDef
    <3>4. DOMAIN new = 1..Len(new) /\ Len(new) \in Nat
      BY <3>3, LenProperties
    <3> QED
      BY <1>1, <3>2, <3>3, <3>4
  <2> HIDE DEF new
  <2>8. Untouched(new, array, from, n)
    <3>1. ASSUME NEW i \in 1..L, i < from \/ from + n <= i
          PROVE  new[i] = array[i]
      <4>1. i < end \/ end + Len(list) <= i
        <5>1. i \in Nat
          BY <1>1
        <5> QED
          BY <2>55, <3>1, <5>1, Zenon
      <4> QED
        BY <2>6, <4>1
    <3> QED
      BY <2>7, <3>1 DEF Untouched, L
  <2>9. r.slice.own = << >> /\ r.slice.len = k /\ r.slice.from = from
    BY <2>5 DEF Shared
  <2>10. Within(r.slice, from, n)
    BY <2>3, <2>9, EmptySeq DEF Within
  <2>11. Listed(new, r.slice) = Part(new, from, k)
    BY <2>3, <2>9 DEF Listed, Part
  <2>12. InRange(new, from, k)
    BY <1>1, <2>3, <2>7 DEF InRange
  <2>13. /\ Part(new, from, k) \in Seq(Order) /\ Len(Part(new, from, k)) = k
         /\ \A i \in 1..k : Part(new, from, k)[i] = new[from + i - 1]
    BY <2>7, <2>12, PartType
  <2>14. /\ Len(q \o list) = k
         /\ \A i \in 1..k : (q \o list)[i] = IF i <= s.len THEN q[i] ELSE list[i - s.len]
    <3>1. /\ Len(q \o list) = Len(q) + Len(list)
          /\ \A i \in 1..(Len(q) + Len(list)) :
                (q \o list)[i] = IF i <= Len(q) THEN q[i] ELSE list[i - Len(q)]
      BY <1>2, ConcatProperties
    <3> QED
      BY <2>2, <3>1 DEF k
  <2>15. ASSUME NEW i \in 1..k
         PROVE  Part(new, from, k)[i] = (q \o list)[i]
    <3>1. from + i - 1 \in 1..L
      BY <1>1, <2>3
    <3>2. CASE i <= s.len
      <4>1. from + i - 1 < end /\ i \in 1..s.len
        BY <1>1, <1>4, <2>3, <3>2
      <4>2. new[from + i - 1] = array[from + i - 1]
        BY <2>6, <3>1, <4>1
      <4> QED
        BY <2>2, <2>13, <2>14, <3>2, <4>1, <4>2
    <3>3. CASE ~ (i <= s.len)
      <4>1. /\ end <= from + i - 1 /\ from + i - 1 < end + Len(list)
            /\ (from + i - 1) - end + 1 = i - s.len
        <5>1. i \in Nat
          BY <2>3
        <5> QED
          BY <2>55, <3>3, <5>1, Zenon
      <4>2. new[from + i - 1] = list[(from + i - 1) - end + 1]
        BY <2>6, <3>1, <4>1
      <4> QED
        BY <2>13, <2>14, <3>3, <4>1, <4>2
    <3> QED
      BY <3>2, <3>3
  <2>16. Part(new, from, k) = q \o list
    BY <1>2, <2>13, <2>14, <2>15, SeqEqual
  <2> QED
    BY <2>5, <2>8, <2>10, <2>11, <2>16 DEF q, list, r
<1> QED
  BY <1>6, <1>7

(***************************************************************************)
(* The recursion                                                           *)
(***************************************************************************)

\* The calls a call makes, by name: its split, what its calls for the halves
\* return, and what it makes of it.
SplitOf(os, m, n, c) == SplitAt(SubSeq(os, 1, m), SubSeq(os, m + 1, n), c)

Split(n, array, from, c) == SplitOf(Part(array, from, n), n \div 2, n, c)

Solution1(find, n, array, from, c) == find[n \div 2][array][from][Split(n, array, from, c)]

Solution2(find, n, array, from, c) ==
    find[n - n \div 2][Solution1(find, n, array, from, c).array]
        [from + n \div 2][c - Split(n, array, from, c)]

Join(solution1, solution2) == AppendTo(solution2.array, solution1.slice, solution2.slice)

SingleSlice(n, array, from, c) ==
    IF n = 1 /\ array[from].Weight <= c THEN Shared(from, 1) ELSE Own(<< >>)

\* FindStep, with its calls by name.
LEMMA FindStepCases ==
    ASSUME NEW find, NEW n, NEW array, NEW from, NEW c
    PROVE  FindStep(find, n, array, from, c) =
              IF n <= 1 THEN [array |-> array, slice |-> SingleSlice(n, array, from, c)]
              ELSE IF n * c <= Threshold
              THEN [array |-> array,
                    slice |-> Own(SolveKnapsackIterative(Part(array, from, n), c))]
              ELSE Join(Solution1(find, n, array, from, c), Solution2(find, n, array, from, c))
BY Zenon DEF FindStep, SingleSlice, Part, Split, SplitOf, Solution1, Solution2, Join

\* Both halves are smaller.
LEMMA Halving ==
    ASSUME NEW n \in Nat, ~ (n <= 1)
    PROVE  /\ n \div 2 \in Nat /\ n \div 2 < n /\ n - n \div 2 \in Nat /\ n - n \div 2 < n
           /\ n \div 2 <= n
<1>1. \A k \in Nat : 1 < k => k \div 2 \in 1..(k - 1)
  BY SMTT(30)
<1>2. 1 < n
  OBVIOUS
<1>3. n \div 2 \in 1..(n - 1)
  BY <1>1, <1>2
<1> DEFINE m == n \div 2
<1> HIDE DEF m
<1>4. m \in 1..(n - 1)
  BY <1>3 DEF m
<1>5. m \in Nat /\ m < n /\ n - m \in Nat /\ n - m < n /\ m <= n
  BY <1>4
<1> QED
  BY <1>5, Zenon DEF m

\* f and g answer alike for fewer than n orders.
SameBelow(f, g, n) == \A k \in Nat : k < n => f[k] = g[k]

\* A call depends on its answers for fewer orders only.
LEMMA FindStepLocal ==
    ASSUME NEW f, NEW g, NEW n \in Nat, SameBelow(f, g, n), NEW array, NEW from, NEW c
    PROVE  FindStep(f, n, array, from, c) = FindStep(g, n, array, from, c)
<1>1. CASE n <= 1
  BY <1>1, FindStepCases
<1>2. CASE ~ (n <= 1)
  <2>1. f[n \div 2] = g[n \div 2] /\ f[n - n \div 2] = g[n - n \div 2]
    BY <1>2, Halving, Zenon DEF SameBelow
  <2>2. Solution1(f, n, array, from, c) = Solution1(g, n, array, from, c)
    BY <2>1, Zenon DEF Solution1
  <2>3. Solution2(f, n, array, from, c) = Solution2(g, n, array, from, c)
    BY <2>1, <2>2, Zenon DEF Solution2
  <2> QED
    BY <2>2, <2>3, FindStepCases, Zenon
<1> QED
  BY <1>1, <1>2

\* What findBestSetRecursive is for n orders, if f answers the calls it makes.
Call(f, n) ==
    [array \in Seq(Order) |-> [from \in Nat |-> [c \in Nat |-> FindStep(f, n, array, from, c)]]]

\* f answers as findBestSetRecursive does for up to n orders.
Answers(f, n) == \A k \in Nat : k <= n => f[k] = Call(f, k)

\* So does the whole function that a call is.
LEMMA CallLocal ==
    ASSUME NEW f, NEW g, NEW n \in Nat, SameBelow(f, g, n)
    PROVE  Call(f, n) = Call(g, n)
<1>1. \A array, from, c : FindStep(f, n, array, from, c) = FindStep(g, n, array, from, c)
  BY FindStepLocal
<1> QED
  BY <1>1, Zenon DEF Call

\* For up to n orders there is something that answers the calls.
LEMMA AnswersExist ==
    ASSUME NEW n \in Nat
    PROVE  \E f : Answers(f, n)
<1> DEFINE T == {k \in Nat : \E f : Answers(f, k)}
<1>1. 0 \in T
  <2> DEFINE f == [k \in Nat |-> Call(<< >>, k)]
  <2>1. ASSUME NEW k \in Nat, k <= 0
        PROVE  f[k] = Call(f, k)
    <3>1. f[k] = Call(<< >>, k)
      OBVIOUS
    <3> HIDE DEF f
    <3>2. SameBelow(<< >>, f, k)
      BY <2>1 DEF SameBelow
    <3> QED
      BY <3>1, <3>2, CallLocal
  <2> HIDE DEF f
  <2>2. Answers(f, 0)
    BY <2>1 DEF Answers
  <2> QED
    BY <2>2
<1>2. ASSUME NEW k \in Nat, k \in T
      PROVE  k + 1 \in T
  <2>1. PICK f : Answers(f, k)
    BY <1>2
  <2> DEFINE g == [j \in Nat |-> IF j <= k THEN f[j] ELSE Call(f, j)]
  <2>2. \A j \in Nat : g[j] = IF j <= k THEN f[j] ELSE Call(f, j)
    BY Zenon
  <2> HIDE DEF g
  <2>3. ASSUME NEW j \in Nat, j <= k + 1
        PROVE  g[j] = Call(g, j)
    <3>1. SameBelow(f, g, j)
      <4> SUFFICES ASSUME NEW i \in Nat, i < j PROVE f[i] = g[i]
        BY DEF SameBelow
      <4>1. i <= k
        BY <2>3
      <4> QED
        BY <2>2, <4>1
    <3>2. Call(f, j) = Call(g, j)
      BY <3>1, CallLocal
    <3>3. j <= k => f[j] = Call(f, j)
      BY <2>1 DEF Answers
    <3>4. g[j] = Call(f, j)
      BY <2>2, <3>3
    <3> QED
      BY <3>2, <3>4, Zenon
  <2>4. Answers(g, k + 1)
    BY <2>3 DEF Answers
  <2> QED
    BY <2>4
<1>3. n \in T
  <2> HIDE DEF T
  <2> QED
    BY <1>1, <1>2, Induct, Zenon
<1> QED
  BY <1>3

\* What answers the calls for up to n orders is determined.
LEMMA AnswersAgree ==
    ASSUME NEW n \in Nat, NEW f, NEW g, Answers(f, n), Answers(g, n)
    PROVE  f[n] = g[n]
<1> DEFINE T == {k \in Nat : k <= n + 1 => SameBelow(f, g, k)}
<1>1. 0 \in T
  BY DEF SameBelow
<1>2. ASSUME NEW k \in Nat, k \in T
      PROVE  k + 1 \in T
  <2> SUFFICES ASSUME k + 1 <= n + 1 PROVE SameBelow(f, g, k + 1)
    BY <1>2
  <2>1. k <= n /\ k <= n + 1
    OBVIOUS
  <2>2. SameBelow(f, g, k)
    BY <1>2, <2>1
  <2>3. Call(f, k) = Call(g, k)
    BY <2>2, CallLocal
  <2>4. f[k] = Call(f, k) /\ g[k] = Call(g, k)
    BY <2>1 DEF Answers
  <2>5. f[k] = g[k]
    BY <2>3, <2>4, Zenon
  <2> QED
    BY <2>2, <2>5 DEF SameBelow
<1>3. n + 1 \in T
  <2> HIDE DEF T
  <2> QED
    BY <1>1, <1>2, Induct
<1> QED
  BY <1>3 DEF SameBelow

\* The recursion has a solution, and FindBestSet is it.
LEMMA FindBestSetEquation ==
    ASSUME NEW n \in Nat
    PROVE  FindBestSet[n] = Call(FindBestSet, n)
<1> DEFINE Solves(f) == f = [k \in Nat |-> Call(f, k)]
           answer(k) == CHOOSE f : Answers(f, k)
           F == [k \in Nat |-> answer(k)[k]]
<1>1. \A k \in Nat : Answers(answer(k), k)
  BY AnswersExist, Zenon
<1>2. \A k \in Nat : F[k] = answer(k)[k]
  BY Zenon
<1> HIDE DEF answer
<1>3. ASSUME NEW k \in Nat
      PROVE  F[k] = Call(F, k)
  <2> DEFINE g == answer(k)
  <2>1. Answers(g, k)
    BY <1>1
  <2>2. F[k] = g[k]
    BY <1>2
  <2> HIDE DEF F, g
  <2>3. SameBelow(F, g, k)
    <3> SUFFICES ASSUME NEW j \in Nat, j < k PROVE F[j] = g[j]
      BY DEF SameBelow
    <3>1. Answers(g, j)
      BY <2>1 DEF Answers
    <3>2. answer(j)[j] = g[j]
      BY <1>1, <3>1, AnswersAgree
    <3> QED
      BY <1>2, <3>2
  <2>4. Call(F, k) = Call(g, k)
    BY <2>3, CallLocal
  <2>5. g[k] = Call(g, k)
    BY <2>1 DEF Answers
  <2> QED
    BY <2>2, <2>4, <2>5, Zenon
<1>4. Solves(F)
  <2>1. F = [k \in Nat |-> F[k]]
    BY <1>2, Zenon
  <2> HIDE DEF F
  <2> QED
    BY <1>3, <2>1, Zenon
<1>5. FindBestSet = CHOOSE f : Solves(f)
  BY Zenon DEF FindBestSet, Call
<1>6. Solves(FindBestSet)
  <2> HIDE DEF Solves, F
  <2> QED
    BY <1>4, <1>5, Zenon
<1> QED
  BY <1>6, Zenon

(***************************************************************************)
(* What the recursion returns                                              *)
(***************************************************************************)

\* Two writes into places of one part.
LEMMA UntouchedTwice ==
    ASSUME NEW array \in Seq(Order), NEW x, NEW y, NEW from \in Nat, NEW n \in Nat,
           NEW at \in Nat, NEW k \in Nat, from <= at, at + k <= from + n,
           Untouched(x, array, from, n), Untouched(y, x, at, k)
    PROVE  Untouched(y, array, from, n)
<1>1. /\ y \in Seq(Order) /\ Len(y) = Len(array) /\ Len(x) = Len(array)
      /\ Len(array) \in Nat
  BY LenProperties DEF Untouched
<1>2. ASSUME NEW i \in 1..Len(array), i < from \/ from + n <= i
      PROVE  y[i] = array[i]
  <2>1. i < at \/ at + k <= i
    BY <1>1, <1>2
  <2>2. y[i] = x[i]
    BY <1>1, <2>1 DEF Untouched
  <2>3. x[i] = array[i]
    BY <1>2 DEF Untouched
  <2> QED
    BY <2>2, <2>3
<1> QED
  BY <1>1, <1>2 DEF Untouched

\* A slice lists what it listed while its own part is not written to.
LEMMA ListedUntouched ==
    ASSUME NEW array \in Seq(Order), NEW new, NEW s, NEW from, NEW m, NEW at, NEW k,
           InRange(array, from, m), Within(s, from, m),
           at = from + m, k \in Nat, Untouched(new, array, at, k)
    PROVE  Listed(new, s) = Listed(array, s)
<1>1. CASE s.len = 0
  BY <1>1 DEF Listed
<1>2. CASE s.len # 0
  <2>1. new \in Seq(Order) /\ InRange(new, from, m)
    BY DEF Untouched, InRange
  <2>2. /\ InRange(array, from, s.len)
        /\ Listed(array, s) = Part(array, from, s.len)
        /\ Listed(new, s) = Part(new, from, s.len)
    BY <1>2, <2>1, ListedShared
  <2>3. /\ from \in Nat /\ m \in Nat /\ s.len \in Nat /\ s.len <= m
    BY <1>2 DEF Within, InRange
  <2>4. at \in Nat /\ Apart(from, s.len, at, k)
    BY <2>3 DEF Apart
  <2>5. Part(new, from, s.len) = Part(array, from, s.len)
    BY <2>2, <2>4, PartUntouched
  <2> QED
    BY <2>2, <2>5
<1> QED
  BY <1>1, <1>2

\* A single order is kept or not.
LEMMA FittingOne ==
    ASSUME NEW os \in Seq(Order), NEW c \in Nat, Len(os) = 1
    PROVE  Fitting(os, c) = IF os[1].Weight <= c THEN os ELSE << >>
<1>1. os # << >>
  BY EmptySeq
<1>2. PICK s \in Seq(Order), o \in Order : os = Append(s, o)
  BY <1>1, SequenceEmptyOrAppend
<1>3. Len(s) \in Nat /\ Len(os) = Len(s) + 1 /\ os[Len(s) + 1] = o
  BY <1>2, AppendProperties, LenProperties
<1>4. Len(s) = 0
  <2>1. Len(s) + 1 = 1
    BY <1>3
  <2> QED
    BY <1>3, <2>1, SMTT(30)
<1>5. s = << >> /\ os[1] = o
  BY <1>3, <1>4, EmptySeq
<1>6. Fitting(os, c) = Keep(s, o, c)
  <2>1. Fitting(s, c) = s
    BY <1>5, FittingEmpty
  <2> QED
    BY <1>2, <2>1, FittingAppend
<1> QED
  BY <1>2, <1>5, <1>6 DEF Keep

\* What a call for the n orders that begin at from returns: it wrote to no place
\* outside of them, and its slice lists a best selection of what they were.
Found(r, array, from, n, c) ==
    /\ Untouched(r.array, array, from, n)
    /\ Within(r.slice, from, n)
    /\ BestSet(Listed(r.array, r.slice), Part(array, from, n), c)

\* Nothing was written.
LEMMA UntouchedSelf ==
    ASSUME NEW array \in Seq(Order), NEW from, NEW n
    PROVE  Untouched(array, array, from, n)
BY DEF Untouched

\* A list of its own leaves the array alone.
LEMMA FoundOwn ==
    ASSUME NEW array \in Seq(Order), NEW from, NEW n, NEW c, NEW list,
           BestSet(list, Part(array, from, n), c)
    PROVE  Found([array |-> array, slice |-> Own(list)], array, from, n, c)
<1>1. Own(list).own = list /\ Own(list).len = 0
  BY DEF Own
<1>2. list \in Seq(Order)
  BY DEF BestSet
<1>3. Within(Own(list), from, n)
  BY <1>1, <1>2 DEF Within
<1>4. Listed(array, Own(list)) = list
  BY <1>1 DEF Listed
<1> DEFINE r == [array |-> array, slice |-> Own(list)]
<1>5. r.array = array /\ r.slice = Own(list)
  OBVIOUS
<1> HIDE DEF r
<1>6. Found(r, array, from, n, c)
  BY <1>3, <1>4, <1>5, UntouchedSelf DEF Found
<1> QED
  BY <1>6 DEF r

\* A call for at most one order.
LEMMA FoundSingle ==
    ASSUME NEW array \in Seq(Order), NEW from, NEW n, NEW c \in Nat,
           InRange(array, from, n), n <= 1
    PROVE  Found([array |-> array, slice |-> SingleSlice(n, array, from, c)], array, from, n, c)
<1> DEFINE os == Part(array, from, n)
<1>1. /\ os \in Seq(Order) /\ Len(os) = n /\ n \in Nat /\ from \in Nat
      /\ \A i \in 1..n : os[i] = array[from + i - 1]
  BY PartType DEF InRange
<1>2. BestSet(Fitting(os, c), os, c)
  BY <1>1, FittingSmallBest
<1> HIDE DEF os
<1>3. CASE n = 0
  <2>1. os = << >>
    BY <1>1, <1>3, EmptySeq
  <2>2. Fitting(os, c) = << >>
    BY <2>1, FittingEmpty
  <2>3. SingleSlice(n, array, from, c) = Own(<< >>)
    BY <1>3 DEF SingleSlice
  <2> QED
    BY <1>2, <2>2, <2>3, FoundOwn DEF os
<1>4. CASE n = 1
  <2>1. os[1] = array[from]
    BY <1>1, <1>4
  <2>2. Fitting(os, c) = IF os[1].Weight <= c THEN os ELSE << >>
    BY <1>1, <1>4, FittingOne
  <2>3. CASE os[1].Weight <= c
    <3> DEFINE s == SingleSlice(n, array, from, c)
               r == [array |-> array, slice |-> s]
    <3>1. s = Shared(from, 1)
      BY <1>4, <2>1, <2>3 DEF SingleSlice
    <3>2. s.own = << >> /\ s.from = from /\ s.len = 1
      BY <3>1 DEF Shared
    <3>3. r.array = array /\ r.slice = s
      OBVIOUS
    <3> HIDE DEF s, r
    <3>4. Within(s, from, n)
      BY <1>4, <3>2, EmptySeq DEF Within
    <3>5. Listed(array, s) = os
      BY <1>4, <3>2 DEF Listed, os, Part
    <3>6. BestSet(Listed(array, s), os, c)
      BY <1>2, <2>2, <2>3, <3>5
    <3>7. Found(r, array, from, n, c)
      BY <3>3, <3>4, <3>6, UntouchedSelf DEF Found, os
    <3> QED
      BY <3>7 DEF r, s
  <2>4. CASE ~ (os[1].Weight <= c)
    <3>1. SingleSlice(n, array, from, c) = Own(<< >>)
      BY <2>1, <2>4 DEF SingleSlice
    <3>2. Fitting(os, c) = << >>
      BY <2>2, <2>4
    <3> QED
      BY <1>2, <3>1, <3>2, FoundOwn DEF os
  <2> QED
    BY <2>3, <2>4
<1> QED
  BY <1>1, <1>3, <1>4

\* A call that divides: when the calls for the halves returned what they should,
\* so does it.  The second half was not written to by the call for the first,
\* nor what that call lists by the call for the second.
LEMMA FoundJoin ==
    ASSUME NEW array \in Seq(Order), NEW from, NEW n, NEW c \in Nat,
           InRange(array, from, n), NEW m \in Nat, m <= n,
           NEW w, w = SplitOf(Part(array, from, n), m, n, c),
           NEW s1, Found(s1, array, from, m, w),
           NEW s2, Found(s2, s1.array, from + m, n - m, c - w)
    PROVE  Found(Join(s1, s2), array, from, n, c)
<1> DEFINE a == Part(array, from, m)
           b == Part(array, from + m, n - m)
           at == from + m
           k == n - m
           q == Listed(s2.array, s1.slice)
           t == Listed(s2.array, s2.slice)
           r == Join(s1, s2)
<1>1. /\ from \in Nat \ {0} /\ n \in Nat /\ Len(array) \in Nat /\ from + n <= Len(array) + 1
      /\ at \in Nat \ {0} /\ k \in Nat /\ at + k = from + n /\ from <= at
  BY LenProperties DEF InRange
<1>2. /\ InRange(array, from, m) /\ InRange(array, at, k)
      /\ SubSeq(Part(array, from, n), 1, m) = a
      /\ SubSeq(Part(array, from, n), m + 1, n) = b
      /\ a \o b = Part(array, from, n)
  <2>1. Halved(array, from, n, m)
    BY PartHalves
  <2> QED
    BY <2>1, Zenon DEF Halved
<1>3. /\ a \in Seq(Order) /\ Len(a) = m /\ b \in Seq(Order) /\ Len(b) = k
  BY <1>2, PartType
<1>4. /\ Untouched(s1.array, array, from, m) /\ Within(s1.slice, from, m)
      /\ BestSet(Listed(s1.array, s1.slice), a, w)
  BY DEF Found
<1>5. /\ Untouched(s2.array, s1.array, at, k) /\ Within(s2.slice, at, k)
      /\ BestSet(Listed(s2.array, s2.slice), Part(s1.array, at, k), c - w)
  BY DEF Found
<1>6. w = SplitAt(a, b, c)
  BY <1>2, Zenon DEF SplitOf
<1> HIDE DEF a, b, k, q, t, r
<1>7. /\ s1.array \in Seq(Order) /\ Len(s1.array) = Len(array)
      /\ s2.array \in Seq(Order) /\ Len(s2.array) = Len(array)
  BY <1>4, <1>5 DEF Untouched
<1>8. BestSet(t, b, c - w)
  <2>1. Part(s1.array, at, k) = Part(array, at, k)
    <3>1. Apart(at, k, from, m)
      BY <1>1 DEF Apart
    <3> DEFINE x == s1.array
    <3>2. from \in Nat
      BY <1>1
    <3>3. InRange(array, at, k) /\ Untouched(x, array, from, m)
      BY <1>2, <1>4, Zenon
    <3> HIDE DEF at, x
    <3>4. Part(x, at, k) = Part(array, at, k)
      BY <3>1, <3>2, <3>3, PartUntouched
    <3> QED
      BY <3>4 DEF x
  <2> QED
    BY <1>5, <2>1 DEF b, t, k
<1>9. BestSet(q, a, w)
  <2>1. InRange(s1.array, from, m)
    BY <1>2, <1>7 DEF InRange
  <2>2. Listed(s2.array, s1.slice) = Listed(s1.array, s1.slice)
    BY <1>1, <1>4, <1>5, <1>7, <2>1, ListedUntouched
  <2> QED
    BY <1>4, <2>2 DEF q
<1>10. BestSet(q \o t, Part(array, from, n), c)
  BY <1>2, <1>3, <1>6, <1>8, <1>9, SplitBest
<1>11. q \in Seq(Order) /\ t \in Seq(Order) /\ Len(q) + Len(t) <= n
  <2>1. q \in Seq(Order) /\ t \in Seq(Order) /\ Len(q) <= m /\ Len(t) <= k
    BY <1>3, <1>8, <1>9 DEF BestSet, Picked
  <2>2. Len(q) \in Nat /\ Len(t) \in Nat
    BY <2>1, LenProperties
  <2>3. m + k = n
    BY <1>1 DEF k
  <2> QED
    BY <1>1, <2>1, <2>2, <2>3
<1>12. InRange(s2.array, from, n) /\ Within(s1.slice, from, n)
  <2>1. InRange(s2.array, from, n)
    BY <1>7 DEF InRange
  <2>2. Within(s1.slice, from, n)
    BY <1>1, <1>4 DEF Within
  <2> QED
    BY <2>1, <2>2
<1>13. r = AppendTo(s2.array, s1.slice, s2.slice)
  BY Zenon DEF r, Join
<1>14. /\ Untouched(r.array, s2.array, from, n) /\ Within(r.slice, from, n)
       /\ Listed(r.array, r.slice) = q \o t
  BY <1>7, <1>11, <1>12, <1>13, AppendToWithin, Zenon DEF q, t
<1>15. Untouched(r.array, array, from, n)
  <2>1. Untouched(s1.array, array, from, n)
    <3>1. from + m <= from + n
      BY <1>1
    <3>2. Untouched(array, array, from, n)
      BY UntouchedSelf
    <3> QED
      BY <1>1, <1>4, <3>1, <3>2, UntouchedTwice
  <2>2. Untouched(s2.array, array, from, n)
    <3>1. at + k <= from + n /\ from <= at /\ from \in Nat /\ at \in Nat
      BY <1>1
    <3> HIDE DEF at
    <3> QED
      BY <1>1, <1>5, <2>1, <3>1, UntouchedTwice
  <2> QED
    BY <1>1, <1>14, <2>2, UntouchedTwice
<1>16. Found(r, array, from, n, c)
  BY <1>10, <1>14, <1>15 DEF Found
<1> QED
  BY <1>16 DEF r

\* findBestSetRecursive returns a best selection, however it divides, and while
\* the calls write into the array they were given.
LEMMA FindBestSetBest ==
    ASSUME NEW array \in Seq(Order), NEW from, NEW n, NEW c \in Nat, InRange(array, from, n)
    PROVE  Found(FindBestSet[n][array][from][c], array, from, n, c)
<1> DEFINE Solved(k) == \A ar \in Seq(Order), at \in Nat, d \in Nat :
                            InRange(ar, at, k) => Found(FindBestSet[k][ar][at][d], ar, at, k, d)
           T == {j \in Nat : \A k \in Nat : k < j => Solved(k)}
<1>1. 0 \in T
  BY DEF T
<1>2. ASSUME NEW j \in Nat, j \in T
      PROVE  j + 1 \in T
  <2>1. ASSUME NEW ar \in Seq(Order), NEW at \in Nat, NEW d \in Nat, InRange(ar, at, j)
        PROVE  Found(FindBestSet[j][ar][at][d], ar, at, j, d)
    <3> DEFINE m == j \div 2
               k == j - j \div 2
               w == Split(j, ar, at, d)
               s1 == Solution1(FindBestSet, j, ar, at, d)
               s2 == Solution2(FindBestSet, j, ar, at, d)
    <3>1. FindBestSet[j][ar][at][d] = FindStep(FindBestSet, j, ar, at, d)
      <4>1. FindBestSet[j] = Call(FindBestSet, j)
        BY FindBestSetEquation
      <4>2. Call(FindBestSet, j)[ar][at][d] = FindStep(FindBestSet, j, ar, at, d)
        BY Zenon DEF Call
      <4> QED
        BY <4>1, <4>2, Zenon
    <3>2. CASE j <= 1
      BY <2>1, <3>1, <3>2, FindStepCases, FoundSingle
    <3>3. CASE ~ (j <= 1) /\ j * d <= Threshold
      <4>1. FindStep(FindBestSet, j, ar, at, d) =
                [array |-> ar, slice |-> Own(SolveKnapsackIterative(Part(ar, at, j), d))]
        BY <3>3, FindStepCases, Zenon
      <4>2. Part(ar, at, j) \in Seq(Order)
        BY <2>1, PartType
      <4> QED
        BY <3>1, <4>1, <4>2, SolveKnapsackIterativeBest, FoundOwn
    <3>4. CASE ~ (j <= 1) /\ ~ (j * d <= Threshold)
      <4>1. FindStep(FindBestSet, j, ar, at, d) = Join(s1, s2)
        BY <3>4, FindStepCases, Zenon
      <4>2. m \in Nat /\ m < j /\ k \in Nat /\ k < j /\ m <= j
        BY <3>4, Halving
      <4>3. w = SplitOf(Part(ar, at, j), m, j, d)
        BY Zenon DEF Split
      <4>4. s1 = FindBestSet[m][ar][at][w] /\ s2 = FindBestSet[k][s1.array][at + m][d - w]
        BY Zenon DEF Solution1, Solution2
      <4>5. k = j - m
        OBVIOUS
      <4>6. Solved(m) /\ Solved(k)
        BY <1>2, <4>2
      <4> HIDE DEF m, k, w, s1, s2
      <4>7. /\ InRange(ar, at, m) /\ InRange(ar, at + m, k)
            /\ SubSeq(Part(ar, at, j), 1, m) = Part(ar, at, m)
            /\ SubSeq(Part(ar, at, j), m + 1, j) = Part(ar, at + m, k)
        <5>1. Halved(ar, at, j, m)
          BY <2>1, <4>2, PartHalves
        <5> QED
          BY <4>5, <5>1, Zenon DEF Halved
      <4>8. w \in 0..d
        <5>1. Part(ar, at, m) \in Seq(Order) /\ Part(ar, at + m, k) \in Seq(Order)
          BY <4>7, PartType
        <5>2. w = SplitAt(Part(ar, at, m), Part(ar, at + m, k), d)
          BY <4>3, <4>7, Zenon DEF SplitOf
        <5> QED
          BY <5>1, <5>2, SplitAtBest
      <4>9. w \in Nat /\ d - w \in Nat /\ at + m \in Nat
        BY <4>2, <4>8
      <4>10. Found(s1, ar, at, m, w)
        BY <4>4, <4>6, <4>7, <4>9
      <4>11. s1.array \in Seq(Order) /\ InRange(s1.array, at + m, k)
        BY <4>7, <4>10 DEF Found, Untouched, InRange
      <4>12. Found(s2, s1.array, at + m, k, d - w)
        BY <4>4, <4>6, <4>9, <4>11
      <4>13. Found(Join(s1, s2), ar, at, j, d)
        BY <2>1, <4>2, <4>3, <4>5, <4>10, <4>12, FoundJoin
      <4> QED
        BY <3>1, <4>1, <4>13 DEF s1, s2
    <3> QED
      BY <3>2, <3>3, <3>4
  <2>2. Solved(j)
    BY <2>1
  <2> HIDE DEF Solved
  <2>3. \A k \in Nat : k < j + 1 => k < j \/ k = j
    OBVIOUS
  <2> QED
    BY <1>2, <2>2, <2>3
<1>3. n \in Nat /\ from \in Nat
  BY DEF InRange
<1>4. n + 1 \in T
  <2> HIDE DEF T
  <2> QED
    BY <1>1, <1>2, <1>3, Induct
<1>5. Solved(n)
  BY <1>3, <1>4
<1> QED
  BY <1>3, <1>5

(***************************************************************************)
(* The plan                                                                *)
(***************************************************************************)

\* If everything that fits alone also fits together, it is the best there is.
LEMMA AllFitBest ==
    ASSUME NEW os \in Seq(Order), NEW c \in Nat, Weight(os) <= c
    PROVE  Best(os, c, Value(os))
<1>1. DOMAIN os \in SUBSET Nat
  <2>1. DOMAIN os = 1..Len(os) /\ Len(os) \in Nat
    BY LenProperties
  <2> QED
    BY <2>1
<1>2. Total("Weight", os, DOMAIN os) = Weight(os) /\ Total("Value", os, DOMAIN os) = Value(os)
  BY DEF Weight, Value
<1>3. \E S \in SUBSET Nat : Total("Weight", os, S) <= c /\ Total("Value", os, S) = Value(os)
  BY <1>1, <1>2, Zenon
<1>4. \A S \in SUBSET Nat : Total("Value", os, S) <= Value(os)
  BY <1>2, TotalBound DEF Fields
<1> QED
  BY <1>3, <1>4 DEF Best

\* What a plan owes to the orders offered and to the capacity.
GoodPlan(p, os, c) ==
    /\ Best(os, c, p.TotalValue) /\ p.TotalWeight <= c
    /\ p.Orders \in Seq(Order) /\ Picked(p.Orders, os)
    /\ p.TotalWeight = Weight(Fitting(p.Orders, c))
    /\ p.TotalValue = Value(Fitting(p.Orders, c))
    /\ Weight(p.Orders) <= c \/ (p.Orders = os /\ Weight(Fitting(os, c)) <= c)

\* The whole array is a part.
LEMMA PartWhole ==
    ASSUME NEW os \in Seq(Order)
    PROVE  Part(os, 1, Len(os)) = os
<1>1. Len(os) \in Nat
  BY LenProperties
<1>2. 1 + Len(os) - 1 = Len(os)
  BY <1>1
<1> QED
  BY <1>2, SubSeqFull DEF Part

\* selectOrdersForDelivery keeps that, whichever way it takes.
LEMMA SelectOrdersGood ==
    ASSUME NEW os \in Seq(Order), NEW c \in Nat
    PROVE  GoodPlan(SelectOrders(os, c), os, c)
<1> DEFINE pruned == Fitting(os, c)
           found == FindBestSet[Len(pruned)][pruned][1][c]
           best == Listed(found.array, found.slice)
           p == SelectOrders(os, c)
<1>1. pruned \in Seq(Order) /\ Picked(pruned, os) /\ \A o \in ToSet(pruned) : o.Weight <= c
  BY FittingType, FittingPicks
<1>2. p = IF Weight(pruned) <= c THEN Plan(pruned, os) ELSE Plan(best, best)
  BY DEF SelectOrders
<1>3. BestSet(best, pruned, c)
  <2>1. InRange(pruned, 1, Len(pruned))
    BY <1>1, LenProperties DEF InRange
  <2>2. Part(pruned, 1, Len(pruned)) = pruned
    BY <1>1, PartWhole
  <2> HIDE DEF pruned
  <2>3. Found(found, pruned, 1, Len(pruned), c)
    BY <1>1, <2>1, FindBestSetBest
  <2> QED
    BY <2>2, <2>3 DEF Found
<1>4. \A v : Best(pruned, c, v) => Best(os, c, v)
  BY FittingBest
<1> HIDE DEF best, found, p
<1>5. CASE Weight(pruned) <= c
  <2>1. Best(os, c, Value(pruned))
    BY <1>1, <1>4, <1>5, AllFitBest
  <2>2. p.Orders = os /\ p.TotalWeight = Weight(pruned) /\ p.TotalValue = Value(pruned)
    BY <1>2, <1>5 DEF Plan
  <2>3. Picked(os, os)
    BY DEF Picked
  <2>4. GoodPlan(p, os, c)
    BY <1>5, <2>1, <2>2, <2>3 DEF GoodPlan
  <2> QED
    BY <2>4 DEF p
<1>6. CASE ~ (Weight(pruned) <= c)
  <2> HIDE DEF pruned
  <2>1. p.Orders = best /\ p.TotalWeight = Weight(best) /\ p.TotalValue = Value(best)
    BY <1>2, <1>6 DEF Plan
  <2>2. best \in Seq(Order) /\ Picked(best, pruned) /\ Weight(best) <= c
        /\ Best(pruned, c, Value(best))
    BY <1>3 DEF BestSet
  <2>3. Picked(best, os)
    <3>1. Len(best) \in Nat /\ Len(pruned) \in Nat /\ Len(os) \in Nat
      BY <1>1, <2>2, LenProperties
    <3> QED
      BY <1>1, <2>2, <3>1 DEF Picked
  <2>4. \A o \in ToSet(best) : o.Weight <= c
    BY <1>1, <2>2 DEF Picked
  <2>5. Fitting(best, c) = best
    BY <2>2, <2>4, FittingAll
  <2>6. Best(os, c, Value(best))
    BY <1>4, <2>2
  <2>7. GoodPlan(p, os, c)
    BY <2>1, <2>2, <2>3, <2>5, <2>6 DEF GoodPlan
  <2> QED
    BY <2>7 DEF p
<1> QED
  BY <1>5, <1>6

\* The reference looks at sets of places, Best at sets of numbers: the same.
LEMMA OptimumIsBest ==
    ASSUME orders \in Seq(Order), NEW v, Best(orders, capacity, v)
    PROVE  Optimum = v
<1> DEFINE Carried == {S \in SUBSET DOMAIN orders : Total("Weight", orders, S) <= capacity}
           Worths == {Total("Value", orders, S) : S \in Carried}
<1>0. "Weight" \in Fields /\ "Value" \in Fields
  BY DEF Fields
<1>1. DOMAIN orders = 1..Len(orders) /\ Len(orders) \in Nat
  BY LenProperties
<1>2. Optimum = CHOOSE x \in Worths : \A y \in Worths : x >= y
  BY Zenon DEF Optimum, Max
<1>3. v \in Worths
  <2>1. PICK S \in SUBSET Nat : /\ Total("Weight", orders, S) <= capacity
                                /\ Total("Value", orders, S) = v
    BY DEF Best
  <2> DEFINE R == S \cap DOMAIN orders
  <2>2. Agree(S, R, Len(orders))
    BY <1>1 DEF Agree
  <2>3. R \in SUBSET DOMAIN orders
    OBVIOUS
  <2> HIDE DEF R
  <2>4. \A field \in Fields : Total(field, orders, S) = Total(field, orders, R)
    BY <2>2, TotalAgree
  <2>5. R \in Carried /\ Total("Value", orders, R) = v
    BY <1>0, <2>1, <2>3, <2>4
  <2> QED
    BY <2>5
<1>4. ASSUME NEW y \in Worths
      PROVE  y <= v /\ y \in Nat
  <2>1. PICK S \in Carried : y = Total("Value", orders, S)
    OBVIOUS
  <2>2. S \in SUBSET Nat /\ Total("Weight", orders, S) <= capacity
    BY <1>1
  <2>3. Total("Value", orders, S) <= v
    BY <2>2 DEF Best
  <2> QED
    BY <1>0, <2>1, <2>3, TotalNat
<1> HIDE DEF Worths
<1>5. \A y \in Worths : v >= y
  BY <1>3, <1>4
<1>6. Optimum \in Worths /\ \A y \in Worths : Optimum >= y
  BY <1>2, <1>3, <1>5, Zenon
<1> QED
  BY <1>3, <1>4, <1>6

(***************************************************************************)
(* The specification                                                       *)
(***************************************************************************)

\* Orders come with ascending ids, and what is planned was selected from them.
Inv ==
    /\ orders \in Seq(Order) /\ Ascending(orders)
    /\ capacity \in Nat
    /\ Planned => plan = SelectOrders(orders, capacity)

\* What is offered comes with ascending ids.
LEMMA OffersAreOrders ==
    ASSUME NEW os \in Offers
    PROVE  os \in Seq(Order) /\ Ascending(os)
<1>1. PICK ks \in BoundedSeq(Kind, MaxOrders) :
          os = [i \in DOMAIN ks |-> [OrderID |-> i, Weight |-> ks[i].Weight, Value |-> ks[i].Value]]
  BY DEF Offers
<1>2. PICK m \in 0..MaxOrders : ks \in [1..m -> Kind]
  BY DEF BoundedSeq, SeqOf
<1>3. m \in Nat /\ MaxOrders \in Nat /\ m <= MaxOrders
  BY SelectionAssumption
<1>4. DOMAIN os = 1..m
  BY <1>1, <1>2
<1>5. ASSUME NEW i \in 1..m
      PROVE  os[i] \in Order /\ os[i].OrderID = i
  <2>1. os[i] = [OrderID |-> i, Weight |-> ks[i].Weight, Value |-> ks[i].Value]
    BY <1>1, <1>2
  <2>2. i \in 1..MaxOrders /\ ks[i] \in Kind
    BY <1>2, <1>3
  <2> QED
    BY <2>1, <2>2 DEF Order, Kind
<1>6. os = [i \in 1..m |-> os[i]]
  BY <1>1, <1>2
<1>7. os \in Seq(Order)
  <2>1. os \in [1..m -> Order]
    BY <1>5, <1>6
  <2> QED
    BY <1>3, <2>1, SeqDef
<1>8. Ascending(os)
  BY <1>3, <1>4, <1>5 DEF Ascending
<1> QED
  BY <1>7, <1>8

\* The invariant: an input is never changed, and a plan is the one that
\* selectOrdersForDelivery makes of it.
THEOREM Invariance == Spec => []Inv
<1>1. ASSUME Init PROVE Inv
  <2>1. orders \in Seq(Order) /\ Ascending(orders)
    BY <1>1, OffersAreOrders DEF Init
  <2>2. capacity \in Nat
    BY <1>1, SelectionAssumption DEF Init
  <2>3. ~ Planned
    BY <1>1 DEF Init, Planned
  <2> QED
    BY <2>1, <2>2, <2>3 DEF Inv
<1>2. ASSUME Inv, [Next]_vars PROVE Inv'
  <2>1. CASE Select
    <3>1. /\ orders' = orders /\ capacity' = capacity
          /\ plan' = SelectOrders(orders, capacity)
      BY <2>1 DEF Select
    <3> QED
      BY <1>2, <3>1 DEF Inv
  <2>2. CASE UNCHANGED vars
    BY <1>2, <2>2 DEF vars, Inv, Planned
  <2> QED
    BY <1>2, <2>1, <2>2 DEF Next
<1> QED
  BY <1>1, <1>2, PTL DEF Spec

\* selectOrdersForDelivery announces the best value the capacity allows, for
\* every product, every number of orders, every capacity and every threshold.
THEOREM PlansAreOptimal == Spec => []PlanIsOptimal
<1>1. ASSUME Inv PROVE PlanIsOptimal
  <2> SUFFICES ASSUME Planned
               PROVE  plan.TotalValue = Optimum /\ plan.TotalWeight <= capacity
    BY DEF PlanIsOptimal
  <2>1. orders \in Seq(Order) /\ capacity \in Nat /\ plan = SelectOrders(orders, capacity)
    BY <1>1 DEF Inv
  <2>2. GoodPlan(plan, orders, capacity)
    BY <2>1, SelectOrdersGood
  <2> QED
    BY <2>1, <2>2, OptimumIsBest DEF GoodPlan
<1> QED
  BY <1>1, Invariance, PTL

\* The listed orders were offered, each is listed once, and the announced
\* totals are theirs.
THEOREM TotalsAreTrue == Spec => []TotalsAreOfListed
<1>1. ASSUME Inv PROVE TotalsAreOfListed
  <2> SUFFICES ASSUME Planned
               PROVE  LET fitting == Fitting(plan.Orders, capacity)
                          id(i)   == plan.Orders[i].OrderID
                      IN  /\ ToSet(plan.Orders) \subseteq ToSet(orders)
                          /\ \A j \in DOMAIN plan.Orders : \A i \in 1..(j - 1) : id(i) < id(j)
                          /\ plan.TotalWeight = Weight(fitting)
                          /\ plan.TotalValue = Value(fitting)
    BY DEF TotalsAreOfListed
  <2>1. /\ orders \in Seq(Order) /\ Ascending(orders) /\ capacity \in Nat
        /\ plan = SelectOrders(orders, capacity)
    BY <1>1 DEF Inv
  <2>2. GoodPlan(plan, orders, capacity)
    BY <2>1, SelectOrdersGood
  <2>3. Ascending(plan.Orders)
    BY <2>1, <2>2 DEF GoodPlan, Picked
  <2> QED
    BY <2>2, <2>3 DEF GoodPlan, Picked, Ascending
<1> QED
  BY <1>1, Invariance, PTL

\* Only the shortcut lists more than the robot can carry.
THEOREM OnlyShortcutOverloads == Spec => []OverloadsAreUnpruned
<1>1. ASSUME Inv PROVE OverloadsAreUnpruned
  <2> SUFFICES ASSUME Planned, Weight(plan.Orders) > capacity
               PROVE  plan.Orders = orders /\ Weight(Fitting(orders, capacity)) <= capacity
    BY DEF OverloadsAreUnpruned
  <2>1. orders \in Seq(Order) /\ capacity \in Nat /\ plan = SelectOrders(orders, capacity)
    BY <1>1 DEF Inv
  <2>2. GoodPlan(plan, orders, capacity)
    BY <2>1, SelectOrdersGood
  <2>3. Weight(plan.Orders) \in Nat
    BY <2>2, WeightNat DEF GoodPlan
  <2> QED
    BY <2>1, <2>2, <2>3 DEF GoodPlan
<1> QED
  BY <1>1, Invariance, PTL
=============================================================================
