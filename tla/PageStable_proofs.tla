------------------------- MODULE PageStable_proofs --------------------------
(***************************************************************************)
(* Proofs about PageStable: for every slice, page and length, nthSelect    *)
(* stays within the slice, each selection fills its place, and the sorted  *)
(* block around the two places holds what a stable sort of the whole slice *)
(* would put there.                                                        *)
(*                                                                         *)
(* The argument: less on the field and the index together is a strict      *)
(* total order of the elements.  nthSelect keeps every element left of lo  *)
(* before every other one, and every element right of hi after; between    *)
(* them it leaves, left of i, elements that do not come after the pivot    *)
(* and, right of j, elements that do not come before it.  A place that     *)
(* splits the slice on both sides holds the element of its rank, and so    *)
(* does each place of the sorted block between two of them.                *)
(***************************************************************************)
EXTENDS PageStable, FiniteSetTheorems, SequenceTheorems, TLAPS

(***************************************************************************)
(* The order of the elements                                               *)
(***************************************************************************)

\* What the callers hand over: a slice of orders or products with a field to
\* compare.
Comparable(arr) ==
    /\ Len(arr) \in Nat /\ DOMAIN arr = 1..Len(arr)
    /\ \A x \in 1..Len(arr) : arr[x].key \in Int
Keyed == n \in Nat /\ DOMAIN input = 1..n /\ \A x \in 1..n : input[x].key \in Int

Places == 0..(n - 1)
Elems  == {[V |-> input[x + 1], idx |-> x] : x \in Places}

LEMMA ElemShape ==
    ASSUME Keyed, NEW x \in Elems
    PROVE  x.V.key \in Int /\ x.idx \in Places /\ x = [V |-> input[x.idx + 1], idx |-> x.idx]
BY DEF Keyed, Elems, Places

\* stableLess is a strict total order of the elements.
LEMMA OrderIsStrict ==
    ASSUME Keyed, NEW x \in Elems, NEW y \in Elems
    PROVE  ~(stableLess(x, y) /\ stableLess(y, x))
<1>1. x.V.key \in Int /\ y.V.key \in Int /\ x.idx \in Int /\ y.idx \in Int
  BY ElemShape DEF Places, Keyed
<1>2. QED
  BY <1>1 DEF stableLess, equal, less

LEMMA OrderIsTotal ==
    ASSUME Keyed, NEW x \in Elems, NEW y \in Elems
    PROVE  stableLess(x, y) \/ stableLess(y, x) \/ x = y
<1>1. x.V.key \in Int /\ y.V.key \in Int /\ x.idx \in Int /\ y.idx \in Int
  BY ElemShape DEF Places, Keyed
<1>2. x.idx = y.idx => x = y
  BY ElemShape
<1>3. QED
  BY <1>1, <1>2 DEF stableLess, equal, less

LEMMA OrderIsTransitive ==
    ASSUME Keyed, NEW x \in Elems, NEW y \in Elems, NEW z \in Elems,
           stableLess(x, y), stableLess(y, z)
    PROVE  stableLess(x, z)
<1>1. /\ x.V.key \in Int /\ y.V.key \in Int /\ z.V.key \in Int
      /\ x.idx \in Int /\ y.idx \in Int /\ z.idx \in Int
  BY ElemShape DEF Places, Keyed
<1>2. QED
  BY <1>1 DEF stableLess, equal, less
-----------------------------------------------------------------------------
(***************************************************************************)
(* The invariant                                                           *)
(***************************************************************************)

\* a is a rearrangement of the input, and the block asked for lies within it.
Arranged ==
    /\ Keyed
    /\ s \in Places /\ e \in 1..n /\ s < e
    /\ a \in [Places -> Elems]
    /\ \A x \in Places, y \in Places : a[x] = a[y] => x = y
    /\ \A z \in Elems : \E x \in Places : a[x] = z

\* What stands before place m precedes all the others.
Split(m) == \A x \in Places, y \in Places : x < m /\ m <= y => stableLess(a[x], a[y])

\* Place m holds what the stable sort puts there.
Filled(m) == Split(m) /\ Split(m + 1)

\* nthSelect between two rounds.
WhileInv ==
    /\ lo \in Places /\ hi \in Places /\ lo <= hi
    /\ {i, j} \subseteq -1..n
    /\ second => s <= lo
    /\ IF lo < hi THEN lo <= k /\ k <= hi /\ Split(lo) /\ Split(hi + 1) ELSE Filled(k)

\* A round: what it knows of the elements it has passed, and what stops it.
RoundInv ==
    /\ lo \in Places /\ hi \in Places /\ lo < hi /\ lo <= k /\ k <= hi
    /\ Split(lo) /\ Split(hi + 1)
    /\ second => s <= lo
    /\ pivot \in Elems
    /\ i \in lo..(hi + 1) /\ j \in (lo - 1)..hi
    /\ \A x \in Places : lo <= x /\ x < i => ~stableLess(pivot, a[x])
    /\ \A x \in Places : j < x /\ x <= hi => ~stableLess(a[x], pivot)
    /\ at = "scan_i" => \E x \in i..hi : ~stableLess(a[x], pivot)
    /\ at \in {"scan_i", "scan_j"} => \E x \in lo..j : ~stableLess(pivot, a[x])
    /\ at \in {"scan_j", "swap"} => i <= hi /\ ~stableLess(a[i], pivot)
    /\ at = "swap" => lo <= j /\ ~stableLess(pivot, a[j])
    /\ at = "narrow" => j < i

Rounds == {"scan_i", "scan_j", "swap", "narrow"}

\* No call yet, or one for an empty block.
Unused ==
    /\ at \in {"idle", "returned"}
    /\ a = << >> /\ s = 0 /\ e = 0 /\ lo = 0 /\ hi = 0 /\ i = 0 /\ j = 0
    /\ second = FALSE /\ paged = << >>

Selecting ==
    /\ at \in {"while", "cut"} \cup Rounds
    /\ Arranged /\ second \in BOOLEAN /\ paged = << >>
    /\ second => Filled(s)
    /\ at \in {"while", "cut"} => WhileInv
    /\ at \in Rounds => RoundInv
    /\ at = "cut" => second /\ lo = hi

\* The page is the part of the stably sorted slice that was asked for.
Paged ==
    /\ at = "returned"
    /\ Arranged /\ second \in BOOLEAN /\ {lo, hi, i, j} \subseteq -1..n
    /\ DOMAIN paged = 1..(e - s)
    /\ \A x \in DOMAIN paged : paged[x] = StableSorted(input)[s + x]
    /\ paged \in Seq({input[x] : x \in DOMAIN input})

PageInv == Unused \/ Selecting \/ Paged
-----------------------------------------------------------------------------
(***************************************************************************)
(* The steps                                                               *)
(***************************************************************************)

LEMMA PageInitInv == PageInit => PageInv
BY DEF PageInit, PageInv, Unused

LEMMA CallInv ==
    ASSUME PageInv, NEW arr, NEW page \in Nat \ {0}, NEW L \in Nat, Call(arr, page, L),
           L > 0 => Comparable(arr)
    PROVE  PageInv'
<1>1. Unused /\ input' = arr /\ paged' = paged
  BY DEF Call, PageInv, Selecting, Paged, Rounds
<1>2. CASE at' = "returned" /\ UNCHANGED <<a, s, e, select>>
  BY <1>1, <1>2 DEF PageInv, Unused, select
<1>3. CASE at' = "while"
  <2>1. /\ L > 0 /\ (page - 1) * L < Len(arr)
        /\ s' = (page - 1) * L
        /\ e' = IF s' + L > Len(arr) THEN Len(arr) ELSE s' + L
        /\ a' = [x \in 0..(Len(arr) - 1) |-> [V |-> arr[x + 1], idx |-> x]]
        /\ lo' = 0 /\ hi' = Len(arr) - 1 /\ second' = FALSE /\ i' = 0 /\ j' = 0
    BY <1>1, <1>3 DEF Call, Unused
  <2>2. s' \in Nat
    <3>1. page - 1 \in Nat
      OBVIOUS
    <3>2. \A x, y \in Nat : x * y \in Nat
      OBVIOUS
    <3>3. QED
      BY <2>1, <3>1, <3>2
  <2>3. PICK len \in Nat : /\ len = Len(arr) /\ DOMAIN arr = 1..len
                         /\ \A x \in 1..len : arr[x].key \in Int
    BY <2>1 DEF Comparable
  <2>4. /\ n' = len /\ Places' = 0..(len - 1) /\ Keyed'
        /\ Elems' = {[V |-> arr[x + 1], idx |-> x] : x \in 0..(len - 1)}
    BY <1>1, <2>1, <2>3 DEF Keyed, n, Places, Elems
  <2>5. s' \in 0..(len - 1) /\ e' \in 1..len /\ s' < e' /\ len > 0
    <3>1. PICK from \in Nat : from = s'
      BY <2>2
    <3>2. PICK to : to = e' /\ to = IF from + L > len THEN len ELSE from + L
      BY <2>1, <2>3, <3>1
    <3>3. from < len /\ L > 0
      BY <2>1, <2>3, <3>1
    <3>4. from \in 0..(len - 1) /\ to \in 1..len /\ from < to /\ len > 0
      BY <2>3, <3>2, <3>3
    <3>5. QED
      BY <3>1, <3>2, <3>4
  <2>6. Arranged'
    <3>1. /\ a' \in [Places' -> Elems']
          /\ \A x, y \in Places' : a'[x] = a'[y] => x = y
          /\ \A z \in Elems' : \E x \in Places' : a'[x] = z
      BY <2>1, <2>3, <2>4
    <3>2. e' \in 1..n'
      BY <2>4, <2>5
    <3>3. QED
      BY <2>4, <2>5, <3>1, <3>2 DEF Arranged
  <2>7. Split(0)' /\ \A m \in Int : m >= len => Split(m)'
    <3>1. \A x \in Places' : ~(x < 0) /\ \A m \in Int : m >= len => ~(m <= x)
      BY <2>3, <2>4
    <3>2. QED
      BY <3>1 DEF Split
  <2>8. WhileInv'
    <3>1. k' = s' /\ lo' = 0 /\ hi' = len - 1 /\ second' = FALSE /\ i' = 0 /\ j' = 0
      BY <2>1, <2>3 DEF k
    <3>2. /\ lo' \in Places' /\ hi' \in Places' /\ lo' <= hi' /\ lo' <= k' /\ k' <= hi'
          /\ {i', j'} \subseteq -1..n'
      BY <2>3, <2>4, <2>5, <3>1
    <3>3. CASE len = 1
      <4>1. \A x \in Places' : x = 0
        BY <2>4, <3>3
      <4>2. Filled(k)'
        BY <2>5, <3>1, <3>3, <4>1 DEF Filled, Split
      <4>3. QED
        BY <3>1, <3>2, <3>3, <4>2 DEF WhileInv
    <3>4. CASE len > 1
      <4>1. Split(lo)' /\ Split(hi + 1)'
        BY <2>3, <2>7, <3>1 DEF Split
      <4>2. QED
        BY <3>1, <3>2, <3>4, <4>1 DEF WhileInv
    <3>5. QED
      BY <2>3, <2>5, <3>3, <3>4
  <2>9. QED
    BY <1>1, <1>3, <2>1, <2>6, <2>8 DEF PageInv, Selecting, Unused, Rounds
<1>4. QED
  BY <1>2, <1>3 DEF Call

\* Steps that leave the elements where they are.
LEMMA StaysArranged ==
    ASSUME Arranged, UNCHANGED <<input, a, s, e>>
    PROVE  /\ Arranged' /\ Places' = Places /\ Elems' = Elems /\ n' = n
           /\ \A m : Split(m)' <=> Split(m)
           /\ \A m : Filled(m)' <=> Filled(m)
BY DEF Arranged, Keyed, Places, Elems, n, Split, Filled

LEMMA WhileStep ==
    ASSUME Selecting, While
    PROVE  Selecting'
<1>. USE DEF Rounds
<1>0. Arranged /\ WhileInv /\ at = "while" /\ UNCHANGED <<input, a, s, e, paged>>
  BY DEF Selecting, While
<1>1. /\ Arranged' /\ Places' = Places /\ Elems' = Elems /\ n' = n
      /\ \A m : Split(m)' <=> Split(m)
      /\ \A m : Filled(m)' <=> Filled(m)
  BY <1>0, StaysArranged
<1>2. /\ n \in Nat /\ s \in Places /\ e \in 1..n /\ s < e /\ a \in [Places -> Elems]
  BY <1>0 DEF Arranged, Keyed
<1>3. CASE lo < hi /\ pivot' = a[lo + (hi - lo) \div 2] /\ i' = lo /\ j' = hi
           /\ at' = "scan_i" /\ UNCHANGED <<second, lo, hi>>
  <2>1. PICK mid \in lo..hi : mid = lo + (hi - lo) \div 2
    BY <1>0, <1>2, <1>3 DEF WhileInv, Places
  <2>2. lo \in Places /\ hi \in Places /\ lo <= k /\ k <= hi /\ Split(lo) /\ Split(hi + 1)
        /\ (second => s <= lo) /\ mid \in Places
    BY <1>0, <1>2, <1>3, <2>1 DEF WhileInv, Places
  <2>3. pivot' = a[mid] /\ a[mid] \in Elems /\ ~stableLess(a[mid], a[mid])
    BY <1>0, <1>2, <1>3, <2>1, <2>2, OrderIsStrict DEF Arranged
  <2>4. k' = k /\ Split(lo)' /\ Split(hi + 1)'
    BY <1>0, <1>1, <1>3, <2>2 DEF k, Split
  <2>5. RoundInv'
    <3>1. lo' \in Places' /\ hi' \in Places' /\ lo' < hi' /\ lo' <= k' /\ k' <= hi'
          /\ (second' => s' <= lo')
      BY <1>0, <1>1, <1>3, <2>2, <2>4
    <3>2. i' \in lo'..(hi' + 1) /\ j' \in (lo' - 1)..hi'
      BY <1>2, <1>3, <2>2 DEF Places
    <3>3. /\ \A x \in Places' : ~(lo' <= x /\ x < i')
          /\ \A x \in Places' : ~(j' < x /\ x <= hi')
      BY <1>1, <1>2, <1>3, <2>2 DEF Places
    <3>4. /\ \E x \in i'..hi' : ~stableLess(a'[x], pivot')
          /\ \E x \in lo'..j' : ~stableLess(pivot', a'[x])
      BY <1>0, <1>3, <2>1, <2>3
    <3>5. QED
      BY <1>1, <1>3, <2>3, <2>4, <3>1, <3>2, <3>3, <3>4 DEF RoundInv
  <2>6. QED
    BY <1>0, <1>1, <1>3, <2>5 DEF Selecting
<1>4. CASE lo >= hi /\ ~second /\ second' = TRUE /\ lo' = s /\ hi' = n - 1
           /\ UNCHANGED <<at, pivot, i, j>>
  <2>1. Filled(s) /\ {i, j} \subseteq -1..n
    BY <1>0, <1>2, <1>4 DEF WhileInv, k, Places
  <2>2. k' = e' - 1 /\ lo' = s' /\ hi' = n' - 1
    BY <1>0, <1>1, <1>4 DEF k
  <2>3. Filled(s)' /\ Split(s)'
    BY <1>0, <1>1, <2>1 DEF Filled, Split
  <2>4. Split(hi + 1)'
    <3>1. hi' + 1 = n'
      BY <1>1, <1>2, <2>2
    <3>2. QED
      BY <1>1, <1>2, <3>1 DEF Split, Places
  <2>5. WhileInv'
    <3>1. CASE s = n - 1
      <4>1. Filled(k)'
        BY <1>0, <1>2, <2>2, <2>3, <3>1 DEF Places, Filled, Split
      <4>2. QED
        BY <1>0, <1>1, <1>2, <1>4, <2>1, <3>1, <4>1 DEF WhileInv, Places
    <3>2. CASE s < n - 1
      <4>1. Split(lo)'
        BY <2>2, <2>3 DEF Split
      <4>2. QED
        BY <1>0, <1>1, <1>2, <1>4, <2>1, <2>2, <2>4, <3>2, <4>1 DEF WhileInv, Places
    <3>3. QED
      BY <1>2, <3>1, <3>2 DEF Places
  <2>6. QED
    BY <1>0, <1>1, <1>4, <2>3, <2>5 DEF Selecting
<1>5. CASE lo >= hi /\ second /\ at' = "cut" /\ UNCHANGED select
  <2>1. UNCHANGED <<second, lo, hi, i, j>> /\ k' = k
    BY <1>0, <1>5 DEF select, k
  <2>2. WhileInv' /\ lo' = hi'
    <3>1. lo = hi /\ Filled(k)
      BY <1>0, <1>2, <1>5 DEF WhileInv, Places
    <3>2. Filled(k)'
      BY <1>1, <2>1, <3>1 DEF Filled, Split
    <3>3. QED
      BY <1>0, <1>1, <2>1, <3>1, <3>2 DEF WhileInv
  <2>3. Filled(s)'
    BY <1>0, <1>1, <1>5 DEF Selecting, Filled, Split
  <2>4. QED
    BY <1>0, <1>1, <1>5, <2>1, <2>2, <2>3 DEF Selecting
<1>6. QED
  BY <1>3, <1>4, <1>5 DEF While

\* A scan goes on: the element that stops it is further on.
LEMMA ScanUpStep ==
    ASSUME Selecting, ScanUp
    PROVE  Selecting'
<1>. USE DEF Rounds
<1>0. /\ Arranged /\ RoundInv /\ at = "scan_i"
      /\ UNCHANGED <<input, a, s, e, second, lo, hi, pivot, j, paged>>
  BY DEF Selecting, ScanUp
<1>1. /\ Arranged' /\ Places' = Places /\ Elems' = Elems /\ k' = k
      /\ \A m : Split(m)' <=> Split(m)
      /\ \A m : Filled(m)' <=> Filled(m)
  BY <1>0, StaysArranged DEF k
<1>2. /\ n \in Nat /\ a \in [Places -> Elems] /\ lo \in Int /\ hi \in Int /\ hi < n /\ 0 <= lo
      /\ i \in Int /\ lo <= i /\ i <= hi + 1 /\ Places = 0..(n - 1)
  BY <1>0 DEF Arranged, Keyed, RoundInv, Places
<1>3. PICK stop \in i..hi : ~stableLess(a[stop], pivot)
  BY <1>0 DEF RoundInv
<1>4. i \in Places /\ a[i] \in Elems /\ i <= hi
  BY <1>2, <1>3
<1>5. Split(lo)' /\ Split(hi + 1)' /\ (second' => s' <= lo')
  BY <1>0, <1>1 DEF RoundInv, Split
<1>6. RoundInv' /\ at' \in Rounds
  <2>1. CASE stableLess(a[i], pivot) /\ i' = i + 1 /\ UNCHANGED at
    <3>1. PICK u \in Int : u = i + 1
      BY <1>2
    <3>2. i' = u /\ at' = "scan_i"
      BY <1>0, <2>1, <3>1
    <3>3. stop \in u..hi /\ u \in lo..(hi + 1)
      BY <1>2, <1>3, <1>4, <2>1, <3>1
    <3>4. \A x \in Places : lo <= x /\ x < u => ~stableLess(pivot, a[x])
      <4>1. ~stableLess(pivot, a[i])
        BY <1>0, <1>4, <2>1, OrderIsStrict DEF Arranged, RoundInv
      <4>2. \A x \in Places : x < u => x < i \/ x = i
        BY <1>2, <3>1
      <4>3. QED
        BY <1>0, <4>1, <4>2 DEF RoundInv
    <3>5. QED
      BY <1>0, <1>1, <1>3, <1>5, <3>2, <3>3, <3>4 DEF RoundInv
  <2>2. CASE ~stableLess(a[i], pivot) /\ at' = "scan_j" /\ UNCHANGED i
    BY <1>0, <1>1, <1>4, <1>5, <2>2 DEF RoundInv
  <2>3. QED
    BY <2>1, <2>2 DEF ScanUp
<1>7. second' => Filled(s)'
  BY <1>0, <1>1 DEF Selecting, Filled, Split
<1>8. QED
  BY <1>0, <1>1, <1>6, <1>7 DEF Selecting

LEMMA ScanDownStep ==
    ASSUME Selecting, ScanDown
    PROVE  Selecting'
<1>. USE DEF Rounds
<1>0. /\ Arranged /\ RoundInv /\ at = "scan_j"
      /\ UNCHANGED <<input, a, s, e, second, lo, hi, pivot, i, paged>>
  BY DEF Selecting, ScanDown
<1>1. /\ Arranged' /\ Places' = Places /\ Elems' = Elems /\ k' = k
      /\ \A m : Split(m)' <=> Split(m)
      /\ \A m : Filled(m)' <=> Filled(m)
  BY <1>0, StaysArranged DEF k
<1>2. /\ n \in Nat /\ a \in [Places -> Elems] /\ lo \in Int /\ hi \in Int /\ hi < n /\ 0 <= lo
      /\ j \in Int /\ lo - 1 <= j /\ j <= hi /\ Places = 0..(n - 1)
  BY <1>0 DEF Arranged, Keyed, RoundInv, Places
<1>3. PICK stop \in lo..j : ~stableLess(pivot, a[stop])
  BY <1>0 DEF RoundInv
<1>4. j \in Places /\ a[j] \in Elems /\ lo <= j
  BY <1>2, <1>3
<1>5. Split(lo)' /\ Split(hi + 1)' /\ (second' => s' <= lo')
  BY <1>0, <1>1 DEF RoundInv, Split
<1>6. RoundInv' /\ at' \in Rounds
  <2>1. CASE stableLess(pivot, a[j]) /\ j' = j - 1 /\ UNCHANGED at
    <3>1. PICK v \in Int : v = j - 1
      BY <1>2
    <3>2. j' = v /\ at' = "scan_j"
      BY <1>0, <2>1, <3>1
    <3>3. stop \in lo..v /\ v \in (lo - 1)..hi
      BY <1>2, <1>3, <1>4, <2>1, <3>1
    <3>4. \A x \in Places : v < x /\ x <= hi => ~stableLess(a[x], pivot)
      <4>1. ~stableLess(a[j], pivot)
        BY <1>0, <1>4, <2>1, OrderIsStrict DEF Arranged, RoundInv
      <4>2. \A x \in Places : v < x => j < x \/ x = j
        BY <1>2, <3>1
      <4>3. QED
        BY <1>0, <4>1, <4>2 DEF RoundInv
    <3>5. QED
      BY <1>0, <1>1, <1>3, <1>5, <3>2, <3>3, <3>4 DEF RoundInv
  <2>2. CASE ~stableLess(pivot, a[j]) /\ at' = "swap" /\ UNCHANGED j
    BY <1>0, <1>1, <1>4, <1>5, <2>2 DEF RoundInv
  <2>3. QED
    BY <2>1, <2>2 DEF ScanDown
<1>7. second' => Filled(s)'
  BY <1>0, <1>1 DEF Selecting, Filled, Split
<1>8. QED
  BY <1>0, <1>1, <1>6, <1>7 DEF Selecting

\* Once the scans have crossed, the places between them are split off.
LEMMA CrossedSplits ==
    ASSUME Arranged, RoundInv, j < i, NEW m \in Int, j < m, m <= i
    PROVE  Split(m)
<1>1. /\ n \in Nat /\ Places = 0..(n - 1) /\ lo \in Int /\ hi \in Int /\ i \in Int /\ j \in Int
      /\ lo - 1 <= j /\ j <= hi /\ lo <= i /\ i <= hi + 1
  BY DEF Arranged, Keyed, RoundInv, Places
<1>2. ASSUME NEW x \in Places, NEW y \in Places, x < m, m <= y
      PROVE  stableLess(a[x], a[y])
  <2>1. x \in Int /\ y \in Int /\ x < i /\ j < y /\ x # y
    BY <1>1, <1>2
  <2>2. CASE x < lo
    <3>1. lo <= y
      BY <1>1, <2>1
    <3>2. QED
      BY <2>2, <3>1 DEF RoundInv, Split
  <2>3. CASE y > hi
    <3>1. x < hi + 1 /\ hi + 1 <= y
      BY <1>1, <2>1, <2>3
    <3>2. QED
      BY <3>1 DEF RoundInv, Split
  <2>4. CASE lo <= x /\ y <= hi
    <3>1. a[x] \in Elems /\ a[y] \in Elems /\ a[x] # a[y] /\ pivot \in Elems /\ Keyed
      BY <2>1 DEF Arranged, RoundInv
    <3>2. ~stableLess(pivot, a[x]) /\ ~stableLess(a[y], pivot)
      BY <2>1, <2>4 DEF RoundInv
    <3>3. stableLess(a[x], pivot) \/ a[x] = pivot
      BY <3>1, <3>2, OrderIsTotal
    <3>4. stableLess(pivot, a[y]) \/ a[y] = pivot
      BY <3>1, <3>2, OrderIsTotal
    <3>5. QED
      BY <3>1, <3>3, <3>4, OrderIsTransitive
  <2>5. QED
    BY <1>1, <2>1, <2>2, <2>3, <2>4
<1>3. QED
  BY <1>2 DEF Split

LEMMA NarrowStep ==
    ASSUME Selecting, Narrow
    PROVE  Selecting'
<1>. USE DEF Rounds
<1>0. /\ Arranged /\ RoundInv /\ at = "narrow" /\ at' = "while" /\ j < i
      /\ UNCHANGED <<input, a, s, e, second, pivot, i, j, paged>>
  BY DEF Selecting, Narrow, RoundInv
<1>1. /\ Arranged' /\ Places' = Places /\ n' = n /\ k' = k
      /\ \A m : Split(m)' <=> Split(m)
      /\ \A m : Filled(m)' <=> Filled(m)
  BY <1>0, StaysArranged DEF k
<1>2. /\ n \in Nat /\ Places = 0..(n - 1) /\ lo \in Int /\ hi \in Int /\ i \in Int /\ j \in Int
      /\ 0 <= lo /\ hi < n /\ lo - 1 <= j /\ j <= hi /\ lo <= i /\ i <= hi + 1
      /\ lo <= k /\ k <= hi /\ lo < hi /\ s \in Int /\ e \in Int /\ k \in Int
  BY <1>0 DEF Arranged, Keyed, RoundInv, Places, k
<1>3. {i, j} \subseteq -1..n
  BY <1>2
<1>4. \A m \in Int : j < m /\ m <= i => Split(m)
  BY <1>0, CrossedSplits
<1>5. WhileInv'
  <2>1. CASE k <= j /\ hi' = j /\ UNCHANGED lo
    <3>1. /\ lo \in Places /\ j \in Places /\ lo <= j /\ lo <= k /\ k <= j
          /\ (second => s <= lo) /\ Split(lo) /\ Split(j + 1)
      BY <1>0, <1>2, <1>4, <2>1 DEF RoundInv
    <3>2. lo = j => k = lo
      BY <1>2, <3>1
    <3>3. lo = j => Filled(k)
      BY <3>1, <3>2 DEF Filled
    <3>4. lo < j \/ lo = j
      BY <1>2, <3>1
    <3>5. Split(lo)' /\ Split(hi + 1)' /\ (lo = j => Filled(k)')
      BY <1>1, <2>1, <3>1, <3>3 DEF Split, Filled
    <3>6. QED
      BY <1>0, <1>1, <1>3, <2>1, <3>1, <3>4, <3>5 DEF WhileInv
  <2>2. CASE k > j /\ k >= i /\ lo' = i /\ UNCHANGED hi
    <3>1. /\ i \in Places /\ hi \in Places /\ i <= hi /\ i <= k /\ k <= hi
          /\ Split(i) /\ Split(hi + 1)
      BY <1>0, <1>2, <1>4, <2>2 DEF RoundInv
    <3>2. second => s <= i
      BY <1>0, <1>2 DEF RoundInv
    <3>3. i = hi => k = i
      BY <1>2, <3>1
    <3>4. i = hi => Filled(k)
      BY <3>1, <3>3 DEF Filled
    <3>5. i < hi \/ i = hi
      BY <1>2, <3>1
    <3>6. Split(lo)' /\ Split(hi + 1)' /\ (i = hi => Filled(k)')
      BY <1>1, <2>2, <3>1, <3>4 DEF Split, Filled
    <3>7. QED
      BY <1>0, <1>1, <1>3, <2>2, <3>1, <3>2, <3>5, <3>6 DEF WhileInv
  <2>3. CASE k > j /\ k < i /\ lo' = hi /\ UNCHANGED hi
    <3>1. Filled(k)
      <4>1. k + 1 \in Int /\ j < k + 1 /\ k + 1 <= i /\ k <= i
        BY <1>2, <2>3
      <4>2. QED
        BY <1>2, <1>4, <2>3, <4>1 DEF Filled
    <3>2. Filled(k)'
      BY <1>1, <3>1 DEF Filled, Split
    <3>3. hi \in Places /\ (second => s <= hi)
      BY <1>0, <1>2 DEF RoundInv
    <3>4. hi <= hi /\ ~(hi < hi)
      BY <1>2
    <3>5. QED
      BY <1>0, <1>1, <1>3, <2>3, <3>2, <3>3, <3>4 DEF WhileInv
  <2>4. QED
    BY <2>1, <2>2, <2>3 DEF Narrow
<1>6. second' => Filled(s)'
  BY <1>0, <1>1 DEF Selecting, Filled, Split
<1>7. QED
  BY <1>0, <1>1, <1>5, <1>6 DEF Selecting

\* Swapping two elements leaves a a rearrangement of the input, and split
\* where both are on the same side.
LEMMA SwapArranged ==
    ASSUME Arranged, i \in Places, j \in Places, UNCHANGED <<input, s, e>>,
           a' = [a EXCEPT ![i] = a[j], ![j] = a[i]]
    PROVE  /\ Arranged' /\ Places' = Places /\ Elems' = Elems /\ n' = n
           /\ a'[i] = a[j] /\ a'[j] = a[i]
           /\ \A x \in Places : x # i /\ x # j => a'[x] = a[x]
           /\ \A m : (i < m <=> j < m) /\ (m <= i <=> m <= j) /\ Split(m) => Split(m)'
<1>1. Places' = Places /\ Elems' = Elems /\ n' = n /\ (Keyed' <=> Keyed)
  BY DEF Places, Elems, n, Keyed
<1>2. a \in [Places -> Elems]
  BY DEF Arranged
<1>3. /\ a'[i] = a[j] /\ a'[j] = a[i]
      /\ \A x \in Places : x # i /\ x # j => a'[x] = a[x]
  BY <1>2
<1>4. a' \in [Places -> Elems]
  BY <1>2
<1>5. \A x \in Places, y \in Places : a'[x] = a'[y] => x = y
  BY <1>3 DEF Arranged
<1>6. ASSUME NEW z \in Elems PROVE \E x \in Places : a'[x] = z
  <2>1. PICK x \in Places : a[x] = z
    BY DEF Arranged
  <2>2. QED
    BY <1>3, <2>1
<1>7. Arranged'
  BY <1>1, <1>4, <1>5, <1>6 DEF Arranged
<1>8. ASSUME NEW m, i < m <=> j < m, m <= i <=> m <= j, Split(m)
      PROVE  Split(m)'
  <2>1. ASSUME NEW x \in Places, NEW y \in Places, x < m, m <= y
        PROVE  stableLess(a'[x], a'[y])
    <3>1. PICK v \in Places : a'[x] = a[v] /\ v < m
      BY <1>3, <1>8, <2>1
    <3>2. PICK w \in Places : a'[y] = a[w] /\ m <= w
      BY <1>3, <1>8, <2>1
    <3>3. QED
      BY <1>8, <3>1, <3>2 DEF Split
  <2>2. QED
    BY <1>1, <2>1 DEF Split
<1>9. QED
  BY <1>1, <1>3, <1>7, <1>8

LEMMA SwapStep ==
    ASSUME Selecting, Swap
    PROVE  Selecting'
<1>. USE DEF Rounds
<1>0. /\ Arranged /\ RoundInv /\ at = "swap"
      /\ UNCHANGED <<input, s, e, second, lo, hi, pivot, paged>>
  BY DEF Selecting, Swap
<1>1. /\ n \in Nat /\ Places = 0..(n - 1) /\ lo \in Int /\ hi \in Int /\ i \in Int /\ j \in Int
      /\ 0 <= lo /\ hi < n /\ lo <= j /\ j <= hi /\ lo <= i /\ i <= hi /\ s \in Int
      /\ i \in Places /\ j \in Places
  BY <1>0 DEF Arranged, Keyed, RoundInv, Places
<1>2. /\ ~stableLess(a[i], pivot) /\ ~stableLess(pivot, a[j])
      /\ a[i] \in Elems /\ a[j] \in Elems /\ pivot \in Elems /\ Keyed
  BY <1>0, <1>1 DEF RoundInv, Arranged
<1>3. k' = k
  BY <1>0 DEF k
<1>4. CASE i <= j /\ a' = [a EXCEPT ![i] = a[j], ![j] = a[i]] /\ i' = i + 1 /\ j' = j - 1
           /\ at' = IF i' <= j' THEN "scan_i" ELSE "narrow"
  <2>1. /\ Arranged' /\ Places' = Places /\ Elems' = Elems /\ n' = n
        /\ a'[i] = a[j] /\ a'[j] = a[i]
        /\ \A x \in Places : x # i /\ x # j => a'[x] = a[x]
        /\ \A m : (i < m <=> j < m) /\ (m <= i <=> m <= j) /\ Split(m) => Split(m)'
    BY <1>0, <1>1, <1>4, SwapArranged
  <2>2. \A m \in Int : (m <= i \/ j < m) /\ Split(m) => Split(m)'
    <3>1. \A m \in Int : m <= i \/ j < m => (i < m <=> j < m) /\ (m <= i <=> m <= j)
      BY <1>1, <1>4
    <3>2. QED
      BY <2>1, <3>1
  <2>3. Split(lo)' /\ Split(hi + 1)'
    <3>1. Split(lo) /\ Split(hi + 1) /\ hi + 1 \in Int /\ j < hi + 1
      BY <1>0, <1>1 DEF RoundInv
    <3>2. \A m : m = lo \/ m = hi + 1 => Split(m)'
      BY <1>1, <2>2, <3>1
    <3>3. QED
      BY <1>0, <3>2 DEF Split
  <2>4. second' => Filled(s)'
    <3>1. SUFFICES ASSUME second PROVE Filled(s)'
      BY <1>0
    <3>2. Split(s) /\ Split(s + 1) /\ s <= lo
      BY <1>0, <3>1 DEF Selecting, Filled, RoundInv
    <3>3. s + 1 <= i \/ j < s + 1
      <4>1. SUFFICES ASSUME s = i, s < j PROVE FALSE
        BY <1>1, <3>2
      <4>2. stableLess(a[i], a[j])
        BY <1>1, <3>2, <4>1 DEF Split
      <4>3. stableLess(pivot, a[i]) \/ pivot = a[i]
        BY <1>2, OrderIsTotal
      <4>4. QED
        BY <1>2, <4>2, <4>3, OrderIsTransitive
    <3>4. \A m : m = s \/ m = s + 1 => Split(m)'
      BY <1>1, <2>2, <3>2, <3>3
    <3>5. QED
      BY <1>0, <3>4 DEF Filled, Split
  <2>5. PICK u \in Int, v \in Int : u = i + 1 /\ v = j - 1
    BY <1>1
  <2>6. i' = u /\ j' = v /\ at' = IF u <= v THEN "scan_i" ELSE "narrow"
    BY <1>4, <2>5
  <2>7. u \in lo..(hi + 1) /\ v \in (lo - 1)..hi
    BY <1>1, <2>5
  <2>8. \A x \in Places : lo <= x /\ x < u => ~stableLess(pivot, a'[x])
    <3>1. \A x \in Places : x < u => x = i \/ (x < i /\ x # j)
      BY <1>1, <1>4, <2>5
    <3>2. QED
      BY <1>0, <1>2, <2>1, <3>1 DEF RoundInv
  <2>9. \A x \in Places : v < x /\ x <= hi => ~stableLess(a'[x], pivot)
    <3>1. \A x \in Places : v < x => x = j \/ (j < x /\ x # i)
      BY <1>1, <1>4, <2>5
    <3>2. QED
      BY <1>0, <1>2, <2>1, <3>1 DEF RoundInv
  <2>10. CASE u <= v
    <3>1. j \in u..hi /\ i \in lo..v
      BY <1>1, <2>5, <2>10
    <3>2. /\ \E x \in u..hi : ~stableLess(a'[x], pivot)
          /\ \E x \in lo..v : ~stableLess(pivot, a'[x])
      BY <1>2, <2>1, <3>1
    <3>3. at' = "scan_i"
      BY <2>6, <2>10
    <3>4. RoundInv'
      BY <1>0, <1>3, <2>1, <2>3, <2>6, <2>7, <2>8, <2>9, <3>2, <3>3 DEF RoundInv
    <3>5. QED
      BY <1>0, <2>1, <2>4, <3>3, <3>4 DEF Selecting
  <2>11. CASE ~(u <= v)
    <3>1. at' = "narrow" /\ v < u
      BY <2>6, <2>11
    <3>2. RoundInv'
      BY <1>0, <1>3, <2>1, <2>3, <2>6, <2>7, <2>8, <2>9, <3>1 DEF RoundInv
    <3>3. QED
      BY <1>0, <2>1, <2>4, <3>1, <3>2 DEF Selecting
  <2>12. QED
    BY <2>10, <2>11
<1>5. CASE ~(i <= j) /\ UNCHANGED <<a, i, j>> /\ at' = "narrow"
  <2>1. /\ Arranged' /\ Places' = Places /\ Elems' = Elems
        /\ \A m : Split(m)' <=> Split(m)
        /\ \A m : Filled(m)' <=> Filled(m)
    BY <1>0, <1>5, StaysArranged
  <2>2. Split(lo)' /\ Split(hi + 1)' /\ (second' => Filled(s)')
    BY <1>0, <2>1 DEF RoundInv, Selecting, Split, Filled
  <2>3. j < i
    BY <1>1, <1>5
  <2>4. RoundInv'
    BY <1>0, <1>3, <1>5, <2>1, <2>2, <2>3 DEF RoundInv
  <2>5. QED
    BY <1>0, <1>5, <2>1, <2>2, <2>4 DEF Selecting
<1>6. QED
  <2>1. ASSUME ~(i <= j) PROVE at' = "narrow" /\ UNCHANGED <<a, i, j>>
    BY <2>1 DEF Swap
  <2>2. QED
    BY <1>4, <1>5, <2>1 DEF Swap
-----------------------------------------------------------------------------
(***************************************************************************)
(* The ranks of the elements                                               *)
(***************************************************************************)

\* A function without repetitions takes as many values as it has arguments.
Distinct(f, S) == \A x, y \in S : f[x] = f[y] => x = y

LEMMA ImageCount ==
    ASSUME NEW f, NEW u \in Int, NEW v \in Int, Distinct(f, u..v),
           NEW T, T = {f[x] : x \in u..v}
    PROVE  IsFiniteSet(T) /\ Cardinality(T) = IF u > v THEN 0 ELSE v - u + 1
<1>. DEFINE g == [x \in u..v |-> f[x]]
<1>1. g \in Surjection(u..v, T)
  BY DEF Surjection
<1>2. g \in Injection(u..v, T)
  BY DEF Injection, IsInjective, Distinct
<1>3. IsFiniteSet(u..v) /\ Cardinality(u..v) = IF u > v THEN 0 ELSE v - u + 1
  BY FS_Interval
<1>. HIDE DEF g
<1>4. IsFiniteSet(T) /\ Cardinality(T) = Cardinality(u..v)
  BY <1>1, <1>2, <1>3, FS_Surjection
<1>5. QED
  BY <1>3, <1>4

\* What StableSorted puts before the element at place w of the input.
Ahead(w) ==
    {y \in DOMAIN input : \/ less(input[y], input[w])
                          \/ ~less(input[w], input[y]) /\ y < w}

LEMMA AheadIsBefore ==
    ASSUME Keyed, NEW y \in Elems, NEW z \in Elems
    PROVE  y.idx + 1 \in Ahead(z.idx + 1) <=> stableLess(y, z)
<1>1. /\ y.V = input[y.idx + 1] /\ z.V = input[z.idx + 1]
      /\ y.V.key \in Int /\ z.V.key \in Int
      /\ y.idx \in Int /\ z.idx \in Int /\ y.idx + 1 \in DOMAIN input
  BY ElemShape DEF Keyed, Places
<1>2. y.idx + 1 < z.idx + 1 <=> y.idx < z.idx
  BY <1>1
<1>3. y.idx + 1 \in Ahead(z.idx + 1) <=>
         less(y.V, z.V) \/ (~less(z.V, y.V) /\ y.idx < z.idx)
  BY <1>1, <1>2 DEF Ahead
<1>4. QED
  BY <1>1, <1>3 DEF stableLess, equal, less

Elem(w) == [V |-> input[w], idx |-> w - 1]

LEMMA ElemOfPlace ==
    ASSUME Keyed, NEW w \in DOMAIN input
    PROVE  Elem(w) \in Elems /\ Elem(w).idx + 1 = w /\ Elem(w).V = input[w]
<1>1. w \in Int /\ w - 1 \in Places /\ (w - 1) + 1 = w
  BY DEF Keyed, Places
<1>2. QED
  BY <1>1 DEF Elem, Elems

\* No two elements have the same rank.
LEMMA RanksDiffer ==
    ASSUME Keyed, NEW v \in DOMAIN input, NEW w \in DOMAIN input,
           Cardinality(Ahead(v)) = Cardinality(Ahead(w))
    PROVE  v = w
<1>0. IsFiniteSet(Ahead(v)) /\ IsFiniteSet(Ahead(w))
  <2>1. IsFiniteSet(DOMAIN input)
    BY FS_Interval DEF Keyed
  <2>2. QED
    BY <2>1, FS_Subset DEF Ahead
<1>1. ASSUME NEW x \in DOMAIN input, NEW y \in DOMAIN input,
             stableLess(Elem(x), Elem(y)), IsFiniteSet(Ahead(y)),
             Cardinality(Ahead(x)) = Cardinality(Ahead(y))
      PROVE  FALSE
  <2>1. \A z \in DOMAIN input : z \in Ahead(x) <=> stableLess(Elem(z), Elem(x))
    BY ElemOfPlace, AheadIsBefore
  <2>2. \A z \in DOMAIN input : z \in Ahead(y) <=> stableLess(Elem(z), Elem(y))
    BY ElemOfPlace, AheadIsBefore
  <2>3. \A z \in DOMAIN input : Elem(z) \in Elems
    BY ElemOfPlace
  <2>4. Ahead(x) \subseteq Ahead(y)
    <3>1. ASSUME NEW z \in Ahead(x) PROVE z \in Ahead(y)
      <4>1. z \in DOMAIN input
        BY DEF Ahead
      <4>2. stableLess(Elem(z), Elem(y))
        BY <1>1, <2>1, <2>3, <4>1, OrderIsTransitive
      <4>3. QED
        BY <2>2, <4>1, <4>2
    <3>2. QED
      BY <3>1
  <2>5. x \in Ahead(y) /\ x \notin Ahead(x)
    BY <1>1, <2>1, <2>2, <2>3, OrderIsStrict
  <2>6. Ahead(x) = Ahead(y)
    BY <1>1, <2>4, FS_Subset
  <2>7. QED
    BY <2>5, <2>6
<1>2. Elem(v) \in Elems /\ Elem(w) \in Elems /\ (Elem(v) = Elem(w) => v = w)
  BY ElemOfPlace
<1>3. QED
  BY <1>0, <1>1, <1>2, OrderIsTotal

\* An arrangement of the elements in which place x has all those left of it
\* before it, and all those right of it after it, agrees there with the
\* stable sort.
LEMMA RankOfPlace ==
    ASSUME Keyed, NEW c \in [Places -> Elems],
           \A z \in Elems : \E y \in Places : c[y] = z,
           \A y, z \in Places : c[y] = c[z] => y = z,
           NEW x \in Places,
           \A y \in Places : y < x => stableLess(c[y], c[x]),
           \A y \in Places : x < y => stableLess(c[x], c[y])
    PROVE  StableSorted(input)[x + 1] = c[x].V
<1>. DEFINE w == c[x].idx + 1
            f == [y \in Places |-> c[y].idx + 1]
<1>0. n \in Nat /\ Places = 0..(n - 1) /\ DOMAIN input = 1..n /\ x \in Int
  BY DEF Keyed, Places
<1>1. w \in DOMAIN input /\ input[w] = c[x].V
  <2>1. c[x] \in Elems
    OBVIOUS
  <2>2. c[x].idx \in Places /\ c[x] = [V |-> input[c[x].idx + 1], idx |-> c[x].idx]
    BY <2>1, ElemShape
  <2>3. QED
    BY <1>0, <2>2
<1>2. Ahead(w) = {f[y] : y \in 0..(x - 1)}
  <2>1. ASSUME NEW v \in Ahead(w) PROVE \E y \in 0..(x - 1) : f[y] = v
    <3>1. v \in DOMAIN input
      BY DEF Ahead
    <3>2. Elem(v) \in Elems /\ Elem(v).idx + 1 = v
      BY <3>1, ElemOfPlace
    <3>3. PICK y \in Places : c[y] = Elem(v)
      BY <3>2
    <3>4. stableLess(c[y], c[x])
      BY <3>2, <3>3, AheadIsBefore
    <3>5. ~(x < y) /\ y # x
      BY <3>4, OrderIsStrict
    <3>6. y \in 0..(x - 1)
      BY <1>0, <3>5
    <3>7. QED
      BY <3>2, <3>3, <3>6
  <2>2. ASSUME NEW y \in 0..(x - 1) PROVE f[y] \in Ahead(w)
    <3>1. y \in Places /\ y < x
      BY <1>0
    <3>2. QED
      BY <3>1, AheadIsBefore
  <2>. HIDE DEF f, w
  <2>3. \A v : v \in Ahead(w) <=> \E y \in 0..(x - 1) : f[y] = v
    BY <2>1, <2>2
  <2>4. QED
    BY <2>3
<1>3. Cardinality(Ahead(w)) = x
  <2>1. \A y, z \in 0..(x - 1) : f[y] = f[z] => y = z
    <3>1. ASSUME NEW y \in 0..(x - 1), NEW z \in 0..(x - 1), f[y] = f[z]
          PROVE  y = z
      <4>1. y \in Places /\ z \in Places
        BY <1>0
      <4>2. /\ c[y].idx \in Int /\ c[z].idx \in Int
            /\ c[y] = [V |-> input[c[y].idx + 1], idx |-> c[y].idx]
            /\ c[z] = [V |-> input[c[z].idx + 1], idx |-> c[z].idx]
        BY <1>0, <4>1, ElemShape
      <4>3. c[y].idx = c[z].idx
        BY <3>1, <4>1, <4>2
      <4>4. QED
        BY <4>1, <4>2, <4>3
    <3>2. QED
      BY <3>1
  <2>. HIDE DEF f, w
  <2>2. PICK last \in Int : last = x - 1
    BY <1>0
  <2>3. Distinct(f, 0..last)
    BY <2>1, <2>2 DEF Distinct
  <2>4. Cardinality(Ahead(w)) = IF 0 > last THEN 0 ELSE last - 0 + 1
    BY <1>2, <2>2, <2>3, ImageCount
  <2>5. Cardinality(Ahead(w)) = last - 0 + 1 /\ last - 0 + 1 = x
    BY <1>0, <2>2, <2>4
  <2>6. QED
    BY <2>5
<1>4. x + 1 \in DOMAIN input /\ (x + 1) - 1 = x
  BY <1>0
<1>. HIDE DEF w, f
<1>5. (CHOOSE v \in DOMAIN input : Cardinality(Ahead(v)) = (x + 1) - 1) = w
  BY <1>1, <1>3, <1>4, RanksDiffer
<1>6. QED
  BY <1>1, <1>4, <1>5 DEF StableSorted, Ahead
-----------------------------------------------------------------------------
(***************************************************************************)
(* The sorted block                                                        *)
(***************************************************************************)

\* blk holds the elements of the places left..right-1, sorted; len of them.
Block(left, right, len, blk) ==
    /\ left \in 0..s /\ right \in e..n /\ len = right - left
    /\ DOMAIN blk = 1..len
    /\ \A x \in 1..len : \E w \in left..(right - 1) : blk[x] = a[w]
    /\ \A w \in left..(right - 1) : \E x \in 1..len : blk[x] = a[w]
    /\ \A x, y \in 1..len : x < y => stableLess(blk[x], blk[y])

\* sort.Slice leaves a block.
LEMMA SortingIsBlock ==
    ASSUME Arranged, NEW left \in 0..s, NEW right \in e..n,
           NEW blk \in Sortings({a[x] : x \in left..(right - 1)})
    PROVE  \E len \in Nat : Block(left, right, len, blk)
<1>. DEFINE B == {a[x] : x \in left..(right - 1)}
<1>1. /\ n \in Nat /\ Places = 0..(n - 1) /\ left \in Int /\ right \in Int
      /\ 0 <= left /\ left < right /\ right <= n /\ Keyed /\ a \in [Places -> Elems]
  BY DEF Arranged, Keyed, Places
<1>2. PICK len \in Nat, last \in Int : len = right - left /\ last = right - 1
  BY <1>1
<1>3. \A x \in left..last : x \in Places
  BY <1>1, <1>2
<1>4. Distinct(a, left..last)
  BY <1>3 DEF Distinct, Arranged
<1>. HIDE DEF B
<1>5. B = {a[x] : x \in left..last}
  BY <1>2 DEF B
<1>6. IsFiniteSet(B) /\ Cardinality(B) = len
  <2>1. IsFiniteSet(B) /\ Cardinality(B) = IF left > last THEN 0 ELSE last - left + 1
    BY <1>1, <1>4, <1>5, ImageCount
  <2>2. QED
    BY <1>1, <1>2, <2>1
<1>7. /\ blk \in [1..len -> B]
      /\ \A x, y \in 1..len : x # y => blk[x] # blk[y]
      /\ \A x, y \in 1..len : x < y => ~stableLess(blk[y], blk[x])
  BY <1>6 DEF Sortings, SetToSeqs, B
<1>8. \A z \in B : \E x \in 1..len : blk[x] = z
  <2>1. blk \in Injection(1..len, B)
    BY <1>7 DEF Injection, IsInjective
  <2>2. IsFiniteSet(1..len) /\ Cardinality(1..len) = len
    BY FS_Interval
  <2>3. blk \in Surjection(1..len, B)
    BY <1>6, <2>1, <2>2, FS_Injection
  <2>4. QED
    BY <2>3 DEF Surjection
<1>9. \A x \in 1..len : \E w \in left..(right - 1) : blk[x] = a[w]
  BY <1>2, <1>5, <1>7
<1>10. \A w \in left..(right - 1) : \E x \in 1..len : blk[x] = a[w]
  BY <1>2, <1>5, <1>8
<1>11. ASSUME NEW x \in 1..len, NEW y \in 1..len, x < y
       PROVE  stableLess(blk[x], blk[y])
  <2>1. blk[x] \in Elems /\ blk[y] \in Elems /\ blk[x] # blk[y] /\ ~stableLess(blk[y], blk[x])
    BY <1>1, <1>2, <1>3, <1>5, <1>7, <1>11
  <2>2. QED
    BY <1>1, <2>1, OrderIsTotal
<1>12. QED
  BY <1>2, <1>7, <1>9, <1>10, <1>11 DEF Block

\* Where place s is split off, the sorted block has no element from before s
\* after its first s - left.
LEMMA BlockAfterStart ==
    ASSUME Arranged, Split(s), NEW left, NEW right, NEW len \in Nat, NEW blk,
           Block(left, right, len, blk),
           NEW u \in 1..len, s - left < u,
           NEW w \in left..(s - 1)
    PROVE  blk[u] # a[w]
<1>0. SUFFICES ASSUME blk[u] = a[w] PROVE FALSE
  OBVIOUS
<1>1. /\ n \in Nat /\ Places = 0..(n - 1) /\ left \in Int /\ right \in Int /\ s \in Int
      /\ 0 <= left /\ left <= s /\ s < right /\ right <= n /\ Keyed /\ a \in [Places -> Elems]
  BY DEF Arranged, Keyed, Places, Block
<1>2. \A x \in left..(right - 1) : x \in Places /\ a[x] \in Elems
  BY <1>1
<1>3. ASSUME NEW x \in 1..u PROVE \E v \in left..(s - 1) : blk[x] = a[v]
  <2>1. x \in 1..len /\ (x < u \/ x = u)
    OBVIOUS
  <2>2. PICK v \in left..(right - 1) : blk[x] = a[v]
    BY <2>1 DEF Block
  <2>3. v < s
    <3>1. SUFFICES ASSUME s <= v PROVE FALSE
      BY <1>1
    <3>2. w \in Places /\ v \in Places /\ w < s
      BY <1>1, <1>2
    <3>3. stableLess(a[w], a[v])
      BY <3>1, <3>2 DEF Split
    <3>4. stableLess(a[v], a[w]) \/ a[v] = a[w]
      BY <1>0, <2>1, <2>2 DEF Block
    <3>5. QED
      BY <1>1, <1>2, <3>2, <3>3, <3>4, OrderIsStrict
  <2>4. QED
    BY <1>1, <2>2, <2>3
<1>. DEFINE A == {blk[x] : x \in 1..u}
            C == {a[v] : v \in left..(s - 1)}
<1>4. A \subseteq C
  BY <1>3
<1>5. Distinct(blk, 1..u)
  <2>1. ASSUME NEW x \in 1..u, NEW y \in 1..u, blk[x] = blk[y] PROVE x = y
    <3>1. x \in 1..len /\ y \in 1..len /\ x \in Int /\ y \in Int
      OBVIOUS
    <3>2. PICK v \in left..(right - 1) : blk[x] = a[v]
      BY <3>1 DEF Block
    <3>3. ~stableLess(blk[x], blk[y]) /\ ~stableLess(blk[y], blk[x])
      BY <1>1, <1>2, <2>1, <3>2, OrderIsStrict
    <3>4. QED
      BY <3>1, <3>3 DEF Block
  <2>2. QED
    BY <2>1 DEF Distinct
<1>6. Distinct(a, left..(s - 1))
  <2>1. \A x \in left..(s - 1) : x \in Places
    BY <1>1
  <2>2. QED
    BY <2>1 DEF Distinct, Arranged
<1>7. PICK last \in Int : last = s - 1
  BY <1>1
<1>. HIDE DEF A, C
<1>8. IsFiniteSet(A) /\ Cardinality(A) = u
  <2>1. Cardinality(A) = IF 1 > u THEN 0 ELSE u - 1 + 1
    BY <1>5, ImageCount DEF A
  <2>2. QED
    BY <1>5, <2>1, ImageCount DEF A
<1>9. IsFiniteSet(C) /\ Cardinality(C) = s - left
  <2>1. C = {a[v] : v \in left..last} /\ Distinct(a, left..last)
    BY <1>6, <1>7 DEF C
  <2>2. IsFiniteSet(C) /\ Cardinality(C) = IF left > last THEN 0 ELSE last - left + 1
    BY <1>1, <2>1, ImageCount
  <2>3. QED
    BY <1>1, <1>7, <2>2
<1>10. Cardinality(A) <= Cardinality(C)
  BY <1>4, <1>9, FS_Subset
<1>11. QED
  BY <1>1, <1>8, <1>9, <1>10

\* Where place e is split off, it has none from e or after among its first
\* e - left.
LEMMA BlockBeforeEnd ==
    ASSUME Arranged, Split(e), NEW left, NEW right, NEW len \in Nat, NEW blk,
           Block(left, right, len, blk),
           NEW u \in 1..len, u <= e - left,
           NEW w \in e..(right - 1)
    PROVE  blk[u] # a[w]
<1>0. SUFFICES ASSUME blk[u] = a[w] PROVE FALSE
  OBVIOUS
<1>1. /\ n \in Nat /\ Places = 0..(n - 1) /\ left \in Int /\ right \in Int /\ e \in Int
      /\ 0 <= left /\ left < e /\ e <= right /\ right <= n /\ len = right - left
      /\ Keyed /\ a \in [Places -> Elems]
  BY DEF Arranged, Keyed, Places, Block
<1>2. \A x \in left..(right - 1) : x \in Places /\ a[x] \in Elems
  BY <1>1
<1>3. ASSUME NEW x \in u..len PROVE \E v \in e..(right - 1) : blk[x] = a[v]
  <2>1. x \in 1..len /\ (u < x \/ x = u)
    OBVIOUS
  <2>2. PICK v \in left..(right - 1) : blk[x] = a[v]
    BY <2>1 DEF Block
  <2>3. e <= v
    <3>1. SUFFICES ASSUME v < e PROVE FALSE
      BY <1>1
    <3>2. w \in Places /\ v \in Places /\ e <= w
      BY <1>1, <1>2
    <3>3. stableLess(a[v], a[w])
      BY <3>1, <3>2 DEF Split
    <3>4. stableLess(a[w], a[v]) \/ a[v] = a[w]
      BY <1>0, <2>1, <2>2 DEF Block
    <3>5. QED
      BY <1>1, <1>2, <3>2, <3>3, <3>4, OrderIsStrict
  <2>4. QED
    BY <1>1, <2>2, <2>3
<1>. DEFINE A == {blk[x] : x \in u..len}
            C == {a[v] : v \in e..(right - 1)}
<1>4. A \subseteq C
  BY <1>3
<1>5. Distinct(blk, u..len)
  <2>1. ASSUME NEW x \in u..len, NEW y \in u..len, blk[x] = blk[y] PROVE x = y
    <3>1. x \in 1..len /\ y \in 1..len /\ x \in Int /\ y \in Int
      OBVIOUS
    <3>2. PICK v \in left..(right - 1) : blk[x] = a[v]
      BY <3>1 DEF Block
    <3>3. ~stableLess(blk[x], blk[y]) /\ ~stableLess(blk[y], blk[x])
      BY <1>1, <1>2, <2>1, <3>2, OrderIsStrict
    <3>4. QED
      BY <3>1, <3>3 DEF Block
  <2>2. QED
    BY <2>1 DEF Distinct
<1>6. Distinct(a, e..(right - 1))
  <2>1. \A x \in e..(right - 1) : x \in Places
    BY <1>1
  <2>2. QED
    BY <2>1 DEF Distinct, Arranged
<1>7. PICK last \in Int : last = right - 1
  BY <1>1
<1>. HIDE DEF A, C
<1>8. IsFiniteSet(A) /\ Cardinality(A) = len - u + 1
  <2>1. IsFiniteSet(A) /\ Cardinality(A) = IF u > len THEN 0 ELSE len - u + 1
    BY <1>5, ImageCount DEF A
  <2>2. QED
    BY <2>1
<1>9. IsFiniteSet(C) /\ Cardinality(C) = right - e
  <2>1. C = {a[v] : v \in e..last} /\ Distinct(a, e..last)
    BY <1>6, <1>7 DEF C
  <2>2. IsFiniteSet(C) /\ Cardinality(C) = IF e > last THEN 0 ELSE last - e + 1
    BY <1>1, <1>7, <2>1, ImageCount
  <2>3. QED
    BY <1>1, <1>7, <2>2
<1>10. Cardinality(A) <= Cardinality(C)
  BY <1>4, <1>9, FS_Subset
<1>11. QED
  BY <1>1, <1>8, <1>9, <1>10

\* Between two filled places the sorted block is what the stable sort puts
\* there.
LEMMA BlockIsStable ==
    ASSUME Arranged, Split(s), Split(e), NEW left, NEW right, NEW len \in Nat, NEW blk,
           Block(left, right, len, blk),
           NEW t \in s..(e - 1)
    PROVE  /\ t - left + 1 \in 1..len
           /\ StableSorted(input)[t + 1] = blk[t - left + 1].V
<1>1. /\ n \in Nat /\ Places = 0..(n - 1) /\ left \in Int /\ right \in Int
      /\ s \in Int /\ e \in Int /\ 0 <= left /\ left <= s /\ s < e /\ e <= right /\ right <= n
      /\ len = right - left /\ Keyed /\ a \in [Places -> Elems] /\ t \in Int /\ s <= t /\ t < e
  BY DEF Arranged, Keyed, Places, Block
<1>2. \A x \in left..(right - 1) : x \in Places /\ a[x] \in Elems
  BY <1>1
<1>3. PICK u \in 1..len : u = t - left + 1
  BY <1>1
<1>. DEFINE c == [x \in Places |-> IF left <= x /\ x < right THEN blk[x - left + 1] ELSE a[x]]
<1>4. \A x \in Places : /\ left <= x /\ x < right =>
                              x - left + 1 \in 1..len /\ c[x] = blk[x - left + 1]
                        /\ ~(left <= x /\ x < right) => c[x] = a[x]
  BY <1>1
<1>5. \A x \in 1..len : left + x - 1 \in Places /\ c[left + x - 1] = blk[x]
  BY <1>1
<1>6. c \in [Places -> Elems]
  <2>1. \A x \in 1..len : blk[x] \in Elems
    BY <1>2 DEF Block
  <2>2. \A x \in Places : c[x] \in Elems
    BY <1>1, <1>4, <2>1
  <2>3. QED
    BY <2>2
<1>. HIDE DEF c
<1>7. ASSUME NEW z \in Elems PROVE \E y \in Places : c[y] = z
  <2>1. PICK w \in Places : a[w] = z
    BY DEF Arranged
  <2>2. CASE left <= w /\ w < right
    <3>1. w \in left..(right - 1)
      BY <1>1, <2>2
    <3>2. PICK x \in 1..len : blk[x] = a[w]
      BY <3>1 DEF Block
    <3>3. QED
      BY <1>5, <2>1, <3>2
  <2>3. CASE ~(left <= w /\ w < right)
    BY <1>4, <2>1, <2>3
  <2>4. QED
    BY <2>2, <2>3
<1>8. ASSUME NEW y \in Places, NEW z \in Places, y < z, c[y] = c[z] PROVE FALSE
  <2>0. y \in Int /\ z \in Int
    BY <1>1
  <2>1. CASE (left <= y /\ y < right) /\ (left <= z /\ z < right)
    <3>1. PICK v \in 1..len, w \in 1..len : v < w /\ c[y] = blk[v] /\ c[z] = blk[w]
      BY <1>1, <1>4, <1>8, <2>0, <2>1
    <3>2. stableLess(c[y], c[z]) /\ c[y] \in Elems /\ c[z] \in Elems
      BY <1>6, <3>1 DEF Block
    <3>3. QED
      BY <1>1, <1>8, <3>2, OrderIsStrict
  <2>2. CASE (left <= y /\ y < right) /\ ~(left <= z /\ z < right)
    <3>1. PICK v \in left..(right - 1) : c[y] = a[v]
      <4>1. PICK x \in 1..len : c[y] = blk[x]
        BY <1>4, <2>2
      <4>2. QED
        BY <4>1 DEF Block
    <3>2. c[z] = a[z] /\ v # z /\ v \in Places
      BY <1>1, <1>2, <1>4, <2>0, <2>2
    <3>3. QED
      BY <1>8, <3>1, <3>2 DEF Arranged
  <2>3. CASE ~(left <= y /\ y < right) /\ (left <= z /\ z < right)
    <3>1. PICK v \in left..(right - 1) : c[z] = a[v]
      <4>1. PICK x \in 1..len : c[z] = blk[x]
        BY <1>4, <2>3
      <4>2. QED
        BY <4>1 DEF Block
    <3>2. c[y] = a[y] /\ v # y /\ v \in Places
      BY <1>1, <1>2, <1>4, <2>0, <2>3
    <3>3. QED
      BY <1>8, <3>1, <3>2 DEF Arranged
  <2>4. CASE ~(left <= y /\ y < right) /\ ~(left <= z /\ z < right)
    <3>1. a[y] = a[z]
      BY <1>4, <1>8, <2>4
    <3>2. QED
      BY <1>8, <2>0, <3>1 DEF Arranged
  <2>5. QED
    BY <2>1, <2>2, <2>3, <2>4
<1>9. ASSUME NEW y \in Places, NEW z \in Places, c[y] = c[z] PROVE y = z
  <2>1. y \in Int /\ z \in Int
    BY <1>1
  <2>2. QED
    BY <1>8, <1>9, <2>1
<1>10. PICK w \in s..(e - 1) : blk[u] = a[w]
  <2>1. PICK w \in left..(right - 1) : blk[u] = a[w]
    BY DEF Block
  <2>2. ~(w \in left..(s - 1))
    <3>1. s - left < u
      BY <1>1, <1>3
    <3>2. QED
      BY <2>1, <3>1, BlockAfterStart
  <2>3. ~(w \in e..(right - 1))
    <3>1. u <= e - left
      BY <1>1, <1>3
    <3>2. QED
      BY <2>1, <3>1, BlockBeforeEnd
  <2>4. w \in s..(e - 1)
    BY <1>1, <2>2, <2>3
  <2>5. QED
    BY <2>1, <2>4
<1>11. t \in Places /\ c[t] = blk[u]
  BY <1>1, <1>3, <1>4
<1>12. ASSUME NEW y \in Places, y < t PROVE stableLess(c[y], c[t])
  <2>1. CASE left <= y
    <3>1. y \in Int /\ left <= y /\ y < right /\ y - left + 1 < u
      BY <1>1, <1>3, <1>12, <2>1
    <3>2. y - left + 1 \in 1..len /\ c[y] = blk[y - left + 1]
      BY <1>4, <3>1
    <3>3. QED
      BY <1>11, <3>1, <3>2 DEF Block
  <2>2. CASE y < left
    <3>1. c[y] = a[y] /\ y < s /\ s <= w /\ w \in Places
      BY <1>1, <1>4, <2>2
    <3>2. QED
      BY <1>10, <1>11, <3>1 DEF Split
  <2>3. QED
    BY <1>1, <2>1, <2>2
<1>13. ASSUME NEW y \in Places, t < y PROVE stableLess(c[t], c[y])
  <2>1. CASE y < right
    <3>1. PICK v \in 1..len : u < v /\ c[y] = blk[v]
      BY <1>1, <1>3, <1>4, <1>13, <2>1
    <3>2. QED
      BY <1>11, <3>1 DEF Block
  <2>2. CASE right <= y
    <3>1. c[y] = a[y] /\ e <= y /\ w < e /\ w \in Places
      BY <1>1, <1>4, <2>2
    <3>2. QED
      BY <1>10, <1>11, <3>1 DEF Split
  <2>3. QED
    BY <1>1, <2>1, <2>2
<1>14. StableSorted(input)[t + 1] = c[t].V
  BY <1>1, <1>6, <1>7, <1>9, <1>11, <1>12, <1>13, RankOfPlace
<1>15. QED
  BY <1>3, <1>11, <1>14

\* PageStable returns elements first..last of the block, and they are the
\* page.
LEMMA CutStep ==
    ASSUME Selecting, Cut
    PROVE  Paged'
<1>0. /\ Arranged /\ WhileInv /\ second /\ lo = hi /\ Filled(s) /\ at' = "returned"
      /\ UNCHANGED <<input, a, s, e, select>>
  BY DEF Selecting, Cut, Rounds
<1>1. /\ n \in Nat /\ Places = 0..(n - 1) /\ Keyed /\ a \in [Places -> Elems]
      /\ s \in Int /\ e \in Int /\ 0 <= s /\ s < e /\ e <= n
  BY <1>0 DEF Arranged, Keyed, Places
<1>2. Split(s) /\ Split(e)
  <2>1. Filled(k) /\ k = e - 1
    BY <1>0, <1>1 DEF WhileInv, k, Places
  <2>2. Split(k + 1) /\ k + 1 = e
    BY <1>1, <2>1 DEF Filled
  <2>3. QED
    BY <1>0, <2>2 DEF Filled
<1>3. PICK left \in 0..s, right \in e..n :
        \E blk \in Sortings({a[x] : x \in left..(right - 1)}) :
         LET lowKey == blk[s - left + 1]
             first  == CHOOSE f \in 0..(s - left) :
                         /\ \A x \in 1..f : stableLess(blk[x], lowKey)
                         /\ ~stableLess(blk[f + 1], lowKey)
             last   == Min({first + (e - s), Len(blk)})
         IN  paged' = [x \in 1..(last - first) |-> blk[first + x].V]
  BY DEF Cut
<1>3a. PICK blk \in Sortings({a[x] : x \in left..(right - 1)}) :
         LET lowKey == blk[s - left + 1]
             first  == CHOOSE f \in 0..(s - left) :
                         /\ \A x \in 1..f : stableLess(blk[x], lowKey)
                         /\ ~stableLess(blk[f + 1], lowKey)
             last   == Min({first + (e - s), Len(blk)})
         IN  paged' = [x \in 1..(last - first) |-> blk[first + x].V]
  BY <1>3
<1>. DEFINE start == CHOOSE f \in 0..(s - left) :
                       /\ \A x \in 1..f : stableLess(blk[x], blk[s - left + 1])
                       /\ ~stableLess(blk[f + 1], blk[s - left + 1])
<1>3b. paged' = [x \in 1..(Min({start + (e - s), Len(blk)}) - start) |-> blk[start + x].V]
  BY <1>3a
<1>4. PICK len \in Nat : Block(left, right, len, blk)
  BY <1>0, SortingIsBlock
<1>5. Len(blk) = len
  <2>1. DOMAIN blk = 1..len /\ blk = [x \in DOMAIN blk |-> blk[x]]
    BY <1>4 DEF Block, Sortings, SetToSeqs
  <2>2. blk \in Seq({blk[x] : x \in 1..len})
    BY <2>1
  <2>3. DOMAIN blk = 1..Len(blk) /\ Len(blk) \in Nat
    BY <2>2, LenProperties
  <2>4. QED
    BY <2>1, <2>3
<1>6. PICK from \in Nat, size \in Nat : from = s - left /\ size = e - s
  BY <1>1
<1>7. from + 1 \in 1..len /\ from + size \in Nat /\ from + size <= len /\ size > 0
  BY <1>1, <1>4, <1>6 DEF Block
<1>8. \A x \in 1..len : blk[x] \in Elems
  <2>1. \A x \in left..(right - 1) : x \in Places
    BY <1>1
  <2>2. QED
    BY <1>1, <1>4, <2>1 DEF Block
<1>. DEFINE Fits(f) == /\ \A x \in 1..f : stableLess(blk[x], blk[from + 1])
                       /\ ~stableLess(blk[f + 1], blk[from + 1])
<1>9. Fits(from)
  <2>1. \A x \in 1..from : x \in 1..len /\ x < from + 1
    BY <1>7
  <2>2. QED
    BY <1>1, <1>4, <1>7, <1>8, <2>1, OrderIsStrict DEF Block
<1>10. ASSUME NEW f \in 0..from, Fits(f) PROVE f = from
  <2>1. SUFFICES ASSUME f < from PROVE FALSE
    OBVIOUS
  <2>2. f + 1 \in 1..len /\ f + 1 < from + 1
    BY <1>7, <2>1
  <2>3. QED
    BY <1>4, <1>7, <1>10, <2>2 DEF Block
<1>. HIDE DEF Fits
<1>11. (CHOOSE f \in 0..from : Fits(f)) = from
  BY <1>9, <1>10
<1>12. Min({from + size, len}) = from + size
  BY <1>7 DEF Min
<1>13. paged' = [x \in 1..size |-> blk[from + x].V]
  <2>1. start = from
    BY <1>6, <1>11 DEF Fits
  <2>. HIDE DEF start
  <2>2. paged' = [x \in 1..(from + size - from) |-> blk[from + x].V]
    BY <1>3b, <1>5, <1>6, <1>12, <2>1
  <2>3. from + size - from = size
    BY <1>7
  <2>4. QED
    BY <2>2, <2>3
<1>14. ASSUME NEW x \in 1..size
       PROVE  paged'[x] = StableSorted(input)[s + x] /\ from + x \in 1..len
  <2>1. PICK t \in s..(e - 1) : t = s + x - 1
    BY <1>1, <1>6
  <2>2. StableSorted(input)[t + 1] = blk[t - left + 1].V
    BY <1>0, <1>2, <1>4, BlockIsStable
  <2>3. t + 1 = s + x /\ t - left + 1 = from + x
    BY <1>1, <1>6, <2>1
  <2>4. QED
    BY <1>7, <1>13, <2>2, <2>3
<1>15. paged' \in Seq({input[x] : x \in DOMAIN input})
  <2>1. ASSUME NEW z \in Elems PROVE z.V \in {input[x] : x \in DOMAIN input}
    <3>1. z.V = input[z.idx + 1] /\ z.idx + 1 \in DOMAIN input
      BY <1>1, ElemShape DEF Keyed
    <3>2. QED
      BY <3>1
  <2>2. \A x \in 1..size : blk[from + x].V \in {input[y] : y \in DOMAIN input}
    BY <1>8, <1>14, <2>1
  <2>3. QED
    BY <1>13, <2>2
<1>16. Arranged' /\ {lo', hi', i', j'} \subseteq -1..n' /\ second' \in BOOLEAN
  <2>1. Arranged' /\ n' = n
    BY <1>0, StaysArranged
  <2>2. {lo, hi, i, j} \subseteq -1..n
    BY <1>0, <1>1 DEF WhileInv
  <2>3. QED
    BY <1>0, <2>1, <2>2 DEF select
<1>17. QED
  <2>1. DOMAIN paged' = 1..(e' - s')
    BY <1>0, <1>6, <1>13
  <2>2. \A x \in 1..(e' - s') : paged'[x] = StableSorted(input')[s' + x]
    BY <1>0, <1>6, <1>14
  <2>3. QED
    BY <1>0, <1>15, <1>16, <2>1, <2>2 DEF Paged
-----------------------------------------------------------------------------
(***************************************************************************)
(* The invariant holds, and gives what the runs check                      *)
(***************************************************************************)

LEMMA PageStepInv ==
    ASSUME PageInv, PageStep
    PROVE  PageInv'
<1>1. Selecting
  BY DEF PageInv, Unused, Paged, PageStep, While, ScanUp, ScanDown, Swap, Narrow, Cut
<1>2. CASE While
  BY <1>1, <1>2, WhileStep DEF PageInv
<1>3. CASE ScanUp
  BY <1>1, <1>3, ScanUpStep DEF PageInv
<1>4. CASE ScanDown
  BY <1>1, <1>4, ScanDownStep DEF PageInv
<1>5. CASE Swap
  BY <1>1, <1>5, SwapStep DEF PageInv
<1>6. CASE Narrow
  BY <1>1, <1>6, NarrowStep DEF PageInv
<1>7. CASE Cut
  BY <1>1, <1>7, CutStep DEF PageInv
<1>8. QED
  BY <1>2, <1>3, <1>4, <1>5, <1>6, <1>7 DEF PageStep

LEMMA PageStutter ==
    ASSUME PageInv, UNCHANGED pageVars
    PROVE  PageInv'
<1>1. UNCHANGED <<at, input, a, s, e, second, lo, hi, pivot, i, j, paged>>
  BY DEF pageVars, select
<1>2. Unused => Unused'
  BY <1>1 DEF Unused
<1>3. Selecting => Selecting'
  <2>1. Arranged => /\ Arranged' /\ Places' = Places /\ Elems' = Elems /\ n' = n
                    /\ \A m : Split(m)' <=> Split(m)
                    /\ \A m : Filled(m)' <=> Filled(m)
    BY <1>1, StaysArranged
  <2>2. k' = k
    BY <1>1 DEF k
  <2>3. Arranged /\ WhileInv => WhileInv'
    BY <1>1, <2>1, <2>2 DEF WhileInv, Split, Filled
  <2>4. Arranged /\ RoundInv => RoundInv'
    BY <1>1, <2>1, <2>2 DEF RoundInv, Split
  <2>5. Arranged /\ Filled(s) => Filled(s)'
    BY <1>1, <2>1 DEF Filled, Split
  <2>6. QED
    BY <1>1, <2>1, <2>3, <2>4, <2>5 DEF Selecting
<1>4. Paged => Paged'
  BY <1>1 DEF Paged, Arranged, Keyed, Places, Elems, n
<1>5. QED
  BY <1>2, <1>3, <1>4 DEF PageInv

LEMMA PageInvType == PageInv => PageTypeOK
<1>1. Unused => PageTypeOK
  BY EmptySeq DEF Unused, PageTypeOK
<1>2. ASSUME Arranged
      PROVE  /\ 0 <= s /\ s < e /\ e <= n /\ DOMAIN a = 0..(n - 1)
             /\ {a[x] : x \in DOMAIN a} = {[V |-> input[x + 1], idx |-> x] : x \in DOMAIN a}
  <2>1. DOMAIN a = Places /\ s \in Places /\ e \in 1..n /\ s < e
    BY <1>2 DEF Arranged
  <2>2. {a[x] : x \in Places} = Elems
    BY <1>2 DEF Arranged
  <2>3. {a[x] : x \in DOMAIN a} = {[V |-> input[x + 1], idx |-> x] : x \in DOMAIN a}
    BY <2>1, <2>2 DEF Elems
  <2>4. 0 <= s /\ s < e /\ e <= n /\ Places = 0..(n - 1)
    BY <1>2, <2>1 DEF Places, Arranged, Keyed
  <2>5. QED
    BY <2>1, <2>3, <2>4
<1>3. Selecting => PageTypeOK
  <2>1. SUFFICES ASSUME Selecting PROVE PageTypeOK
    OBVIOUS
  <2>2. {lo, hi, i, j} \subseteq -1..n
    BY <2>1 DEF Selecting, WhileInv, RoundInv, Rounds, Places, Arranged, Keyed
  <2>3. QED
    BY <1>2, <2>1, <2>2, EmptySeq DEF Selecting, PageTypeOK, Rounds
<1>4. Paged => PageTypeOK
  BY <1>2 DEF Paged, PageTypeOK
<1>5. QED
  BY <1>1, <1>3, <1>4 DEF PageInv

LEMMA PageInvScans == PageInv => ScansInBounds
<1>1. SUFFICES ASSUME Selecting PROVE ScansInBounds
  BY DEF PageInv, Unused, Paged, ScansInBounds
<1>2. at \in {"scan_i", "scan_j"} => RoundInv /\ DOMAIN a = 0..(n - 1)
  BY <1>1 DEF Selecting, Rounds, Arranged, Places
<1>3. QED
  BY <1>1, <1>2 DEF Selecting, RoundInv, ScansInBounds, Places, Arranged, Keyed

LEMMA PageInvPaged == PageInv => PagedIsStable
<1>1. Unused => PagedIsStable
  <2>1. SubSeq(StableSorted(input), 1, 0) = << >>
    BY SubSeqEmpty
  <2>2. QED
    BY <2>1 DEF Unused, PagedIsStable
<1>2. Selecting => PagedIsStable
  BY DEF Selecting, PagedIsStable, Rounds
<1>3. ASSUME Paged PROVE paged = SubSeq(StableSorted(input), s + 1, e)
  <2>0. /\ s \in Int /\ e \in Int /\ s < e /\ DOMAIN paged = 1..(e - s)
        /\ \A x \in 1..(e - s) : paged[x] = StableSorted(input)[s + x]
    <3>1. n \in Nat /\ s \in Places /\ e \in 1..n /\ s < e
      BY <1>3 DEF Paged, Arranged, Keyed
    <3>2. s \in Int /\ e \in Int
      BY <3>1 DEF Places
    <3>3. QED
      BY <1>3, <3>1, <3>2 DEF Paged
  <2>. DEFINE S == {paged[x] : x \in DOMAIN paged}
  <2>1. PICK from \in Int : from = s + 1
    BY <2>0
  <2>2. \A x \in from..e : StableSorted(input)[x] \in S
    <3>1. ASSUME NEW x \in from..e PROVE StableSorted(input)[x] \in S
      <4>1. x - s \in 1..(e - s) /\ s + (x - s) = x
        BY <2>0, <2>1
      <4>2. QED
        BY <2>0, <4>1
    <3>2. QED
      BY <3>1
  <2>3. paged \in Seq(S) /\ Len(paged) = e - s
    <3>1. paged \in Seq({input[x] : x \in DOMAIN input})
      BY <1>3 DEF Paged
    <3>2. DOMAIN paged = 1..Len(paged) /\ Len(paged) \in Nat
      BY <3>1, LenProperties
    <3>3. paged = [x \in 1..(e - s) |-> paged[x]]
      BY <2>0, <3>1, LenProperties
    <3>4. QED
      BY <2>0, <3>2, <3>3
  <2>. HIDE DEF S
  <2>4. /\ SubSeq(StableSorted(input), from, e) \in Seq(S)
        /\ Len(SubSeq(StableSorted(input), from, e)) = IF from <= e THEN e - from + 1 ELSE 0
        /\ \A x \in 1..(e - from + 1) :
              SubSeq(StableSorted(input), from, e)[x] = StableSorted(input)[from + x - 1]
    BY <2>0, <2>2, SubSeqProperties
  <2>5. e - from + 1 = e - s /\ from <= e /\ \A x \in Int : from + x - 1 = s + x
    BY <2>0, <2>1
  <2>6. \A x \in 1..(e - s) : paged[x] = SubSeq(StableSorted(input), from, e)[x]
    <3>1. ASSUME NEW x \in 1..(e - s)
          PROVE  paged[x] = SubSeq(StableSorted(input), from, e)[x]
      <4>1. x \in 1..(e - from + 1) /\ from + x - 1 = s + x
        BY <2>5
      <4>2. SubSeq(StableSorted(input), from, e)[x] = StableSorted(input)[from + x - 1]
        BY <2>4, <4>1
      <4>3. QED
        BY <2>0, <4>1, <4>2
    <3>2. QED
      BY <3>1
  <2>7. paged = SubSeq(StableSorted(input), from, e)
    BY <2>3, <2>4, <2>5, <2>6, SeqEqual
  <2>8. QED
    BY <2>1, <2>7
<1>4. QED
  BY <1>1, <1>2, <1>3 DEF PageInv, PagedIsStable
=============================================================================
