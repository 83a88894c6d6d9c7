----------------------------- MODULE PageStable -----------------------------
(***************************************************************************)
(* PageStable of repository/order.go: the elements that a stable sort      *)
(* would put at s..e-1, found by two quickselects that move just these     *)
(* there, and a sort of the block around them.                             *)
(*                                                                         *)
(* Go's slice a is a function on 0..n-1.  Its elements keep their place    *)
(* idx in the input; less compares the field key of what they hold,        *)
(* whatever field the caller sorts by.                                     *)
(***************************************************************************)
EXTENDS Integers, Sequences, SequencesExt

VARIABLES
    at,         \* where the call stands: "idle" before, "returned" after
    input,      \* arr
    a,          \* the copy it works on
    s, e,       \* the block asked for
    second,     \* whether it is the second call of nthSelect
    lo, hi,     \* nthSelect's bounds
    pivot, i, j,
    paged       \* what PageStable returns

select   == <<second, lo, hi, pivot, i, j>>
pageVars == <<at, input, a, s, e, select, paged>>

n == Len(input)
k == IF second THEN e - 1 ELSE s     \* the place nthSelect fills

less(x, y)  == x.key < y.key
equal(x, y) == ~less(x.V, y.V) /\ ~less(y.V, x.V)

\* Mutant: elements with equal keys are not told apart.
stableLessTies(x, y) == less(x.V, y.V)

stableLess(x, y) == less(x.V, y.V) \/ (equal(x, y) /\ x.idx < y.idx)
-----------------------------------------------------------------------------
PageInit ==
    /\ at = "idle" /\ input = << >> /\ a = << >> /\ s = 0 /\ e = 0
    /\ second = FALSE /\ lo = 0 /\ hi = 0
    /\ pivot = << >> /\ i = 0 /\ j = 0
    /\ paged = << >>

\* The call: an empty block returns nil at once.
Call(arr, page, L) ==
    /\ at = "idle"
    /\ input' = arr
    /\ \/ /\ L <= 0 \/ arr = << >> \/ (page - 1) * L >= Len(arr)
          /\ at' = "returned"
          /\ UNCHANGED <<a, s, e, select>>
       \/ /\ L > 0 /\ (page - 1) * L < Len(arr)
          /\ s' = (page - 1) * L
          /\ e' = IF s' + L > Len(arr) THEN Len(arr) ELSE s' + L
          /\ a' = [x \in 0..(Len(arr) - 1) |-> [V |-> arr[x + 1], idx |-> x]]
          /\ lo' = 0 /\ hi' = Len(arr) - 1
          /\ at' = "while"
          /\ UNCHANGED <<second, pivot, i, j>>
    /\ UNCHANGED paged

\* nthSelect's loop: a pivot for what is left, or the next call.
While ==
    /\ at = "while"
    /\ \/ /\ lo < hi
          /\ pivot' = a[lo + (hi - lo) \div 2]
          /\ i' = lo /\ j' = hi
          /\ at' = "scan_i"
          /\ UNCHANGED <<second, lo, hi>>
       \/ /\ lo >= hi /\ ~second
          /\ second' = TRUE /\ lo' = s /\ hi' = n - 1
          /\ UNCHANGED <<at, pivot, i, j>>
       \/ /\ lo >= hi /\ second
          /\ at' = "cut"
          /\ UNCHANGED select
    /\ UNCHANGED <<input, a, s, e, paged>>

\* Mutant: the scan also passes over the pivot.
ScanUpPastPivot ==
    /\ at = "scan_i"
    /\ \/ ~stableLess(pivot, a[i]) /\ i' = i + 1 /\ UNCHANGED at
       \/ stableLess(pivot, a[i]) /\ at' = "scan_j" /\ UNCHANGED i
    /\ UNCHANGED <<input, a, s, e, second, lo, hi, pivot, j, paged>>

ScanUp ==
    /\ at = "scan_i"
    /\ \/ stableLess(a[i], pivot) /\ i' = i + 1 /\ UNCHANGED at
       \/ ~stableLess(a[i], pivot) /\ at' = "scan_j" /\ UNCHANGED i
    /\ UNCHANGED <<input, a, s, e, second, lo, hi, pivot, j, paged>>

ScanDown ==
    /\ at = "scan_j"
    /\ \/ stableLess(pivot, a[j]) /\ j' = j - 1 /\ UNCHANGED at
       \/ ~stableLess(pivot, a[j]) /\ at' = "swap" /\ UNCHANGED j
    /\ UNCHANGED <<input, a, s, e, second, lo, hi, pivot, i, paged>>

\* Mutant: the scans resume at the elements just swapped.
SwapInPlace ==
    /\ at = "swap"
    /\ IF i <= j THEN a' = [a EXCEPT ![i] = a[j], ![j] = a[i]] ELSE UNCHANGED a
    /\ at' = IF i <= j THEN "scan_i" ELSE "narrow"
    /\ UNCHANGED <<input, s, e, select, paged>>

\* Mutant: a[i] is overwritten before it is read.
SwapLoses ==
    /\ at = "swap"
    /\ IF i <= j
       THEN /\ a' = [a EXCEPT ![i] = a[j]]
            /\ i' = i + 1 /\ j' = j - 1
       ELSE UNCHANGED <<a, i, j>>
    /\ at' = IF i' <= j' THEN "scan_i" ELSE "narrow"
    /\ UNCHANGED <<input, s, e, second, lo, hi, pivot, paged>>

Swap ==
    /\ at = "swap"
    /\ IF i <= j
       THEN /\ a' = [a EXCEPT ![i] = a[j], ![j] = a[i]]
            /\ i' = i + 1 /\ j' = j - 1
       ELSE UNCHANGED <<a, i, j>>
    /\ at' = IF i' <= j' THEN "scan_i" ELSE "narrow"
    /\ UNCHANGED <<input, s, e, second, lo, hi, pivot, paged>>

\* The part that holds place k, or neither: then the place is filled.
Narrow ==
    /\ at = "narrow"
    /\ \/ k <= j /\ hi' = j /\ UNCHANGED lo
       \/ k > j /\ k >= i /\ lo' = i /\ UNCHANGED hi
       \/ k > j /\ k < i /\ lo' = hi /\ UNCHANGED hi
    /\ at' = "while"
    /\ UNCHANGED <<input, a, s, e, second, pivot, i, j, paged>>

\* What sort.Slice may leave of the elements of S: any order in which no
\* element comes after one it precedes.
Sortings(S) ==
    {q \in SetToSeqs(S) : \A x, y \in DOMAIN q : x < y => ~stableLess(q[y], q[x])}

\* The block, widened by the elements equal to its ends and sorted in place;
\* what comes before place s is skipped.
Cut ==
    /\ at = "cut"
    /\ \E left \in 0..s, right \in e..n :
        /\ \A x \in left..(s - 1) : equal(a[x], a[s])
        /\ left > 0 => ~equal(a[left - 1], a[s])
        /\ \A x \in e..(right - 1) : equal(a[x], a[e - 1])
        /\ right < n => ~equal(a[right], a[e - 1])
        /\ \E blk \in Sortings({a[x] : x \in left..(right - 1)}) :
            LET lowKey == blk[s - left + 1]
                first  == CHOOSE f \in 0..(s - left) :
                            /\ \A x \in 1..f : stableLess(blk[x], lowKey)
                            /\ ~stableLess(blk[f + 1], lowKey)
                last   == Min({first + (e - s), Len(blk)})
            IN  paged' = [x \in 1..(last - first) |-> blk[first + x].V]
    /\ at' = "returned"
    /\ UNCHANGED <<input, a, s, e, select>>

PageStep == While \/ ScanUp \/ ScanDown \/ Swap \/ Narrow \/ Cut
-----------------------------------------------------------------------------
(* Properties *)

\* Variables have their shapes, and a stays a rearrangement of the input.
PageTypeOK ==
    /\ at \in {"idle", "while", "scan_i", "scan_j", "swap", "narrow", "cut", "returned"}
    /\ \/ a = << >> /\ s = 0 /\ e = 0 /\ {lo, hi, i, j} = {0}
       \/ /\ 0 <= s /\ s < e /\ e <= n /\ {lo, hi, i, j} \subseteq -1..n
          /\ DOMAIN a = 0..(n - 1)
          /\ {a[x] : x \in DOMAIN a} = {[V |-> input[x + 1], idx |-> x] : x \in DOMAIN a}
    /\ second \in BOOLEAN
    /\ paged \in Seq({input[x] : x \in DOMAIN input})

\* Place r of the stable sort of arr, by definition: as many elements have a
\* smaller key, or the same key and stand before it in arr.
StableSorted(arr) ==
    [r \in DOMAIN arr |->
        arr[CHOOSE x \in DOMAIN arr :
              Cardinality({y \in DOMAIN arr : \/ less(arr[y], arr[x])
                                              \/ ~less(arr[x], arr[y]) /\ y < x}) = r - 1]]

\* "PageStable: s..s+L-1 of the whole stable sort": the two selections and
\* the sorted block give what sorting everything would have given.
PagedIsStable ==
    at = "returned" => paged = SubSeq(StableSorted(input), s + 1, e)

\* No scan leaves the slice (Go would panic): the pivot stops both of them,
\* and after a swap the elements swapped do.
ScansInBounds ==
    /\ at = "scan_i" => i \in DOMAIN a
    /\ at = "scan_j" => j \in DOMAIN a
=============================================================================
