--------------------------- MODULE Listing_proofs ---------------------------
(***************************************************************************)
(* Proofs about Listing: whatever is searched or listed, the search finds  *)
(* every match once, and PageStable is handed a slice that can be sorted,  *)
(* so that what PageStable_proofs shows of it holds in every request.      *)
(*                                                                         *)
(* The search is argued slot by slot: at any moment a slot is still to be  *)
(* looked at by exactly one goroutine, or its match has been sent; what    *)
(* has been sent is what was received followed by what the channel holds.  *)
(***************************************************************************)
EXTENDS Listing, PageStable_proofs

(***************************************************************************)
(* The chunks                                                              *)
(***************************************************************************)

LEMMA ChunkSizePositive == ChunkSize \in Nat \ {0}
<1>1. PICK N \in Nat, C \in Nat \ {0} : N = NumProducts /\ C = NumCPU
  BY ListingAssumption
<1>2. N + 1 + C - 1 = N + C
  OBVIOUS
<1>3. (N + C) \div C \in Nat \ {0}
  BY SMTT(30)
<1>4. QED
  BY <1>1, <1>2, <1>3 DEF ChunkSize

\* Multiples of a length are at least that far apart.
LEMMA MultiplesApart ==
    ASSUME NEW K \in Nat \ {0}, NEW c \in Nat, NEW d \in Nat,
           c % K = 0, d % K = 0, c < d
    PROVE  c + K <= d
<1>1. c = K * (c \div K) /\ d = K * (d \div K) /\ c \div K \in Int /\ d \div K \in Int
  BY SMTT(30)
<1>2. PICK q \in Int, r \in Int : c = K * q /\ d = K * r
  BY <1>1
<1>3. q < r
  BY <1>2, SMTT(30)
<1>4. K * (q + 1) <= K * r
  BY <1>2, <1>3, SMTT(30)
<1>5. QED
  BY <1>2, <1>4, SMTT(30)

LEMMA MultipleBelow ==
    ASSUME NEW K \in Nat \ {0}, NEW p \in Nat
    PROVE  \E c \in Nat : c % K = 0 /\ c <= p /\ p < c + K
<1>1. p - (p % K) \in Nat /\ (p - (p % K)) % K = 0 /\ p % K \in 0..(K - 1)
  BY SMTT(30)
<1>2. PICK c : c = p - (p % K)
  OBVIOUS
<1>3. c \in Nat /\ c % K = 0
  BY <1>1, <1>2
<1>4. c <= p /\ p < c + K
  <2>1. PICK r \in 0..(K - 1) : r = p % K
    BY <1>1
  <2>2. c = p - r
    BY <1>2, <2>1
  <2>3. QED
    BY <2>2
<1>5. QED
  BY <1>3, <1>4

\* A goroutine gets the slots of its chunk, each of them once.
LEMMA SubsetShape ==
    ASSUME NEW c \in Chunks
    PROVE  /\ Subset(c) \in Seq(Slots) /\ IsInjective(Subset(c))
           /\ Range(Subset(c)) = {p \in Slots : c <= p /\ p < c + ChunkSize}
<1>1. PICK K \in Nat \ {0}, N \in Nat : K = ChunkSize /\ N = NumProducts
  BY ChunkSizePositive, ListingAssumption
<1>2. c \in Nat /\ c <= N /\ Slots = 0..N
  BY <1>1 DEF Chunks, Slots
<1>3. PICK end \in Nat : /\ end = IF c + K < N + 1 THEN c + K ELSE N + 1
                         /\ end = Min({c + ChunkSize, NumProducts + 1})
  BY <1>1, <1>2 DEF Min
<1>4. PICK len \in Nat : len = end - c
  BY <1>2, <1>3
<1>5. Subset(c) = [x \in 1..len |-> c + x - 1]
  BY <1>3, <1>4 DEF Subset
<1>6. \A x \in 1..len : c + x - 1 \in Slots
  BY <1>2, <1>3, <1>4
<1>7. Subset(c) \in Seq(Slots)
  BY <1>5, <1>6
<1>8. IsInjective(Subset(c))
  BY <1>2, <1>5 DEF IsInjective
<1>9. ASSUME NEW p \in Slots, c <= p, p < c + ChunkSize
      PROVE  p \in Range(Subset(c))
  <2>1. p - c + 1 \in 1..len /\ c + (p - c + 1) - 1 = p
    BY <1>1, <1>2, <1>3, <1>4, <1>9
  <2>2. QED
    BY <1>5, <2>1 DEF Range
<1>10. ASSUME NEW p \in Range(Subset(c))
       PROVE  p \in Slots /\ c <= p /\ p < c + ChunkSize
  <2>1. PICK x \in 1..len : p = c + x - 1
    BY <1>5 DEF Range
  <2>2. c <= p /\ p < c + K
    BY <1>2, <1>3, <1>4, <2>1
  <2>3. QED
    BY <1>1, <1>6, <2>1, <2>2
<1>11. QED
  BY <1>7, <1>8, <1>9, <1>10

LEMMA ChunksApart ==
    ASSUME NEW c \in Chunks, NEW d \in Chunks, c # d
    PROVE  Range(Subset(c)) \cap Range(Subset(d)) = {}
<1>1. PICK K \in Nat \ {0} : K = ChunkSize
  BY ChunkSizePositive
<1>2. c \in Nat /\ d \in Nat /\ c % K = 0 /\ d % K = 0
  BY <1>1, ListingAssumption DEF Chunks, Slots
<1>3. c + K <= d \/ d + K <= c
  <2>1. c < d => c + K <= d
    BY <1>2, MultiplesApart
  <2>2. d < c => d + K <= c
    BY <1>2, MultiplesApart
  <2>3. QED
    BY <1>2, <2>1, <2>2
<1>4. \A p \in Slots : ~(c <= p /\ p < c + K /\ d <= p /\ p < d + K)
  BY <1>2, <1>3, ListingAssumption DEF Slots
<1>5. QED
  BY <1>1, <1>4, SubsetShape

LEMMA ChunksCover ==
    ASSUME NEW p \in Slots
    PROVE  \E c \in Chunks : p \in Range(Subset(c))
<1>1. PICK K \in Nat \ {0}, N \in Nat : K = ChunkSize /\ N = NumProducts
  BY ChunkSizePositive, ListingAssumption
<1>2. p \in Nat /\ p <= N /\ Slots = 0..N
  BY <1>1 DEF Slots
<1>3. PICK c \in Nat : c % K = 0 /\ c <= p /\ p < c + K
  BY <1>2, MultipleBelow
<1>4. c \in Chunks
  BY <1>1, <1>2, <1>3 DEF Chunks
<1>5. QED
  BY <1>1, <1>3, <1>4, SubsetShape
-----------------------------------------------------------------------------
(***************************************************************************)
(* Sequences without repetitions                                           *)
(***************************************************************************)

LEMMA TailOfDistinct ==
    ASSUME NEW S, NEW q \in Seq(S), IsInjective(q), q # << >>
    PROVE  /\ Head(q) \in Range(q)
           /\ Tail(q) \in Seq(S) /\ IsInjective(Tail(q))
           /\ Range(Tail(q)) = Range(q) \ {Head(q)}
<1>1. PICK len \in Nat : len = Len(q)
  OBVIOUS
<1>2. /\ DOMAIN q = 1..len /\ 1 \in 1..len /\ Head(q) = q[1]
      /\ Tail(q) \in Seq(S) /\ DOMAIN Tail(q) = 1..(len - 1)
      /\ \A x \in 1..(len - 1) : Tail(q)[x] = q[x + 1] /\ x + 1 \in 1..len
  BY <1>1, HeadTailProperties, LenProperties, EmptySeq
<1>3. IsInjective(Tail(q))
  <2>1. ASSUME NEW x \in 1..(len - 1), NEW y \in 1..(len - 1), Tail(q)[x] = Tail(q)[y]
        PROVE  x = y
    <3>1. x + 1 = y + 1
      BY <1>2, <2>1 DEF IsInjective
    <3>2. QED
      BY <3>1
  <2>2. QED
    BY <1>2, <2>1 DEF IsInjective
<1>4. \A x \in 1..(len - 1) : q[x + 1] # q[1]
  <2>1. \A x \in 1..(len - 1) : x + 1 # 1
    OBVIOUS
  <2>2. QED
    BY <1>2, <2>1 DEF IsInjective
<1>5. ASSUME NEW z \in Range(q), z # Head(q) PROVE z \in Range(Tail(q))
  <2>1. PICK x \in 1..len : z = q[x] /\ x # 1
    BY <1>2, <1>5 DEF Range
  <2>2. x - 1 \in 1..(len - 1) /\ (x - 1) + 1 = x
    BY <2>1
  <2>3. QED
    BY <1>2, <2>1, <2>2 DEF Range
<1>6. ASSUME NEW z \in Range(Tail(q)) PROVE z \in Range(q) /\ z # Head(q)
  BY <1>2, <1>4 DEF Range
<1>7. QED
  BY <1>2, <1>3, <1>5, <1>6 DEF Range

LEMMA AppendDistinct ==
    ASSUME NEW S, NEW q \in Seq(S), NEW z \in S
    PROVE  /\ Append(q, z) \in Seq(S)
           /\ Range(Append(q, z)) = Range(q) \cup {z}
           /\ IsInjective(q) /\ z \notin Range(q) => IsInjective(Append(q, z))
<1>1. PICK len \in Nat : len = Len(q)
  OBVIOUS
<1>2. /\ DOMAIN q = 1..len /\ Append(q, z) \in Seq(S) /\ DOMAIN Append(q, z) = 1..(len + 1)
      /\ \A x \in 1..len : Append(q, z)[x] = q[x] /\ x \in 1..(len + 1)
      /\ Append(q, z)[len + 1] = z /\ len + 1 \in 1..(len + 1)
      /\ \A x \in 1..(len + 1) : x \in 1..len \/ x = len + 1
  BY <1>1, AppendProperties, LenProperties
<1>3. Range(Append(q, z)) = Range(q) \cup {z}
  BY <1>2 DEF Range
<1>4. IsInjective(q) /\ z \notin Range(q) => IsInjective(Append(q, z))
  BY <1>2 DEF IsInjective, Range
<1>5. QED
  BY <1>2, <1>3, <1>4

\* What is received and what the channel holds, in the order it was sent.
LEMMA SendAppends ==
    ASSUME NEW S, NEW q \in Seq(S), NEW r \in Seq(S), NEW z \in S
    PROVE  q \o Append(r, z) = Append(q \o r, z)
<1>1. << z >> \in Seq(S)
  OBVIOUS
<1>2. q \o r \in Seq(S)
  BY ConcatProperties
<1>3. Append(r, z) = r \o << z >> /\ Append(q \o r, z) = (q \o r) \o << z >>
  BY <1>2, AppendIsConcat
<1>4. QED
  BY <1>1, <1>3, ConcatAssociative

LEMMA ReceiveKeeps ==
    ASSUME NEW S, NEW q \in Seq(S), NEW r \in Seq(S), r # << >>
    PROVE  /\ Append(q, Head(r)) \in Seq(S) /\ Tail(r) \in Seq(S)
           /\ Append(q, Head(r)) \o Tail(r) = q \o r
<1>1. Head(r) \in S /\ Tail(r) \in Seq(S) /\ << Head(r) >> \in Seq(S)
  BY HeadTailProperties
<1>2. Append(q, Head(r)) \in Seq(S) /\ Append(q, Head(r)) = q \o << Head(r) >>
  BY <1>1, AppendProperties, AppendIsConcat
<1>3. << Head(r) >> \o Tail(r) = r
  OBVIOUS
<1>4. (q \o << Head(r) >>) \o Tail(r) = q \o (<< Head(r) >> \o Tail(r))
  BY <1>1, ConcatAssociative
<1>5. QED
  BY <1>1, <1>2, <1>3, <1>4
-----------------------------------------------------------------------------
(***************************************************************************)
(* The invariant                                                           *)
(***************************************************************************)

Hits  == {p \in Products : Hit(p)}
Finds == {Found(p) : p \in Hits}

\* All that the goroutines have sent.
Sent == results \o resultCh

Unseen(p) == \E c \in Chunks : p \in Range(subset[c])

\* Each slot is with one goroutine, or has been looked at; what has been sent
\* is the matches of the latter, each of them once.
SearchInv ==
    /\ subset \in [Chunks -> Seq(Slots)]
    /\ \A c \in Chunks : IsInjective(subset[c])
    /\ \A c, d \in Chunks : c # d => Range(subset[c]) \cap Range(subset[d]) = {}
    /\ results \in Seq(Finds) /\ resultCh \in Seq(Finds)
    /\ IsInjective(Sent)
    /\ Range(Sent) = {Found(p) : p \in {q \in Hits : ~Unseen(q)}}

ListInv ==
    /\ PageInv
    /\ keyOf \in [Products -> Keys \cup {0}]
    /\ stage = "idle" => results = << >> /\ resultCh = << >> /\ ~closed
    /\ stage \in {"searching", "products"} => SearchInv
    /\ stage \in {"searching", "products"} /\ closed =>
          \A c \in Chunks : subset[c] = << >>
    /\ stage = "products" => closed /\ resultCh = << >>

LEMMA FindsShape ==
    /\ \A p \in Hits, q \in Hits : Found(p) = Found(q) => p = q
    /\ keyOf \in [Products -> Keys \cup {0}] =>
          \A z \in Finds : z.id \in Products /\ z.key \in Nat
<1>1. \A p \in Hits, q \in Hits : Found(p) = Found(q) => p = q
  BY DEF Found
<1>2. ASSUME keyOf \in [Products -> Keys \cup {0}], NEW z \in Finds
      PROVE  z.id \in Products /\ z.key \in Nat
  <2>1. PICK p \in Products : z = [id |-> p, key |-> keyOf[p]]
    BY DEF Finds, Hits, Found
  <2>2. keyOf[p] \in Keys \cup {0} /\ \A v \in Keys \cup {0} : v \in Nat
    BY <1>2, ListingAssumption
  <2>3. z.id = p /\ z.key = keyOf[p]
    BY <2>1
  <2>4. QED
    BY <2>2, <2>3
<1>3. QED
  BY <1>1, <1>2

\* Steps that leave the search alone.
LEMMA SearchInvStays ==
    ASSUME SearchInv, UNCHANGED <<keyOf, subset, resultCh, results>>
    PROVE  SearchInv'
<1>1. Hits' = Hits /\ Finds' = Finds /\ Sent' = Sent
  BY DEF Hits, Finds, Sent, Found, Hit
<1>2. \A p : Unseen(p)' <=> Unseen(p)
  BY DEF Unseen
<1>3. Range(Sent') = {Found(p)' : p \in {q \in Hits' : ~Unseen(q)'}}
  BY <1>1, <1>2 DEF SearchInv, Found
<1>4. QED
  BY <1>1, <1>3 DEF SearchInv

LEMMA SearchBeginInv ==
    ASSUME ListInv, SearchBegin
    PROVE  ListInv'
<1>1. /\ subset' = [c \in Chunks |-> Subset(c)] /\ stage' = "searching"
      /\ results' = << >> /\ resultCh' = << >> /\ ~closed'
      /\ UNCHANGED <<keyOf, closed, pageVars>>
  BY DEF ListInv, SearchBegin
<1>2. Finds' = Finds /\ Hits' = Hits
  BY <1>1 DEF Finds, Hits, Found, Hit
<1>3. /\ subset' \in [Chunks -> Seq(Slots)]
      /\ \A c \in Chunks : IsInjective(subset'[c])
      /\ \A c, d \in Chunks : c # d => Range(subset'[c]) \cap Range(subset'[d]) = {}
  <2>1. \A c \in Chunks : subset'[c] = Subset(c)
    BY <1>1
  <2>2. \A c \in Chunks : Subset(c) \in Seq(Slots) /\ IsInjective(Subset(c))
    BY SubsetShape
  <2>3. \A c, d \in Chunks : c # d => Range(Subset(c)) \cap Range(Subset(d)) = {}
    BY ChunksApart
  <2>. HIDE DEF Subset
  <2>4. QED
    BY <1>1, <2>1, <2>2, <2>3
<1>4. Sent' = << >>
  BY <1>1, EmptySeq, ConcatEmptySeq DEF Sent
<1>5. IsInjective(Sent') /\ Range(Sent') = {}
  BY <1>4 DEF IsInjective, Range
<1>6. ASSUME NEW p \in Hits PROVE Unseen(p)'
  <2>1. p \in Slots
    BY ListingAssumption DEF Hits, Products, Slots
  <2>2. QED
    BY <1>1, <2>1, ChunksCover DEF Unseen
<1>7. SearchInv'
  <2>1. Range(Sent') = {Found(p)' : p \in {q \in Hits' : ~Unseen(q)'}}
    BY <1>2, <1>5, <1>6
  <2>2. QED
    BY <1>1, <1>3, <1>5, <2>1, EmptySeq DEF SearchInv
<1>8. PageInv'
  BY <1>1, PageStutter DEF ListInv
<1>9. QED
  BY <1>1, <1>7, <1>8 DEF ListInv

\* The slot looked at is with nobody any more, and its match with the others.
LEMMA LookInv ==
    ASSUME ListInv, NEW c \in Chunks, Look(c)
    PROVE  ListInv'
<1>1. /\ SearchInv /\ stage = "searching" /\ subset[c] # << >>
      /\ subset' = [subset EXCEPT ![c] = Tail(@)]
      /\ UNCHANGED <<keyOf, stage, closed, results, pageVars>>
  BY DEF ListInv, Look
<1>2. Finds' = Finds /\ Hits' = Hits /\ \A q : Found(q)' = Found(q)
  BY <1>1 DEF Finds, Hits, Found, Hit
<1>. DEFINE p == Head(subset[c])
<1>3. /\ subset[c] \in Seq(Slots) /\ IsInjective(subset[c])
      /\ p \in Range(subset[c]) /\ Tail(subset[c]) \in Seq(Slots)
      /\ IsInjective(Tail(subset[c]))
      /\ Range(Tail(subset[c])) = Range(subset[c]) \ {p}
  BY <1>1, TailOfDistinct DEF SearchInv
<1>. HIDE DEF p
<1>4. /\ subset'[c] = Tail(subset[c])
      /\ \A d \in Chunks : d # c => subset'[d] = subset[d]
      /\ subset' \in [Chunks -> Seq(Slots)]
  BY <1>1, <1>3 DEF SearchInv
<1>5. \A d \in Chunks : IsInjective(subset'[d])
  BY <1>1, <1>3, <1>4 DEF SearchInv
<1>6. \A d, f \in Chunks : d # f => Range(subset'[d]) \cap Range(subset'[f]) = {}
  <2>1. \A d \in Chunks : Range(subset'[d]) \subseteq Range(subset[d])
    BY <1>3, <1>4
  <2>2. QED
    BY <1>1, <2>1 DEF SearchInv
<1>7. ASSUME NEW q PROVE Unseen(q)' <=> Unseen(q) /\ q # p
  <2>1. \A d \in Chunks : q \in Range(subset'[d]) <=> q \in Range(subset[d]) /\ q # p
    <3>1. \A d \in Chunks : d # c => p \notin Range(subset[d])
      BY <1>1, <1>3 DEF SearchInv
    <3>2. QED
      BY <1>3, <1>4, <3>1
  <2>2. QED
    BY <2>1 DEF Unseen
<1>8. Unseen(p)
  BY <1>3 DEF Unseen
<1>9. SearchInv'
  <2>1. CASE Hit(p) /\ resultCh' = Append(resultCh, Found(p))
    <3>1. p \in Hits /\ Found(p) \in Finds
      BY <2>1 DEF Hits, Finds, Hit
    <3>2. /\ resultCh' \in Seq(Finds) /\ Sent \in Seq(Finds)
          /\ Sent' = Append(Sent, Found(p))
      BY <1>1, <2>1, <3>1, AppendProperties, ConcatProperties, SendAppends DEF SearchInv, Sent
    <3>3. Found(p) \notin Range(Sent)
      BY <1>1, <1>8, <3>1, FindsShape DEF SearchInv
    <3>4. IsInjective(Sent') /\ Range(Sent') = Range(Sent) \cup {Found(p)}
      BY <1>1, <3>1, <3>2, <3>3, AppendDistinct DEF SearchInv
    <3>5. {Found(q) : q \in {r \in Hits : ~Unseen(r)'}}
             = {Found(q) : q \in {r \in Hits : ~Unseen(r)}} \cup {Found(p)}
      BY <1>7, <1>8, <3>1
    <3>6. Range(Sent') = {Found(q)' : q \in {r \in Hits' : ~Unseen(r)'}}
      BY <1>1, <1>2, <3>4, <3>5 DEF SearchInv
    <3>7. QED
      BY <1>1, <1>2, <1>4, <1>5, <1>6, <3>2, <3>4, <3>6 DEF SearchInv
  <2>2. CASE ~Hit(p) /\ UNCHANGED resultCh
    <3>1. p \notin Hits
      BY <2>2 DEF Hits
    <3>2. Sent' = Sent
      BY <1>1, <2>2 DEF Sent
    <3>3. {r \in Hits : ~Unseen(r)'} = {r \in Hits : ~Unseen(r)}
      BY <1>7, <3>1
    <3>4. Range(Sent') = {Found(q)' : q \in {r \in Hits' : ~Unseen(r)'}}
      BY <1>1, <1>2, <3>2, <3>3 DEF SearchInv
    <3>5. QED
      BY <1>1, <1>2, <1>4, <1>5, <1>6, <2>2, <3>2, <3>4 DEF SearchInv
  <2>3. QED
    BY <2>1, <2>2 DEF Look, p
<1>10. PageInv'
  BY <1>1, PageStutter DEF ListInv
<1>11. ~closed
  BY <1>1 DEF ListInv
<1>12. QED
  BY <1>1, <1>9, <1>10, <1>11 DEF ListInv

LEMMA CloseInv ==
    ASSUME ListInv, Close
    PROVE  ListInv'
<1>1. /\ SearchInv /\ stage = "searching" /\ closed' = TRUE
      /\ \A c \in Chunks : subset[c] = << >>
      /\ UNCHANGED <<keyOf, stage, subset, resultCh, results, pageVars>>
  BY DEF ListInv, Close
<1>2. SearchInv' /\ PageInv'
  BY <1>1, SearchInvStays, PageStutter DEF ListInv
<1>3. QED
  BY <1>1, <1>2 DEF ListInv

LEMMA ReceiveInv ==
    ASSUME ListInv, Receive
    PROVE  ListInv'
<1>1. /\ SearchInv /\ stage = "searching"
      /\ UNCHANGED <<keyOf, subset, closed, pageVars>>
  BY DEF ListInv, Receive
<1>2. PageInv'
  BY <1>1, PageStutter DEF ListInv
<1>3. CASE /\ resultCh # << >> /\ UNCHANGED stage
           /\ results' = Append(results, Head(resultCh)) /\ resultCh' = Tail(resultCh)
  <2>1. /\ results' \in Seq(Finds) /\ resultCh' \in Seq(Finds)
        /\ Sent' = Sent
    BY <1>1, <1>3, ReceiveKeeps DEF SearchInv, Sent
  <2>2. Finds' = Finds /\ Hits' = Hits /\ \A q : Found(q)' = Found(q)
    BY <1>1 DEF Finds, Hits, Found, Hit
  <2>3. \A q : Unseen(q)' <=> Unseen(q)
    BY <1>1 DEF Unseen
  <2>4. Range(Sent') = {Found(q)' : q \in {r \in Hits' : ~Unseen(r)'}}
    BY <1>1, <2>1, <2>2, <2>3 DEF SearchInv
  <2>5. SearchInv'
    BY <1>1, <2>1, <2>2, <2>4 DEF SearchInv
  <2>6. QED
    BY <1>1, <1>2, <1>3, <2>5 DEF ListInv
<1>4. CASE resultCh = << >> /\ closed /\ stage' = "products" /\ UNCHANGED <<results, resultCh>>
  <2>1. SearchInv'
    BY <1>1, <1>4, SearchInvStays
  <2>2. QED
    BY <1>1, <1>2, <1>4, <2>1 DEF ListInv
<1>5. QED
  BY <1>3, <1>4 DEF Receive

\* What is handed to PageStable can be sorted, and the offset of a page is
\* not negative.
LEMMA PageProductsInv ==
    ASSUME ListInv, NEW page \in 1..MaxPage, NEW pageSize \in 1..MaxPageSize,
           PageProducts(page, pageSize)
    PROVE  ListInv'
<1>1. /\ SearchInv /\ stage' = "paging" /\ UNCHANGED <<keyOf, searchVars>>
      /\ Call(results, pageSize, (page - 1) * pageSize)
  BY DEF ListInv, PageProducts
<1>2. page \in Nat \ {0} /\ pageSize \in Nat \ {0} /\ (page - 1) * pageSize \in Nat
  <2>1. page \in Nat \ {0} /\ pageSize \in Nat \ {0} /\ page - 1 \in Nat
    BY ListingAssumption
  <2>2. \A x, y \in Nat : x * y \in Nat
    OBVIOUS
  <2>3. QED
    BY <2>1, <2>2
<1>3. Comparable(results)
  <2>1. results \in Seq(Finds) /\ \A z \in Finds : z.key \in Nat
    BY <1>1, FindsShape DEF SearchInv, ListInv
  <2>2. Len(results) \in Nat /\ DOMAIN results = 1..Len(results)
        /\ \A x \in 1..Len(results) : results[x] \in Finds
    BY <2>1, LenProperties, ElementOfSeq
  <2>3. QED
    BY <2>1, <2>2 DEF Comparable
<1>4. PageInv'
  BY <1>1, <1>2, <1>3, CallInv DEF ListInv
<1>5. QED
  BY <1>1, <1>4 DEF ListInv

LEMMA ListOrdersInv ==
    ASSUME ListInv, NEW history \in Histories, NEW page \in 1..MaxPage,
           NEW pageSize \in 1..MaxPageSize, ListOrders(history, page, pageSize)
    PROVE  ListInv'
<1>1. /\ stage' = "paging" /\ UNCHANGED keyOf /\ Call(results', pageSize, 0)
  BY DEF ListOrders
<1>2. PICK arr : arr = results'
  OBVIOUS
<1>3. pageSize \in Nat \ {0}
  BY ListingAssumption
<1>4. Call(arr, pageSize, 0)
  BY <1>1, <1>2
<1>5. PageInv'
  <2>1. PageInv /\ ~(0 > 0)
    BY DEF ListInv
  <2>2. QED
    BY <1>3, <1>4, <2>1, CallInv
<1>6. QED
  BY <1>1, <1>5 DEF ListInv

LEMMA ListStutter ==
    ASSUME ListInv, UNCHANGED <<listVars, pageVars>>
    PROVE  ListInv'
<1>1. UNCHANGED <<keyOf, stage, subset, resultCh, closed, results, pageVars>>
  BY DEF listVars, searchVars
<1>2. PageInv' /\ (SearchInv => SearchInv')
  BY <1>1, PageStutter, SearchInvStays DEF ListInv
<1>3. QED
  BY <1>1, <1>2 DEF ListInv

LEMMA ListNextInv ==
    ASSUME ListInv, [ListNext]_<<listVars, pageVars>>
    PROVE  ListInv'
<1>1. CASE SearchBegin
  BY <1>1, SearchBeginInv
<1>2. CASE \E history \in Histories, page \in 1..MaxPage, pageSize \in 1..MaxPageSize :
             ListOrders(history, page, pageSize)
  BY <1>2, ListOrdersInv
<1>3. CASE \E c \in Chunks : Look(c)
  BY <1>3, LookInv
<1>4. CASE Close
  BY <1>4, CloseInv
<1>5. CASE Receive
  BY <1>5, ReceiveInv
<1>6. CASE \E page \in 1..MaxPage, pageSize \in 1..MaxPageSize : PageProducts(page, pageSize)
  BY <1>6, PageProductsInv
<1>7. CASE Page
  <2>1. PageInv' /\ stage' = "paging" /\ UNCHANGED keyOf
    BY <1>7, PageStepInv DEF ListInv, Page, listVars
  <2>2. QED
    BY <2>1 DEF ListInv
<1>8. CASE Answer
  <2>1. PageInv' /\ stage' = "answered" /\ UNCHANGED keyOf
    BY <1>8, PageStutter DEF ListInv, Answer
  <2>2. QED
    BY <2>1 DEF ListInv
<1>9. CASE Done \/ UNCHANGED <<listVars, pageVars>>
  BY <1>9, ListStutter DEF Done
<1>10. QED
  BY <1>1, <1>2, <1>3, <1>4, <1>5, <1>6, <1>7, <1>8, <1>9 DEF ListNext, Paging

LEMMA ListInitInv == ListInit => ListInv
<1>1. SUFFICES ASSUME ListInit PROVE ListInv
  OBVIOUS
<1>2. PageInv
  BY <1>1, PageInitInv DEF ListInit
<1>3. QED
  BY <1>1, <1>2 DEF ListInit, ListInv

\* The invariant of a listing, and of PageStable within it, for every number
\* of products, every history and every page.
THEOREM ListingInvariance == ListSpec => []ListInv
<1>1. ListInv /\ [ListNext]_<<listVars, pageVars>> => ListInv'
  BY ListNextInv
<1>2. QED
  BY <1>1, ListInitInv, PTL DEF ListSpec

\* PageStable's variables have their shapes, and the copy it works on stays a
\* rearrangement of what it was given: no swap loses an order or a product.
THEOREM PageTypeCorrect == ListSpec => []PageTypeOK
BY ListingInvariance, PageInvType, PTL DEF ListInv

\* nthSelect's scans stay within the slice, so that no listing panics.
THEOREM ScansStayInBounds == ListSpec => []ScansInBounds
BY ListingInvariance, PageInvScans, PTL DEF ListInv

\* What PageStable returns is the page of the stable sort of the whole slice,
\* whatever order sort.Slice gives to what it cannot tell apart.
THEOREM PageIsOfStableSort == ListSpec => []PagedIsStable
BY ListingInvariance, PageInvPaged, PTL DEF ListInv

\* SearchProducts returns every product that matches, each of them once, in
\* whatever order its goroutines run.
THEOREM SearchFindsAll == ListSpec => []SearchComplete
<1>1. ListInv => SearchComplete
  <2>1. SUFFICES ASSUME ListInv, stage = "products" PROVE SearchComplete
    BY DEF SearchComplete
  <2>2. SearchInv /\ resultCh = << >> /\ \A c \in Chunks : subset[c] = << >>
    BY <2>1 DEF ListInv
  <2>3. Sent = results
    BY <2>2, ConcatEmptySeq DEF SearchInv, Sent
  <2>4. \A p : ~Unseen(p)
    BY <2>2 DEF Unseen, Range
  <2>5. Range(results) = {Found(p) : p \in Hits} /\ IsInjective(results)
    BY <2>2, <2>3, <2>4 DEF SearchInv
  <2>6. \A p : Found(p).id = p
    BY DEF Found
  <2>7. {r.id : r \in Range(results)} = Hits
    BY <2>5, <2>6
  <2>8. QED
    BY <2>5, <2>7 DEF SearchComplete, Hits
<1>2. QED
  BY <1>1, ListingInvariance, PTL
=============================================================================
