------------------------------ MODULE Listing ------------------------------
(***************************************************************************)
(* POST /product and POST /orders: ListProducts with a search word, which  *)
(* SearchProducts looks up in goroutines that share a channel, and         *)
(* ListOrders, which filters the cached history of the customer.  Both     *)
(* call PageStable, drop what it returns and cut the answer from the       *)
(* matches as they came.                                                   *)
(*                                                                         *)
(* A product is its id and its key (its rank in the requested order); key  *)
(* 0 stands for one that the search word does not match.                   *)
(***************************************************************************)
EXTENDS PageStable

CONSTANTS
    NumProducts,    \* rows of products; Cache.ProductsById has one slot more
    Keys,           \* ranks
    NumCPU,         \* runtime.NumCPU
    MaxPage,        \* bound: req.Page
    MaxPageSize,    \* bound: req.PageSize
    Histories       \* the customer's orders: sequences of products

ASSUME ListingAssumption ==
    /\ NumProducts \in Nat /\ NumCPU \in Nat \ {0}
    /\ MaxPage \in Nat /\ MaxPageSize \in Nat
    /\ Keys \subseteq Nat \ {0}

Products == 1..NumProducts
Slots    == 0..NumProducts      \* of Cache.ProductsById

VARIABLES
    keyOf,      \* the products' ranks under the request, 0 for no match
    stage,      \* what the request is doing
    subset,     \* what each goroutine of SearchProducts has still to look at
    resultCh,   \* the channel
    closed,     \* whether it has been closed
    results,    \* the matches, in the order they were received
    req,        \* Page, PageSize and Offset of the request
    answer      \* the page that is sent

searchVars == <<subset, resultCh, closed, results>>
listVars   == <<keyOf, stage, searchVars, req, answer>>

Found(p) == [id |-> p, key |-> keyOf[p]]
Hit(p)   == p \in Products /\ keyOf[p] # 0      \* slot 0 holds no product

ChunkSize == (NumProducts + 1 + NumCPU - 1) \div NumCPU
Chunks    == {c \in Slots : c % ChunkSize = 0}     \* by their first slot

Subset(c) ==
    LET end == Min({c + ChunkSize, NumProducts + 1}) IN [x \in 1..(end - c) |-> c + x - 1]

ListInit ==
    /\ PageInit
    /\ keyOf \in [Products -> Keys \cup {0}]
    /\ stage = "idle"
    /\ subset = [c \in Chunks |-> << >>]
    /\ resultCh = << >> /\ closed = FALSE /\ results = << >>
    /\ req = [page |-> 1, pageSize |-> 1, offset |-> 0]
    /\ answer = << >>
-----------------------------------------------------------------------------
(* SearchProducts *)

\* One goroutine for each chunk of the slots.
SearchBegin ==
    /\ stage = "idle"
    /\ subset' = [c \in Chunks |-> Subset(c)]
    /\ stage' = "searching"
    /\ UNCHANGED <<keyOf, resultCh, closed, results, req, answer, pageVars>>

\* A goroutine looks at its next slot and sends it when it matches.
Look(c) ==
    /\ stage = "searching" /\ subset[c] # << >>
    /\ LET p == Head(subset[c])
       IN  IF Hit(p)
           THEN /\ Len(resultCh) < NumProducts + 1
                /\ resultCh' = Append(resultCh, Found(p))
           ELSE UNCHANGED resultCh
    /\ subset' = [subset EXCEPT ![c] = Tail(@)]
    /\ UNCHANGED <<keyOf, stage, closed, results, req, answer, pageVars>>

\* Mutant: nobody waits for the goroutines.
CloseEarly ==
    /\ stage = "searching" /\ ~closed
    /\ closed' = TRUE
    /\ UNCHANGED <<keyOf, stage, subset, resultCh, results, req, answer, pageVars>>

\* wg.Wait(), then close(resultCh).
Close ==
    /\ stage = "searching" /\ ~closed
    /\ \A c \in Chunks : subset[c] = << >>
    /\ closed' = TRUE
    /\ UNCHANGED <<keyOf, stage, subset, resultCh, results, req, answer, pageVars>>

\* The range over the channel ends when it is closed and empty.
Receive ==
    /\ stage = "searching"
    /\ \/ /\ resultCh # << >>
          /\ results' = Append(results, Head(resultCh))
          /\ resultCh' = Tail(resultCh)
          /\ UNCHANGED stage
       \/ /\ resultCh = << >> /\ closed
          /\ stage' = "products"
          /\ UNCHANGED <<results, resultCh>>
    /\ UNCHANGED <<keyOf, subset, closed, req, answer, pageVars>>
-----------------------------------------------------------------------------
(* ListProducts and ListOrders *)

\* ProductHandler.List computes the offset (the page of the request is chosen
\* here, where it is first used); PageStable is given the page size for its
\* page and the offset for its length.
PageProducts(page, pageSize) ==
    /\ stage = "products"
    /\ req' = [page |-> page, pageSize |-> pageSize, offset |-> (page - 1) * pageSize]
    /\ Call(results, req'.pageSize, req'.offset)
    /\ stage' = "paging"
    /\ UNCHANGED <<keyOf, searchVars, answer>>

\* The loop of ListOrders over the history, an order standing for its
\* product.  OrderHandler.List leaves req.Offset 0, whatever the page.
ListOrders(history, page, pageSize) ==
    /\ stage = "idle"
    /\ LET matching == SelectSeq(history, Hit)
       IN  results' = [x \in DOMAIN matching |-> Found(matching[x])]
    /\ req' = [page |-> page, pageSize |-> pageSize, offset |-> 0]
    /\ Call(results', req'.pageSize, req'.offset)
    /\ stage' = "paging"
    /\ UNCHANGED <<keyOf, subset, resultCh, closed, answer>>

\* total, start and end; the slice of the unsorted matches.
Answer ==
    /\ stage = "paging" /\ at = "returned"
    /\ LET total == Len(results)
           start == Min({req.offset, total})
           end   == Min({req.offset + req.pageSize, total})
       IN  answer' = SubSeq(results, start + 1, end)
    /\ stage' = "answered"
    /\ UNCHANGED <<keyOf, searchVars, req, pageVars>>

Page == stage = "paging" /\ PageStep /\ UNCHANGED listVars

Done == stage = "answered" /\ UNCHANGED <<listVars, pageVars>>

Paging ==
    \/ \E page \in 1..MaxPage, pageSize \in 1..MaxPageSize : PageProducts(page, pageSize)
    \/ Page \/ Answer

ListNext ==
    \/ SearchBegin
    \/ \E history \in Histories, page \in 1..MaxPage, pageSize \in 1..MaxPageSize :
          ListOrders(history, page, pageSize)
    \/ \E c \in Chunks : Look(c)
    \/ Close \/ Receive \/ Paging \/ Done

\* Go runs every goroutine that can go on.
ListFairness ==
    /\ \A c \in Chunks : WF_<<listVars, pageVars>>(Look(c))
    /\ WF_<<listVars, pageVars>>(Close) /\ WF_<<listVars, pageVars>>(Receive)
    /\ WF_<<listVars, pageVars>>(Paging)

ListSpec == ListInit /\ [][ListNext]_<<listVars, pageVars>> /\ ListFairness
-----------------------------------------------------------------------------
(* Properties *)

\* When SearchProducts returns, each product that matches has been found, and
\* once: no chunk is left out or looked at twice, and the channel is not
\* closed on a goroutine that has still something to send.
SearchComplete ==
    stage = "products" =>
        /\ {r.id : r \in Range(results)} = {p \in Products : Hit(p)}
        /\ IsInjective(results)

\* A listing that has begun is answered: the channel has room for every match,
\* it is closed, and both selections of PageStable come to an end.
Listed == stage # "idle" ~> stage = "answered"

\* openapi_defn.yaml, of both listings: the page of the sorted matches that
\* was asked for.  The code cuts it from the unsorted ones, and for orders
\* always the first.
AnswerIsThePage ==
    stage = "answered" =>
        answer = SubSeq(StableSorted(results),
                        (req.page - 1) * req.pageSize + 1,
                        Min({req.page * req.pageSize, Len(results)}))
=============================================================================
