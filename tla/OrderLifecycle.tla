--------------------------- MODULE OrderLifecycle ---------------------------
(***************************************************************************)
(* What StoreLink promises of an order, whatever cache, transactions and   *)
(* requests lie underneath: it waits, it is given to the robot once, it is *)
(* delivered once, and the robot is told "updated" only for an order that  *)
(* is completed.                                                           *)
(***************************************************************************)
EXTENDS FiniteSets

CONSTANT Orders

VARIABLES
    status,  \* order -> shipped_status, for the orders placed so far
    aboard   \* orders the robot was told to deliver and has not reported
vars == <<status, aboard>>

Statuses == {"shipping", "delivering", "completed"}

Init ==
    /\ status \in UNION {[D -> Statuses] : D \in SUBSET Orders}
    /\ aboard = {}

Place(S) ==
    /\ S # {} /\ S \cap DOMAIN status = {}
    /\ status' = [o \in DOMAIN status \cup S |->
                    IF o \in S THEN "shipping" ELSE status[o]]
    /\ UNCHANGED aboard

\* The answer may be lost: then the orders are on nobody's list.
Assign(S) ==
    /\ S # {} /\ \A o \in S : status[o] = "shipping"
    /\ status' = [o \in DOMAIN status |-> IF o \in S THEN "delivering" ELSE status[o]]
    /\ \/ aboard = {} /\ aboard' = S
       \/ UNCHANGED aboard

\* An error may be answered all the same: then the robot gives up its list.
Deliver(o) ==
    /\ status[o] = "delivering"
    /\ status' = [status EXCEPT ![o] = "completed"]
    /\ aboard' \in {aboard, {}}

Report(o) ==
    /\ status[o] = "completed"
    /\ aboard' = aboard \ {o}
    /\ UNCHANGED status

Abandon ==
    /\ aboard # {}
    /\ aboard' = {}
    /\ UNCHANGED status

Next ==
    \/ \E S \in SUBSET (Orders \ DOMAIN status) : Place(S)
    \/ \E S \in SUBSET DOMAIN status : Assign(S)
    \/ \E o \in DOMAIN status : Deliver(o)
    \/ \E o \in aboard : Report(o)
    \/ Abandon

Spec == Init /\ [][Next]_vars
=============================================================================
