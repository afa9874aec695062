----------------------------- MODULE AtomicSale -----------------------------
(***************************************************************************)
(* What the order service promises its callers, without transactions,      *)
(* versions or retries: a sale takes one unit off the shelf and records    *)
(* the order in a single step, and a call is answered once.                *)
(***************************************************************************)
EXTENDS Integers

CONSTANTS Calls, Prods, ProdOf, Stocks, Null

VARIABLES
    shelf,   \* units left of each product, or Null before the product exists
    sold,    \* the calls whose order is recorded
    answer   \* what each call was told, "none" so far

vars == <<shelf, sold, answer>>

Init ==
    /\ shelf = [p \in Prods |-> Null]
    /\ sold = {}
    /\ answer = [c \in Calls |-> "none"]

Stock(p) ==
    /\ shelf[p] = Null
    /\ \E n \in Stocks : shelf' = [shelf EXCEPT ![p] = n]
    /\ UNCHANGED <<sold, answer>>

\* An order whose commit is not acknowledged is recorded, and its caller gets
\* an error.
Sell(c) ==
    /\ answer[c] = "none"
    /\ shelf[ProdOf[c]] # Null /\ shelf[ProdOf[c]] > 0
    /\ shelf' = [shelf EXCEPT ![ProdOf[c]] = @ - 1]
    /\ sold' = sold \cup {c}
    /\ \E a \in {"ordered", "error"} : answer' = [answer EXCEPT ![c] = a]

Refuse(c) ==
    /\ answer[c] = "none"
    /\ \E a \in {"zero", "error"} : answer' = [answer EXCEPT ![c] = a]
    /\ UNCHANGED <<shelf, sold>>

Next == \/ \E p \in Prods : Stock(p)
        \/ \E c \in Calls : Sell(c) \/ Refuse(c)

Spec == Init /\ [][Next]_vars
=============================================================================
