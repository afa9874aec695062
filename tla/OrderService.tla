---------------------------- MODULE OrderService ----------------------------
(***************************************************************************)
(* OrderServiceImpl: concurrent calls of insertMisOrder, which guards the  *)
(* stock with the row's version and retries, and of insertMisOrder2, which *)
(* guards it with a lock in Redis.  Each call is one transaction opened by *)
(* its @Transactional proxy and committed, or rolled back on an exception, *)
(* after the method body has ended.                                        *)
(***************************************************************************)
EXTENDS OrderTables, RedisLock

CONSTANTS
    LockCalls,  \* the calls of insertMisOrder2; the others are insertMisOrder
    MaxTries    \* turns of insertMisOrder's loop, 5 in the code

ASSUME LockCallsAssumption == LockCalls \subseteq Calls
ASSUME KeysAssumption == Keys = Prods
ASSUME MaxTriesAssumption == MaxTries \in Nat \ {0}

VARIABLES
    pc,     \* where each call is
    tries,  \* turns of the loop that ended with "continue"
    stamp,  \* the lock value insertMisOrder2 computed
    result  \* what the caller got: "none" yet, "ordered", "zero" or "error"

control == <<pc, tries, stamp, result>>
lockVars == <<redis, now>>
vars == <<tables, lockVars, control>>

Labels == {"stamp", "lock", "select", "update", "insert", "unlock",
           "commit", "throw", "returned"}

TypeOK ==
    /\ TablesTypeOK
    /\ LockTypeOK
    /\ pc \in [Calls -> Labels]
    /\ tries \in [Calls -> 0..MaxTries]
    /\ stamp \in [Calls -> Nat]
    /\ result \in [Calls -> {"none", "ordered", "zero", "error"}]

Init ==
    /\ TablesInit
    /\ LockInit
    /\ pc = [c \in Calls |-> IF c \in LockCalls THEN "stamp" ELSE "select"]
    /\ tries = [c \in Calls |-> 0]
    /\ stamp = [c \in Calls |-> 0]
    /\ result = [c \in Calls |-> "none"]

Go(c, from, to) == pc[c] = from /\ pc' = [pc EXCEPT ![c] = to]

InsertMisProdDef(p) == InsertProd(p) /\ UNCHANGED <<lockVars, control>>

(***************************************************************************)
(* insertMisOrder                                                          *)
(***************************************************************************)

\* Variants: the test for an empty shelf forgotten, or off by one.
SelectUnchecked(c) ==
    /\ \/ Visible(c) = Null /\ Go(c, "select", "throw")
       \/ Visible(c) # Null /\ Go(c, "select", "update")
    /\ SelectByPrimaryKey(c)
    /\ UNCHANGED <<lockVars, tries, stamp, result>>
SelectKeepsOne(c) ==
    /\ \/ Visible(c) = Null /\ Go(c, "select", "throw")
       \/ Visible(c) # Null /\ Visible(c).inStock <= 1 /\ Go(c, "select", "commit")
       \/ Visible(c) # Null /\ Visible(c).inStock > 1 /\ Go(c, "select", "update")
    /\ SelectByPrimaryKey(c)
    /\ UNCHANGED <<lockVars, tries, stamp, result>>

\* A missing product is a NullPointerException at getInStock().
Select(c) ==
    /\ \/ Visible(c) = Null /\ Go(c, "select", "throw")
       \/ Visible(c) # Null /\ Visible(c).inStock = 0 /\ Go(c, "select", "commit")
       \/ Visible(c) # Null /\ Visible(c).inStock # 0 /\ Go(c, "select", "update")
    /\ SelectByPrimaryKey(c)
    /\ UNCHANGED <<lockVars, tries, stamp, result>>

Decrement(c) ==
    /\ Go(c, "update", "insert")
    /\ UpdateRow(c, seen[c].inStock - 1, seen[c].version)
    /\ UNCHANGED <<lockVars, tries, stamp, result>>

\* Variant: the loop ends a turn early.
MissEndsEarly(c) ==
    /\ Go(c, "update", IF tries[c] + 2 >= MaxTries THEN "commit" ELSE "select")
    /\ UpdateNoRow(c, seen[c].version)
    /\ tries' = [tries EXCEPT ![c] = @ + 1]
    /\ UNCHANGED <<lockVars, stamp, result>>

\* ret == 0: "continue", or return 0 after the last turn.
Miss(c) ==
    /\ Go(c, "update", IF tries[c] + 1 = MaxTries THEN "commit" ELSE "select")
    /\ UpdateNoRow(c, seen[c].version)
    /\ tries' = [tries EXCEPT ![c] = @ + 1]
    /\ UNCHANGED <<lockVars, stamp, result>>

InsertOrder(c) ==
    /\ Go(c, "insert", "commit")
    /\ InsertOrderRow(c)
    /\ UNCHANGED <<lockVars, tries, stamp, result>>

InsertMisOrder(c) == Select(c) \/ Decrement(c) \/ Miss(c) \/ InsertOrder(c)

(***************************************************************************)
(* insertMisOrder2                                                         *)
(***************************************************************************)
Stamp(c) ==
    /\ Go(c, "stamp", "lock")
    /\ stamp' = [stamp EXCEPT ![c] = now + LockTtl]
    /\ UNCHANGED <<tables, lockVars, tries, result>>

\* Variant: wait for the lock instead of giving up.
LockWaits(c) ==
    /\ Go(c, "lock", "select") /\ Grant(ProdOf[c], stamp[c])
    /\ UNCHANGED <<tables, tries, stamp, result>>

Lock(c) ==
    /\ \/ Go(c, "lock", "select") /\ Grant(ProdOf[c], stamp[c])
       \/ Go(c, "lock", "commit") /\ Refuse(ProdOf[c])
    /\ UNCHANGED <<tables, tries, stamp, result>>

\* Variant: no test for an empty shelf.
Select2Unchecked(c) ==
    /\ \/ Visible(c) = Null /\ Go(c, "select", "commit")
       \/ Visible(c) # Null /\ Go(c, "select", "insert")
    /\ SelectByPrimaryKey(c)
    /\ UNCHANGED <<lockVars, tries, stamp, result>>

\* Both early returns leave the lock taken.
Select2(c) ==
    /\ \/ Visible(c) = Null /\ Go(c, "select", "commit")
       \/ Visible(c) # Null /\ Visible(c).inStock = 0 /\ Go(c, "select", "commit")
       \/ Visible(c) # Null /\ Visible(c).inStock # 0 /\ Go(c, "select", "insert")
    /\ SelectByPrimaryKey(c)
    /\ UNCHANGED <<lockVars, tries, stamp, result>>

InsertOrder2(c) ==
    /\ Go(c, "insert", "update")
    /\ InsertOrderRow(c)
    /\ UNCHANGED <<lockVars, tries, stamp, result>>

\* The bean carries no version, so none is compared or counted.
Decrement2(c) ==
    /\ Go(c, "update", "unlock")
    /\ UpdateRow(c, seen[c].inStock - 1, Null)
    /\ UNCHANGED <<lockVars, tries, stamp, result>>

Unlock(c) ==
    /\ Go(c, "unlock", "commit")
    /\ Release(ProdOf[c], stamp[c])
    /\ UNCHANGED <<tables, tries, stamp, result>>

InsertMisOrder2(c) ==
    \/ Stamp(c) \/ Lock(c) \/ Select2(c)
    \/ InsertOrder2(c) \/ Decrement2(c) \/ Unlock(c)

(***************************************************************************)
(* The transaction's end                                                   *)
(***************************************************************************)
Commit(c) ==
    /\ Go(c, "commit", "returned")
    /\ CommitTx(c)
    /\ \E answer \in {IF inserted[c] THEN "ordered" ELSE "zero", "error"} :
          result' = [result EXCEPT ![c] = answer]  \* "error": unacknowledged
    /\ UNCHANGED <<lockVars, tries, stamp>>

\* A statement or a Redis call fails, the wait for a row lock runs out, or
\* the host dies.
Fault(c) ==
    /\ \E here \in Labels \ {"stamp", "throw", "returned"} : Go(c, here, "throw")
    /\ UNCHANGED <<tables, lockVars, tries, stamp, result>>

Rollback(c) ==
    /\ Go(c, "throw", "returned")
    /\ RollbackTx(c)
    /\ result' = [result EXCEPT ![c] = "error"]
    /\ UNCHANGED <<lockVars, tries, stamp>>

Clock == Tick /\ UNCHANGED <<tables, control>>

Step(c) ==
    \/ c \notin LockCalls /\ InsertMisOrder(c)
    \/ c \in LockCalls /\ InsertMisOrder2(c)
    \/ Commit(c) \/ Rollback(c)

Next ==
    \/ \E p \in Prods : InsertMisProdDef(p)
    \/ \E c \in Calls : Step(c) \/ Fault(c)
    \/ Clock

Spec == Init /\ [][Next]_vars

\* A thread of the server's pool runs on, and the database hands a free row
\* lock to one of those who wait.  Nothing makes a fault happen.
FairSpec == Spec /\ \A c \in Calls : WF_vars(Step(c))

(***************************************************************************)
(* Properties                                                              *)
(***************************************************************************)
Existing == {p \in Prods : prodDef[p] # Null}

\* No sale is lost and none happens twice: every unit a product was created
\* with is on the shelf or has an order (insertMisOrder's version check).
Conservation ==
    \A p \in Existing :
        Cardinality(OrdersOf(p)) + prodDef[p].inStock = prodDef[p].total

\* Whichever methods are mixed, with or without versions, a unit that has
\* left the shelf has an order: lost updates can oversell, never undersell.
AccountedFor ==
    \A p \in Existing :
        Cardinality(OrdersOf(p)) + prodDef[p].inStock >= prodDef[p].total

\* The version counts the committed sales of insertMisOrder, also while
\* insertMisOrder2 overwrites the same row.
VersionCountsSales ==
    \A p \in Existing :
        prodDef[p].version = DefaultVersion + Cardinality(OrdersOf(p) \ LockCalls)

\* A caller told an order id has its order, and one told 0 has none, in
\* spite of faults between the update of the stock and the insert.
ResultTellsOrder ==
    \A c \in Calls : /\ result[c] = "ordered" => c \in misOrder
                     /\ result[c] \in {"none", "zero"} => c \notin misOrder

\* insertMisOrder answers 0 with stock left only to a call that lost each of
\* its turns to a sale: to MaxTries different ones where a retry reads anew,
\* but to as few as one where the transaction keeps its first snapshot.
Beaten == IF Isolation = "RC" THEN MaxTries ELSE 1
RefusalIsJustified ==
    \A c \in Calls \ LockCalls :
        result[c] = "zero" =>
            \/ prodDef[ProdOf[c]].inStock = 0
            \/ Cardinality(OrdersOf(ProdOf[c])) >= Beaten

\* With no more calls than turns, the retry loop ("continue to submit order")
\* turns nobody away while there is stock.
RefusedOnlyWhenSoldOut ==
    \A c \in Calls \ LockCalls :
        result[c] = "zero" => prodDef[ProdOf[c]].inStock = 0

\* Two calls of insertMisOrder2 are between lock and unlock for one product
\* only when the lock of one of them has lapsed.
InSection(c) == c \in LockCalls /\ pc[c] \in {"select", "insert", "update", "unlock"}
ExclusiveWhileFresh ==
    \A c, d \in Calls :
        (c # d /\ InSection(c) /\ InSection(d) /\ ProdOf[c] = ProdOf[d])
            => stamp[c] < now \/ stamp[d] < now

\* No call waits forever for a row lock, a retry or a Redis lock.
EveryCallReturns == \A c \in Calls : <>(pc[c] = "returned")

\* The calls of insertMisOrder implement the atomic sale.
Sale == INSTANCE AtomicSale
            WITH shelf <- [p \in Prods |-> IF prodDef[p] = Null THEN Null
                                           ELSE prodDef[p].inStock],
                 sold <- misOrder,
                 answer <- result
SaleSpec == Sale!Spec
=============================================================================
