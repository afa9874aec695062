---------------------------- MODULE OrderTables ----------------------------
(***************************************************************************)
(* The two tables behind the order service, mis_prod_def and mis_order, as *)
(* the statements of MisProdDefMapper.xml and MisOrderMapper.xml use them  *)
(* inside one database transaction per call.                               *)
(*                                                                         *)
(* A SELECT takes no lock.  It reads the last committed row ("RC", the     *)
(* default of the Dameng database of the active profile) or, from its      *)
(* second time on, the row the transaction saw first ("RR", the default of *)
(* the MySQL of the other profiles).  An UPDATE always acts on the last    *)
(* committed row, under an exclusive row lock held until the transaction   *)
(* ends.                                                                   *)
(***************************************************************************)
EXTENDS Integers, FiniteSets

CONSTANTS
    Prods,           \* product ids
    Calls,           \* calls of the service, one transaction each
    ProdOf,          \* the product each call wants to order
    Stocks,          \* the stock levels a product may be created with
    Isolation,       \* "RC" or "RR", the isolation level of the data source
    DefaultVersion,  \* what a row's version column is when INSERT omits it
    Null             \* SQL's and Java's null

Row == [inStock : Nat, total : Nat, version : Nat \cup {Null}]

ASSUME ProdOfAssumption == ProdOf \in [Calls -> Prods]
ASSUME CallsAssumption == IsFiniteSet(Calls)
ASSUME StocksAssumption == Stocks \subseteq Nat
ASSUME IsolationAssumption == Isolation \in {"RC", "RR"}
ASSUME VersionAssumption == DefaultVersion \in Nat \cup {Null}
ASSUME NullAssumption == Null \notin Nat /\ Null \notin Calls /\ Null \notin Row

VARIABLES
    prodDef,   \* mis_prod_def, committed: a row per product id, or Null
    misOrder,  \* mis_order, committed: the calls whose order row is there
    rowLock,   \* the call that holds the exclusive lock on a product's row
    seen,      \* the product row the call's last SELECT returned
    written,   \* the product row as the call's open transaction left it
    inserted   \* has the call's open transaction inserted its order row?

tables == <<prodDef, misOrder, rowLock, seen, written, inserted>>

TablesTypeOK ==
    /\ prodDef \in [Prods -> Row \cup {Null}]
    /\ misOrder \subseteq Calls
    /\ rowLock \in [Prods -> Calls \cup {Null}]
    /\ seen \in [Calls -> Row \cup {Null}]
    /\ written \in [Calls -> Row \cup {Null}]
    /\ inserted \in [Calls -> BOOLEAN]

TablesInit ==
    /\ prodDef = [p \in Prods |-> Null]
    /\ misOrder = {}
    /\ rowLock = [p \in Prods |-> Null]
    /\ seen = [c \in Calls |-> Null]
    /\ written = [c \in Calls |-> Null]
    /\ inserted = [c \in Calls |-> FALSE]

OrdersOf(p) == {c \in misOrder : ProdOf[c] = p}

(***************************************************************************)
(* The statements.                                                         *)
(***************************************************************************)
InsertProd(p) ==
    /\ prodDef[p] = Null
    /\ \E n \in Stocks :
          prodDef' = [prodDef EXCEPT ![p] = [inStock |-> n, total |-> n,
                                             version |-> DefaultVersion]]
    /\ UNCHANGED <<misOrder, rowLock, seen, written, inserted>>

Visible(c) == IF Isolation = "RR" /\ seen[c] # Null
              THEN seen[c]
              ELSE prodDef[ProdOf[c]]

SelectByPrimaryKey(c) ==
    /\ seen' = [seen EXCEPT ![c] = Visible(c)]
    /\ UNCHANGED <<prodDef, misOrder, rowLock, written, inserted>>

\* Variant: the WHERE clause without the version.
MatchesById(p, version) == prodDef[p] # Null

\* The WHERE clause: the version is compared only when the bean carries one.
Matches(p, version) ==
    /\ prodDef[p] # Null
    /\ version # Null => prodDef[p].version = version

\* The row lock is free or the call's own: otherwise the statement waits.
Lockable(c) == rowLock[ProdOf[c]] \in {Null, c}

\* Variant: version = version + 1 outside its <if>.
UpdateRowAlwaysCounts(c, inStock, version) ==
    /\ Lockable(c)
    /\ Matches(ProdOf[c], version)
    /\ rowLock' = [rowLock EXCEPT ![ProdOf[c]] = c]
    /\ written' = [written EXCEPT ![c] =
                     [prodDef[ProdOf[c]] EXCEPT !.inStock = inStock, !.version = @ + 1]]
    /\ UNCHANGED <<prodDef, misOrder, seen, inserted>>

\* Variant: a row is matched by its version, which is then not counted up.
UpdateRowNeverCounts(c, inStock, version) ==
    /\ Lockable(c)
    /\ Matches(ProdOf[c], version)
    /\ rowLock' = [rowLock EXCEPT ![ProdOf[c]] = c]
    /\ written' = [written EXCEPT ![c] =
                     [prodDef[ProdOf[c]] EXCEPT !.inStock = inStock]]
    /\ UNCHANGED <<prodDef, misOrder, seen, inserted>>

UpdateRow(c, inStock, version) ==
    /\ Lockable(c)
    /\ Matches(ProdOf[c], version)
    /\ rowLock' = [rowLock EXCEPT ![ProdOf[c]] = c]
    /\ written' = [written EXCEPT ![c] =
                     [prodDef[ProdOf[c]] EXCEPT
                        !.inStock = inStock,
                        !.version = IF version = Null THEN @ ELSE @ + 1]]
    /\ UNCHANGED <<prodDef, misOrder, seen, inserted>>

\* No row matched: under "RR" the row that was examined stays locked.
UpdateNoRow(c, version) ==
    /\ Lockable(c)
    /\ ~ Matches(ProdOf[c], version)
    /\ rowLock' = IF Isolation = "RR"
                  THEN [rowLock EXCEPT ![ProdOf[c]] = c]
                  ELSE rowLock
    /\ UNCHANGED <<prodDef, misOrder, seen, written, inserted>>

\* Variant: the order row is inserted outside the transaction.
InsertOrderRowAtOnce(c) ==
    /\ misOrder' = misOrder \cup {c}
    /\ inserted' = [inserted EXCEPT ![c] = TRUE]
    /\ UNCHANGED <<prodDef, rowLock, seen, written>>

InsertOrderRow(c) ==
    /\ inserted' = [inserted EXCEPT ![c] = TRUE]
    /\ UNCHANGED <<prodDef, misOrder, rowLock, seen, written>>

\* Variant: the row lock outlives the transaction.
EndTxKeepsLock(c) ==
    /\ seen' = [seen EXCEPT ![c] = Null]
    /\ written' = [written EXCEPT ![c] = Null]
    /\ inserted' = [inserted EXCEPT ![c] = FALSE]
    /\ UNCHANGED rowLock

\* The end of the transaction, either way.
EndTx(c) ==
    /\ rowLock' = [p \in Prods |-> IF rowLock[p] = c THEN Null ELSE rowLock[p]]
    /\ seen' = [seen EXCEPT ![c] = Null]
    /\ written' = [written EXCEPT ![c] = Null]
    /\ inserted' = [inserted EXCEPT ![c] = FALSE]

CommitTx(c) ==
    /\ prodDef' = IF written[c] = Null
                  THEN prodDef
                  ELSE [prodDef EXCEPT ![ProdOf[c]] = written[c]]
    /\ misOrder' = IF inserted[c] THEN misOrder \cup {c} ELSE misOrder
    /\ EndTx(c)

\* Variant: no transaction around the statements, what was written stays.
RollbackKeepsRow(c) ==
    /\ prodDef' = IF written[c] = Null
                  THEN prodDef
                  ELSE [prodDef EXCEPT ![ProdOf[c]] = written[c]]
    /\ EndTx(c)
    /\ UNCHANGED misOrder

RollbackTx(c) == EndTx(c) /\ UNCHANGED <<prodDef, misOrder>>
=============================================================================
