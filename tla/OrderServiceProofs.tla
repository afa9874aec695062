-------------------------- MODULE OrderServiceProofs --------------------------
(***************************************************************************)
(* Theorems about OrderService for every number of calls and products,     *)
(* every stock, either isolation level and any number of turns.            *)
(***************************************************************************)
EXTENDS OrderService, FiniteSetTheorems, TLAPS

USE DEF Free

\* A call that is about to use the row it read holds one, with stock left.
HoldsRow(c) == \/ pc[c] = "update"
               \/ c \in LockCalls /\ pc[c] = "insert"
ReadStock ==
    \A c \in Calls : HoldsRow(c) => seen[c] # Null /\ seen[c].inStock # 0

\* A call that is still in the loop has a turn left.
TurnsLeft ==
    \A c \in Calls \ LockCalls :
        pc[c] \in {"select", "update"} => tries[c] < MaxTries

TypeInv == TypeOK /\ ReadStock /\ TurnsLeft

\* What a SELECT returns is a row or null.
LEMMA VisibleType ==
    ASSUME TypeOK, NEW c \in Calls
    PROVE  Visible(c) \in Row \cup {Null}
BY ProdOfAssumption DEF TypeOK, TablesTypeOK, Visible

\* The decremented stock is a natural number, so the row stays one.
LEMMA UpdateType ==
    ASSUME TypeOK, NEW c \in Calls, NEW v \in Nat \cup {Null},
           seen[c] # Null, seen[c].inStock # 0,
           UpdateRow(c, seen[c].inStock - 1, v)
    PROVE  TablesTypeOK' /\ written'[c] \in Row
<1>1. seen[c].inStock - 1 \in Nat
  <2>1. seen[c] \in Row
    BY DEF TypeOK, TablesTypeOK
  <2>2. seen[c].inStock \in Nat
    BY <2>1 DEF Row
  <2>. QED BY <2>2
<1>2. prodDef[ProdOf[c]] \in Row
  BY ProdOfAssumption DEF TypeOK, TablesTypeOK, UpdateRow, Matches
<1>3. [prodDef[ProdOf[c]] EXCEPT
         !.inStock = seen[c].inStock - 1,
         !.version = IF v = Null THEN @ ELSE @ + 1] \in Row
  <2>1. v # Null => prodDef[ProdOf[c]].version \in Nat
    BY NullAssumption DEF UpdateRow, Matches
  <2>2. prodDef[ProdOf[c]].version \in Nat \cup {Null}
    BY <1>2 DEF Row
  <2>. DEFINE version == IF v = Null THEN prodDef[ProdOf[c]].version
                                     ELSE prodDef[ProdOf[c]].version + 1
  <2>3. version \in Nat \cup {Null}
    BY <2>1, <2>2
  <2>. HIDE DEF version
  <2>4. [prodDef[ProdOf[c]] EXCEPT !.inStock = seen[c].inStock - 1,
                                   !.version = version] \in Row
    BY <1>1, <1>2, <2>3 DEF Row
  <2>. QED BY <2>4 DEF version
<1>4. /\ rowLock' \in [Prods -> Calls \cup {Null}]
      /\ written' \in [Calls -> Row \cup {Null}]
      /\ written'[c] \in Row
  BY <1>3 DEF TypeOK, TablesTypeOK, UpdateRow
<1>. QED BY <1>4 DEF TypeOK, TablesTypeOK, UpdateRow

LEMMA EndTxType ==
    ASSUME TypeOK, NEW c \in Calls, EndTx(c)
    PROVE  /\ rowLock' \in [Prods -> Calls \cup {Null}]
           /\ seen' \in [Calls -> Row \cup {Null}]
           /\ written' \in [Calls -> Row \cup {Null}]
           /\ inserted' \in [Calls -> BOOLEAN]
BY DEF TypeOK, TablesTypeOK, EndTx

\* Every step keeps TypeInv.
LEMMA TypeStep == TypeInv /\ [Next]_vars => TypeInv'
<1>. SUFFICES ASSUME TypeOK, ReadStock, TurnsLeft, [Next]_vars
              PROVE  TypeInv'
  BY DEF TypeInv
<1>. USE DEF TypeInv
<1>1. ASSUME NEW p \in Prods, InsertMisProdDef(p)
      PROVE  TypeInv'
  <2>1. prodDef' \in [Prods -> Row \cup {Null}]
    BY <1>1, StocksAssumption, VersionAssumption
       DEF InsertMisProdDef, InsertProd, TypeOK, TablesTypeOK, Row
  <2>2. TypeOK'
    BY <1>1, <2>1 DEF InsertMisProdDef, InsertProd, TypeOK, TablesTypeOK, LockTypeOK,
                      lockVars, control
  <2>3. ReadStock' /\ TurnsLeft'
    BY <1>1 DEF InsertMisProdDef, InsertProd, ReadStock, HoldsRow, TurnsLeft, control
  <2>. QED BY <2>2, <2>3
<1>2. ASSUME NEW c \in Calls, c \notin LockCalls, Select(c)
      PROVE  TypeInv'
  <2>1. TypeOK'
    BY <1>2, VisibleType DEF Select, SelectByPrimaryKey, Go, TypeOK, TablesTypeOK,
                             LockTypeOK, lockVars, Labels
  <2>2. ReadStock' /\ TurnsLeft'
    BY <1>2 DEF Select, SelectByPrimaryKey, Go, ReadStock, HoldsRow, TurnsLeft,
                TypeOK, TablesTypeOK
  <2>. QED BY <2>1, <2>2
<1>3. ASSUME NEW c \in Calls, c \notin LockCalls, Decrement(c)
      PROVE  TypeInv'
  <2>1. seen[c] # Null /\ seen[c].inStock # 0 /\ seen[c].version \in Nat \cup {Null}
    BY <1>3 DEF Decrement, Go, ReadStock, HoldsRow, TypeOK, TablesTypeOK, Row
  <2>2. TablesTypeOK'
    BY <1>3, <2>1, UpdateType DEF Decrement
  <2>3. TypeOK'
    BY <1>3, <2>2 DEF Decrement, Go, TypeOK, LockTypeOK, lockVars, Labels
  <2>4. ReadStock' /\ TurnsLeft'
    BY <1>3 DEF Decrement, UpdateRow, Go, ReadStock, HoldsRow, TurnsLeft, TypeOK
  <2>. QED BY <2>3, <2>4
<1>4. ASSUME NEW c \in Calls, c \notin LockCalls, Miss(c)
      PROVE  TypeInv'
  <2>1. tries[c] \in Nat /\ tries[c] < MaxTries
    BY <1>4 DEF Miss, Go, TurnsLeft, TypeOK
  <2>2. tries' \in [Calls -> 0..MaxTries]
    BY <1>4, <2>1, MaxTriesAssumption DEF Miss, TypeOK
  <2>3. pc' \in [Calls -> Labels]
    BY <1>4 DEF Miss, Go, TypeOK, Labels
  <2>4. rowLock' \in [Prods -> Calls \cup {Null}]
    BY <1>4, ProdOfAssumption DEF Miss, UpdateNoRow, TypeOK, TablesTypeOK
  <2>5. TypeOK'
    BY <1>4, <2>2, <2>3, <2>4 DEF Miss, UpdateNoRow, TypeOK, TablesTypeOK, LockTypeOK,
                                  lockVars
  <2>6. ReadStock'
    BY <1>4 DEF Miss, UpdateNoRow, Go, ReadStock, HoldsRow, TypeOK
  <2>7. TurnsLeft'
    BY <1>4, <2>1, MaxTriesAssumption DEF Miss, Go, TurnsLeft, TypeOK
  <2>. QED BY <2>5, <2>6, <2>7
<1>5. ASSUME NEW c \in Calls, InsertOrder(c) \/ InsertOrder2(c)
      PROVE  TypeOK'
  BY <1>5 DEF InsertOrder, InsertOrder2, InsertOrderRow, Go, TypeOK, TablesTypeOK,
              LockTypeOK, lockVars, Labels
<1>6. ASSUME NEW c \in Calls, c \notin LockCalls, InsertOrder(c)
      PROVE  TypeInv'
  BY <1>5, <1>6 DEF InsertOrder, InsertOrderRow, Go, ReadStock, HoldsRow, TurnsLeft, TypeOK
<1>7. ASSUME NEW c \in Calls, c \in LockCalls, Stamp(c)
      PROVE  TypeInv'
  <2>1. TypeOK'
    BY <1>7, LockTtlAssumption DEF Stamp, Go, TypeOK, TablesTypeOK, LockTypeOK, tables,
                                   lockVars, Labels
  <2>2. ReadStock' /\ TurnsLeft'
    BY <1>7 DEF Stamp, Go, ReadStock, HoldsRow, TurnsLeft, TypeOK, tables
  <2>. QED BY <2>1, <2>2
<1>8. ASSUME NEW c \in Calls, c \in LockCalls, Lock(c)
      PROVE  TypeInv'
  <2>1. TypeOK'
    BY <1>8, KeysAssumption, ProdOfAssumption
       DEF Lock, Grant, Refuse, Go, TypeOK, TablesTypeOK, LockTypeOK, tables, Labels
  <2>2. ReadStock' /\ TurnsLeft'
    BY <1>8 DEF Lock, Go, ReadStock, HoldsRow, TurnsLeft, TypeOK, tables
  <2>. QED BY <2>1, <2>2
<1>9. ASSUME NEW c \in Calls, c \in LockCalls, Select2(c)
      PROVE  TypeInv'
  <2>1. TypeOK'
    BY <1>9, VisibleType DEF Select2, SelectByPrimaryKey, Go, TypeOK, TablesTypeOK,
                             LockTypeOK, lockVars, Labels
  <2>2. ReadStock' /\ TurnsLeft'
    BY <1>9 DEF Select2, SelectByPrimaryKey, Go, ReadStock, HoldsRow, TurnsLeft,
                TypeOK, TablesTypeOK
  <2>. QED BY <2>1, <2>2
<1>10. ASSUME NEW c \in Calls, c \in LockCalls, InsertOrder2(c)
       PROVE  TypeInv'
  BY <1>5, <1>10 DEF InsertOrder2, InsertOrderRow, Go, ReadStock, HoldsRow, TurnsLeft, TypeOK
<1>11. ASSUME NEW c \in Calls, c \in LockCalls, Decrement2(c)
       PROVE  TypeInv'
  <2>1. seen[c] # Null /\ seen[c].inStock # 0
    BY <1>11 DEF Decrement2, Go, ReadStock, HoldsRow
  <2>2. TablesTypeOK'
    BY <1>11, <2>1, UpdateType DEF Decrement2
  <2>3. TypeOK'
    BY <1>11, <2>2 DEF Decrement2, Go, TypeOK, LockTypeOK, lockVars, Labels
  <2>4. ReadStock' /\ TurnsLeft'
    BY <1>11 DEF Decrement2, UpdateRow, Go, ReadStock, HoldsRow, TurnsLeft, TypeOK
  <2>. QED BY <2>3, <2>4
<1>12. ASSUME NEW c \in Calls, c \in LockCalls, Unlock(c)
       PROVE  TypeInv'
  <2>1. TypeOK'
    BY <1>12, KeysAssumption, ProdOfAssumption
       DEF Unlock, Release, Go, TypeOK, TablesTypeOK, LockTypeOK, tables, Labels
  <2>2. ReadStock' /\ TurnsLeft'
    BY <1>12 DEF Unlock, Go, ReadStock, HoldsRow, TurnsLeft, TypeOK, tables
  <2>. QED BY <2>1, <2>2
<1>13. ASSUME NEW c \in Calls, Commit(c)
       PROVE  TypeInv'
  <2>1. prodDef' \in [Prods -> Row \cup {Null}] /\ misOrder' \subseteq Calls
    BY <1>13, ProdOfAssumption DEF Commit, CommitTx, TypeOK, TablesTypeOK
  <2>2. TypeOK'
    BY <1>13, <2>1, EndTxType
       DEF Commit, CommitTx, Go, TypeOK, TablesTypeOK, LockTypeOK, lockVars, Labels
  <2>3. ReadStock' /\ TurnsLeft'
    BY <1>13 DEF Commit, CommitTx, EndTx, Go, ReadStock, HoldsRow, TurnsLeft, TypeOK,
                 TablesTypeOK
  <2>. QED BY <2>2, <2>3
<1>14. ASSUME NEW c \in Calls, Fault(c)
       PROVE  TypeInv'
  BY <1>14 DEF Fault, Go, TypeOK, TablesTypeOK, LockTypeOK, tables, lockVars, Labels,
               ReadStock, HoldsRow, TurnsLeft
<1>15. ASSUME NEW c \in Calls, Rollback(c)
       PROVE  TypeInv'
  <2>1. TypeOK'
    BY <1>15, EndTxType DEF Rollback, RollbackTx, Go, TypeOK, TablesTypeOK, LockTypeOK,
                            lockVars, Labels
  <2>2. ReadStock' /\ TurnsLeft'
    BY <1>15 DEF Rollback, RollbackTx, EndTx, Go, ReadStock, HoldsRow, TurnsLeft, TypeOK,
                 TablesTypeOK
  <2>. QED BY <2>1, <2>2
<1>16. CASE Clock
  BY <1>16 DEF Clock, Tick, TypeOK, TablesTypeOK, LockTypeOK, tables, control,
               ReadStock, HoldsRow, TurnsLeft
<1>17. CASE UNCHANGED vars
  BY <1>17 DEF vars, TypeOK, TablesTypeOK, LockTypeOK, tables, lockVars, control,
               ReadStock, HoldsRow, TurnsLeft
<1>. QED
  BY <1>1, <1>2, <1>3, <1>4, <1>6, <1>7, <1>8, <1>9, <1>10, <1>11, <1>12, <1>13, <1>14,
     <1>15, <1>16, <1>17
     DEF Next, Step, InsertMisOrder, InsertMisOrder2

LEMMA TypeInit == Init => TypeInv
BY MaxTriesAssumption
   DEF Init, TablesInit, LockInit, TypeInv, TypeOK, TablesTypeOK, LockTypeOK, Labels,
       ReadStock, HoldsRow, TurnsLeft

\* Every variable keeps its type; stock never goes below zero, for the row
\* written back holds what was read less one, and what was read was not zero.
THEOREM TypeCorrect == Spec => []TypeOK
<1>1. TypeInv => TypeOK
  BY DEF TypeInv
<1>. QED BY <1>1, TypeInit, TypeStep, PTL DEF Spec

-----------------------------------------------------------------------------
(***************************************************************************)
(* What an open transaction holds follows from where its call is: at the   *)
(* commit both writes are there or neither is.                             *)
(***************************************************************************)
WroteAt(c) == IF c \in LockCalls THEN {"unlock"} ELSE {"insert"}
OrderedAt(c) == IF c \in LockCalls THEN {"update", "unlock"} ELSE {}

TxShape ==
    \A c \in Calls :
        /\ pc[c] \notin {"commit", "throw"} =>
               /\ written[c] # Null <=> pc[c] \in WroteAt(c)
               /\ inserted[c] <=> pc[c] \in OrderedAt(c)
        /\ pc[c] = "commit" => (inserted[c] <=> written[c] # Null)
        /\ c \in misOrder => pc[c] = "returned"

LEMMA TxShapeInit == Init => TxShape
BY DEF Init, TablesInit, TxShape, WroteAt, OrderedAt

LEMMA TxShapeStep == TypeInv /\ TxShape /\ [Next]_vars => TxShape'
<1>. SUFFICES ASSUME TypeOK, ReadStock, TxShape, [Next]_vars
              PROVE  TxShape'
  BY DEF TypeInv
<1>. USE DEF TxShape, WroteAt, OrderedAt
<1>1. ASSUME NEW p \in Prods, InsertMisProdDef(p)
      PROVE  TxShape'
  BY <1>1 DEF InsertMisProdDef, InsertProd, control
<1>2. ASSUME NEW c \in Calls, c \notin LockCalls, Select(c)
      PROVE  TxShape'
  BY <1>2 DEF Select, SelectByPrimaryKey, Go, TypeOK
<1>3. ASSUME NEW c \in Calls, c \notin LockCalls, Decrement(c)
      PROVE  TxShape'
  <2>0. seen[c] # Null /\ seen[c].inStock # 0 /\ seen[c].version \in Nat \cup {Null}
    BY <1>3 DEF Decrement, Go, ReadStock, HoldsRow, TypeOK, TablesTypeOK, Row
  <2>1. written'[c] # Null
    BY <1>3, <2>0, UpdateType, NullAssumption DEF Decrement
  <2>. QED BY <1>3, <2>1 DEF Decrement, UpdateRow, Go, TypeOK, TablesTypeOK
<1>4. ASSUME NEW c \in Calls, c \notin LockCalls, Miss(c)
      PROVE  TxShape'
  BY <1>4 DEF Miss, UpdateNoRow, Go, TypeOK
<1>5. ASSUME NEW c \in Calls, c \notin LockCalls, InsertOrder(c)
      PROVE  TxShape'
  BY <1>5 DEF InsertOrder, InsertOrderRow, Go, TypeOK, TablesTypeOK
<1>6. ASSUME NEW c \in Calls, c \in LockCalls, Stamp(c)
      PROVE  TxShape'
  BY <1>6 DEF Stamp, Go, TypeOK, tables
<1>7. ASSUME NEW c \in Calls, c \in LockCalls, Lock(c)
      PROVE  TxShape'
  BY <1>7 DEF Lock, Go, TypeOK, tables
<1>8. ASSUME NEW c \in Calls, c \in LockCalls, Select2(c)
      PROVE  TxShape'
  BY <1>8 DEF Select2, SelectByPrimaryKey, Go, TypeOK
<1>9. ASSUME NEW c \in Calls, c \in LockCalls, InsertOrder2(c)
      PROVE  TxShape'
  BY <1>9 DEF InsertOrder2, InsertOrderRow, Go, TypeOK, TablesTypeOK
<1>10. ASSUME NEW c \in Calls, c \in LockCalls, Decrement2(c)
       PROVE  TxShape'
  <2>0. seen[c] # Null /\ seen[c].inStock # 0
    BY <1>10 DEF Decrement2, Go, ReadStock, HoldsRow
  <2>1. written'[c] # Null
    BY <1>10, <2>0, UpdateType, NullAssumption DEF Decrement2
  <2>. QED BY <1>10, <2>1 DEF Decrement2, UpdateRow, Go, TypeOK, TablesTypeOK
<1>11. ASSUME NEW c \in Calls, c \in LockCalls, Unlock(c)
       PROVE  TxShape'
  BY <1>11 DEF Unlock, Go, TypeOK, tables
<1>12. ASSUME NEW c \in Calls, Commit(c)
       PROVE  TxShape'
  BY <1>12 DEF Commit, CommitTx, EndTx, Go, TypeOK, TablesTypeOK
<1>13. ASSUME NEW c \in Calls, Fault(c)
       PROVE  TxShape'
  BY <1>13 DEF Fault, Go, TypeOK, tables
<1>14. ASSUME NEW c \in Calls, Rollback(c)
       PROVE  TxShape'
  BY <1>14 DEF Rollback, RollbackTx, EndTx, Go, TypeOK, TablesTypeOK
<1>15. CASE Clock
  BY <1>15 DEF Clock, tables, control
<1>16. CASE UNCHANGED vars
  BY <1>16 DEF vars, tables, control
<1>. QED
  BY <1>1, <1>2, <1>3, <1>4, <1>5, <1>6, <1>7, <1>8, <1>9, <1>10, <1>11, <1>12, <1>13,
     <1>14, <1>15, <1>16
     DEF Next, Step, InsertMisOrder, InsertMisOrder2

-----------------------------------------------------------------------------
(***************************************************************************)
(* Counting orders.                                                        *)
(***************************************************************************)
Count(p) == Cardinality(OrdersOf(p))

LEMMA CountType ==
    ASSUME TypeOK, NEW p
    PROVE  IsFiniteSet(OrdersOf(p)) /\ Count(p) \in Nat
<1>1. OrdersOf(p) \subseteq Calls
  BY DEF OrdersOf, TypeOK, TablesTypeOK
<1>2. IsFiniteSet(OrdersOf(p))
  BY <1>1, CallsAssumption, FS_Subset DEF CallsAssumption
<1>. QED BY <1>2, FS_CardinalityType DEF Count

\* A commit with an order row adds one order to the call's product.
LEMMA CommitCount ==
    ASSUME TypeOK, TxShape, NEW c \in Calls, Commit(c), NEW p
    PROVE  Count(p)' = IF inserted[c] /\ ProdOf[c] = p THEN Count(p) + 1 ELSE Count(p)
<1>1. c \notin misOrder
  BY DEF TxShape, Commit, Go
<1>2. CASE inserted[c] /\ ProdOf[c] = p
  <2>1. OrdersOf(p)' = OrdersOf(p) \cup {c}
    BY <1>2 DEF OrdersOf, Commit, CommitTx
  <2>2. c \notin OrdersOf(p)
    BY <1>1 DEF OrdersOf
  <2>. QED BY <1>2, <2>1, <2>2, CountType, FS_AddElement DEF Count
<1>3. CASE ~ (inserted[c] /\ ProdOf[c] = p)
  <2>1. OrdersOf(p)' = OrdersOf(p)
    BY <1>3 DEF OrdersOf, Commit, CommitTx
  <2>. QED BY <1>3, <2>1 DEF Count
<1>. QED BY <1>2, <1>3

(***************************************************************************)
(* Every step but a commit and the creation of a product leaves both       *)
(* tables alone; all it can do to a call is to read its row, to forget it, *)
(* to forget its writes, or to write back the row it read, less one.       *)
(***************************************************************************)
SeenStep(d) == seen'[d] \in {seen[d], Null, Visible(d)}
BeanVersion(d) == IF d \in LockCalls THEN Null ELSE seen[d].version
WriteStep(d) ==
    \/ written'[d] \in {written[d], Null}
    \/ HoldsRow(d) /\ UpdateRow(d, seen[d].inStock - 1, BeanVersion(d))
Quiet == /\ UNCHANGED <<prodDef, misOrder>>
         /\ \A d \in Calls : SeenStep(d) /\ WriteStep(d)

LEMMA StepKinds ==
    ASSUME TypeOK, [Next]_vars
    PROVE  \/ \E p \in Prods : InsertMisProdDef(p)
           \/ \E c \in Calls : Commit(c)
           \/ Quiet
<1>. USE DEF Quiet, SeenStep, WriteStep, BeanVersion
<1>1. ASSUME NEW c \in Calls, Select(c) \/ Select2(c)
      PROVE  Quiet
  BY <1>1 DEF Select, Select2, SelectByPrimaryKey, TypeOK, TablesTypeOK
<1>2. ASSUME NEW c \in Calls, c \notin LockCalls, Decrement(c)
      PROVE  Quiet
  BY <1>2 DEF Decrement, UpdateRow, Go, HoldsRow, TypeOK, TablesTypeOK
<1>3. ASSUME NEW c \in Calls, c \in LockCalls, Decrement2(c)
      PROVE  Quiet
  BY <1>3 DEF Decrement2, UpdateRow, Go, HoldsRow, TypeOK, TablesTypeOK
<1>4. ASSUME NEW c \in Calls, Miss(c) \/ InsertOrder(c) \/ InsertOrder2(c)
      PROVE  Quiet
  BY <1>4 DEF Miss, UpdateNoRow, InsertOrder, InsertOrder2, InsertOrderRow
<1>5. ASSUME NEW c \in Calls, Stamp(c) \/ Lock(c) \/ Unlock(c) \/ Fault(c)
      PROVE  Quiet
  BY <1>5 DEF Stamp, Lock, Unlock, Fault, tables
<1>6. ASSUME NEW c \in Calls, Rollback(c)
      PROVE  Quiet
  BY <1>6 DEF Rollback, RollbackTx, EndTx, TypeOK, TablesTypeOK
<1>7. CASE Clock
  BY <1>7 DEF Clock, tables
<1>8. CASE UNCHANGED vars
  BY <1>8 DEF vars, tables
<1>. QED
  BY <1>1, <1>2, <1>3, <1>4, <1>5, <1>6, <1>7, <1>8
     DEF Next, Step, InsertMisOrder, InsertMisOrder2

-----------------------------------------------------------------------------
(***************************************************************************)
(* AccountedFor is not inductive: what keeps it is that it also holds with *)
(* the stock a call read, or is about to commit, in place of the stock on  *)
(* the shelf, however old that reading is.                                 *)
(***************************************************************************)
SeenAccounted ==
    \A c \in Calls : seen[c] # Null =>
        /\ prodDef[ProdOf[c]] # Null
        /\ Count(ProdOf[c]) + seen[c].inStock >= prodDef[ProdOf[c]].total
WrittenAccounted ==
    \A c \in Calls : written[c] # Null =>
        /\ prodDef[ProdOf[c]] # Null
        /\ written[c].total = prodDef[ProdOf[c]].total
        /\ Count(ProdOf[c]) + 1 + written[c].inStock >= prodDef[ProdOf[c]].total

AccountInv == TypeInv /\ TxShape /\ SeenAccounted /\ WrittenAccounted /\ AccountedFor

LEMMA AccountInit == Init => AccountInv
BY TypeInit, TxShapeInit
   DEF AccountInv, Init, TablesInit, SeenAccounted, WrittenAccounted, AccountedFor, Existing

LEMMA AccountQuiet == AccountInv /\ Quiet => (SeenAccounted /\ WrittenAccounted /\ AccountedFor)'
<1>. SUFFICES ASSUME AccountInv, Quiet
              PROVE  (SeenAccounted /\ WrittenAccounted /\ AccountedFor)'
  OBVIOUS
<1>. USE DEF AccountInv
<1>1. \A p : Count(p)' = Count(p)
  BY DEF Quiet, Count, OrdersOf
<1>2. AccountedFor'
  BY <1>1 DEF Quiet, AccountedFor, Existing, OrdersOf
<1>3. ASSUME NEW c \in Calls, seen'[c] # Null
      PROVE  /\ prodDef[ProdOf[c]] # Null
             /\ Count(ProdOf[c]) + seen'[c].inStock >= prodDef[ProdOf[c]].total
  <2>1. CASE seen'[c] = seen[c]
    BY <1>3, <2>1 DEF SeenAccounted
  <2>2. CASE seen'[c] = prodDef[ProdOf[c]]
    BY <1>3, <2>2, ProdOfAssumption DEF ProdOfAssumption, AccountedFor, Existing, Count
  <2>. QED BY <1>3, <2>1, <2>2 DEF Quiet, SeenStep, Visible
<1>4. ASSUME NEW c \in Calls, written'[c] # Null
      PROVE  /\ prodDef[ProdOf[c]] # Null
             /\ written'[c].total = prodDef[ProdOf[c]].total
             /\ Count(ProdOf[c]) + 1 + written'[c].inStock >= prodDef[ProdOf[c]].total
  <2>1. CASE written'[c] = written[c]
    BY <1>4, <2>1 DEF WrittenAccounted
  <2>2. CASE HoldsRow(c) /\ UpdateRow(c, seen[c].inStock - 1, BeanVersion(c))
    <3>. DEFINE p == ProdOf[c]
    <3>1. seen[c] \in Row /\ prodDef[p] \in Row /\ p \in Prods
      BY <2>2, ProdOfAssumption
         DEF ProdOfAssumption, TypeInv, TypeOK, TablesTypeOK, ReadStock, UpdateRow, Matches
    <3>2. written'[c].total = prodDef[p].total /\ written'[c].inStock = seen[c].inStock - 1
      BY <2>2, <3>1 DEF UpdateRow, TypeInv, TypeOK, TablesTypeOK, Row
    <3>3. Count(p) \in Nat /\ seen[c].inStock \in Nat /\ prodDef[p].total \in Nat
      BY <3>1, CountType DEF Row, TypeInv
    <3>4. prodDef[p] # Null /\ Count(p) + seen[c].inStock >= prodDef[p].total
      BY <2>2 DEF SeenAccounted, TypeInv, ReadStock
    <3>. QED BY <3>2, <3>3, <3>4
  <2>. QED BY <1>4, <2>1, <2>2 DEF Quiet, WriteStep
<1>. QED BY <1>1, <1>2, <1>3, <1>4 DEF Quiet, SeenAccounted, WrittenAccounted

LEMMA AccountCommit ==
    ASSUME AccountInv, NEW c \in Calls, Commit(c)
    PROVE  (SeenAccounted /\ WrittenAccounted /\ AccountedFor)'
<1>. USE DEF AccountInv
<1>. DEFINE q == ProdOf[c]
<1>0. q \in Prods
  BY ProdOfAssumption DEF ProdOfAssumption
<1>1. inserted[c] <=> written[c] # Null
  BY DEF TxShape, Commit, Go
<1>2. \A p : /\ Count(p) \in Nat /\ Count(p)' \in Nat
             /\ Count(p)' = IF inserted[c] /\ q = p THEN Count(p) + 1 ELSE Count(p)
  BY CountType, CommitCount DEF TypeInv
<1>3. \A p \in Prods : /\ prodDef[p] # Null => prodDef'[p] # Null /\ prodDef'[p].total = prodDef[p].total
                       /\ prodDef'[p] # Null => prodDef[p] # Null
  BY <1>0, NullAssumption DEF Commit, CommitTx, WrittenAccounted, TypeInv, TypeOK, TablesTypeOK
<1>4. \A p \in Prods : prodDef'[p] = IF inserted[c] /\ q = p THEN written[c] ELSE prodDef[p]
  BY <1>0, <1>1 DEF Commit, CommitTx, TypeInv, TypeOK, TablesTypeOK
<1>5. \A p \in Prods : prodDef[p] # Null => prodDef[p].total \in Nat /\ prodDef[p].inStock \in Nat
  BY DEF TypeInv, TypeOK, TablesTypeOK, Row
<1>6. \A d \in Calls : /\ seen[d] # Null => seen[d].inStock \in Nat
                       /\ written[d] # Null => written[d].inStock \in Nat
  BY DEF TypeInv, TypeOK, TablesTypeOK, Row
<1>7. \A d \in Calls : seen'[d] \in {seen[d], Null} /\ written'[d] \in {written[d], Null}
  BY DEF Commit, CommitTx, EndTx, TypeInv, TypeOK, TablesTypeOK
<1>8. AccountedFor'
  <2>. SUFFICES ASSUME NEW p \in Prods, prodDef'[p] # Null
                PROVE  Count(p)' + prodDef'[p].inStock >= prodDef'[p].total
    BY DEF AccountedFor, Existing, Count, OrdersOf
  <2>1. CASE inserted[c] /\ q = p
    BY <1>1, <1>2, <1>4, <1>5, <1>6, <2>1 DEF WrittenAccounted
  <2>2. CASE ~ (inserted[c] /\ q = p)
    BY <1>2, <1>4, <2>2 DEF AccountedFor, Existing, Count
  <2>. QED BY <2>1, <2>2
<1>9. SeenAccounted'
  <2>. SUFFICES ASSUME NEW d \in Calls, seen'[d] # Null
                PROVE  /\ prodDef'[ProdOf[d]] # Null
                       /\ Count(ProdOf[d])' + seen'[d].inStock >= prodDef'[ProdOf[d]].total
    BY DEF SeenAccounted
  <2>1. ProdOf[d] \in Prods /\ seen'[d] = seen[d]
    BY <1>7, ProdOfAssumption DEF ProdOfAssumption
  <2>. QED BY <1>2, <1>3, <1>5, <1>6, <2>1 DEF SeenAccounted
<1>10. WrittenAccounted'
  <2>. SUFFICES ASSUME NEW d \in Calls, written'[d] # Null
                PROVE  /\ prodDef'[ProdOf[d]] # Null
                       /\ written'[d].total = prodDef'[ProdOf[d]].total
                       /\ Count(ProdOf[d])' + 1 + written'[d].inStock
                            >= prodDef'[ProdOf[d]].total
    BY DEF WrittenAccounted
  <2>1. ProdOf[d] \in Prods /\ written'[d] = written[d]
    BY <1>7, ProdOfAssumption DEF ProdOfAssumption
  <2>. QED BY <1>2, <1>3, <1>5, <1>6, <2>1 DEF WrittenAccounted
<1>. QED BY <1>8, <1>9, <1>10

LEMMA AccountCreate ==
    ASSUME AccountInv, NEW p \in Prods, InsertMisProdDef(p)
    PROVE  (SeenAccounted /\ WrittenAccounted /\ AccountedFor)'
<1>. USE DEF AccountInv
<1>1. PICK n \in Nat : prodDef' = [prodDef EXCEPT ![p] = [inStock |-> n, total |-> n,
                                                          version |-> DefaultVersion]]
  BY StocksAssumption DEF StocksAssumption, InsertMisProdDef, InsertProd
<1>2. \A q : Count(q) \in Nat /\ Count(q)' = Count(q)
  BY CountType DEF TypeInv, InsertMisProdDef, InsertProd, Count, OrdersOf
<1>3. /\ prodDef'[p].inStock = n /\ prodDef'[p].total = n
      /\ \A q \in Prods \ {p} : prodDef'[q] = prodDef[q]
      /\ prodDef[p] = Null /\ seen' = seen /\ written' = written
  BY <1>1 DEF InsertMisProdDef, InsertProd, TypeInv, TypeOK, TablesTypeOK
<1>4. AccountedFor'
  <2>. SUFFICES ASSUME NEW q \in Prods, prodDef'[q] # Null
                PROVE  Count(q)' + prodDef'[q].inStock >= prodDef'[q].total
    BY DEF AccountedFor, Existing, Count, OrdersOf
  <2>1. CASE q = p
    BY <1>2, <1>3, <2>1
  <2>2. CASE q # p
    BY <1>2, <1>3, <2>2 DEF AccountedFor, Existing, Count
  <2>. QED BY <2>1, <2>2
<1>5. \A d \in Calls : seen[d] # Null \/ written[d] # Null => ProdOf[d] \in Prods \ {p}
  BY <1>3, ProdOfAssumption DEF ProdOfAssumption, SeenAccounted, WrittenAccounted
<1>. QED BY <1>2, <1>3, <1>4, <1>5 DEF SeenAccounted, WrittenAccounted

LEMMA AccountStep == AccountInv /\ [Next]_vars => AccountInv'
<1>. SUFFICES ASSUME AccountInv, [Next]_vars
              PROVE  AccountInv'
  OBVIOUS
<1>1. TypeInv' /\ TxShape'
  BY TypeStep, TxShapeStep DEF AccountInv
<1>2. (SeenAccounted /\ WrittenAccounted /\ AccountedFor)'
  <2>1. ASSUME NEW p \in Prods, InsertMisProdDef(p)
        PROVE  (SeenAccounted /\ WrittenAccounted /\ AccountedFor)'
    BY <2>1, AccountCreate
  <2>2. ASSUME NEW c \in Calls, Commit(c)
        PROVE  (SeenAccounted /\ WrittenAccounted /\ AccountedFor)'
    BY <2>2, AccountCommit
  <2>3. CASE Quiet
    BY <2>3, AccountQuiet
  <2>. QED BY <2>1, <2>2, <2>3, StepKinds DEF AccountInv, TypeInv
<1>. QED BY <1>1, <1>2 DEF AccountInv

\* No interleaving of the two methods, no lapse of a Redis lock, no fault and
\* no null version makes a unit of stock disappear without an order.
THEOREM NothingUndersold == Spec => []AccountedFor
<1>1. AccountInv => AccountedFor
  BY DEF AccountInv
<1>. QED BY <1>1, AccountInit, AccountStep, PTL DEF Spec

-----------------------------------------------------------------------------
(***************************************************************************)
(* The result a caller gets against the orders there are.                  *)
(***************************************************************************)
Answered == \A c \in Calls : pc[c] = "returned" <=> result[c] # "none"
ResultInv == TypeInv /\ TxShape /\ Answered /\ ResultTellsOrder

LEMMA AnsweredStep == TypeInv /\ Answered /\ [Next]_vars => Answered'
<1>. SUFFICES ASSUME TypeOK, Answered, [Next]_vars
              PROVE  Answered'
  BY DEF TypeInv
<1>. USE DEF Answered, TypeOK
<1>1. ASSUME NEW c \in Calls, Commit(c) \/ Rollback(c)
      PROVE  Answered'
  BY <1>1 DEF Commit, Rollback, Go
<1>2. ASSUME NEW c \in Calls, InsertMisOrder(c)
      PROVE  Answered'
  BY <1>2 DEF InsertMisOrder, Select, Decrement, Miss, InsertOrder, Go
<1>3. ASSUME NEW c \in Calls, InsertMisOrder2(c)
      PROVE  Answered'
  BY <1>3 DEF InsertMisOrder2, Stamp, Lock, Select2, InsertOrder2, Decrement2, Unlock, Go
<1>4. ASSUME NEW c \in Calls, Fault(c)
      PROVE  Answered'
  BY <1>4 DEF Fault, Go, Labels
<1>5. CASE UNCHANGED <<pc, result>>
  BY <1>5
<1>. QED
  BY <1>1, <1>2, <1>3, <1>4, <1>5 DEF Next, Step, InsertMisProdDef, Clock, vars, control

LEMMA ResultStep == ResultInv /\ [Next]_vars => ResultTellsOrder'
<1>. SUFFICES ASSUME TypeOK, TxShape, Answered, ResultTellsOrder, [Next]_vars
              PROVE  ResultTellsOrder'
  BY DEF ResultInv, TypeInv
<1>. USE DEF Answered, ResultTellsOrder, TypeOK
<1>1. ASSUME NEW c \in Calls, Commit(c)
      PROVE  ResultTellsOrder'
  BY <1>1 DEF Commit, CommitTx, Go, TxShape
<1>2. ASSUME NEW c \in Calls, Rollback(c)
      PROVE  ResultTellsOrder'
  BY <1>2 DEF Rollback, RollbackTx, Go, TxShape
<1>3. ASSUME NEW c \in Calls, InsertMisOrder(c)
      PROVE  ResultTellsOrder'
  BY <1>3 DEF InsertMisOrder, Select, Decrement, Miss, InsertOrder, SelectByPrimaryKey,
              UpdateRow, UpdateNoRow, InsertOrderRow, Go
<1>4. ASSUME NEW c \in Calls, InsertMisOrder2(c)
      PROVE  ResultTellsOrder'
  BY <1>4 DEF InsertMisOrder2, Stamp, Lock, Select2, InsertOrder2, Decrement2, Unlock,
              SelectByPrimaryKey, UpdateRow, InsertOrderRow, Go, tables
<1>5. ASSUME NEW c \in Calls, Fault(c)
      PROVE  ResultTellsOrder'
  BY <1>5 DEF Fault, Go, tables, Labels
<1>6. ASSUME NEW p \in Prods, InsertMisProdDef(p)
      PROVE  ResultTellsOrder'
  BY <1>6 DEF InsertMisProdDef, InsertProd, control
<1>7. CASE Clock \/ UNCHANGED vars
  BY <1>7 DEF Clock, vars, tables, control
<1>. QED BY <1>1, <1>2, <1>3, <1>4, <1>5, <1>6, <1>7 DEF Next, Step

\* An acknowledged order is there and a refused one is not, whichever
\* statement fails.
THEOREM ResultsAreTrue == Spec => []ResultTellsOrder
<1>1. Init => ResultInv
  BY TypeInit, TxShapeInit DEF Init, TablesInit, ResultInv, Answered, ResultTellsOrder
<1>2. ResultInv /\ [Next]_vars => ResultInv'
  BY TypeStep, TxShapeStep, AnsweredStep, ResultStep DEF ResultInv
<1>3. ResultInv => ResultTellsOrder
  BY DEF ResultInv
<1>. QED BY <1>1, <1>2, <1>3, PTL DEF Spec
=============================================================================
