--------------------------- MODULE OptimisticProofs ---------------------------
(***************************************************************************)
(* What the version check of insertMisOrder guarantees when every order    *)
(* goes through it and the version column is not null: exact stock, a      *)
(* version that counts the sales, and no refusal without a reason.         *)
(***************************************************************************)
EXTENDS OrderLocksProofs

Optimistic == LockCalls = {} /\ DefaultVersion \in Nat

-----------------------------------------------------------------------------
\* A row that was read is the committed one or an older one.
SeenIsPast ==
    \A c \in Calls : seen[c] # Null =>
        /\ prodDef[ProdOf[c]] # Null
        /\ seen[c].version \in Nat
        /\ seen[c].version >= DefaultVersion
        /\ seen[c].version <= prodDef[ProdOf[c]].version
        /\ seen[c].version = prodDef[ProdOf[c]].version => seen[c] = prodDef[ProdOf[c]]

\* A row that was written is the committed one after one more sale.
WrittenIsSale ==
    \A c \in Calls : written[c] # Null =>
        /\ prodDef[ProdOf[c]] # Null
        /\ prodDef[ProdOf[c]].inStock > 0
        /\ written[c].inStock = prodDef[ProdOf[c]].inStock - 1
        /\ written[c].total = prodDef[ProdOf[c]].total
        /\ written[c].version = prodDef[ProdOf[c]].version + 1

\* The books of one product, and of one that does not exist yet.
Balanced ==
    \A p \in Prods :
        /\ prodDef[p] = Null => Count(p) = 0
        /\ prodDef[p] # Null =>
              /\ Count(p) + prodDef[p].inStock = prodDef[p].total
              /\ prodDef[p].version = DefaultVersion + Count(p)

SaleInv == TypeInv /\ TxShape /\ Locked /\ SeenIsPast /\ WrittenIsSale /\ Balanced

LEMMA SaleInit == Init => SaleInv
<1>1. Init => \A p : OrdersOf(p) = {}
  BY DEF Init, TablesInit, OrdersOf
<1>. QED
  BY <1>1, TypeInit, TxShapeInit, FS_EmptySet
     DEF SaleInv, Init, TablesInit, Locked, SeenIsPast, WrittenIsSale, Balanced, Count

LEMMA SaleQuiet ==
    ASSUME Optimistic, SaleInv, Quiet
    PROVE  (SeenIsPast /\ WrittenIsSale /\ Balanced)'
<1>. USE DEF SaleInv
<1>1. Balanced'
  BY DEF Quiet, Balanced, Count, OrdersOf
<1>2. SeenIsPast'
  <2>. SUFFICES ASSUME NEW c \in Calls, seen'[c] # Null, seen'[c] # seen[c]
                PROVE  /\ prodDef[ProdOf[c]] # Null
                       /\ seen'[c] = prodDef[ProdOf[c]]
                       /\ seen'[c].version \in Nat
                       /\ seen'[c].version >= DefaultVersion
    BY DEF Quiet, SeenIsPast
  <2>1. seen'[c] = prodDef[ProdOf[c]] /\ ProdOf[c] \in Prods
    BY ProdOfAssumption DEF ProdOfAssumption, Quiet, SeenStep, Visible
  <2>2. Count(ProdOf[c]) \in Nat /\ DefaultVersion \in Nat
    BY CountType DEF TypeInv, Optimistic
  <2>. QED BY <2>1, <2>2 DEF Balanced
<1>3. WrittenIsSale'
  <2>. SUFFICES ASSUME NEW c \in Calls, HoldsRow(c),
                       UpdateRow(c, seen[c].inStock - 1, BeanVersion(c))
                PROVE  /\ prodDef[ProdOf[c]] # Null
                       /\ prodDef[ProdOf[c]].inStock > 0
                       /\ written'[c].inStock = prodDef[ProdOf[c]].inStock - 1
                       /\ written'[c].total = prodDef[ProdOf[c]].total
                       /\ written'[c].version = prodDef[ProdOf[c]].version + 1
    BY DEF Quiet, WriteStep, WrittenIsSale
  <2>1. seen[c] # Null /\ seen[c].inStock # 0
    BY DEF TypeInv, ReadStock
  <2>2. BeanVersion(c) = seen[c].version /\ seen[c].version # Null
    BY <2>1, NullAssumption DEF NullAssumption, BeanVersion, Optimistic, SeenIsPast
  <2>3. prodDef[ProdOf[c]].version = seen[c].version
    BY <2>2 DEF UpdateRow, Matches
  <2>4. seen[c] = prodDef[ProdOf[c]] /\ prodDef[ProdOf[c]] # Null
    BY <2>1, <2>3 DEF SeenIsPast
  <2>5. prodDef[ProdOf[c]] \in Row
    BY <2>4, ProdOfAssumption DEF ProdOfAssumption, TypeInv, TypeOK, TablesTypeOK
  <2>6. prodDef[ProdOf[c]].inStock > 0
    BY <2>1, <2>4, <2>5 DEF Row
  <2>7. written'[c] = [prodDef[ProdOf[c]] EXCEPT !.inStock = seen[c].inStock - 1,
                                                 !.version = seen[c].version + 1]
    BY <2>2, <2>3 DEF UpdateRow, TypeInv, TypeOK, TablesTypeOK
  <2>. QED BY <2>4, <2>5, <2>6, <2>7 DEF Row
<1>. QED BY <1>1, <1>2, <1>3

LEMMA SaleCreate ==
    ASSUME Optimistic, SaleInv, NEW p \in Prods, InsertMisProdDef(p)
    PROVE  (SeenIsPast /\ WrittenIsSale /\ Balanced)'
<1>. USE DEF SaleInv
<1>1. PICK n \in Nat : prodDef' = [prodDef EXCEPT ![p] = [inStock |-> n, total |-> n,
                                                          version |-> DefaultVersion]]
  BY StocksAssumption DEF StocksAssumption, InsertMisProdDef, InsertProd
<1>2. /\ \A q : Count(q)' = Count(q)
      /\ prodDef[p] = Null /\ seen' = seen /\ written' = written
  BY DEF InsertMisProdDef, InsertProd, Count, OrdersOf
<1>3. /\ prodDef'[p].inStock = n /\ prodDef'[p].total = n
      /\ prodDef'[p].version = DefaultVersion /\ prodDef'[p] # Null
      /\ \A q \in Prods \ {p} : prodDef'[q] = prodDef[q]
  <2>1. prodDef'[p] \in Row
    BY <1>1 DEF TypeInv, TypeOK, TablesTypeOK, Row, Optimistic
  <2>. QED BY <1>1, <2>1, NullAssumption DEF NullAssumption, TypeInv, TypeOK, TablesTypeOK
<1>4. Balanced'
  BY <1>2, <1>3 DEF Balanced, Optimistic
<1>5. \A d \in Calls : seen[d] # Null \/ written[d] # Null => ProdOf[d] \in Prods \ {p}
  BY <1>2, ProdOfAssumption DEF ProdOfAssumption, SeenIsPast, WrittenIsSale
<1>. QED BY <1>2, <1>3, <1>4, <1>5 DEF SeenIsPast, WrittenIsSale

LEMMA SaleCommit ==
    ASSUME Optimistic, SaleInv, NEW c \in Calls, Commit(c)
    PROVE  (SeenIsPast /\ WrittenIsSale /\ Balanced)'
<1>. USE DEF SaleInv
<1>. DEFINE q == ProdOf[c]
<1>0. q \in Prods
  BY ProdOfAssumption DEF ProdOfAssumption
<1>1. inserted[c] <=> written[c] # Null
  BY DEF TxShape, Commit, Go
<1>2. \A p : /\ Count(p) \in Nat
             /\ Count(p)' = IF inserted[c] /\ q = p THEN Count(p) + 1 ELSE Count(p)
  BY CountType, CommitCount DEF TypeInv
<1>3. \A p \in Prods : prodDef'[p] = IF inserted[c] /\ q = p THEN written[c] ELSE prodDef[p]
  BY <1>0, <1>1 DEF Commit, CommitTx, TypeInv, TypeOK, TablesTypeOK
<1>4. \A d \in Calls : seen'[d] \in {seen[d], Null} /\ written'[d] \in {written[d], Null}
  BY DEF Commit, CommitTx, EndTx, TypeInv, TypeOK, TablesTypeOK
<1>5. \A p \in Prods : prodDef[p] # Null => /\ prodDef[p].inStock \in Nat
                                            /\ prodDef[p].total \in Nat
                                            /\ prodDef[p].version \in Nat
  BY <1>2 DEF TypeInv, TypeOK, TablesTypeOK, Row, Balanced, Optimistic
<1>6. Balanced'
  <2>. SUFFICES ASSUME NEW p \in Prods
                PROVE  /\ prodDef'[p] = Null => Count(p)' = 0
                       /\ prodDef'[p] # Null =>
                            /\ Count(p)' + prodDef'[p].inStock = prodDef'[p].total
                            /\ prodDef'[p].version = DefaultVersion + Count(p)'
    BY DEF Balanced
  <2>1. CASE inserted[c] /\ q = p
    BY <1>1, <1>2, <1>3, <1>5, <2>1 DEF WrittenIsSale, Balanced, Optimistic
  <2>2. CASE ~ (inserted[c] /\ q = p)
    BY <1>2, <1>3, <2>2 DEF Balanced
  <2>. QED BY <2>1, <2>2
<1>7. SeenIsPast'
  <2>. SUFFICES ASSUME NEW d \in Calls, seen'[d] # Null
                PROVE  /\ prodDef'[ProdOf[d]] # Null
                       /\ seen'[d].version \in Nat
                       /\ seen'[d].version >= DefaultVersion
                       /\ seen'[d].version <= prodDef'[ProdOf[d]].version
                       /\ seen'[d].version = prodDef'[ProdOf[d]].version
                             => seen'[d] = prodDef'[ProdOf[d]]
    BY DEF SeenIsPast
  <2>1. ProdOf[d] \in Prods /\ seen'[d] = seen[d]
    BY <1>4, ProdOfAssumption DEF ProdOfAssumption
  <2>2. CASE inserted[c] /\ q = ProdOf[d]
    BY <1>1, <1>3, <1>5, <2>1, <2>2 DEF SeenIsPast, WrittenIsSale
  <2>3. CASE ~ (inserted[c] /\ q = ProdOf[d])
    BY <1>3, <2>1, <2>3 DEF SeenIsPast
  <2>. QED BY <2>2, <2>3
<1>8. WrittenIsSale'
  <2>. SUFFICES ASSUME NEW d \in Calls, written'[d] # Null
                PROVE  prodDef'[ProdOf[d]] = prodDef[ProdOf[d]] /\ written'[d] = written[d]
    BY DEF WrittenIsSale
  <2>1. ProdOf[d] \in Prods /\ written'[d] = written[d] /\ d # c
    BY <1>4, ProdOfAssumption
       DEF ProdOfAssumption, Commit, CommitTx, EndTx, TypeInv, TypeOK, TablesTypeOK
  <2>2. ~ (inserted[c] /\ q = ProdOf[d])
    BY <1>1, <2>1 DEF Locked
  <2>. QED BY <1>3, <2>1, <2>2
<1>. QED BY <1>6, <1>7, <1>8

LEMMA SaleStep ==
    ASSUME Optimistic
    PROVE  SaleInv /\ [Next]_vars => SaleInv'
<1>. SUFFICES ASSUME SaleInv, [Next]_vars
              PROVE  SaleInv'
  OBVIOUS
<1>1. (TypeInv /\ TxShape /\ Locked)'
  BY TypeStep, TxShapeStep, LockedStep DEF SaleInv
<1>2. (SeenIsPast /\ WrittenIsSale /\ Balanced)'
  BY SaleQuiet, SaleCreate, SaleCommit, StepKinds DEF SaleInv, TypeInv
<1>. QED BY <1>1, <1>2 DEF SaleInv

\* SaleInv is an invariant.
LEMMA SaleInvariant == ASSUME Optimistic PROVE Spec => []SaleInv
BY SaleInit, SaleStep, PTL DEF Spec

\* With the version check alone no sale is lost, doubled or made of nothing.
THEOREM ExactStock == ASSUME Optimistic PROVE Spec => []Conservation
<1>1. SaleInv => Conservation
  BY DEF SaleInv, Balanced, Conservation, Existing, Count
<1>. QED BY <1>1, SaleInvariant, PTL

-----------------------------------------------------------------------------
(***************************************************************************)
(* Why a call is refused.  Each turn of the loop that misses has been      *)
(* beaten by a sale: under "RC" by a new one every time, because the retry *)
(* reads the version anew.                                                 *)
(***************************************************************************)
Justified(c) ==
    /\ prodDef[ProdOf[c]] # Null
    /\ prodDef[ProdOf[c]].inStock = 0 \/ Count(ProdOf[c]) >= Beaten

Turns ==
    \A c \in Calls :
        /\ pc[c] = "select" /\ seen[c] # Null => seen[c].inStock # 0
        /\ Isolation = "RC" /\ pc[c] = "select" => Count(ProdOf[c]) >= tries[c]
        /\ Isolation = "RC" /\ pc[c] = "update" =>
               seen[c].version >= DefaultVersion + tries[c]

Refusals ==
    \A c \in Calls :
        (pc[c] = "commit" /\ ~ inserted[c]) \/ result[c] = "zero" => Justified(c)

TurnInv == SaleInv /\ Turns /\ Refusals

\* A reason to refuse a call stays one.
LEMMA JustifiedStays ==
    ASSUME Optimistic, SaleInv, [Next]_vars, NEW d \in Calls, Justified(d)
    PROVE  Justified(d)' /\ Count(ProdOf[d])' >= Count(ProdOf[d])
<1>. USE DEF SaleInv
<1>. DEFINE q == ProdOf[d]
<1>0. q \in Prods /\ Count(q) \in Nat
  BY ProdOfAssumption, CountType DEF ProdOfAssumption, TypeInv
<1>1. ASSUME NEW p \in Prods, InsertMisProdDef(p)
      PROVE  Justified(d)' /\ Count(q)' >= Count(q)
  BY <1>0, <1>1 DEF Justified, InsertMisProdDef, InsertProd, TypeInv, TypeOK, TablesTypeOK,
                    Count, OrdersOf, Beaten
<1>2. ASSUME NEW c \in Calls, Commit(c)
      PROVE  Justified(d)' /\ Count(q)' >= Count(q)
  <2>1. Count(q)' = IF inserted[c] /\ ProdOf[c] = q THEN Count(q) + 1 ELSE Count(q)
    BY <1>2, CommitCount DEF TypeInv
  <2>2. CASE inserted[c] /\ ProdOf[c] = q
    <3>1. written[c] # Null /\ prodDef'[q] = written[c]
      BY <1>0, <1>2, <2>2 DEF TxShape, Commit, CommitTx, Go, TypeInv, TypeOK, TablesTypeOK
    <3>2. prodDef[q].inStock > 0 /\ Count(q) >= Beaten
      BY <2>2, <3>1 DEF WrittenIsSale, Justified
    <3>3. Beaten \in Nat
      BY MaxTriesAssumption DEF MaxTriesAssumption, Beaten
    <3>. QED BY <1>0, <2>1, <2>2, <3>1, <3>2, <3>3 DEF Justified, Beaten
  <2>3. CASE ~ (inserted[c] /\ ProdOf[c] = q)
    <3>1. prodDef'[q] = prodDef[q]
      BY <1>0, <1>2, <2>3 DEF TxShape, Commit, CommitTx, Go, TypeInv, TypeOK, TablesTypeOK
    <3>. QED BY <1>0, <2>1, <2>3, <3>1 DEF Justified, Beaten
  <2>. QED BY <2>2, <2>3
<1>3. CASE Quiet
  BY <1>0, <1>3 DEF Quiet, Justified, Count, OrdersOf, Beaten
<1>. QED BY <1>1, <1>2, <1>3, StepKinds DEF TypeInv

\* Orders are never taken back.
LEMMA CountGrows ==
    ASSUME SaleInv, [Next]_vars, NEW p
    PROVE  Count(p) \in Nat /\ Count(p)' \in Nat /\ Count(p)' >= Count(p)
<1>. USE DEF SaleInv
<1>1. Count(p) \in Nat
  BY CountType DEF TypeInv
<1>2. ASSUME NEW q \in Prods, InsertMisProdDef(q)
      PROVE  Count(p)' = Count(p)
  BY <1>2 DEF InsertMisProdDef, InsertProd, Count, OrdersOf
<1>3. ASSUME NEW c \in Calls, Commit(c)
      PROVE  Count(p)' \in {Count(p), Count(p) + 1}
  BY <1>3, CommitCount DEF TypeInv
<1>4. ASSUME Quiet
      PROVE  Count(p)' = Count(p)
  BY <1>4 DEF Quiet, Count, OrdersOf
<1>. QED BY <1>1, <1>2, <1>3, <1>4, StepKinds DEF TypeInv

LEMMA TurnStep ==
    ASSUME Optimistic
    PROVE  TurnInv /\ [Next]_vars => TurnInv'
<1>. SUFFICES ASSUME TurnInv, [Next]_vars
              PROVE  (Turns /\ Refusals)'
  BY SaleStep DEF TurnInv
<1>. USE DEF TurnInv
<1>1. SaleInv /\ SaleInv' /\ TypeOK /\ TypeOK' /\ LockCalls = {}
  BY SaleStep DEF SaleInv, TypeInv, Optimistic
<1>2. \A d \in Calls : Justified(d) => Justified(d)'
  BY <1>1, JustifiedStays
<1>3. \A p : Count(p) \in Nat /\ Count(p)' \in Nat /\ Count(p)' >= Count(p)
  BY <1>1, CountGrows
<1>4. DefaultVersion \in Nat /\ MaxTries \in Nat /\ \A d \in Calls : tries[d] \in Nat
  BY <1>1, MaxTriesAssumption DEF MaxTriesAssumption, Optimistic, TypeOK
<1>5. ASSUME NEW c \in Calls, Select(c)
      PROVE  (Turns /\ Refusals)'
  <2>1. /\ \A d \in Calls \ {c} : pc'[d] = pc[d] /\ seen'[d] = seen[d]
        /\ seen'[c] = Visible(c) /\ UNCHANGED <<tries, inserted, result>>
    BY <1>1, <1>5 DEF Select, SelectByPrimaryKey, Go, TypeOK, TablesTypeOK
  <2>2. pc'[c] = "update" => Visible(c) # Null
    BY <1>1, <1>5 DEF Select, Go, TypeOK
  <2>3. pc'[c] = "commit" => Justified(c)
    BY <1>1, <1>5 DEF Select, Go, TypeOK, Visible, Turns, Justified
  <2>4. Isolation = "RC" /\ pc'[c] = "update" =>
            seen'[c].version >= DefaultVersion + tries[c]
    <3>. SUFFICES ASSUME Isolation = "RC", pc'[c] = "update"
                  PROVE  prodDef[ProdOf[c]].version >= DefaultVersion + tries[c]
      BY <2>1 DEF Visible
    <3>1. prodDef[ProdOf[c]] # Null /\ ProdOf[c] \in Prods /\ pc[c] = "select"
      BY <1>5, <2>2, ProdOfAssumption DEF ProdOfAssumption, Visible, Select, Go
    <3>. QED BY <1>1, <1>3, <1>4, <3>1 DEF SaleInv, Balanced, Turns
  <2>5. pc'[c] # "select"
    BY <1>1, <1>5 DEF Select, Go, TypeOK
  <2>6. Turns'
    BY <1>3, <1>4, <2>1, <2>4, <2>5 DEF Turns
  <2>. QED BY <1>2, <2>1, <2>3, <2>6 DEF Refusals
<1>6. ASSUME NEW c \in Calls, Miss(c)
      PROVE  (Turns /\ Refusals)'
  <2>1. /\ \A d \in Calls \ {c} : pc'[d] = pc[d] /\ tries'[d] = tries[d]
        /\ pc[c] = "update" /\ tries'[c] = tries[c] + 1
        /\ pc'[c] = IF tries[c] + 1 = MaxTries THEN "commit" ELSE "select"
        /\ UNCHANGED <<prodDef, misOrder, seen, inserted, result>>
    BY <1>1, <1>6 DEF Miss, UpdateNoRow, Go, TypeOK
  <2>2. /\ seen[c] # Null /\ seen[c].inStock # 0
        /\ prodDef[ProdOf[c]] # Null /\ ProdOf[c] \in Prods
    BY <1>1, <2>1, ProdOfAssumption
       DEF ProdOfAssumption, SaleInv, TypeInv, ReadStock, HoldsRow, SeenIsPast
  <2>3. /\ seen[c].version \in Nat /\ seen[c].version >= DefaultVersion
        /\ seen[c].version <= prodDef[ProdOf[c]].version
        /\ prodDef[ProdOf[c]].version = DefaultVersion + Count(ProdOf[c])
    BY <1>1, <2>2 DEF SaleInv, SeenIsPast, Balanced
  <2>4. seen[c].version # prodDef[ProdOf[c]].version
    BY <1>6, <2>2 DEF Miss, UpdateNoRow, Matches
  <2>5. Count(ProdOf[c]) >= 1
    BY <1>3, <1>4, <2>3, <2>4
  <2>6. Isolation = "RC" => Count(ProdOf[c]) >= tries[c] + 1
    BY <1>3, <1>4, <2>1, <2>3, <2>4 DEF Turns
  <2>7. Turns'
    BY <1>3, <1>4, <2>1, <2>2, <2>6 DEF Turns
  <2>8. tries[c] + 1 = MaxTries => Justified(c)
    BY <2>2, <2>5, <2>6 DEF Justified, Beaten
  <2>. QED BY <1>2, <2>1, <2>7, <2>8 DEF Refusals
<1>7. ASSUME NEW c \in Calls, Decrement(c) \/ InsertOrder(c) \/ Fault(c)
      PROVE  (Turns /\ Refusals)'
  <2>1. /\ \A d \in Calls \ {c} : pc'[d] = pc[d] /\ inserted'[d] = inserted[d]
        /\ pc'[c] \in {"insert", "throw"} \/ (pc'[c] = "commit" /\ inserted'[c])
        /\ UNCHANGED <<tries, seen, result>>
    BY <1>1, <1>7 DEF Decrement, UpdateRow, InsertOrder, InsertOrderRow, Fault, Go, tables,
                      TypeOK, TablesTypeOK
  <2>2. Turns'
    BY <1>3, <1>4, <2>1 DEF Turns
  <2>. QED BY <1>2, <2>1, <2>2 DEF Refusals
<1>8. ASSUME NEW c \in Calls, Commit(c) \/ Rollback(c)
      PROVE  (Turns /\ Refusals)'
  <2>1. /\ \A d \in Calls \ {c} : /\ pc'[d] = pc[d] /\ seen'[d] = seen[d]
                                  /\ inserted'[d] = inserted[d] /\ result'[d] = result[d]
        /\ pc'[c] = "returned" /\ UNCHANGED tries
        /\ result'[c] = "zero" => pc[c] = "commit" /\ ~ inserted[c]
    BY <1>1, <1>8 DEF Commit, CommitTx, Rollback, RollbackTx, EndTx, Go, TypeOK, TablesTypeOK
  <2>2. Turns'
    BY <1>3, <1>4, <2>1 DEF Turns
  <2>. QED BY <1>2, <2>1, <2>2 DEF Refusals
<1>9. ASSUME UNCHANGED <<pc, tries, seen, inserted, result>>
      PROVE  (Turns /\ Refusals)'
  <2>1. Turns'
    BY <1>3, <1>4, <1>9 DEF Turns
  <2>. QED BY <1>2, <1>9, <2>1 DEF Refusals
<1>. QED
  BY <1>1, <1>5, <1>6, <1>7, <1>8, <1>9
     DEF Next, Step, InsertMisOrder, InsertMisProdDef, InsertProd, Clock, vars, tables, control

LEMMA TurnInit == ASSUME Optimistic PROVE Init => TurnInv
<1>1. Init => \A p : Count(p) \in Nat
  BY TypeInit, CountType DEF TypeInv
<1>. QED BY <1>1, SaleInit DEF TurnInv, Turns, Refusals, Init, TablesInit, Optimistic

\* A caller is turned away only from an empty shelf or after losing every
\* turn it had, to a different sale each under read committed.
THEOREM RefusalsHaveReasons == ASSUME Optimistic PROVE Spec => []RefusalIsJustified
<1>1. TurnInv => RefusalIsJustified
  BY DEF TurnInv, Refusals, RefusalIsJustified, Justified, Count
<1>. QED BY <1>1, TurnInit, TurnStep, PTL DEF Spec

\* With no more calls than turns a call cannot have lost them all to others.
LEMMA TurnsLastLongEnough ==
    ASSUME Isolation = "RC", Cardinality(Calls) <= MaxTries,
           TypeOK, ResultTellsOrder, RefusalIsJustified
    PROVE  RefusedOnlyWhenSoldOut
<1>. SUFFICES ASSUME NEW c \in Calls, result[c] = "zero",
                     Count(ProdOf[c]) >= MaxTries
              PROVE  FALSE
  BY DEF RefusedOnlyWhenSoldOut, RefusalIsJustified, Beaten, Count
<1>1. OrdersOf(ProdOf[c]) \subseteq Calls \ {c}
  BY DEF OrdersOf, TypeOK, TablesTypeOK, ResultTellsOrder
<1>2. IsFiniteSet(Calls \ {c}) /\ Cardinality(Calls \ {c}) = Cardinality(Calls) - 1
  BY CallsAssumption, FS_RemoveElement DEF CallsAssumption
<1>3. Count(ProdOf[c]) <= Cardinality(Calls \ {c})
  BY <1>1, <1>2, FS_Subset DEF Count
<1>4. Cardinality(Calls) \in Nat /\ MaxTries \in Nat /\ Count(ProdOf[c]) \in Nat
  BY CallsAssumption, MaxTriesAssumption, FS_CardinalityType, CountType
     DEF CallsAssumption, MaxTriesAssumption
<1>. QED BY <1>2, <1>3, <1>4

\* Under read committed, with no more calls than turns, the retry loop turns
\* nobody away while there is stock.
THEOREM RetriesSuffice ==
    ASSUME Optimistic, Isolation = "RC", Cardinality(Calls) <= MaxTries
    PROVE  Spec => []RefusedOnlyWhenSoldOut
BY TurnsLastLongEnough, TypeCorrect, ResultsAreTrue, RefusalsHaveReasons, PTL

-----------------------------------------------------------------------------
(***************************************************************************)
(* The refinement: the commit of a call with an order is the sale, and     *)
(* every other end of a call is a refusal.                                 *)
(***************************************************************************)
RefineInv == SaleInv /\ Answered

LEMMA RefineStep ==
    ASSUME Optimistic, RefineInv, [Next]_vars
    PROVE  [Sale!Next]_Sale!vars
<1>. USE DEF RefineInv
<1>. DEFINE Shelf == [p \in Prods |-> IF prodDef[p] = Null THEN Null ELSE prodDef[p].inStock]
<1>1. ASSUME NEW p \in Prods, InsertMisProdDef(p)
      PROVE  Sale!Stock(p)
  <2>1. PICK n \in Stocks : prodDef' = [prodDef EXCEPT ![p] =
                               [inStock |-> n, total |-> n, version |-> DefaultVersion]]
    BY <1>1 DEF InsertMisProdDef, InsertProd
  <2>2. [inStock |-> n, total |-> n, version |-> DefaultVersion] # Null
    BY StocksAssumption, NullAssumption DEF StocksAssumption, NullAssumption, Row, Optimistic
  <2>3. Shelf' = [Shelf EXCEPT ![p] = n]
    BY <2>1, <2>2 DEF SaleInv, TypeInv, TypeOK, TablesTypeOK
  <2>4. Shelf[p] = Null /\ UNCHANGED <<misOrder, result>>
    BY <1>1 DEF InsertMisProdDef, InsertProd, control
  <2>. QED BY <2>3, <2>4 DEF Sale!Stock
<1>2. ASSUME NEW c \in Calls, Commit(c), inserted[c]
      PROVE  Sale!Sell(c)
  <2>. DEFINE q == ProdOf[c]
  <2>1. q \in Prods /\ written[c] # Null
    BY <1>2, ProdOfAssumption DEF ProdOfAssumption, SaleInv, TxShape, Commit, Go
  <2>2. /\ prodDef[q] # Null /\ prodDef[q].inStock > 0
        /\ written[c].inStock = prodDef[q].inStock - 1
    BY <2>1 DEF SaleInv, WrittenIsSale
  <2>3. prodDef[q].inStock \in Nat
    BY <2>1, <2>2 DEF SaleInv, TypeInv, TypeOK, TablesTypeOK, Row
  <2>4. prodDef' = [prodDef EXCEPT ![q] = written[c]]
    BY <1>2, <2>1 DEF Commit, CommitTx
  <2>5. Shelf' = [Shelf EXCEPT ![q] = @ - 1]
    BY <2>1, <2>2, <2>4 DEF SaleInv, TypeInv, TypeOK, TablesTypeOK
  <2>6. Shelf[q] # Null /\ Shelf[q] > 0
    BY <2>1, <2>2, <2>3, NullAssumption DEF NullAssumption
  <2>7. result[c] = "none" /\ misOrder' = misOrder \cup {c}
    BY <1>2 DEF Answered, Commit, CommitTx, Go, SaleInv, TypeInv, TypeOK
  <2>8. \E a \in {"ordered", "error"} : result' = [result EXCEPT ![c] = a]
    BY <1>2 DEF Commit
  <2>. QED BY <2>5, <2>6, <2>7, <2>8 DEF Sale!Sell
<1>3. ASSUME NEW c \in Calls, Rollback(c) \/ (Commit(c) /\ ~ inserted[c])
      PROVE  Sale!Refuse(c)
  <2>1. UNCHANGED <<prodDef, misOrder>>
    BY <1>3 DEF Rollback, RollbackTx, Commit, CommitTx, Go, SaleInv, TxShape
  <2>2. result[c] = "none"
    BY <1>3 DEF Answered, Rollback, Commit, Go, SaleInv, TypeInv, TypeOK
  <2>3. \E a \in {"zero", "error"} : result' = [result EXCEPT ![c] = a]
    BY <1>3 DEF Rollback, Commit
  <2>. QED BY <2>1, <2>2, <2>3 DEF Sale!Refuse
<1>4. ASSUME UNCHANGED <<prodDef, misOrder, result>>
      PROVE  UNCHANGED Sale!vars
  BY <1>4 DEF Sale!vars
<1>5. ASSUME NEW c \in Calls, Step(c) \/ Fault(c)
      PROVE  UNCHANGED <<prodDef, misOrder, result>> \/ Commit(c) \/ Rollback(c)
  BY <1>5 DEF Step, InsertMisOrder, InsertMisOrder2, Select, Decrement, Miss, InsertOrder,
              Stamp, Lock, Select2, InsertOrder2, Decrement2, Unlock, Fault,
              SelectByPrimaryKey, UpdateRow, UpdateNoRow, InsertOrderRow, tables
<1>6. ASSUME Clock \/ UNCHANGED vars
      PROVE  UNCHANGED <<prodDef, misOrder, result>>
  BY <1>6 DEF Clock, vars, tables, control
<1>. QED BY <1>1, <1>2, <1>3, <1>4, <1>5, <1>6 DEF Next, Sale!Next

\* insertMisOrder implements the atomic sale: to its callers a sale takes a
\* unit and records the order in one step, whatever runs beside it.
THEOREM ImplementsSale == ASSUME Optimistic PROVE Spec => SaleSpec
<1>1. Init => RefineInv /\ Sale!Init
  BY SaleInit DEF RefineInv, Answered, Init, TablesInit, Sale!Init
<1>2. RefineInv /\ [Next]_vars => RefineInv'
  <2>1. RefineInv /\ [Next]_vars => SaleInv'
    BY SaleStep DEF RefineInv
  <2>2. RefineInv /\ [Next]_vars => Answered'
    BY AnsweredStep DEF RefineInv, SaleInv
  <2>. QED BY <2>1, <2>2 DEF RefineInv
<1>3. RefineInv /\ [Next]_vars => [Sale!Next]_Sale!vars
  BY RefineStep
<1>. QED BY <1>1, <1>2, <1>3, PTL DEF Spec, SaleSpec, Sale!Spec
=============================================================================
