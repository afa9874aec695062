-------------------------- MODULE OrderLocksProofs --------------------------
(***************************************************************************)
(* What the two locks of the order service guarantee with any mix of its   *)
(* two methods: the database's row lock, held from an update to the end of *)
(* its transaction, and the lock in Redis of insertMisOrder2.              *)
(***************************************************************************)
EXTENDS OrderServiceProofs

(***************************************************************************)
(* A transaction with an uncommitted product row holds the row's lock, so  *)
(* no two have one of the same product.                                    *)
(***************************************************************************)
Locked == \A c \in Calls : written[c] # Null => rowLock[ProdOf[c]] = c

LEMMA LockedStep == TypeInv /\ Locked /\ [Next]_vars => Locked'
<1>. SUFFICES ASSUME TypeOK, Locked, [Next]_vars
              PROVE  Locked'
  BY DEF TypeInv
<1>. USE ProdOfAssumption, NullAssumption
     DEF ProdOfAssumption, NullAssumption, Locked, TypeOK, TablesTypeOK
<1>1. ASSUME NEW c \in Calls, NEW n, NEW v, UpdateRow(c, n, v)
      PROVE  Locked'
  BY <1>1 DEF UpdateRow, Lockable
<1>2. ASSUME NEW c \in Calls, Miss(c)
      PROVE  Locked'
  BY <1>2 DEF Miss, UpdateNoRow, Lockable
<1>3. ASSUME NEW c \in Calls, EndTx(c)
      PROVE  Locked'
  BY <1>3 DEF EndTx
<1>4. ASSUME UNCHANGED <<rowLock, written>>
      PROVE  Locked'
  BY <1>4
<1>5. ASSUME NEW c \in Calls, Step(c)
      PROVE  Locked'
  BY <1>1, <1>2, <1>3, <1>4, <1>5
     DEF Step, InsertMisOrder, InsertMisOrder2, Select, Decrement, InsertOrder, Stamp, Lock,
         Select2, InsertOrder2, Decrement2, Unlock, Commit, Rollback, CommitTx, RollbackTx,
         SelectByPrimaryKey, InsertOrderRow, tables
<1>. QED
  BY <1>4, <1>5 DEF Next, InsertMisProdDef, InsertProd, Fault, Clock, vars, tables

-----------------------------------------------------------------------------
(***************************************************************************)
(* The version.  The row that a transaction has written is the committed   *)
(* one with a new stock and, from insertMisOrder, the next version; it     *)
(* stays the next one until the commit because the row lock keeps every    *)
(* other writer of the product out.                                        *)
(***************************************************************************)
SalesOf(p) == OrdersOf(p) \ LockCalls
\* What a sale by the call adds to the version.
Counted(c) == IF c \in LockCalls THEN 0 ELSE 1

SeenHasVersion == \A c \in Calls : seen[c] # Null => seen[c].version \in Nat
WrittenIsNext ==
    \A c \in Calls : written[c] # Null =>
        /\ prodDef[ProdOf[c]] # Null
        /\ written[c].version = prodDef[ProdOf[c]].version + Counted(c)
VersionsMatch ==
    \A p \in Prods : IF prodDef[p] = Null
                     THEN SalesOf(p) = {}
                     ELSE prodDef[p].version = DefaultVersion + Cardinality(SalesOf(p))

VersionInv == TypeInv /\ TxShape /\ Locked /\ SeenHasVersion /\ WrittenIsNext /\ VersionsMatch

LEMMA SalesType ==
    ASSUME TypeOK, NEW p
    PROVE  IsFiniteSet(SalesOf(p)) /\ Cardinality(SalesOf(p)) \in Nat
BY CountType, FS_Subset, FS_CardinalityType DEF SalesOf

LEMMA SalesCommit ==
    ASSUME TypeOK, TxShape, NEW c \in Calls, Commit(c), NEW p
    PROVE  Cardinality(SalesOf(p))' = IF inserted[c] /\ ProdOf[c] = p
                                      THEN Cardinality(SalesOf(p)) + Counted(c)
                                      ELSE Cardinality(SalesOf(p))
<1>1. c \notin misOrder
  BY DEF TxShape, Commit, Go
<1>2. CASE inserted[c] /\ ProdOf[c] = p /\ c \notin LockCalls
  <2>1. SalesOf(p)' = SalesOf(p) \cup {c} /\ c \notin SalesOf(p)
    BY <1>1, <1>2 DEF SalesOf, OrdersOf, Commit, CommitTx
  <2>. QED BY <1>2, <2>1, SalesType, FS_AddElement DEF Counted
<1>3. CASE ~ (inserted[c] /\ ProdOf[c] = p /\ c \notin LockCalls)
  <2>1. SalesOf(p)' = SalesOf(p)
    BY <1>3 DEF SalesOf, OrdersOf, Commit, CommitTx
  <2>. QED BY <1>3, <2>1, SalesType DEF Counted
<1>. QED BY <1>2, <1>3

LEMMA VersionInit == Init => VersionInv
<1>1. Init => \A p : SalesOf(p) = {}
  BY DEF Init, TablesInit, SalesOf, OrdersOf
<1>. QED
  BY <1>1, TypeInit, TxShapeInit
     DEF VersionInv, Init, TablesInit, Locked, SeenHasVersion, WrittenIsNext, VersionsMatch

LEMMA VersionQuiet ==
    ASSUME DefaultVersion \in Nat, VersionInv, Quiet
    PROVE  (SeenHasVersion /\ WrittenIsNext /\ VersionsMatch)'
<1>. USE DEF VersionInv
<1>0. \A p \in Prods : prodDef[p] # Null => prodDef[p].version \in Nat
  BY SalesType DEF TypeInv, VersionsMatch
<1>1. VersionsMatch'
  BY DEF Quiet, VersionsMatch, SalesOf, OrdersOf
<1>2. SeenHasVersion'
  <2>. SUFFICES ASSUME NEW c \in Calls, seen'[c] # Null, seen'[c] # seen[c]
                PROVE  seen'[c].version \in Nat
    BY DEF Quiet, SeenHasVersion
  <2>. QED
    BY <1>0, ProdOfAssumption DEF ProdOfAssumption, Quiet, SeenStep, Visible
<1>3. WrittenIsNext'
  <2>. SUFFICES ASSUME NEW c \in Calls, HoldsRow(c),
                       UpdateRow(c, seen[c].inStock - 1, BeanVersion(c))
                PROVE  /\ prodDef[ProdOf[c]] # Null
                       /\ written'[c].version = prodDef[ProdOf[c]].version + Counted(c)
    BY DEF Quiet, WriteStep, WrittenIsNext
  <2>1. /\ prodDef[ProdOf[c]] # Null /\ prodDef[ProdOf[c]] \in Row
        /\ prodDef[ProdOf[c]].version \in Nat
    BY <1>0, ProdOfAssumption
       DEF ProdOfAssumption, UpdateRow, Matches, TypeInv, TypeOK, TablesTypeOK
  <2>2. BeanVersion(c) = Null <=> c \in LockCalls
    BY NullAssumption
       DEF NullAssumption, BeanVersion, TypeInv, ReadStock, SeenHasVersion
  <2>3. written'[c].version = IF BeanVersion(c) = Null THEN prodDef[ProdOf[c]].version
                                                       ELSE prodDef[ProdOf[c]].version + 1
    BY <2>1 DEF UpdateRow, TypeInv, TypeOK, TablesTypeOK, Row
  <2>. QED BY <2>1, <2>2, <2>3 DEF Counted
<1>. QED BY <1>1, <1>2, <1>3

LEMMA VersionCreate ==
    ASSUME DefaultVersion \in Nat, VersionInv, NEW p \in Prods, InsertMisProdDef(p)
    PROVE  (SeenHasVersion /\ WrittenIsNext /\ VersionsMatch)'
<1>. USE DEF VersionInv
<1>1. PICK n \in Nat : prodDef' = [prodDef EXCEPT ![p] = [inStock |-> n, total |-> n,
                                                          version |-> DefaultVersion]]
  BY StocksAssumption DEF StocksAssumption, InsertMisProdDef, InsertProd
<1>2. /\ \A q : SalesOf(q)' = SalesOf(q)
      /\ prodDef[p] = Null /\ seen' = seen /\ written' = written
  BY DEF InsertMisProdDef, InsertProd, SalesOf, OrdersOf
<1>3. /\ prodDef'[p].version = DefaultVersion
      /\ \A q \in Prods \ {p} : prodDef'[q] = prodDef[q]
  BY <1>1 DEF TypeInv, TypeOK, TablesTypeOK
<1>4. VersionsMatch'
  <2>1. SalesOf(p) = {}
    BY <1>2 DEF VersionsMatch
  <2>. QED BY <1>2, <1>3, <2>1, FS_EmptySet DEF VersionsMatch
<1>5. \A d \in Calls : written[d] # Null => ProdOf[d] \in Prods \ {p}
  BY <1>2, ProdOfAssumption DEF ProdOfAssumption, WrittenIsNext
<1>. QED BY <1>2, <1>3, <1>4, <1>5 DEF SeenHasVersion, WrittenIsNext

LEMMA VersionCommit ==
    ASSUME DefaultVersion \in Nat, VersionInv, NEW c \in Calls, Commit(c)
    PROVE  (SeenHasVersion /\ WrittenIsNext /\ VersionsMatch)'
<1>. USE DEF VersionInv
<1>. DEFINE q == ProdOf[c]
<1>0. q \in Prods
  BY ProdOfAssumption DEF ProdOfAssumption
<1>1. inserted[c] <=> written[c] # Null
  BY DEF TxShape, Commit, Go
<1>2. \A p : /\ Cardinality(SalesOf(p)) \in Nat
             /\ Cardinality(SalesOf(p))' = IF inserted[c] /\ q = p
                                           THEN Cardinality(SalesOf(p)) + Counted(c)
                                           ELSE Cardinality(SalesOf(p))
  BY SalesType, SalesCommit DEF TypeInv
<1>3. \A p \in Prods : prodDef'[p] = IF inserted[c] /\ q = p THEN written[c] ELSE prodDef[p]
  BY <1>0, <1>1 DEF Commit, CommitTx, TypeInv, TypeOK, TablesTypeOK
<1>4. \A d \in Calls : /\ seen'[d] \in {seen[d], Null}
                       /\ written'[d] \in {written[d], Null}
                       /\ d = c => written'[d] = Null
  BY DEF Commit, CommitTx, EndTx, TypeInv, TypeOK, TablesTypeOK
<1>5. VersionsMatch'
  <2>1. ASSUME NEW p \in Prods, inserted[c] /\ q = p
        PROVE  /\ prodDef'[p] # Null
               /\ prodDef'[p].version = DefaultVersion + Cardinality(SalesOf(p))'
    BY <1>1, <1>2, <1>3, <2>1 DEF WrittenIsNext, VersionsMatch, Counted
  <2>2. ASSUME NEW p \in Prods, ~ (inserted[c] /\ q = p)
        PROVE  SalesOf(p)' = SalesOf(p) /\ prodDef'[p] = prodDef[p]
    BY <1>3, <2>2 DEF SalesOf, OrdersOf, Commit, CommitTx
  <2>. QED BY <2>1, <2>2 DEF VersionsMatch
<1>6. WrittenIsNext'
  <2>. SUFFICES ASSUME NEW d \in Calls, written'[d] # Null
                PROVE  prodDef'[ProdOf[d]] = prodDef[ProdOf[d]] /\ written'[d] = written[d]
    BY DEF WrittenIsNext
  <2>1. ProdOf[d] \in Prods /\ written'[d] = written[d] /\ d # c
    BY <1>4, ProdOfAssumption DEF ProdOfAssumption
  <2>2. ~ (inserted[c] /\ q = ProdOf[d])
    BY <1>1, <2>1 DEF Locked
  <2>. QED BY <1>3, <2>1, <2>2
<1>. QED BY <1>4, <1>5, <1>6 DEF SeenHasVersion

LEMMA VersionStep ==
    ASSUME DefaultVersion \in Nat
    PROVE  VersionInv /\ [Next]_vars => VersionInv'
<1>. SUFFICES ASSUME VersionInv, [Next]_vars
              PROVE  VersionInv'
  OBVIOUS
<1>1. (TypeInv /\ TxShape /\ Locked)'
  BY TypeStep, TxShapeStep, LockedStep DEF VersionInv
<1>2. (SeenHasVersion /\ WrittenIsNext /\ VersionsMatch)'
  BY VersionQuiet, VersionCreate, VersionCommit, StepKinds DEF VersionInv, TypeInv
<1>. QED BY <1>1, <1>2 DEF VersionInv

\* Where the version column is not null, a product's version is the number of
\* its sales by insertMisOrder, although insertMisOrder2 writes the same row
\* in between without looking at the version.
THEOREM VersionIsCount ==
    ASSUME DefaultVersion \in Nat
    PROVE  Spec => []VersionCountsSales
<1>1. VersionInv => VersionCountsSales
  BY DEF VersionInv, VersionsMatch, VersionCountsSales, Existing, SalesOf
<1>. QED BY <1>1, VersionInit, VersionStep, PTL DEF Spec

-----------------------------------------------------------------------------
(***************************************************************************)
(* The Redis lock.  A call in the section whose stamp has not lapsed is    *)
(* the one the key names, for nobody else was granted the key since; and   *)
(* an unlock with an equal stamp of another call comes only after both     *)
(* stamps have lapsed, because that call had the key after this one.       *)
(***************************************************************************)
HasStamp(c) == InSection(c) \/ (c \in LockCalls /\ pc[c] = "lock")
Stamped == \A c \in Calls : HasStamp(c) => stamp[c] > 0
KeyNamesFresh ==
    \A c \in Calls : InSection(c) => redis[ProdOf[c]] = stamp[c] \/ stamp[c] < now

SectionInv == TypeInv /\ Stamped /\ KeyNamesFresh /\ ExclusiveWhileFresh

\* All the other steps: nobody comes into the section and no key changes.
SectionsShrink ==
    /\ UNCHANGED <<redis, stamp>> /\ now' >= now
    /\ \A c \in Calls : /\ InSection(c)' => InSection(c)
                        /\ HasStamp(c)' => HasStamp(c)

LEMMA SectionSteps ==
    ASSUME TypeOK, [Next]_vars
    PROVE  \/ \E c \in LockCalls : Stamp(c) \/ Lock(c) \/ Unlock(c)
           \/ SectionsShrink
<1>. USE DEF SectionsShrink, InSection, HasStamp, Go, lockVars, control
<1>1. now \in Int /\ pc \in [Calls -> Labels]
  BY DEF TypeOK, LockTypeOK
<1>2. ASSUME NEW c \in Calls, c \notin LockCalls, InsertMisOrder(c)
      PROVE  SectionsShrink
  BY <1>1, <1>2 DEF InsertMisOrder, Select, Decrement, Miss, InsertOrder
<1>3. ASSUME NEW c \in Calls, Select2(c) \/ InsertOrder2(c) \/ Decrement2(c)
      PROVE  SectionsShrink
  BY <1>1, <1>3 DEF Select2, InsertOrder2, Decrement2
<1>4. ASSUME NEW c \in Calls, Commit(c) \/ Rollback(c) \/ Fault(c)
      PROVE  SectionsShrink
  BY <1>1, <1>4 DEF Commit, Rollback, Fault
<1>5. ASSUME NEW p \in Prods, InsertMisProdDef(p)
      PROVE  SectionsShrink
  BY <1>1, <1>5 DEF InsertMisProdDef
<1>6. CASE Clock \/ UNCHANGED vars
  BY <1>1, <1>6 DEF Clock, Tick, vars
<1>. QED
  BY <1>2, <1>3, <1>4, <1>5, <1>6 DEF Next, Step, InsertMisOrder2

LEMMA SectionInit == Init => SectionInv
BY TypeInit
   DEF Init, SectionInv, Stamped, HasStamp, KeyNamesFresh, ExclusiveWhileFresh, InSection

LEMMA SectionStep == SectionInv /\ [Next]_vars => SectionInv'
<1>. SUFFICES ASSUME SectionInv, [Next]_vars
              PROVE  (Stamped /\ KeyNamesFresh /\ ExclusiveWhileFresh)'
  BY TypeStep DEF SectionInv
<1>. USE ProdOfAssumption, KeysAssumption, LockTtlAssumption
     DEF ProdOfAssumption, KeysAssumption, LockTtlAssumption,
         SectionInv, TypeInv, Stamped, KeyNamesFresh, ExclusiveWhileFresh
<1>1. /\ redis \in [Prods -> Nat] /\ now \in Nat /\ stamp \in [Calls -> Nat]
      /\ pc \in [Calls -> Labels] /\ LockCalls \subseteq Calls
  BY LockCallsAssumption DEF TypeOK, LockTypeOK, LockCallsAssumption
<1>2. now' \in Nat
  BY TypeStep DEF TypeOK, LockTypeOK
<1>3. ASSUME NEW c \in LockCalls, Stamp(c)
      PROVE  (Stamped /\ KeyNamesFresh /\ ExclusiveWhileFresh)'
  BY <1>1, <1>3 DEF Stamp, Go, InSection, HasStamp, lockVars
<1>4. ASSUME NEW c \in LockCalls, Lock(c)
      PROVE  (Stamped /\ KeyNamesFresh /\ ExclusiveWhileFresh)'
  <2>1. CASE Refuse(ProdOf[c]) /\ Go(c, "lock", "commit")
    BY <1>1, <1>4, <2>1 DEF Lock, Refuse, Go, InSection, HasStamp
  <2>2. CASE Grant(ProdOf[c], stamp[c]) /\ Go(c, "lock", "select")
    <3>1. /\ UNCHANGED <<now, stamp>> /\ pc[c] = "lock"
          /\ redis' = [redis EXCEPT ![ProdOf[c]] = stamp[c]]
          /\ \A d \in Calls \ {c} : UNCHANGED <<InSection(d), HasStamp(d)>>
      BY <1>1, <1>4, <2>2 DEF Lock, Grant, Go, InSection, HasStamp
    <3>2. \A d \in Calls : InSection(d) => HasStamp(d)
      BY DEF HasStamp
    <3>3. ASSUME NEW d \in Calls \ {c}, InSection(d), ProdOf[d] = ProdOf[c]
          PROVE  stamp[d] < now
      BY <1>1, <2>2, <3>2, <3>3 DEF Grant, Grantable, Free
    <3>4. Stamped'
      BY <1>1, <3>1 DEF HasStamp
    <3>5. KeyNamesFresh'
      BY <1>1, <3>1, <3>3
    <3>6. ExclusiveWhileFresh'
      BY <1>1, <3>1, <3>3
    <3>. QED BY <3>4, <3>5, <3>6
  <2>. QED BY <1>4, <2>1, <2>2 DEF Lock
<1>5. ASSUME NEW c \in LockCalls, Unlock(c)
      PROVE  (Stamped /\ KeyNamesFresh /\ ExclusiveWhileFresh)'
  <2>1. /\ UNCHANGED <<now, stamp>> /\ InSection(c) /\ Release(ProdOf[c], stamp[c])
        /\ ~ InSection(c)'
        /\ \A d \in Calls \ {c} : UNCHANGED <<InSection(d), HasStamp(d)>>
    BY <1>1, <1>5 DEF Unlock, Release, Go, InSection, HasStamp
  <2>2. \A d \in Calls : InSection(d) => HasStamp(d)
    BY DEF HasStamp
  <2>3. ASSUME NEW d \in Calls \ {c}, InSection(d), ~ stamp[d] < now
        PROVE  redis'[ProdOf[d]] = redis[ProdOf[d]]
    <3>1. CASE ProdOf[d] = ProdOf[c]
      BY <1>1, <2>1, <2>3, <3>1 DEF Release
    <3>2. CASE ProdOf[d] # ProdOf[c]
      BY <1>1, <2>1, <3>2 DEF Release
    <3>. QED BY <3>1, <3>2
  <2>4. ~ HasStamp(c)'
    BY <1>1, <1>5 DEF Unlock, Go, InSection, HasStamp
  <2>. QED BY <1>1, <2>1, <2>2, <2>3, <2>4
<1>6. CASE SectionsShrink
  BY <1>1, <1>2, <1>6 DEF SectionsShrink
<1>. QED BY <1>3, <1>4, <1>5, <1>6, SectionSteps

\* Two calls of insertMisOrder2 are between lock and unlock for one product
\* only when the lock of one of them has lapsed, whatever the clock does
\* between their steps and although an unlock tells locks apart by their
\* stamps only, which two calls may share.
THEOREM SectionsAreExclusive == Spec => []ExclusiveWhileFresh
<1>1. SectionInv => ExclusiveWhileFresh
  BY DEF SectionInv
<1>. QED BY <1>1, SectionInit, SectionStep, PTL DEF Spec

=============================================================================
