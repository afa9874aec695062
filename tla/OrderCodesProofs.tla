-------------------------- MODULE OrderCodesProofs --------------------------
(***************************************************************************)
(* The order of the codes of genOrderCode, and what the restarts of JVMs   *)
(* do to stock and results, for every number of JVMs, calls and restarts.  *)
(***************************************************************************)
EXTENDS OrderCodes, OptimisticProofs

-----------------------------------------------------------------------------
(***************************************************************************)
(* The inductive invariant.                                                *)
(***************************************************************************)
\* A JVM's counter is past every code of the JVM's present life.
Code == [life : Nat, index : Nat]
CodesBehindCounter ==
    /\ counter \in [Jvms -> Nat] /\ life \in [Jvms -> Nat]
    /\ code \in [Calls -> Code \cup {Null}]
    /\ \A c \in Calls : code[c] # Null =>
          /\ code[c].life <= life[Host[c]]
          /\ code[c].life = life[Host[c]] => code[c].index <= counter[Host[c]]

\* Whatever has an order row, committed or not, has a code, and a call of
\* insertMisOrder that has yet to update the stock has none.
OrdersHaveCodes ==
    \A c \in Calls : c \in misOrder \/ inserted[c] => code[c] # Null
CodedLate ==
    \A c \in Calls \ LockCalls : pc[c] \in {"select", "update"} => code[c] = Null

\* The codes of open transactions follow those of the orders there are.
OpenFollows ==
    \A c, d \in Calls \ LockCalls :
        written[c] # Null /\ code[c] # Null /\ d \in misOrder => Follows(c, d)

CodesInv ==
    /\ TypeInv /\ TxShape /\ Locked
    /\ CodesBehindCounter /\ OrdersHaveCodes /\ CodedLate /\ OpenFollows

LEMMA CodesStart == CodesInit => CodesInv
BY TypeInit, TxShapeInit, HostAssumption
   DEF CodesInit, Init, TablesInit, CodesInv, Locked, CodesBehindCounter, OrdersHaveCodes,
       CodedLate, OpenFollows, HostAssumption

-----------------------------------------------------------------------------
(***************************************************************************)
(* A step of the service, which leaves the codes alone.                    *)
(***************************************************************************)
OrderStep ==
    /\ Next
    /\ \A c \in Calls : inserted'[c] => code[c] # Null
    /\ UNCHANGED codeVars

\* The loop of insertMisOrder does not come back from its insert.
LEMMA LoopStep ==
    ASSUME TypeOK, Next, NEW c \in Calls \ LockCalls, pc'[c] \in {"select", "update"}
    PROVE  pc[c] \in {"select", "update"}
<1>. USE DEF Go
<1>1. pc \in [Calls -> Labels]
  BY DEF TypeOK
<1>2. ASSUME NEW d \in Calls, d \notin LockCalls, InsertMisOrder(d)
      PROVE  pc[c] \in {"select", "update"}
  BY <1>1, <1>2 DEF InsertMisOrder, Select, Decrement, Miss, InsertOrder
<1>3. ASSUME NEW d \in Calls, d \in LockCalls, InsertMisOrder2(d)
      PROVE  pc[c] \in {"select", "update"}
  BY <1>1, <1>3
     DEF InsertMisOrder2, Stamp, Lock, Select2, InsertOrder2, Decrement2, Unlock
<1>4. ASSUME NEW d \in Calls, Commit(d) \/ Rollback(d) \/ Fault(d)
      PROVE  pc[c] \in {"select", "update"}
  BY <1>1, <1>4 DEF Commit, Rollback, Fault
<1>5. CASE UNCHANGED pc
  BY <1>5
<1>. QED
  BY <1>2, <1>3, <1>4, <1>5 DEF Next, Step, InsertMisProdDef, Clock, control

LEMMA OpenFollowsStep ==
    ASSUME CodesInv, OrderStep
    PROVE  OpenFollows'
<1>. USE DEF CodesInv
<1>. SUFFICES ASSUME NEW c \in Calls \ LockCalls, NEW d \in Calls \ LockCalls,
                     written'[c] # Null, code[c] # Null, d \in misOrder'
              PROVE  Follows(c, d)
  BY DEF OrderStep, codeVars, OpenFollows, Follows
<1>1. ASSUME NEW p \in Prods, InsertMisProdDef(p)
      PROVE  Follows(c, d)
  BY <1>1 DEF InsertMisProdDef, InsertProd, OpenFollows
<1>2. ASSUME NEW e \in Calls, Commit(e)
      PROVE  Follows(c, d)
  <2>1. written[c] # Null /\ written[c] = written'[c] /\ c # e
    BY <1>2 DEF Commit, CommitTx, EndTx, TypeInv, TypeOK, TablesTypeOK
  <2>2. CASE d \in misOrder
    BY <2>1, <2>2 DEF OpenFollows
  <2>3. CASE d \notin misOrder
    <3>1. d = e /\ written[d] # Null
      BY <1>2, <2>3 DEF Commit, CommitTx, Go, TxShape
    <3>2. ProdOf[c] # ProdOf[d]
      BY <2>1, <3>1 DEF Locked
    <3>. QED BY <3>2 DEF Follows
  <2>. QED BY <2>2, <2>3
<1>3. CASE Quiet
  <2>1. d \in misOrder
    BY <1>3 DEF Quiet
  <2>2. written[c] # Null
    BY <1>3 DEF Quiet, WriteStep, HoldsRow, CodedLate
  <2>. QED BY <2>1, <2>2 DEF OpenFollows
<1>. QED
  BY <1>1, <1>2, <1>3, StepKinds DEF OrderStep, TypeInv

LEMMA OrderStepInv ==
    ASSUME CodesInv, OrderStep
    PROVE  CodesInv'
<1>1. (TypeInv /\ TxShape /\ Locked)'
  BY TypeStep, TxShapeStep, LockedStep DEF CodesInv, OrderStep
<1>2. CodesBehindCounter'
  BY DEF CodesInv, CodesBehindCounter, OrderStep, codeVars
<1>3. OrdersHaveCodes'
  <2>. SUFFICES ASSUME NEW c \in Calls, c \in misOrder', c \notin misOrder
                PROVE  inserted[c]
    BY DEF CodesInv, OrdersHaveCodes, OrderStep, codeVars
  <2>1. UNCHANGED misOrder \/ \E d \in Calls : Commit(d)
    BY StepKinds DEF CodesInv, TypeInv, OrderStep, InsertMisProdDef, InsertProd, Quiet
  <2>. QED BY <2>1 DEF Commit, CommitTx
<1>4. CodedLate'
  BY LoopStep DEF CodesInv, TypeInv, CodedLate, OrderStep, codeVars
<1>. QED BY <1>1, <1>2, <1>3, <1>4, OpenFollowsStep DEF CodesInv

-----------------------------------------------------------------------------
(***************************************************************************)
(* A new code and a restart.                                               *)
(***************************************************************************)
LEMMA GenInv ==
    ASSUME CodesInv, NEW c \in Calls, genOrderCode(c)
    PROVE  CodesInv'
<1>. USE HostAssumption, CodesAssumption DEF HostAssumption, CodesAssumption
<1>. DEFINE j == Host[c]
<1>1. (TypeInv /\ TxShape /\ Locked)'
  BY TypeStep, TxShapeStep, LockedStep DEF CodesInv, genOrderCode
<1>2. /\ counter \in [Jvms -> Nat] /\ life \in [Jvms -> Nat]
      /\ code \in [Calls -> Code \cup {Null}] /\ j \in Jvms
  BY DEF CodesInv, CodesBehindCounter
<1>3. /\ code[c] = Null /\ pc[c] = "insert"
      /\ counter' = [counter EXCEPT ![j] = counter[j] + 1] /\ life' = life
      /\ code' = [code EXCEPT ![c] = [life |-> life[j], index |-> counter[j] + 1]]
      /\ UNCHANGED <<misOrder, inserted, written, pc>>
  BY <1>2 DEF genOrderCode, Coding, vars, tables, control
<1>4. /\ code'[c] \in Code /\ code'[c] # Null
      /\ code'[c].life = life[j] /\ code'[c].index = counter[j] + 1
      /\ \A d \in Calls \ {c} : code'[d] = code[d]
  BY <1>2, <1>3 DEF Code
<1>5. CodesBehindCounter'
  <2>1. counter' \in [Jvms -> Nat] /\ code' \in [Calls -> Code \cup {Null}]
    BY <1>2, <1>3, <1>4
  <2>2. \A i \in Jvms : counter[i] \in Nat /\ counter'[i] \in Nat /\ counter'[i] >= counter[i]
    BY <1>2, <1>3
  <2>3. ASSUME NEW d \in Calls, code'[d] # Null
        PROVE  /\ code'[d].life <= life[Host[d]]
               /\ code'[d].life = life[Host[d]] => code'[d].index <= counter'[Host[d]]
    <3>1. CASE d = c
      BY <1>2, <1>3, <1>4, <3>1
    <3>2. CASE d # c
      <4>1. code'[d] = code[d] /\ code[d] \in Code /\ Host[d] \in Jvms
        BY <1>2, <1>4, <2>3, <3>2
      <4>2. /\ code[d].life <= life[Host[d]]
            /\ code[d].life = life[Host[d]] => code[d].index <= counter[Host[d]]
        BY <2>3, <4>1 DEF CodesInv, CodesBehindCounter
      <4>. QED BY <2>2, <4>1, <4>2 DEF Code
    <3>. QED BY <3>1, <3>2
  <2>. QED BY <1>2, <1>3, <2>1, <2>3 DEF CodesBehindCounter
<1>6. OrdersHaveCodes'
  BY <1>3, <1>4 DEF CodesInv, OrdersHaveCodes
<1>7. CodedLate'
  BY <1>3, <1>4 DEF CodesInv, CodedLate
<1>8. OpenFollows'
  <2>. SUFFICES ASSUME NEW a \in Calls \ LockCalls, NEW d \in Calls \ LockCalls,
                       written[a] # Null, code'[a] # Null, d \in misOrder
                PROVE  Follows(a, d)'
    BY <1>3 DEF OpenFollows
  <2>1. d # c /\ code'[d] = code[d] /\ code[d] # Null
    BY <1>3, <1>4 DEF CodesInv, TxShape, OrdersHaveCodes
  <2>2. CASE a = c
    <3>1. code[d].life = life[Host[d]] => code[d].index <= counter[Host[d]]
      BY <2>1 DEF CodesInv, CodesBehindCounter
    <3>2. code[d] \in Code
      BY <1>2, <2>1
    <3>. QED BY <1>2, <1>4, <2>1, <2>2, <3>1, <3>2 DEF Follows, Code
  <2>3. CASE a # c
    BY <1>4, <2>1, <2>3 DEF CodesInv, OpenFollows, Follows
  <2>. QED BY <2>2, <2>3
<1>. QED BY <1>1, <1>5, <1>6, <1>7, <1>8 DEF CodesInv

LEMMA RestartInv ==
    ASSUME CodesInv, NEW j \in Jvms, Restart(j)
    PROVE  CodesInv'
<1>1. /\ UNCHANGED <<tables, lockVars, tries, stamp, result, code>>
      /\ \A c \in Calls : pc'[c] = pc[c] \/ (pc[c] # "returned" /\ pc'[c] = "throw")
      /\ pc' \in [Calls -> Labels]
  BY DEF Restart, UnderWay, CodesInv, TypeInv, TypeOK, Labels
<1>. USE <1>1 DEF CodesInv, tables, lockVars
<1>2. TypeInv'
  BY DEF TypeInv, TypeOK, TablesTypeOK, LockTypeOK, ReadStock, HoldsRow, TurnsLeft
<1>3. TxShape'
  BY DEF TxShape, WroteAt, OrderedAt
<1>4. Locked'
  BY DEF Locked
<1>5. CodesBehindCounter'
  BY HostAssumption DEF HostAssumption, Restart, CodesBehindCounter, Code
<1>6. (OrdersHaveCodes /\ CodedLate /\ OpenFollows)'
  BY DEF OrdersHaveCodes, CodedLate, OpenFollows, Follows
<1>. QED BY <1>2, <1>3, <1>4, <1>5, <1>6

LEMMA CodesStep == CodesInv /\ [CodesNext]_codedVars => CodesInv'
<1>. SUFFICES ASSUME CodesInv, [CodesNext]_codedVars
              PROVE  CodesInv'
  OBVIOUS
<1>1. CASE UNCHANGED codedVars
  <2>1. (TypeInv /\ TxShape /\ Locked)'
    BY <1>1, TypeStep, TxShapeStep, LockedStep DEF codedVars, CodesInv
  <2>2. UNCHANGED <<counter, life, code, pc, misOrder, inserted, written>>
    BY <1>1 DEF codedVars, codeVars, vars, tables, control
  <2>. QED
    BY <2>1, <2>2
       DEF CodesInv, CodesBehindCounter, OrdersHaveCodes, CodedLate, OpenFollows, Follows
<1>. QED
  BY <1>1, GenInv, RestartInv, OrderStepInv DEF CodesNext, OrderStep

-----------------------------------------------------------------------------
\* The orders that insertMisOrder makes for a product on one JVM between two
\* restarts have codes that count up in the order of their commits: the code
\* is drawn under the row lock, so nobody can be overtaken between drawing it
\* and committing it.
THEOREM CodesFollowSales == CodesSpec => CodesInSaleOrder
<1>1. ASSUME CodesInv, CodesNext, NEW c \in misOrder' \ misOrder, NEW d \in misOrder,
             {c, d} \cap LockCalls = {}
      PROVE  Follows(c, d)
  <2>1. OrderStep
    BY <1>1 DEF CodesNext, OrderStep, genOrderCode, Restart, vars, tables
  <2>2. Commit(c) /\ c \in Calls /\ inserted[c]
    <3>1. UNCHANGED misOrder \/ \E e \in Calls : Commit(e)
      BY <1>1, <2>1, StepKinds
         DEF CodesInv, TypeInv, OrderStep, InsertMisProdDef, InsertProd, Quiet
    <3>. QED BY <1>1, <3>1 DEF Commit, CommitTx
  <2>3. written[c] # Null /\ code[c] # Null
    BY <1>1, <2>2 DEF CodesInv, TxShape, Commit, Go, OrdersHaveCodes
  <2>4. c \in Calls \ LockCalls /\ d \in Calls \ LockCalls
    BY <1>1, <2>2 DEF CodesInv, TypeInv, TypeOK, TablesTypeOK
  <2>. QED BY <1>1, <2>3, <2>4 DEF CodesInv, OpenFollows
<1>2. CodesInv /\ [CodesNext]_codedVars =>
        [\A c \in misOrder' \ misOrder, d \in misOrder :
            {c, d} \cap LockCalls = {} => Follows(c, d)]_codedVars
  BY <1>1
<1>. QED
  BY CodesStart, CodesStep, <1>2, PTL DEF CodesSpec, CodesInSaleOrder

-----------------------------------------------------------------------------
(***************************************************************************)
(* A restart ends many calls at once, wherever they are.  The invariants   *)
(* behind the theorems about the tables and the results do not mind.       *)
(***************************************************************************)
\* What a step of CodesNext is to the variables of the service.
RestartMoves ==
    /\ UNCHANGED <<tables, lockVars, tries, stamp, result>>
    /\ \A c \in Calls : pc'[c] = pc[c] \/ (pc[c] # "returned" /\ pc'[c] = "throw")
    /\ pc' \in [Calls -> Labels]

LEMMA ServiceSteps ==
    ASSUME TypeOK, [CodesNext]_codedVars
    PROVE  [Next]_vars \/ RestartMoves
<1>1. ASSUME NEW j \in Jvms, Restart(j)
      PROVE  RestartMoves
  BY <1>1 DEF Restart, RestartMoves, UnderWay, TypeOK, Labels
<1>. QED BY <1>1 DEF CodesNext, genOrderCode, codedVars

ServiceInv == AccountInv /\ Answered /\ ResultTellsOrder

LEMMA ServiceStart == CodesInit => ServiceInv
BY AccountInit
   DEF CodesInit, ServiceInv, Init, TablesInit, Answered, ResultTellsOrder

LEMMA ServiceStep == ServiceInv /\ [CodesNext]_codedVars => ServiceInv'
<1>. SUFFICES ASSUME ServiceInv, [CodesNext]_codedVars
              PROVE  ServiceInv'
  OBVIOUS
<1>1. CASE [Next]_vars
  BY <1>1, AccountStep, AnsweredStep, ResultStep DEF ServiceInv, AccountInv, ResultInv
<1>2. CASE RestartMoves
  <2>. USE <1>2 DEF RestartMoves, ServiceInv, AccountInv, tables, lockVars
  <2>1. TypeInv'
    BY DEF TypeInv, TypeOK, TablesTypeOK, LockTypeOK, ReadStock, HoldsRow, TurnsLeft
  <2>2. TxShape'
    BY DEF TxShape, WroteAt, OrderedAt
  <2>3. (SeenAccounted /\ WrittenAccounted /\ AccountedFor)'
    BY DEF SeenAccounted, WrittenAccounted, AccountedFor, Existing, Count, OrdersOf
  <2>4. (Answered /\ ResultTellsOrder)'
    BY DEF Answered, ResultTellsOrder
  <2>. QED BY <2>1, <2>2, <2>3, <2>4
<1>. QED BY <1>1, <1>2, ServiceSteps DEF ServiceInv, AccountInv, TypeInv

LEMMA TurnCodesStep ==
    ASSUME Optimistic
    PROVE  TurnInv /\ [CodesNext]_codedVars => TurnInv'
<1>. SUFFICES ASSUME TurnInv, [CodesNext]_codedVars
              PROVE  TurnInv'
  OBVIOUS
<1>1. CASE [Next]_vars
  BY <1>1, TurnStep
<1>2. CASE RestartMoves
  <2>. USE <1>2 DEF RestartMoves, TurnInv, SaleInv, tables, lockVars
  <2>1. TypeInv'
    BY DEF TypeInv, TypeOK, TablesTypeOK, LockTypeOK, ReadStock, HoldsRow, TurnsLeft
  <2>2. TxShape'
    BY DEF TxShape, WroteAt, OrderedAt
  <2>3. (Locked /\ SeenIsPast /\ WrittenIsSale /\ Balanced)'
    BY DEF Locked, SeenIsPast, WrittenIsSale, Balanced, Count, OrdersOf
  <2>4. Turns'
    BY DEF Turns, Count, OrdersOf
  <2>5. Refusals'
    BY DEF Refusals, Justified, Count, OrdersOf, Beaten
  <2>. QED BY <2>1, <2>2, <2>3, <2>4, <2>5
<1>. QED BY <1>1, <1>2, ServiceSteps DEF TurnInv, SaleInv, TypeInv

\* A JVM that dies between any two steps of its calls takes no unit of stock
\* with it that has no order, and makes no answer false.
THEOREM RestartsLoseNothing == CodesSpec => [](AccountedFor /\ ResultTellsOrder)
<1>1. ServiceInv => AccountedFor /\ ResultTellsOrder
  BY DEF ServiceInv, AccountInv
<1>. QED BY <1>1, ServiceStart, ServiceStep, PTL DEF CodesSpec

\* The retries still suffice, and the stock is still exact, when JVMs restart.
THEOREM RetriesSufficeOverRestarts ==
    ASSUME Optimistic, Isolation = "RC", Cardinality(Calls) <= MaxTries
    PROVE  CodesSpec => [](RefusedOnlyWhenSoldOut /\ Conservation)
<1>1. CodesInit => TurnInv
  BY TurnInit DEF CodesInit
<1>2. TurnInv => RefusalIsJustified /\ TypeOK /\ Conservation
  BY DEF TurnInv, SaleInv, TypeInv, Refusals, RefusalIsJustified, Justified, Count,
         Balanced, Conservation, Existing
<1>3. ServiceInv => ResultTellsOrder
  BY DEF ServiceInv
<1>. QED
  BY <1>1, <1>2, <1>3, TurnCodesStep, ServiceStart, ServiceStep, TurnsLastLongEnough, PTL
     DEF CodesSpec

=============================================================================
