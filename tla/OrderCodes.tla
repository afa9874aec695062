----------------------------- MODULE OrderCodes -----------------------------
(***************************************************************************)
(* The order codes of OrderService.genOrderCode: a time stamp, the product *)
(* and a counter that each JVM keeps in memory, starting again at 100 with *)
(* the JVM.  The stamp is left out: the SimpleDateFormat behind it is      *)
(* shared by all threads, so that two calls may well get the same text,    *)
(* and only the counter keeps codes apart.                                 *)
(***************************************************************************)
EXTENDS OrderService

CONSTANTS
    Jvms,        \* instances of the service
    Host,        \* the instance each call runs on
    MaxRestarts  \* bound: restarts of each

ASSUME HostAssumption == Host \in [Calls -> Jvms]
ASSUME CodesAssumption == Null \notin [life : Nat, index : Nat] \* it is no code

VARIABLES
    counter,  \* atomicInteger
    life,     \* restarts so far
    code      \* the code each call generated, or Null

codeVars == <<counter, life, code>>
codedVars == <<vars, codeVars>>

CodesInit ==
    /\ Init
    /\ counter = [j \in Jvms |-> 100]
    /\ life = [j \in Jvms |-> 0]
    /\ code = [c \in Calls |-> Null]

\* Variant: the code is generated before the row is updated.
BeforeUpdate(c) == pc[c] = "update" /\ code[c] = Null
Coding(c) == pc[c] = "insert" /\ code[c] = Null

genOrderCode(c) ==
    LET j == Host[c] IN
    /\ Coding(c)
    /\ counter' = [counter EXCEPT ![j] = @ + 1]
    /\ code' = [code EXCEPT ![c] = [life |-> life[j], index |-> counter'[j]]]
    /\ UNCHANGED <<vars, life>>

\* The calls under way end with their JVM, and the database rolls them back;
\* those still at their first step arrive later.
UnderWay(c) ==
    /\ pc[c] # "returned"
    /\ pc[c] # (IF c \in LockCalls THEN "stamp" ELSE "select") \/ tries[c] > 0

Restart(j) ==
    /\ life[j] < MaxRestarts
    /\ life' = [life EXCEPT ![j] = @ + 1]
    /\ counter' = [counter EXCEPT ![j] = 100]
    /\ pc' = [c \in Calls |->
                IF Host[c] = j /\ UnderWay(c) THEN "throw" ELSE pc[c]]
    /\ UNCHANGED <<tables, lockVars, tries, stamp, result, code>>

\* A row is inserted with the code generated for it.
CodesNext ==
    \/ \E c \in Calls : genOrderCode(c)
    \/ \E j \in Jvms : Restart(j)
    \/ /\ Next
       /\ \A c \in Calls : inserted'[c] => code[c] # Null
       /\ UNCHANGED codeVars

CodesSpec == CodesInit /\ [][CodesNext]_codedVars

(***************************************************************************)
(* The orders that insertMisOrder makes for a product have codes that      *)
(* count up in the order in which they were committed, while one JVM       *)
(* lives: the row lock, which genOrderCode relies on without knowing it,   *)
(* is held from the update of the stock to the commit.  So no two of them  *)
(* share a code, whatever the time stamps are.                             *)
(***************************************************************************)
Follows(c, d) ==
    Host[c] = Host[d] /\ ProdOf[c] = ProdOf[d] /\ code[c].life = code[d].life
        => code[c].index > code[d].index
CodesInSaleOrder ==
    [][\A c \in misOrder' \ misOrder, d \in misOrder :
          {c, d} \cap LockCalls = {} => Follows(c, d)]_codedVars
=============================================================================
