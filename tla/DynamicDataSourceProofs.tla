---------------------- MODULE DynamicDataSourceProofs ----------------------
(***************************************************************************)
(* Proofs about DynamicDataSource: rows are where their calls named, and   *)
(* threads come back to the pool as they were taken from it, for any       *)
(* number of threads and requests and for failures at any step.            *)
(***************************************************************************)
EXTENDS DynamicDataSource, TLAPS

\* Where a code is looked up there is one: the request has a call to make.
TypeInv ==
    /\ TypeOK
    /\ \A r \in Requests :
          /\ pc[r] = "arrive" => call[r] = 0
          /\ pc[r] \in {"lookup", "switch", "fill"} => call[r] < Len(CodesOf(r))

LEMMA CodesAreKnown ==
    ASSUME NEW r \in Requests
    PROVE  /\ Len(CodesOf(r)) \in 0..2
           /\ CodesOf(r) # <<>> => Len(CodesOf(r)) > 0
           /\ \A n \in 0..2 : n < Len(CodesOf(r)) => CodesOf(r)[n + 1] \in Codes
BY KindAssumption DEF CodesOf, Codes

LEMMA NextTypes == TypeInv /\ [Next]_vars => TypeInv'
<1> SUFFICES ASSUME TypeInv, [Next]_vars PROVE TypeInv'
  OBVIOUS
<1> USE DEF TypeInv, TypeOK, Labels, Go
<1>1. CASE UNCHANGED vars
  BY <1>1 DEF vars
<1>2. CASE Lapse
  BY <1>2 DEF Lapse
<1>3. ASSUME NEW t \in Threads, NEW r \in Requests, Arrive(t, r)
      PROVE  TypeInv'
  BY <1>3, CodesAreKnown DEF Arrive, First
<1>4. ASSUME NEW t \in Threads, NEW r \in Requests, Lookup(t, r)
      PROVE  TypeInv'
  BY <1>4 DEF Lookup
<1>5. ASSUME NEW t \in Threads, NEW r \in Requests, Switch(t, r)
      PROVE  TypeInv'
  BY <1>5 DEF Switch, Url
<1>6. ASSUME NEW t \in Threads, NEW r \in Requests, Fill(t, r)
      PROVE  TypeInv'
  <2>1. Code(r) \in Codes
    BY <1>6, CodesAreKnown DEF Fill, Code
  <2> QED BY <1>6, <2>1 DEF Fill
<1>7. ASSUME NEW t \in Threads, NEW r \in Requests, Begin(t, r)
      PROVE  TypeInv'
  BY <1>7 DEF Begin
<1>8. ASSUME NEW t \in Threads, NEW r \in Requests, Insert(t, r)
      PROVE  TypeInv'
  BY <1>8 DEF Insert
<1>9. ASSUME NEW t \in Threads, NEW r \in Requests, Commit(t, r)
      PROVE  TypeInv'
  BY <1>9 DEF Commit
<1>10. ASSUME NEW t \in Threads, NEW r \in Requests, Fault(t, r)
       PROVE  TypeInv'
  BY <1>10 DEF Fault
<1>11. ASSUME NEW t \in Threads, NEW r \in Requests, After(t, r)
       PROVE  TypeInv'
  <2>1. CASE HasNext(r)
    <3>1. call[r] + 1 < Len(CodesOf(r)) /\ call[r] + 1 \in 0..2
      BY <2>1, CodesAreKnown DEF HasNext
    <3> QED BY <1>11, <2>1, <3>1 DEF After
  <2>2. CASE ~HasNext(r)
    BY <1>11, <2>2 DEF After
  <2> QED BY <2>1, <2>2
<1> QED BY <1>1, <1>2, <1>3, <1>4, <1>5, <1>6, <1>7, <1>8, <1>9, <1>10, <1>11
        DEF Next, Serve

(***************************************************************************)
(* The variables keep their types: above all, doBefore puts only the       *)
(* information of the codes that calls name into Redis.                    *)
(***************************************************************************)
THEOREM TypeCorrect == Spec => []TypeOK
<1>1. Init => TypeInv
  BY DEF Init, TypeInv, TypeOK, Labels
<1>2. TypeInv => TypeOK
  BY DEF TypeInv
<1> QED BY <1>1, <1>2, NextTypes, PTL DEF Spec

Sources == {"spring", "mis-message", Default}

\* The functions have their domains; what TypeOK says of them beyond that
\* the invariant below says more exactly.
Domains ==
    /\ doing \in [Threads -> Requests \cup {Null}]
    /\ source \in [Threads -> Sources]
    /\ conn \in [Threads -> Sources \cup {Null}]
    /\ pc \in [Requests -> Labels]
    /\ call \in [Requests -> Nat]

\* A thread serves a request that has arrived and not ended, and no other
\* thread does.
Served ==
    /\ \A t \in Threads :
          doing[t] # Null => pc[doing[t]] \notin {"arrive", "ended"}
    /\ \A t, u \in Threads :
          doing[t] # Null /\ doing[t] = doing[u] => t = u

\* Only a request with a call to make reaches the switch.
Intercepted ==
    \A r \in Requests :
        pc[r] \in {"lookup", "switch", "fill"} => CodesOf(r) # <<>>

\* Between the switch and the end of the call the thread is where the call
\* named; else it is on the default data source.
OnSource ==
    \A t \in Threads :
        /\ doing[t] = Null => source[t] = Default
        /\ doing[t] # Null /\ CodesOf(doing[t]) = <<>> => source[t] = Default
        /\ doing[t] # Null /\ pc[doing[t]] \in {"lookup", "switch"} =>
              source[t] = Default
        /\ doing[t] # Null /\ CodesOf(doing[t]) # <<>>
              /\ pc[doing[t]] \in {"fill", "begin", "insert", "commit"} =>
              source[t] = Url(Code(doing[t]))

\* A transaction is open from its begin to its end, on the thread's source.
OnConn ==
    \A t \in Threads :
        conn[t] = IF doing[t] # Null /\ pc[doing[t]] \in {"insert", "commit"}
                  THEN source[t] ELSE Null

RoutingInv ==
    /\ Domains /\ Served /\ Intercepted /\ OnSource /\ OnConn
    /\ RowsWhereNamed

LEMMA InitRouting == Init => RoutingInv
<1> SUFFICES ASSUME Init PROVE RoutingInv
  OBVIOUS
<1> USE DEF Init
<1>2. Domains
  BY DEF Domains, Labels, Sources, Default
<1>3. Served /\ Intercepted /\ OnSource /\ OnConn /\ RowsWhereNamed
  BY DEF Served, Intercepted, OnSource, OnConn, RowsWhereNamed
<1> QED BY <1>2, <1>3 DEF RoutingInv

\* A thread takes a request that no other has.
LEMMA ArriveRouting ==
    ASSUME RoutingInv, NEW t \in Threads, NEW r \in Requests, Arrive(t, r)
    PROVE  RoutingInv'
<1> USE NullAssumption DEF RoutingInv
<1>1. /\ doing[t] = Null /\ pc[r] = "arrive"
      /\ doing' = [doing EXCEPT ![t] = r]
      /\ pc' = [pc EXCEPT ![r] = First(r)]
      /\ source' = source /\ conn' = conn /\ call' = call /\ rows' = rows
      /\ First(r) \in {"begin", "lookup"}
      /\ CodesOf(r) = <<>> => First(r) = "begin"
      /\ CodesOf(r) # <<>> => First(r) = "lookup"
  BY DEF Arrive, Go, First
<1>2. \A u \in Threads : doing[u] # r
  BY <1>1 DEF Served
<1>3. /\ \A u \in Threads : u # t => doing'[u] = doing[u]
      /\ doing'[t] = r
      /\ \A q \in Requests : q # r => pc'[q] = pc[q]
      /\ pc'[r] = First(r)
  BY <1>1 DEF Domains
<1>4. Domains'
  BY <1>1 DEF Domains, Labels
<1>5. Served'
  <2>1. \A u \in Threads : doing'[u] # Null => pc'[doing'[u]] \notin {"arrive", "ended"}
    BY <1>1, <1>2, <1>3 DEF Served, Domains
  <2>2. \A u, v \in Threads : doing'[u] # Null /\ doing'[u] = doing'[v] => u = v
    BY <1>2, <1>3 DEF Served
  <2> QED BY <2>1, <2>2 DEF Served
<1>6. Intercepted'
  BY <1>1, <1>3 DEF Intercepted, CodesOf
<1>7. OnSource'
  <2> SUFFICES ASSUME NEW u \in Threads PROVE
        /\ doing'[u] = Null => source[u] = Default
        /\ doing'[u] # Null /\ CodesOf(doing'[u]) = <<>> => source[u] = Default
        /\ doing'[u] # Null /\ pc'[doing'[u]] \in {"lookup", "switch"} =>
              source[u] = Default
        /\ doing'[u] # Null /\ CodesOf(doing'[u]) # <<>>
              /\ pc'[doing'[u]] \in {"fill", "begin", "insert", "commit"} =>
              source[u] = Url(CodesOf(doing'[u])[call[doing'[u]] + 1])
    BY <1>1 DEF OnSource, Code
  <2>1. CASE u = t
    BY <2>1, <1>1, <1>3 DEF OnSource
  <2>2. CASE u # t
    BY <2>2, <1>1, <1>2, <1>3 DEF OnSource, Domains, Code
  <2> QED BY <2>1, <2>2
<1>8. OnConn'
  BY <1>1, <1>2, <1>3 DEF OnConn, Domains
<1>9. RowsWhereNamed'
  BY <1>1 DEF RowsWhereNamed, CodesOf, Url, Default
<1> QED BY <1>4, <1>5, <1>6, <1>7, <1>8, <1>9

\* What is left to show of a step of the request that thread t serves: l is
\* where it goes, s and k are the thread's source and connection after it,
\* and n is the number of the call.
Local(r, l, s, k, n) ==
    /\ l \in Labels \ {"arrive", "ended"}
    /\ s \in Sources
    /\ n \in Nat
    /\ l \in {"lookup", "switch", "fill"} => CodesOf(r) # <<>>
    /\ CodesOf(r) = <<>> => s = Default
    /\ l \in {"lookup", "switch"} => s = Default
    /\ CodesOf(r) # <<>> /\ l \in {"fill", "begin", "insert", "commit"} =>
          s = Url(CodesOf(r)[n + 1])
    /\ k = IF l \in {"insert", "commit"} THEN s ELSE Null

\* A step inside a call leaves the other threads and requests alone.
LEMMA LocalStep ==
    ASSUME RoutingInv,
           NEW t \in Threads, NEW r \in Requests, doing[t] = r,
           NEW l, NEW s, NEW k, NEW n, Local(r, l, s, k, n),
           pc' = [pc EXCEPT ![r] = l],
           source' = [source EXCEPT ![t] = s],
           conn' = [conn EXCEPT ![t] = k],
           call' = [call EXCEPT ![r] = n],
           UNCHANGED doing
    PROVE  Domains' /\ Served' /\ Intercepted' /\ OnSource' /\ OnConn'
<1> USE NullAssumption DEF RoutingInv, Local
<1>1. /\ source'[t] = s /\ conn'[t] = k /\ pc'[r] = l /\ call'[r] = n
      /\ \A u \in Threads : u # t => source'[u] = source[u] /\ conn'[u] = conn[u]
      /\ \A q \in Requests : q # r => pc'[q] = pc[q] /\ call'[q] = call[q]
  BY DEF Domains
<1>2. \A u \in Threads : u # t => doing[u] # r
  BY DEF Served
<1>3. \A u \in Threads : doing[u] # Null => doing[u] \in Requests
  BY DEF Domains
<1>4. Domains'
  BY DEF Domains
<1>5. Served'
  BY <1>1, <1>2, <1>3 DEF Served
<1>6. Intercepted'
  BY <1>1 DEF Intercepted, CodesOf
<1>7. OnSource'
  <2> SUFFICES ASSUME NEW u \in Threads PROVE
        /\ doing[u] = Null => source'[u] = Default
        /\ doing[u] # Null /\ CodesOf(doing[u]) = <<>> => source'[u] = Default
        /\ doing[u] # Null /\ pc'[doing[u]] \in {"lookup", "switch"} =>
              source'[u] = Default
        /\ doing[u] # Null /\ CodesOf(doing[u]) # <<>>
              /\ pc'[doing[u]] \in {"fill", "begin", "insert", "commit"} =>
              source'[u] = Url(CodesOf(doing[u])[call'[doing[u]] + 1])
    BY DEF OnSource, Code
  <2>1. CASE u = t
    BY <2>1, <1>1
  <2>2. CASE u # t
    BY <2>2, <1>1, <1>2, <1>3 DEF OnSource, Code
  <2> QED BY <2>1, <2>2
<1>8. OnConn'
  <2> SUFFICES ASSUME NEW u \in Threads PROVE
        conn'[u] = IF doing[u] # Null /\ pc'[doing[u]] \in {"insert", "commit"}
                   THEN source'[u] ELSE Null
    BY DEF OnConn
  <2>1. CASE u = t
    BY <2>1, <1>1
  <2>2. CASE u # t
    BY <2>2, <1>1, <1>2, <1>3 DEF OnConn
  <2> QED BY <2>1, <2>2
<1> QED BY <1>4, <1>5, <1>6, <1>7, <1>8

\* A thread that ends its request is on the default source again.
LEMMA EndStep ==
    ASSUME RoutingInv,
           NEW t \in Threads, NEW r \in Requests, doing[t] = r,
           pc[r] = "after",
           pc' = [pc EXCEPT ![r] = "ended"],
           doing' = [doing EXCEPT ![t] = Null],
           source' = IF CodesOf(r) = <<>> THEN source
                     ELSE [source EXCEPT ![t] = Default],
           UNCHANGED <<conn, call>>
    PROVE  Domains' /\ Served' /\ Intercepted' /\ OnSource' /\ OnConn'
<1> USE NullAssumption DEF RoutingInv
<1>1. /\ source'[t] = Default /\ doing'[t] = Null /\ pc'[r] = "ended"
      /\ \A u \in Threads : u # t => source'[u] = source[u] /\ doing'[u] = doing[u]
      /\ \A q \in Requests : q # r => pc'[q] = pc[q]
  BY DEF Domains, OnSource
<1>2. \A u \in Threads : u # t => doing[u] # r
  BY DEF Served
<1>3. \A u \in Threads : doing[u] # Null => doing[u] \in Requests
  BY DEF Domains
<1>4. Domains'
  BY DEF Domains, Labels, Sources
<1>5. Served'
  BY <1>1, <1>2, <1>3 DEF Served
<1>6. Intercepted'
  BY <1>1 DEF Intercepted, CodesOf
<1>7. OnSource'
  <2> SUFFICES ASSUME NEW u \in Threads PROVE
        /\ doing'[u] = Null => source'[u] = Default
        /\ doing'[u] # Null /\ CodesOf(doing'[u]) = <<>> => source'[u] = Default
        /\ doing'[u] # Null /\ pc'[doing'[u]] \in {"lookup", "switch"} =>
              source'[u] = Default
        /\ doing'[u] # Null /\ CodesOf(doing'[u]) # <<>>
              /\ pc'[doing'[u]] \in {"fill", "begin", "insert", "commit"} =>
              source'[u] = Url(CodesOf(doing'[u])[call[doing'[u]] + 1])
    BY DEF OnSource, Code
  <2>1. CASE u = t
    BY <2>1, <1>1
  <2>2. CASE u # t
    BY <2>2, <1>1, <1>2, <1>3 DEF OnSource, Code
  <2> QED BY <2>1, <2>2
<1>8. OnConn'
  <2> SUFFICES ASSUME NEW u \in Threads PROVE
        conn[u] = IF doing'[u] # Null /\ pc'[doing'[u]] \in {"insert", "commit"}
                  THEN source'[u] ELSE Null
    BY DEF OnConn
  <2>1. CASE u = t
    BY <2>1, <1>1 DEF OnConn
  <2>2. CASE u # t
    BY <2>2, <1>1, <1>2, <1>3 DEF OnConn
  <2> QED BY <2>1, <2>2
<1> QED BY <1>4, <1>5, <1>6, <1>7, <1>8

\* What a thread does for its request keeps the routing.
LEMMA ServeRouting ==
    ASSUME RoutingInv, NEW t \in Threads, NEW r \in Requests, doing[t] = r,
           Serve(t, r)
    PROVE  RoutingInv'
<1> USE NullAssumption DEF RoutingInv
<1> DEFINE Kept == Domains' /\ Served' /\ Intercepted' /\ OnSource' /\ OnConn'
           Step(l, s, k, n) ==
               /\ Local(r, l, s, k, n)
               /\ pc' = [pc EXCEPT ![r] = l]
               /\ source' = [source EXCEPT ![t] = s]
               /\ conn' = [conn EXCEPT ![t] = k]
               /\ call' = [call EXCEPT ![r] = n]
               /\ UNCHANGED doing
<1>1. ASSUME NEW l, NEW s, NEW k, NEW n, Step(l, s, k, n) PROVE Kept
  BY <1>1, LocalStep
<1> HIDE DEF Step, Kept
<1>2. /\ source = [source EXCEPT ![t] = source[t]]
      /\ conn = [conn EXCEPT ![t] = conn[t]]
      /\ call = [call EXCEPT ![r] = call[r]]
      /\ source[t] \in Sources /\ call[r] \in Nat
      /\ r # Null
  BY DEF Domains
<1>3. /\ CodesOf(r) = <<>> => source[t] = Default
      /\ pc[r] \in {"lookup", "switch"} => source[t] = Default
      /\ CodesOf(r) # <<>> /\ pc[r] \in {"fill", "begin", "insert", "commit"} =>
            source[t] = Url(Code(r))
      /\ conn[t] = IF pc[r] \in {"insert", "commit"} THEN source[t] ELSE Null
      /\ pc[r] \in {"lookup", "switch", "fill"} => CodesOf(r) # <<>>
  BY <1>2 DEF OnSource, OnConn, Intercepted
<1>4. RowsWhereNamed /\ rows' = rows => RowsWhereNamed'
  BY DEF RowsWhereNamed, CodesOf, Url, Default
<1>5. CASE Lookup(t, r)
  <2>1. Step("switch", source[t], Null, call[r])
    BY <1>2, <1>3, <1>5 DEF Lookup, Go, Step, Local, Labels
  <2> QED BY <2>1, <1>1, <1>4, <1>5 DEF Lookup, Kept
<1>6. CASE Switch(t, r)
  <2>1. Step(IF found[t] THEN "begin" ELSE "fill", Url(Code(r)), Null, call[r])
    <3>1. Url(Code(r)) \in Sources
      BY DEF Url, Sources
    <3>2. Local(r, IF found[t] THEN "begin" ELSE "fill", Url(Code(r)), Null, call[r])
      BY <3>1, <1>2, <1>3, <1>6 DEF Switch, Go, Local, Labels, Code
    <3> QED BY <3>2, <1>2, <1>3, <1>6 DEF Switch, Go, Step
  <2> QED BY <2>1, <1>1, <1>4, <1>6 DEF Switch, Kept
<1>7. CASE Fill(t, r)
  <2>1. Step("begin", source[t], Null, call[r])
    BY <1>2, <1>3, <1>7 DEF Fill, Go, Step, Local, Labels, Code
  <2> QED BY <2>1, <1>1, <1>4, <1>7 DEF Fill, Kept
<1>8. CASE Begin(t, r)
  <2>1. Step("insert", source[t], source[t], call[r])
    BY <1>2, <1>3, <1>8 DEF Begin, Go, Step, Local, Labels, Code
  <2> QED BY <2>1, <1>1, <1>4, <1>8 DEF Begin, Kept
<1>9. CASE Insert(t, r)
  <2>1. Step("commit", source[t], source[t], call[r])
    BY <1>2, <1>3, <1>9 DEF Insert, Go, Step, Local, Labels, Code
  <2> QED BY <2>1, <1>1, <1>4, <1>9 DEF Insert, Kept
<1>10. CASE Commit(t, r)
  <2>1. Step("after", source[t], Null, call[r])
    BY <1>2, <1>3, <1>10 DEF Commit, Go, Step, Local, Labels
  <2>2. conn[t] = IF CodesOf(r) = <<>> THEN Default ELSE Url(CodesOf(r)[call[r] + 1])
    BY <1>3, <1>10 DEF Commit, Go, Code
  <2>3. RowsWhereNamed'
    BY <2>2, <1>10 DEF Commit, RowsWhereNamed
  <2> QED BY <2>1, <2>3, <1>1 DEF Kept
<1>11. CASE Fault(t, r)
  <2>1. Step("after", source[t], Null, call[r])
    BY <1>2, <1>3, <1>11 DEF Fault, Step, Local, Labels
  <2> QED BY <2>1, <1>1, <1>4, <1>11 DEF Fault, Kept
<1>12. CASE After(t, r)
  <2>1. CASE HasNext(r)
    <3>1. CodesOf(r) # <<>>
      BY <1>2, <2>1 DEF HasNext
    <3>2. Step("lookup", Default, Null, call[r] + 1)
      BY <3>1, <2>1, <1>2, <1>3, <1>12
      DEF After, Go, Step, Local, Labels, Sources, Unrestored
    <3> QED BY <3>2, <1>1, <1>4, <1>12 DEF After, Kept
  <2>2. CASE ~HasNext(r)
    <3>1. Kept
      BY <2>2, <1>12, EndStep DEF After, Go, Unrestored, Kept
    <3> QED BY <3>1, <1>4, <1>12 DEF After, Kept
  <2> QED BY <2>1, <2>2
<1> QED BY <1>5, <1>6, <1>7, <1>8, <1>9, <1>10, <1>11, <1>12 DEF Serve

LEMMA NextRouting == RoutingInv /\ [Next]_vars => RoutingInv'
<1> SUFFICES ASSUME RoutingInv, [Next]_vars PROVE RoutingInv'
  OBVIOUS
<1>1. CASE UNCHANGED vars \/ Lapse
  <2>1. UNCHANGED <<doing, source, conn, pc, call, rows>>
    BY <1>1 DEF vars, Lapse
  <2> QED BY <2>1 DEF RoutingInv, Domains, Served, Intercepted, OnSource,
                      OnConn, RowsWhereNamed, CodesOf, Url, Code, Default
<1>2. ASSUME NEW t \in Threads, NEW r \in Requests, Arrive(t, r)
      PROVE  RoutingInv'
  BY <1>2, ArriveRouting
<1>3. ASSUME NEW t \in Threads, NEW r \in Requests, doing[t] = r, Serve(t, r)
      PROVE  RoutingInv'
  BY <1>3, ServeRouting
<1> QED BY <1>1, <1>2, <1>3 DEF Next

(***************************************************************************)
(* DynamicDataSourceAop: every committed row is in the database that its   *)
(* call named, and one of a request that is not intercepted is in the      *)
(* default one, for any requests on any threads.                           *)
(***************************************************************************)
THEOREM RowsAreRouted == Spec => []RowsWhereNamed
<1>1. RoutingInv => RowsWhereNamed
  BY DEF RoutingInv
<1> QED BY <1>1, InitRouting, NextRouting, PTL DEF Spec

(***************************************************************************)
(* doAfter: a thread without a request is on the default data source and   *)
(* holds no connection, wherever the calls it made have failed.            *)
(***************************************************************************)
THEOREM ThreadsAreRestored == Spec => []ThreadsComeBackClean
<1>1. RoutingInv => ThreadsComeBackClean
  BY DEF RoutingInv, OnSource, OnConn, ThreadsComeBackClean
<1> QED BY <1>1, InitRouting, NextRouting, PTL DEF Spec

\* A call that has returned has left its row, and only then is the next made.
HasRow(r, n) == \E row \in rows : row.of = r /\ row.call = n
TwinInv ==
    /\ pc \in [Requests -> Labels]
    /\ call \in [Requests -> {0, 1}]
    /\ failed \in [Requests -> BOOLEAN]
    /\ \A r \in Requests :
          /\ call[r] = 1 => HasRow(r, 0)
          /\ pc[r] = "after" /\ ~failed[r] => HasRow(r, call[r])
    /\ SecondOnlyAfterFirst

LEMMA InitTwin == Init => TwinInv
BY DEF Init, TwinInv, SecondOnlyAfterFirst, HasRow, Labels

\* A step that commits nothing and ends no call.
LEMMA QuietTwin ==
    ASSUME TwinInv, NEW r \in Requests, NEW l \in Labels,
           pc' = [pc EXCEPT ![r] = l],
           \/ l # "after" /\ failed' = failed
           \/ failed' = [failed EXCEPT ![r] = TRUE],
           UNCHANGED <<call, rows>>
    PROVE  TwinInv'
BY DEF TwinInv, SecondOnlyAfterFirst, HasRow

LEMMA NextTwin == TwinInv /\ [Next]_vars => TwinInv'
<1> SUFFICES ASSUME TwinInv, [Next]_vars PROVE TwinInv'
  OBVIOUS
<1>1. CASE UNCHANGED vars \/ Lapse
  <2>1. UNCHANGED <<pc, call, failed, rows>>
    BY <1>1 DEF vars, Lapse
  <2> QED BY <2>1 DEF TwinInv, SecondOnlyAfterFirst, HasRow
<1>2. ASSUME NEW t \in Threads, NEW r \in Requests,
             \/ Arrive(t, r) \/ Lookup(t, r) \/ Switch(t, r) \/ Fill(t, r)
             \/ Begin(t, r) \/ Insert(t, r) \/ Fault(t, r)
      PROVE  TwinInv'
  <2>1. PICK l \in Labels :
            /\ pc' = [pc EXCEPT ![r] = l]
            /\ \/ l # "after" /\ failed' = failed
               \/ failed' = [failed EXCEPT ![r] = TRUE]
    BY <1>2 DEF Arrive, Lookup, Switch, Fill, Begin, Insert, Fault, Go, First,
                Labels
  <2>2. UNCHANGED <<call, rows>>
    BY <1>2 DEF Arrive, Lookup, Switch, Fill, Begin, Insert, Fault
  <2> QED BY <2>1, <2>2, QuietTwin
<1>3. ASSUME NEW t \in Threads, NEW r \in Requests, Commit(t, r)
      PROVE  TwinInv'
  <2>1. /\ pc' = [pc EXCEPT ![r] = "after"] /\ call' = call
        /\ rows' = rows \cup {[of |-> r, call |-> call[r], in |-> conn[t]]}
        /\ failed' \in [Requests -> BOOLEAN]
        /\ \A q \in Requests : q # r => failed'[q] = failed[q]
    BY <1>3 DEF Commit, Go, TwinInv
  <2>2. call[r] \in {0, 1} /\ (call[r] = 1 => HasRow(r, 0))
    BY DEF TwinInv
  <2>3. \E row \in rows' : row.of = r /\ row.call = call'[r]
    <3> DEFINE new == [of |-> r, call |-> call[r], in |-> conn[t]]
    <3>1. new \in rows' /\ new.of = r /\ new.call = call[r]
      BY <2>1
    <3> QED BY <3>1, <2>1
  <2>4. \A q \in Requests : \A n \in {0, 1} : HasRow(q, n) => HasRow(q, n)'
    BY <2>1 DEF HasRow
  <2>5. SecondOnlyAfterFirst'
    BY <2>1, <2>2 DEF TwinInv, SecondOnlyAfterFirst, HasRow
  <2>6. pc' \in [Requests -> Labels] /\ \A q \in Requests : q # r => pc'[q] = pc[q]
    BY <2>1 DEF TwinInv, Labels
  <2> QED BY <2>1, <2>3, <2>4, <2>5, <2>6 DEF TwinInv, HasRow
<1>4. ASSUME NEW t \in Threads, NEW r \in Requests, After(t, r)
      PROVE  TwinInv'
  <2>1. pc[r] = "after" /\ UNCHANGED rows
    BY <1>4 DEF After, Go
  <2>2. CASE HasNext(r)
    <3>1. Len(CodesOf(r)) <= 2
      BY KindAssumption DEF CodesOf
    <3>2. call[r] = 0 /\ HasRow(r, 0)
      BY <3>1, <2>1, <2>2 DEF HasNext, TwinInv
    <3>3. /\ pc' = [pc EXCEPT ![r] = "lookup"]
          /\ call' = [call EXCEPT ![r] = 1]
          /\ failed' = [failed EXCEPT ![r] = FALSE]
      BY <3>2, <1>4, <2>2 DEF After, Go
    <3> QED BY <2>1, <3>2, <3>3 DEF TwinInv, SecondOnlyAfterFirst, HasRow, Labels
  <2>3. CASE ~HasNext(r)
    <3>1. pc' = [pc EXCEPT ![r] = "ended"] /\ UNCHANGED <<call, failed>>
      BY <1>4, <2>3 DEF After, Go
    <3> QED BY <3>1, <2>1, QuietTwin DEF Labels
  <2> QED BY <2>2, <2>3
<1> QED BY <1>1, <1>2, <1>3, <1>4 DEF Next, Serve

(***************************************************************************)
(* MessageServiceImpl.dynamicTest: although its two transactions commit    *)
(* apart, the row of the second is never there without that of the first,  *)
(* when either fails at any step or loses its acknowledgement.             *)
(***************************************************************************)
THEOREM SecondFollowsFirst == Spec => []SecondOnlyAfterFirst
<1>1. TwinInv => SecondOnlyAfterFirst
  BY DEF TwinInv
<1> QED BY <1>1, InitTwin, NextTwin, PTL DEF Spec
=============================================================================
