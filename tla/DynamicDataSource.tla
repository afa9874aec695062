------------------------- MODULE DynamicDataSource -------------------------
(***************************************************************************)
(* DynamicDataSourceAop around the transactional methods of                *)
(* DemoServiceImpl: before a call the thread is switched to the database   *)
(* that the call's last argument names, after it the thread is restored,   *)
(* also when the switch or the call has failed (in the project's Spring    *)
(* 5.1 the after advice of an aspect encloses its before advice).  The     *)
(* aspect's order, -1, puts it outside the transaction, whose connection   *)
(* is the one of the thread's data source when it begins.                  *)
(***************************************************************************)
EXTENDS Naturals, Sequences

CONSTANTS
    Threads,   \* of the server's pool
    Requests,
    Kind,      \* what each request calls
    Null

ASSUME KindAssumption == Kind \in [Requests -> {"dynamic", "student", "other"}]
ASSUME NullAssumption == Null \notin Requests

VARIABLES
    cached,  \* DATABASE_CACHE_: the codes whose information Redis has
    doing,   \* the request a thread serves, or Null
    source,  \* the database a thread is switched to
    conn,    \* the database its transaction is open on, or Null
    found,   \* the information was in Redis
    pc,      \* where a request is
    call,    \* its calls of DemoServiceImpl that have ended
    failed,  \* the call under way has thrown
    rows     \* rows committed, with the database they are in

vars == <<cached, doing, source, conn, found, pc, call, failed, rows>>

\* The last arguments of the calls that a request makes, one after the
\* other; no String there means MIS_TEST_DB0.
CodesOf(r) ==
    CASE Kind[r] = "dynamic" -> <<"MIS_TEST_DB", "MIS_TEST_DB2">>
      [] Kind[r] = "student" -> <<"MIS_TEST_DB0">>
      [] Kind[r] = "other" -> <<>>

Codes == {"MIS_TEST_DB", "MIS_TEST_DB2", "MIS_TEST_DB0"}
Url(code) == IF code = "MIS_TEST_DB" THEN "spring" ELSE "mis-message"
Default == "primary"

Labels == {"arrive", "lookup", "switch", "fill", "begin", "insert", "commit",
           "after", "ended"}

TypeOK ==
    /\ cached \subseteq Codes
    /\ doing \in [Threads -> Requests \cup {Null}]
    /\ source \in [Threads -> {"spring", "mis-message", Default}]
    /\ conn \in [Threads -> {"spring", "mis-message", Default, Null}]
    /\ found \in [Threads -> BOOLEAN]
    /\ pc \in [Requests -> Labels]
    /\ call \in [Requests -> 0..2]
    /\ failed \in [Requests -> BOOLEAN]

Init ==
    /\ cached = {}
    /\ doing = [t \in Threads |-> Null]
    /\ source = [t \in Threads |-> Default]
    /\ conn = [t \in Threads |-> Null]
    /\ found = [t \in Threads |-> FALSE]
    /\ pc = [r \in Requests |-> "arrive"]
    /\ call = [r \in Requests |-> 0]
    /\ failed = [r \in Requests |-> FALSE]
    /\ rows = {}

Code(r) == CodesOf(r)[call[r] + 1]
First(r) == IF CodesOf(r) = <<>> THEN "begin" ELSE "lookup"

Go(r, from, to) == pc[r] = from /\ pc' = [pc EXCEPT ![r] = to]

\* A request is served by one thread, and a thread serves one at a time.
Arrive(t, r) ==
    /\ doing[t] = Null
    /\ Go(r, "arrive", First(r))
    /\ doing' = [doing EXCEPT ![t] = r]
    /\ UNCHANGED <<cached, source, conn, found, call, failed, rows>>

\* doBefore
Lookup(t, r) ==
    /\ Go(r, "lookup", "switch")
    /\ found' = [found EXCEPT ![t] = Code(r) \in cached]
    /\ UNCHANGED <<cached, doing, source, conn, call, failed, rows>>

\* Variant: the transaction begins before the thread is switched.
SwitchTooLate(t, r) ==
    /\ Go(r, "switch", IF found[t] THEN "begin" ELSE "fill")
    /\ source' = [source EXCEPT ![t] = Url(Code(r))]
    /\ conn' = [conn EXCEPT ![t] = source[t]]
    /\ UNCHANGED <<cached, doing, found, call, failed, rows>>
Switch(t, r) ==
    /\ Go(r, "switch", IF found[t] THEN "begin" ELSE "fill")
    /\ source' = [source EXCEPT ![t] = Url(Code(r))]
    /\ UNCHANGED <<cached, doing, conn, found, call, failed, rows>>

Fill(t, r) ==
    /\ Go(r, "fill", "begin")
    /\ cached' = cached \cup {Code(r)}
    /\ UNCHANGED <<doing, source, conn, found, call, failed, rows>>

\* @Transactional dynamicTest and addStudent
Begin(t, r) ==
    /\ Go(r, "begin", "insert")
    /\ conn' = [conn EXCEPT ![t] = IF @ = Null THEN source[t] ELSE @]
    /\ UNCHANGED <<cached, doing, source, found, call, failed, rows>>

Insert(t, r) ==
    /\ Go(r, "insert", "commit")
    /\ UNCHANGED <<cached, doing, source, conn, found, call, failed, rows>>

\* The acknowledgement of the commit may get lost.
Commit(t, r) ==
    /\ Go(r, "commit", "after")
    /\ rows' = rows \cup {[of |-> r, call |-> call[r], in |-> conn[t]]}
    /\ conn' = [conn EXCEPT ![t] = Null]
    /\ failed' \in {failed, [failed EXCEPT ![r] = TRUE]}
    /\ UNCHANGED <<cached, doing, source, found, call>>

\* Redis, the switch or a statement fails, and the transaction rolls back.
Fault(t, r) ==
    /\ pc[r] \in Labels \ {"arrive", "after", "ended"}
    /\ pc' = [pc EXCEPT ![r] = "after"]
    /\ conn' = [conn EXCEPT ![t] = Null]
    /\ failed' = [failed EXCEPT ![r] = TRUE]
    /\ UNCHANGED <<cached, doing, source, found, call, rows>>

\* Variant: a call that has failed leaves the thread where it is.
RestoreOnReturn(r) == failed[r] \/ CodesOf(r) = <<>>
\* A request that is not intercepted.
Unrestored(r) == CodesOf(r) = <<>>

\* Variant: the second call is made although the first has failed.
GoesOn(r) == call[r] + 1 < Len(CodesOf(r))
HasNext(r) == ~failed[r] /\ call[r] + 1 < Len(CodesOf(r))

\* doAfter; then the next call, or the end of the request.
After(t, r) ==
    /\ Go(r, "after", IF HasNext(r) THEN "lookup" ELSE "ended")
    /\ source' = IF Unrestored(r) THEN source
                 ELSE [source EXCEPT ![t] = Default]
    /\ call' = IF HasNext(r) THEN [call EXCEPT ![r] = @ + 1] ELSE call
    /\ failed' = IF HasNext(r) THEN [failed EXCEPT ![r] = FALSE] ELSE failed
    /\ doing' = IF HasNext(r) THEN doing ELSE [doing EXCEPT ![t] = Null]
    /\ UNCHANGED <<cached, conn, found, rows>>

\* An entry of the cache lapses.
Lapse ==
    /\ \E code \in cached : cached' = cached \ {code}
    /\ UNCHANGED <<doing, source, conn, found, pc, call, failed, rows>>

Serve(t, r) ==
    \/ Lookup(t, r) \/ Switch(t, r) \/ Fill(t, r)
    \/ Begin(t, r) \/ Insert(t, r) \/ Commit(t, r)
    \/ After(t, r) \/ Fault(t, r)

Next ==
    \/ \E t \in Threads, r \in Requests :
          Arrive(t, r) \/ (doing[t] = r /\ Serve(t, r))
    \/ Lapse

Spec == Init /\ [][Next]_vars

(***************************************************************************)
(* Every row is in the database that its call named, and the rows of a     *)
(* request without a switch are in the default one, whatever the thread    *)
(* did before and whichever calls on it failed.                            *)
(***************************************************************************)
RowsWhereNamed ==
    \A row \in rows :
        row.in = IF CodesOf(row.of) = <<>> THEN Default
                 ELSE Url(CodesOf(row.of)[row.call + 1])

(***************************************************************************)
(* The two local transactions of MessageServiceImpl.dynamicTest can end    *)
(* apart, but only one way: a row in the second database has its twin in   *)
(* the first.                                                              *)
(***************************************************************************)
SecondOnlyAfterFirst ==
    \A row \in rows : row.call = 1 =>
        \E twin \in rows : twin.of = row.of /\ twin.call = 0

(***************************************************************************)
(* A thread that goes back to the pool is on the default data source, even *)
(* when the switch, the fill of the cache or the call has failed.          *)
(***************************************************************************)
ThreadsComeBackClean ==
    \A t \in Threads : doing[t] = Null => source[t] = Default /\ conn[t] = Null
=============================================================================
