------------------------------ MODULE FileStore ------------------------------
(***************************************************************************)
(* Files: FileController uploads, downloads and deletes; the bytes are in  *)
(* GridFS, the directory of files is the table sys_files behind the remote *)
(* SysService, and QrySysService reads that table through a Redis cache.   *)
(* The three stores share no transaction.                                  *)
(*                                                                         *)
(* A remote call that times out is sent again by the Dubbo consumer while  *)
(* the first one may still run.                                            *)
(***************************************************************************)
EXTENDS Integers, FiniteSets

CONSTANTS
    Uploads,    \* requests to /file/upload; each stores one blob, named after it
    Gets,       \* requests to /file/download
    Deletes,    \* requests to /file/delete
    FileIds,    \* keys sys_files can give out: 1..n
    Target,     \* the file id each download or delete asks for
    Providers,  \* JVMs that run QrySysServiceImpl
    ServedBy,   \* the provider that answers each download's or delete's query
    Retries,    \* resends of a timed-out call, 2 by default in Dubbo
    Null

Readers == Gets \cup Deletes
Requests == Uploads \cup Readers

\* Each request is of one kind, and the keys given out are bounded.
ASSUME KindsAssumption == Uploads \cap Readers = {} /\ Gets \cap Deletes = {}
ASSUME FileIdsAssumption == IsFiniteSet(FileIds) /\ FileIds = 1..Cardinality(FileIds)
ASSUME TargetAssumption == Target \in [Readers -> FileIds]
ASSUME ServedByAssumption == ServedBy \in [Readers -> Providers]
ASSUME RetriesAssumption == Retries \in Nat
ASSUME FileNullAssumption == Null \notin Requests /\ Null \notin Nat

VARIABLES
    gridFs,    \* the blobs in GridFS
    sysFiles,  \* sys_files: the blob of each row, Null where there is no row
    nextId,    \* the next key sys_files gives out
    cache,     \* Redis: the blob of each cached row, or Null
    fills,     \* how often each provider has put each file's row into the cache
    monitor,   \* the request inside synchronized(this) of each provider
    pc,        \* where each request is
    resent,    \* timed-out attempts of each upload's insertSysFiles
    late,      \* of these, the ones that may still run
    row,       \* the row a reader's query returned
    told,      \* the file id an upload was answered with
    answer     \* what the client was told, "none" so far

stores == <<gridFs, sysFiles, nextId, cache, fills>>
vars == <<stores, monitor, pc, resent, late, row, told, answer>>

Labels == {"store", "insert", "waiting",
           "get", "enter", "recheck", "read", "fill", "find",
           "open", "copy", "drop", "unrow", "done"}

TypeOK ==
    /\ gridFs \subseteq Uploads
    /\ sysFiles \in [FileIds -> Uploads \cup {Null}]
    /\ nextId \in 1..(Cardinality(FileIds) + 1)
    /\ cache \in [FileIds -> Uploads \cup {Null}]
    /\ fills \in [Providers -> [FileIds -> Nat]]
    /\ monitor \in [Providers -> Readers \cup {Null}]
    /\ pc \in [Requests -> Labels]
    /\ resent \in [Uploads -> 0..(Retries + 1)]
    /\ late \in [Uploads -> 0..(Retries + 1)]
    /\ row \in [Readers -> Uploads \cup {Null}]
    /\ told \in [Uploads -> FileIds \cup {Null}]
    /\ answer \in [Requests -> {"none", "failed", "halfway", "nothing",
                              "uploaded", "served", "deleted"}]

Init ==
    /\ gridFs = {}
    /\ sysFiles = [f \in FileIds |-> Null]
    /\ nextId = 1
    /\ cache = [f \in FileIds |-> Null]
    /\ fills = [p \in Providers |-> [f \in FileIds |-> 0]]
    /\ monitor = [p \in Providers |-> Null]
    /\ pc = [r \in Requests |-> IF r \in Uploads THEN "store" ELSE "get"]
    /\ resent = [u \in Uploads |-> 0]
    /\ late = [u \in Uploads |-> 0]
    /\ row = [r \in Readers |-> Null]
    /\ told = [u \in Uploads |-> Null]
    /\ answer = [r \in Requests |-> "none"]

Go(r, from, to) == pc[r] = from /\ pc' = [pc EXCEPT ![r] = to]
Answer(r, a) == answer' = [answer EXCEPT ![r] = a]
uploading == <<resent, late, told>>

(***************************************************************************)
(* /file/upload                                                            *)
(***************************************************************************)
\* Variant: the row is inserted before the bytes are stored.
StoreLater(u) ==
    /\ Go(u, "store", "insert")
    /\ UNCHANGED <<stores, monitor, uploading, row, answer>>

Store(u) ==
    /\ Go(u, "store", "insert")
    /\ gridFs' = gridFs \cup {u}
    /\ UNCHANGED <<sysFiles, nextId, cache, fills, monitor, uploading, row, answer>>

\* GridFS fails, with or without the blob stored.
StoreFails(u) ==
    /\ Go(u, "store", "done")
    /\ gridFs' \in {gridFs, gridFs \cup {u}}
    /\ Answer(u, "failed")
    /\ UNCHANGED <<sysFiles, nextId, cache, fills, monitor, uploading, row>>

\* The consumer sends insertSysFiles.
Send(u) ==
    /\ Go(u, "insert", "waiting")
    /\ UNCHANGED <<stores, monitor, uploading, row, answer>>

InsertRow(u) ==
    /\ nextId \in FileIds
    /\ sysFiles' = [sysFiles EXCEPT ![nextId] = u]
    /\ nextId' = nextId + 1

\* The provider inserts the row and its answer arrives in time.
Insert(u) ==
    /\ Go(u, "waiting", "done")
    /\ InsertRow(u)
    /\ told' = [told EXCEPT ![u] = nextId]
    /\ Answer(u, "uploaded")
    /\ UNCHANGED <<gridFs, cache, fills, monitor, resent, late, row>>

\* Variant: sent again without end.
TimeOutAlwaysResends(u) ==
    /\ Go(u, "waiting", "insert")
    /\ resent' = [resent EXCEPT ![u] = @ + 1]
    /\ late' = [late EXCEPT ![u] = @ + 1]
    /\ UNCHANGED <<stores, monitor, row, told, answer>>

\* No answer in time: send again, or give up and let the client see the error.
TimeOut(u) ==
    /\ pc[u] = "waiting"
    /\ resent' = [resent EXCEPT ![u] = @ + 1]
    /\ late' = [late EXCEPT ![u] = @ + 1]
    /\ \/ resent[u] < Retries /\ Go(u, "waiting", "insert") /\ UNCHANGED answer
       \/ resent[u] = Retries /\ Go(u, "waiting", "done") /\ Answer(u, "failed")
    /\ UNCHANGED <<stores, monitor, row, told>>

\* An attempt that was given up runs after all.
LateInsert(u) ==
    /\ late[u] > 0
    /\ late' = [late EXCEPT ![u] = @ - 1]
    /\ InsertRow(u)
    /\ UNCHANGED <<gridFs, cache, fills, monitor, pc, resent, row, told, answer>>

\* Or it never does.
Lost(u) ==
    /\ late[u] > 0
    /\ late' = [late EXCEPT ![u] = @ - 1]
    /\ UNCHANGED <<stores, monitor, pc, resent, row, told, answer>>

(***************************************************************************)
(* qrySysFiles, called by downloads and deletes                            *)
(***************************************************************************)
Leave(r) == monitor' = [monitor EXCEPT ![ServedBy[r]] = Null]

Get(r) ==
    /\ \/ cache[Target[r]] # Null /\ Go(r, "get", "find")
       \/ cache[Target[r]] = Null /\ Go(r, "get", "enter")
    /\ row' = [row EXCEPT ![r] = cache[Target[r]]]
    /\ UNCHANGED <<stores, monitor, uploading, answer>>

Enter(r) ==
    /\ Go(r, "enter", "recheck")
    /\ monitor[ServedBy[r]] = Null
    /\ monitor' = [monitor EXCEPT ![ServedBy[r]] = r]
    /\ UNCHANGED <<stores, uploading, row, answer>>

\* Variant: no second look at the cache.
RecheckSkipped(r) ==
    /\ Go(r, "recheck", "read")
    /\ row' = [row EXCEPT ![r] = Null]
    /\ UNCHANGED <<stores, monitor, uploading, answer>>

Recheck(r) ==
    /\ \/ cache[Target[r]] # Null /\ Go(r, "recheck", "find") /\ Leave(r)
       \/ cache[Target[r]] = Null /\ Go(r, "recheck", "read") /\ UNCHANGED monitor
    /\ row' = [row EXCEPT ![r] = cache[Target[r]]]
    /\ UNCHANGED <<stores, uploading, answer>>

\* Variant: an explicit lock, forgotten on the path without a row.
ReadKeepsMonitor(r) ==
    /\ Go(r, "read", IF sysFiles[Target[r]] # Null THEN "fill" ELSE "find")
    /\ row' = [row EXCEPT ![r] = sysFiles[Target[r]]]
    /\ UNCHANGED <<stores, monitor, uploading, answer>>

Read(r) ==
    /\ \/ sysFiles[Target[r]] # Null /\ Go(r, "read", "fill") /\ UNCHANGED monitor
       \/ sysFiles[Target[r]] = Null /\ Go(r, "read", "find") /\ Leave(r)
    /\ row' = [row EXCEPT ![r] = sysFiles[Target[r]]]
    /\ UNCHANGED <<stores, uploading, answer>>

Fill(r) ==
    /\ \/ Go(r, "fill", "find") /\ UNCHANGED answer
       \/ Go(r, "fill", "done") /\ Answer(r, "failed")  \* Redis's reply is lost
    /\ cache' = [cache EXCEPT ![Target[r]] = row[r]]
    /\ fills' = [fills EXCEPT ![ServedBy[r]][Target[r]] = @ + 1]
    /\ Leave(r)
    /\ UNCHANGED <<gridFs, sysFiles, nextId, uploading, row>>

(***************************************************************************)
(* /file/download and /file/delete, with the row in hand                   *)
(***************************************************************************)
Found(r) == row[r] # Null /\ row[r] \in gridFs

FindToServe(g) ==
    /\ \/ Found(g) /\ Go(g, "find", "open") /\ UNCHANGED answer
       \/ ~ Found(g) /\ Go(g, "find", "done") /\ Answer(g, "nothing")
    /\ UNCHANGED <<stores, monitor, uploading, row>>

\* Opening the stream fails when the blob has gone in the meantime.
Open(g) ==
    /\ \/ row[g] \in gridFs /\ Go(g, "open", "copy") /\ UNCHANGED answer
       \/ row[g] \notin gridFs /\ Go(g, "open", "done") /\ Answer(g, "failed")
    /\ UNCHANGED <<stores, monitor, uploading, row>>

\* A delete may take the chunks away before, or after, they have been read.
Copy(g) ==
    /\ Go(g, "copy", "done")
    /\ \/ Answer(g, "served")
       \/ row[g] \notin gridFs /\ Answer(g, "failed")
    /\ UNCHANGED <<stores, monitor, uploading, row>>

FindToDelete(d) ==
    /\ \/ Found(d) /\ Go(d, "find", "drop") /\ UNCHANGED answer
       \/ ~ Found(d) /\ Go(d, "find", "done") /\ Answer(d, "failed")
    /\ UNCHANGED <<stores, monitor, uploading, row>>

\* Variant: the row goes, the bytes stay.
DropNothing(d) ==
    /\ Go(d, "drop", "unrow")
    /\ UNCHANGED <<stores, monitor, uploading, row, answer>>

Drop(d) ==
    /\ Go(d, "drop", "unrow")
    /\ gridFs' = gridFs \ {row[d]}
    /\ UNCHANGED <<sysFiles, nextId, cache, fills, monitor, uploading, row, answer>>

\* Variant: the newest row is deleted.
UnrowNewest(d) ==
    /\ Go(d, "unrow", "done")
    /\ sysFiles' = [sysFiles EXCEPT ![nextId - 1] = Null]
    /\ Answer(d, "deleted")
    /\ UNCHANGED <<gridFs, nextId, cache, fills, monitor, uploading, row>>

Unrow(d) ==
    /\ Go(d, "unrow", "done")
    /\ sysFiles' = [sysFiles EXCEPT ![Target[d]] = Null]
    /\ Answer(d, "deleted")
    /\ UNCHANGED <<gridFs, nextId, cache, fills, monitor, uploading, row>>

\* gridFsTemplate.delete throws, with or without the blob gone.  The client
\* sees the same message as for "failed".
DropFails(d) ==
    /\ Go(d, "drop", "done")
    /\ gridFs' \in {gridFs, gridFs \ {row[d]}}
    /\ Answer(d, "halfway")
    /\ UNCHANGED <<sysFiles, nextId, cache, fills, monitor, uploading, row>>

\* deleteSysFiles throws or times out; the empty catch block hides it.
UnrowFails(d) ==
    /\ Go(d, "unrow", "done")
    /\ Answer(d, "deleted")
    /\ UNCHANGED <<stores, monitor, uploading, row>>

\* A deleteSysFiles that was given up runs after all.
LateUnrow(d) ==
    /\ pc[d] = "done" /\ answer[d] = "deleted" /\ sysFiles[Target[d]] # Null
    /\ sysFiles' = [sysFiles EXCEPT ![Target[d]] = Null]
    /\ UNCHANGED <<gridFs, nextId, cache, fills, monitor, pc, uploading, row, answer>>

\* Redis, the database or GridFS throws.  Java leaves the monitor.
ReaderFails(r) ==
    /\ \E here \in {"get", "recheck", "read", "fill", "find", "open", "copy"} :
          Go(r, here, "done")
    /\ IF monitor[ServedBy[r]] = r THEN Leave(r) ELSE UNCHANGED monitor
    /\ Answer(r, "failed")
    /\ UNCHANGED <<stores, uploading, row>>

Upload(u) == Store(u) \/ Send(u) \/ Insert(u) \/ TimeOut(u)
Query(r) == Get(r) \/ Enter(r) \/ Recheck(r) \/ Read(r) \/ Fill(r)
Download(g) == FindToServe(g) \/ Open(g) \/ Copy(g)
Delete(d) == FindToDelete(d) \/ Drop(d) \/ Unrow(d)

Next ==
    \/ \E u \in Uploads : Upload(u) \/ StoreFails(u) \/ LateInsert(u) \/ Lost(u)
    \/ \E r \in Readers : Query(r) \/ ReaderFails(r)
    \/ \E g \in Gets : Download(g)
    \/ \E d \in Deletes : Delete(d) \/ DropFails(d) \/ UnrowFails(d) \/ LateUnrow(d)

Spec == Init /\ [][Next]_vars

\* The servers' threads run on.  A monitor that is free goes to a waiter.
Fairness ==
    /\ \A u \in Uploads : WF_vars(Upload(u))
    /\ \A r \in Readers : WF_vars(Query(r))
    /\ \A g \in Gets : WF_vars(Download(g))
    /\ \A d \in Deletes : WF_vars(Delete(d))
FairSpec == Spec /\ Fairness

(***************************************************************************)
(* Properties                                                              *)
(***************************************************************************)

Dropped(d) == pc[d] = "unrow" \/ answer[d] \in {"deleted", "halfway"}

\* A row without its blob exists only because a delete removed the blob: the
\* blob is stored before its row, also before a late one.
RowsHaveBlobs ==
    \A f \in FileIds :
        sysFiles[f] # Null =>
            \/ sysFiles[f] \in gridFs
            \/ \E d \in Deletes : Dropped(d) /\ row[d] = sysFiles[f]

\* An upload that was answered with a file id keeps its row and its blob until
\* a delete removes the blob, found through that row or through a second one
\* that a late insert left.
UploadsStay ==
    \A u \in Uploads :
        told[u] # Null =>
            \/ sysFiles[told[u]] = u /\ u \in gridFs
            \/ \E d \in Deletes : Dropped(d) /\ row[d] = u

\* However stale the cached row is, no download begins to serve a file whose
\* delete was answered before.
NotServedAfterDelete ==
    [][\A g \in Gets :
          pc[g] # "copy" /\ pc'[g] = "copy" =>
              ~ \E d \in Deletes : answer[d] = "deleted" /\ row[d] = row[g]]_vars

\* The second look inside the monitor: however many requests miss at once, a
\* provider puts a row into the cache at most once, and once it has, it does not
\* read the table for that row any more.  (A request that fails between its read
\* and the put is followed by another read.)
FilledOncePerProvider ==
    /\ \A p \in Providers, f \in FileIds : fills[p][f] <= 1
    /\ \A r \in Readers : pc[r] \in {"read", "fill"} => fills[ServedBy[r]][Target[r]] = 0

\* Every request is answered: the monitor is left on every path.
EveryRequestEnds == \A r \in Requests : <>(pc[r] = "done")

\* "File deleted": the file's row is gone.
DeletedMeansRowGone ==
    \A d \in Deletes : answer[d] = "deleted" => sysFiles[Target[d]] = Null
=============================================================================
