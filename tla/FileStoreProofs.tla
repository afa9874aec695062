--------------------------- MODULE FileStoreProofs ---------------------------
(***************************************************************************)
(* Theorems about FileStore for every number of uploads, downloads,        *)
(* deletes, files, providers and resends.                                  *)
(***************************************************************************)
EXTENDS FileStore, FiniteSetTheorems, TLAPS

\* An attempt that may still run is one that timed out, and an upload that
\* may still time out has done so at most Retries times.
SendsLeft ==
    \A u \in Uploads :
        /\ late[u] <= resent[u]
        /\ pc[u] \in {"store", "insert", "waiting"} => resent[u] <= Retries

TypeInv == TypeOK /\ SendsLeft

LEMMA KeysAreNumbers == Cardinality(FileIds) \in Nat /\ FileIds \subseteq Nat
BY FileIdsAssumption, FS_CardinalityType DEF FileIdsAssumption

LEMMA TypeInit == Init => TypeInv
<1>1. 1 \in 1..(Cardinality(FileIds) + 1)
  BY KeysAreNumbers
<1>2. 0 \in 0..(Retries + 1) /\ 0 <= Retries
  BY RetriesAssumption DEF RetriesAssumption
<1>. QED
  BY <1>1, <1>2, KindsAssumption
     DEF Init, TypeInv, TypeOK, SendsLeft, Labels, Requests, Readers, KindsAssumption

-----------------------------------------------------------------------------
(***************************************************************************)
(* The steps of uploads and the steps of readers keep apart.               *)
(***************************************************************************)
UploadStep(u) ==
    Store(u) \/ Send(u) \/ Insert(u) \/ TimeOut(u) \/ StoreFails(u)
        \/ LateInsert(u) \/ Lost(u)
ReaderStep(r) ==
    \/ Query(r) \/ ReaderFails(r)
    \/ r \in Gets /\ Download(r)
    \/ r \in Deletes /\ (Delete(r) \/ DropFails(r) \/ UnrowFails(r) \/ LateUnrow(r))

LEMMA StepKinds ==
    ASSUME [Next]_vars
    PROVE  \/ \E u \in Uploads : UploadStep(u)
           \/ \E r \in Readers : ReaderStep(r)
           \/ UNCHANGED vars
BY DEF Next, UploadStep, Upload, ReaderStep, Readers

LEMMA UploadTypes ==
    ASSUME TypeInv, NEW u \in Uploads, UploadStep(u)
    PROVE  TypeInv'
<1>. USE KeysAreNumbers, KindsAssumption, FileNullAssumption, RetriesAssumption
     DEF TypeInv, KindsAssumption, FileNullAssumption, RetriesAssumption, Requests
<1>1. ASSUME InsertRow(u)
      PROVE  /\ sysFiles' \in [FileIds -> Uploads \cup {Null}]
             /\ nextId' \in 1..(Cardinality(FileIds) + 1)
             /\ nextId \in FileIds
  BY <1>1, FileIdsAssumption DEF InsertRow, TypeOK, FileIdsAssumption
<1>2. CASE Store(u) \/ Send(u)
  BY <1>2 DEF Store, Send, Go, stores, uploading, TypeOK, SendsLeft, Labels
<1>7. CASE StoreFails(u)
  BY <1>7 DEF StoreFails, Go, Answer, uploading, TypeOK, SendsLeft, Labels
<1>3. CASE Insert(u)
  BY <1>1, <1>3 DEF Insert, Go, Answer, TypeOK, SendsLeft, Labels
<1>4. CASE TimeOut(u)
  BY <1>4 DEF TimeOut, Go, Answer, stores, TypeOK, SendsLeft, Labels
<1>5. CASE LateInsert(u)
  BY <1>1, <1>5 DEF LateInsert, TypeOK, SendsLeft
<1>6. CASE Lost(u)
  BY <1>6 DEF Lost, stores, TypeOK, SendsLeft
<1>. QED BY <1>2, <1>3, <1>4, <1>5, <1>6, <1>7 DEF UploadStep

(***************************************************************************)
(* What the steps of one reader can do at most, whichever it takes.        *)
(***************************************************************************)
PcMoves(r) ==
    \/ pc' = pc
    \/ \E to \in Labels \ {"store", "insert", "waiting"} :
          pc' = [pc EXCEPT ![r] = to]
RowMoves(r) ==
    \/ row' = row
    \/ /\ pc[r] \in {"get", "recheck", "read"}
       /\ \E b \in {cache[Target[r]], sysFiles[Target[r]]} :
             row' = [row EXCEPT ![r] = b]
CacheMoves(r) ==
    \/ UNCHANGED <<cache, fills>>
    \/ /\ pc[r] = "fill"
       /\ cache' = [cache EXCEPT ![Target[r]] = row[r]]
       /\ fills' = [fills EXCEPT ![ServedBy[r]][Target[r]] = @ + 1]
BlobsMove(r) ==
    \/ gridFs' = gridFs
    \/ r \in Deletes /\ pc[r] = "drop" /\ gridFs' = gridFs \ {row[r]} /\ Dropped(r)'
TableMoves(r) ==
    \/ sysFiles' = sysFiles
    \/ r \in Deletes /\ Dropped(r) /\ sysFiles' = [sysFiles EXCEPT ![Target[r]] = Null]
AnswerMoves(r) ==
    \/ answer' = answer
    \/ /\ pc'[r] = "done" /\ pc[r] # "done"
       /\ \E a \in {"failed", "halfway", "nothing", "served", "deleted"} :
             answer' = [answer EXCEPT ![r] = a]

ReaderMoves(r) ==
    /\ PcMoves(r) /\ RowMoves(r) /\ CacheMoves(r)
    /\ BlobsMove(r) /\ TableMoves(r) /\ AnswerMoves(r)
    /\ UNCHANGED <<nextId, resent, late, told>>
    /\ \/ monitor' = monitor
       \/ \E h \in {r, Null} : monitor' = [monitor EXCEPT ![ServedBy[r]] = h]

LEMMA ReaderEffects ==
    ASSUME TypeOK, NEW r \in Readers, ReaderStep(r)
    PROVE  ReaderMoves(r)
<1>. USE DEF ReaderMoves, PcMoves, RowMoves, CacheMoves, BlobsMove, TableMoves, AnswerMoves,
             Labels, Go, Answer, Leave, stores, uploading, Dropped
<1>0. r \in Requests /\ pc \in [Requests -> Labels]
        /\ answer \in [Requests -> {"none", "failed", "halfway", "nothing",
                                   "uploaded", "served", "deleted"}]
  BY DEF Requests, TypeOK
<1>1. CASE Get(r) \/ Enter(r)
  BY <1>0, <1>1 DEF Get, Enter
<1>2. CASE Recheck(r) \/ Read(r)
  BY <1>0, <1>2 DEF Recheck, Read
<1>3. CASE Fill(r)
  BY <1>0, <1>3 DEF Fill
<1>4. CASE FindToServe(r) \/ Open(r) \/ Copy(r)
  BY <1>0, <1>4 DEF FindToServe, Open, Copy
<1>5. CASE r \in Deletes /\ FindToDelete(r)
  BY <1>0, <1>5 DEF FindToDelete
<1>6. CASE r \in Deletes /\ Drop(r)
  BY <1>0, <1>6 DEF Drop
<1>7. CASE r \in Deletes /\ Unrow(r)
  BY <1>0, <1>7 DEF Unrow
<1>8. CASE r \in Deletes /\ DropFails(r)
  BY <1>0, <1>8 DEF DropFails
<1>9. CASE r \in Deletes /\ UnrowFails(r)
  BY <1>0, <1>9 DEF UnrowFails
<1>10. CASE r \in Deletes /\ LateUnrow(r)
  BY <1>0, <1>10 DEF LateUnrow
<1>11. CASE ReaderFails(r)
  BY <1>0, <1>11 DEF ReaderFails
<1>. QED
  BY <1>1, <1>2, <1>3, <1>4, <1>5, <1>6, <1>7, <1>8, <1>9, <1>10, <1>11
     DEF ReaderStep, Query, Download, Delete

LEMMA ReaderTypes ==
    ASSUME TypeInv, NEW r \in Readers, ReaderMoves(r)
    PROVE  TypeInv'
<1>. USE KindsAssumption, TargetAssumption, ServedByAssumption
     DEF KindsAssumption, TargetAssumption, ServedByAssumption, TypeInv, ReaderMoves
<1>1. /\ r \in Requests /\ Target[r] \in FileIds /\ ServedBy[r] \in Providers
      /\ \A u \in Uploads : u # r /\ u \in Requests
  BY DEF Requests
<1>2. pc' \in [Requests -> Labels]
  BY <1>1 DEF PcMoves, TypeOK
<1>3. row' \in [Readers -> Uploads \cup {Null}]
  BY <1>1 DEF RowMoves, TypeOK
<1>4. cache' \in [FileIds -> Uploads \cup {Null}] /\ fills' \in [Providers -> [FileIds -> Nat]]
  <2>1. CASE UNCHANGED <<cache, fills>>
    BY <2>1 DEF TypeOK
  <2>2. CASE /\ cache' = [cache EXCEPT ![Target[r]] = row[r]]
             /\ fills' = [fills EXCEPT ![ServedBy[r]][Target[r]] = @ + 1]
    <3>1. cache' \in [FileIds -> Uploads \cup {Null}]
      BY <1>1, <2>2 DEF TypeOK
    <3>2. fills[ServedBy[r]] \in [FileIds -> Nat]
      BY <1>1 DEF TypeOK
    <3>3. [fills[ServedBy[r]] EXCEPT ![Target[r]] = @ + 1] \in [FileIds -> Nat]
      BY <1>1, <3>2
    <3>. QED BY <1>1, <2>2, <3>1, <3>3 DEF TypeOK
  <2>. QED BY <2>1, <2>2 DEF CacheMoves
<1>5. gridFs' \subseteq Uploads /\ sysFiles' \in [FileIds -> Uploads \cup {Null}]
  BY <1>1 DEF BlobsMove, TableMoves, TypeOK
<1>6. answer' \in [Requests -> {"none", "failed", "halfway", "nothing",
                               "uploaded", "served", "deleted"}]
  BY <1>1 DEF AnswerMoves, TypeOK
<1>7. monitor' \in [Providers -> Readers \cup {Null}]
  <2>1. CASE monitor' = monitor
    BY <2>1 DEF TypeOK
  <2>2. ASSUME NEW h \in {r, Null}, monitor' = [monitor EXCEPT ![ServedBy[r]] = h]
        PROVE  monitor' \in [Providers -> Readers \cup {Null}]
    BY <1>1, <2>2 DEF TypeOK
  <2>. QED BY <2>1, <2>2
<1>8. SendsLeft'
  BY <1>1 DEF PcMoves, SendsLeft, TypeOK
<1>. QED BY <1>2, <1>3, <1>4, <1>5, <1>6, <1>7, <1>8 DEF TypeOK

LEMMA TypeStep == TypeInv /\ [Next]_vars => TypeInv'
<1>. SUFFICES ASSUME TypeInv, [Next]_vars
              PROVE  TypeInv'
  OBVIOUS
<1>1. ASSUME UNCHANGED vars
      PROVE  TypeInv'
  BY <1>1 DEF vars, stores, TypeInv, TypeOK, SendsLeft
<1>2. ASSUME NEW r \in Readers, ReaderStep(r)
      PROVE  TypeInv'
  BY <1>2, ReaderEffects, ReaderTypes DEF TypeInv
<1>. QED BY <1>1, <1>2, StepKinds, UploadTypes

\* Every variable keeps its type: no key is given out beyond those there are, and
\* no upload is sent more often than Retries allows.
THEOREM TypeCorrect == Spec => []TypeOK
<1>1. TypeInv => TypeOK
  BY DEF TypeInv
<1>. QED BY <1>1, TypeInit, TypeStep, PTL DEF Spec

-----------------------------------------------------------------------------
(***************************************************************************)
(* The second look at the cache.  A reader inside synchronized(this) holds *)
(* the monitor of its provider; while it reads the table nobody else can   *)
(* have filled the same entry through this provider, and an entry that has *)
(* been filled stays, for nothing invalidates it.                          *)
(***************************************************************************)
Inside(r) == pc[r] \in {"recheck", "read", "fill"}
Guarded == \A r \in Readers : Inside(r) => monitor[ServedBy[r]] = r
\* FilledOncePerProvider, in its two parts.
FilledOnce == \A p \in Providers, f \in FileIds : fills[p][f] <= 1
Unfilled ==
    \A r \in Readers : pc[r] \in {"read", "fill"} => fills[ServedBy[r]][Target[r]] = 0
FilledStays ==
    \A p \in Providers, f \in FileIds : fills[p][f] # 0 => cache[f] # Null
FillsARow == \A r \in Readers : pc[r] = "fill" => row[r] # Null

FillInv == TypeInv /\ Guarded /\ Unfilled /\ FilledOnce /\ FilledStays /\ FillsARow

LEMMA UploadLeavesReaders ==
    ASSUME TypeInv, NEW u \in Uploads, UploadStep(u)
    PROVE  /\ UNCHANGED <<cache, fills, monitor, row>>
           /\ \A r \in Readers : pc'[r] = pc[r] /\ answer'[r] = answer[r]
<1>. USE KindsAssumption
     DEF KindsAssumption, TypeInv, TypeOK, Requests, Go, Answer, stores, uploading
<1>1. CASE Store(u) \/ Send(u) \/ StoreFails(u)
  BY <1>1 DEF Store, Send, StoreFails
<1>2. CASE Insert(u) \/ TimeOut(u)
  BY <1>2 DEF Insert, TimeOut
<1>3. CASE LateInsert(u) \/ Lost(u)
  BY <1>3 DEF LateInsert, Lost
<1>. QED BY <1>1, <1>2, <1>3 DEF UploadStep

LEMMA GuardedStep ==
    ASSUME TypeOK, Guarded, NEW r \in Readers, ReaderStep(r)
    PROVE  Guarded'
<1>. USE ServedByAssumption
     DEF ServedByAssumption, Guarded, Inside, TypeOK, Requests, Go, Leave
<1>1. CASE Get(r)
  BY <1>1 DEF Get
<1>2. CASE Enter(r)
  BY <1>2, FileNullAssumption DEF Enter, FileNullAssumption
<1>3. CASE Recheck(r)
  BY <1>3 DEF Recheck
<1>4. CASE Read(r)
  BY <1>4 DEF Read
<1>5. CASE Fill(r)
  BY <1>5 DEF Fill
<1>6. CASE FindToServe(r) \/ Open(r) \/ Copy(r)
  BY <1>6 DEF FindToServe, Open, Copy
<1>7. CASE FindToDelete(r) \/ Drop(r) \/ Unrow(r) \/ DropFails(r) \/ UnrowFails(r)
  BY <1>7 DEF FindToDelete, Drop, Unrow, DropFails, UnrowFails
<1>8. CASE LateUnrow(r)
  BY <1>8 DEF LateUnrow
<1>9. CASE ReaderFails(r)
  BY <1>9 DEF ReaderFails
<1>. QED
  BY <1>1, <1>2, <1>3, <1>4, <1>5, <1>6, <1>7, <1>8, <1>9
     DEF ReaderStep, Query, Download, Delete

\* The table is read after a miss inside the monitor, and what is put into the
\* cache is a row that was found.
LEMMA ReadAfterMiss ==
    ASSUME TypeOK, NEW r \in Readers, ReaderStep(r), pc'[r] \in {"read", "fill"}
    PROVE  /\ UNCHANGED <<cache, fills>>
           /\ \/ pc[r] = "recheck" /\ pc'[r] = "read" /\ cache[Target[r]] = Null
              \/ pc[r] = "read" /\ pc'[r] = "fill" /\ row'[r] # Null
<1>. USE DEF TypeOK, Requests, Go, stores
<1>1. CASE Get(r) \/ Enter(r) \/ Fill(r) \/ ReaderFails(r)
  BY <1>1 DEF Get, Enter, Fill, ReaderFails
<1>2. CASE Recheck(r) \/ Read(r)
  BY <1>2 DEF Recheck, Read
<1>3. CASE FindToServe(r) \/ Open(r) \/ Copy(r)
  BY <1>3 DEF FindToServe, Open, Copy
<1>4. CASE FindToDelete(r) \/ Drop(r) \/ Unrow(r) \/ DropFails(r) \/ UnrowFails(r)
  BY <1>4 DEF FindToDelete, Drop, Unrow, DropFails, UnrowFails
<1>5. CASE LateUnrow(r)
  BY <1>5 DEF LateUnrow
<1>. QED BY <1>1, <1>2, <1>3, <1>4, <1>5 DEF ReaderStep, Query, Download, Delete

LEMMA FillStep ==
    ASSUME FillInv, NEW r \in Readers, ReaderStep(r)
    PROVE  Unfilled' /\ FilledStays' /\ FillsARow' /\ FilledOnce'
<1>. DEFINE p == ServedBy[r]
            f == Target[r]
<1>1. p \in Providers /\ f \in FileIds /\ TypeOK /\ ReaderMoves(r)
  BY TargetAssumption, ServedByAssumption, ReaderEffects
     DEF TargetAssumption, ServedByAssumption, FillInv, TypeInv
<1>2. \A s \in Readers : s # r => pc'[s] = pc[s] /\ row'[s] = row[s]
  <2>. SUFFICES ASSUME NEW s \in Readers, s # r
                PROVE  pc'[s] = pc[s] /\ row'[s] = row[s]
    OBVIOUS
  <2>1. pc'[s] = pc[s]
    BY <1>1 DEF ReaderMoves, PcMoves, TypeOK, Requests
  <2>2. row'[s] = row[s]
    BY <1>1 DEF ReaderMoves, RowMoves, TypeOK
  <2>. QED BY <2>1, <2>2
<1>3. FillsARow'
  BY <1>1, <1>2, ReadAfterMiss DEF FillInv, FillsARow
<1>4. CASE UNCHANGED <<cache, fills>>
  <2>1. Unfilled'
    <3>. SUFFICES ASSUME NEW s \in Readers, pc'[s] \in {"read", "fill"}
                  PROVE  fills[ServedBy[s]][Target[s]] = 0
      BY <1>4 DEF Unfilled
    <3>1. CASE s # r
      BY <1>2, <3>1 DEF FillInv, Unfilled
    <3>2. CASE s = r
      BY <1>1, <3>2, ReadAfterMiss DEF FillInv, Unfilled, FilledStays
    <3>. QED BY <3>1, <3>2
  <2>. QED BY <1>3, <1>4, <2>1 DEF FillInv, FilledStays, FilledOnce
<1>5. CASE /\ pc[r] = "fill"
           /\ cache' = [cache EXCEPT ![f] = row[r]]
           /\ fills' = [fills EXCEPT ![p][f] = @ + 1]
  <2>1. row[r] # Null /\ fills[p][f] = 0 /\ monitor[p] = r
    BY <1>5 DEF FillInv, FillsARow, Unfilled, Guarded, Inside
  <2>2. /\ fills'[p][f] = 1
        /\ \A q \in Providers, g \in FileIds :
              q # p \/ g # f => fills'[q][g] = fills[q][g]
    <3>1. fills \in [Providers -> [FileIds -> Nat]] /\ fills[p] \in [FileIds -> Nat]
      BY <1>1 DEF TypeOK
    <3>2. \A q \in Providers : fills'[q] = IF q = p THEN [fills[p] EXCEPT ![f] = @ + 1]
                                                     ELSE fills[q]
      BY <1>1, <1>5, <3>1
    <3>3. fills'[p][f] = 1 /\ \A g \in FileIds : g # f => fills'[p][g] = fills[p][g]
      BY <1>1, <2>1, <3>1, <3>2
    <3>. QED BY <3>2, <3>3
  <2>3. \A g \in FileIds : cache'[g] = IF g = f THEN row[r] ELSE cache[g]
    BY <1>1, <1>5 DEF TypeOK
  <2>4. FilledStays' /\ FilledOnce'
    BY <2>1, <2>2, <2>3 DEF FillInv, FilledStays, FilledOnce
  <2>5. Unfilled'
    <3>. SUFFICES ASSUME NEW s \in Readers, pc'[s] \in {"read", "fill"}
                  PROVE  fills'[ServedBy[s]][Target[s]] = 0
      BY DEF Unfilled
    <3>1. s # r
      BY <1>1, <1>5, <2>1, <2>2, ReadAfterMiss DEF TypeOK
    <3>2. pc[s] = pc'[s] /\ ServedBy[s] # p
      BY <1>2, <2>1, <3>1 DEF FillInv, Guarded, Inside
    <3>. QED
      BY <2>2, <3>2, TargetAssumption, ServedByAssumption
         DEF TargetAssumption, ServedByAssumption, FillInv, Unfilled
  <2>. QED BY <1>3, <2>4, <2>5
<1>. QED BY <1>1, <1>4, <1>5 DEF ReaderMoves, CacheMoves

\* However many requests miss at once, in any order and with any of them failing,
\* a provider puts a row into the cache at most once, and reads the table for it
\* only as long as it has not.
THEOREM FillsAreSingle == Spec => []FilledOncePerProvider
<1>1. Init => FillInv
  BY TypeInit, KindsAssumption, TargetAssumption, ServedByAssumption
     DEF KindsAssumption, TargetAssumption, ServedByAssumption, Init, FillInv, Guarded, Inside,
         Unfilled, FilledStays, FillsARow, FilledOnce, Requests
<1>2. FillInv /\ [Next]_vars => FillInv'
  <2>. SUFFICES ASSUME FillInv, [Next]_vars
                PROVE  FillInv'
    OBVIOUS
  <2>1. TypeInv'
    BY TypeStep DEF FillInv
  <2>2. CASE UNCHANGED vars
    BY <2>1, <2>2
       DEF vars, stores, FillInv, Guarded, Inside, Unfilled, FilledStays, FillsARow,
           FilledOnce
  <2>3. ASSUME NEW u \in Uploads, UploadStep(u)
        PROVE  FillInv'
    BY <2>1, <2>3, UploadLeavesReaders
       DEF FillInv, Guarded, Inside, Unfilled, FilledStays, FillsARow, FilledOnce
  <2>4. ASSUME NEW r \in Readers, ReaderStep(r)
        PROVE  FillInv'
    BY <2>1, <2>4, GuardedStep, FillStep DEF FillInv, TypeInv
  <2>. QED BY <2>2, <2>3, <2>4, StepKinds
<1>3. FillInv => FilledOncePerProvider
  BY DEF FillInv, FilledOnce, Unfilled, FilledOncePerProvider
<1>. QED BY <1>1, <1>2, <1>3, PTL DEF Spec

-----------------------------------------------------------------------------
(***************************************************************************)
(* Rows, blobs and what readers remember of them.  A key is given out once,*)
(* so all that the table, the cache and the readers ever show under it is  *)
(* one upload's blob.                                                      *)
(***************************************************************************)
Stored(u) == u \in gridFs \/ \E d \in Deletes : Dropped(d) /\ row[d] = u
Carries(f, B) ==
    /\ sysFiles[f] \in B /\ cache[f] \in B
    /\ \A r \in Readers : Target[r] = f => row[r] \in B

\* The bytes are stored before the call that inserts the row is sent.
SentIsStored ==
    \A u \in Uploads : pc[u] \in {"insert", "waiting"} \/ late[u] > 0 => Stored(u)

\* Nothing shows a blob before its upload begins.
NewIsUnknown ==
    \A u \in Uploads : pc[u] = "store" =>
        late[u] = 0 /\ \A f \in FileIds : Carries(f, (Uploads \ {u}) \cup {Null})

KeysGivenOnce ==
    /\ \A f \in FileIds : f >= nextId => Carries(f, {Null})
    /\ \A u \in Uploads : told[u] # Null => told[u] < nextId /\ Carries(told[u], {u, Null})

\* A delete that got as far as the blob knows which one, and then it is gone.
DeletesAreAnswered ==
    \A d \in Deletes :
        /\ pc[d] # "done" => answer[d] = "none"
        /\ pc[d] = "drop" \/ Dropped(d) => row[d] # Null
        /\ pc[d] = "unrow" \/ answer[d] = "deleted" => row[d] \notin gridFs

BlobInv ==
    /\ TypeInv /\ SentIsStored /\ NewIsUnknown /\ KeysGivenOnce /\ DeletesAreAnswered
    /\ RowsHaveBlobs /\ UploadsStay

\* How a delete gets to its end.
DeleteMoves(d) ==
    /\ pc'[d] # "done" => answer'[d] = answer[d] /\ pc[d] # "done"
    /\ pc'[d] = "drop" => row[d] # Null /\ row' = row
    /\ pc'[d] = "unrow" => pc[d] = "drop" /\ row' = row /\ gridFs' = gridFs \ {row[d]}
    /\ answer'[d] = "halfway" => pc[d] = "drop" \/ answer[d] = "halfway"
    /\ answer'[d] = "deleted" => pc[d] = "unrow" \/ answer[d] = "deleted"
    /\ pc[d] = "unrow" => pc'[d] = "done" /\ answer'[d] = "deleted"
    /\ pc[d] \in {"drop", "unrow", "done"} => row' = row
    /\ pc[d] = "done" => pc'[d] = "done" /\ answer'[d] = answer[d]
    /\ pc[d] # "drop" => gridFs' = gridFs

LEMMA DeleteEffects ==
    ASSUME TypeOK, NEW d \in Deletes, ReaderStep(d)
    PROVE  DeleteMoves(d)
<1>. USE KindsAssumption
     DEF KindsAssumption, DeleteMoves, TypeOK, Requests, Readers, Go, Answer, stores
<1>1. CASE Query(d)
  BY <1>1 DEF Query, Get, Enter, Recheck, Read, Fill
<1>2. CASE FindToDelete(d)
  BY <1>2 DEF FindToDelete, Found
<1>3. CASE Drop(d) \/ DropFails(d)
  BY <1>3 DEF Drop, DropFails
<1>4. CASE Unrow(d) \/ UnrowFails(d)
  BY <1>4 DEF Unrow, UnrowFails
<1>5. CASE LateUnrow(d)
  BY <1>5 DEF LateUnrow
<1>6. CASE ReaderFails(d)
  BY <1>6 DEF ReaderFails
<1>. QED BY <1>1, <1>2, <1>3, <1>4, <1>5, <1>6 DEF ReaderStep, Delete

\* What was dropped stays dropped, by whatever step.
LEMMA DroppedStays ==
    ASSUME TypeInv, DeletesAreAnswered, [Next]_vars, NEW d \in Deletes, Dropped(d)
    PROVE  Dropped(d)' /\ row'[d] = row[d]
<1>1. d \in Readers
  BY DEF Readers
<1>2. CASE UNCHANGED vars
  BY <1>2 DEF vars, Dropped
<1>3. ASSUME NEW u \in Uploads, UploadStep(u)
      PROVE  Dropped(d)' /\ row'[d] = row[d]
  BY <1>1, <1>3, UploadLeavesReaders DEF Dropped
<1>4. ASSUME NEW r \in Readers, ReaderStep(r)
      PROVE  Dropped(d)' /\ row'[d] = row[d]
  <2>1. CASE r = d
    BY <1>4, <2>1, DeleteEffects DEF DeleteMoves, Dropped, DeletesAreAnswered, TypeInv
  <2>2. CASE r # d
    <3>1. ReaderMoves(r)
      BY <1>4, ReaderEffects DEF TypeInv
    <3>2. pc'[d] = pc[d]
      BY <1>1, <2>2, <3>1 DEF ReaderMoves, PcMoves, TypeInv, TypeOK, Requests
    <3>3. row'[d] = row[d]
      BY <1>1, <2>2, <3>1 DEF ReaderMoves, RowMoves, TypeInv, TypeOK
    <3>4. answer'[d] = answer[d]
      BY <1>1, <2>2, <3>1 DEF ReaderMoves, AnswerMoves, TypeInv, TypeOK, Requests
    <3>. QED BY <3>2, <3>3, <3>4 DEF Dropped
  <2>. QED BY <2>1, <2>2
<1>. QED BY <1>2, <1>3, <1>4, StepKinds

\* A blob that was stored stays so until a delete drops it.
LEMMA StoredStays ==
    ASSUME TypeInv, DeletesAreAnswered, [Next]_vars, NEW u \in Uploads, Stored(u)
    PROVE  Stored(u)'
<1>1. CASE \E d \in Deletes : Dropped(d) /\ row[d] = u
  BY <1>1, DroppedStays DEF Stored
<1>2. CASE u \in gridFs
  <2>1. CASE UNCHANGED vars
    BY <1>2, <2>1 DEF vars, stores, Stored
  <2>2. ASSUME NEW v \in Uploads, UploadStep(v)
        PROVE  u \in gridFs'
    BY <1>2, <2>2
       DEF UploadStep, Store, Send, Insert, TimeOut, StoreFails, LateInsert, Lost, stores
  <2>3. ASSUME NEW r \in Readers, ReaderStep(r)
        PROVE  Stored(u)'
    <3>1. BlobsMove(r) /\ RowMoves(r)
      BY <2>3, ReaderEffects DEF TypeInv, ReaderMoves
    <3>. QED BY <1>2, <3>1 DEF BlobsMove, RowMoves, Stored
  <2>. QED BY <2>1, <2>2, <2>3, StepKinds DEF Stored
<1>. QED BY <1>1, <1>2 DEF Stored

\* No reader's step brings anything new under a key.
LEMMA CarriesStays ==
    ASSUME TypeInv, NEW r \in Readers, ReaderMoves(r), NEW f \in FileIds,
           NEW B, Null \in B, Carries(f, B)
    PROVE  Carries(f, B)'
<1>. USE TargetAssumption DEF TargetAssumption, TypeInv, Carries, ReaderMoves
<1>1. sysFiles'[f] \in B
  BY DEF TableMoves, TypeOK
<1>2. cache'[f] \in B
  BY DEF CacheMoves, TypeOK
<1>3. ASSUME NEW s \in Readers, Target[s] = f
      PROVE  row'[s] \in B
  BY <1>3 DEF RowMoves, TypeOK
<1>. QED BY <1>1, <1>2, <1>3

\* A row that is inserted gets a key under which nothing was shown before.
LEMMA InsertKeepsKeys ==
    ASSUME BlobInv, NEW u \in Uploads, InsertRow(u), UNCHANGED <<cache, row>>
    PROVE  /\ sysFiles'[nextId] = u
           /\ \A f \in FileIds : f # nextId => sysFiles'[f] = sysFiles[f]
           /\ \A f \in FileIds : \A B :
                 Carries(f, B) /\ (f = nextId => u \in B) => Carries(f, B)'
           /\ \A f \in FileIds : f >= nextId' => f >= nextId /\ f # nextId
           /\ \A v \in Uploads : told[v] # Null => told[v] < nextId' /\ told[v] # nextId
           /\ nextId < nextId' /\ nextId \in FileIds
           /\ \A f \in FileIds : f = nextId => Carries(f, {u, Null})'
<1>1. nextId \in FileIds /\ nextId \in Nat /\ nextId' = nextId + 1
  BY KeysAreNumbers DEF InsertRow, BlobInv, TypeInv, TypeOK
<1>2. /\ sysFiles'[nextId] = u
      /\ \A f \in FileIds : f # nextId => sysFiles'[f] = sysFiles[f]
  BY <1>1 DEF InsertRow, BlobInv, TypeInv, TypeOK
<1>3. \A f \in FileIds : \A B : Carries(f, B) /\ (f = nextId => u \in B) => Carries(f, B)'
  BY <1>2 DEF Carries
<1>4. Carries(nextId, {Null})
  BY <1>1 DEF BlobInv, KeysGivenOnce
<1>5. \A f \in FileIds : f = nextId => Carries(f, {u, Null})'
  BY <1>2, <1>4 DEF Carries
<1>6. \A f \in FileIds : f >= nextId' => f >= nextId /\ f # nextId
  BY <1>1, KeysAreNumbers
<1>7. \A v \in Uploads : told[v] # Null => told[v] < nextId' /\ told[v] # nextId
  <2>. SUFFICES ASSUME NEW v \in Uploads, told[v] # Null
                PROVE  told[v] < nextId' /\ told[v] # nextId
    OBVIOUS
  <2>1. told[v] \in Nat /\ told[v] < nextId
    BY KeysAreNumbers DEF BlobInv, KeysGivenOnce, TypeInv, TypeOK
  <2>. QED BY <1>1, <2>1
<1>8. nextId < nextId'
  BY <1>1
<1>. QED BY <1>1, <1>2, <1>3, <1>5, <1>6, <1>7, <1>8

\* An upload that is beyond its store is known as stored.
LEMMA UploadKeepsBlobs ==
    ASSUME BlobInv, NEW u \in Uploads, UploadStep(u), [Next]_vars
    PROVE  BlobInv'
<1>. USE DEF BlobInv
<1>1. /\ TypeInv'
      /\ UNCHANGED <<cache, fills, monitor, row>>
      /\ \A r \in Readers : pc'[r] = pc[r] /\ answer'[r] = answer[r]
      /\ \A v \in Uploads : Stored(v) => Stored(v)'
  BY TypeStep, UploadLeavesReaders, StoredStays
<1>2. \A d \in Deletes : d \in Readers /\ (Dropped(d)' <=> Dropped(d)) /\ row'[d] = row[d]
  BY <1>1 DEF Dropped, Readers
<1>3. \A v \in Uploads : v # u =>
        pc'[v] = pc[v] /\ late'[v] = late[v] /\ told'[v] = told[v]
  BY KindsAssumption
     DEF KindsAssumption, UploadStep, Store, Send, Insert, TimeOut, StoreFails, LateInsert,
         Lost, Go, stores, uploading, TypeInv, TypeOK, Requests
<1>4. CASE Store(u)
  <2>1. /\ pc[u] = "store" /\ pc'[u] = "insert" /\ gridFs' = gridFs \cup {u}
        /\ UNCHANGED <<sysFiles, nextId, late, told>>
    BY <1>4 DEF Store, Go, uploading, TypeInv, TypeOK, Requests
  <2>2. \A f \in FileIds : \A B : Carries(f, B)' <=> Carries(f, B)
    BY <1>1, <2>1 DEF Carries
  <2>3. SentIsStored'
    BY <1>1, <1>3, <2>1 DEF SentIsStored, Stored
  <2>4. NewIsUnknown'
    BY <1>3, <2>1, <2>2 DEF NewIsUnknown
  <2>5. KeysGivenOnce'
    BY <2>1, <2>2 DEF KeysGivenOnce, TypeInv, TypeOK
  <2>6. \A d \in Deletes : row[d] # u
    BY <1>2, <2>1, TargetAssumption, FileNullAssumption
       DEF TargetAssumption, FileNullAssumption, Requests, NewIsUnknown, Carries
  <2>7. DeletesAreAnswered'
    BY <1>1, <1>2, <2>1, <2>6 DEF DeletesAreAnswered
  <2>8. RowsHaveBlobs' /\ UploadsStay'
    BY <1>2, <2>1 DEF RowsHaveBlobs, UploadsStay
  <2>. QED BY <1>1, <2>3, <2>4, <2>5, <2>7, <2>8
<1>5. CASE StoreFails(u)
  <2>1. /\ pc[u] = "store" /\ pc'[u] = "done" /\ gridFs' \in {gridFs, gridFs \cup {u}}
        /\ UNCHANGED <<sysFiles, nextId, late, told>>
    BY <1>5 DEF StoreFails, Go, uploading, TypeInv, TypeOK, Requests
  <2>2. \A f \in FileIds : \A B : Carries(f, B)' <=> Carries(f, B)
    BY <1>1, <2>1 DEF Carries
  <2>3. SentIsStored'
    BY <1>1, <1>3, <2>1 DEF SentIsStored
  <2>4. NewIsUnknown'
    BY <1>3, <2>1, <2>2 DEF NewIsUnknown
  <2>5. KeysGivenOnce'
    BY <2>1, <2>2 DEF KeysGivenOnce, TypeInv, TypeOK
  <2>6. \A d \in Deletes : row[d] # u
    BY <1>2, <2>1, TargetAssumption, FileNullAssumption
       DEF TargetAssumption, FileNullAssumption, Requests, NewIsUnknown, Carries
  <2>7. DeletesAreAnswered'
    BY <1>1, <1>2, <2>1, <2>6 DEF DeletesAreAnswered
  <2>8. RowsHaveBlobs' /\ UploadsStay'
    BY <1>2, <2>1 DEF RowsHaveBlobs, UploadsStay
  <2>. QED BY <1>1, <2>3, <2>4, <2>5, <2>7, <2>8
<1>6. CASE Send(u) \/ TimeOut(u) \/ Lost(u)
  <2>0. pc[u] # "store" /\ pc'[u] # "store"
    <3>0. pc[u] = "store" => late[u] = 0
      BY DEF NewIsUnknown
    <3>1. pc[u] # "store"
      BY <1>6, <3>0 DEF Send, TimeOut, Lost, Go
    <3>. QED BY <1>6, <3>1 DEF Send, TimeOut, Lost, Go, TypeInv, TypeOK, Requests
  <2>1. /\ (pc'[u] \in {"insert", "waiting"} \/ late'[u] > 0) =>
             (pc[u] \in {"insert", "waiting"} \/ late[u] > 0)
        /\ UNCHANGED <<gridFs, sysFiles, nextId, told>>
    BY <1>6 DEF Send, TimeOut, Lost, Go, stores, uploading, TypeInv, TypeOK, Requests
  <2>2. \A f \in FileIds : \A B : Carries(f, B)' <=> Carries(f, B)
    BY <1>1, <2>1 DEF Carries
  <2>3. SentIsStored'
    BY <1>1, <1>3, <2>1 DEF SentIsStored
  <2>4. NewIsUnknown'
    BY <1>3, <2>0, <2>2 DEF NewIsUnknown
  <2>5. KeysGivenOnce'
    BY <2>1, <2>2 DEF KeysGivenOnce, TypeInv, TypeOK
  <2>6. DeletesAreAnswered'
    BY <1>1, <1>2, <2>1 DEF DeletesAreAnswered
  <2>7. RowsHaveBlobs' /\ UploadsStay'
    BY <1>2, <2>1 DEF RowsHaveBlobs, UploadsStay
  <2>. QED BY <1>1, <2>3, <2>4, <2>5, <2>6, <2>7
<1>7. CASE Insert(u) \/ LateInsert(u)
  <2>1. /\ InsertRow(u) /\ UNCHANGED gridFs
        /\ pc[u] \in {"insert", "waiting"} \/ late[u] > 0
        /\ told'[u] = told[u] \/ told'[u] = nextId
        /\ (pc'[u] \in {"insert", "waiting"} \/ late'[u] > 0) =>
             (pc[u] \in {"insert", "waiting"} \/ late[u] > 0)
    BY <1>7 DEF Insert, LateInsert, Go, TypeInv, TypeOK, Requests
  <2>2. Stored(u)
    BY <2>1 DEF SentIsStored
  <2>3. pc[u] # "store" /\ pc'[u] # "store"
    <3>0. pc[u] = "store" => late[u] = 0
      BY DEF NewIsUnknown
    <3>1. pc[u] # "store"
      BY <1>7, <3>0 DEF Insert, LateInsert, Go
    <3>. QED BY <1>7, <3>1 DEF Insert, LateInsert, Go, TypeInv, TypeOK, Requests
  <2>4. SentIsStored'
    BY <1>1, <1>3, <2>1 DEF SentIsStored
  <2>5. NewIsUnknown'
    BY <1>1, <1>3, <2>1, <2>3, InsertKeepsKeys DEF NewIsUnknown
  <2>6. KeysGivenOnce'
    <3>1. \A f \in FileIds : f >= nextId' => Carries(f, {Null})'
      BY <1>1, <2>1, InsertKeepsKeys DEF KeysGivenOnce
    <3>2. ASSUME NEW v \in Uploads, told'[v] # Null
          PROVE  told'[v] < nextId' /\ Carries(told[v], {v, Null})'
      <4>1. told'[v] \in FileIds
        BY <1>1, <3>2 DEF TypeInv, TypeOK
      <4>2. CASE told'[v] = told[v]
        BY <1>1, <2>1, <3>2, <4>1, <4>2, InsertKeepsKeys DEF KeysGivenOnce
      <4>3. CASE v = u /\ told'[v] = nextId
        BY <1>1, <2>1, <4>1, <4>3, InsertKeepsKeys
      <4>. QED BY <1>3, <2>1, <4>2, <4>3
    <3>. QED BY <3>1, <3>2 DEF KeysGivenOnce
  <2>7. DeletesAreAnswered'
    BY <1>1, <1>2, <2>1 DEF DeletesAreAnswered
  <2>8. RowsHaveBlobs'
    <3>. SUFFICES ASSUME NEW f \in FileIds, sysFiles'[f] # Null
                  PROVE  Stored(sysFiles[f])'
      BY DEF RowsHaveBlobs, Stored
    <3>1. CASE f = nextId
      BY <1>1, <2>1, <2>2, <3>1, InsertKeepsKeys
    <3>2. CASE f # nextId
      <4>1. sysFiles'[f] = sysFiles[f] /\ sysFiles[f] \in Uploads
        BY <1>1, <2>1, <3>2, InsertKeepsKeys DEF TypeInv, TypeOK
      <4>2. Stored(sysFiles[f])
        BY <4>1 DEF RowsHaveBlobs, Stored
      <4>. QED BY <1>1, <4>1, <4>2
    <3>. QED BY <3>1, <3>2
  <2>9. UploadsStay'
    <3>. SUFFICES ASSUME NEW v \in Uploads, told'[v] # Null
                  PROVE  \/ sysFiles'[told'[v]] = v /\ v \in gridFs'
                         \/ \E d \in Deletes : Dropped(d)' /\ row'[d] = v
      BY DEF UploadsStay
    <3>1. CASE told'[v] = told[v]
      <4>1. told[v] \in FileIds /\ told[v] # nextId
        BY <1>1, <2>1, <3>1, InsertKeepsKeys DEF TypeInv, TypeOK
      <4>2. sysFiles'[told'[v]] = sysFiles[told[v]]
        BY <1>1, <2>1, <3>1, <4>1, InsertKeepsKeys
      <4>. QED BY <1>2, <2>1, <3>1, <4>2 DEF UploadsStay
    <3>2. CASE v = u /\ told'[v] = nextId
      BY <1>1, <1>2, <2>1, <2>2, <3>2, InsertKeepsKeys DEF Stored
    <3>. QED BY <1>3, <2>1, <3>1, <3>2
  <2>. QED BY <1>1, <2>4, <2>5, <2>6, <2>7, <2>8, <2>9
<1>. QED BY <1>4, <1>5, <1>6, <1>7 DEF UploadStep

\* A reader shows nothing new, and drops only what a delete accounts for.
LEMMA ReaderKeepsBlobs ==
    ASSUME BlobInv, NEW r \in Readers, ReaderStep(r), [Next]_vars
    PROVE  BlobInv'
<1>. USE DEF BlobInv
<1>1. TypeInv' /\ ReaderMoves(r) /\ UNCHANGED <<nextId, late, told>>
  BY TypeStep, ReaderEffects DEF TypeInv, ReaderMoves
<1>2. \A u \in Uploads : pc'[u] = pc[u]
  BY <1>1, KindsAssumption
     DEF KindsAssumption, ReaderMoves, PcMoves, TypeInv, TypeOK, Requests
<1>3. \A u \in Uploads : Stored(u) => Stored(u)'
  BY StoredStays
<1>4. \A f \in FileIds : \A B : Null \in B /\ Carries(f, B) => Carries(f, B)'
  BY <1>1, CarriesStays
<1>5. \A d \in Deletes : Dropped(d) => Dropped(d)' /\ row'[d] = row[d]
  BY DroppedStays
<1>6. SentIsStored'
  BY <1>1, <1>2, <1>3 DEF SentIsStored
<1>7. NewIsUnknown'
  BY <1>1, <1>2, <1>4 DEF NewIsUnknown
<1>8. KeysGivenOnce'
  <2>1. \A f \in FileIds : f >= nextId' => Carries(f, {Null})'
    BY <1>1, <1>4 DEF KeysGivenOnce
  <2>2. ASSUME NEW u \in Uploads, told'[u] # Null
        PROVE  told'[u] < nextId' /\ Carries(told[u], {u, Null})'
    <3>1. told[u] \in FileIds /\ told[u] < nextId /\ Carries(told[u], {u, Null})
      BY <1>1, <2>2 DEF KeysGivenOnce, TypeInv, TypeOK
    <3>. QED BY <1>1, <1>4, <3>1
  <2>. QED BY <2>1, <2>2 DEF KeysGivenOnce
<1>9. DeletesAreAnswered'
  <2>. SUFFICES ASSUME NEW d \in Deletes
                PROVE  /\ pc'[d] # "done" => answer'[d] = "none"
                       /\ pc'[d] = "drop" \/ Dropped(d)' => row'[d] # Null
                       /\ pc'[d] = "unrow" \/ answer'[d] = "deleted" => row'[d] \notin gridFs'
    BY DEF DeletesAreAnswered
  <2>1. CASE d = r
    BY <2>1, DeleteEffects DEF DeleteMoves, DeletesAreAnswered, Dropped, TypeInv
  <2>2. CASE d # r
    <3>1. d \in Readers /\ gridFs' \subseteq gridFs
      BY <1>1 DEF Readers, ReaderMoves, BlobsMove
    <3>2. pc'[d] = pc[d]
      BY <1>1, <2>2, <3>1 DEF ReaderMoves, PcMoves, TypeInv, TypeOK, Requests
    <3>3. row'[d] = row[d]
      BY <1>1, <2>2, <3>1 DEF ReaderMoves, RowMoves, TypeInv, TypeOK
    <3>4. answer'[d] = answer[d]
      BY <1>1, <2>2, <3>1 DEF ReaderMoves, AnswerMoves, TypeInv, TypeOK, Requests
    <3>. QED BY <3>1, <3>2, <3>3, <3>4 DEF DeletesAreAnswered, Dropped
  <2>. QED BY <2>1, <2>2
<1>10. \A f \in FileIds :
          \/ sysFiles'[f] = sysFiles[f]
          \/ sysFiles'[f] = Null /\ r \in Deletes /\ Dropped(r) /\ Target[r] = f
  BY <1>1, TargetAssumption
     DEF TargetAssumption, ReaderMoves, TableMoves, TypeInv, TypeOK
<1>11. RowsHaveBlobs'
  <2>. SUFFICES ASSUME NEW f \in FileIds, sysFiles'[f] # Null
                PROVE  Stored(sysFiles[f])'
    BY DEF RowsHaveBlobs, Stored
  <2>1. sysFiles'[f] = sysFiles[f] /\ sysFiles[f] \in Uploads
    BY <1>10 DEF TypeInv, TypeOK
  <2>2. Stored(sysFiles[f])
    BY <2>1 DEF RowsHaveBlobs, Stored
  <2>. QED BY <1>3, <2>1, <2>2
<1>12. UploadsStay'
  <2>. SUFFICES ASSUME NEW u \in Uploads, told'[u] # Null
                PROVE  \/ sysFiles'[told'[u]] = u /\ u \in gridFs'
                       \/ \E d \in Deletes : Dropped(d)' /\ row'[d] = u
    BY DEF UploadsStay
  <2>. DEFINE f == told[u]
  <2>1. f \in FileIds /\ told'[u] = f /\ Carries(f, {u, Null})
    BY <1>1 DEF KeysGivenOnce, TypeInv, TypeOK
  <2>2. CASE \E d \in Deletes : Dropped(d) /\ row[d] = u
    BY <1>5, <2>2
  <2>3. CASE sysFiles[f] = u /\ u \in gridFs
    <3>1. Stored(u)'
      BY <1>3, <2>3 DEF Stored
    <3>2. CASE sysFiles'[f] = u
      BY <2>1, <3>1, <3>2 DEF Stored
    <3>3. CASE r \in Deletes /\ Dropped(r) /\ Target[r] = f
      BY <1>5, <2>1, <3>3 DEF Carries, DeletesAreAnswered
    <3>. QED BY <1>10, <2>1, <2>3, <3>2, <3>3
  <2>. QED BY <2>1, <2>2, <2>3 DEF UploadsStay
<1>. QED BY <1>1, <1>6, <1>7, <1>8, <1>9, <1>11, <1>12

LEMMA BlobInit == Init => BlobInv
<1>1. Init => SentIsStored /\ NewIsUnknown /\ DeletesAreAnswered
  BY KindsAssumption, FileNullAssumption
     DEF KindsAssumption, FileNullAssumption, Init, SentIsStored, NewIsUnknown, Carries,
         DeletesAreAnswered, Dropped, Requests, Readers
<1>2. Init => KeysGivenOnce /\ RowsHaveBlobs /\ UploadsStay
  BY DEF Init, KeysGivenOnce, Carries, RowsHaveBlobs, UploadsStay
<1>. QED BY <1>1, <1>2, TypeInit DEF BlobInv

LEMMA BlobStep == BlobInv /\ [Next]_vars => BlobInv'
<1>. SUFFICES ASSUME BlobInv, [Next]_vars
              PROVE  BlobInv'
  OBVIOUS
<1>1. CASE UNCHANGED vars
  <2>1. TypeInv'
    BY TypeStep DEF BlobInv
  <2>2. (SentIsStored /\ NewIsUnknown /\ KeysGivenOnce)'
    BY <1>1
       DEF vars, stores, BlobInv, SentIsStored, Stored, Dropped, NewIsUnknown, KeysGivenOnce,
           Carries
  <2>3. (DeletesAreAnswered /\ RowsHaveBlobs /\ UploadsStay)'
    BY <1>1 DEF vars, stores, BlobInv, DeletesAreAnswered, Dropped, RowsHaveBlobs, UploadsStay
  <2>. QED BY <2>1, <2>2, <2>3 DEF BlobInv
<1>. QED BY <1>1, StepKinds, UploadKeepsBlobs, ReaderKeepsBlobs

\* The order in which FileController writes its two stores is enough, without a
\* transaction over them, whatever is resent, late, lost or fails.
THEOREM RowsLeadToBlobs == Spec => []RowsHaveBlobs
<1>1. BlobInv => RowsHaveBlobs
  BY DEF BlobInv
<1>. QED BY <1>1, BlobInit, BlobStep, PTL DEF Spec

\* What an upload was told keeps leading to its blob, for a key is given out once.
THEOREM UploadsAreKept == Spec => []UploadsStay
<1>1. BlobInv => UploadsStay
  BY DEF BlobInv
<1>. QED BY <1>1, BlobInit, BlobStep, PTL DEF Spec

\* A download begins to serve only what is in GridFS, and what a delete was
\* answered for is not there and cannot come back.
THEOREM NothingDeletedIsServed == Spec => NotServedAfterDelete
<1>1. BlobInv /\ [Next]_vars =>
        [\A g \in Gets : pc[g] # "copy" /\ pc'[g] = "copy" =>
            ~ \E d \in Deletes : answer[d] = "deleted" /\ row[d] = row[g]]_vars
  <2>. SUFFICES ASSUME BlobInv, [Next]_vars, NEW g \in Gets, pc[g] # "copy", pc'[g] = "copy",
                       NEW d \in Deletes, answer[d] = "deleted", row[d] = row[g]
                PROVE  FALSE
    OBVIOUS
  <2>1. row[d] \notin gridFs
    BY DEF BlobInv, DeletesAreAnswered
  <2>2. g \in Readers
    BY DEF Readers
  <2>3. ASSUME NEW r \in Readers, ReaderStep(r)
        PROVE  FALSE
    <3>1. r = g
      BY <2>2, <2>3, ReaderEffects
         DEF BlobInv, TypeInv, TypeOK, Requests, ReaderMoves, PcMoves
    <3>2. pc[g] = "open" /\ row[g] \in gridFs
      BY <2>3, <3>1, KindsAssumption
         DEF KindsAssumption, ReaderStep, Query, Get, Enter, Recheck, Read, Fill, ReaderFails,
             Download, FindToServe, Open, Copy, Go, BlobInv, TypeInv, TypeOK, Requests, Readers
    <3>. QED BY <2>1, <3>2
  <2>4. ASSUME NEW u \in Uploads, UploadStep(u)
        PROVE  FALSE
    BY <2>2, <2>4, UploadLeavesReaders DEF BlobInv
  <2>5. CASE UNCHANGED vars
    BY <2>5 DEF vars
  <2>. QED BY <2>3, <2>4, <2>5, StepKinds
<1>. QED BY <1>1, BlobInit, BlobStep, PTL DEF Spec, NotServedAfterDelete
=============================================================================
