------------------------- MODULE ServiceEngineProofs -------------------------
(***************************************************************************)
(* Theorems about ServiceEngine for every number of calls and JVMs, every  *)
(* life of a cache entry and every history of edits.                       *)
(***************************************************************************)
EXTENDS ServiceEngine, TLAPS

-----------------------------------------------------------------------------
(***************************************************************************)
(* The inductive invariants.                                               *)
(***************************************************************************)
\* Between its second look and its fill a call is the one in its JVM's monitor.
Guarded ==
    \A c \in Calls : pc[c] \in {"recheck", "read", "fill"} => monitor[JvmOf[c]] = c

\* What is true of a name read at t, when n edits had been made.
ReadAt(n, nm, t) ==
    /\ n <= Len(edits)
    /\ n = Len(edits) => nm \in Readable
    /\ n < Len(edits) => t <= edits[n + 1]

\* The time of the read behind an entry.
CachedRead == cached.expires - (MaxCacheTime + cached.delay)

\* The name in the cache, and each name about to go there.
NamesAreRecent ==
    /\ cached.expires <= now + MaxCacheTime
    /\ cached.name # Blank => ReadAt(cached.asOf, cached.name, CachedRead)
    /\ \A c \in Calls : pc[c] = "fill" => ReadAt(asOf[c], name[c], readAt[c])

StaleInv == TypeOK /\ NamesAreRecent

\* Whoever may fill a JVM's entry has seen that it is gone, and has read the
\* table after every fill of that JVM.
OwnEntryGone ==
    \A c \in Calls :
        pc[c] \in {"read", "fill"} => ~ (Lookup # Blank /\ cached.by = JvmOf[c])
FillsFollowReads ==
    /\ \A j \in Jvms : latest[j] <= Len(edits)
    /\ \A c \in Calls :
          pc[c] = "fill" => latest[JvmOf[c]] <= asOf[c] /\ asOf[c] <= Len(edits)

FillInv == TypeOK /\ Guarded /\ OwnEntryGone /\ FillsFollowReads

-----------------------------------------------------------------------------
(***************************************************************************)
(* Types.                                                                  *)
(***************************************************************************)
LEMMA TypeInit == Init => TypeOK
BY EngineBoundsAssumption
   DEF Init, TypeOK, AllNames, EngineBoundsAssumption

LEMMA TypeNext == TypeOK /\ [Next]_vars => TypeOK'
<1>. SUFFICES ASSUME TypeOK, [Next]_vars
              PROVE  TypeOK'
  OBVIOUS
<1>. USE JvmOfAssumption, MaxCacheTimeAssumption, EngineBoundsAssumption
     DEF JvmOfAssumption, MaxCacheTimeAssumption, EngineBoundsAssumption,
         TypeOK, AllNames, rows, Go, Answer, Leave, Forget
<1>1. Lookup \in AllNames /\ Readable \subseteq AllNames
  BY DEF Lookup, Readable
<1>2. ASSUME NEW c \in Calls, Get(c)
      PROVE  TypeOK'
  <2>1. /\ name' \in [Calls -> AllNames]
        /\ pc' \in [Calls -> {"get", "enter", "recheck", "read", "fill", "send", "done"}]
    BY <1>1, <1>2 DEF Get
  <2>. QED BY <1>2, <2>1 DEF Get
<1>3. ASSUME NEW c \in Calls, Enter(c)
      PROVE  TypeOK'
  BY <1>3 DEF Enter
<1>4. ASSUME NEW c \in Calls, Recheck(c)
      PROVE  TypeOK'
  <2>1. /\ name' \in [Calls -> AllNames] /\ monitor' \in [Jvms -> Calls \cup {Null}]
        /\ pc' \in [Calls -> {"get", "enter", "recheck", "read", "fill", "send", "done"}]
    BY <1>1, <1>4 DEF Recheck
  <2>. QED BY <1>4, <2>1 DEF Recheck
<1>5. ASSUME NEW c \in Calls, Read(c)
      PROVE  TypeOK'
  BY <1>1, <1>5 DEF Read
<1>6. ASSUME NEW c \in Calls, Fill(c)
      PROVE  TypeOK'
  <2>1. /\ readAt' \in [Calls -> 0..now'] /\ asOf' \in [Calls -> 0..MaxEdits]
        /\ now - readAt[c] \in Nat
    BY <1>6 DEF Fill
  <2>2. cached' \in [name : AllNames, expires : Nat, by : Jvms \cup {Null},
                     asOf : 0..MaxEdits, delay : Nat]
    BY <1>6, <2>1 DEF Fill
  <2>. QED BY <1>6, <2>1, <2>2 DEF Fill
<1>7. ASSUME NEW c \in Calls, CallFails(c)
      PROVE  TypeOK'
  <2>1. readAt' \in [Calls -> 0..now'] /\ asOf' \in [Calls -> 0..MaxEdits]
    BY <1>7 DEF CallFails
  <2>. QED BY <1>7, <2>1 DEF CallFails
<1>8. ASSUME NEW c \in Calls, Send(c)
      PROVE  TypeOK'
  BY <1>8 DEF Send
<1>9. CASE Edit
  BY <1>9 DEF Edit
<1>10. CASE Tick
  BY <1>10 DEF Tick
<1>11. CASE UNCHANGED vars
  BY <1>11 DEF vars
<1>. QED
  BY <1>2, <1>3, <1>4, <1>5, <1>6, <1>7, <1>8, <1>9, <1>10, <1>11 DEF Next, SendSms

\* Every variable keeps its type, whichever calls, edits and ticks there are.
THEOREM TypeCorrect == Spec => []TypeOK
BY TypeInit, TypeNext, PTL DEF Spec

-----------------------------------------------------------------------------
(***************************************************************************)
(* Names outlive their row by less than one life and the fill's delay.     *)
(***************************************************************************)
LEMMA StaleInit == Init => StaleInv
<1>. SUFFICES ASSUME Init
              PROVE  NamesAreRecent
  BY TypeInit DEF StaleInv
<1>. QED
  BY MaxCacheTimeAssumption DEF Init, NamesAreRecent, MaxCacheTimeAssumption

LEMMA StaleNext == StaleInv /\ [Next]_vars => StaleInv'
<1>. SUFFICES ASSUME StaleInv, [Next]_vars
              PROVE  NamesAreRecent'
  BY TypeNext DEF StaleInv
<1>. USE MaxCacheTimeAssumption, EngineBoundsAssumption
     DEF MaxCacheTimeAssumption, EngineBoundsAssumption, rows, Go, StaleInv
<1>1. /\ pc \in [Calls -> {"get", "enter", "recheck", "read", "fill", "send", "done"}]
      /\ asOf \in [Calls -> 0..MaxEdits] /\ readAt \in [Calls -> 0..now]
      /\ cached.asOf \in Nat /\ cached.expires \in Nat /\ cached.delay \in Nat
      /\ edits \in Seq(0..MaxTime) /\ now \in Nat
      /\ DOMAIN name = Calls
  BY DEF TypeOK
<1>2. ASSUME UNCHANGED <<rows, cached>>, now' \in Nat, now' >= now,
             \A c \in Calls : pc'[c] = "fill" =>
                 pc[c] = "fill" /\ UNCHANGED <<asOf[c], name[c], readAt[c]>>
      PROVE  NamesAreRecent'
  <2>1. cached'.expires <= now' + MaxCacheTime
    BY <1>1, <1>2 DEF NamesAreRecent
  <2>. QED BY <1>2, <2>1 DEF NamesAreRecent, ReadAt, Readable, CachedRead
<1>3. ASSUME NEW c \in Calls, Get(c) \/ Enter(c) \/ Recheck(c) \/ CallFails(c) \/ Send(c)
      PROVE  NamesAreRecent'
  <2>1. UNCHANGED <<rows, cached, now>>
    BY <1>3 DEF Get, Enter, Recheck, CallFails, Send
  <2>2. ASSUME NEW d \in Calls, pc'[d] = "fill"
        PROVE  pc[d] = "fill" /\ UNCHANGED <<asOf[d], name[d], readAt[d]>>
    BY <1>1, <1>3, <2>2 DEF Get, Enter, Recheck, CallFails, Send, Forget
  <2>. QED BY <1>1, <1>2, <2>1, <2>2
<1>4. ASSUME NEW c \in Calls, Read(c)
      PROVE  NamesAreRecent'
  <2>1. /\ name'[c] \in Readable /\ asOf'[c] = Len(edits)
        /\ UNCHANGED <<rows, cached, now>>
    BY <1>1, <1>4 DEF Read
  <2>2. \A d \in Calls \ {c} : UNCHANGED <<pc[d], name[d], asOf[d], readAt[d]>>
    BY <1>1, <1>4 DEF Read
  <2>3. ReadAt(asOf[c], name[c], readAt[c])'
    BY <1>1, <2>1 DEF ReadAt, Readable
  <2>. QED BY <2>1, <2>2, <2>3 DEF NamesAreRecent, ReadAt, Readable, CachedRead
<1>5. ASSUME NEW c \in Calls, Fill(c)
      PROVE  NamesAreRecent'
  <2>1. ReadAt(asOf[c], name[c], readAt[c])
    BY <1>5 DEF Fill, NamesAreRecent
  <2>2. /\ cached'.name = name[c] /\ cached'.asOf = asOf[c]
        /\ cached'.expires = now + MaxCacheTime /\ cached'.delay = now - readAt[c]
        /\ UNCHANGED <<rows, name, now>>
        /\ \A d \in Calls : pc'[d] = "fill" =>
              pc[d] = "fill" /\ UNCHANGED <<asOf[d], readAt[d]>>
    BY <1>1, <1>5 DEF Fill, Forget
  <2>3. CachedRead' = readAt[c]
    BY <1>1, <2>2 DEF CachedRead
  <2>4. ReadAt(cached.asOf, cached.name, CachedRead)'
    BY <2>1, <2>2, <2>3 DEF ReadAt, Readable
  <2>5. \A d \in Calls : pc'[d] = "fill" => ReadAt(asOf[d], name[d], readAt[d])'
    BY <2>2 DEF NamesAreRecent, ReadAt, Readable
  <2>. QED BY <1>1, <2>2, <2>4, <2>5 DEF NamesAreRecent
<1>6. CASE Edit
  <2>1. /\ Len(edits') = Len(edits) + 1 /\ edits'[Len(edits) + 1] = now
        /\ \A i \in 1..Len(edits) : edits'[i] = edits[i]
        /\ Len(edits) \in Nat
    BY <1>1, <1>6 DEF Edit
  <2>2. ASSUME NEW n \in Nat, NEW nm, NEW t \in Int,
               ReadAt(n, nm, t), t <= now
        PROVE  /\ n <= Len(edits')
               /\ n # Len(edits')
               /\ n < Len(edits') => t <= edits'[n + 1]
    <3>1. CASE n = Len(edits)
      BY <1>1, <2>1, <2>2, <3>1
    <3>2. CASE n < Len(edits)
      <4>1. n + 1 \in 1..Len(edits) /\ t <= edits[n + 1]
        BY <2>1, <2>2, <3>2 DEF ReadAt
      <4>2. edits'[n + 1] = edits[n + 1]
        BY <2>1, <4>1
      <4>. QED BY <2>1, <3>2, <4>1, <4>2
    <3>. QED BY <2>1, <2>2, <3>1, <3>2 DEF ReadAt
  <2>3. UNCHANGED <<cached, pc, name, asOf, readAt, now>>
    BY <1>6 DEF Edit
  <2>4. CachedRead \in Int /\ CachedRead <= now /\ CachedRead' = CachedRead
    BY <1>1, <2>3 DEF NamesAreRecent, CachedRead
  <2>5. cached'.name # Blank => ReadAt(cached.asOf, cached.name, CachedRead)'
    BY <1>1, <2>2, <2>3, <2>4 DEF NamesAreRecent, ReadAt
  <2>6. ASSUME NEW c \in Calls, pc'[c] = "fill"
        PROVE  ReadAt(asOf[c], name[c], readAt[c])'
    <3>1. /\ ReadAt(asOf[c], name[c], readAt[c]) /\ asOf[c] \in Nat
          /\ readAt[c] \in Int /\ readAt[c] <= now
      BY <1>1, <2>3, <2>6 DEF NamesAreRecent
    <3>. QED BY <1>1, <2>2, <2>3, <3>1 DEF ReadAt
  <2>. QED BY <2>3, <2>5, <2>6 DEF NamesAreRecent
<1>7. CASE Tick
  BY <1>1, <1>2, <1>7 DEF Tick
<1>8. CASE UNCHANGED vars
  BY <1>1, <1>2, <1>8 DEF vars
<1>. QED
  BY <1>3, <1>4, <1>5, <1>6, <1>7, <1>8 DEF Next, SendSms

LEMMA StaleImplies == StaleInv => StaleForLifeAndDelay
<1>. SUFFICES ASSUME StaleInv, Lookup # Blank
              PROVE  \/ cached.asOf = Len(edits) /\ cached.name \in Readable
                     \/ /\ cached.asOf < Len(edits)
                        /\ now - edits[cached.asOf + 1] < MaxCacheTime + cached.delay
  BY DEF StaleForLifeAndDelay
<1>1. now < cached.expires /\ ReadAt(cached.asOf, cached.name, CachedRead)
  BY DEF StaleInv, NamesAreRecent, Lookup
<1>2. /\ cached.asOf \in Nat /\ cached.expires \in Nat /\ cached.delay \in Nat
      /\ now \in Nat /\ edits \in Seq(0..MaxTime) /\ Len(edits) \in Nat
  BY EngineBoundsAssumption DEF StaleInv, TypeOK, EngineBoundsAssumption
<1>3. CASE cached.asOf = Len(edits)
  BY <1>1, <1>3 DEF ReadAt
<1>4. CASE cached.asOf < Len(edits)
  <2>1. edits[cached.asOf + 1] \in Nat
    BY <1>2, <1>4, EngineBoundsAssumption DEF EngineBoundsAssumption
  <2>. QED
    BY <1>1, <1>2, <1>4, <2>1, MaxCacheTimeAssumption
       DEF ReadAt, CachedRead, MaxCacheTimeAssumption
<1>. QED BY <1>1, <1>2, <1>3, <1>4 DEF ReadAt

\* "Put into the cache, expires after a day": a name that the cache yields was
\* configured less than the life of an entry ago, and what its fill had been
\* delayed, in whatever order calls of whichever JVMs read the table, are held
\* up and fill the cache.
THEOREM NamesAreStaleForLifeAndDelay == Spec => []StaleForLifeAndDelay
BY StaleInit, StaleNext, StaleImplies, PTL DEF Spec

-----------------------------------------------------------------------------
(***************************************************************************)
(* The double check under the monitor.                                     *)
(***************************************************************************)
LEMMA FillInit == Init => FillInv
<1>. SUFFICES ASSUME Init
              PROVE  Guarded /\ OwnEntryGone /\ FillsFollowReads
  BY TypeInit DEF FillInv
<1>. QED BY DEF Init, Guarded, OwnEntryGone, FillsFollowReads

LEMMA GuardedNext ==
    ASSUME TypeOK, Guarded, [Next]_vars
    PROVE  Guarded'
<1>. USE JvmOfAssumption, NamesAssumption
     DEF JvmOfAssumption, NamesAssumption, Go, Leave, Guarded
<1>1. /\ pc \in [Calls -> {"get", "enter", "recheck", "read", "fill", "send", "done"}]
      /\ monitor \in [Jvms -> Calls \cup {Null}]
  BY DEF TypeOK
<1>2. ASSUME NEW c \in Calls, Get(c) \/ Enter(c) \/ Read(c)
      PROVE  Guarded'
  BY <1>1, <1>2 DEF Get, Enter, Read
<1>3. ASSUME NEW c \in Calls, Recheck(c) \/ Fill(c)
      PROVE  Guarded'
  BY <1>1, <1>3 DEF Recheck, Fill
<1>4. ASSUME NEW c \in Calls, CallFails(c) \/ Send(c)
      PROVE  Guarded'
  BY <1>1, <1>4 DEF CallFails, Send
<1>5. CASE Edit \/ Tick \/ UNCHANGED vars
  BY <1>5 DEF Edit, Tick, vars
<1>. QED BY <1>2, <1>3, <1>4, <1>5 DEF Next, SendSms

\* The other calls of a JVM are before their second look, or past their fill,
\* while one call is between them.
LEMMA OneInside ==
    ASSUME TypeOK, Guarded, NEW c \in Calls, NEW d \in Calls, d # c,
           JvmOf[c] = JvmOf[d], pc[c] = "fill"
    PROVE  pc[d] \notin {"read", "fill"}
BY DEF Guarded

LEMMA OwnEntryGoneNext ==
    ASSUME FillInv, [Next]_vars
    PROVE  OwnEntryGone'
<1>. USE DEF FillInv, Go
<1>1. /\ pc \in [Calls -> {"get", "enter", "recheck", "read", "fill", "send", "done"}]
      /\ cached.expires \in Nat /\ now \in Nat
  BY DEF TypeOK
<1>2. ASSUME NEW c \in Calls,
             Get(c) \/ Enter(c) \/ Recheck(c) \/ Read(c) \/ CallFails(c) \/ Send(c)
      PROVE  OwnEntryGone'
  <2>1. UNCHANGED <<cached, now>>
    BY <1>2 DEF Get, Enter, Recheck, Read, CallFails, Send
  <2>2. ASSUME NEW d \in Calls, pc'[d] \in {"read", "fill"}
        PROVE  pc[d] \in {"read", "fill"} \/ Lookup = Blank
    BY <1>1, <1>2, <2>2 DEF Get, Enter, Recheck, Read, CallFails, Send
  <2>. QED BY <2>1, <2>2 DEF OwnEntryGone, Lookup
<1>3. ASSUME NEW c \in Calls, Fill(c)
      PROVE  OwnEntryGone'
  <2>. SUFFICES ASSUME NEW d \in Calls, pc'[d] \in {"read", "fill"}
                PROVE  cached'.by # JvmOf[d]
    BY DEF OwnEntryGone
  <2>1. pc[c] = "fill" /\ d # c /\ pc[d] \in {"read", "fill"} /\ cached'.by = JvmOf[c]
    BY <1>1, <1>3 DEF Fill
  <2>. QED BY <2>1, OneInside
<1>4. CASE Edit \/ UNCHANGED vars
  BY <1>4 DEF Edit, vars, OwnEntryGone, Lookup
<1>5. CASE Tick
  BY <1>1, <1>5 DEF Tick, OwnEntryGone, Lookup
<1>. QED BY <1>2, <1>3, <1>4, <1>5 DEF Next, SendSms

LEMMA FillsFollowReadsNext ==
    ASSUME FillInv, [Next]_vars
    PROVE  FillsFollowReads'
<1>. USE JvmOfAssumption, EngineBoundsAssumption
     DEF JvmOfAssumption, EngineBoundsAssumption, FillInv, Go, rows
<1>1. /\ pc \in [Calls -> {"get", "enter", "recheck", "read", "fill", "send", "done"}]
      /\ asOf \in [Calls -> 0..MaxEdits] /\ latest \in [Jvms -> 0..MaxEdits]
      /\ edits \in Seq(0..MaxTime) /\ Len(edits) \in Nat
  BY DEF TypeOK
<1>2. ASSUME NEW c \in Calls, Get(c) \/ Enter(c) \/ Recheck(c) \/ CallFails(c) \/ Send(c)
      PROVE  FillsFollowReads'
  <2>1. /\ UNCHANGED <<edits, latest>>
        /\ \A d \in Calls : pc'[d] = "fill" => pc[d] = "fill" /\ asOf'[d] = asOf[d]
    BY <1>1, <1>2 DEF Get, Enter, Recheck, CallFails, Send, Forget
  <2>. QED BY <2>1 DEF FillsFollowReads
<1>3. ASSUME NEW c \in Calls, Read(c)
      PROVE  FillsFollowReads'
  BY <1>1, <1>3 DEF Read, FillsFollowReads
<1>4. ASSUME NEW c \in Calls, Fill(c)
      PROVE  FillsFollowReads'
  <2>1. /\ pc[c] = "fill" /\ latest' = [latest EXCEPT ![JvmOf[c]] = asOf[c]]
        /\ UNCHANGED edits
        /\ \A d \in Calls : pc'[d] = "fill" =>
              pc[d] = "fill" /\ d # c /\ asOf'[d] = asOf[d]
    BY <1>1, <1>4 DEF Fill, Forget
  <2>2. asOf[c] <= Len(edits)
    BY <2>1 DEF FillsFollowReads
  <2>. QED BY <1>1, <2>1, <2>2, OneInside DEF FillsFollowReads
<1>5. CASE Edit
  <2>1. Len(edits') = Len(edits) + 1 /\ UNCHANGED <<latest, pc, asOf>>
    BY <1>1, <1>5 DEF Edit
  <2>. QED BY <1>1, <2>1 DEF FillsFollowReads
<1>6. CASE Tick \/ UNCHANGED vars
  BY <1>6 DEF Tick, vars, FillsFollowReads
<1>. QED BY <1>2, <1>3, <1>4, <1>5, <1>6 DEF Next, SendSms

LEMMA FillNext == FillInv /\ [Next]_vars => FillInv'
BY TypeNext, GuardedNext, OwnEntryGoneNext, FillsFollowReadsNext DEF FillInv

\* "Checked twice": no JVM fills the cache while the entry it put there lives,
\* since the look inside the monitor and the fill have no fill of the same JVM
\* between them.
THEOREM FillsAreChecked == Spec => FilledOncePerLife
<1>1. ASSUME FillInv, NEW c \in Calls, pc[c] = "fill"
      PROVE  ~ (Lookup # Blank /\ cached.by = JvmOf[c])
  BY <1>1 DEF FillInv, OwnEntryGone
<1>2. FillInv /\ [Next]_vars =>
        [\A c \in Calls :
            pc[c] = "fill" /\ pc'[c] = "send" =>
                ~ (Lookup # Blank /\ cached.by = JvmOf[c])]_vars
  BY <1>1
<1>. QED
  BY FillInit, FillNext, <1>2, PTL DEF Spec, FilledOncePerLife

\* What one JVM puts into the cache is never older than what it put before:
\* its calls read and fill under one monitor.
THEOREM JvmsFillForward == Spec => JvmFillsForward
<1>1. ASSUME FillInv, [Next]_vars, NEW j \in Jvms
      PROVE  latest'[j] >= latest[j]
  <2>. USE JvmOfAssumption, EngineBoundsAssumption
       DEF JvmOfAssumption, EngineBoundsAssumption
  <2>1. latest \in [Jvms -> 0..MaxEdits] /\ asOf \in [Calls -> 0..MaxEdits]
    BY <1>1 DEF FillInv, TypeOK
  <2>2. ASSUME NEW c \in Calls, Fill(c)
        PROVE  latest'[j] >= latest[j]
    <3>1. /\ latest[JvmOf[c]] <= asOf[c]
          /\ latest' = [latest EXCEPT ![JvmOf[c]] = asOf[c]]
      BY <1>1, <2>2 DEF FillInv, FillsFollowReads, Fill, Go
    <3>. QED BY <2>1, <3>1
  <2>3. ASSUME UNCHANGED latest
        PROVE  latest'[j] >= latest[j]
    BY <2>1, <2>3
  <2>. QED
    BY <1>1, <2>2, <2>3
       DEF Next, SendSms, Get, Enter, Recheck, Read, CallFails, Send, Edit, Tick, vars
<1>2. FillInv /\ [Next]_vars => [\A j \in Jvms : latest'[j] >= latest[j]]_vars
  BY <1>1
<1>. QED
  BY FillInit, FillNext, <1>2, PTL DEF Spec, JvmFillsForward

=============================================================================
