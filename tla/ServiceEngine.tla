---------------------------- MODULE ServiceEngine ----------------------------
(***************************************************************************)
(* BaseServiceEngine as MsgSendBaseService.sendSms uses it: the component  *)
(* that serves an interface is configured in sys_service_config, its name  *)
(* is cached in Redis under one key for a while, and a miss is filled under*)
(* the monitor of the engine, which is one bean per JVM.                   *)
(***************************************************************************)
EXTENDS Integers, Sequences

CONSTANTS
    Calls,        \* calls of sendSms
    Jvms,         \* JVMs that share the cache and the table
    JvmOf,        \* where each call runs
    Names,        \* the component names that rows may carry
    Beans,        \* the names of them that are names of beans
    Default,      \* "default", what the engine caches when no row is valid
    Blank,        \* a blank name, also what an absent key yields
    MaxCacheTime, \* the life of a cache entry
    MaxTime,      \* bound on the clock
    MaxEdits,     \* bound on the edits of the table
    Null

ASSUME JvmOfAssumption == JvmOf \in [Calls -> Jvms]
ASSUME BeansAssumption == Beans \subseteq Names \ {Default, Blank}
ASSUME NamesAssumption ==
    Default # Blank /\ Null \notin Calls \cup Jvms \cup Names \cup {Default, Blank}
ASSUME MaxCacheTimeAssumption == MaxCacheTime \in Nat \ {0}
ASSUME EngineBoundsAssumption == MaxTime \in Nat /\ MaxEdits \in Nat

VARIABLES
    active,   \* the component names of the interface's valid rows
    edits,    \* when the rows have been edited, a sequence of times
    cached,   \* the key in Redis: name and expiry; also which JVM filled it, how
              \* many edits the read behind it had seen and how long after it
    monitor,  \* the call inside synchronized(this) of each JVM
    latest,   \* the edits seen by what each JVM last put into the cache
    pc,       \* where each call is
    name,     \* componentName of each call
    asOf,     \* how many edits its read of the table had seen
    readAt,   \* and when that was
    answer,   \* "sent", "failed" or "none" so far
    now       \* the clock, which no call waits for and none stops

rows == <<active, edits>>
vars == <<rows, cached, monitor, latest, pc, name, asOf, readAt, answer, now>>

AllNames == Names \cup {Default, Blank}

TypeOK ==
    /\ active \subseteq Names
    /\ edits \in Seq(0..MaxTime) /\ Len(edits) <= MaxEdits
    /\ cached \in [name : AllNames, expires : Nat, by : Jvms \cup {Null},
                  asOf : 0..MaxEdits, delay : Nat]
    /\ monitor \in [Jvms -> Calls \cup {Null}]
    /\ latest \in [Jvms -> 0..MaxEdits]
    /\ pc \in [Calls -> {"get", "enter", "recheck", "read", "fill", "send", "done"}]
    /\ name \in [Calls -> AllNames]
    /\ asOf \in [Calls -> 0..MaxEdits]
    /\ readAt \in [Calls -> 0..now]
    /\ answer \in [Calls -> {"none", "sent", "failed"}]
    /\ now \in 0..MaxTime

Init ==
    /\ active \in SUBSET Names
    /\ edits = << >>
    /\ cached = [name |-> Blank, expires |-> 0, by |-> Null, asOf |-> 0, delay |-> 0]
    /\ monitor = [j \in Jvms |-> Null]
    /\ latest = [j \in Jvms |-> 0]
    /\ pc = [c \in Calls |-> "get"]
    /\ name = [c \in Calls |-> Blank]
    /\ asOf = [c \in Calls |-> 0]
    /\ readAt = [c \in Calls |-> 0]
    /\ answer = [c \in Calls |-> "none"]
    /\ now = 0

Go(c, from, to) == pc[c] = from /\ pc' = [pc EXCEPT ![c] = to]
Answer(c, a) == answer' = [answer EXCEPT ![c] = a]
Leave(c) == monitor' = [monitor EXCEPT ![JvmOf[c]] = Null]
\* The history of a call's read ends with the fill, or with the call.
Forget(c) == asOf' = [asOf EXCEPT ![c] = 0] /\ readAt' = [readAt EXCEPT ![c] = 0]

Lookup == IF now < cached.expires THEN cached.name ELSE Blank

\* The first of the valid rows, in whatever order the table gives them.
Readable == IF active = {} THEN {Default} ELSE active

(***************************************************************************)
(* getServiceComponent                                                     *)
(***************************************************************************)
\* Variant: a hit gives the entry a new life.
GetRenews(c) ==
    /\ \/ Lookup # Blank /\ Go(c, "get", "send")
       \/ Lookup = Blank /\ Go(c, "get", "enter")
    /\ name' = [name EXCEPT ![c] = Lookup]
    /\ cached' = IF Lookup = Blank THEN cached
                 ELSE [cached EXCEPT !.expires = now + MaxCacheTime]
    /\ UNCHANGED <<rows, monitor, latest, asOf, readAt, answer, now>>

Get(c) ==
    /\ \/ Lookup # Blank /\ Go(c, "get", "send")
       \/ Lookup = Blank /\ Go(c, "get", "enter")
    /\ name' = [name EXCEPT ![c] = Lookup]
    /\ UNCHANGED <<rows, cached, monitor, latest, asOf, readAt, answer, now>>

\* Variant: no monitor.
EnterFreely(c) ==
    /\ Go(c, "enter", "recheck")
    /\ UNCHANGED <<rows, cached, monitor, latest, name, asOf, readAt, answer, now>>

Enter(c) ==
    /\ Go(c, "enter", "recheck")
    /\ monitor[JvmOf[c]] = Null
    /\ monitor' = [monitor EXCEPT ![JvmOf[c]] = c]
    /\ UNCHANGED <<rows, cached, latest, name, asOf, readAt, answer, now>>

\* Variant: no second look.
RecheckSkipped(c) ==
    /\ Go(c, "recheck", "read")
    /\ UNCHANGED <<rows, cached, monitor, latest, name, asOf, readAt, answer, now>>

\* Variant: a lock that the second look's return forgets.
RecheckKeepsMonitor(c) ==
    /\ \/ Lookup # Blank /\ Go(c, "recheck", "send")
       \/ Lookup = Blank /\ Go(c, "recheck", "read")
    /\ name' = [name EXCEPT ![c] = Lookup]
    /\ UNCHANGED <<rows, cached, monitor, latest, asOf, readAt, answer, now>>

Recheck(c) ==
    /\ \/ Lookup # Blank /\ Go(c, "recheck", "send") /\ Leave(c)
       \/ Lookup = Blank /\ Go(c, "recheck", "read") /\ UNCHANGED monitor
    /\ name' = [name EXCEPT ![c] = Lookup]
    /\ UNCHANGED <<rows, cached, latest, asOf, readAt, answer, now>>

\* Variant: no default for an empty list.
ReadWithoutDefault(c) ==
    /\ Go(c, "read", "fill")
    /\ \E n \in IF active = {} THEN {Null} ELSE active : name' = [name EXCEPT ![c] = n]
    /\ asOf' = [asOf EXCEPT ![c] = Len(edits)]
    /\ readAt' = [readAt EXCEPT ![c] = now]
    /\ UNCHANGED <<rows, cached, monitor, latest, answer, now>>

Read(c) ==
    /\ Go(c, "read", "fill")
    /\ \E n \in Readable : name' = [name EXCEPT ![c] = n]
    /\ asOf' = [asOf EXCEPT ![c] = Len(edits)]
    /\ readAt' = [readAt EXCEPT ![c] = now]
    /\ UNCHANGED <<rows, cached, monitor, latest, answer, now>>

Fill(c) ==
    /\ Go(c, "fill", "send")
    /\ cached' = [name |-> name[c], expires |-> now + MaxCacheTime,
                by |-> JvmOf[c], asOf |-> asOf[c], delay |-> now - readAt[c]]
    /\ latest' = [latest EXCEPT ![JvmOf[c]] = asOf[c]]
    /\ Leave(c) /\ Forget(c)
    /\ UNCHANGED <<rows, name, answer, now>>

\* Redis or the database throws: null is returned and the caller dereferences it.
CallFails(c) ==
    /\ \E here \in {"get", "recheck", "read", "fill"} : Go(c, here, "done")
    /\ IF monitor[JvmOf[c]] = c THEN Leave(c) ELSE UNCHANGED monitor
    /\ Answer(c, "failed") /\ Forget(c)
    /\ UNCHANGED <<rows, cached, latest, name, now>>

\* getBean with the name, or with the interface for the default.  A name
\* without a bean yields null.  The default component divides by zero after
\* its insert, which is rolled back.
Send(c) ==
    /\ Go(c, "send", "done")
    /\ Answer(c, IF name[c] \in Beans THEN "sent" ELSE "failed")
    /\ UNCHANGED <<rows, cached, monitor, latest, name, asOf, readAt, now>>

SendSms(c) ==
    Get(c) \/ Enter(c) \/ Recheck(c) \/ Read(c) \/ Fill(c) \/ Send(c)

(***************************************************************************)
(* Around it                                                               *)
(***************************************************************************)
\* Someone edits the rows; nothing tells the engine.
Edit ==
    /\ Len(edits) < MaxEdits
    /\ edits' = Append(edits, now)
    /\ active' \in (SUBSET Names) \ {active}
    /\ UNCHANGED <<cached, monitor, latest, pc, name, asOf, readAt, answer, now>>

Tick ==
    /\ now < MaxTime
    /\ now' = now + 1
    /\ UNCHANGED <<rows, cached, monitor, latest, pc, name, asOf, readAt, answer>>

Next == (\E c \in Calls : SendSms(c) \/ CallFails(c)) \/ Edit \/ Tick

Spec == Init /\ [][Next]_vars

\* Request threads run on, and a monitor that is free goes to a waiter.
FairSpec == Spec /\ \A c \in Calls : WF_vars(SendSms(c))

(***************************************************************************)
(* Properties                                                              *)
(***************************************************************************)
\* "Put into the cache, expires after a day": a name that the cache yields was
\* configured less than the life of an entry ago, and the time that passed
\* between the read of the table and the fill, which nothing in the code bounds;
\* although edits do not touch the cache and two JVMs fill it in any order.
StaleForLifeAndDelay ==
    Lookup # Blank =>
        \/ cached.asOf = Len(edits) /\ cached.name \in Readable
        \/ /\ cached.asOf < Len(edits)
           /\ now - edits[cached.asOf + 1] < MaxCacheTime + cached.delay

\* "Checked twice": no JVM fills the cache again while its own entry lives.
FilledOncePerLife ==
    [][\A c \in Calls :
          pc[c] = "fill" /\ pc'[c] = "send" =>
              ~ (Lookup # Blank /\ cached.by = JvmOf[c])]_vars

\* What one JVM puts into the cache is never older than what it put before;
\* two JVMs can overtake each other.
JvmFillsForward == [][\A j \in Jvms : latest'[j] >= latest[j]]_vars

\* Every call ends, with the component or with an error.
EveryCallEnds == \A c \in Calls : <>(pc[c] = "done")
=============================================================================
