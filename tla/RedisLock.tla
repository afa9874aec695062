----------------------------- MODULE RedisLock -----------------------------
(***************************************************************************)
(* The lock the order service takes through IRedisLock, which lives in a   *)
(* library outside the repository.  How OrderServiceImpl uses it fixes the *)
(* model: lock(key, value) answers at once, the value is the wall-clock    *)
(* time at which the lock lapses, and unlock(key, value) must name it.     *)
(***************************************************************************)
EXTENDS Integers

CONSTANTS
    Keys,     \* lock names
    LockTtl,  \* how far ahead a lock's expiry is set
    MaxTime   \* bound on the clock

ASSUME LockTtlAssumption == LockTtl \in Nat \ {0}
ASSUME MaxTimeAssumption == MaxTime \in Nat

VARIABLES
    redis,  \* the expiry stored under each key, Free when the key is absent
    now     \* System.currentTimeMillis(), the same on every host

Free == 0   \* no expiry is 0, for LockTtl is positive

LockTypeOK == redis \in [Keys -> Nat] /\ now \in Nat

LockInit == redis = [k \in Keys |-> Free] /\ now = 0

\* Variant: the lock lapses at its expiry, not after it.
GrantableAtExpiry(k) == redis[k] = Free \/ redis[k] <= now

Grantable(k) == redis[k] = Free \/ redis[k] < now

Grant(k, value) ==
    /\ Grantable(k)
    /\ redis' = [redis EXCEPT ![k] = value]
    /\ UNCHANGED now

Refuse(k) == ~ Grantable(k) /\ UNCHANGED <<redis, now>>

\* A value that is no longer the key's leaves the key alone.
Release(k, value) ==
    /\ redis' = IF redis[k] = value THEN [redis EXCEPT ![k] = Free] ELSE redis
    /\ UNCHANGED now

Tick == now < MaxTime /\ now' = now + 1 /\ UNCHANGED redis
=============================================================================
