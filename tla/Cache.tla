------------------------------- MODULE Cache --------------------------------
(***************************************************************************)
(* One key that is read through a cache in Redis.  An update stores the    *)
(* value and the intent to invalidate it in one statement; an invalidation *)
(* reads the version of the intent, deletes the key in Redis and           *)
(* acknowledges the version it has read.  A read that misses loads the     *)
(* value and stores it in Redis afterwards.  A value is its version.       *)
(***************************************************************************)
EXTENDS Integers

CONSTANTS
    Readers,        \* concurrent calls of Read
    Invalidators,   \* concurrent calls of Invalidate
    MaxVersion      \* bound on updates

ASSUME CacheAssumption == MaxVersion \in Nat \ {0}

VARIABLES
    version,        \* cache_values.version
    intent,         \* cache_invalidations.version, 0 without a row
    entry,          \* the version in Redis, 0 without the key
    late,           \* the entry was old when it was stored
    loaded,         \* the version a Read has loaded, 0 when it runs not
    invalidation    \* the calls of Invalidate

cacheVars == <<version, intent, entry, late, loaded, invalidation>>

NoInvalidation == [step |-> "idle", version |-> 0]

CacheInit ==
    /\ version = 1 /\ intent = 1
    /\ entry = 0 /\ late = FALSE
    /\ loaded = [r \in Readers |-> 0]
    /\ invalidation = [i \in Invalidators |-> NoInvalidation]

\* Read: a miss, or a failing GET, loads the value.
Load(r) ==
    /\ loaded[r] = 0
    /\ loaded' = [loaded EXCEPT ![r] = version]
    /\ UNCHANGED <<version, intent, entry, late, invalidation>>

\* SET with a TTL
Refill(r) ==
    /\ loaded[r] # 0
    /\ entry' = loaded[r]
    /\ late' = (loaded[r] < version)
    /\ loaded' = [loaded EXCEPT ![r] = 0]
    /\ UNCHANGED <<version, intent, invalidation>>

\* SET fails, which Read ignores, or the process dies.
RefillFails(r) ==
    /\ loaded[r] # 0
    /\ loaded' = [loaded EXCEPT ![r] = 0]
    /\ UNCHANGED <<version, intent, entry, late, invalidation>>

\* Update: value and intent in one statement.
Update ==
    /\ version < MaxVersion
    /\ version' = version + 1
    /\ intent' = version'
    /\ UNCHANGED <<entry, late, loaded, invalidation>>

\* Invalidate: the version of the intent, an error without one.
ReadIntent(i) ==
    /\ invalidation[i].step = "idle" /\ intent # 0
    /\ invalidation' = [invalidation EXCEPT ![i] = [step |-> "delete", version |-> intent]]
    /\ UNCHANGED <<version, intent, entry, late, loaded>>

\* DEL
DeleteEntry(i) ==
    /\ invalidation[i].step = "delete"
    /\ entry' = 0 /\ late' = FALSE
    /\ invalidation' = [invalidation EXCEPT ![i].step = "acknowledge"]
    /\ UNCHANGED <<version, intent, loaded>>

\* (faulty: deletes the intent whatever its version)
AcknowledgeAny(i) ==
    /\ invalidation[i].step = "acknowledge"
    /\ intent' = 0
    /\ invalidation' = [invalidation EXCEPT ![i] = NoInvalidation]
    /\ UNCHANGED <<version, entry, late, loaded>>

\* DELETE ... WHERE version is the one that was read
Acknowledge(i) ==
    /\ invalidation[i].step = "acknowledge"
    /\ intent' = IF intent = invalidation[i].version THEN 0 ELSE intent
    /\ invalidation' = [invalidation EXCEPT ![i] = NoInvalidation]
    /\ UNCHANGED <<version, entry, late, loaded>>

\* Redis or the process fails: the intent stays.
InvalidateFails(i) ==
    /\ invalidation[i].step # "idle"
    /\ invalidation' = [invalidation EXCEPT ![i] = NoInvalidation]
    /\ UNCHANGED <<version, intent, entry, late, loaded>>

\* The TTL passes, the key is evicted, or Redis restarts without it.
ExpireEntry ==
    /\ entry # 0
    /\ entry' = 0 /\ late' = FALSE
    /\ UNCHANGED <<version, intent, loaded, invalidation>>

CacheNext ==
    \/ \E r \in Readers : Load(r) \/ Refill(r) \/ RefillFails(r)
    \/ Update \/ ExpireEntry
    \/ \E i \in Invalidators :
        ReadIntent(i) \/ DeleteEntry(i) \/ Acknowledge(i) \/ InvalidateFails(i)

CacheSpec == CacheInit /\ [][CacheNext]_cacheVars
-----------------------------------------------------------------------------
\* "Transactional invalidation intents survive process failure; TTL bounds a
\* late stale refill": an outdated entry in Redis is still to be invalidated,
\* or it was already outdated when a slow Read stored it.  In particular an
\* acknowledged invalidation never leaves an entry behind that was stored
\* before the update (Update, Invalidate, Read).
StaleIsPendingOrLate ==
    entry # 0 /\ entry < version => intent # 0 \/ late

CacheTypeOK ==
    /\ version \in Nat \ {0}
    /\ intent \in {0, version}
    /\ entry \in 0 .. version
    /\ loaded \in [Readers -> 0 .. version]
    /\ invalidation \in [Invalidators ->
         [step : {"idle", "delete", "acknowledge"}, version : 0 .. version]]

\* An invalidation that is to acknowledge the current version has left no
\* entry behind but a late one.
AcknowledgesDeleted ==
    \A i \in Invalidators :
        invalidation[i].step = "acknowledge" /\ invalidation[i].version = version =>
            entry = 0 \/ entry = version \/ late

CacheInv == CacheTypeOK /\ AcknowledgesDeleted /\ StaleIsPendingOrLate
=============================================================================
