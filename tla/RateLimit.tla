----------------------------- MODULE RateLimit -----------------------------
(***************************************************************************)
(* The admission of authentication requests: counters in Redis, one for    *)
(* each dimension of a request, that a script checks and charges           *)
(* atomically.                                                             *)
(*                                                                         *)
(* A request is the set of the dimensions it is counted in besides the     *)
(* global one (its address, account and device), so requests may share     *)
(* some of them.  Time passes in Ticks, Second of which are a second.      *)
(***************************************************************************)
EXTENDS Integers, FiniteSets, FiniteSetsExt

CONSTANTS
    Dimensions,     \* the keys of addresses, accounts and devices
    Attempts,       \* the requests, sets of dimensions
    Global,         \* the key that every request is counted in
    RuleLimit,      \* the limit of the rule of each key
    RuleWindow,     \* its window, in ticks
    Second,         \* ticks of a second
    MaxTime         \* bound on the time that passes

Keys == Dimensions \cup {Global}

ASSUME RateLimitAssumption ==
    /\ Global \notin Dimensions
    /\ Attempts \subseteq SUBSET Dimensions
    /\ \A a \in Attempts : IsFiniteSet(a)
    /\ RuleLimit \in [Keys -> Nat \ {0}]
    /\ RuleWindow \in [Keys -> Nat \ {0}]
    /\ Second \in Nat \ {0}
    /\ MaxTime \in Nat

VARIABLES
    now,            \* the clock of Redis
    count,          \* the counters, 0 when the key does not exist
    expireAt,       \* the last tick at which a counter exists
    retryAt         \* history: until when the latest refusal told each request
                    \* to wait, while no charge since filled a window of it

rateVars == <<now, count, expireAt, retryAt>>

NoRetry == -1

rulesForAuthRequest(a) == a \cup {Global}
-----------------------------------------------------------------------------
(* incrementWindows                                                        *)

Exceeded(a) == {k \in rulesForAuthRequest(a) : count[k] >= RuleLimit[k]}

\* Every dimension is charged; the first charge of a window sets its end.
Charge(a) ==
    LET rules == rulesForAuthRequest(a) IN
    /\ count' = [k \in Keys |-> IF k \in rules THEN count[k] + 1 ELSE count[k]]
    /\ expireAt' = [k \in Keys |-> IF k \in rules /\ count[k] = 0
                                     THEN now + RuleWindow[k] ELSE expireAt[k]]
    /\ retryAt' = [b \in Attempts |->
                     IF \E k \in rules \cap rulesForAuthRequest(b) :
                            count'[k] >= RuleLimit[k]
                     THEN NoRetry ELSE retryAt[b]]

\* (faulty: the window that ends first)
RetryAfterSoonest(a) == Min({expireAt[k] - now : k \in Exceeded(a)})

\* The longest remaining time of an exceeded window
RetryAfter(a) == Max({expireAt[k] - now : k \in Exceeded(a)})

\* Rounded up to seconds, at least one
RetryAfterHeader(a) ==
    LET seconds == (RetryAfter(a) + Second - 1) \div Second IN
    Max({seconds, 1}) * Second

Admit(a) ==
    /\ Exceeded(a) = {}
    /\ Charge(a)
    /\ UNCHANGED now

Refuse(a) ==
    /\ Exceeded(a) # {}
    /\ retryAt' = [retryAt EXCEPT ![a] = now + RetryAfterHeader(a)]
    /\ UNCHANGED <<now, count, expireAt>>

\* (An error of Redis changes nothing here: the request passes or is refused
\* with 503, as rateLimitFailOpen says.  When the script ran and its answer is
\* lost, it has charged as Admit does.)
-----------------------------------------------------------------------------
(* Redis                                                                   *)

Tick ==
    /\ now < MaxTime
    /\ now' = now + 1
    /\ count' = [k \in Keys |-> IF count[k] > 0 /\ expireAt[k] < now' THEN 0 ELSE count[k]]
    /\ expireAt' = [k \in Keys |-> IF count'[k] = 0 THEN 0 ELSE expireAt[k]]
    /\ UNCHANGED retryAt

\* Redis restarts without its data.
LoseCounters ==
    /\ count' = [k \in Keys |-> 0]
    /\ expireAt' = [k \in Keys |-> 0]
    /\ UNCHANGED <<now, retryAt>>
-----------------------------------------------------------------------------
RateInit ==
    /\ now = 0
    /\ count = [k \in Keys |-> 0]
    /\ expireAt = [k \in Keys |-> 0]
    /\ retryAt = [a \in Attempts |-> NoRetry]

RateNext ==
    \/ \E a \in Attempts : Admit(a) \/ Refuse(a)
    \/ Tick
    \/ LoseCounters

RateSpec == RateInit /\ [][RateNext]_rateVars
-----------------------------------------------------------------------------
(* Properties                                                              *)

\* Retry-After is honest: a refused request that waits longer than it was told
\* is admitted, unless an admitted request has filled a window they share since;
\* refused requests neither fill nor extend one (the maximum over all exceeded
\* windows in incrementWindows, rounded up by enforceAuthRateLimit).
RetryAfterSuffices ==
    \A a \in Attempts :
        retryAt[a] # NoRetry /\ now > retryAt[a] => Exceeded(a) = {}
-----------------------------------------------------------------------------
(* The inductive invariant                                                 *)

RateTypeOK ==
    /\ now \in Nat
    /\ count \in [Keys -> Nat]
    /\ expireAt \in [Keys -> Nat]
    /\ retryAt \in [Attempts -> Nat \cup {NoRetry}]

\* A counter exists until the end of its window.
WindowsEnd == \A k \in Keys : count[k] > 0 => now <= expireAt[k]

\* Every window that would refuse a request ends when it was told, at the latest.
ToldLongEnough ==
    \A a \in Attempts : retryAt[a] # NoRetry =>
        \A k \in Exceeded(a) : expireAt[k] <= retryAt[a]

RateInv == RateTypeOK /\ WindowsEnd /\ ToldLongEnough
=============================================================================
