------------------------------- MODULE Fence --------------------------------
(***************************************************************************)
(* A lease with a fencing token.  AcquireFence takes an expired lease over *)
(* with the next token.  WriteFenced locks the row of the lease, compares  *)
(* the token, checks the time in the statement that writes, and commits.   *)
(* The lease may expire at any moment, also between the statement that     *)
(* writes and its COMMIT.                                                  *)
(***************************************************************************)
EXTENDS Integers

CONSTANTS
    Owners,         \* processes that want the resource
    MaxToken,       \* bound on acquisitions
    Unlocked

ASSUME FenceAssumption == MaxToken \in Nat \ {0} /\ Unlocked \notin Owners

VARIABLES
    token,          \* resource_leases.token, 0 before the first lease
    alive,          \* its until lies ahead
    lastToken,      \* resources.last_token
    writer,         \* who wrote the resource last
    leaseLock,      \* the transaction that holds the row of the lease
    held,           \* the token an owner got
    write           \* where an owner is in WriteFenced

fenceVars == <<token, alive, lastToken, writer, leaseLock, held, write>>

FenceInit ==
    /\ token = 0 /\ alive = FALSE
    /\ lastToken = 0 /\ writer = Unlocked
    /\ leaseLock = Unlocked
    /\ held = [o \in Owners |-> 0]
    /\ write = [o \in Owners |-> "idle"]

\* The statement waits for the row of the lease.
AcquireFence(o) ==
    /\ write[o] = "idle" /\ leaseLock = Unlocked
    /\ ~alive /\ token < MaxToken
    /\ token' = token + 1 /\ alive' = TRUE
    /\ held' = [held EXCEPT ![o] = token']
    /\ UNCHANGED <<lastToken, writer, leaseLock, write>>

ExpireLease ==
    /\ alive /\ alive' = FALSE
    /\ UNCHANGED <<token, lastToken, writer, leaseLock, held, write>>

EndWrite(o) ==
    /\ write' = [write EXCEPT ![o] = "idle"]
    /\ leaseLock' = IF leaseLock = o THEN Unlocked ELSE leaseLock

\* (faulty: SELECT without FOR UPDATE)
CompareToken(o) ==
    /\ write[o] = "idle" /\ held[o] # 0
    /\ write' = [write EXCEPT ![o] = IF token = held[o] THEN "update" ELSE "idle"]
    /\ UNCHANGED <<token, alive, lastToken, writer, leaseLock, held>>

\* WriteFenced: SELECT ... FOR UPDATE; ErrStaleOwner for another token.
LockLease(o) ==
    /\ write[o] = "idle" /\ held[o] # 0 /\ leaseLock = Unlocked
    /\ IF token = held[o]
         THEN write' = [write EXCEPT ![o] = "update"] /\ leaseLock' = o
         ELSE UNCHANGED <<write, leaseLock>>
    /\ UNCHANGED <<token, alive, lastToken, writer, held>>

\* UPDATE resources, if the lease is still alive; ErrStaleOwner otherwise.
UpdateResource(o) ==
    /\ write[o] = "update"
    /\ IF lastToken <= held[o] /\ token = held[o] /\ alive
         THEN write' = [write EXCEPT ![o] = "commit"] /\ UNCHANGED leaseLock
         ELSE EndWrite(o)
    /\ UNCHANGED <<token, alive, lastToken, writer, held>>

CommitWrite(o) ==
    /\ write[o] = "commit"
    /\ lastToken' = held[o] /\ writer' = o
    /\ EndWrite(o)
    /\ UNCHANGED <<token, alive, held>>

\* A statement fails or the process dies.
RollbackWrite(o) ==
    /\ write[o] # "idle"
    /\ EndWrite(o)
    /\ UNCHANGED <<token, alive, lastToken, writer, held>>

FenceNext ==
    \/ \E o \in Owners :
        \/ AcquireFence(o) \/ LockLease(o) \/ UpdateResource(o) \/ CommitWrite(o)
        \/ RollbackWrite(o)
    \/ ExpireLease

FenceSpec == FenceInit /\ [][FenceNext]_fenceVars
-----------------------------------------------------------------------------
\* A write never takes effect after another owner has taken the lease over,
\* even if the lease expires while the write is under way: whoever commits a
\* write holds the latest token at that moment (the lock that AcquireFence
\* and WriteFenced share).
FencedWrites ==
    [][lastToken' # lastToken \/ writer' # writer =>
         lastToken' = token /\ held[writer'] = token]_fenceVars

FenceTypeOK ==
    /\ token \in Nat /\ lastToken \in Nat
    /\ writer \in Owners \cup {Unlocked} /\ leaseLock \in Owners \cup {Unlocked}
    /\ held \in [Owners -> Nat]
    /\ write \in [Owners -> {"idle", "update", "commit"}]

\* A write under way has the lease's row and the latest token.
WritersLocked ==
    \A o \in Owners : write[o] # "idle" => leaseLock = o /\ held[o] = token

FenceInv == FenceTypeOK /\ WritersLocked
=============================================================================
