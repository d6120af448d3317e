------------------------------ MODULE EtcdLock ------------------------------
(***************************************************************************)
(* The failover lock of pkg/failover/failover.go (NewLock): an etcd        *)
(* concurrency.Mutex under "<clusterdata>/failover". Each client writes    *)
(* one key, bound to the lease of its session; the key with the lowest     *)
(* create revision holds the lock, and a client waits until every key      *)
(* created before its own is gone. etcd and its client library are         *)
(* external. Nothing in this repository looks at session.Done(): a client  *)
(* whose lease expired goes on as if it held the lock.                     *)
(***************************************************************************)
EXTENDS Integers

CONSTANT Client     \* the processes that use the lock: failover, with-lock

VARIABLES
    key,        \* [Client -> Nat] create revision of the key in etcd; 0: none
    myRev,      \* [Client -> Nat] the revision the client remembers; 0: none
    nextRev,    \* the next revision of etcd
    owned,      \* the clients whose Lock call has returned with no error
    lost        \* the clients whose lease has expired

lockVars == <<key, myRev, nextRev, owned, lost>>

LockTypeOK ==
    /\ key \in [Client -> Nat]
    /\ myRev \in [Client -> Nat]
    /\ nextRev \in Nat \ {0}
    /\ owned \subseteq Client
    /\ lost \subseteq Client

LockInit ==
    /\ key = [c \in Client |-> 0]
    /\ myRev = [c \in Client |-> 0]
    /\ nextRev = 1
    /\ owned = {}
    /\ lost = {}

\* Mutex.Lock, first half: create the key. The transaction fails once the
\* lease is gone.
PutKey(c) ==
    /\ myRev[c] = 0
    /\ c \notin lost
    /\ key' = [key EXCEPT ![c] = nextRev]
    /\ myRev' = [myRev EXCEPT ![c] = nextRev]
    /\ nextRev' = nextRev + 1
    /\ UNCHANGED <<owned, lost>>

\* Mutated forms of Acquire and Unlock: one that waits for nobody, and one that
\* forgets that the lock is no longer held.
AcquireAtOnce(c) ==
    /\ myRev[c] # 0
    /\ owned' = owned \cup {c}
    /\ UNCHANGED <<key, myRev, nextRev, lost>>

UnlockStaysOwner(c) ==
    /\ key' = [key EXCEPT ![c] = 0]
    /\ myRev' = [myRev EXCEPT ![c] = 0]
    /\ UNCHANGED <<nextRev, owned, lost>>

\* Mutex.Lock, second half: waitDeletes has seen every earlier key deleted. It
\* does not ask whether the client's own key is still there.
Acquire(c) ==
    /\ myRev[c] # 0
    /\ \A d \in Client : key[d] # 0 => key[d] >= myRev[c]
    /\ owned' = owned \cup {c}
    /\ UNCHANGED <<key, myRev, nextRev, lost>>

\* Mutex.Unlock, also called by Lock when its context is done while waiting.
Unlock(c) ==
    /\ key' = [key EXCEPT ![c] = 0]
    /\ myRev' = [myRev EXCEPT ![c] = 0]
    /\ owned' = owned \ {c}
    /\ UNCHANGED <<nextRev, lost>>

\* The lease expires: its process has gone, or was cut off for too long.
ExpireLease(c) ==
    /\ c \notin lost
    /\ lost' = lost \cup {c}
    /\ key' = [key EXCEPT ![c] = 0]
    /\ UNCHANGED <<myRev, nextRev, owned>>

LockNext == \E c \in Client : PutKey(c) \/ Acquire(c) \/ Unlock(c) \/ ExpireLease(c)

LockSpec == LockInit /\ [][LockNext]_lockVars

-----------------------------------------------------------------------------
\* Of the clients whose lease is alive, one at most holds the lock: "exclusive
\* access to the clusterdata resource" (failover.go).
MutualExclusion ==
    \A c, d \in owned \ lost : c = d

=============================================================================
