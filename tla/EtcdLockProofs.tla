--------------------------- MODULE EtcdLockProofs ---------------------------
(***************************************************************************)
(* The failover lock excludes, for any number of clients, as long as their *)
(* leases live. The inductive invariant says why an owner is the oldest    *)
(* key: revisions are handed out once, and an owner has seen every older   *)
(* key go.                                                                 *)
(***************************************************************************)
EXTENDS EtcdLock, TLAPS

\* A key in etcd is the one its client remembers, and is gone only when the
\* client gave it up or lost its lease.
KeyIsRemembered ==
    \A c \in Client : key[c] = myRev[c] \/ (c \in lost /\ key[c] = 0)

\* Every revision has been given to one key.
RevisionsAreUnique ==
    /\ \A c \in Client : myRev[c] < nextRev
    /\ \A c, d \in Client : myRev[c] # 0 /\ myRev[c] = myRev[d] => c = d

\* No key in etcd is older than an owner's.
OwnerIsOldest ==
    \A c \in owned :
        /\ myRev[c] # 0
        /\ \A d \in Client : key[d] # 0 => key[d] >= myRev[c]

LockInv ==
    /\ LockTypeOK
    /\ KeyIsRemembered
    /\ RevisionsAreUnique
    /\ OwnerIsOldest

\* The invariant holds of an etcd without keys.
LEMMA LockInitInv == LockInit => LockInv
  BY DEF LockInit, LockInv, LockTypeOK, KeyIsRemembered, RevisionsAreUnique, OwnerIsOldest

\* Two owners with live leases would each be the older one.
LEMMA LockInvExcludes == LockInv => MutualExclusion
  <1> SUFFICES ASSUME LockInv, NEW c \in owned \ lost, NEW d \in owned \ lost
               PROVE  c = d
    BY DEF MutualExclusion
  <1>1. c \in Client /\ d \in Client /\ myRev \in [Client -> Nat]
    BY DEF LockInv, LockTypeOK
  <1>2. key[c] = myRev[c] /\ key[d] = myRev[d]
    BY <1>1 DEF LockInv, KeyIsRemembered
  <1>3. myRev[c] # 0 /\ myRev[c] = myRev[d]
    BY <1>1, <1>2 DEF LockInv, OwnerIsOldest
  <1> QED
    BY <1>1, <1>3 DEF LockInv, RevisionsAreUnique

\* A new key is newer than every owner's.
LEMMA PutKeyInv ==
  ASSUME LockInv, NEW c \in Client, PutKey(c)
  PROVE  LockInv'
  BY DEF LockInv, LockTypeOK, KeyIsRemembered, RevisionsAreUnique, OwnerIsOldest, PutKey

\* A client that has seen every older key go is the oldest.
LEMMA AcquireInv ==
  ASSUME LockInv, NEW c \in Client, Acquire(c)
  PROVE  LockInv'
  BY DEF LockInv, LockTypeOK, KeyIsRemembered, RevisionsAreUnique, OwnerIsOldest, Acquire

\* Giving up a key makes nobody newer.
LEMMA UnlockInv ==
  ASSUME LockInv, NEW c \in Client, Unlock(c)
  PROVE  LockInv'
  BY DEF LockInv, LockTypeOK, KeyIsRemembered, RevisionsAreUnique, OwnerIsOldest, Unlock

\* Nor does losing one.
LEMMA ExpireLeaseInv ==
  ASSUME LockInv, NEW c \in Client, ExpireLease(c)
  PROVE  LockInv'
  BY DEF LockInv, LockTypeOK, KeyIsRemembered, RevisionsAreUnique, OwnerIsOldest, ExpireLease

\* Whatever a program built on the lock does, its steps preserve the invariant.
LEMMA LockStepInv == LockInv /\ [LockNext]_lockVars => LockInv'
  <1> SUFFICES ASSUME LockInv, [LockNext]_lockVars
               PROVE  LockInv'
    OBVIOUS
  <1>1. CASE LockNext
    BY <1>1, PutKeyInv, AcquireInv, UnlockInv, ExpireLeaseInv DEF LockNext
  <1>2. CASE UNCHANGED lockVars
    BY <1>2 DEF lockVars, LockInv, LockTypeOK, KeyIsRemembered, RevisionsAreUnique, OwnerIsOldest
  <1> QED
    BY <1>1, <1>2

\* The lock keeps its promise, "exclusive access" (NewLock in failover.go), to
\* any number of clients that keep their leases.
THEOREM LockExcludes == LockSpec => []MutualExclusion
  <1>1. LockSpec => []LockInv
    BY LockInitInv, LockStepInv, PTL DEF LockSpec
  <1> QED
    BY <1>1, LockInvExcludes, PTL

=============================================================================
