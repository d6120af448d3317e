--------------------------- MODULE WithLockProofs ---------------------------
(***************************************************************************)
(* The with-lock command excludes, for any number of processes, as the     *)
(* lock does (EtcdLockProofs): a command runs only where Lock has returned *)
(* and Unlock has not been called; and the exit status says what ran.      *)
(***************************************************************************)
EXTENDS WithLock, EtcdLockProofs

\* Who runs a command, or is about to unlock, owns the lock; so does who was
\* killed with its command at work, until its lease ends.
CommandsOwn ==
    \A c \in Client : pc[c] \in {"command", "unlock"} \/ Running(c) => c \in owned

\* Before the command there is no exit status, and nothing has run.
StatusInv ==
    \A c \in Client :
        /\ pc[c] \in {"lock", "waiting"} => c \notin ran
        /\ pc[c] \in {"lock", "waiting", "command"} => exit[c] = -1
        /\ exit[c] = 2 => pc[c] \in {"exited", "panicked"}

IInv == TypeOK /\ LockInv /\ CommandsOwn /\ StatusInv /\ StatusTellsWhatRan

\* No process has asked for the lock.
LEMMA InitInv == Init => IInv
  <1> SUFFICES ASSUME Init PROVE IInv
    OBVIOUS
  <1>1. LockInv
    BY LockInitInv DEF Init
  <1> QED
    BY <1>1 DEF Init, LockInit, LockInv, IInv, TypeOK, Labels, CommandsOwn, StatusInv,
       StatusTellsWhatRan, Running

\* A process's step is a step of the lock, or none of it.
LEMMA StepIsLockStep ==
  ASSUME Next
  PROVE  [LockNext]_lockVars
  BY DEF Next, Enqueue, GetLock, NoLock, Start, CommandEnds, Release, Signal, SecondSignal, Crash,
     LeaseEnds, LockNext, lockVars

\* Every step preserves the invariant.
LEMMA NextInv == IInv /\ [Next]_vars => IInv'
  <1> SUFFICES ASSUME IInv, [Next]_vars PROVE IInv'
    OBVIOUS
  <1>1. LockInv'
    <2>1. [LockNext]_lockVars
      BY StepIsLockStep DEF vars, lockVars
    <2> QED
      BY <2>1, LockStepInv DEF IInv
  <1>2. LockTypeOK' /\ (\A c \in Client : c \in owned' => myRev'[c] # 0)
    BY <1>1 DEF LockInv, OwnerIsOldest
  <1> USE DEF IInv, TypeOK, Labels, CommandsOwn, Running, StatusInv, StatusTellsWhatRan, Goto, Exit,
             Ends
  <1>3. ASSUME NEW c \in Client, Enqueue(c) PROVE IInv'
    BY <1>1, <1>2, <1>3 DEF Enqueue, PutKey
  <1>4. ASSUME NEW c \in Client, GetLock(c) PROVE IInv'
    BY <1>1, <1>2, <1>4 DEF GetLock, Acquire
  <1>5. ASSUME NEW c \in Client, NoLock(c) PROVE IInv'
    <2>1. \A d \in Client \ {c} : d \in owned => d \in owned'
      BY <1>5 DEF NoLock, Unlock, PutKey, lockVars
    <2> QED
      BY <1>1, <1>2, <1>5, <2>1 DEF NoLock
  <1>6. ASSUME NEW c \in Client, Start(c) PROVE IInv'
    BY <1>1, <1>2, <1>6 DEF Start, lockVars
  <1>7. ASSUME NEW c \in Client, CommandEnds(c) PROVE IInv'
    BY <1>1, <1>2, <1>7 DEF CommandEnds, lockVars
  <1>8. ASSUME NEW c \in Client, Release(c) PROVE IInv'
    <2>1. \A d \in Client \ {c} : d \in owned => d \in owned'
      BY <1>8 DEF Release, Unlock, lockVars
    <2> QED
      BY <1>1, <1>2, <1>8, <2>1 DEF Release
  <1>9. ASSUME NEW c \in Client, Crash(c) PROVE IInv'
    BY <1>1, <1>2, <1>9 DEF Crash, Gone, lockVars
  <1>10. ASSUME NEW c \in Client, LeaseEnds(c) PROVE IInv'
    BY <1>1, <1>2, <1>10 DEF LeaseEnds, ExpireLease
  <1>11. ASSUME NEW c \in Client, Signal(c) PROVE IInv'
    BY <1>1, <1>2, <1>11 DEF Signal, lockVars
  <1>12. ASSUME NEW c \in Client, SecondSignal(c) PROVE IInv'
    BY <1>1, <1>2, <1>12 DEF SecondSignal, Gone, lockVars
  <1>13. CASE UNCHANGED vars
    BY <1>1, <1>2, <1>13 DEF vars
  <1> QED
    BY <1>3, <1>4, <1>5, <1>6, <1>7, <1>8, <1>9, <1>10, <1>11, <1>12, <1>13 DEF Next

\* The invariant is inductive.
LEMMA Invariance == Spec => []IInv
  BY InitInv, NextInv, PTL DEF Spec

-----------------------------------------------------------------------------
\* Every variable keeps its type, and an owner of the lock has a key.
THEOREM TypeCorrect == Spec => []TypeOK
  <1>1. IInv => TypeOK
    BY DEF IInv
  <1> QED
    BY <1>1, Invariance, PTL

\* Of any number of with-lock processes with live leases, one at most has its
\* command at work, those that were killed and left it behind included (the
\* with-lock command in main.go).
THEOREM CommandsExclude == Spec => []OneCommandAtATime
  <1>1. IInv => OneCommandAtATime
    BY LockInvExcludes DEF IInv, CommandsOwn, OneCommandAtATime, Running, MutualExclusion
  <1> QED
    BY <1>1, Invariance, PTL

\* Status 0 says that the command has been started, and status 2 that it has not,
\* unless the process was ended by its second signal; of status 3 nothing is said
\* (the exit codes of with-lock and the signal handler of main.go).
THEOREM StatusIsTrue == Spec => []StatusTellsWhatRan
  <1>1. IInv => StatusTellsWhatRan
    BY DEF IInv
  <1> QED
    BY <1>1, Invariance, PTL

=============================================================================
