------------------------ MODULE SuperviseChildProofs ------------------------
(***************************************************************************)
(* Safety of supervise's child actor and its termination, for any clients, *)
(* databases, pool modes, restarts and faults. PgBouncer is ours only      *)
(* while the child actor runs it, and the group does not exit before the   *)
(* child actor has returned: so only a supervise that was killed leaves a  *)
(* PgBouncer.                                                              *)
(***************************************************************************)
EXTENDS SuperviseChild, TLAPS

\* A supervise that is gone has no child actor.
GoneHasNoChild == group = "exited" => child = "returned"

IInv == TypeOK /\ LeavesNoOrphan /\ GoneHasNoChild

\* supervise starts with no PgBouncer.
LEMMA InitInv == Init => IInv
  <1> MaxStarts \in Nat \ {0}
    BY SuperviseChildAssumption DEF SuperviseChildAssumption
  <1> 1 \in 0..MaxStarts
    OBVIOUS
  <1> QED
    BY DEF Init, Watch!Init, IInv, TypeOK, LeavesNoOrphan, GoneHasNoChild, Up, Interrupts

\* The child actor runs PgBouncer, and returns when PgBouncer is gone.
LEMMA ChildInv ==
  ASSUME IInv, Child
  PROVE  IInv'
  <1> USE DEF IInv, TypeOK, LeavesNoOrphan, GoneHasNoChild, Up,
          watchVars, pgbouncerVars, clientVars
  <1>1. CASE ChildDeclines
    BY <1>1 DEF ChildDeclines
  <1>2. CASE ChildBoots
    BY <1>2 DEF ChildBoots
  <1>3. CASE ChildReturns
    BY <1>3 DEF ChildReturns
  <1> QED
    BY <1>1, <1>2, <1>3 DEF Child

\* The interrupts of the group: only Kill ends PgBouncer, and only Exits, which
\* waits for the child actor, ends supervise.
LEMMA GroupInv ==
  ASSUME IInv, Group
  PROVE  IInv'
  <1> USE DEF IInv, TypeOK, LeavesNoOrphan, GoneHasNoChild, Up, Interrupts,
          watchVars, pgbouncerVars, clientVars
  <1>1. CASE FirstReturns \/ Sleeps \/ LooksBusy
    BY <1>1 DEF FirstReturns, Sleeps, LooksBusy, Goto
  <1>2. CASE Lists
    BY <1>2 DEF Lists
  <1>3. ASSUME NEW d \in Database, Disables(d) PROVE IInv'
    BY <1>3 DEF Disables
  <1>4. CASE DisableFails
    BY <1>4 DEF DisableFails
  <1>5. CASE LooksIdle
    BY <1>5 DEF LooksIdle, Goto
  <1>6. CASE Kill
    BY <1>6 DEF Kill, PgBouncerEnds
  <1>7. CASE CancelsWatch
    BY <1>7 DEF CancelsWatch
  <1>8. CASE Exits
    BY <1>8 DEF Exits
  <1> QED
    BY <1>1, <1>2, <1>3, <1>4, <1>5, <1>6, <1>7, <1>8 DEF Group

\* What happens to supervise and to PgBouncer.
LEMMA EnvironmentInv ==
  ASSUME IInv, OfWatch(Watch!ReceivesHost) \/ OfWatch(Watch!Returns) \/ Signal \/ Crash
               \/ Restart \/ PgBouncerDies \/ Pauses
  PROVE  IInv'
  <1> USE DEF IInv, TypeOK, LeavesNoOrphan, GoneHasNoChild, Up,
          watchVars, pgbouncerVars, clientVars
  <1>1. CASE OfWatch(Watch!ReceivesHost) \/ OfWatch(Watch!Returns) \/ Signal
    BY <1>1 DEF OfWatch, Watch!ReceivesHost, Watch!Returns, Watch!Cancel, Signal
  <1>2. CASE Crash
    BY <1>2 DEF Crash, Abandoned
  <1>3. CASE Restart
    <2> MaxStarts \in Nat
      BY SuperviseChildAssumption DEF SuperviseChildAssumption
    <2> starts + 1 \in 0..MaxStarts
      BY <1>3 DEF Restart
    <2> QED
      BY <1>3 DEF Restart
  <1>4. CASE PgBouncerDies
    BY <1>4 DEF PgBouncerDies, PgBouncerEnds
  <1>5. CASE Pauses
    BY <1>5 DEF Pauses
  <1> QED
    BY <1>1, <1>2, <1>3, <1>4, <1>5

\* The clients and their server connections touch nothing of supervise.
LEMMA ClientInv ==
  ASSUME IInv, Clients
  PROVE  IInv'
  <1> USE DEF IInv, TypeOK, LeavesNoOrphan, GoneHasNoChild, Up,
          watchVars, pgbouncerVars, clientVars
  <1> Uses \in [Client -> Database]
    BY SuperviseChildAssumption DEF SuperviseChildAssumption
  <1> USE DEF OfClients, Becomes
  <1>1. ASSUME NEW c \in Client, OfClients(Connects(c)) PROVE IInv'
    BY <1>1 DEF Connects
  <1>2. ASSUME NEW c \in Client, OfClients(Asks(c)) PROVE IInv'
    BY <1>2 DEF Asks
  <1>3. ASSUME NEW c \in Client, OfClients(Queues(c)) PROVE IInv'
    BY <1>3 DEF Queues
  <1>4. ASSUME NEW c \in Client, OfClients(Finishes(c)) PROVE IInv'
    BY <1>4 DEF Finishes
  <1>5. ASSUME NEW c \in Client, OfClients(Leaves(c)) PROVE IInv'
    BY <1>5 DEF Leaves
  <1>6. ASSUME NEW d \in Database, OfClients(PoolEmpties(d)) PROVE IInv'
    BY <1>6 DEF PoolEmpties
  <1>7. ASSUME NEW c \in Client,
               OfClients(Connects(c) \/ Asks(c) \/ Queues(c) \/ Finishes(c) \/ Leaves(c))
        PROVE  IInv'
    BY <1>1, <1>2, <1>3, <1>4, <1>5, <1>7
  <1> QED
    BY <1>6, <1>7 DEF Clients

\* Every step preserves the invariant.
LEMMA NextInv == IInv /\ [Next]_vars => IInv'
  <1>1. ASSUME IInv, UNCHANGED vars PROVE IInv'
    BY <1>1 DEF vars, watchVars, pgbouncerVars, clientVars, IInv, TypeOK, LeavesNoOrphan,
       GoneHasNoChild, Up
  <1> QED
    BY <1>1, ChildInv, GroupInv, EnvironmentInv, ClientInv DEF Next

\* The invariant is inductive.
LEMMA Invariance == Spec => []IInv
  BY InitInv, NextInv, PTL DEF Spec

-----------------------------------------------------------------------------
\* Every variable keeps its type; PgBouncer is ours while the child runs it.
THEOREM TypeCorrect == Spec => []TypeOK
  <1>1. IInv => TypeOK
    BY DEF IInv
  <1> QED
    BY <1>1, Invariance, PTL

\* supervise that exits by itself leaves no PgBouncer behind, however its
\* actors end and whatever fails on the way (the deferred cmdCancel and the
\* wait of run.Group, main.go).
THEOREM NoOrphanIsLeft == Spec => []LeavesNoOrphan
  <1>1. IInv => LeavesNoOrphan
    BY DEF IInv
  <1> QED
    BY <1>1, Invariance, PTL

=============================================================================
