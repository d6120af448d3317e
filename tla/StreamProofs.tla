---------------------------- MODULE StreamProofs ----------------------------
(***************************************************************************)
(* Safety of the two consumers of a clusterdata stream, supervise's watch  *)
(* actor and the wait for a recovery, for any number of writes, documents  *)
(* and faults. RevisionFilter makes the revision of the document that is   *)
(* read the highest that was ever let through; so the configuration only   *)
(* moves forward, and a failover succeeds on a document newer than any     *)
(* that denied it.                                                         *)
(***************************************************************************)
EXTENDS Supervise, Recovery, TLAPS

\* There may be a write.
LEMMA MaxRevPositive == MaxRev \in Nat \ {0}
  BY StreamAssumption DEF StreamAssumption

\* What the stream holds has been written, and it stops only when asked to.
StreamInv ==
    /\ StreamTypeOK
    /\ watch.kv <= Len(store) /\ watch.next <= Len(store) + 1
    /\ poll.kv <= Len(store) /\ tap <= Len(store)
    /\ filter <= Len(store) /\ last <= Len(store)
    /\ watch.at = "stopped" => ctxDone

\* The key has one value or none, and nothing has been read.
LEMMA StreamInitInv ==
  ASSUME StreamInit
  PROVE  StreamInv
  <1>1. store \in Seq(Value) /\ Len(store) \in {0, 1}
    <2>1. CASE store = <<>>
      BY <2>1
    <2>2. CASE \E v \in Value : store = <<v>>
      BY <2>2
    <2> QED
      BY <2>1, <2>2 DEF StreamInit
  <1>2. 0 \in 0..MaxRev /\ 1 \in 1..(MaxRev + 1) /\ Len(store) <= MaxRev
    <2>1. Len(store) = 0 \/ Len(store) = 1
      BY <1>1
    <2> QED
      BY <2>1, MaxRevPositive
  <1>3. StreamTypeOK
    BY <1>1, <1>2, MaxRevPositive DEF StreamInit, StreamTypeOK, Revisions
  <1> QED
    BY <1>1, <1>3 DEF StreamInit, StreamInv

\* A goroutine of the stream passes on what it has, or reads what is written.
LEMMA FlowInv ==
  ASSUME StreamInv, Goroutines
  PROVE  StreamInv' /\ UNCHANGED <<store, ctxDone, last>>
  <1> Len(store) \in Nat /\ Len(store) <= MaxRev /\ MaxRev \in Nat \ {0}
    BY MaxRevPositive DEF StreamInv, StreamTypeOK
  <1> USE DEF StreamInv, StreamTypeOK, Revisions
  <1>1. CASE WatchOpens
    <2>1. watch' = [at |-> "open", next |-> Len(store) + 1, kv |-> watch.kv]
      BY <1>1 DEF WatchOpens
    <2> QED
      BY <1>1, <2>1 DEF WatchOpens
  <1>2. CASE WatchEvent
    <2>1. watch' = [at |-> watch.at, next |-> watch.next + 1, kv |-> watch.next]
      BY <1>2 DEF WatchEvent
    <2> QED
      BY <1>2, <2>1 DEF WatchEvent
  <1>3. CASE WatchSend
    BY <1>3 DEF WatchSend, Receiver
  <1>4. CASE WatchBreaks
    BY <1>4 DEF WatchBreaks
  <1>5. CASE WatchStops
    BY <1>5 DEF WatchStops
  <1>6. CASE PollGets
    BY <1>6 DEF PollGets
  <1>7. CASE PollFails
    BY <1>7 DEF PollFails
  <1>8. CASE PollSend
    BY <1>8 DEF PollSend, Receiver
  <1>9. CASE PollAgain
    BY <1>9 DEF PollAgain
  <1>10. CASE FilterTake
    BY <1>10 DEF FilterTake
  <1>11. CASE WatchMisses
    <2>1. watch' = [at |-> watch.at, next |-> watch.next + 1, kv |-> watch.kv]
      BY <1>11 DEF WatchMisses
    <2> QED
      BY <1>11, <2>1 DEF WatchMisses
  <1> QED
    BY <1>1, <1>2, <1>3, <1>4, <1>5, <1>6, <1>7, <1>8, <1>9, <1>10, <1>11 DEF Goroutines

\* A write makes the stream's pairs no younger.
LEMMA PutInv ==
  ASSUME StreamInv, NEW v \in Value, Put(v)
  PROVE  /\ StreamInv' /\ UNCHANGED <<ctxDone, last>>
         /\ Len(store') = Len(store) + 1
         /\ \A i \in 1..Len(store) : store'[i] = store[i]
  BY MaxRevPositive DEF StreamInv, StreamTypeOK, Revisions, Put, goroutines

\* What the consumer receives is newer than all it has received.
LEMMA ReceiveInv ==
  ASSUME StreamInv, Receive
  PROVE  StreamInv' /\ UNCHANGED <<store, ctxDone>> /\ last' = filter /\ last' > last
  BY MaxRevPositive DEF StreamInv, StreamTypeOK, Revisions, Receive

\* Cancelling the context moves no pair.
LEMMA CancelInv ==
  ASSUME StreamInv, Cancel
  PROVE  StreamInv' /\ UNCHANGED <<store, last>>
  BY DEF StreamInv, StreamTypeOK, Cancel, goroutines

\* A step that leaves the stream alone moves no pair.
LEMMA UnchangedInv ==
  ASSUME StreamInv, UNCHANGED streamVars
  PROVE  StreamInv'
  BY DEF StreamInv, StreamTypeOK, streamVars

-----------------------------------------------------------------------------
(***************************************************************************)
(* Supervise's watch actor.                                                *)
(***************************************************************************)
\* The document being folded is the last one the filter let through, and it is
\* not older than the configuration.
FoldInv ==
    /\ fold.kv \in {0, last}
    /\ fold.at \in {"write", "reload"} => fold.kv # 0 /\ store[fold.kv] \in Address
    /\ configRev <= last
    /\ fold.at = "reload" => config = store[fold.kv]

IInv == TypeOK /\ StreamInv /\ FoldInv

\* Nothing is held, written or configured yet.
LEMMA InitInv == Init => IInv
  <1> SUFFICES ASSUME Init PROVE IInv
    OBVIOUS
  <1>1. StreamInv
    BY MaxRevPositive, StreamInitInv DEF Init
  <1>2. 0 \in 0..MaxRev
    BY MaxRevPositive
  <1>3. TypeOK
    BY <1>1, <1>2 DEF Init, TypeOK, Addresses, StreamInv
  <1> QED
    BY <1>1, <1>3 DEF Init, StreamInit, IInv, FoldInv

\* Folding a document, step by step.
LEMMA FoldStepInv ==
  ASSUME IInv, FoldReceives \/ FoldCloses \/ FoldRetries \/ Op \/ Boot
  PROVE  IInv'
  <1> USE DEF IInv
  <1>1. None \notin Address /\ NoMaster \notin Address /\ MaxRev \in Nat
    BY MaxRevPositive, SuperviseAssumption DEF SuperviseAssumption
  <1>2. Len(store) \in Nat /\ last \in Nat /\ filter \in Nat /\ configRev \in Nat
    BY <1>1 DEF TypeOK, StreamInv, StreamTypeOK, Revisions
  <1> USE DEF TypeOK, FoldInv, Addresses
  <1>3. CASE FoldReceives
    <2>1. StreamInv' /\ store' = store /\ last' = filter /\ last' > last
      BY <1>3, MaxRevPositive, ReceiveInv DEF FoldReceives
    <2>2. filter \in 0..MaxRev
      BY DEF StreamInv, StreamTypeOK, Revisions
    <2>3. configRev <= last'
      BY <1>2, <2>1
    <2> QED
      BY <1>3, <2>1, <2>2, <2>3 DEF FoldReceives, StreamInv
  <1>4. CASE FoldCloses \/ FoldRetries
    <2>1. UNCHANGED streamVars
      BY <1>4 DEF FoldCloses, FoldRetries
    <2>2. 0 \in 0..MaxRev /\ StreamInv'
      BY <1>1, <2>1, UnchangedInv
    <2> QED
      BY <1>4, <2>1, <2>2 DEF FoldCloses, FoldRetries, At, streamVars, StreamInv
  <1>5. CASE Op \/ Boot
    <2> USE DEF At, streamVars, StreamInv
    <2>1. UNCHANGED streamVars
      BY <1>5
      DEF Op, OpSkips, OpRefuses, OpTruncates, OpWriteFails, OpGenerates, OpReloads, OpReloadFails, Boot
    <2> StreamInv'
      BY <2>1, UnchangedInv
    <2>2. CASE OpSkips \/ OpRefuses
      BY <2>1, <2>2 DEF OpSkips, OpRefuses
    <2>3. CASE OpTruncates
      BY <1>1, <2>1, <2>3 DEF OpTruncates, Document
    <2>4. CASE OpWriteFails
      BY <2>1, <2>4 DEF OpWriteFails
    <2>5. CASE OpGenerates
      BY <1>1, <1>2, <2>1, <2>5 DEF OpGenerates, Document
    <2>6. CASE OpReloads
      BY <2>1, <2>6 DEF OpReloads
    <2>7. CASE OpReloadFails
      BY <2>1, <2>7 DEF OpReloadFails
    <2>8. CASE Boot
      BY <2>1, <2>8 DEF Boot
    <2> QED
      BY <1>5, <2>2, <2>3, <2>4, <2>5, <2>6, <2>7, <2>8 DEF Op
  <1> QED
    BY <1>3, <1>4, <1>5

\* Every step preserves the invariant.
LEMMA NextInv == IInv /\ [Next]_vars => IInv'
  <1> SUFFICES ASSUME IInv, [Next]_vars PROVE IInv'
    OBVIOUS
  <1> USE DEF IInv, TypeOK, FoldInv, Addresses
  <1>1. CASE FoldReceives \/ FoldCloses \/ FoldRetries \/ Op \/ Boot
    BY <1>1, FoldStepInv
  <1>2. CASE Flow
    BY <1>2, MaxRevPositive, FlowInv DEF Flow, foldVars, StreamInv
  <1>3. CASE Stop
    BY <1>3, CancelInv DEF Stop, foldVars, StreamInv
  <1>4. ASSUME NEW v \in Value, Write(v) PROVE IInv'
    <2>1. /\ StreamInv' /\ UNCHANGED last /\ UNCHANGED foldVars
          /\ \A i \in 1..Len(store) : store'[i] = store[i]
      BY <1>4, MaxRevPositive, PutInv DEF Write
    <2>2. fold.kv # 0 => fold.kv \in 1..Len(store)
      BY DEF StreamInv, StreamTypeOK, Revisions
    <2> QED
      BY <2>1, <2>2 DEF foldVars, StreamInv
  <1>5. CASE UNCHANGED vars
    BY <1>5, UnchangedInv DEF vars, foldVars, streamVars, StreamInv
  <1> QED
    BY <1>1, <1>2, <1>3, <1>4, <1>5 DEF Next

\* The invariant is inductive.
LEMMA Invariance == Spec => []IInv
  BY InitInv, NextInv, PTL DEF Spec

-----------------------------------------------------------------------------
\* Every variable keeps its type, and the stream's pairs are of the document.
THEOREM TypeCorrect == Spec => []TypeOK
  <1>1. IInv => TypeOK
    BY DEF IInv
  <1> QED
    BY <1>1, Invariance, PTL

\* Only OpGenerates writes the configuration's revision, and it folds the last
\* document that RevisionFilter has let through (main.go, filter.go).
THEOREM ConfigurationMovesForward == Spec => NeverRollsBack
  <1>1. IInv /\ [Next]_vars => [configRev' >= configRev]_vars
    <2> SUFFICES ASSUME IInv, Next PROVE configRev' >= configRev
      BY DEF vars
    <2>1. configRev \in Nat
      BY MaxRevPositive DEF IInv, TypeOK
    <2>2. CASE OpGenerates
      BY <2>1, <2>2 DEF OpGenerates, IInv, FoldInv
    <2>3. CASE ~ OpGenerates
      <3>1. configRev' = configRev
        BY <2>3 DEF Next, Flow, FoldReceives, FoldCloses, FoldRetries, Op, OpSkips, OpRefuses,
           OpTruncates, OpWriteFails, OpReloads, OpReloadFails, Boot, Stop, Write, foldVars
      <3> QED
        BY <2>1, <3>1
    <2> QED
      BY <2>2, <2>3
  <1> QED
    BY <1>1, Invariance, PTL DEF Spec, NeverRollsBack

-----------------------------------------------------------------------------
\* The address of the last reload is one PgBouncer has taken up.
ReloadedIsRoute ==
    lastReloadedAddress # None => pgbouncer = "up" /\ route = lastReloadedAddress

\* A RELOAD sets both, and nothing else sets either once PgBouncer is up.
LEMMA ReloadedIsRouteStep ==
  ASSUME "lateReload" \notin Faults, ReloadedIsRoute, [Next]_vars
  PROVE  ReloadedIsRoute'
  BY DEF ReloadedIsRoute, Next, vars, foldVars, Flow, FoldReceives, FoldCloses, FoldRetries, Op,
     OpSkips, OpRefuses, OpTruncates, OpWriteFails, OpGenerates, OpReloads, OpReloadFails, Boot,
     Stop, Write

\* A document is skipped only for an address that PgBouncer already sends
\* connections to, if a RELOAD that reports an error has had no effect (the
\* comparison with lastReloadedAddress in main.go).
THEOREM SkipsAreSafe ==
  ASSUME "lateReload" \notin Faults
  PROVE  Spec => SkipsOnlyWhenThere
  <1>1. Init => ReloadedIsRoute
    BY DEF Init, ReloadedIsRoute
  <1>2. ReloadedIsRoute /\ [Next]_vars => ReloadedIsRoute'
    BY ReloadedIsRouteStep
  <1>3. ReloadedIsRoute /\ [Next]_vars
          => [OpSkips /\ Document(fold.kv) \in Address => route = Document(fold.kv)]_vars
    BY SuperviseAssumption
    DEF SuperviseAssumption, ReloadedIsRoute, OpSkips, NothingToDo
  <1> QED
    BY <1>1, <1>2, <1>3, PTL DEF Spec, SkipsOnlyWhenThere

-----------------------------------------------------------------------------
\* Every step of the watch actor is one that WatchActor allows, or none of
\* its business: it returns only when it was asked to (the safety half of
\* WatchActorSpec; that it returns is left to TLC).
THEOREM ImplementsWatchActor == Spec => Actor!Init /\ [][Actor!Next]_(Actor!vars)
  <1>1. Init => Actor!Init
    BY DEF Init, StreamInit, Actor!Init
  <1>2. IInv /\ [Next]_vars => [Actor!Next]_(Actor!vars)
    <2> SUFFICES ASSUME IInv, [Next]_vars PROVE [Actor!Next]_(Actor!vars)
      OBVIOUS
    <2> USE DEF Actor!vars
    <2>1. CASE FoldCloses
      <3>1. watch.at = "stopped" => ctxDone
        BY DEF IInv, StreamInv
      <3> QED
        BY <2>1, <3>1 DEF FoldCloses, At, Closed, streamVars, Actor!Next, Actor!Returns
    <2>2. CASE OpGenerates
      BY <2>2 DEF OpGenerates, At, streamVars, Actor!Next, Actor!ReceivesHost
    <2>3. CASE Stop
      BY <2>3 DEF Stop, Cancel, foldVars, Actor!Next, Actor!Cancel
    <2>4. CASE \/ FoldReceives \/ FoldRetries \/ OpSkips \/ OpRefuses \/ OpTruncates
               \/ OpWriteFails \/ OpReloads \/ OpReloadFails \/ Boot
      <3>1. (fold.at # "returned" /\ fold'.at # "returned") \/ fold' = fold
        BY <2>4 DEF FoldReceives, FoldRetries, OpSkips, OpRefuses, OpTruncates, OpWriteFails,
           OpReloads, OpReloadFails, Boot, At, IInv, TypeOK
      <3>2. UNCHANGED ctxDone /\ (pgbouncer' # "off" <=> pgbouncer # "off")
        BY <2>4 DEF FoldReceives, Receive, FoldRetries, OpSkips, OpRefuses, OpTruncates,
           OpWriteFails, OpReloads, OpReloadFails, Boot, streamVars
      <3> QED
        BY <3>1, <3>2
    <2>5. CASE Flow
      BY <2>5, MaxRevPositive, FlowInv DEF Flow, foldVars, IInv
    <2>6. CASE \E v \in Value : Write(v)
      BY <2>6, MaxRevPositive, PutInv DEF Write, foldVars, IInv
    <2>7. CASE UNCHANGED vars
      BY <2>7 DEF vars, streamVars, foldVars
    <2> QED
      BY <2>1, <2>2, <2>3, <2>4, <2>5, <2>6, <2>7 DEF Next, Op
  <1> QED
    BY <1>1, <1>2, Invariance, PTL DEF Spec

-----------------------------------------------------------------------------
(***************************************************************************)
(* The wait for a recovery.                                                *)
(***************************************************************************)
\* The notifier holds the last document it read, and looks at no other one.
NotifierInv ==
    /\ notifier.at \in {"receive", "closed"} => notifier.kv = 0
    /\ notifier.kv # 0 => notifier.kv > rejected
    /\ rejected <= last
    /\ wait = "recovered" => notifier.at = "sent"
    /\ notifier.at \in {"send", "sent"} => notifier.kv # 0

WaitInv == WaitTypeOK /\ StreamInv /\ NotifierInv

\* Nothing has been read.
LEMMA WaitInitInv == WaitInit => WaitInv
  <1> SUFFICES ASSUME WaitInit PROVE WaitInv
    OBVIOUS
  <1>1. StreamInv
    BY MaxRevPositive, StreamInitInv DEF WaitInit
  <1>2. 0 \in 0..MaxRev
    BY MaxRevPositive
  <1> QED
    BY <1>1, <1>2 DEF WaitInit, StreamInit, WaitInv, WaitTypeOK, NotifierInv, StreamInv

\* The notifier and the select.
LEMMA WaitStepInv ==
  ASSUME WaitInv, Notifier \/ Answered \/ AnsweredNothing \/ TimesOut
  PROVE  WaitInv'
  <1> USE DEF WaitInv, WaitTypeOK, NotifierInv, StreamInv
  <1>1. last \in Nat /\ filter \in 0..MaxRev /\ rejected \in Nat
    BY MaxRevPositive DEF StreamTypeOK, Revisions
  <1>2. CASE PassesOver
    <2>1. StreamInv' /\ store' = store /\ last' = filter /\ last' > last
      BY <1>2, MaxRevPositive, ReceiveInv DEF PassesOver
    <2> QED
      BY <1>1, <1>2, <2>1 DEF PassesOver
  <1>3. CASE Sights
    <2>1. StreamInv' /\ store' = store /\ last' = filter /\ last' > last
      BY <1>3, MaxRevPositive, ReceiveInv DEF Sights
    <2>2. filter > rejected /\ rejected <= last'
      BY <1>1, <2>1
    <2> QED
      BY <1>1, <1>3, <2>1, <2>2 DEF Sights
  <1>4. CASE Closes \/ Answered \/ AnsweredNothing \/ TimesOut
    <2>1. StreamInv' /\ UNCHANGED streamVars
      BY <1>4, UnchangedInv
      DEF Closes, Answered, AnsweredNothing, TimesOut, streamVars
    <2> QED
      BY <1>4, <2>1 DEF Closes, Answered, AnsweredNothing, TimesOut, streamVars
  <1> QED
    BY <1>2, <1>3, <1>4 DEF Notifier

\* Every step preserves the invariant.
LEMMA WaitNextInv == WaitInv /\ [WaitNext]_waitVars => WaitInv'
  <1> SUFFICES ASSUME WaitInv, [WaitNext]_waitVars PROVE WaitInv'
    OBVIOUS
  <1> USE DEF WaitInv, WaitTypeOK, NotifierInv
  <1>1. CASE Notifier \/ Answered \/ AnsweredNothing \/ TimesOut
    BY <1>1, WaitStepInv
  <1>2. CASE OfStream(Goroutines)
    BY <1>2, MaxRevPositive, FlowInv DEF OfStream, StreamInv
  <1>3. CASE ContextEnds
    BY <1>3, CancelInv DEF ContextEnds, StreamInv
  <1>4. ASSUME NEW v \in Value, Rewrite(v) PROVE WaitInv'
    <2>1. /\ StreamInv' /\ UNCHANGED <<last, notifier, wait, rejected>>
          /\ \A i \in 1..Len(store) : store'[i] = store[i]
      BY <1>4, MaxRevPositive, PutInv DEF Rewrite
    <2>2. notifier.kv # 0 => notifier.kv \in 1..Len(store)
      BY DEF StreamInv, StreamTypeOK, Revisions
    <2> QED
      BY <2>1, <2>2 DEF StreamInv
  <1>5. CASE UNCHANGED waitVars
    BY <1>5, UnchangedInv DEF waitVars, streamVars, StreamInv
  <1> QED
    BY <1>1, <1>2, <1>3, <1>4, <1>5 DEF WaitNext

\* The invariant is inductive.
LEMMA WaitInvariance == WaitSpec => []WaitInv
  BY WaitInitInv, WaitNextInv, PTL DEF WaitSpec

-----------------------------------------------------------------------------
\* Every variable keeps its type, and the document the notifier holds is the
\* last one it read and shows a recovery.
THEOREM WaitTypeCorrect == WaitSpec => []WaitTypeOK
  <1>1. WaitInv => WaitTypeOK
    BY DEF WaitInv
  <1> QED
    BY <1>1, WaitInvariance, PTL

\* However the watch and the poll reorder, repeat or lose documents, a failover
\* does not succeed on one older than a document it has passed over
\* (NotifyRecovered in failover.go, through RevisionFilter).
THEOREM SucceedsOnNewest == WaitSpec => []NewerThanRejected
  <1>1. WaitInv => NewerThanRejected
    BY DEF WaitInv, NotifierInv, NewerThanRejected
  <1> QED
    BY <1>1, WaitInvariance, PTL

=============================================================================
