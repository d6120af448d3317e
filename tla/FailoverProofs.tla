--------------------------- MODULE FailoverProofs ---------------------------
(***************************************************************************)
(* Theorems about the coordinators of module Failover, for any number of   *)
(* coordinators, keepers and nodes and any faults: they exclude each       *)
(* other, leave traffic flowing and the interval as it was, and each one   *)
(* is a run of the pipeline of pipeline.go.                                *)
(***************************************************************************)
EXTENDS FailoverPipeline, EtcdLockProofs, SequenceTheorems

\* A coordinator about to put the document back has read it.
SnapHeld ==
    \A c \in Client : pc[c] \in {"shortenPut", "restorePut"} => snap[c] \in Documents

TypeInv == TypeOK /\ SnapHeld

\* Where a failed step leads (Pipeline and the order of Run).
LEMMA AfterFailureIsDeferred ==
  /\ AfterFailure \in [Steps -> {"done", "release", "restoreGet", "resume"}]
  /\ AfterFailure["check"] = "done" /\ AfterFailure["ping"] = "done"
  /\ AfterFailure["lock"] = "release" /\ AfterFailure["lockwait"] = "release"
  /\ \A l \in {"shortenGet", "shortenPut", "shortenSleep"} : AfterFailure[l] = "restoreGet"
  /\ \A l \in {"pause", "failGet", "failExec", "await"} : AfterFailure[l] = "resume"
  BY DEF AfterFailure, Steps

\* The initial states are well typed.
LEMMA TypeInit == Init => TypeInv
  <1> SUFFICES ASSUME Init PROVE TypeInv
    OBVIOUS
  <1>1. LockTypeOK
    BY LockInitInv DEF Init, LockInv
  <1>2. store \in Documents
    BY DEF Init
  <1>3. /\ pc \in [Client -> Labels]
        /\ result \in [Client -> {"none", "ok", "error"}]
        /\ ctx \in [Client -> {"live", "done", "expired"}]
        /\ cached \in [Client -> Intervals]
    BY DEF Init, Labels, Steps, Deferred, Intervals
  <1>4. /\ snap \in [Client -> Documents \cup {NoDocument}]
        /\ target \in [Client -> Keeper \cup {NoKeeper}]
        /\ sighted \subseteq Client
    BY DEF Init
  <1>5. /\ rpc \in [Client -> [Node -> RpcStates]]
        /\ pool \in [Node -> Traffic]
        /\ stray \subseteq Node
    BY DEF Init, RpcStates, Traffic
  <1>6. \A c \in Client : pc[c] \in Steps => result[c] = "none"
    BY DEF Init
  <1>7. SnapHeld
    BY DEF Init, SnapHeld
  <1> QED
    BY <1>1, <1>2, <1>3, <1>4, <1>5, <1>6, <1>7 DEF TypeInv, TypeOK

\* Every step of the system is a step of the lock, or leaves it alone.
LEMMA LockStep == [Next]_vars => [LockNext]_lockVars
  <1> SUFFICES ASSUME [Next]_vars PROVE [LockNext]_lockVars
    OBVIOUS
  <1>1. ASSUME NEW c \in Client, Step(c) PROVE [LockNext]_lockVars
    BY <1>1 DEF Step, LockNext, CheckClusterHealthy, HealthCheckClients, LockPut, LockAcquired,
       LockTimeout, ShortenGet, ShortenPut, ShortenSleep, PauseCall, PauseReturns, FailGet,
       FailExec, Recover, AwaitTimeout, AwaitCancelled, AwaitEnds, ResumeCall, ResumeReturns,
       RestoreGet, RestorePut, ReleaseLock
  <1>2. ASSUME Environment PROVE [LockNext]_lockVars
    BY <1>2 DEF Environment, LockNext, Signal, CleanupTimeout, Crash, LeaseEnds, Lifted, StrayPause,
       Sentinel, Elect, StandbyFails, Heal, Reinitialise, Degrade, SentinelWrites
  <1> QED
    BY <1>1, <1>2 DEF Next, vars

\* The steps of the lock keep its types.
LEMMA LockTypeStep ==
  ASSUME LockTypeOK, [LockNext]_lockVars
  PROVE  LockTypeOK'
  BY DEF LockTypeOK, LockNext, lockVars, PutKey, Acquire, Unlock, ExpireLease

\* The part of the type invariant that is about the labels.
FlowOK ==
    /\ pc \in [Client -> Labels]
    /\ result \in [Client -> {"none", "ok", "error"}]
    /\ \A c \in Client : pc[c] \in Steps => result[c] = "none"

\* The part that is about the document and what coordinators know of it.
DataOK ==
    /\ store \in Documents
    /\ cached \in [Client -> Intervals]
    /\ snap \in [Client -> Documents \cup {NoDocument}]
    /\ target \in [Client -> Keeper \cup {NoKeeper}]
    /\ sighted \subseteq Client
    /\ SnapHeld

NodesOK ==
    /\ rpc \in [Client -> [Node -> RpcStates]]
    /\ pool \in [Node -> Traffic]
    /\ stray \subseteq Node

\* Every step keeps labels and results well typed, and leaves the result open
\* while there are steps to run.
LEMMA FlowStep ==
  ASSUME TypeInv, [Next]_vars
  PROVE  FlowOK'
  <1>0. FlowOK
    BY DEF TypeInv, TypeOK, FlowOK
  <1>1. ASSUME NEW c \in Client, NEW l \in Labels, Proceed(c, l),
               l \in Steps => pc[c] \in Steps
        PROVE  FlowOK'
    BY <1>1, <1>0 DEF FlowOK, Proceed, Goto
  <1>2. ASSUME NEW c \in Client, pc[c] \in Steps, Fail(c)
        PROVE  FlowOK'
    BY <1>2, <1>0, AfterFailureIsDeferred DEF FlowOK, Fail, Goto, Steps, Labels, Deferred
  <1>3. ASSUME NEW c \in Client, Return(c)
        PROVE  FlowOK'
    BY <1>3, <1>0 DEF FlowOK, Return, Goto, Steps, Labels, Deferred
  <1>4. ASSUME UNCHANGED <<pc, result>> PROVE FlowOK'
    BY <1>4, <1>0 DEF FlowOK
  <1>5. ASSUME NEW c \in Client, Step(c) PROVE FlowOK'
    <2>1. CASE CheckClusterHealthy(c) \/ HealthCheckClients(c)
      BY <2>1, <1>1, <1>2 DEF CheckClusterHealthy, HealthCheckClients, Steps, Labels
    <2>2. CASE LockPut(c) \/ LockAcquired(c) \/ LockTimeout(c)
      BY <2>2, <1>1, <1>2 DEF LockPut, LockAcquired, LockTimeout, Steps, Labels
    <2>3. CASE ShortenGet(c) \/ ShortenPut(c) \/ ShortenSleep(c)
      BY <2>3, <1>1, <1>2 DEF ShortenGet, ShortenPut, ShortenSleep, Steps, Labels
    <2>4. CASE (\E n \in Node : PauseCall(c, n)) \/ PauseReturns(c)
      BY <2>4, <1>1, <1>2, <1>4 DEF PauseCall, PauseReturns, Steps, Labels
    <2>5. CASE FailGet(c) \/ FailExec(c)
      BY <2>5, <1>1, <1>2 DEF FailGet, FailExec, Steps, Labels
    <2>6. CASE Recover(c) \/ AwaitTimeout(c) \/ AwaitCancelled(c)
      BY <2>6, <1>3, <1>2 DEF Recover, AwaitTimeout, AwaitCancelled, AwaitEnds, Steps
    <2>7. CASE (\E n \in Node : ResumeCall(c, n)) \/ ResumeReturns(c)
      BY <2>7, <1>1, <1>4 DEF ResumeCall, ResumeReturns, Steps, Labels, Deferred
    <2>8. CASE RestoreGet(c) \/ RestorePut(c) \/ ReleaseLock(c)
      BY <2>8, <1>1 DEF RestoreGet, RestorePut, ReleaseLock, Steps, Labels, Deferred
    <2> QED
      BY <1>5, <2>1, <2>2, <2>3, <2>4, <2>5, <2>6, <2>7, <2>8 DEF Step
  <1>6. ASSUME NEW c \in Client, Crash(c) PROVE FlowOK'
    BY <1>6, <1>0 DEF FlowOK, Crash, Goto, Steps, Labels
  <1>7. ASSUME Environment PROVE FlowOK'
    BY <1>7, <1>4, <1>6 DEF Environment, Signal, CleanupTimeout, LeaseEnds, Lifted, StrayPause,
       Sentinel, Elect, StandbyFails, Heal, Reinitialise, Degrade, SentinelWrites
  <1> QED
    BY <1>4, <1>5, <1>7 DEF Next, vars

\* Every step keeps what is known of the nodes well typed.
LEMMA NodesStep ==
  ASSUME TypeInv, [Next]_vars
  PROVE  NodesOK'
  <1>0. NodesOK
    BY DEF TypeInv, TypeOK, NodesOK
  <1>1. ASSUME UNCHANGED nodeVars PROVE NodesOK'
    BY <1>1, <1>0 DEF NodesOK, nodeVars
  <1>2. ASSUME NEW c \in Client, ShortenSleep(c) PROVE NodesOK'
    BY <1>2, <1>0 DEF NodesOK, ShortenSleep, RpcStates
  <1>3. ASSUME NEW c \in Client, NEW n \in Node, PauseCall(c, n) PROVE NodesOK'
    <2>1. rpc' \in [Client -> [Node -> RpcStates]]
      BY <1>3, <1>0 DEF NodesOK, PauseCall, RpcStates
    <2>2. pool' \in [Node -> Traffic] /\ stray' \subseteq Node
      BY <1>3, <1>0 DEF NodesOK, PauseCall, Traffic
    <2> QED
      BY <2>1, <2>2 DEF NodesOK
  <1>4. ASSUME NEW c \in Client, NEW n \in Node, ResumeCall(c, n) PROVE NodesOK'
    BY <1>4, <1>0 DEF NodesOK, ResumeCall, RpcStates, Traffic
  <1>5. ASSUME NEW c \in Client, Crash(c) PROVE NodesOK'
    BY <1>5, <1>0 DEF NodesOK, Crash, RpcStates
  <1>6. ASSUME NEW n \in Node, Lifted(n) \/ StrayPause(n) PROVE NodesOK'
    BY <1>6, <1>0 DEF NodesOK, Lifted, StrayPause, Traffic
  <1>7. ASSUME NEW c \in Client, Step(c) PROVE NodesOK'
    BY <1>7, <1>1, <1>2, <1>3, <1>4 DEF Step, CheckClusterHealthy, HealthCheckClients,
       LockPut, LockAcquired, LockTimeout, ShortenGet, ShortenPut, PauseReturns, FailGet,
       FailExec, Recover, AwaitTimeout, AwaitCancelled, AwaitEnds, ResumeReturns, RestoreGet,
       RestorePut, ReleaseLock, nodeVars
  <1>8. ASSUME Environment PROVE NodesOK'
    BY <1>8, <1>1, <1>5, <1>6 DEF Environment, Signal, CleanupTimeout, LeaseEnds,
       Sentinel, Elect, StandbyFails, Heal, Reinitialise, Degrade, SentinelWrites, nodeVars
  <1> QED
    BY <1>1, <1>7, <1>8 DEF Next, vars, nodeVars

\* What the sentinel writes is a document, and what it may change.
LEMMA SentinelDocument ==
  ASSUME store \in Documents, Sentinel
  PROVE  \E d \in Documents :
            /\ SentinelWrites(d)
            /\ d.interval = store.interval
            /\ \/ d.master = store.master /\ d.failing \in {NoKeeper, store.failing}
               \/ /\ d.failing = NoKeeper
                  /\ \/ d.master \in Keeper /\ store.master \in {store.failing, NoKeeper}
                     \/ "election" \in Faults
  <1>1. {"down", "ready", "tolerant"} \subseteq Levels /\ NoKeeper \notin Keeper
    BY FailoverAssumption DEF Levels
  <1>2. CASE \E k \in Keeper, l \in {"down", "ready"} : Elect(k, l)
    <2>1. PICK k \in Keeper, l \in {"down", "ready"} : Elect(k, l)
      BY <1>2
    <2>2. PICK d : d = [store EXCEPT !.master = k, !.level = l, !.failing = NoKeeper]
      OBVIOUS
    <2>3. d \in Documents /\ d.interval = store.interval /\ d.failing = NoKeeper /\ d.master = k
      BY <1>1, <2>2 DEF Documents
    <2>4. SentinelWrites(d) /\ (store.master \in {store.failing, NoKeeper} \/ "election" \in Faults)
      BY <2>1, <2>2 DEF Elect
    <2> QED
      BY <2>3, <2>4
  <1>3. CASE \E l \in {"down", "ready"} : StandbyFails(l)
    <2>1. PICK l \in {"down", "ready"} : StandbyFails(l)
      BY <1>3
    <2>2. PICK d : d = [store EXCEPT !.level = l, !.failing = NoKeeper]
      OBVIOUS
    <2>3. d \in Documents /\ d.interval = store.interval /\ d.failing = NoKeeper
          /\ d.master = store.master
      BY <1>1, <2>1, <2>2 DEF Documents, StandbyFails
    <2>4. SentinelWrites(d)
      BY <2>1, <2>2 DEF StandbyFails
    <2> QED
      BY <2>3, <2>4
  <1>4. CASE Heal \/ \E l \in {"down", "ready"} : Degrade(l)
    <2>1. store.master # NoKeeper
      BY <1>4 DEF Heal, Degrade, Documents
    <2>2. ASSUME NEW l \in Levels, SentinelWrites([store EXCEPT !.level = l])
          PROVE  \E d \in Documents : /\ SentinelWrites(d) /\ d.interval = store.interval
                                      /\ d.master = store.master /\ d.failing = store.failing
      <3>1. PICK d : d = [store EXCEPT !.level = l]
        OBVIOUS
      <3>2. d \in Documents /\ d.interval = store.interval /\ d.failing = store.failing
            /\ d.master = store.master
        BY <2>1, <3>1 DEF Documents
      <3> QED
        BY <2>2, <3>1, <3>2
    <2>3. \E l \in Levels : SentinelWrites([store EXCEPT !.level = l])
      <3>1. CASE Heal
        <4>1. "ready" \in Levels /\ "tolerant" \in Levels
          BY <1>1
        <4>2. \/ SentinelWrites([store EXCEPT !.level = "ready"])
              \/ SentinelWrites([store EXCEPT !.level = "tolerant"])
          BY <3>1 DEF Heal
        <4> QED
          BY <4>1, <4>2
      <3>2. CASE \E l \in {"down", "ready"} : Degrade(l)
        BY <1>1, <3>2 DEF Degrade
      <3> QED
        BY <1>4, <3>1, <3>2
    <2> QED
      BY <2>2, <2>3
  <1>5. CASE Reinitialise
    <2>1. PICK d : d = [store EXCEPT !.master = NoKeeper, !.level = "down", !.failing = NoKeeper]
      OBVIOUS
    <2>2. d \in Documents /\ d.interval = store.interval /\ d.failing = NoKeeper
      BY <1>1, <2>1 DEF Documents
    <2>3. SentinelWrites(d) /\ "election" \in Faults
      BY <1>5, <2>1 DEF Reinitialise
    <2> QED
      BY <2>2, <2>3
  <1> QED
    BY <1>2, <1>3, <1>4, <1>5 DEF Sentinel

\* Every step keeps the document well typed: whatever is put back was read.
LEMMA DataStep ==
  ASSUME TypeInv, [Next]_vars
  PROVE  DataOK'
  <1>0. DataOK /\ pc \in [Client -> Labels]
    BY DEF TypeInv, TypeOK, DataOK
  <1>1. ASSUME UNCHANGED dataVars,
               \A c \in Client : pc'[c] \in {"shortenPut", "restorePut"} => pc'[c] = pc[c]
        PROVE  DataOK'
    BY <1>1, <1>0 DEF DataOK, SnapHeld, dataVars
  <1>2. ASSUME NEW c \in Client, Fail(c), pc[c] \in Steps
        PROVE  /\ pc' \in [Client -> Labels]
               /\ \A d \in Client : pc'[d] \in {"shortenPut", "restorePut"} =>
                                       d # c /\ pc'[d] = pc[d]
    BY <1>0, <1>2, AfterFailureIsDeferred DEF Fail, Goto, Labels, Deferred, Steps
  <1>3. ASSUME NEW c \in Client, NEW l \in Labels, Proceed(c, l) \/ Goto(c, l)
        PROVE  /\ pc' \in [Client -> Labels]
               /\ pc'[c] = l
               /\ \A d \in Client : d # c => pc'[d] = pc[d]
    BY <1>0, <1>3 DEF Proceed, Goto
  <1>4. ASSUME NEW d \in Documents, Write(d)
        PROVE  store' \in Documents /\ sighted' \subseteq Client
    BY <1>4, <1>0 DEF Write, DataOK
  <1>5. \A d \in Documents :
          /\ \A i \in Intervals : [d EXCEPT !.interval = i] \in Documents
          /\ \A k \in Keeper \cup {NoKeeper} : [d EXCEPT !.failing = k] \in Documents
    BY DEF Documents
  <1>6. ASSUME NEW c \in Client, ShortenGet(c) PROVE DataOK'
    <2>1. CASE Fail(c) /\ UNCHANGED <<cached, snap>>
      BY <2>1, <1>6, <1>0, <1>2 DEF ShortenGet, DataOK, SnapHeld, Steps
    <2>2. CASE /\ store.interval \in {"5s", "1s"}
               /\ cached' = [cached EXCEPT ![c] = store.interval]
               /\ snap' = [snap EXCEPT ![c] = store]
               /\ Proceed(c, "shortenPut")
      <3>1. "shortenPut" \in Labels /\ store.interval \in Intervals
        BY <2>2 DEF Labels, Steps, Intervals
      <3> QED
        BY <2>2, <3>1, <1>6, <1>0, <1>3 DEF ShortenGet, DataOK, SnapHeld
    <2> QED
      BY <1>6, <2>1, <2>2 DEF ShortenGet
  <1>7. ASSUME NEW c \in Client, ShortenPut(c) PROVE DataOK'
    <2>1. snap[c] \in Documents /\ pc[c] = "shortenPut"
      BY <1>7, <1>0 DEF DataOK, SnapHeld, ShortenPut
    <2>2. /\ store' \in Documents /\ sighted' \subseteq Client
          /\ UNCHANGED <<cached, target>>
      <3>1. [snap[c] EXCEPT !.interval = "1s"] \in Documents
        BY <2>1, <1>5 DEF Intervals
      <3>2. Write([snap[c] EXCEPT !.interval = "1s"]) \/ UNCHANGED <<store, sighted>>
        BY <1>7 DEF ShortenPut
      <3>3. store' \in Documents /\ sighted' \subseteq Client
        BY <3>1, <3>2, <1>0, <1>4 DEF DataOK
      <3> QED
        BY <3>3, <1>7 DEF ShortenPut
    <2>3. snap' = [snap EXCEPT ![c] = NoDocument]
      BY <1>7 DEF ShortenPut
    <2>4. \A d \in Client : pc'[d] \in {"shortenPut", "restorePut"} => d # c /\ pc'[d] = pc[d]
      BY <2>1, <1>7, <1>2, <1>3 DEF ShortenPut, Labels, Steps
    <2> QED
      BY <2>2, <2>3, <2>4, <1>0 DEF DataOK, SnapHeld
  <1>8. ASSUME NEW c \in Client, RestoreGet(c) PROVE DataOK'
    <2>1. "restorePut" \in Labels /\ "release" \in Labels
      BY DEF Labels, Deferred
    <2> QED
      BY <2>1, <1>8, <1>0, <1>3 DEF RestoreGet, DataOK, SnapHeld
  <1>9. ASSUME NEW c \in Client, RestorePut(c) PROVE DataOK'
    <2>1. snap[c] \in Documents /\ pc[c] = "restorePut" /\ cached[c] \in Intervals
      BY <1>9, <1>0 DEF DataOK, SnapHeld, RestorePut
    <2>2. /\ store' \in Documents /\ sighted' \subseteq Client
          /\ UNCHANGED <<cached, target>>
      <3>1. [snap[c] EXCEPT !.interval = cached[c]] \in Documents
        BY <2>1, <1>5
      <3>2. Write([snap[c] EXCEPT !.interval = cached[c]]) \/ UNCHANGED <<store, sighted>>
        BY <1>9 DEF RestorePut
      <3>3. store' \in Documents /\ sighted' \subseteq Client
        BY <3>1, <3>2, <1>0, <1>4 DEF DataOK
      <3> QED
        BY <3>3, <1>9 DEF RestorePut
    <2>3. snap' = [snap EXCEPT ![c] = NoDocument]
      BY <1>9 DEF RestorePut
    <2>4. \A d \in Client : pc'[d] \in {"shortenPut", "restorePut"} => d # c /\ pc'[d] = pc[d]
      BY <1>9, <1>3 DEF RestorePut, Labels, Deferred
    <2> QED
      BY <2>2, <2>3, <2>4, <1>0 DEF DataOK, SnapHeld
  <1>10. ASSUME NEW c \in Client, FailGet(c) PROVE DataOK'
    <2>1. store.master \in Keeper \cup {NoKeeper}
      BY <1>0 DEF DataOK, Documents
    <2>2. target' \in [Client -> Keeper \cup {NoKeeper}]
      BY <2>1, <1>10, <1>0 DEF FailGet, DataOK
    <2>3. \A d \in Client : pc'[d] \in {"shortenPut", "restorePut"} => d # c /\ pc'[d] = pc[d]
      BY <1>10, <1>2, <1>3 DEF FailGet, Labels, Steps
    <2> QED
      BY <2>2, <2>3, <1>10, <1>0 DEF FailGet, DataOK, SnapHeld
  <1>11. ASSUME NEW c \in Client, FailExec(c) PROVE DataOK'
    <2>1. [store EXCEPT !.failing = target[c]] \in Documents
      BY <1>0, <1>5 DEF DataOK
    <2>2. store' \in Documents /\ sighted' \subseteq Client
      BY <2>1, <1>11, <1>0, <1>4 DEF FailExec, DataOK
    <2>3. target' \in [Client -> Keeper \cup {NoKeeper}] /\ UNCHANGED <<cached, snap>>
      BY <1>11, <1>0 DEF FailExec, DataOK
    <2>4. \A d \in Client : pc'[d] \in {"shortenPut", "restorePut"} => d # c /\ pc'[d] = pc[d]
      BY <1>11, <1>2, <1>3 DEF FailExec, Labels, Steps
    <2> QED
      BY <2>2, <2>3, <2>4, <1>0 DEF DataOK, SnapHeld
  <1>12. ASSUME NEW c \in Client, Recover(c) \/ AwaitTimeout(c) \/ AwaitCancelled(c) PROVE DataOK'
    <2>1. AwaitEnds(c) /\ pc[c] \in Steps /\ (Fail(c) \/ Goto(c, "resume"))
      BY <1>12 DEF Recover, AwaitTimeout, AwaitCancelled, AwaitEnds, Return, Steps
    <2>2. \A d \in Client : pc'[d] \in {"shortenPut", "restorePut"} => pc'[d] = pc[d]
      BY <2>1, <1>2, <1>3 DEF Labels, Deferred
    <2> QED
      BY <2>1, <2>2, <1>0 DEF AwaitEnds, DataOK, SnapHeld
  <1>13. ASSUME NEW c \in Client, Crash(c) PROVE DataOK'
    <2>1. "crashed" \in Labels /\ "" \in Intervals
      BY DEF Labels, Intervals
    <2> QED
      BY <2>1, <1>13, <1>0, <1>3 DEF Crash, DataOK, SnapHeld
  <1>14. ASSUME Sentinel PROVE DataOK'
    <2>1. PICK d \in Documents : SentinelWrites(d)
      BY <1>14, <1>0, SentinelDocument DEF DataOK
    <2> QED
      BY <2>1, <1>0, <1>4 DEF SentinelWrites, DataOK, SnapHeld
  <1>15. ASSUME NEW c \in Client, Step(c) PROVE DataOK'
    <2>1. CASE CheckClusterHealthy(c) \/ HealthCheckClients(c)
      BY <2>1, <1>1, <1>2, <1>3 DEF CheckClusterHealthy, HealthCheckClients, Steps, Labels
    <2>2. CASE LockPut(c) \/ LockAcquired(c) \/ LockTimeout(c)
      BY <2>2, <1>1, <1>2, <1>3 DEF LockPut, LockAcquired, LockTimeout, Steps, Labels
    <2>3. CASE ShortenSleep(c) \/ (\E n \in Node : PauseCall(c, n)) \/ PauseReturns(c)
      BY <2>3, <1>1, <1>2, <1>3 DEF ShortenSleep, PauseCall, PauseReturns, Steps, Labels
    <2>4. CASE (\E n \in Node : ResumeCall(c, n)) \/ ResumeReturns(c) \/ ReleaseLock(c)
      BY <2>4, <1>1, <1>3 DEF ResumeCall, ResumeReturns, ReleaseLock, Labels, Deferred
    <2> QED
      BY <1>15, <2>1, <2>2, <2>3, <2>4, <1>6, <1>7, <1>8, <1>9, <1>10, <1>11, <1>12 DEF Step
  <1>16. ASSUME Environment PROVE DataOK'
    BY <1>16, <1>1, <1>13, <1>14 DEF Environment, Signal, CleanupTimeout, LeaseEnds, Lifted, StrayPause
  <1> QED
    BY <1>1, <1>15, <1>16 DEF Next, vars, dataVars

\* Every step keeps the contexts well typed.
LEMMA CtxStep ==
  ASSUME TypeInv, [Next]_vars
  PROVE  ctx' \in [Client -> {"live", "done", "expired"}]
  <1>0. ctx \in [Client -> {"live", "done", "expired"}]
    BY DEF TypeInv, TypeOK
  <1>1. ASSUME NEW c \in Client, Step(c) PROVE UNCHANGED ctx
    BY <1>1 DEF Step, CheckClusterHealthy, HealthCheckClients, LockPut, LockAcquired,
       LockTimeout, ShortenGet, ShortenPut, ShortenSleep, PauseCall, PauseReturns, FailGet,
       FailExec, Recover, AwaitTimeout, AwaitCancelled, AwaitEnds, ResumeCall, ResumeReturns,
       RestoreGet, RestorePut, ReleaseLock
  <1>2. ASSUME Environment PROVE ctx' \in [Client -> {"live", "done", "expired"}]
    BY <1>2, <1>0 DEF Environment, Signal, CleanupTimeout, Crash, LeaseEnds, Lifted, StrayPause,
       Sentinel, Elect, StandbyFails, Heal, Reinitialise, Degrade, SentinelWrites
  <1> QED
    BY <1>0, <1>1, <1>2 DEF Next, vars

\* The type invariant is inductive.
LEMMA TypeStep ==
  ASSUME TypeInv, [Next]_vars
  PROVE  TypeInv'
  <1>1. LockTypeOK'
    BY LockStep, LockTypeStep DEF TypeInv, TypeOK
  <1>2. FlowOK' /\ DataOK' /\ NodesOK'
    BY FlowStep, DataStep, NodesStep
  <1> QED
    BY <1>1, <1>2, CtxStep DEF TypeInv, TypeOK, FlowOK, DataOK, NodesOK

\* Every variable keeps its type, and a coordinator still in its steps has not
\* decided what Run returns.
THEOREM TypeCorrect == Spec => []TypeOK
  <1>1. Spec => []TypeInv
    BY TypeInit, TypeStep, PTL DEF Spec
  <1>2. TypeInv => TypeOK
    BY DEF TypeInv
  <1> QED
    BY <1>1, <1>2, PTL

-----------------------------------------------------------------------------
\* A coordinator relies on the lock only between the end of AcquireLock and its
\* deferred ReleaseLock: the order of Run.
CriticalOwns == \A c \in Client : InCritical(c) => c \in owned

ExclusionInv == FlowOK /\ LockInv /\ CriticalOwns

\* Nobody is critical at first.
LEMMA ExclusionInit == Init => ExclusionInv
  <1> SUFFICES ASSUME Init PROVE ExclusionInv
    OBVIOUS
  <1>1. FlowOK
    BY TypeInit DEF TypeInv, TypeOK, FlowOK
  <1>2. LockInv
    BY LockInitInv DEF Init
  <1>3. CriticalOwns
    BY DEF Init, CriticalOwns, InCritical, Critical
  <1> QED
    BY <1>1, <1>2, <1>3 DEF ExclusionInv

\* A coordinator becomes critical by taking the lock, and gives the lock back
\* only when it no longer is.
LEMMA CriticalOwnsStep ==
  ASSUME FlowOK, CriticalOwns, [Next]_vars
  PROVE  CriticalOwns'
  <1>0. pc \in [Client -> Labels]
    BY DEF FlowOK
  \* A move of one coordinator that leaves the lock alone.
  <1>1. ASSUME NEW c \in Client, NEW l \in Labels, UNCHANGED owned,
               Proceed(c, l) \/ Goto(c, l),
               l \in Critical => InCritical(c)
        PROVE  CriticalOwns'
    BY <1>0, <1>1 DEF CriticalOwns, InCritical, Proceed, Goto
  \* A failed step: what is deferred before it is no more critical than it was.
  <1>2. ASSUME NEW c \in Client, pc[c] \in Steps, Fail(c), UNCHANGED owned
        PROVE  CriticalOwns'
    <2>1. AfterFailure[pc[c]] \in Critical => InCritical(c)
      BY <1>2, AfterFailureIsDeferred DEF Steps, Critical, InCritical
    <2>2. pc' = [pc EXCEPT ![c] = AfterFailure[pc[c]]]
      BY <1>2 DEF Fail, Goto
    <2> QED
      BY <1>0, <1>2, <2>1, <2>2 DEF CriticalOwns, InCritical
  <1>3. ASSUME UNCHANGED <<pc, owned>> PROVE CriticalOwns'
    BY <1>3 DEF CriticalOwns, InCritical
  <1>4. ASSUME NEW c \in Client, LockPut(c) PROVE CriticalOwns'
    BY <1>4, <1>1, <1>2 DEF LockPut, PutKey, lockVars, Labels, Steps, Critical
  <1>5. ASSUME NEW c \in Client, LockAcquired(c) PROVE CriticalOwns'
    BY <1>0, <1>5 DEF LockAcquired, Acquire, Proceed, Goto, CriticalOwns, InCritical
  <1>6. ASSUME NEW c \in Client, LockTimeout(c) PROVE CriticalOwns'
    <2>1. /\ pc' = [pc EXCEPT ![c] = "release"]
          /\ owned' = owned \ {c} \/ owned' = owned
      BY <1>6, AfterFailureIsDeferred DEF LockTimeout, Unlock, Fail, Goto, lockVars
    <2> QED
      BY <1>0, <2>1 DEF CriticalOwns, InCritical, Critical
  <1>7. ASSUME NEW c \in Client, ReleaseLock(c) PROVE CriticalOwns'
    BY <1>0, <1>7 DEF ReleaseLock, Unlock, lockVars, Proceed, Goto, CriticalOwns,
       InCritical, Critical
  <1>8. ASSUME NEW c \in Client, Step(c) PROVE CriticalOwns'
    <2>1. CASE CheckClusterHealthy(c) \/ HealthCheckClients(c)
      BY <2>1, <1>1, <1>2 DEF CheckClusterHealthy, HealthCheckClients, lockVars, Steps,
         Labels, Critical
    <2>2. CASE ShortenGet(c) \/ ShortenPut(c) \/ ShortenSleep(c)
      BY <2>2, <1>1, <1>2 DEF ShortenGet, ShortenPut, ShortenSleep, lockVars, Steps, Labels,
         Critical, InCritical
    <2>3. CASE (\E n \in Node : PauseCall(c, n)) \/ PauseReturns(c)
      BY <2>3, <1>1, <1>2, <1>3 DEF PauseCall, PauseReturns, lockVars, Steps, Labels,
         Critical, InCritical
    <2>4. CASE FailGet(c) \/ FailExec(c)
      BY <2>4, <1>1, <1>2 DEF FailGet, FailExec, lockVars, Steps, Labels, Critical, InCritical
    <2>5. CASE Recover(c) \/ AwaitTimeout(c) \/ AwaitCancelled(c)
      BY <2>5, <1>1, <1>2 DEF Recover, AwaitTimeout, AwaitCancelled, AwaitEnds, Return,
         lockVars, Steps, Labels, Deferred, Critical, InCritical
    <2>6. CASE (\E n \in Node : ResumeCall(c, n)) \/ ResumeReturns(c)
      BY <2>6, <1>1, <1>3 DEF ResumeCall, ResumeReturns, lockVars, Labels, Deferred, Critical,
         InCritical
    <2>7. CASE RestoreGet(c) \/ RestorePut(c)
      BY <2>7, <1>1 DEF RestoreGet, RestorePut, lockVars, Labels, Deferred, Critical, InCritical
    <2> QED
      BY <1>8, <2>1, <2>2, <2>3, <2>4, <2>5, <2>6, <2>7, <1>4, <1>5, <1>6, <1>7 DEF Step
  <1>9. ASSUME Environment PROVE CriticalOwns'
    <2>1. ASSUME NEW c \in Client, Crash(c) PROVE CriticalOwns'
      BY <2>1, <1>1 DEF Crash, lockVars, Labels, Critical
    <2>2. ASSUME NEW c \in Client, LeaseEnds(c) PROVE UNCHANGED <<pc, owned>>
      BY <2>2 DEF LeaseEnds, ExpireLease
    <2> QED
      BY <1>9, <1>3, <2>1, <2>2 DEF Environment, Signal, CleanupTimeout, Lifted, StrayPause, Sentinel,
         Elect, StandbyFails, Heal, Reinitialise, Degrade, SentinelWrites, lockVars
  <1> QED
    BY <1>3, <1>8, <1>9 DEF Next, vars, lockVars

\* The exclusion invariant is inductive.
LEMMA ExclusionStep ==
  ASSUME TypeInv, ExclusionInv, [Next]_vars
  PROVE  ExclusionInv'
  BY FlowStep, LockStep, LockStepInv, CriticalOwnsStep DEF ExclusionInv

\* Both invariants hold of the specification.
LEMMA InvHolds == Spec => [](TypeInv /\ ExclusionInv)
  BY TypeInit, TypeStep, ExclusionInit, ExclusionStep, PTL DEF Spec

\* Two coordinators whose leases are alive are never both between AcquireLock
\* and ReleaseLock, whatever fails and however they are stopped.
THEOREM FailoversExclude == Spec => []OneFailoverAtATime
  <1>1. ExclusionInv => OneFailoverAtATime
    BY LockInvExcludes DEF ExclusionInv, CriticalOwns, OneFailoverAtATime, MutualExclusion
  <1> QED
    BY <1>1, InvHolds, PTL

-----------------------------------------------------------------------------
\* Before the first pause call, and from it to the last resume call.
BeforePause == {"check", "ping", "lock", "lockwait", "shortenGet", "shortenPut", "shortenSleep"}
PauseWindow == {"pause", "failGet", "failExec", "await", "resume"}

\* What has become of a coordinator's calls, by where it is.
CallsFollowSteps ==
    \A c \in Client, n \in Node :
        /\ pc[c] \in BeforePause => rpc[c][n] = "idle"
        /\ rpc[c][n] \in {"sent", "ok", "err"} => pc[c] \in PauseWindow

\* A blocked node is one that somebody called and has not resumed.
BlockedIsOwed ==
    \A n \in Node : pool[n] = "blocked" => \E d \in Client : rpc[d][n] \in {"ok", "err", "failed"}

\* What the holder of the lock has resumed is blocked again only by somebody that
\* runs on without its lease.
ResumedFlows ==
    \A c \in owned \ lost, n \in Node :
        rpc[c][n] = "resumed" /\ pool[n] = "blocked" =>
            \E d \in lost : rpc[d][n] \in {"ok", "err", "failed"}

CallsInv == CallsFollowSteps /\ BlockedIsOwed /\ ResumedFlows

\* Nothing has been called and no node is blocked at first.
LEMMA CallsInit == Init => CallsInv
  <1> SUFFICES ASSUME Init PROVE CallsInv
    OBVIOUS
  <1>1. \A c \in Client, n \in Node : rpc[c][n] = "idle" /\ pc[c] \in BeforePause
    BY DEF Init, BeforePause
  <1>2. owned = {} /\ \A n \in Node : pool[n] = "flowing"
    BY DEF Init, LockInit
  <1> QED
    BY <1>1, <1>2 DEF CallsInv, CallsFollowSteps, BlockedIsOwed, ResumedFlows

\* A lease that is lost stays lost.
LEMMA LostStays == [Next]_vars => lost \subseteq lost'
  BY LockStep DEF LockNext, lockVars, PutKey, Acquire, Unlock, ExpireLease

\* The steps that change what coordinators know of their calls, or the traffic.
LEMMA CallSteps ==
  ASSUME [Next]_vars
  PROVE  \/ UNCHANGED <<rpc, pool>>
         \/ \E c \in Client : ShortenSleep(c) \/ Crash(c)
         \/ \E c \in Client, n \in Node : PauseCall(c, n) \/ ResumeCall(c, n)
         \/ \E n \in Node : Lifted(n) \/ StrayPause(n)
  <1>1. ASSUME NEW c \in Client, Step(c)
        PROVE  \/ UNCHANGED <<rpc, pool>>
               \/ ShortenSleep(c)
               \/ \E n \in Node : PauseCall(c, n) \/ ResumeCall(c, n)
    BY <1>1 DEF Step, CheckClusterHealthy, HealthCheckClients, LockPut, LockAcquired,
       LockTimeout, ShortenGet, ShortenPut, PauseReturns, FailGet, FailExec, Recover,
       AwaitTimeout, AwaitCancelled, AwaitEnds, ResumeReturns, RestoreGet, RestorePut,
       ReleaseLock, nodeVars
  <1>2. ASSUME Environment
        PROVE  \/ UNCHANGED <<rpc, pool>>
               \/ \E c \in Client : Crash(c)
               \/ \E n \in Node : Lifted(n) \/ StrayPause(n)
    BY <1>2 DEF Environment, Signal, CleanupTimeout, LeaseEnds, Sentinel, Elect, StandbyFails,
       Heal, Reinitialise, Degrade, SentinelWrites, nodeVars
  <1> QED
    BY <1>1, <1>2 DEF Next, vars, nodeVars

\* How each of them changes the calls.
LEMMA CallsChange ==
  ASSUME TypeInv, NEW c \in Client
  PROVE  /\ ShortenSleep(c) => /\ pc[c] = "shortenSleep" /\ UNCHANGED pool
                               /\ rpc' = [rpc EXCEPT ![c] = [n \in Node |-> "sent"]]
         /\ Crash(c) => /\ UNCHANGED pool
                        /\ \A d \in Client \ {c} : rpc'[d] = rpc[d]
                        /\ \A n \in Node : rpc'[c][n] = IF rpc[c][n] \in {"sent", "ok", "err"}
                                                        THEN "failed" ELSE rpc[c][n]
         /\ \A n \in Node : PauseCall(c, n) =>
              /\ pc[c] = "pause" /\ rpc'[c][n] \in {"ok", "err"}
              /\ \A d \in Client, m \in Node : d # c \/ m # n => rpc'[d][m] = rpc[d][m]
              /\ \A m \in Node : m # n => pool'[m] = pool[m]
         /\ \A n \in Node : ResumeCall(c, n) =>
              /\ pc[c] = "resume" /\ rpc[c][n] \in {"ok", "err"}
              /\ \/ rpc'[c][n] = "failed" /\ pool'[n] \in {pool[n], "flowing"}
                 \/ rpc'[c][n] = "resumed" /\ pool'[n] = "flowing"
              /\ \A d \in Client, m \in Node : d # c \/ m # n => rpc'[d][m] = rpc[d][m]
              /\ \A m \in Node : m # n => pool'[m] = pool[m]
  <1>0. rpc \in [Client -> [Node -> RpcStates]] /\ pool \in [Node -> Traffic]
    BY DEF TypeInv, TypeOK
  <1>1. ASSUME ShortenSleep(c)
        PROVE  /\ pc[c] = "shortenSleep" /\ UNCHANGED pool
               /\ rpc' = [rpc EXCEPT ![c] = [n \in Node |-> "sent"]]
    BY <1>1 DEF ShortenSleep
  <1>2. ASSUME Crash(c)
        PROVE  /\ UNCHANGED pool
               /\ \A d \in Client \ {c} : rpc'[d] = rpc[d]
               /\ \A n \in Node : rpc'[c][n] = IF rpc[c][n] \in {"sent", "ok", "err"}
                                               THEN "failed" ELSE rpc[c][n]
    BY <1>0, <1>2 DEF Crash
  <1>3. ASSUME NEW n \in Node, PauseCall(c, n)
        PROVE  /\ pc[c] = "pause" /\ rpc'[c][n] \in {"ok", "err"}
               /\ \A d \in Client, m \in Node : d # c \/ m # n => rpc'[d][m] = rpc[d][m]
               /\ \A m \in Node : m # n => pool'[m] = pool[m]
    <2>1. PICK r \in {"ok", "err"} : rpc' = [rpc EXCEPT ![c][n] = r]
      BY <1>3 DEF PauseCall
    <2>2. pc[c] = "pause" /\ \A m \in Node : m # n => pool'[m] = pool[m]
      BY <1>0, <1>3 DEF PauseCall
    <2> QED
      BY <1>0, <2>1, <2>2
  <1>4. ASSUME NEW n \in Node, ResumeCall(c, n)
        PROVE  /\ pc[c] = "resume" /\ rpc[c][n] \in {"ok", "err"}
               /\ \/ rpc'[c][n] = "failed" /\ pool'[n] \in {pool[n], "flowing"}
                  \/ rpc'[c][n] = "resumed" /\ pool'[n] = "flowing"
               /\ \A d \in Client, m \in Node : d # c \/ m # n => rpc'[d][m] = rpc[d][m]
               /\ \A m \in Node : m # n => pool'[m] = pool[m]
    <2>1. PICK r \in {"resumed", "failed"} :
            /\ rpc' = [rpc EXCEPT ![c][n] = r]
            /\ r = "resumed" => pool' = [pool EXCEPT ![n] = "flowing"]
      BY <1>4 DEF ResumeCall
    <2>2. /\ pc[c] = "resume" /\ rpc[c][n] \in {"ok", "err"}
          /\ pool' = [pool EXCEPT ![n] = "flowing"] \/ pool' = pool
      BY <1>4 DEF ResumeCall
    <2>a. rpc' = [rpc EXCEPT ![c][n] = r]
      BY <2>1
    <2>b. r = "resumed" => pool' = [pool EXCEPT ![n] = "flowing"]
      BY <2>1
    <2>c. rpc'[c][n] = r
      BY <1>0, <2>a
    <2>d. pool'[n] \in {pool[n], "flowing"}
      BY <1>0, <2>2
    <2>3. r = "resumed" => pool'[n] = "flowing"
      BY <1>0, <2>b
    <2>4. \A d \in Client, m \in Node : d # c \/ m # n => rpc'[d][m] = rpc[d][m]
      BY <1>0, <2>a
    <2>5. \A m \in Node : m # n => pool'[m] = pool[m]
      BY <1>0, <2>2
    <2>6. r = "resumed" \/ r = "failed"
      BY <2>1
    <2> QED
      BY <2>2, <2>3, <2>4, <2>5, <2>6, <2>c, <2>d
  <1> QED
    BY <1>1, <1>2, <1>3, <1>4, Zenon

\* A coordinator calls nobody before its pauses, and leaves none of its calls open
\* when it leaves the window.
LEMMA CallsFollowStepsStep ==
  ASSUME TypeInv, CallsFollowSteps, [Next]_vars
  PROVE  CallsFollowSteps'
  <1>0. pc \in [Client -> Labels] /\ rpc \in [Client -> [Node -> RpcStates]]
    BY DEF TypeInv, TypeOK
  <1>1. ASSUME UNCHANGED <<rpc>>, NEW c \in Client, NEW l \in Labels, Proceed(c, l) \/ Goto(c, l),
               l \in BeforePause => pc[c] \in BeforePause,
               pc[c] \in PauseWindow => l \in PauseWindow
        PROVE  CallsFollowSteps'
    <2>1. pc' = [pc EXCEPT ![c] = l]
      BY <1>1 DEF Proceed, Goto
    <2> QED
      BY <1>0, <1>1, <2>1 DEF CallsFollowSteps
  <1>2. ASSUME UNCHANGED <<rpc>>, NEW c \in Client, pc[c] \in Steps, Fail(c)
        PROVE  CallsFollowSteps'
    <2>1. /\ AfterFailure[pc[c]] \in Labels \ BeforePause
          /\ pc[c] \in PauseWindow => AfterFailure[pc[c]] \in PauseWindow
      BY <1>2, AfterFailureIsDeferred DEF Steps, PauseWindow, BeforePause, Labels, Deferred
    <2>2. Goto(c, AfterFailure[pc[c]])
      BY <1>2 DEF Fail
    <2> QED
      BY <1>1, <1>2, <2>1, <2>2
  <1>3. ASSUME UNCHANGED <<rpc, pc>> PROVE CallsFollowSteps'
    BY <1>3 DEF CallsFollowSteps
  <1>4. ASSUME NEW c \in Client, ShortenSleep(c) PROVE CallsFollowSteps'
    <2>1. pc' = [pc EXCEPT ![c] = "pause"] /\ rpc' = [rpc EXCEPT ![c] = [n \in Node |-> "sent"]]
      BY <1>4 DEF ShortenSleep, Proceed, Goto
    <2> QED
      BY <1>0, <2>1 DEF CallsFollowSteps, BeforePause, PauseWindow
  <1>5. ASSUME NEW c \in Client, NEW n \in Node, PauseCall(c, n) \/ ResumeCall(c, n)
        PROVE  CallsFollowSteps'
    <2>1. UNCHANGED pc /\ pc[c] \in {"pause", "resume"}
      BY <1>5 DEF PauseCall, ResumeCall
    <2> QED
      BY <1>5, <2>1, CallsChange DEF CallsFollowSteps, BeforePause, PauseWindow
  <1>6. ASSUME NEW c \in Client, ResumeReturns(c) PROVE CallsFollowSteps'
    <2>1. pc' = [pc EXCEPT ![c] = "restoreGet"] /\ UNCHANGED rpc
          /\ \A n \in Node : rpc[c][n] \in {"resumed", "failed"}
      BY <1>6 DEF ResumeReturns, Proceed, Goto, nodeVars
    <2> QED
      BY <1>0, <2>1 DEF CallsFollowSteps, BeforePause
  <1>7. ASSUME NEW c \in Client, Crash(c) PROVE CallsFollowSteps'
    <2>1. pc' = [pc EXCEPT ![c] = "crashed"]
      BY <1>7 DEF Crash, Goto
    <2> QED
      BY <1>0, <1>7, <2>1, CallsChange DEF CallsFollowSteps, BeforePause
  <1>8. ASSUME NEW c \in Client, Step(c) PROVE CallsFollowSteps'
    <2>1. CASE CheckClusterHealthy(c) \/ HealthCheckClients(c)
      BY <2>1, <1>1, <1>2 DEF CheckClusterHealthy, HealthCheckClients, nodeVars, Steps,
         Labels, BeforePause, PauseWindow
    <2>2. CASE LockPut(c) \/ LockAcquired(c) \/ LockTimeout(c)
      BY <2>2, <1>1, <1>2 DEF LockPut, LockAcquired, LockTimeout, nodeVars, Steps, Labels,
         BeforePause, PauseWindow
    <2>3. CASE ShortenGet(c) \/ ShortenPut(c)
      BY <2>3, <1>1, <1>2 DEF ShortenGet, ShortenPut, nodeVars, Steps, Labels, BeforePause,
         PauseWindow
    <2>4. CASE PauseReturns(c) \/ FailGet(c) \/ FailExec(c)
      BY <2>4, <1>1, <1>2 DEF PauseReturns, FailGet, FailExec, nodeVars, Steps, Labels,
         BeforePause, PauseWindow
    <2>5. CASE Recover(c) \/ AwaitTimeout(c) \/ AwaitCancelled(c)
      BY <2>5, <1>1, <1>2 DEF Recover, AwaitTimeout, AwaitCancelled, AwaitEnds, Return,
         nodeVars, Steps, Labels, Deferred, BeforePause, PauseWindow
    <2>6. CASE RestoreGet(c) \/ RestorePut(c) \/ ReleaseLock(c)
      BY <2>6, <1>1 DEF RestoreGet, RestorePut, ReleaseLock, nodeVars, Labels, Deferred,
         BeforePause, PauseWindow
    <2> QED
      BY <1>8, <2>1, <2>2, <2>3, <2>4, <2>5, <2>6, <1>4, <1>5, <1>6 DEF Step
  <1>9. ASSUME Environment PROVE CallsFollowSteps'
    BY <1>9, <1>3, <1>7 DEF Environment, Signal, CleanupTimeout, LeaseEnds, Lifted, StrayPause,
       Sentinel, Elect, StandbyFails, Heal, Reinitialise, Degrade, SentinelWrites, nodeVars
  <1> QED
    BY <1>3, <1>8, <1>9 DEF Next, vars, nodeVars

\* A node gets blocked by a call, and that call is forgotten only when the node is
\* resumed.
LEMMA BlockedStep ==
  ASSUME TypeInv, CallsInv, [Next]_vars
  PROVE  BlockedIsOwed'
  <1>1. ASSUME UNCHANGED <<rpc, pool>> PROVE BlockedIsOwed'
    BY <1>1 DEF CallsInv, BlockedIsOwed
  <1>2. ASSUME NEW c \in Client, ShortenSleep(c) PROVE BlockedIsOwed'
    <2>1. \A n \in Node : rpc[c][n] = "idle"
      BY <1>2, CallsChange DEF CallsInv, CallsFollowSteps, BeforePause
    <2>2. \A d \in Client : d # c => rpc'[d] = rpc[d]
      BY <1>2, CallsChange DEF TypeInv, TypeOK
    <2> QED
      BY <1>2, <2>1, <2>2, CallsChange DEF CallsInv, BlockedIsOwed
  <1>3. ASSUME NEW c \in Client, Crash(c) PROVE BlockedIsOwed'
    BY <1>3, CallsChange DEF CallsInv, BlockedIsOwed
  <1>4. ASSUME NEW c \in Client, NEW n \in Node, PauseCall(c, n) PROVE BlockedIsOwed'
    BY <1>4, CallsChange DEF CallsInv, BlockedIsOwed
  <1>5. ASSUME NEW c \in Client, NEW n \in Node, ResumeCall(c, n) PROVE BlockedIsOwed'
    BY <1>5, CallsChange DEF CallsInv, BlockedIsOwed
  <1>6. ASSUME NEW n \in Node, Lifted(n) \/ StrayPause(n) PROVE BlockedIsOwed'
    BY <1>6 DEF Lifted, StrayPause, CallsInv, BlockedIsOwed, TypeInv, TypeOK
  <1> QED
    BY CallSteps, <1>1, <1>2, <1>3, <1>4, <1>5, <1>6

\* Whoever calls a pauser relies on the lock: next to the holder of the lock it is
\* one that has lost its lease.
LEMMA ResumedStep ==
  ASSUME TypeInv, ExclusionInv, CallsInv, [Next]_vars
  PROVE  ResumedFlows'
  <1>0. /\ lost \subseteq lost' /\ lost \subseteq Client /\ owned \subseteq Client
        /\ rpc \in [Client -> [Node -> RpcStates]] /\ pool \in [Node -> Traffic]
    BY LostStays DEF TypeInv, TypeOK, LockTypeOK
  <1>1. ASSUME NEW c \in owned' \ lost' PROVE c \in owned \ lost \/ pc[c] = "lockwait"
    <2>1. ASSUME NEW d \in Client, Step(d), c \notin owned PROVE pc[c] = "lockwait"
      BY <1>1, <2>1 DEF Step, CheckClusterHealthy, HealthCheckClients, LockPut, LockAcquired,
         LockTimeout, ShortenGet, ShortenPut, ShortenSleep, PauseCall, PauseReturns, FailGet,
         FailExec, Recover, AwaitTimeout, AwaitCancelled, AwaitEnds, ResumeCall, ResumeReturns,
         RestoreGet, RestorePut, ReleaseLock, PutKey, Acquire, Unlock, lockVars
    <2>2. ASSUME Environment PROVE c \in owned
      BY <1>1, <2>2 DEF Environment, Signal, CleanupTimeout, Crash, LeaseEnds, ExpireLease, Lifted,
         StrayPause, Sentinel, Elect, StandbyFails, Heal, Reinitialise, Degrade, SentinelWrites,
         lockVars
    <2> QED
      BY <1>0, <1>1, <2>1, <2>2 DEF Next, vars, lockVars
  <1> SUFFICES ASSUME NEW c \in owned' \ lost', NEW n \in Node,
                      rpc'[c][n] = "resumed", pool'[n] = "blocked"
               PROVE  \E d \in lost' : rpc'[d][n] \in {"ok", "err", "failed"}
    BY DEF ResumedFlows
  <1>c. c \in Client
    BY LockStep, LockTypeStep DEF TypeInv, TypeOK, LockTypeOK
  <1>2. ASSUME pool[n] = "blocked", rpc[c][n] = "resumed",
               \A d \in lost : rpc[d][n] \in {"ok", "err", "failed"} =>
                                    rpc'[d][n] \in {"ok", "err", "failed"}
        PROVE  \E d \in lost' : rpc'[d][n] \in {"ok", "err", "failed"}
    <2>1. pc[c] # "lockwait"
      BY <1>2, <1>c DEF CallsInv, CallsFollowSteps, BeforePause
    <2>2. c \in owned \ lost
      BY <1>1, <2>1
    <2> QED
      BY <1>0, <1>2, <2>2 DEF CallsInv, ResumedFlows
  <1>3. CASE UNCHANGED <<rpc, pool>>
    BY <1>2, <1>3
  <1>4. ASSUME NEW d \in Client, ShortenSleep(d)
        PROVE  \E e \in lost' : rpc'[e][n] \in {"ok", "err", "failed"}
    <2>1. rpc[d][n] = "idle"
      BY <1>4, CallsChange DEF CallsInv, CallsFollowSteps, BeforePause
    <2>2. rpc' = [rpc EXCEPT ![d] = [m \in Node |-> "sent"]] /\ pool' = pool
      BY <1>4, CallsChange
    <2>3. c # d /\ \A e \in Client : e # d => rpc'[e] = rpc[e]
      BY <1>0, <2>2
    <2> QED
      BY <1>0, <1>2, <1>c, <2>1, <2>2, <2>3
  <1>5. ASSUME NEW d \in Client, Crash(d)
        PROVE  \E e \in lost' : rpc'[e][n] \in {"ok", "err", "failed"}
    <2>1. rpc[c][n] = "resumed" /\ pool[n] = "blocked"
      BY <1>5, <1>c, CallsChange
    <2>2. \A e \in lost : rpc[e][n] \in {"ok", "err", "failed"} => rpc'[e][n] \in {"ok", "err", "failed"}
      BY <1>0, <1>5, CallsChange
    <2> QED
      BY <1>2, <2>1, <2>2
  <1>6. ASSUME NEW d \in Client, NEW m \in Node, PauseCall(d, m)
        PROVE  \E e \in lost' : rpc'[e][n] \in {"ok", "err", "failed"}
    <2>1. CASE m # n
      BY <1>0, <1>2, <1>6, <1>c, <2>1, CallsChange
    <2>2. CASE m = n
      <3>1. d # c /\ rpc'[d][n] \in {"ok", "err", "failed"} /\ pc[d] = "pause"
            /\ rpc[c][n] = "resumed"
        BY <1>6, <1>c, <2>2, CallsChange
      <3>2. c \in owned \ lost
        BY <1>1, <1>c, <3>1 DEF CallsInv, CallsFollowSteps, BeforePause
      <3>3. d \in owned
        BY <3>1 DEF ExclusionInv, CriticalOwns, InCritical, Critical
      <3>4. d \in lost
        BY <3>1, <3>2, <3>3, LockInvExcludes DEF ExclusionInv, MutualExclusion
      <3> QED
        BY <1>0, <3>1, <3>4
    <2> QED
      BY <2>1, <2>2
  <1>7. ASSUME NEW d \in Client, NEW m \in Node, ResumeCall(d, m)
        PROVE  \E e \in lost' : rpc'[e][n] \in {"ok", "err", "failed"}
    <2>1. CASE m # n
      BY <1>0, <1>2, <1>7, <1>c, <2>1, CallsChange
    <2>2. CASE m = n
      <3>1. /\ rpc'[d][n] = "failed" /\ pool[n] = "blocked"
            /\ \A e \in Client \ {d} : rpc'[e][n] = rpc[e][n]
        BY <1>7, <2>2, CallsChange
      <3>2. c # d /\ rpc[c][n] = "resumed"
        BY <1>c, <3>1
      <3> QED
        BY <1>0, <1>2, <3>1, <3>2
    <2> QED
      BY <2>1, <2>2
  <1>8. ASSUME NEW m \in Node, Lifted(m) \/ StrayPause(m)
        PROVE  \E e \in lost' : rpc'[e][n] \in {"ok", "err", "failed"}
    <2>1. rpc' = rpc /\ pool[n] = "blocked"
      BY <1>0, <1>8 DEF Lifted, StrayPause
    <2> QED
      BY <1>2, <2>1
  <1> QED
    BY CallSteps, <1>3, <1>4, <1>5, <1>6, <1>7, <1>8

\* All three hold of the specification.
LEMMA CallsHold == Spec => []CallsInv
  <1>1. TypeInv /\ ExclusionInv /\ CallsInv /\ [Next]_vars => CallsInv'
    BY CallsFollowStepsStep, BlockedStep, ResumedStep DEF CallsInv
  <1> QED
    BY <1>1, CallsInit, InvHolds, PTL DEF Spec

\* A coordinator past its deferred Resume leaves traffic flowing, whatever fails
\* and whoever is killed, but for the nodes where a Resume call failed and those
\* that somebody blocks without its lease: the exclusion of failovers and the
\* order of the deferred actions together.
THEOREM TrafficFlowsBeforeRelease == Spec => []FlowsBeforeRelease
  <1>1. TypeInv /\ ExclusionInv /\ CallsInv => FlowsBeforeRelease
    <2> SUFFICES ASSUME TypeInv, ExclusionInv, CallsInv,
                        NEW c \in owned \ lost, NEW n \in Node,
                        pc[c] \in {"restoreGet", "restorePut", "release"}, pool[n] = "blocked"
                 PROVE  \/ rpc[c][n] = "failed"
                        \/ rpc[c][n] = "idle" /\ \E d \in Client : rpc[d][n] = "failed"
                        \/ \E d \in lost : rpc[d][n] \notin {"idle", "resumed"}
      BY DEF FlowsBeforeRelease
    <2>1. /\ c \in Client /\ pc[c] \notin PauseWindow
          /\ rpc \in [Client -> [Node -> RpcStates]]
      BY DEF TypeInv, TypeOK, LockTypeOK, PauseWindow
    <2>2. rpc[c][n] \in {"idle", "resumed", "failed"}
      BY <2>1 DEF CallsInv, CallsFollowSteps, RpcStates
    <2>3. CASE rpc[c][n] = "resumed"
      BY <2>3 DEF CallsInv, ResumedFlows
    <2>4. CASE rpc[c][n] = "idle"
      <3>1. PICK d \in Client : rpc[d][n] \in {"ok", "err", "failed"}
        BY DEF CallsInv, BlockedIsOwed
      <3>2. CASE rpc[d][n] \in {"ok", "err"}
        <4>1. d \in owned /\ pc[d] \in PauseWindow
          BY <3>2 DEF CallsInv, CallsFollowSteps, ExclusionInv, CriticalOwns, InCritical,
             Critical, PauseWindow
        <4>2. d \in lost
          BY <2>1, <4>1, LockInvExcludes DEF ExclusionInv, MutualExclusion
        <4> QED
          BY <3>2, <4>2
      <3> QED
        BY <2>4, <3>1, <3>2
    <2> QED
      BY <2>2, <2>3, <2>4
  <1> QED
    BY <1>1, CallsHold, InvHolds, PTL

-----------------------------------------------------------------------------
\* Between caching the interval and putting it back.
Shortened == {"shortenPut", "shortenSleep", "pause", "failGet", "failExec", "await",
              "resume", "restoreGet", "restorePut"}

\* While nobody has been killed or lost its lease, whoever has shortened the
\* interval remembers the one that is configured, and it is in place otherwise.
IntervalIsKept ==
    (\A c \in Client : pc[c] # "crashed" /\ c \notin lost) =>
        /\ \A c \in Client : pc[c] \in Shortened => cached[c] \in Configured
        /\ (\A c \in Client : pc[c] \notin Shortened) => store.interval \in Configured

IntervalInv == IntervalIsKept /\ \A c \in Client : ctx[c] = "live"

\* The interval is as configured at first.
LEMMA IntervalInit == Init => IntervalInv
  BY DEF Init, IntervalInv, IntervalIsKept, Shortened

\* Nobody is asked to stop, so that no context ends.
LEMMA CtxLiveStep ==
  ASSUME "signal" \notin Faults, TypeInv, \A c \in Client : ctx[c] = "live", [Next]_vars
  PROVE  \A c \in Client : ctx'[c] = "live"
  <1>1. ASSUME NEW c \in Client, Step(c) PROVE UNCHANGED ctx
    BY <1>1 DEF Step, CheckClusterHealthy, HealthCheckClients, LockPut, LockAcquired,
       LockTimeout, ShortenGet, ShortenPut, ShortenSleep, PauseCall, PauseReturns, FailGet,
       FailExec, Recover, AwaitTimeout, AwaitCancelled, AwaitEnds, ResumeCall, ResumeReturns,
       RestoreGet, RestorePut, ReleaseLock
  <1>2. ASSUME Environment PROVE UNCHANGED ctx
    BY <1>2 DEF Environment, Signal, CleanupTimeout, Crash, LeaseEnds, Lifted, StrayPause,
       Sentinel, Elect, StandbyFails, Heal, Reinitialise, Degrade, SentinelWrites
  <1> QED
    BY <1>1, <1>2 DEF Next, vars

\* The interval is cached from a document nobody else has shortened, and what is
\* put back is what was cached.
LEMMA IntervalStep ==
  ASSUME "etcd" \notin Faults, "signal" \notin Faults, "unset" \notin Configured,
         TypeInv, ExclusionInv, IntervalInv, [Next]_vars
  PROVE  IntervalInv'
  <1>0. /\ FlowOK /\ IntervalIsKept /\ cached \in [Client -> Intervals]
        /\ lost \subseteq lost' /\ \A c \in Client : ctx[c] = "live"
    BY LostStays DEF TypeInv, TypeOK, FlowOK, IntervalInv
  \* A move that neither enters nor leaves the shortened part.
  <1>1. ASSUME NEW c \in Client, NEW l \in Labels, Proceed(c, l) \/ Goto(c, l),
               pc[c] # "crashed", pc[c] \notin Shortened, l \notin Shortened,
               UNCHANGED <<store, cached>>
        PROVE  IntervalIsKept'
    <2>1. pc' = [pc EXCEPT ![c] = l]
      BY <1>1 DEF Proceed, Goto
    <2> QED
      BY <1>0, <1>1, <2>1 DEF IntervalIsKept, FlowOK
  <1>2. ASSUME NEW c \in Client, NEW l \in Shortened, Proceed(c, l) \/ Goto(c, l),
               pc[c] \in Shortened, UNCHANGED cached
        PROVE  IntervalIsKept'
    <2>1. pc' = [pc EXCEPT ![c] = l] /\ pc[c] # "crashed"
      BY <1>2 DEF Proceed, Goto, Shortened
    <2>2. pc'[c] \in Shortened
      BY <1>0, <1>2, <2>1 DEF FlowOK
    <2> QED
      BY <1>0, <1>2, <2>1, <2>2 DEF IntervalIsKept, FlowOK
  \* A failed step.
  <1>3. ASSUME NEW c \in Client, pc[c] \in {"check", "ping", "lock", "lockwait"}, Fail(c),
               UNCHANGED <<store, cached>>
        PROVE  IntervalIsKept'
    <2>1. AfterFailure[pc[c]] \in Labels \ Shortened
      BY <1>3, AfterFailureIsDeferred DEF Labels, Deferred, Shortened
    <2>2. Goto(c, AfterFailure[pc[c]]) /\ pc[c] # "crashed" /\ pc[c] \notin Shortened
      BY <1>3 DEF Fail, Shortened
    <2> QED
      BY <1>1, <1>3, <2>1, <2>2
  <1>4. ASSUME NEW c \in Client, pc[c] \in Shortened \cap Steps, Fail(c), UNCHANGED cached
        PROVE  IntervalIsKept'
    <2>1. AfterFailure[pc[c]] \in Shortened
      BY <1>4, AfterFailureIsDeferred DEF Shortened, Steps
    <2>2. Goto(c, AfterFailure[pc[c]]) /\ pc[c] \in Shortened
      BY <1>4 DEF Fail
    <2> QED
      BY <1>2, <1>4, <2>1, <2>2
  <1>5. ASSUME UNCHANGED <<pc, cached>>, store'.interval = store.interval
        PROVE  IntervalIsKept'
    BY <1>0, <1>5 DEF IntervalIsKept
  <1>6. ASSUME NEW c \in Client, ShortenGet(c) PROVE IntervalIsKept'
    <2> SUFFICES ASSUME \A d \in Client : pc'[d] # "crashed" /\ d \notin lost'
                 PROVE  /\ \A d \in Client : pc'[d] \in Shortened => cached'[d] \in Configured
                        /\ pc'[c] \in Shortened
      BY DEF IntervalIsKept
    <2>1. pc[c] = "shortenGet" /\ \A d \in Client : d # c => pc'[d] = pc[d]
      BY <1>6, <1>0 DEF ShortenGet, Proceed, Fail, Goto, FlowOK
    <2>2. \A d \in Client : pc[d] # "crashed" /\ d \notin lost
      BY <2>1, <1>0
    <2>3. \A d \in Client : pc[d] \notin Shortened
      <3> SUFFICES ASSUME NEW d \in Client, pc[d] \in Shortened PROVE FALSE
        OBVIOUS
      <3>1. c \in owned \ lost /\ d \in owned \ lost
        BY <2>1, <2>2 DEF ExclusionInv, CriticalOwns, InCritical, Critical, Shortened
      <3>2. c = d
        BY <3>1, LockInvExcludes DEF ExclusionInv, MutualExclusion
      <3> QED
        BY <2>1, <3>2 DEF Shortened
    <2>4. store.interval \in Configured
      BY <2>2, <2>3, <1>0 DEF IntervalIsKept
    <2>5. store.interval = "5s"
      BY <2>4, FailoverAssumption
    <2>6. cached' = [cached EXCEPT ![c] = store.interval] /\ Goto(c, "shortenPut")
      BY <1>6, <1>0, <2>5 DEF ShortenGet, CtxFails, Proceed
    <2> QED
      BY <2>1, <2>3, <2>4, <2>6, <1>0 DEF FlowOK, Goto, Shortened
  <1>7. ASSUME NEW c \in Client, RestorePut(c) PROVE IntervalIsKept'
    <2>1. pc[c] = "restorePut" /\ pc' = [pc EXCEPT ![c] = "release"] /\ UNCHANGED cached
      BY <1>7 DEF RestorePut, Proceed, Goto
    <2>2. store' = [snap[c] EXCEPT !.interval = cached[c]]
      BY <1>7, <1>0 DEF RestorePut, DeferFails, Write
    <2>3. snap[c] \in Documents
      BY <2>1 DEF TypeInv, SnapHeld
    <2>4. store'.interval = cached[c]
      BY <2>2, <2>3 DEF Documents
    <2> QED
      BY <1>0, <2>1, <2>4 DEF IntervalIsKept, FlowOK, Shortened
  <1>8. ASSUME NEW c \in Client, Step(c) PROVE IntervalIsKept'
    <2>1. CASE CheckClusterHealthy(c) \/ HealthCheckClients(c)
      BY <2>1, <1>1, <1>3 DEF CheckClusterHealthy, HealthCheckClients, dataVars, Labels, Steps,
         Shortened
    <2>2. CASE LockPut(c) \/ LockAcquired(c) \/ LockTimeout(c)
      BY <2>2, <1>1, <1>3 DEF LockPut, LockAcquired, LockTimeout, dataVars, Labels, Steps,
         Shortened
    <2>3. CASE ShortenPut(c) \/ ShortenSleep(c)
      BY <2>3, <1>2, <1>4 DEF ShortenPut, ShortenSleep, dataVars, Shortened, Steps
    <2>4. CASE PauseReturns(c) \/ FailGet(c) \/ FailExec(c)
      BY <2>4, <1>2, <1>4 DEF PauseReturns, FailGet, FailExec, dataVars, Shortened, Steps
    <2>5. CASE Recover(c) \/ AwaitTimeout(c) \/ AwaitCancelled(c)
      BY <2>5, <1>2, <1>4 DEF Recover, AwaitTimeout, AwaitCancelled, AwaitEnds, Return,
         Shortened, Steps
    <2>6. CASE ResumeReturns(c) \/ RestoreGet(c)
      BY <2>6, <1>0, <1>2 DEF ResumeReturns, RestoreGet, DeferFails, dataVars, Shortened
    <2>7. CASE (\E n \in Node : PauseCall(c, n) \/ ResumeCall(c, n))
      BY <2>7, <1>5 DEF PauseCall, ResumeCall, dataVars
    <2>8. CASE ReleaseLock(c)
      BY <2>8, <1>1 DEF ReleaseLock, dataVars, Labels, Shortened
    <2> QED
      BY <1>8, <2>1, <2>2, <2>3, <2>4, <2>5, <2>6, <2>7, <2>8, <1>6, <1>7 DEF Step
  <1>9. ASSUME NEW c \in Client, Crash(c) PROVE IntervalIsKept'
    BY <1>9, <1>0 DEF Crash, Goto, FlowOK, IntervalIsKept
  <1>10. ASSUME Sentinel PROVE IntervalIsKept'
    <2>1. UNCHANGED <<pc, cached>> /\ store'.interval = store.interval
      BY <1>10, SentinelDocument DEF TypeInv, TypeOK, SentinelWrites, Write
    <2> QED
      BY <2>1, <1>5
  <1>11. ASSUME Environment PROVE IntervalIsKept'
    BY <1>11, <1>5, <1>9, <1>10 DEF Environment, Signal, CleanupTimeout, LeaseEnds, Lifted, StrayPause,
       dataVars
  <1>12. IntervalIsKept'
    BY <1>5, <1>8, <1>11 DEF Next, vars, dataVars
  <1> QED
    BY <1>0, <1>12, CtxLiveStep DEF IntervalInv

\* In a cluster that configures an interval, and unless a request to etcd fails
\* or a coordinator is asked to stop, the interval is as configured when no
\* coordinator is at work, whatever becomes of pausers, master and leases.
THEOREM IntervalIsRestored ==
  ASSUME "etcd" \notin Faults, "signal" \notin Faults, "unset" \notin Configured
  PROVE  Spec => []IntervalRestored
  <1>1. TypeInv /\ ExclusionInv /\ IntervalInv /\ [Next]_vars => IntervalInv'
    BY IntervalStep
  <1>2. IntervalInv => IntervalRestored
    BY DEF IntervalInv, IntervalIsKept, IntervalRestored, InCritical, Critical, Shortened
  <1> QED
    BY <1>1, <1>2, IntervalInit, InvHolds, PTL DEF Spec

-----------------------------------------------------------------------------
\* Where a coordinator that has waited for the recovery is until it puts the
\* document back.
Restoring == {"resume", "restoreGet", "restorePut"}

\* While only a keeper marked as failed is replaced, and no lease is lost, the
\* one coordinator at work knows the mark: what it has sighted is a new master,
\* and after it succeeded without being asked to stop no other master follows
\* before the document is put back.
ReplacementInv ==
    /\ \A c \in lost : Gone(c)
    /\ \A c \in sighted : pc[c] = "await" /\ store.master # target[c]
    /\ \A c \in Client :
         /\ pc[c] = "await" => store.failing \in {NoKeeper, target[c]}
         /\ pc[c] \in Restoring /\ result[c] = "ok" /\ ctx[c] = "live" =>
               store.failing # store.master
         /\ pc[c] = "restorePut" /\ result[c] = "ok" /\ ctx[c] = "live" =>
               snap[c].master = store.master

\* A cluster that is not initialised anew has a master, in every copy of its
\* document.
HasMaster ==
    /\ store.master \in Keeper
    /\ \A c \in Client : pc[c] \in {"shortenPut", "restorePut"} => snap[c].master \in Keeper

\* Nobody waits at first.
LEMMA ReplacementInit == Init => ReplacementInv /\ HasMaster
  <1> SUFFICES ASSUME Init PROVE ReplacementInv /\ HasMaster
    OBVIOUS
  <1>1. ReplacementInv
    BY DEF Init, LockInit, ReplacementInv, Restoring
  <1>2. HasMaster
    BY DEF Init, HasMaster, Documents
  <1> QED
    BY <1>1, <1>2

\* A context that has ended stays ended, and the steps of coordinators end none.
LEMMA CtxStays ==
  ASSUME TypeInv, [Next]_vars
  PROVE  /\ \A c \in Client : ctx'[c] = "live" => ctx[c] = "live"
         /\ (\E c \in Client : Step(c) \/ Crash(c)) \/ Sentinel => ctx' = ctx
  <1>0. ctx \in [Client -> {"live", "done", "expired"}]
    BY DEF TypeInv, TypeOK
  <1>1. ASSUME NEW c \in Client, Step(c) PROVE ctx' = ctx
    BY <1>1 DEF Step, CheckClusterHealthy, HealthCheckClients, LockPut, LockAcquired,
       LockTimeout, ShortenGet, ShortenPut, ShortenSleep, PauseCall, PauseReturns, FailGet,
       FailExec, Recover, AwaitTimeout, AwaitCancelled, AwaitEnds, ResumeCall, ResumeReturns,
       RestoreGet, RestorePut, ReleaseLock
  <1>2. ASSUME (\E c \in Client : Crash(c)) \/ Sentinel PROVE ctx' = ctx
    BY <1>2 DEF Crash, Sentinel, Elect, StandbyFails, Heal, Reinitialise, Degrade, SentinelWrites
  <1>3. ASSUME NEW c \in Client, Signal(c) \/ CleanupTimeout(c)
        PROVE  \A d \in Client : ctx'[d] = "live" => ctx[d] = "live"
    BY <1>0, <1>3 DEF Signal, CleanupTimeout
  <1>4. ASSUME Environment PROVE \A d \in Client : ctx'[d] = "live" => ctx[d] = "live"
    BY <1>2, <1>3, <1>4 DEF Environment, LeaseEnds, Lifted, StrayPause
  <1> QED
    BY <1>1, <1>2, <1>4 DEF Next, vars

\* The document keeps a master: what is put back was read.
LEMMA HasMasterStep ==
  ASSUME "election" \notin Faults, TypeInv, HasMaster, [Next]_vars
  PROVE  HasMaster'
  <1>0. FlowOK /\ DataOK
    BY DEF TypeInv, TypeOK, FlowOK, DataOK
  <1>1. ASSUME UNCHANGED <<store, snap>>,
               \A c \in Client : pc'[c] \in {"shortenPut", "restorePut"} => pc'[c] = pc[c]
        PROVE  HasMaster'
    BY <1>1 DEF HasMaster
  <1>2. ASSUME NEW c \in Client, NEW l \in Labels, Proceed(c, l)
        PROVE  pc' = [pc EXCEPT ![c] = l] /\ \A d \in Client : d # c => pc'[d] = pc[d]
    BY <1>0, <1>2 DEF Proceed, Goto, FlowOK
  <1>3. ASSUME NEW c \in Client, pc[c] \in Steps, Fail(c)
        PROVE  /\ pc'[c] \notin {"shortenPut", "restorePut"}
               /\ \A d \in Client : d # c => pc'[d] = pc[d]
    BY <1>0, <1>3, AfterFailureIsDeferred DEF Fail, Goto, FlowOK
  <1>4. ASSUME NEW c \in Client, ShortenGet(c) \/ RestoreGet(c) PROVE HasMaster'
    <2>1. CASE snap' = [snap EXCEPT ![c] = store] /\ store' = store
      <3>1. \A d \in Client : d # c => pc'[d] = pc[d] /\ snap'[d] = snap[d]
        BY <1>0, <1>4, <2>1 DEF ShortenGet, RestoreGet, Proceed, Fail, Goto, FlowOK, DataOK
      <3>2. snap'[c] = store
        BY <1>0, <2>1 DEF DataOK
      <3> QED
        BY <2>1, <3>1, <3>2 DEF HasMaster
    <2>2. CASE UNCHANGED <<store, snap>> /\ pc[c] \in Steps /\ Fail(c)
      BY <1>1, <1>3, <2>2
    <2>3. CASE UNCHANGED <<store, snap>> /\ Proceed(c, "release")
      BY <1>0, <1>1, <1>2, <2>3 DEF Labels, Deferred, FlowOK
    <2> QED
      BY <1>4, <2>1, <2>2, <2>3 DEF ShortenGet, RestoreGet, Steps
  <1>5. ASSUME NEW c \in Client, ShortenPut(c) \/ RestorePut(c) PROVE HasMaster'
    <2>1. /\ pc[c] \in {"shortenPut", "restorePut"} /\ snap[c] \in Documents
          /\ snap' = [snap EXCEPT ![c] = NoDocument]
      BY <1>5 DEF ShortenPut, RestorePut, TypeInv, SnapHeld
    <2>2. store'.master \in {store.master, snap[c].master}
      BY <1>5, <2>1 DEF ShortenPut, RestorePut, Write, Documents
    <2>3. Proceed(c, "shortenSleep") \/ Proceed(c, "release") \/ (pc[c] \in Steps /\ Fail(c))
      BY <1>5 DEF ShortenPut, RestorePut, Steps
    <2>4. pc'[c] \notin {"shortenPut", "restorePut"}
          /\ \A d \in Client : d # c => pc'[d] = pc[d]
      BY <1>0, <1>2, <1>3, <2>3 DEF Labels, Steps, Deferred, FlowOK
    <2>5. \A d \in Client : d # c => snap'[d] = snap[d]
      BY <1>0, <2>1 DEF DataOK
    <2> QED
      BY <2>1, <2>2, <2>4, <2>5 DEF HasMaster
  <1>6. ASSUME NEW c \in Client, FailExec(c) PROVE HasMaster'
    <2>1. store'.master = store.master /\ snap' = snap
      BY <1>0, <1>6 DEF FailExec, Write, DataOK, Documents
    <2>2. Proceed(c, "await") \/ (pc[c] \in Steps /\ Fail(c))
      BY <1>6 DEF FailExec, Steps
    <2>3. pc'[c] \notin {"shortenPut", "restorePut"}
          /\ \A d \in Client : d # c => pc'[d] = pc[d]
      BY <1>0, <1>2, <1>3, <2>2 DEF Labels, Steps, FlowOK
    <2> QED
      BY <2>1, <2>3 DEF HasMaster
  <1>7. ASSUME NEW c \in Client,
               \/ CheckClusterHealthy(c) \/ HealthCheckClients(c) \/ LockPut(c) \/ LockAcquired(c)
               \/ LockTimeout(c) \/ ShortenSleep(c) \/ PauseReturns(c) \/ FailGet(c)
               \/ Recover(c) \/ AwaitTimeout(c) \/ AwaitCancelled(c)
               \/ ResumeReturns(c) \/ ReleaseLock(c)
        PROVE  HasMaster'
    <2>1. /\ UNCHANGED <<store, snap>>
          /\ \/ pc[c] \in Steps /\ Fail(c)
             \/ \E l \in {"ping", "lock", "lockwait", "shortenGet", "pause", "failGet", "failExec",
                          "restoreGet", "done"} : Proceed(c, l)
             \/ Return(c)
      BY <1>7 DEF CheckClusterHealthy, HealthCheckClients, LockPut, LockAcquired, LockTimeout,
         ShortenSleep, PauseReturns, FailGet, Recover, AwaitTimeout, AwaitCancelled, AwaitEnds,
         ResumeReturns, ReleaseLock, dataVars, Steps
    <2>2. CASE Return(c)
      BY <1>0, <1>1, <2>1, <2>2 DEF Return, Goto, FlowOK
    <2>3. CASE pc[c] \in Steps /\ Fail(c)
      BY <1>1, <1>3, <2>1, <2>3
    <2>4. CASE \E l \in {"ping", "lock", "lockwait", "shortenGet", "pause", "failGet", "failExec",
                         "restoreGet", "done"} : Proceed(c, l)
      BY <1>0, <1>1, <1>2, <2>1, <2>4 DEF Labels, Steps, Deferred, FlowOK
    <2> QED
      BY <2>1, <2>2, <2>3, <2>4
  <1>8. ASSUME NEW c \in Client, NEW n \in Node, PauseCall(c, n) \/ ResumeCall(c, n)
        PROVE  HasMaster'
    BY <1>1, <1>8 DEF PauseCall, ResumeCall, dataVars
  <1>9. ASSUME NEW c \in Client, Crash(c) PROVE HasMaster'
    <2>1. /\ store' = store /\ pc'[c] = "crashed"
          /\ \A d \in Client : d # c => pc'[d] = pc[d] /\ snap'[d] = snap[d]
      BY <1>0, <1>9 DEF Crash, Goto, FlowOK, DataOK
    <2> QED
      BY <2>1 DEF HasMaster
  <1>10. ASSUME Sentinel PROVE HasMaster'
    <2>1. PICK d \in Documents :
            /\ SentinelWrites(d)
            /\ d.master = store.master \/ d.master \in Keeper
      BY <1>0, <1>10, SentinelDocument DEF DataOK
    <2>2. store' = d /\ pc' = pc /\ snap' = snap
      BY <2>1 DEF SentinelWrites, Write
    <2>3. d.master \in Keeper
      BY <2>1 DEF HasMaster
    <2> QED
      BY <2>2, <2>3 DEF HasMaster
  <1>11. ASSUME NEW c \in Client, Step(c) PROVE HasMaster'
    BY <1>4, <1>5, <1>6, <1>7, <1>8, <1>11 DEF Step
  <1>12. ASSUME Environment PROVE HasMaster'
    BY <1>1, <1>9, <1>10, <1>12 DEF Environment, Signal, CleanupTimeout, LeaseEnds, Lifted,
       StrayPause, dataVars
  <1> QED
    BY <1>1, <1>11, <1>12 DEF Next, vars, dataVars

\* A lease is lost only by a process that has ended.
LEMMA LostIsGone ==
  ASSUME "sessionLost" \notin Faults, TypeInv, \A c \in lost : Gone(c), [Next]_vars
  PROVE  \A c \in lost' : Gone(c)'
  <1>0. pc \in [Client -> Labels] /\ lost \subseteq Client
    BY DEF TypeInv, TypeOK, LockTypeOK
  <1>1. ASSUME NEW c \in Client, Step(c) PROVE UNCHANGED lost /\ ~ Gone(c)
    BY <1>1 DEF Step, CheckClusterHealthy, HealthCheckClients, LockPut, LockAcquired,
       LockTimeout, ShortenGet, ShortenPut, ShortenSleep, PauseCall, PauseReturns, FailGet,
       FailExec, Recover, AwaitTimeout, AwaitCancelled, AwaitEnds, ResumeCall, ResumeReturns,
       RestoreGet, RestorePut, ReleaseLock, PutKey, Acquire, Unlock, lockVars, Gone
  <1>2. ASSUME NEW c \in Client, Step(c) PROVE \A d \in Client : d # c => pc'[d] = pc[d]
    BY <1>0, <1>2 DEF Step, CheckClusterHealthy, HealthCheckClients, LockPut, LockAcquired,
       LockTimeout, ShortenGet, ShortenPut, ShortenSleep, PauseCall, PauseReturns, FailGet,
       FailExec, Recover, AwaitTimeout, AwaitCancelled, AwaitEnds, ResumeCall, ResumeReturns,
       RestoreGet, RestorePut, ReleaseLock, Goto, Fail, Proceed, Return
  <1>3. ASSUME NEW c \in Client, Step(c) PROVE \A d \in lost' : Gone(d)'
    <2>1. \A d \in lost : d \in Client /\ d # c /\ Gone(d)
      BY <1>0, <1>1, <1>3
    <2>2. lost' = lost /\ \A d \in Client : d # c => pc'[d] = pc[d]
      BY <1>1, <1>2, <1>3
    <2> QED
      BY <2>1, <2>2 DEF Gone
  <1>4. ASSUME NEW c \in Client, Crash(c) PROVE \A d \in lost' : Gone(d)'
    BY <1>0, <1>4 DEF Crash, Goto, Gone, lockVars
  <1>5. ASSUME NEW c \in Client, LeaseEnds(c) PROVE \A d \in lost' : Gone(d)'
    BY <1>5 DEF LeaseEnds, ExpireLease, Gone
  <1>6. ASSUME Environment PROVE \A d \in lost' : Gone(d)'
    BY <1>4, <1>5, <1>6 DEF Environment, Signal, CleanupTimeout, Lifted, StrayPause, Sentinel, Elect,
       StandbyFails, Heal, Reinitialise, Degrade, SentinelWrites, lockVars, Gone
  <1> QED
    BY <1>3, <1>6 DEF Next, vars, lockVars, Gone

\* With every lease alive, a coordinator at work is the only one.
LEMMA Alone ==
  ASSUME ExclusionInv, ReplacementInv, NEW c \in Client, NEW d \in Client,
         InCritical(c), InCritical(d)
  PROVE  c = d
  <1>1. c \in owned \ lost /\ d \in owned \ lost
    BY DEF ExclusionInv, CriticalOwns, ReplacementInv, InCritical, Critical, Gone
  <1> QED
    BY <1>1, LockInvExcludes DEF ExclusionInv, MutualExclusion

\* Nobody waits while a coordinator that does not wait itself is at work.
LEMMA NobodySighted ==
  ASSUME TypeInv, ExclusionInv, ReplacementInv, NEW c \in Client, InCritical(c), pc[c] # "await"
  PROVE  sighted = {} /\ \A d \in Client : d # c => pc[d] \notin Restoring \cup {"await"}
  <1>1. ASSUME NEW d \in Client, d # c PROVE pc[d] \notin Restoring \cup {"await"}
    BY <1>1, Alone DEF InCritical, Critical, Restoring
  <1>2. sighted \subseteq Client
    BY DEF TypeInv, TypeOK
  <1> QED
    BY <1>1, <1>2 DEF ReplacementInv

\* What the sentinel writes replaces a marked master and nothing else.
LEMMA SentinelKeepsReplaced ==
  ASSUME "election" \notin Faults, TypeInv, ReplacementInv, HasMaster, Sentinel
  PROVE  /\ \A c \in sighted' : pc[c] = "await" /\ store'.master # target[c]
         /\ \A c \in Client :
              /\ pc[c] = "await" => store'.failing \in {NoKeeper, target[c]}
              /\ pc[c] \in Restoring /\ result[c] = "ok" /\ ctx[c] = "live" =>
                    store'.failing # store'.master /\ store'.master = store.master
  <1>0. store \in Documents /\ NoKeeper \notin Keeper
    BY FailoverAssumption DEF TypeInv, TypeOK
  <1>1. PICK d \in Documents :
          /\ SentinelWrites(d)
          /\ \/ d.master = store.master /\ d.failing \in {NoKeeper, store.failing}
             \/ d.failing = NoKeeper /\ d.master \in Keeper /\ store.failing = store.master
    BY <1>0, SentinelDocument DEF HasMaster
  <1>2. /\ store' = d /\ pc' = pc
        /\ sighted' = sighted \cup {c \in Client : pc[c] = "await" /\ d.master # target[c] /\ d.level # "down"}
    BY <1>1 DEF SentinelWrites, Write, Recovered
  <1>3. CASE d.failing = NoKeeper /\ d.master \in Keeper /\ store.failing = store.master
    <2>1. store.master \in Keeper
      BY DEF HasMaster
    <2>2. \A c \in Client : ~ (pc[c] \in Restoring /\ result[c] = "ok" /\ ctx[c] = "live")
      BY <1>3 DEF ReplacementInv
    <2>3. sighted \subseteq Client
      BY DEF TypeInv, TypeOK
    <2>4. sighted = {}
      BY <1>0, <1>3, <2>1, <2>3 DEF ReplacementInv
    <2> QED
      BY <1>2, <1>3, <2>2, <2>4
  <1>4. CASE d.master = store.master /\ d.failing \in {NoKeeper, store.failing}
    <2>1. d.master \in Keeper
      BY <1>4 DEF HasMaster
    <2> QED
      BY <1>0, <1>2, <1>4, <2>1 DEF ReplacementInv
  <1> QED
    BY <1>1, <1>3, <1>4

\* The steps of the one coordinator at work, and of the sentinel, keep it.
LEMMA ReplacementStep ==
  ASSUME {"sessionLost", "election"} \cap Faults = {}, TypeInv, ExclusionInv, HasMaster,
         ReplacementInv, [Next]_vars
  PROVE  ReplacementInv'
  <1>0. FlowOK /\ DataOK /\ "election" \notin Faults /\ "sessionLost" \notin Faults
    BY DEF TypeInv, TypeOK, FlowOK, DataOK
  <1>a. /\ \A c \in lost' : Gone(c)'
        /\ \A c \in Client : ctx'[c] = "live" => ctx[c] = "live"
    BY <1>0, LostIsGone, CtxStays DEF ReplacementInv
  <1> DEFINE Others(c) == \A d \in Client : d # c => pc'[d] = pc[d] /\ result'[d] = result[d]
  \* A step of c outside the wait that writes no document.
  <1>1. ASSUME NEW c \in Client, Others(c), UNCHANGED <<store, sighted, target>>,
               \A d \in Client : d # c => snap'[d] = snap[d],
               pc[c] # "await", pc'[c] # "await",
               pc'[c] \in Restoring /\ result'[c] = "ok" =>
                    pc[c] \in Restoring /\ result[c] = "ok" /\
                    (pc'[c] = "restorePut" => snap'[c].master = store.master)
        PROVE  ReplacementInv'
    BY <1>0, <1>a, <1>1 DEF ReplacementInv, DataOK, Restoring
  \* A step of c, at work and not waiting, that may write a document.
  <1>2. ASSUME NEW c \in Client, Others(c), InCritical(c), pc[c] # "await",
               \A d \in sighted' \ sighted :
                    d \in Client /\ pc'[d] = "await" /\ store'.master # target'[d],
               pc'[c] = "await" => store'.failing = target'[c],
               pc'[c] \in Restoring => result'[c] # "ok"
        PROVE  ReplacementInv'
    <2>1. sighted = {} /\ \A d \in Client : d # c => pc[d] \notin Restoring \cup {"await"}
      BY <1>2, NobodySighted
    <2>2. \A d \in Client : d # c => pc'[d] \notin Restoring \cup {"await"}
      BY <1>2, <2>1
    <2>3. "restorePut" \in Restoring
      BY DEF Restoring
    <2>4. \A d \in Client :
            /\ pc'[d] = "await" => store'.failing \in {NoKeeper, target'[d]}
            /\ ~ (pc'[d] \in Restoring /\ result'[d] = "ok")
      BY <1>2, <2>2
    <2>5. \A d \in sighted' : pc'[d] = "await" /\ store'.master # target'[d]
      BY <1>2, <2>1
    <2> QED
      BY <1>a, <2>3, <2>4, <2>5 DEF ReplacementInv
  \* Moves of c alone.
  <1>3. ASSUME NEW c \in Client, NEW l \in Labels, Proceed(c, l)
        PROVE  Others(c) /\ pc'[c] = l /\ result'[c] = result[c]
    BY <1>0, <1>3 DEF Proceed, Goto, FlowOK
  <1>4. ASSUME NEW c \in Client, pc[c] \in Steps, Fail(c)
        PROVE  Others(c) /\ pc'[c] = AfterFailure[pc[c]] /\ pc'[c] # "await" /\ result'[c] # "ok"
    BY <1>0, <1>4, AfterFailureIsDeferred DEF Fail, Goto, FlowOK
  <1>5. ASSUME NEW c \in Client,
               \/ CheckClusterHealthy(c) \/ HealthCheckClients(c) \/ LockPut(c) \/ LockAcquired(c)
               \/ LockTimeout(c) \/ ShortenSleep(c) \/ PauseReturns(c)
        PROVE  ReplacementInv'
    <2>1. /\ pc[c] \in Steps /\ pc[c] # "await" /\ UNCHANGED dataVars
          /\ \/ Fail(c)
             \/ \E l \in {"ping", "lock", "lockwait", "shortenGet", "pause", "failGet"} : Proceed(c, l)
      BY <1>5 DEF CheckClusterHealthy, HealthCheckClients, LockPut, LockAcquired, LockTimeout,
         ShortenSleep, PauseReturns, Steps
    <2>2. /\ Others(c) /\ pc'[c] # "await"
          /\ ~ (pc'[c] \in Restoring /\ result'[c] = "ok")
      BY <2>1, <1>3, <1>4 DEF Labels, Steps, Restoring
    <2> QED
      BY <2>1, <2>2, <1>1 DEF dataVars
  <1>6. ASSUME NEW c \in Client, ShortenGet(c) \/ FailGet(c) PROVE ReplacementInv'
    <2>1. /\ pc[c] \in Steps \cap Critical /\ pc[c] # "await" /\ UNCHANGED <<store, sighted>>
          /\ Fail(c) \/ Proceed(c, "shortenPut") \/ Proceed(c, "failExec")
      BY <1>6 DEF ShortenGet, FailGet, Steps, Critical
    <2>2. /\ Others(c) /\ pc'[c] # "await"
          /\ pc'[c] \in Restoring => result'[c] # "ok"
      BY <2>1, <1>3, <1>4 DEF Labels, Steps, Restoring
    <2> QED
      BY <2>1, <2>2, <1>2 DEF InCritical
  <1>7. ASSUME NEW c \in Client, ShortenPut(c) \/ FailExec(c) PROVE ReplacementInv'
    <2>1. /\ pc[c] \in Steps \cap Critical /\ pc[c] # "await"
          /\ Fail(c) \/ Proceed(c, "shortenSleep") \/ Proceed(c, "await")
      BY <1>7 DEF ShortenPut, FailExec, Steps, Critical
    <2>2. Others(c) /\ (pc'[c] \in Restoring => result'[c] # "ok")
      BY <2>1, <1>3, <1>4 DEF Labels, Steps, Restoring
    <2>3. pc'[c] = "await" => /\ Write([store EXCEPT !.failing = target[c]])
                              /\ UNCHANGED target
      BY <2>1, <1>7, <1>3, <1>4 DEF ShortenPut, FailExec, Labels, Steps
    <2>4. pc'[c] = "await" => store'.failing = target'[c]
      BY <2>3, <1>0 DEF Write, DataOK, Documents
    <2>5. \A d \in Client : d # c => pc'[d] # "await"
      BY <2>1, <2>2, NobodySighted DEF InCritical
    <2>6. \A d \in sighted' \ sighted :
            d \in Client /\ pc'[d] = "await" /\ store'.master # target[d]
      BY <1>7 DEF ShortenPut, FailExec, Write, Recovered
    <2>7. \A d \in sighted' \ sighted : target'[d] = target[d]
      BY <2>3, <2>5, <2>6
    <2> QED
      BY <2>1, <2>2, <2>4, <2>6, <2>7, <1>2 DEF InCritical
  <1>8. ASSUME NEW c \in Client, Recover(c) \/ AwaitTimeout(c) \/ AwaitCancelled(c)
        PROVE  ReplacementInv'
    <2>1. /\ AwaitEnds(c) /\ pc[c] = "await"
          /\ Fail(c) \/ Recover(c) \/ (Return(c) /\ ctx[c] # "live")
      BY <1>8 DEF Recover, AwaitTimeout, AwaitCancelled, AwaitEnds
    <2>2. Others(c) /\ pc'[c] # "await" /\ pc'[c] # "restorePut"
      <3>1. CASE Fail(c)
        BY <2>1, <3>1, <1>4, AfterFailureIsDeferred DEF Steps
      <3>2. CASE Return(c)
        BY <3>2, <1>0 DEF Return, Goto, FlowOK
      <3> QED
        BY <2>1, <3>1, <3>2 DEF Recover
    <2>3. result'[c] = "ok" /\ ctx'[c] = "live" => store.failing # store.master
      <3>1. CASE Fail(c)
        BY <2>1, <3>1, <1>4 DEF Steps
      <3>3. CASE ctx[c] # "live"
        BY <1>a, <3>3
      <3>2. CASE Recover(c)
        <4>1. store.master # target[c] /\ store.failing \in {NoKeeper, target[c]}
          BY <2>1, <3>2 DEF Recover, ReplacementInv
        <4>2. store.master \in Keeper /\ NoKeeper \notin Keeper
          BY FailoverAssumption DEF HasMaster
        <4> QED
          BY <4>1, <4>2
      <3> QED
        BY <2>1, <3>1, <3>2, <3>3
    <2>4. \A d \in Client : d # c => pc[d] \notin Restoring \cup {"await"}
      BY <2>1, Alone DEF InCritical, Critical, Restoring
    <2>5. sighted' = {}
      BY <2>1, <2>4, <1>0 DEF AwaitEnds, ReplacementInv, DataOK
    <2>6. store' = store /\ snap' = snap
      BY <2>1 DEF AwaitEnds
    <2> QED
      BY <1>a, <2>2, <2>3, <2>4, <2>5, <2>6 DEF ReplacementInv, Restoring
  <1>9. ASSUME NEW c \in Client, ResumeReturns(c) \/ RestoreGet(c) \/ ReleaseLock(c)
        PROVE  ReplacementInv'
    <2>1. /\ pc[c] \in {"resume", "restoreGet", "release"} /\ UNCHANGED <<store, sighted, target>>
          /\ \/ \E l \in {"restoreGet", "release", "done"} : Proceed(c, l) /\ UNCHANGED snap
             \/ Proceed(c, "restorePut") /\ snap' = [snap EXCEPT ![c] = store]
      BY <1>9 DEF ResumeReturns, RestoreGet, ReleaseLock, dataVars
    <2>2. \/ pc[c] \in Restoring
          \/ pc'[c] \notin Restoring
      BY <1>9, <1>3 DEF ResumeReturns, RestoreGet, ReleaseLock, Labels, Deferred, Restoring
    <2>3. Others(c) /\ pc'[c] # "await" /\ result'[c] = result[c]
      BY <2>1, <1>3 DEF Labels, Deferred
    <2>4. /\ \A d \in Client : d # c => snap'[d] = snap[d]
          /\ pc'[c] = "restorePut" => snap'[c].master = store.master
      BY <2>1, <1>0, <1>3 DEF DataOK, Labels, Deferred
    <2> QED
      BY <2>1, <2>2, <2>3, <2>4, <1>1
  <1>10. ASSUME NEW c \in Client, RestorePut(c) PROVE ReplacementInv'
    <2>1. pc[c] = "restorePut" /\ Proceed(c, "release") /\ UNCHANGED target
      BY <1>10 DEF RestorePut
    <2>2. Others(c) /\ pc'[c] = "release"
      BY <2>1, <1>3 DEF Labels, Deferred
    <2>3. \A d \in sighted' \ sighted :
            d \in Client /\ pc'[d] = "await" /\ store'.master # target'[d]
      BY <1>10 DEF RestorePut, Write, Recovered
    <2> QED
      BY <2>1, <2>2, <2>3, <1>2 DEF InCritical, Critical, Restoring
  <1>11. ASSUME NEW c \in Client, NEW n \in Node, PauseCall(c, n) \/ ResumeCall(c, n)
        PROVE  ReplacementInv'
    BY <1>11, <1>a DEF PauseCall, ResumeCall, dataVars, ReplacementInv
  <1>12. ASSUME NEW c \in Client, Step(c) PROVE ReplacementInv'
    BY <1>12, <1>5, <1>6, <1>7, <1>8, <1>9, <1>10, <1>11 DEF Step
  <1>13. ASSUME NEW c \in Client, Crash(c) PROVE ReplacementInv'
    BY <1>a, <1>0, <1>13 DEF Crash, Goto, FlowOK, DataOK, ReplacementInv, Restoring
  <1>14. ASSUME Sentinel PROVE ReplacementInv'
    <2>1. UNCHANGED <<pc, result, snap, target>>
      BY <1>14 DEF Sentinel, Elect, StandbyFails, Heal, Reinitialise, Degrade, SentinelWrites
    <2> QED
      BY <1>a, <1>0, <1>14, <2>1, SentinelKeepsReplaced DEF ReplacementInv, Restoring
  <1>15. ASSUME UNCHANGED <<dataVars, pc, result>> PROVE ReplacementInv'
    BY <1>a, <1>15 DEF dataVars, ReplacementInv
  <1>16. ASSUME Environment PROVE ReplacementInv'
    BY <1>16, <1>13, <1>14, <1>15 DEF Environment, Signal, CleanupTimeout, LeaseEnds, Lifted, StrayPause
  <1> QED
    BY <1>12, <1>15, <1>16 DEF Next, vars

\* They hold of the specification.
LEMMA ReplacementHolds ==
  ASSUME {"sessionLost", "election"} \cap Faults = {}
  PROVE  Spec => [](ReplacementInv /\ HasMaster)
  <1>1. TypeInv /\ HasMaster /\ [Next]_vars => HasMaster'
    BY HasMasterStep
  <1>2. TypeInv /\ ExclusionInv /\ HasMaster /\ ReplacementInv /\ [Next]_vars => ReplacementInv'
    BY ReplacementStep
  <1> QED
    BY <1>1, <1>2, ReplacementInit, InvHolds, PTL DEF Spec

\* Where no lease is lost and the sentinel replaces only a master marked as
\* failed, Run reports success only once the master it failed has been replaced
\* (NotifyRecovered), unless it is asked to stop, whoever else is and whatever
\* else fails.
THEOREM SuccessIsReplacement ==
  ASSUME {"sessionLost", "election"} \cap Faults = {}
  PROVE  Spec => RecoveryMeansReplaced
  <1>1. ASSUME TypeInv, ReplacementInv, [Next]_vars, NEW c \in Client,
               result[c] = "none", result'[c] = "ok", ctx[c] = "live"
        PROVE  store.master # target[c]
    <2>0. result \in [Client -> {"none", "ok", "error"}]
      BY <1>1 DEF TypeInv, TypeOK
    <2>1. ASSUME NEW d \in Client, Fail(d) \/ UNCHANGED result PROVE FALSE
      BY <1>1, <2>0, <2>1 DEF Fail
    <2>2. ~ Environment
      BY <1>1 DEF Environment, Signal, CleanupTimeout, Crash, LeaseEnds, Lifted, StrayPause, Sentinel, Elect,
         StandbyFails, Heal, Reinitialise, Degrade, SentinelWrites
    <2>3. PICK d \in Client : Step(d)
      BY <1>1, <2>2 DEF Next, vars
    <2>4. Recover(d) \/ AwaitCancelled(d)
      BY <1>1, <2>1, <2>3 DEF Step, Proceed, CheckClusterHealthy, HealthCheckClients, LockPut,
         LockAcquired, LockTimeout, ShortenGet, ShortenPut, ShortenSleep, PauseCall, PauseReturns,
         FailGet, FailExec, AwaitTimeout, ResumeCall, ResumeReturns, RestoreGet,
         RestorePut, ReleaseLock
    <2>5. d = c
      BY <1>1, <2>0, <2>4 DEF Recover, AwaitCancelled, Return
    <2> QED
      BY <1>1, <2>4, <2>5 DEF Recover, AwaitCancelled, ReplacementInv
  <1>2. TypeInv /\ ReplacementInv /\ [Next]_vars =>
          [\A c \in Client :
              result[c] = "none" /\ result'[c] = "ok" /\ ctx[c] = "live" =>
                  store.master # target[c]]_vars
    BY <1>1
  <1> QED
    BY <1>2, InvHolds, ReplacementHolds, PTL DEF Spec, RecoveryMeansReplaced

\* And a coordinator that reports success does not put back a master that has
\* been replaced when it restores the interval (RestoreSleepInterval), unless it
\* is asked to stop.
THEOREM RestoreKeepsMasterReplaced ==
  ASSUME {"sessionLost", "election"} \cap Faults = {}
  PROVE  Spec => RestoreKeepsRecovery
  <1>1. ASSUME TypeInv, ReplacementInv, NEW c \in Client, RestorePut(c), result[c] = "ok",
               ctx[c] = "live"
        PROVE  store'.master = store.master
    <2>1. pc[c] = "restorePut" /\ snap[c] \in Documents /\ snap[c].master = store.master
      BY <1>1 DEF RestorePut, TypeInv, SnapHeld, ReplacementInv
    <2>2. [snap[c] EXCEPT !.interval = cached[c]].master = snap[c].master
      BY <2>1 DEF Documents
    <2> QED
      BY <1>1, <2>1, <2>2 DEF RestorePut, Write
  <1>2. TypeInv /\ ReplacementInv =>
          [\A c \in Client :
              RestorePut(c) /\ result[c] = "ok" /\ ctx[c] = "live" =>
                  store'.master = store.master]_vars
    BY <1>1
  <1> QED
    BY <1>2, InvHolds, ReplacementHolds, PTL DEF Spec, RestoreKeepsRecovery

-----------------------------------------------------------------------------
\* The coordinators as runs of pipeline.go.

\* A sequence with an element put before it, element by element.
LEMMA Push ==
  ASSUME NEW S, NEW a \in S, NEW s \in Seq(S), NEW t \in Seq(S),
         Len(t) = Len(s) + 1, t[1] = a, \A i \in 1 .. Len(s) : t[i + 1] = s[i]
  PROVE  <<a>> \o s = t
  <1> DEFINE e == <<a>>  u == e \o s
  <1>1. e \in Seq(S) /\ Len(e) = 1 /\ e[1] = a
    OBVIOUS
  <1> HIDE DEF e
  <1>2. /\ u \in Seq(S) /\ Len(u) = Len(e) + Len(s)
        /\ \A i \in 1 .. Len(e) + Len(s) : u[i] = IF i <= Len(e) THEN e[i] ELSE s[i - Len(e)]
    BY <1>1, ConcatProperties
  <1> HIDE DEF u
  <1>3. Len(s) \in Nat
    OBVIOUS
  <1>4. Len(u) = Len(t) /\ \A i \in 1 .. Len(u) : u[i] = t[i]
    <2>1. Len(u) = Len(s) + 1 /\ Len(t) = Len(s) + 1
      BY <1>1, <1>2, <1>3
    <2> SUFFICES ASSUME NEW i \in 1 .. Len(s) + 1 PROVE u[i] = t[i]
      BY <2>1
    <2>2. CASE i = 1
      BY <2>2, <1>1, <1>2, <1>3
    <2>3. CASE i # 1
      <3>1. i - 1 \in 1 .. Len(s) /\ (i - 1) + 1 = i /\ ~ (i <= 1) /\ i \in 1 .. 1 + Len(s)
        BY <2>3, <1>3
      <3>2. u[i] = s[i - 1]
        BY <3>1, <1>1, <1>2
      <3> QED
        BY <3>1, <3>2
    <2> QED
      BY <2>2, <2>3
  <1>5. u = t
    BY <1>2, <1>4, SeqEqual
  <1> QED
    BY <1>5 DEF u, e

\* Two and three elements, the lengths that Run's stack of deferred calls has.
LEMMA PushOnOne ==
  ASSUME NEW S, NEW a \in S, NEW b \in S
  PROVE  <<a>> \o <<b>> = <<a, b>>
  <1> DEFINE s == <<b>>  t == <<a, b>>
  <1>1. s \in Seq(S) /\ Len(s) = 1 /\ s[1] = b
    OBVIOUS
  <1>2. t \in Seq(S) /\ Len(t) = 2 /\ t[1] = a /\ t[2] = b
    OBVIOUS
  <1> HIDE DEF s, t
  <1>3. ASSUME NEW i \in 1 .. Len(s) PROVE t[i + 1] = s[i]
    <2>1. i = 1
      BY <1>1
    <2> QED
      BY <2>1, <1>1, <1>2
  <1>4. s \in Seq(S) /\ t \in Seq(S) /\ Len(t) = Len(s) + 1 /\ t[1] = a
    BY <1>1, <1>2
  <1>5. \A i \in 1 .. Len(s) : t[i + 1] = s[i]
    BY <1>3
  <1>6. <<a>> \o s = t
    BY <1>4, <1>5, Push, Zenon
  <1> QED
    BY <1>6 DEF s, t

\* As PushOnOne, before a sequence of two.
LEMMA PushOnTwo ==
  ASSUME NEW S, NEW a \in S, NEW b \in S, NEW c \in S
  PROVE  <<a>> \o <<b, c>> = <<a, b, c>>
  <1> DEFINE s == <<b, c>>  t == <<a, b, c>>
  <1>1. s \in Seq(S) /\ Len(s) = 2 /\ s[1] = b /\ s[2] = c
    OBVIOUS
  <1>2. t \in Seq(S) /\ Len(t) = 3 /\ t[1] = a /\ t[2] = b /\ t[3] = c
    OBVIOUS
  <1> HIDE DEF s, t
  <1>3. ASSUME NEW i \in 1 .. Len(s) PROVE t[i + 1] = s[i]
    <2>1. i = 1 \/ i = 2
      BY <1>1
    <2>2. CASE i = 1
      BY <2>2, <1>1, <1>2
    <2>3. CASE i = 2
      BY <2>3, <1>1, <1>2
    <2> QED
      BY <2>1, <2>2, <2>3
  <1>4. s \in Seq(S) /\ t \in Seq(S) /\ Len(t) = Len(s) + 1 /\ t[1] = a
    BY <1>1, <1>2
  <1>5. \A i \in 1 .. Len(s) : t[i + 1] = s[i]
    BY <1>3
  <1>6. <<a>> \o s = t
    BY <1>4, <1>5, Push, Zenon
  <1> QED
    BY <1>6 DEF s, t

\* What Pipeline schedules for a step of Run.
LEMMA Schedules ==
  /\ AsPipeline!Schedule(<<>>, <<>>) = <<>>
  /\ AsPipeline!Schedule(<<>>, <<"Resume", "RestoreSleepInterval", "ReleaseLock">>)
       = <<"Resume", "RestoreSleepInterval", "ReleaseLock">>
  /\ AsPipeline!Schedule(<<"ReleaseLock">>, <<>>) = <<"ReleaseLock">>
  /\ AsPipeline!Schedule(<<"RestoreSleepInterval">>, <<"ReleaseLock">>)
       = <<"RestoreSleepInterval", "ReleaseLock">>
  /\ AsPipeline!Schedule(<<"Resume">>, <<"RestoreSleepInterval", "ReleaseLock">>)
       = <<"Resume", "RestoreSleepInterval", "ReleaseLock">>
  <1> DEFINE A == {"Resume", "RestoreSleepInterval", "ReleaseLock"}
  <1>1. AsPipeline!Reverse(<<>>) = <<>>
    BY DEF AsPipeline!Reverse
  <1>2. \A a \in A : AsPipeline!Reverse(<<a>>) = <<a>>
    BY DEF AsPipeline!Reverse
  <1>3. \A a \in A : <<a>> \in Seq(A) /\ <<a>> \o <<>> = <<a>>
    BY ConcatEmptySeq
  <1>4. \A a, b \in A : <<a>> \o <<b>> = <<a, b>>
    BY PushOnOne
  <1>5. \A a, b, c \in A : <<a>> \o <<b, c>> = <<a, b, c>>
    BY PushOnTwo
  <1>6. AsPipeline!Schedule(<<>>, <<>>) = <<>>
    BY <1>1 DEF AsPipeline!Schedule
  <1>7. AsPipeline!Schedule(<<>>, <<"Resume", "RestoreSleepInterval", "ReleaseLock">>)
         = <<"Resume", "RestoreSleepInterval", "ReleaseLock">>
    <2>1. <<"Resume", "RestoreSleepInterval", "ReleaseLock">> \in Seq(A)
      OBVIOUS
    <2> QED
      BY <1>1, <2>1, ConcatEmptySeq DEF AsPipeline!Schedule
  <1>8. AsPipeline!Schedule(<<"ReleaseLock">>, <<>>) = <<"ReleaseLock">>
    BY <1>2, <1>3 DEF AsPipeline!Schedule
  <1>9. AsPipeline!Schedule(<<"RestoreSleepInterval">>, <<"ReleaseLock">>)
         = <<"RestoreSleepInterval", "ReleaseLock">>
    BY <1>2, <1>4, Zenon DEF AsPipeline!Schedule
  <1>10. AsPipeline!Schedule(<<"Resume">>, <<"RestoreSleepInterval", "ReleaseLock">>)
         = <<"Resume", "RestoreSleepInterval", "ReleaseLock">>
    BY <1>2, <1>5, Zenon DEF AsPipeline!Schedule
  <1> QED
    BY <1>6, <1>7, <1>8, <1>9, <1>10

\* The labels of Failover, one by one.
LEMMA Labelled ==
  /\ StepOf("check") = 1 /\ StepOf("ping") = 2
  /\ StepOf("lock") = 3 /\ StepOf("lockwait") = 3
  /\ \A l \in {"shortenGet", "shortenPut", "shortenSleep"} :
       StepOf(l) = 4 /\ Scheduled(l) = <<"RestoreSleepInterval", "ReleaseLock">>
  /\ StepOf("pause") = 5
  /\ \A l \in {"failGet", "failExec", "await"} : StepOf(l) = 6
  /\ \A l \in {"pause", "failGet", "failExec", "await", "resume"} :
       Scheduled(l) = <<"Resume", "RestoreSleepInterval", "ReleaseLock">>
  /\ \A l \in {"restoreGet", "restorePut"} :
       StepOf(l) = 0 /\ Scheduled(l) = <<"RestoreSleepInterval", "ReleaseLock">>
  /\ StepOf("resume") = 0 /\ StepOf("release") = 0 /\ StepOf("done") = 0
  /\ StepOf("crashed") = -1
  /\ \A l \in {"lock", "lockwait", "release"} : Scheduled(l) = <<"ReleaseLock">>
  /\ \A l \in {"check", "ping", "done", "crashed"} : Scheduled(l) = <<>>
  <1>1. /\ StepOf("check") = 1 /\ StepOf("ping") = 2
        /\ StepOf("lock") = 3 /\ StepOf("lockwait") = 3 /\ StepOf("pause") = 5
        /\ \A l \in {"shortenGet", "shortenPut", "shortenSleep"} : StepOf(l) = 4
        /\ \A l \in {"failGet", "failExec", "await"} : StepOf(l) = 6
        /\ \A l \in Deferred \cup {"done"} : StepOf(l) = 0
        /\ StepOf("crashed") = -1
    BY DEF StepOf, Deferred
  <1>2. /\ \A l \in {"check", "ping", "done", "crashed"} : Scheduled(l) = <<>>
        /\ \A l \in {"lock", "lockwait", "release"} : Scheduled(l) = <<"ReleaseLock">>
        /\ \A l \in {"shortenGet", "shortenPut", "shortenSleep", "restoreGet", "restorePut"} :
             Scheduled(l) = <<"RestoreSleepInterval", "ReleaseLock">>
        /\ \A l \in {"pause", "failGet", "failExec", "await", "resume"} :
             Scheduled(l) = <<"Resume", "RestoreSleepInterval", "ReleaseLock">>
    BY DEF Scheduled
  <1> QED
    BY <1>1, <1>2 DEF Deferred

\* What is left of the scheduled actions once the first one has run.
LEMMA Tails ==
  /\ Tail(<<"Resume", "RestoreSleepInterval", "ReleaseLock">>)
       = <<"RestoreSleepInterval", "ReleaseLock">>
  /\ Tail(<<"RestoreSleepInterval", "ReleaseLock">>) = <<"ReleaseLock">>
  /\ Tail(<<"ReleaseLock">>) = <<>>
  /\ <<"ReleaseLock">> # <<>> /\ <<"RestoreSleepInterval", "ReleaseLock">> # <<>>
  /\ <<"Resume", "RestoreSleepInterval", "ReleaseLock">> # <<>>
  OBVIOUS

\* The six steps of Run and what each one defers (failover.go:93-102).
LEMMA RunSteps ==
  /\ Len(RunPipeline) = 6
  /\ RunPipeline[1] = <<>> /\ RunPipeline[2] = <<>> /\ RunPipeline[3] = <<"ReleaseLock">>
  /\ RunPipeline[4] = <<"RestoreSleepInterval">> /\ RunPipeline[5] = <<"Resume">>
  /\ RunPipeline[6] = <<>>
  BY DEF RunPipeline

\* How the pipeline sees the move of one coordinator to another label.
LEMMA MoveSeen ==
  ASSUME pc \in [Client -> Labels], NEW c \in Client, NEW l, pc' = [pc EXCEPT ![c] = l]
  PROVE  /\ [d \in Client |-> StepOf(pc[d])]' =
              [[d \in Client |-> StepOf(pc[d])] EXCEPT ![c] = StepOf(l)]
         /\ [d \in Client |-> Scheduled(pc[d])]' =
              [[d \in Client |-> Scheduled(pc[d])] EXCEPT ![c] = Scheduled(l)]
  OBVIOUS

\* A step of the pipeline that stands for the coordinators, or none.
PipelineStep == [AsPipeline!Next]_(AsPipeline!vars)

\* A move within a step, or within a deferred action.
LEMMA MoveWithin ==
  ASSUME pc \in [Client -> Labels], NEW c \in Client, NEW l, pc' = [pc EXCEPT ![c] = l],
         UNCHANGED result, StepOf(l) = StepOf(pc[c]), Scheduled(l) = Scheduled(pc[c])
  PROVE  PipelineStep
  BY MoveSeen DEF PipelineStep, AsPipeline!vars

\* A step succeeds, and the next one is scheduled and begun.
LEMMA MoveOn ==
  ASSUME pc \in [Client -> Labels], NEW c \in Client, NEW l, pc' = [pc EXCEPT ![c] = l],
         UNCHANGED result, StepOf(pc[c]) \in 1 .. 5, StepOf(l) = StepOf(pc[c]) + 1,
         Scheduled(l) = AsPipeline!Schedule(RunPipeline[StepOf(l)], Scheduled(pc[c]))
  PROVE  PipelineStep
  <1> DEFINE steps == [d \in Client |-> RunPipeline]
             at == [d \in Client |-> StepOf(pc[d])]
             stack == [d \in Client |-> Scheduled(pc[d])]
  <1>1. steps[c] = RunPipeline /\ at[c] = StepOf(pc[c]) /\ stack[c] = Scheduled(pc[c])
    OBVIOUS
  <1>2. at' = [at EXCEPT ![c] = StepOf(l)] /\ stack' = [stack EXCEPT ![c] = Scheduled(l)]
    BY MoveSeen
  <1> HIDE DEF at, stack, steps
  <1>3. at[c] \in 1 .. Len(steps[c]) - 1
    BY <1>1, RunSteps
  <1>4. at' = [at EXCEPT ![c] = at[c] + 1]
    BY <1>1, <1>2
  <1>5. stack' = [stack EXCEPT ![c] = AsPipeline!Schedule(steps[c][at[c] + 1], stack[c])]
    <2>1. Scheduled(l) = AsPipeline!Schedule(steps[c][at[c] + 1], stack[c])
      BY <1>1
    <2> QED
      BY <1>2, <2>1
  <1>6. UNCHANGED <<steps, result>>
    BY DEF steps
  <1>7. AsPipeline!StepSucceeds(c)
    BY <1>3, <1>4, <1>5, <1>6 DEF AsPipeline!StepSucceeds, steps, at, stack
  <1> QED
    BY <1>7 DEF PipelineStep, AsPipeline!Next

\* A step fails.
LEMMA MoveBack ==
  ASSUME pc \in [Client -> Labels], NEW c \in Client, NEW l, pc' = [pc EXCEPT ![c] = l],
         result' = [result EXCEPT ![c] = "error"], StepOf(pc[c]) \in 1 .. 6, StepOf(l) = 0,
         Scheduled(l) = Scheduled(pc[c])
  PROVE  PipelineStep
  <1>1. AsPipeline!StepFails(c)
    BY MoveSeen, RunSteps DEF AsPipeline!StepFails, AsPipeline!Unwinding
  <1> QED
    BY <1>1 DEF PipelineStep, AsPipeline!Next

\* The last step succeeds.
LEMMA MoveToEnd ==
  ASSUME pc \in [Client -> Labels], NEW c \in Client, pc[c] = "await", Return(c)
  PROVE  PipelineStep
  <1>1. pc' = [pc EXCEPT ![c] = "resume"] /\ result' = [result EXCEPT ![c] = "ok"]
    BY DEF Return, Goto
  <1>2. StepOf(pc[c]) = 6 /\ StepOf("resume") = 0 /\ Scheduled("resume") = Scheduled(pc[c])
    BY Labelled
  <1>3. [d \in Client |-> RunPipeline][c] = RunPipeline
    OBVIOUS
  <1>4. AsPipeline!LastStepSucceeds(c)
    BY <1>1, <1>2, <1>3, MoveSeen, RunSteps DEF AsPipeline!LastStepSucceeds, AsPipeline!Unwinding
  <1> QED
    BY <1>4 DEF PipelineStep, AsPipeline!Next

\* A deferred action ends.
LEMMA MoveOff ==
  ASSUME pc \in [Client -> Labels], NEW c \in Client, NEW l, pc' = [pc EXCEPT ![c] = l],
         UNCHANGED result, StepOf(pc[c]) = 0, StepOf(l) = 0, Scheduled(pc[c]) # <<>>,
         Scheduled(l) = Tail(Scheduled(pc[c]))
  PROVE  PipelineStep
  <1>1. AsPipeline!RunDeferred(c)
    BY MoveSeen DEF AsPipeline!RunDeferred, AsPipeline!Unwinding
  <1> QED
    BY <1>1 DEF PipelineStep, AsPipeline!Next

\* A coordinator that is killed runs none of its deferred actions.
LEMMA MoveToDeath ==
  ASSUME pc \in [Client -> Labels], NEW c \in Client, Crash(c)
  PROVE  PipelineStep
  <1>1. pc[c] \in Steps \cup Deferred /\ pc' = [pc EXCEPT ![c] = "crashed"] /\ UNCHANGED result
    BY DEF Crash, Gone, Goto, Labels
  <1>2. \/ StepOf(pc[c]) \in {1, 2, 3, 4, 5, 6}
        \/ StepOf(pc[c]) = 0 /\ Scheduled(pc[c]) # <<>>
    <2>1. CASE pc[c] \in Steps
      BY <2>1, Labelled DEF Steps
    <2>2. CASE pc[c] \in Deferred
      BY <2>2, Labelled, Tails DEF Deferred
    <2> QED
      BY <1>1, <2>1, <2>2
  <1>3. StepOf("crashed") = -1 /\ Scheduled("crashed") = <<>>
    BY Labelled
  <1>4. StepOf(pc[c]) > 0 \/ (StepOf(pc[c]) = 0 /\ Scheduled(pc[c]) # <<>>)
    BY <1>2
  <1>5. AsPipeline!Die(c)
    BY <1>1, <1>3, <1>4, MoveSeen DEF AsPipeline!Die, AsPipeline!Unwinding, AsPipeline!Dead
  <1> QED
    BY <1>5 DEF PipelineStep, AsPipeline!Next

\* A step that fails, wherever it is.
LEMMA FailSeen ==
  ASSUME pc \in [Client -> Labels], NEW c \in Client, pc[c] \in Steps, Fail(c)
  PROVE  PipelineStep
  <1> DEFINE l == AfterFailure[pc[c]]
  <1>1. pc' = [pc EXCEPT ![c] = l] /\ result' = [result EXCEPT ![c] = "error"]
    BY DEF Fail, Goto
  <1>2. StepOf(pc[c]) \in 1 .. 6 /\ StepOf(l) = 0 /\ Scheduled(l) = Scheduled(pc[c])
    <2>1. CASE pc[c] \in {"check", "ping", "lock", "lockwait"}
      BY <2>1, Labelled, AfterFailureIsDeferred
    <2>2. CASE pc[c] \in {"shortenGet", "shortenPut", "shortenSleep"}
      BY <2>2, Labelled, AfterFailureIsDeferred
    <2>3. CASE pc[c] \in {"pause", "failGet", "failExec", "await"}
      BY <2>3, Labelled, AfterFailureIsDeferred
    <2> QED
      BY <2>1, <2>2, <2>3 DEF Steps
  <1> HIDE DEF l
  <1> QED
    BY <1>1, <1>2, MoveBack

\* Every step of the system is a step of the pipeline or leaves it alone.
LEMMA PipelineSeen ==
  ASSUME FlowOK, [Next]_vars
  PROVE  PipelineStep
  <1>0. pc \in [Client -> Labels]
    BY DEF FlowOK
  <1>1. ASSUME UNCHANGED <<pc, result>> PROVE PipelineStep
    BY <1>1 DEF PipelineStep, AsPipeline!vars
  <1>2. ASSUME NEW c \in Client, NEW l, Proceed(c, l),
               StepOf(l) = StepOf(pc[c]), Scheduled(l) = Scheduled(pc[c])
        PROVE  PipelineStep
    BY <1>0, <1>2, MoveWithin DEF Proceed, Goto
  <1>3. ASSUME NEW c \in Client, NEW l, Proceed(c, l),
               StepOf(pc[c]) \in 1 .. 5, StepOf(l) = StepOf(pc[c]) + 1,
               Scheduled(l) = AsPipeline!Schedule(RunPipeline[StepOf(l)], Scheduled(pc[c]))
        PROVE  PipelineStep
    BY <1>0, <1>3, MoveOn DEF Proceed, Goto
  <1>4. ASSUME NEW c \in Client, NEW l, Proceed(c, l), StepOf(pc[c]) = 0, StepOf(l) = 0,
               Scheduled(pc[c]) # <<>>, Scheduled(l) = Tail(Scheduled(pc[c]))
        PROVE  PipelineStep
    BY <1>0, <1>4, MoveOff DEF Proceed, Goto
  <1>5. ASSUME NEW c \in Client, CheckClusterHealthy(c) \/ HealthCheckClients(c) \/ LockAcquired(c)
        PROVE  PipelineStep
    <2>1. CASE Fail(c)
      BY <2>1, <1>0, <1>5, FailSeen DEF CheckClusterHealthy, HealthCheckClients, LockAcquired, Steps
    <2>2. CASE pc[c] = "check" /\ Proceed(c, "ping")
      BY <2>2, <1>3, Labelled, RunSteps, Schedules
    <2>3. CASE pc[c] = "ping" /\ Proceed(c, "lock")
      BY <2>3, <1>3, Labelled, RunSteps, Schedules
    <2>4. CASE pc[c] = "lockwait" /\ Proceed(c, "shortenGet")
      BY <2>4, <1>3, Labelled, RunSteps, Schedules
    <2> QED
      BY <1>5, <2>1, <2>2, <2>3, <2>4 DEF CheckClusterHealthy, HealthCheckClients, LockAcquired
  <1>6. ASSUME NEW c \in Client, LockPut(c) \/ LockTimeout(c) \/ ShortenGet(c) \/ ShortenPut(c)
        PROVE  PipelineStep
    <2>1. CASE Fail(c)
      BY <2>1, <1>0, <1>6, FailSeen DEF LockPut, LockTimeout, ShortenGet, ShortenPut, Steps
    <2>2. CASE pc[c] = "lock" /\ Proceed(c, "lockwait")
      BY <2>2, <1>2, Labelled
    <2>3. CASE pc[c] = "shortenGet" /\ Proceed(c, "shortenPut")
      BY <2>3, <1>2, Labelled
    <2>4. CASE pc[c] = "shortenPut" /\ Proceed(c, "shortenSleep")
      BY <2>4, <1>2, Labelled
    <2> QED
      BY <1>6, <2>1, <2>2, <2>3, <2>4 DEF LockPut, LockTimeout, ShortenGet, ShortenPut
  <1>7. ASSUME NEW c \in Client, ShortenSleep(c) \/ PauseReturns(c)
        PROVE  PipelineStep
    <2>1. CASE Fail(c)
      BY <2>1, <1>0, <1>7, FailSeen DEF ShortenSleep, PauseReturns, Steps
    <2>2. CASE pc[c] = "shortenSleep" /\ Proceed(c, "pause")
      BY <2>2, <1>3, Labelled, RunSteps, Schedules
    <2>3. CASE pc[c] = "pause" /\ Proceed(c, "failGet")
      BY <2>3, <1>3, Labelled, RunSteps, Schedules
    <2> QED
      BY <1>7, <2>1, <2>2, <2>3 DEF ShortenSleep, PauseReturns
  <1>8. ASSUME NEW c \in Client, FailGet(c) \/ FailExec(c)
        PROVE  PipelineStep
    <2>1. CASE Fail(c)
      BY <2>1, <1>0, <1>8, FailSeen DEF FailGet, FailExec, Steps
    <2>2. CASE pc[c] = "failGet" /\ Proceed(c, "failExec")
      BY <2>2, <1>2, Labelled
    <2>3. CASE pc[c] = "failExec" /\ Proceed(c, "await")
      BY <2>3, <1>2, Labelled
    <2> QED
      BY <1>8, <2>1, <2>2, <2>3 DEF FailGet, FailExec
  <1>9. ASSUME NEW c \in Client, Recover(c) \/ AwaitTimeout(c) \/ AwaitCancelled(c)
        PROVE  PipelineStep
    <2>1. pc[c] = "await" /\ (Fail(c) \/ Return(c))
      BY <1>9 DEF Recover, AwaitTimeout, AwaitCancelled, AwaitEnds
    <2> QED
      BY <2>1, <1>0, FailSeen, MoveToEnd DEF Steps
  <1>10. ASSUME NEW c \in Client, ResumeReturns(c) \/ RestoreGet(c) \/ RestorePut(c) \/ ReleaseLock(c)
        PROVE  PipelineStep
    <2>1. CASE pc[c] = "resume" /\ Proceed(c, "restoreGet")
      BY <2>1, <1>4, Labelled, Tails
    <2>2. CASE pc[c] = "restoreGet" /\ Proceed(c, "restorePut")
      BY <2>2, <1>2, Labelled
    <2>3. CASE pc[c] \in {"restoreGet", "restorePut"} /\ Proceed(c, "release")
      BY <2>3, <1>4, Labelled, Tails
    <2>4. CASE pc[c] = "release" /\ Proceed(c, "done")
      BY <2>4, <1>4, Labelled, Tails
    <2> QED
      BY <1>10, <2>1, <2>2, <2>3, <2>4 DEF ResumeReturns, RestoreGet, RestorePut, ReleaseLock
  <1>11. ASSUME NEW c \in Client, Step(c) PROVE PipelineStep
    BY <1>11, <1>1, <1>5, <1>6, <1>7, <1>8, <1>9, <1>10 DEF Step, PauseCall, ResumeCall
  <1>12. ASSUME Environment PROVE PipelineStep
    BY <1>12, <1>0, <1>1, MoveToDeath DEF Environment, Signal, CleanupTimeout, LeaseEnds, Lifted, StrayPause,
       Sentinel, Elect, StandbyFails, Heal, Reinitialise, Degrade, SentinelWrites
  <1> QED
    BY <1>1, <1>11, <1>12 DEF Next, vars

\* A coordinator begins as a run of the pipeline does.
LEMMA PipelineInit == Init => AsPipeline!Init
  <1> SUFFICES ASSUME Init PROVE AsPipeline!Init
    OBVIOUS
  <1>1. /\ [c \in Client |-> StepOf(pc[c])] = [c \in Client |-> 1]
        /\ [c \in Client |-> Scheduled(pc[c])] = [c \in Client |-> <<>>]
    BY Labelled DEF Init
  <1>2. [c \in Client |-> AsPipeline!Schedule([d \in Client |-> RunPipeline][c][1], <<>>)]
          = [c \in Client |-> <<>>]
    <2>1. \A c \in Client : [d \in Client |-> RunPipeline][c][1] = <<>>
      BY RunSteps
    <2> QED
      BY <2>1, Schedules
  <1>3. [c \in Client |-> RunPipeline] \in [Client -> {RunPipeline}]
    OBVIOUS
  <1> QED
    BY <1>1, <1>2, <1>3 DEF AsPipeline!Init, Init

\* Every coordinator is a run of the pipeline: the deferred actions of the steps
\* it began, in reverse, whatever fails and whenever it is interrupted.
THEOREM ImplementsPipeline == Spec => FollowsPipeline
  <1>1. FlowOK /\ [Next]_vars => [AsPipeline!Next]_(AsPipeline!vars)
    BY PipelineSeen DEF PipelineStep
  <1>2. Spec => []FlowOK
    <2>1. ExclusionInv => FlowOK
      BY DEF ExclusionInv
    <2> QED
      BY <2>1, InvHolds, PTL
  <1> QED
    BY <1>1, <1>2, PipelineInit, PTL DEF Spec, FollowsPipeline, AsPipeline!Spec

=============================================================================
