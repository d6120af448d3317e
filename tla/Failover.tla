------------------------------ MODULE Failover ------------------------------
(***************************************************************************)
(* The failover command (pkg/failover/failover.go run by                   *)
(* cmd/stolon-pgbouncer/main.go): coordinators that may run at the same    *)
(* time, the etcd lock between them, the clusterdata document they share   *)
(* with stolon's sentinel, and the pausers of the Postgres nodes.          *)
(*                                                                         *)
(* A coordinator is a label, pc: the steps of Run in order, split where    *)
(* the code waits for etcd, for a pauser or for time, then the deferred    *)
(* actions of the steps it has begun, in reverse order. AfterFailure says  *)
(* which deferred action comes first when a step fails; module Pipeline    *)
(* and the property FollowsPipeline relate the labels to pipeline.go.      *)
(*                                                                         *)
(* The document is reduced to what the coordinators tell apart: its master *)
(* (by keeper), its level (Clusterdata: "tolerant" when CheckHealthy(1)    *)
(* passes, "ready" when only the health part of Recovered holds, else      *)
(* "down"), the sleepInterval, and the keeper marked as failed.            *)
(***************************************************************************)
EXTENDS EtcdLock

CONSTANTS
    Keeper,      \* Postgres nodes that can be the master
    Node,        \* nodes whose pausers the coordinators were given at start
    NoKeeper,    \* no keeper
    Configured,  \* the sleepIntervals the cluster may be configured with
    Faults       \* which of AllFaults may happen

\* "crash": a coordinator dies (a second signal is a crash too); "signal": it
\* is asked to stop; "sessionLost": its lease expires while it runs; "etcd": a
\* request to etcd or stolonctl fails, its effect done or not; "rpc": a pauser
\* call fails; "degrade": the cluster loses health; "election": the sentinel
\* replaces the master by itself, or the cluster is initialised anew and has no
\* master for a while.
AllFaults == {"crash", "signal", "sessionLost", "etcd", "rpc", "degrade", "election"}

\* "unset": the document has no sleepInterval, stolon's default applies.
ASSUME FailoverAssumption ==
    /\ Configured \subseteq {"5s", "unset"}
    /\ NoKeeper \notin Keeper
    /\ Faults \subseteq AllFaults

Levels == {"down", "ready", "tolerant"}
Intervals == {"5s", "unset", "1s", ""}
NoDocument == [master |-> NoKeeper]
Documents == {d \in [master : Keeper \cup {NoKeeper}, level : Levels,
                     interval : Intervals, failing : Keeper \cup {NoKeeper}] :
                d.master = NoKeeper => d.level = "down"}

VARIABLES
    store,      \* the clusterdata document in etcd
    pc,         \* [Client -> Labels] where each coordinator is
    result,     \* [Client -> {"none", "ok", "error"}] what Run will return
    ctx,        \* [Client -> {"live", "done", "expired"}]: done: ctx is; expired:
                \* the cleanup timeout is over too, deferCtx is cancelled
    cached,     \* [Client -> Intervals] Failover.sleepInterval, "" at first
    snap,       \* [Client -> Documents] the document read and not yet put back
    target,     \* [Client -> Keeper \cup {NoKeeper}] the master being failed over
    sighted,    \* the clients whose stream has delivered a recovered document
    rpc,        \* [Client -> [Node -> ...]] its calls to the pausers
    pool,       \* [Node -> Traffic] the node's PgBouncer; stray: blocked by a
                \* Pause call that nobody waits for
    stray       \* the nodes whose pausers may still be handling such a call

dataVars == <<store, cached, snap, target, sighted>>
nodeVars == <<rpc, pool, stray>>
vars == <<lockVars, dataVars, nodeVars, pc, result, ctx>>

Steps == {"check", "ping", "lock", "lockwait", "shortenGet", "shortenPut",
          "shortenSleep", "pause", "failGet", "failExec", "await"}
Deferred == {"resume", "restoreGet", "restorePut", "release"}
Labels == Steps \cup Deferred \cup {"done", "crashed"}
Traffic == {"flowing", "blocked", "stray"}

\* Not called; Pause is on its way, granted or failed; Resume has succeeded or
\* failed.
RpcStates == {"idle", "sent", "ok", "err", "resumed", "failed"}

TypeOK ==
    /\ LockTypeOK
    /\ store \in Documents
    /\ pc \in [Client -> Labels]
    /\ result \in [Client -> {"none", "ok", "error"}]
    /\ ctx \in [Client -> {"live", "done", "expired"}]
    /\ cached \in [Client -> Intervals]
    /\ snap \in [Client -> Documents \cup {NoDocument}]
    /\ target \in [Client -> Keeper \cup {NoKeeper}]
    /\ sighted \subseteq Client
    /\ rpc \in [Client -> [Node -> RpcStates]]
    /\ pool \in [Node -> Traffic]
    /\ stray \subseteq Node
    /\ \A c \in Client : pc[c] \in Steps => result[c] = "none"

Init ==
    /\ LockInit
    /\ store \in {d \in Documents : /\ d.level = "tolerant"
                                    /\ d.interval \in Configured
                                    /\ d.failing = NoKeeper}
    /\ pc = [c \in Client |-> "check"]
    /\ result = [c \in Client |-> "none"]
    /\ ctx = [c \in Client |-> "live"]
    /\ cached = [c \in Client |-> ""]
    /\ snap = [c \in Client |-> NoDocument]
    /\ target = [c \in Client |-> NoKeeper]
    /\ sighted = {}
    /\ rpc = [c \in Client |-> [n \in Node |-> "idle"]]
    /\ pool = [n \in Node |-> "flowing"]
    /\ stray = {}

-----------------------------------------------------------------------------
\* Control flow of Run.
Goto(c, l) == pc' = [pc EXCEPT ![c] = l]

\* Mutated form: Resume is deferred only once Pause has succeeded.
AfterFailureUnscheduled ==
    [l \in Steps |->
        CASE l \in {"check", "ping"} -> "done"
          [] l \in {"lock", "lockwait"} -> "release"
          [] l \in {"shortenGet", "shortenPut", "shortenSleep"} -> "restoreGet"
          [] l = "pause" -> "restoreGet"
          [] l \in {"failGet", "failExec", "await"} -> "resume"]

\* Mutated form: a coordinator that could not get the lock tries again.
AfterFailureRetries ==
    [l \in Steps |->
        CASE l \in {"check", "ping"} -> "done"
          [] l \in {"lock", "lockwait"} -> "lock"
          [] l \in {"shortenGet", "shortenPut", "shortenSleep"} -> "restoreGet"
          [] l \in {"pause", "failGet", "failExec", "await"} -> "resume"]

AfterFailure ==
    [l \in Steps |->
        CASE l \in {"check", "ping"} -> "done"
          [] l \in {"lock", "lockwait"} -> "release"
          [] l \in {"shortenGet", "shortenPut", "shortenSleep"} -> "restoreGet"
          [] l \in {"pause", "failGet", "failExec", "await"} -> "resume"]

\* A step returns an error: the deferred actions of the steps begun so far run.
Fail(c) == /\ Goto(c, AfterFailure[pc[c]])
           /\ result' = [result EXCEPT ![c] = "error"]

Proceed(c, l) == Goto(c, l) /\ UNCHANGED result

\* A request made with ctx, or with deferCtx, may fail.
CtxFails(c, fault) == ctx[c] # "live" \/ fault \in Faults
DeferFails(c, fault) == ctx[c] = "expired" \/ fault \in Faults

\* What NotifyRecovered waits for; the streams it reads show every document
\* written from then on, and the current one.
Recovered(d, oldKeeper) == d.master # oldKeeper /\ d.level # "down"

Write(d) ==
    /\ store' = d
    /\ sighted' = sighted \cup {c \in Client : pc'[c] = "await" /\ Recovered(d, target[c])}

-----------------------------------------------------------------------------
CheckClusterHealthy(c) ==
    /\ pc[c] = "check"
    /\ \/ store.level = "tolerant" /\ Proceed(c, "ping")
       \/ store.level # "tolerant" /\ Fail(c)
       \/ CtxFails(c, "etcd") /\ Fail(c)
    /\ UNCHANGED <<lockVars, dataVars, nodeVars, ctx>>

HealthCheckClients(c) ==
    /\ pc[c] = "ping"
    /\ \/ Proceed(c, "lock")
       \/ CtxFails(c, "rpc") /\ Fail(c)
    /\ UNCHANGED <<lockVars, dataVars, nodeVars, ctx>>

\* AcquireLock. The key may be written although the request reports an error;
\* a wait that ends with its context deletes the key, if that request succeeds.
LockPut(c) ==
    /\ pc[c] = "lock"
    /\ \/ PutKey(c) /\ Proceed(c, "lockwait")
       \/ PutKey(c) /\ CtxFails(c, "etcd") /\ Fail(c)
       \/ (CtxFails(c, "etcd") \/ c \in lost) /\ UNCHANGED lockVars /\ Fail(c)
    /\ UNCHANGED <<dataVars, nodeVars, ctx>>

LockAcquired(c) ==
    /\ pc[c] = "lockwait"
    /\ Acquire(c)
    /\ Proceed(c, "shortenGet")
    /\ UNCHANGED <<dataVars, nodeVars, ctx>>

LockTimeout(c) ==
    /\ pc[c] = "lockwait"
    /\ \/ Unlock(c)
       \/ "etcd" \in Faults /\ UNCHANGED lockVars
    /\ Fail(c)
    /\ UNCHANGED <<dataVars, nodeVars, ctx>>

\* ShortenSleepInterval. A missing or unparsable interval is cached before it
\* is refused, as the empty string; a failed Get caches nothing.
ShortenGet(c) ==
    /\ pc[c] = "shortenGet"
    /\ \/ /\ store.interval \in {"5s", "1s"}
          /\ cached' = [cached EXCEPT ![c] = store.interval]
          /\ snap' = [snap EXCEPT ![c] = store]
          /\ Proceed(c, "shortenPut")
       \/ /\ store.interval \in {"unset", ""} \/ CtxFails(c, "etcd")
          /\ UNCHANGED <<cached, snap>>
          /\ Fail(c)
    /\ UNCHANGED <<lockVars, nodeVars, store, target, sighted, ctx>>

ShortenPut(c) ==
    /\ pc[c] = "shortenPut"
    /\ \/ Proceed(c, "shortenSleep") /\ Write([snap[c] EXCEPT !.interval = "1s"])
       \/ CtxFails(c, "etcd") /\ Fail(c) /\ Write([snap[c] EXCEPT !.interval = "1s"])
       \/ CtxFails(c, "etcd") /\ Fail(c) /\ UNCHANGED <<store, sighted>>
    /\ snap' = [snap EXCEPT ![c] = NoDocument]
    /\ UNCHANGED <<lockVars, nodeVars, cached, target, ctx>>

\* time.Sleep, whatever becomes of the context.
ShortenSleep(c) ==
    /\ pc[c] = "shortenSleep"
    /\ Proceed(c, "pause")
    /\ rpc' = [rpc EXCEPT ![c] = [n \in Node |-> "sent"]]
    /\ UNCHANGED <<lockVars, dataVars, pool, stray, ctx>>

\* Pause: EachClient calls every pauser in parallel and waits for all. A call
\* that fails may have blocked the node, and its handler may still be at work.
PauseCall(c, n) ==
    /\ pc[c] = "pause"
    /\ rpc[c][n] = "sent"
    /\ \/ /\ rpc' = [rpc EXCEPT ![c][n] = "ok"]
          /\ pool' = [pool EXCEPT ![n] = "blocked"]
          /\ UNCHANGED stray
       \/ /\ CtxFails(c, "rpc")
          /\ rpc' = [rpc EXCEPT ![c][n] = "err"]
          /\ pool' = [pool EXCEPT ![n] = "blocked"] \/ UNCHANGED pool
          /\ stray' = stray \cup {n}
    /\ UNCHANGED <<lockVars, dataVars, pc, result, ctx>>

PauseReturns(c) ==
    /\ pc[c] = "pause"
    /\ \/ (\A n \in Node : rpc[c][n] = "ok") /\ Proceed(c, "failGet")
       \/ /\ \A n \in Node : rpc[c][n] # "sent"
          /\ \E n \in Node : rpc[c][n] = "err"
          /\ Fail(c)
    /\ UNCHANGED <<lockVars, dataVars, nodeVars, ctx>>

\* Failkeeper: read the master, have stolonctl mark it as failed, and wait.
FailGet(c) ==
    /\ pc[c] = "failGet"
    /\ \/ /\ store.master # NoKeeper
          /\ Proceed(c, "failExec")
          /\ target' = [target EXCEPT ![c] = store.master]
       \/ /\ store.master = NoKeeper \/ CtxFails(c, "etcd")
          /\ Fail(c)
          /\ UNCHANGED target
    /\ UNCHANGED <<lockVars, nodeVars, store, cached, snap, sighted, ctx>>

FailExec(c) ==
    /\ pc[c] = "failExec"
    /\ \/ Proceed(c, "await") /\ Write([store EXCEPT !.failing = target[c]]) /\ UNCHANGED target
       \/ /\ CtxFails(c, "etcd")
          /\ Fail(c)
          /\ target' = [target EXCEPT ![c] = NoKeeper]
          /\ Write([store EXCEPT !.failing = target[c]]) \/ UNCHANGED <<store, sighted>>
    /\ UNCHANGED <<lockVars, nodeVars, cached, snap, ctx>>

\* The wait ends: its stream and the master it waits to lose go out of scope.
AwaitEnds(c) ==
    /\ pc[c] = "await"
    /\ target' = [target EXCEPT ![c] = NoKeeper]
    /\ sighted' = sighted \ {c}
    /\ UNCHANGED <<lockVars, nodeVars, store, cached, snap, ctx>>

Return(c) == /\ Goto(c, "resume")
             /\ result' = [result EXCEPT ![c] = "ok"]

\* Mutated form: any document counts, whatever its master and its health.
RecoverUnseen(c) ==
    /\ AwaitEnds(c)
    /\ Return(c)

Recover(c) ==
    /\ AwaitEnds(c)
    /\ c \in sighted
    /\ Return(c)

\* Mutated form: nothing but a recovery ends the wait.
AwaitTimeoutUnset(c) == AwaitEnds(c) /\ c \in sighted /\ Fail(c)

AwaitTimeout(c) == AwaitEnds(c) /\ Fail(c)

\* The context ends the stream, NotifyRecovered closes its channel, and the
\* zero DB received from it passes for the new master.
AwaitCancelled(c) ==
    /\ AwaitEnds(c)
    /\ ctx[c] # "live"
    /\ Return(c)

-----------------------------------------------------------------------------
\* The deferred actions; the errors they return are dropped.
ResumeCall(c, n) ==
    /\ pc[c] = "resume"
    /\ rpc[c][n] \in {"ok", "err"}
    /\ \/ /\ rpc' = [rpc EXCEPT ![c][n] = "resumed"]
          /\ pool' = [pool EXCEPT ![n] = "flowing"]
       \/ /\ DeferFails(c, "rpc")
          /\ rpc' = [rpc EXCEPT ![c][n] = "failed"]
          /\ pool' = [pool EXCEPT ![n] = "flowing"] \/ UNCHANGED pool
    /\ UNCHANGED <<lockVars, dataVars, stray, pc, result, ctx>>

ResumeReturns(c) ==
    /\ pc[c] = "resume"
    /\ \A n \in Node : rpc[c][n] \in {"resumed", "failed"}
    /\ Proceed(c, "restoreGet")
    /\ UNCHANGED <<lockVars, dataVars, nodeVars, ctx>>

RestoreGet(c) ==
    /\ pc[c] = "restoreGet"
    /\ \/ Proceed(c, "restorePut") /\ snap' = [snap EXCEPT ![c] = store]
       \/ DeferFails(c, "etcd") /\ Proceed(c, "release") /\ UNCHANGED snap
    /\ UNCHANGED <<lockVars, nodeVars, store, cached, target, sighted, ctx>>

RestorePut(c) ==
    /\ pc[c] = "restorePut"
    /\ Proceed(c, "release")
    /\ \/ Write([snap[c] EXCEPT !.interval = cached[c]])
       \/ DeferFails(c, "etcd") /\ UNCHANGED <<store, sighted>>
    /\ snap' = [snap EXCEPT ![c] = NoDocument]
    /\ UNCHANGED <<lockVars, nodeVars, cached, target, ctx>>

ReleaseLock(c) ==
    /\ pc[c] = "release"
    /\ \/ Unlock(c)
       \/ DeferFails(c, "etcd") /\ UNCHANGED lockVars
    /\ Proceed(c, "done")
    /\ UNCHANGED <<dataVars, nodeVars, ctx>>

-----------------------------------------------------------------------------
\* What happens to a coordinator.
Gone(c) == pc[c] \in {"done", "crashed"}

Signal(c) ==
    /\ "signal" \in Faults
    /\ ~ Gone(c)
    /\ ctx[c] = "live"
    /\ ctx' = [ctx EXCEPT ![c] = "done"]
    /\ UNCHANGED <<lockVars, dataVars, nodeVars, pc, result>>

CleanupTimeout(c) ==
    /\ ~ Gone(c)
    /\ ctx[c] = "done"
    /\ ctx' = [ctx EXCEPT ![c] = "expired"]
    /\ UNCHANGED <<lockVars, dataVars, nodeVars, pc, result>>

\* Its calls end with it, and the Resume calls it owed are not made.
Crash(c) ==
    /\ "crash" \in Faults
    /\ ~ Gone(c)
    /\ Goto(c, "crashed")
    /\ cached' = [cached EXCEPT ![c] = ""]
    /\ snap' = [snap EXCEPT ![c] = NoDocument]
    /\ target' = [target EXCEPT ![c] = NoKeeper]
    /\ sighted' = sighted \ {c}
    /\ rpc' = [rpc EXCEPT ![c] = [n \in Node |-> IF @[n] \in {"sent", "ok", "err"}
                                                THEN "failed" ELSE @[n]]]
    /\ stray' = stray \cup {n \in Node : rpc[c][n] = "sent"}
    /\ UNCHANGED <<lockVars, store, pool, result, ctx>>

\* Mutated form: the lock of a process that was killed has no lease.
LeaseEndsAtExit(c) ==
    /\ pc[c] = "done" \/ "sessionLost" \in Faults
    /\ ExpireLease(c)
    /\ UNCHANGED <<dataVars, nodeVars, pc, result, ctx>>

\* Nobody renews the lease of a process that is gone.
LeaseEnds(c) ==
    /\ Gone(c) \/ "sessionLost" \in Faults
    /\ ExpireLease(c)
    /\ UNCHANGED <<dataVars, nodeVars, pc, result, ctx>>

\* The pauser of n (module Pauser) lifts a pause, whoever asked for it: a grant
\* has expired, or a handler whose context is done has PAUSE cancelled.
Lifted(n) ==
    /\ pool[n] # "flowing"
    /\ pool' = [pool EXCEPT ![n] = "flowing"]
    /\ UNCHANGED <<lockVars, dataVars, rpc, stray, pc, result, ctx>>

\* A Pause call that nobody waits for gets to PgBouncer late.
StrayPause(n) ==
    /\ n \in stray
    /\ pool[n] = "flowing"
    /\ pool' = [pool EXCEPT ![n] = "stray"]
    /\ UNCHANGED <<lockVars, dataVars, rpc, stray, pc, result, ctx>>

\* stolon's sentinel, which writes the document by compare-and-swap: it
\* replaces a master marked as failed, puts aside a standby so marked, brings
\* the cluster back to health and reports the loss of it. Reinitialise is
\* stolonctl's: the new cluster has no master until the sentinel elects one.
SentinelWrites(d) == UNCHANGED <<lockVars, nodeVars, pc, result, ctx, cached, snap, target>> /\ Write(d)

Elect(k, l) ==
    /\ store.master \in {store.failing, NoKeeper} \/ "election" \in Faults
    /\ k # store.master
    /\ SentinelWrites([store EXCEPT !.master = k, !.level = l, !.failing = NoKeeper])

Reinitialise ==
    /\ "election" \in Faults
    /\ store.master # NoKeeper
    /\ SentinelWrites([store EXCEPT !.master = NoKeeper, !.level = "down", !.failing = NoKeeper])

StandbyFails(l) ==
    /\ store.failing \in Keeper \ {store.master}
    /\ store.master = NoKeeper => l = "down"
    /\ SentinelWrites([store EXCEPT !.level = l, !.failing = NoKeeper])

Heal ==
    /\ store.failing = NoKeeper
    /\ store.master # NoKeeper
    /\ \/ store.level = "down" /\ SentinelWrites([store EXCEPT !.level = "ready"])
       \/ store.level = "ready" /\ SentinelWrites([store EXCEPT !.level = "tolerant"])

Degrade(l) ==
    /\ "degrade" \in Faults
    /\ store.level = "tolerant"
    /\ SentinelWrites([store EXCEPT !.level = l])

Sentinel == \/ \E l \in {"down", "ready"} : \/ \E k \in Keeper : Elect(k, l)
                                          \/ StandbyFails(l)
                                          \/ Degrade(l)
            \/ Heal \/ Reinitialise

-----------------------------------------------------------------------------
Step(c) ==
    \/ CheckClusterHealthy(c) \/ HealthCheckClients(c)
    \/ LockPut(c) \/ LockAcquired(c) \/ LockTimeout(c)
    \/ ShortenGet(c) \/ ShortenPut(c) \/ ShortenSleep(c)
    \/ (\E n \in Node : PauseCall(c, n)) \/ PauseReturns(c)
    \/ FailGet(c) \/ FailExec(c) \/ Recover(c) \/ AwaitTimeout(c) \/ AwaitCancelled(c)
    \/ (\E n \in Node : ResumeCall(c, n)) \/ ResumeReturns(c)
    \/ RestoreGet(c) \/ RestorePut(c) \/ ReleaseLock(c)

Environment ==
    \/ \E c \in Client : Signal(c) \/ CleanupTimeout(c) \/ Crash(c) \/ LeaseEnds(c)
    \/ \E n \in Node : Lifted(n) \/ StrayPause(n)
    \/ Sentinel

Next == (\E c \in Client : Step(c)) \/ Environment

Spec == Init /\ [][Next]_vars

\* An etcd request made with a context that no timeout ends, by which a
\* coordinator can be held up for as long as etcd does not answer: with ctx,
\* until it is asked to stop; with deferCtx, until --cleanup-timeout is over too.
Unbounded(c) ==
    \/ pc[c] \in {"check", "shortenGet", "shortenPut", "failGet"} /\ ctx[c] = "live"
    \/ pc[c] \in {"restoreGet", "restorePut"} /\ ctx[c] # "expired"

\* Every other wait in Run is ended by a timeout (--health-check-timeout,
\* --lock-timeout, the one of the pause and resume calls, --stolonctl-timeout,
\* PauseExpiry) or is a sleep, and --cleanup-timeout follows a signal. The lease
\* of a process that is gone expires. Nothing is assumed of etcd, of the
\* sentinel and of signals.
Fairness ==
    \A c \in Client : /\ WF_vars(~ Unbounded(c) /\ Step(c))
                      /\ WF_vars(CleanupTimeout(c))
                      /\ WF_vars(Gone(c) /\ LeaseEnds(c))

FairSpec == Spec /\ Fairness

-----------------------------------------------------------------------------
\* Where a coordinator relies on the failover lock.
Critical == {"shortenGet", "shortenPut", "shortenSleep", "pause", "failGet",
             "failExec", "await", "resume", "restoreGet", "restorePut"}

InCritical(c) == pc[c] \in Critical

\* Of the coordinators whose lease is alive, one at most is between taking the
\* lock and giving it back (AcquireLock, ReleaseLock, the order of Run).
OneFailoverAtATime ==
    \A c, d \in Client \ lost : InCritical(c) /\ InCritical(d) => c = d

\* "ensuring only one failover takes place at a time" (README.md), leases or
\* no leases.
OnlyOneFailover ==
    \A c, d \in Client : InCritical(c) /\ InCritical(d) => c = d

\* Past its deferred Resume, the coordinator that holds the lock leaves traffic
\* flowing for the next one, whichever pausers granted the pause and whichever
\* refused it. A node is left blocked only where its own Resume call failed or a
\* coordinator that runs on without its lease has called too; and, if it never
\* got to its pauses, where an earlier one failed to resume or was killed. (A
\* Pause call that nobody waits for may block a node later: pool is "stray".)
FlowsBeforeRelease ==
    \A c \in owned \ lost, n \in Node :
        pc[c] \in {"restoreGet", "restorePut", "release"} /\ pool[n] = "blocked" =>
            \/ rpc[c][n] = "failed"
            \/ rpc[c][n] = "idle" /\ \E d \in Client : rpc[d][n] = "failed"
            \/ \E d \in lost : rpc[d][n] \notin {"idle", "resumed"}

\* "return the cluster to how it was prior to the failover" (failover.go):
\* unless a coordinator is about to put it back, was killed before it could or
\* lost its lease, the interval is as configured.
IntervalRestored ==
    (\A c \in Client : ~ InCritical(c) /\ pc[c] # "crashed" /\ c \notin lost) =>
        store.interval \in Configured

\* The interval is never replaced by an empty one.
NoEmptyInterval == store.interval # ""

\* Run reports success only once the master it failed has been replaced:
\* NotifyRecovered "will return a channel that receives the new master DB only
\* once it is healthy and available for writes" (failover.go).
SuccessMeansReplaced ==
    [][\A c \in Client :
        result[c] = "none" /\ result'[c] = "ok" => store.master # target[c]]_vars

\* The part of it that holds, also next to a coordinator that is asked to stop:
\* one that is not reports success only for a master that has been replaced.
RecoveryMeansReplaced ==
    [][\A c \in Client :
        result[c] = "none" /\ result'[c] = "ok" /\ ctx[c] = "live" =>
            store.master # target[c]]_vars

\* Failkeeper marks "the current primary keeper as failed" (failover.go).
FailsTheMaster ==
    [][\A c \in Client : FailExec(c) /\ store' # store => target[c] = store.master]_vars

\* The order of the process in README.md: a keeper is marked as failed in a
\* cluster that was confirmed to survive a node failure.
FailsTolerantCluster ==
    [][\A c \in Client : FailExec(c) /\ store' # store => store.level = "tolerant"]_vars

\* RestoreSleepInterval "removes the temporary short sleep interval" and puts
\* nothing else back to what it was.
RestoreKeepsMaster ==
    [][\A c \in Client : RestorePut(c) => store'.master = store.master]_vars

\* The part of it that holds when the sentinel replaces a master only because it
\* is marked as failed: a coordinator that saw the recovery does not undo it,
\* unless it is asked to stop.
RestoreKeepsRecovery ==
    [][\A c \in Client :
        RestorePut(c) /\ result[c] = "ok" /\ ctx[c] = "live" =>
            store'.master = store.master]_vars

\* A coordinator that is not killed returns from Run, unless etcd leaves one of
\* its requests without an answer for ever; asked to stop, it returns anyhow.
Terminates == \A c \in Client : <>Gone(c) \/ <>[]Unbounded(c)

\* Whatever becomes of the coordinators, the lock is freed, unless its holder
\* waits for such an answer and keeps its lease alive all the same.
LockIsFreed == \A c \in Client : (key[c] # 0 ~> key[c] = 0) \/ <>[]Unbounded(c)

=============================================================================
