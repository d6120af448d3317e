# stolon-pgbouncer in TLA+

stolon-pgbouncer puts a PgBouncer in front of a Postgres cluster that stolon
manages, keeps it pointed at the primary, and replaces the primary on request
while PgBouncer holds the queries back, so that clients see a pause and no
error. This directory holds TLA+ models of that program, configurations that
check them with TLC, and proofs for the TLA+ proof system. `PROJECT.json` maps
every definition to the lines it models.

## 1. The system

### Components

| component | state it keeps | operations |
|---|---|---|
| clusterdata model, `pkg/stolon/stolon.go` | none: the JSON document stolon's sentinel keeps in etcd | `Master`, `SynchronousStandbys`, `AsynchronousStandbys`, `CheckHealthy` |
| failover coordinator, `pkg/failover/failover.go`, `failover` command | etcd session and lock, cached `sleepInterval`, connections to the pausers | `Run`: `CheckClusterHealthy`, `HealthCheckClients`, `AcquireLock`/`ReleaseLock`, `ShortenSleepInterval`/`RestoreSleepInterval`, `Pause`/`Resume`, `Failkeeper`, `NotifyRecovered` |
| failover pipeline, `pkg/failover/pipeline.go` | Go's stack of deferred calls | run steps, defer, stop at the first error |
| failover lock, `NewLock` | keys and leases in etcd (`concurrency.Mutex`) | `Lock`, `Unlock`, expiry of the lease |
| `with-lock` command | the lock, a child process, an exit status | lock, run, unlock |
| pauser, `pkg/failover/server.go`, `pauser` command | one goroutine for each pause that will expire, PgBouncer's admin console | `Pause`, `Resume`, `HealthCheck`, resume at boot, `GracefulStop` |
| PgBouncer wrapper, `pkg/pgbouncer` | configuration file, admin connections | `Pause`, `Resume`, `Reload`, `GenerateConfig`, `Disable`, `ShowDatabases` |
| etcd stream, `pkg/etcd/stream.go` | a watch and a poll goroutine on one channel | watch, poll, cancel |
| stream filters, `pkg/streams/filter.go` | last revision seen of each key | `Tap`, `RevisionFilter`, `DedupeFilter` |
| retry fold, `pkg/streams/fold.go` | the document being applied | apply, retry, replace by a newer one |
| `supervise` command | the PgBouncer child, `lastReloadedAddress` | apply a document, boot, reload, drain |
| signal handling | two contexts, `ctx` and `deferCtx` | first signal ends `ctx` and, after `--cleanup-timeout`, `deferCtx`; the second one panics, exit status 2 |
| compare-and-update, status, gRPC stubs, set-up, metrics, acceptance tests | none that matters here | see section 7 |

### Interactions

    failover ---lock---------> etcd <--CAS-- stolon sentinel, stolonctl failkeeper
       |  \---read, write----> etcd ---watch, poll--> supervise (one for each node)
       |                                                  | configuration, RELOAD, child
       |---gRPC Pause, Resume--> pauser ---PAUSE, RESUME--> PgBouncer ---> Postgres
    with-lock ---lock--------> etcd

The coordinator and the sentinel share one document; the coordinator writes the
whole of it with no comparison. The coordinators share the lock. Pausers share
nothing with each other, but all the requests of one pauser share one PgBouncer,
which knows one pause and no owner. `supervise` shares the document with the
sentinel, read-only, and PgBouncer with the pauser.

### What is hard

* *Interleaving.* Overlapping pauses on one PgBouncer; a coordinator and the
  sentinel between a read and a write of the same document; two coordinators; the
  watch and the poll of one stream.
* *Failure.* A coordinator that dies with queries held, with the interval
  shortened or with the lock; a request that fails after it took effect; some
  pausers that pause while another refuses; a pauser that dies with pauses to
  lift; a PAUSE that times out when PgBouncer has begun to drain.
* *Order.* The deferred actions of the step that fails; an older document after
  a newer one; PgBouncer started before it has a configuration.
* *Time.* Expiry of pauses against later pauses; leases; the two contexts; the
  wait for a recovery that never comes.
* *Termination.* A run group whose actors end in any order; a drain that asks a
  PgBouncer that is paused, refuses, or has died; a PgBouncer whose supervise died.

`PROJECT.json` lists each of these at its line with the properties that would
catch it going wrong, and says which ones nothing covers yet.

### What makes each component correct

* *Coordinator*: one failover at a time; every way out leaves traffic flowing and
  the interval as it was; success means there is a new, healthy master; it returns.
* *Pipeline*: deferred actions of exactly the steps begun, in reverse.
* *Lock*: exclusion while leases live, freed whatever happens.
* *Pauser*: a pause in force is always somebody's to lift, and is lifted.
* *Wait for recovery*: it succeeds on the newest document, is told of a recovery
  that stays, and ends with its context.
* *Supervise, the watch*: never an older document after a newer one, never a skipped
  reload that was needed, in the end the current master.
* *Supervise, the child*: PgBouncer is not killed under its clients, is not left
  behind by a supervise that exits, and supervise does exit.
* *Health check*: passes exactly when the cluster survives the failures asked for,
  so that the wait after the failover can be satisfied.

## 2. Modules and how they correspond to the code

| module | models | kind |
|---|---|---|
| `Clusterdata` | decisions taken from one document | operators |
| `MCClusterdata` | the health check over every small document, with reference definitions | checking |
| `Pipeline` | `pipeline.go`, any pipeline | component, and abstract specification of the coordinator |
| `MCPipeline` | every small pipeline, with a history of what ran | checking |
| `EtcdLock` | etcd's mutex as `NewLock` uses it | external component |
| `EtcdLockProofs` | exclusion | proofs |
| `WithLock` | the `with-lock` command on `EtcdLock` | component |
| `WithLockProofs` | types, exclusion, exit status | proofs |
| `PauseService` | what a pauser promises | abstract specification |
| `Pauser` | server, driver, clock, PgBouncer's admin console | component, implements `PauseService` |
| `MCPauser` | values of the constants | checking |
| `PauserProofs` | types, ownership of pauses, `PauseService` | proofs |
| `Failover` | `Run` and its environment, on `EtcdLock` | composition |
| `FailoverPipeline` | the coordinator implements `Pipeline` | refinement |
| `MCFailover` | symmetry | checking |
| `TimedFailover` | the time-outs of one failover and its pausers, on a clock | composition |
| `MCTimedFailover` | settings of the time-outs | checking |
| `TimedFailoverProofs` | types, bounds on outages, the traffic held, the cleanup | proofs |
| `FailoverProofs` | types, exclusion, traffic, interval, success, restore, `FollowsPipeline` | proofs |
| `AlgorithmProofs` | deferred actions of any pipeline, the health check of any document | proofs |
| `Stream` | `stream.go`, `Tap`, `RevisionFilter` | component |
| `Recovery` | `NotifyRecovered` and `Failkeeper`'s wait, on `Stream` | composition |
| `WatchActor` | what supervise's watch promises the rest of the command | abstract specification |
| `Supervise` | `RetryFold` and supervise's operation, on `Stream` | composition, implements `WatchActor` |
| `StreamProofs` | lemmas about `Stream`; of `Supervise`: types, order of documents, skips, `WatchActor`; of `Recovery`: types, success on the newest document | proofs |
| `SuperviseChild` | run group, PgBouncer child and drain, on `WatchActor` | composition |
| `MCSuperviseChild` | which client uses which database | checking |
| `SuperviseChildProofs` | types, orphans | proofs |

A definition named `...Off...`, `...Unscheduled`, `...NoTimeout` and the like,
introduced as a "mutated form", is not part of a specification. It is the
definition that follows it with a plausible mistake, and shows what the
properties rest on: with it in place a property fails.

**Clusterdata.** A document is its master UID, its DBs and the minimum of
synchronous standbys. Indexing a Go map with a UID it does not hold gives the
zero `DB`, which `DB` reproduces; a dummy external standby therefore counts as
an unhealthy one. `CheckHealthy` returns the error as a string, `""` for none.

**Pauser.** One action for each point at which a handler, a goroutine or PgBouncer
can be overtaken. `Receive` is the handler up to its connection, `SendPause` the
statement reaching PgBouncer, `Drained` PgBouncer's answer, `Grant` the handler
reading the answer in time, `GiveUp` its context ending first (which leaves the
driver's cancel request to be sent), `ExpiryResume` the goroutine that sleeps
until the expiry. `held` and `excuse` are history variables: which granted
pauses nobody has lifted, and why a pause may lack an owner.

**Failover.** `pc[c]` is the point coordinator `c` has reached in `Run`. A step
that waits for etcd, for a pauser or for time is split there: `shortenGet`,
`shortenPut` and `shortenSleep` are one Go function. `AfterFailure` says which
deferred action runs first when a step fails. `ctx[c]` covers the two contexts:
`done` is `ctx` ended, `expired` is `deferCtx` ended too. `snap[c]` is the
document read and not yet written back. A write that reports an error may have
happened (`ShortenPut`, `LockPut`, `FailExec`). `sighted` holds the clients
whose stream has delivered a document that satisfies `NotifyRecovered`. The
document's health is one of three levels, defined by what `Clusterdata` says of
it: `tolerant` (`CheckHealthy(1)` passes), `ready` (only the health conditions of
the recovery predicate hold), `down`. A document may have no master (`NoKeeper`), as
one has after `stolonctl init`. Pausers are reduced to `pool`, whether a node's traffic
is blocked, and to `Lifted`, by which a blocked node may flow again at any time;
`Pauser` models what is inside. A Pause call that its coordinator no longer waits for,
because its context ended or it was killed, may still be with its pauser (`stray`) and
block the node later, after the deferred `Resume` too (`StrayPause`).

**WithLock.** `pc[c]` is where the process is, `ran` who has started its command,
`exit` the status. A first signal ends `ctx`, and with it the wait for the lock or the
command; a second one panics in the goroutine of the signal handler
(`SecondSignal`): the Go runtime exits with status 2, and no deferred call is made.
A kill leaves no status. A command may go on after its process was killed or
panicked, and `Running` counts it. A command that cannot be started has status 3
like one that fails. The lock may be left behind by an `Unlock` that fails, the one
in `Mutex.Lock` after a time-out included.

**TimedFailover.** One coordinator, from the put of the short interval on, its pausers,
and a clock. `opt` is `FailoverOptions`, chosen at first and kept. `Due` is when the
current wait ends at the latest: its own time-out (`Allowed`) or its context
(`ContextEnds`, `ctx` for the steps, `deferCtx` for the deferred actions, none for
`time.Sleep`). `Tick` does not pass what is due, neither of the coordinator nor of a
handler or a scheduled resume, so that all timers fire on time; what happens earlier
is left open. Pausers neither crash nor fail to resume here (`Pauser` has both), and
etcd answers within `RequestTime`. `Never` is a time later than any.

**Stream and Supervise.** A key-value pair is a revision, the position of its
value in `store`. Channels are unbuffered, so that a stage that holds a pair is a
goroutine blocked on its send. A document is its master's address. `fold.kv = 0`
is the nil that a receive from a closed channel yields, which the operation
accepts as nothing to do. `configRev` is a history variable. The configuration
file is truncated (`OpTruncates`) and then written (`OpGenerates`), and a PgBouncer
that boots in between reads what is there. `Supervise` and `Recovery` extend `Stream`
and give its steps a consumer, with `Tapped` saying whether there is a `Tap` in the
pipeline. A value that is neither an address nor `NoMaster` is a document that
cannot be read. The definitions of `Recovery` that have a namesake in `Supervise`
begin with `Wait` (`WaitTypeOK`), so that `StreamProofs` can speak of both. The
watch is opened on the prefix `/`; whether it delivers anything depends on
`--store-prefix`, whose default does not begin with `/` (`WatchMisses`).

**Recovery.** `notifier` is the goroutine of `NotifyRecovered`, `wait` the `select` of
`Failkeeper`, which takes the zero `DB` of a closed channel for an answer
(`AnsweredNothing`) as well as a master (`Answered`). In `Failover` all of this is
`sighted` and three actions; there the time-out ends the wait, here nothing is
assumed of it. The answer is given once, and the goroutines of the stream, whose
sends look at no context, stay as they are.

**SuperviseChild.** `group` is where `run.Group` is: running its actors, or in the
interrupt of the child, which goes through the grace period, `Disable` (a
`SHOW DATABASES`, then a `DISABLE` for each), looks at the connections until there
are none, and kills PgBouncer; then it cancels the watch and waits for both actors.
`child` is the child actor: in its `select`, running the command, returned. The
watch actor takes the steps of `WatchActor` and no others. A first signal ends its
context; a second one, as a kill, is `Crash`, which leaves PgBouncer running as an
`orphan`. `Restart` is a supervisor of processes starting the command again: its own
PgBouncer then finds the socket taken, and its drain talks to the other one. Nothing
ties the grace period to the child: it may still be in its `select` when the drain
begins, and a PgBouncer it would start after `cmdCancel` is not started (`Cancelled`).
`poolMode` is the `pool_mode` of PgBouncer's file: with `session`, which the
repository's own template has, a client keeps its server connection until it leaves
(`linked`); with `transaction` until its query has ended. `pooled` are the databases
with server connections that no client has; `Outstanding`, what the drain waits for,
counts both kinds.

### External behaviour that is assumed

* *PgBouncer*: PAUSE stops new queries and is answered when every server connection
  in use has been given back: at the end of the query or transaction, or of the
  session, as `pool_mode` has it (`busy` in `Pauser`, `Served` in `SuperviseChild`); it
  is refused while a pause is in force, draining or not; RESUME, and the
  cancellation of an admin connection, lift the pause whoever asked for it. PgBouncer
  reads its file when it boots and at RELOAD. It gives up when its socket is in use.
  A disabled database takes no new clients and keeps those it has.
  `current_connections` counts connections to Postgres, in use or in the pool: the
  integration test expects one of a client that has only connected
  (`pgbouncer_test.go:72-94`). One that nobody uses is closed by a pause or, in the
  end, by `server_idle_timeout`. A query held by a pause has none.
* *Processes*: `exec` kills the process it started and no other; PgBouncer outlives
  a supervise that is killed, and a command its `with-lock`. A command whose
  context has ended is not started.
* *etcd*: transactions, puts and gets are atomic; a request that reports an error
  may have been carried out; a lease is renewed while its process runs, unless
  `sessionLost` is allowed; `Unlock` may fail, also the one with which `Mutex.Lock`
  gives up its wait; a request may stay without an answer; keys of the mutex are ordered by create revision.
* *stolon*: the sentinel writes by compare-and-swap; it replaces a master marked as
  failed, by any other keeper; it may also elect by itself, or find the
  cluster initialised anew (`election`).

## 3. What is checked

Passing runs:

| run | question |
|---|---|
| `health_check` | Does `CheckHealthy` pass exactly when the cluster survives the failures asked for, and can the wait after a failover then be satisfied? |
| `pipeline` | Does every pipeline run the deferred actions of the steps it began, once, in reverse? |
| `pauser` | Through overlapping requests, failing resumes, lost cancellations, crashes, stops and clients that go away: can a pause be in force that nobody is going to lift, other than for a named reason, and does the pauser keep the promise of `PauseService`? |
| `with_lock` | Do commands exclude each other, do exit statuses say what ran, is the lock freed? |
| `failover` | With crashes, signals, failing requests and elections: does `Run` follow the pipeline, and does its result go with the steps it took? |
| `failover_faults` | With failing pausers, a degrading cluster and expiring leases: do coordinators with live leases exclude each other, is the interval put back, does traffic flow before the lock is passed on, also when one pauser has paused and the other refused? |
| `timed_failover` | With time-outs that are longer and shorter than each other: is traffic held longer than the expiry, is it held while the keeper is failed and its successor awaited, does a signal leave the time to put the interval back and release the lock? |
| `failover_liveness` | With crashes and signals: does the success of a coordinator that is not asked to stop mean a new master, and does its restore of the interval keep it? Do coordinators return, is the lock freed, whatever the sentinel does and if etcd answers none of the requests that have no time-out? |
| `supervise` | Can an old document overwrite a newer one, can a needed reload be skipped? Does it end up at the last master, with broken watches and watches that deliver nothing, failing polls, writes and reloads, and is the actor what `WatchActor` says? |
| `supervise_child` | Through signals, kills, restarts, pauses, refused statements and a PgBouncer that dies, in session and in transaction pooling: is a PgBouncer left behind, does supervise exit? |
| `recovery` | With broken watches and failing polls: can the wait succeed on an outdated document, can it miss a recovery that stays, does it end with its context? |

A run that finds a disagreement between the code and what the repository says of
it, with the one property that fails:

| run | what the shortest behaviour shows |
|---|---|
| `signal_success` | The end of the context closes the notification channel, and its zero `DB` passes for the new master. |

`CleanupRuns`, in `timed_failover`, holds for any time of the signal if the cleanup
time-out exceeds twice the interval, the resume time-out and three requests to etcd
together (`CleanupFits`); one of the settings checked does so by the least amount.
`RecoveryMeansReplaced`, in `failover_liveness`, is the part of `SuccessMeansReplaced`
that holds: of coordinators that are not asked to stop, also beside one that is. In `failover_faults` leases expire of coordinators
that go on running, too.

Further disagreements met while modelling. Their configurations are kept here
although they are not among the runs that `PROJECT.json` lists; each checks one
property, which fails (`tlc -config SessionLost.cfg MCFailover`), except `HealthDoc`
(`tlc -continue` reports both) and `StaleRead` (take out either of its two properties
to see the other one fail):

| configuration (module) | what the shortest behaviour shows |
|---|---|
| `HealthDoc` (`MCClusterdata`) | `NoMasterIsReported`: `CheckHealthy` compares a `DB` with a `*DB` (`stolon.go:107`): "no master" is never reported. `HealthyAsCommented`: the third condition in the comment of `CheckHealthy` (`stolon.go:102-105`) is the negation of the one in the code. |
| `PauserExpiry` (`MCPauser`) | The goroutine of an expired pause (`server.go:130`) lifts a later pause that has time left. |
| `PauserDrain` (`MCPauser`) | "already suspended/paused" is a success while the first PAUSE still drains (`pgbouncer.go:161`): the second caller is told that traffic has stopped. |
| `PauserResumeError` (`MCPauser`) | The resume at expiry (`server.go:130`), or at boot (`main.go:397`), is tried once; if it fails PgBouncer stays paused, where the comment at `main.go:385-386` says that the pause will eventually be removed. In `PauseService` such a pause is "abandoned". |
| `SessionLost` (`MCFailover`) | Nothing watches the session (`failover.go:80`): a coordinator whose lease expired goes on beside the next. |
| `EmptyInterval` (`MCFailover`) | The interval is cached before its error is looked at (`failover.go:118`), so that the deferred restore writes `""`. |
| `StaleMaster` (`MCFailover`) | The keeper read (`failover.go:293`) is marked as failed later (`failover.go:307`); it may be a standby by then. |
| `EarlyResume` (`MCTimedFailover`) | The wait for a recovery starts its `PauseExpiry` later than the pausers did (`failover.go:316`): traffic flows while the new master is still awaited. |
| `ShortCleanup` (`MCTimedFailover`) | `time.Sleep` (`failover.go:140`) does not look at the context, while the cleanup time-out runs (`main.go:346-350`): with the default time-outs a signal in that sleep leaves no time for the cleanup, and the interval stays short. |
| `StaleRead` (`MCFailover`) | `FailsTolerantCluster`: the health check precedes the wait for the lock (`failover.go:95-98`) and is not repeated. `RestoreKeepsMaster`: the restore reads and puts back the whole document without comparison (`failover.go:160`); an election made in between is undone. |
| `PanicStatus` (`WithLock`) | A second signal panics (`main.go:777`), and a Go program that panics exits with status 2, where the help text at `main.go:83` has "2=no-lock": a caller that tries again on 2 repeats a command that has run, and may run still. |
| `DrainRefused` (`MCSuperviseChild`) | When `Disable` fails (`main.go:474`), the termination handler returns at once and PgBouncer is killed with its connections, where the comment at `main.go:446-447` promises to wait for them. |
| `DrainPaused` (`MCSuperviseChild`) | "no more connections in PgBouncer, shutting down" (`main.go:508`) while clients wait in the queue of a pause: they have no server connection to be counted. |
| `DrainDead` (`MCSuperviseChild`) | A PgBouncer that dies in the drain is asked for its connections for ever, with no interval in between (`main.go:488-495`); supervise does not exit. |
| `OrphanDrained` (`MCSuperviseChild`) | A supervise whose PgBouncer found the socket of an earlier one in use disables the databases of that one. |
| `StreamLeak` (`Recovery`) | A goroutine of the stream that is sending when its consumer has left does not see the end of the context (`stream.go:55`); the wait group at `stream.go:110` is never done. In a wait for recovery that has its answer this is the rule: nobody receives any more. |
| `BlankBoot` (`Supervise`) | The first reload is tried before PgBouncer has started and fails, and its retry writes the configuration again, in place (`pgbouncer.go:64`): PgBouncer may boot on an incomplete file. |
| `LateReload` (`Supervise`) | `lastReloadedAddress` survives a RELOAD that failed for supervise and worked for PgBouncer (`main.go:578`): a document that names the earlier master is then skipped. |

Two more are read off the code and have no behaviour of their own. The watch is
opened on the prefix `/` (`stream.go:49`), and the keys under the default
`--store-prefix`, `stolon/cluster` (`main.go:120`), do not begin with it: the watch
delivers none of their writes, and supervise and the wait for recovery follow their
poll alone. (`Stream` has both kinds of watch, and the properties hold with either.) A
template that cannot be parsed panics in `template.Must` (`pgbouncer.go:82`) and ends
supervise, which otherwise tries a configuration it cannot write again.

`SkipsOnlyWhenThere` holds in `supervise` and fails under `LateReload`: the
difference is a RELOAD that takes effect after its error.

### Bounds, and why they are enough

* *Failover*: two coordinators, two keepers, one node, and two nodes where calls to
  pausers fail (`failover_faults`: one pauser may pause while the other refuses).
  Exclusion and inheritance of a document, an interval or a lease are matters of
  two coordinators; the proofs cover any number. Faults are divided over the runs,
  because each property concerns some of them and all of them at once are out of
  reach; `OneFailoverAtATime`, `FlowsBeforeRelease`, `TypeOK` and `FollowsPipeline` are
  proved under any set of faults (section 4). In `failover_liveness`, with no
  symmetry, the master is the same keeper at first (`OneMasterSpec`): to begin with the
  other one is to rename them. Coordinators run once, so nothing in the module grows without
  bound.
* *TimedFailover*: two nodes, so that one pauser may be late or refuse while the other
  grants. Sixteen settings: a pause that may drain for longer than its expiry, an
  expiry shorter and longer than the steps before the wait, a cleanup time-out that
  fits and one that does not. All time in a failover is bounded by its time-outs, so
  the clock needs no bound.
* *Pauser*: three requests, one of them without expiry, a clock of four ticks with a
  time-out of one and an expiry of two: a second pause can begin before, at and after
  the expiry of the first, and a third one overlap both. Requests come early enough
  to expire, so the end of the clock (`MaxTime`) cuts no task short.
* *Supervise*: two revisions of one key, over two addresses, no master, and an
  unreadable value: enough for a newer document in the poll, an older one in the
  watch and one in the fold, and for a reload that fails. That a master comes back
  takes a third, which is out of reach together with liveness; the safety
  properties are proved for any number of revisions.
* *Recovery*: three revisions, of documents that show a recovery or do not: one that
  does, one that denies it, and one more to succeed on. Proved for any number.
* *SuperviseChild*: two databases with a client each, so that one can be disabled and
  the other not when a statement fails; two starts of supervise, so that the second
  meets the PgBouncer of the first; both pool modes. How many server connections a
  pool has is left out, whether it has any is not. Safety is proved for any number of each.
* *Pipeline*: every pipeline of up to four steps with up to two deferred actions
  each. A run's behaviour depends on nothing but its own pipeline, so one run is enough.
* *WithLock*: three processes: a holder, and two that wait for different keys.
* *Clusterdata*: four DBs, one removed UID and one dummy standby; minimum and
  tolerance up to two: each inequality is met at its boundary and one off it.

Deadlock is checked for the pauser, whose environment can always move, and for
`TimedFailover`, where a state whose clock cannot go on would be one; in the
other modules processes end and writes are bounded, so `CHECK_DEADLOCK FALSE`; that
they do not stop earlier is what the liveness properties say. Where a run declares
symmetry it checks invariants and action properties only.

### Fairness, and what in the code justifies it

* *Coordinator* (`Failover`): weak fairness of each coordinator's steps but those that
  wait for an answer of etcd without a time-out. The reads and writes of the document
  are made with `ctx`, or with `deferCtx` in the deferred actions
  (`failover.go:112,133,148,160,167,293`), which nothing ends until there is a signal:
  `Unbounded` names the points where one of these is under way and its context lives,
  no fairness is assumed there, and `Terminates` and `LockIsFreed` except a coordinator that
  stays there for ever. The other waits have an end of their own: `--health-check-timeout`,
  `--lock-timeout` for the lock and for its release, the deadlines of the pause and resume calls,
  `--stolonctl-timeout`, `PauseExpiry` for the recovery, `time.Sleep`; after a signal,
  `--cleanup-timeout`. Which way a wait ends is left open. Leases of dead processes
  expire (etcd). Nothing is assumed of the sentinel, of pausers or of signals.
* *Pauser*: time passes, goroutines run, a supervisor of processes starts the pauser
  again. Nothing is assumed of clients, queries or the operator: the refinement
  holds with a query that never ends.
* *WithLock*: the `--timeout` ends the wait for the lock, and the lease of a process that
  is gone expires. A command may run for ever, and so may `Unlock`, which is called
  with a context that never ends (`main.go:318`): `LockIsFreed` excepts both.
* *Supervise*: weak fairness of each goroutine. Strong fairness for a poll that
  succeeds, for the two sides of a `select` or an unbuffered send, for generating
  the configuration and for a RELOAD: etcd, the template and PgBouncer work now and
  then. Convergence is for a document whose master stays the same.
* *Recovery*: the same of the stream's goroutines and of etcd. Nothing is assumed of
  `PauseExpiry`: a wait that times out satisfies the properties as well.
* *SuperviseChild*: the actors and the group run, and the watch actor keeps the
  promise of `WatchActor`, which `Supervise` is shown to keep. A PgBouncer that runs
  answers `SHOW DATABASES` now and then, serves who waits when it is not paused, and
  closes a server connection that nobody uses for long (`server_idle_timeout`). Clients
  finish their queries (weak fairness) and leave in the end, though they may begin
  others first (strong fairness); without that no drain of a session pool ends.
  `Exited` names the case in which the code may not end: PgBouncer dies during the
  drain, which then polls the dead one, or, if the child was still in its `select`
  beside an orphan, one whose databases were never disabled.

## 4. What is proved

All theorems hold for any value of the constants that satisfies the named
assumptions of the modules (`PauserAssumption`, `FailoverAssumption`,
`TimedFailoverAssumption`, `StreamAssumption`, `SuperviseAssumption`,
`RecoveryAssumption`, `SuperviseChildAssumption`, `WithLockAssumption`,
`PipelinesAssumption`, `ClusterdataAssumption`): any
number of requests, clients, keepers, nodes, databases, writes and restarts, any
pipelines, documents and settings of the time-outs, and any set of faults unless a
theorem names those it excludes. Each one rests on an inductive invariant, `IInv` or
the parts named below, shown to hold initially, to be kept by every action, and to
imply the property.

`PauserProofs`
: `TypeCorrect`, whose invariant also says that an active pool has no holders and
  that a task belongs to the handler that left it; and `PauseIsOwned`
  (`NoSilentLeak`): while the pauser runs, a pause in force has a handler that will
  answer for it, a task that will lift it, or a named excuse. It is inductive
  beside the type invariant, whose second half it needs: an active pool has no
  excuse left over from an earlier pause.
: `ImplementsService`: the safety half of `ServiceSpec`, one step for each action of
  the pauser: it maps to a step of `PauseService` or to none. It rests on `NoSilentLeak`,
  by which the duty to release traffic has somebody to pass to, and on
  `HandlersAreUp`: no handler outlives its process, so that a PAUSE which takes
  effect is the duty of one that is up.

`EtcdLockProofs`
: `LockExcludes`: of the clients with live leases one at most holds the lock. The
  property alone is not inductive. `LockInv` adds that a key in etcd has the
  revision its client remembers and is missing only when the client gave it up or
  lost its lease (`KeyIsRemembered`), that a revision is handed out once
  (`RevisionsAreUnique`), and that no key in etcd is older than the one an owner
  remembers (`OwnerIsOldest`).

`WithLockProofs`
: `TypeCorrect`; `CommandsExclude` (`OneCommandAtATime`), from `LockInv` and that a
  process whose command runs owns the lock (`CommandsOwn`), also once the process was
  killed and its command goes on; `StatusIsTrue`
  (`StatusTellsWhatRan`): status 0 says that the command was started, 2 that it was
  not unless the process panicked.

`FailoverProofs`
: `TypeCorrect`; `SnapHeld` is needed, because a write puts back a document that was
  read: `snap` holds one wherever a write comes next.
: `FailoversExclude` (`OneFailoverAtATime`), under every fault. Each step of the
  system is a step of the lock or leaves it alone (`LockStep`), so `LockInv` holds
  here; `CriticalOwns` says that a coordinator between `AcquireLock` and
  `ReleaseLock` owns the lock.
: `TrafficFlowsBeforeRelease` (`FlowsBeforeRelease`), under every fault.
  `CallsFollowSteps` says which calls a coordinator has under way where,
  `BlockedIsOwed` that a node is blocked only where somebody called and has not
  resumed, `ResumedFlows` that what the holder of the lock has resumed is blocked again
  only by one that goes on without its lease. With exclusion, what is left of a blocked
  node when the holder is past its deferred `Resume` are the cases the property names.
: `IntervalIsRestored` (`IntervalRestored`), where an interval is configured, no
  request to etcd fails and nobody is asked to stop; failing pausers, a degrading
  cluster and elections are allowed, and the property makes no claim once somebody
  was killed or lost its lease. `IntervalIsKept`: a coordinator that may have
  shortened the interval remembers the configured one, and where there is none the
  document has it. The theorem leans on exclusion (nobody else caches the
  short interval in between) and on contexts staying live (no deferred write is
  refused).
: `SuccessIsReplacement` (`RecoveryMeansReplaced`) and `RestoreKeepsMasterReplaced`
  (`RestoreKeepsRecovery`), if no lease is lost and the sentinel elects only to replace
  a keeper that is marked as failed; crashes, signals to any coordinator, failing
  requests, failing pausers and a degrading cluster are allowed. `ReplacementInv`:
  while a coordinator waits for the recovery the only keeper that can be marked is its
  target, so that what it sights is a replacement; and from then until the document is
  put back nothing is marked that would move the master again. It leans on exclusion:
  one coordinator between `Failkeeper` and the restore. Neither condition is for
  convenience: TLC finds a behaviour against each of the two properties with
  expiring leases alone, and with elections alone.
: `ImplementsPipeline` (`FollowsPipeline`): a coordinator is a run of `Pipeline`.
  One lemma for each kind of move (`MoveWithin` a step, `MoveOn` to the next,
  `MoveBack` to the deferred actions, `MoveOff` one of them, `MoveToDeath`) shows
  which pipeline step it is; `PipelineSeen` assigns every action its kind.

`TimedFailoverProofs`
: `TypeCorrect`; `OutagesAreBounded` (`OutageIsBounded`), `FailedWhileHeld`
  (`HeldThroughFailover`) and `CleanupsRun` (`CleanupRuns`), for any nodes and any
  settings. `ClockInv` bounds when `Run` gets to each of its waits by the sum of what the
  waits before it are allowed (`Reached`), `NodeInv` ties what a node holds and when its
  resume is due to when its pauser received the request, `HeldInv` says that a granted
  pause is in force until its expiry as long as the coordinator has not resumed, and
  `SignalInv` bounds each wait after a signal by the waits since (`Delay`). The one
  assumption that is not the code's own is that `Never`, which stands for no time at
  all, is later than the sum of a setting's time-outs.

`AlgorithmProofs`
: `DefersUnwind` (`LastInFirstOut`) and `DefersAreComplete` (`DeferredOfBegunSteps`),
  for any pipelines whose actions are named by their place (`PipelinesAssumption`). The
  properties speak of runs that have ended; the invariant (`RunInv`) of one that is
  under way: what is on the stack and what has run are each in falling order, the
  stack is before all that has run, and together they are the deferred actions of the
  steps begun. No induction is needed: `defer` puts the reverse of a sequence before
  another one, and a deferred action takes one element off.
: `HealthCheckDecides`: for every document in which keepers have one DB each and the
  standbys of the master are other DBs without repetition (`WellFormed`), and every
  `k`, `CheckHealthy` passes exactly when the cluster tolerates the loss of any `k`
  standbys (`Tolerates`). The code counts positions in a list and entries in a map, the
  definition counts keepers; bijections relate them (`SynchronousCount`,
  `StandbyCount`), and a set has subsets of all sizes up to its own (`AtLeastIs`).
  `HealthyCanRecover`: after a check for one failure or more, any healthy standby can
  be promoted so that the predicate of `NotifyRecovered` holds.
: `VerdictIsTolerance` (`HealthyMeansTolerant`) and `FailoversCanRecover`
  (`FailoverCanRecover`) say the same of the documents of the run, for any number of
  DBs and any bounds, by way of `DocumentsWellFormed`.

`StreamProofs`
: of `Stream`, lemmas: a step of it keeps its types and the order of revisions, whatever
  its consumer is.
: of `Supervise`: `TypeCorrect`;
  `ConfigurationMovesForward` (`NeverRollsBack`), for which the invariant says that
  the revision configured is not newer than `last`, that the filter holds a newer
  pair or none, and that the fold works on `last` or on nil; `SkipsAreSafe`
  (`SkipsOnlyWhenThere`), if a RELOAD that reports an error has had no effect: then
  `lastReloadedAddress`, once set, is where PgBouncer is (`ReloadedIsRoute`);
  `ImplementsWatchActor`, the safety half of `WatchActorSpec`.
: of `Recovery`: `WaitTypeCorrect` (`WaitTypeOK`); `SucceedsOnNewest`
  (`NewerThanRejected`): what the notifier passed over is not newer than `last`, and
  what it holds is `last`.

`SuperviseChildProofs`
: `TypeCorrect`; `NoOrphanIsLeft` (`LeavesNoOrphan`): the group does not exit before
  the child has returned, and the child does not return while its PgBouncer runs.

Only model-checked: what has to do with liveness or fairness (`Terminates`,
`LockIsFreed`, `Converges`, `Exited`, `RecoveryIsTold`,
`WaitEndsWithContext`, the liveness halves of `ServiceSpec` and `WatchActorSpec`),
which the prover does not handle. Every safety property of a passing run is a theorem,
for some of them on the conditions named above.

## 5. Limits of the models

* Requests, documents and addresses are values; formatting, logging, TLS, JSON
  decoding and metrics are left out.
* `Failover` has no clock, and `TimedFailover` no second coordinator and no faults but
  the signal and pausers that are late: that the two agree is by their common labels,
  not by a refinement.
* The nodes of a failover are fixed. A keeper that joins after the coordinator read
  the document is not paused by the code either; it is not in the model.
* `Supervise` knows a configuration file that is complete or not; what PgBouncer
  makes of an incomplete one is left out (`route` is then `None`).
* `SuperviseChild` composes with the promise of the watch (`WatchActor`), not with
  `Supervise` itself; what they share beyond it is PgBouncer, whose route does not
  matter to the drain.
* The unsynchronised write of `result` in `EachClient` is taken to lose no error
  altogether: whichever goroutine wrote last, the call fails.
* Connections to PgBouncer's admin console are never closed by the executor; they
  are not counted.

## 6. What remains

1. A refinement from `TimedFailover` to `Failover` with one coordinator, and from
   `Pauser` to the pausers of both.
2. Keepers that join or leave during a failover.
3. An abstract specification of the lock: an owner, or nobody.
4. What replaces a master when a lease is lost: a statement about a coordinator whose
   session has ended that is weaker than `SuccessMeansReplaced` and holds.

## 7. Not modelled, and why

* `pkg/etcd/updater.go`: one compare-and-update transaction that no command uses.
* `DedupeFilter`: used by no command.
* `Config` and `Connect` of the PgBouncer wrapper: they read a file and try a
  connection, and change nothing.
* `status`, metrics, authentication, gRPC stubs, TLS and store set-up: they read,
  print, compare a token or run before anything else does.
* Acceptance tests and images: read for what they expect of the program.
