----------------------------- MODULE Supervise ------------------------------
(***************************************************************************)
(* The watch actor of the supervise command (cmd/stolon-pgbouncer/main.go):*)
(* RetryFold (pkg/streams/fold.go) takes the clusterdata documents that    *)
(* module Stream delivers and runs one operation on each, which generates  *)
(* PgBouncer's configuration for the document's master and reloads it.     *)
(* A document is the address of its master, or NoMaster; any other value   *)
(* cannot be read.                                                         *)
(***************************************************************************)
EXTENDS Stream

\* Faults here: "config": the template is refused; "write": the configuration is
\* cut short; "reload": a RELOAD fails; "lateReload": it fails, and PgBouncer
\* obeys it; "stop": supervise is asked to terminate.
CONSTANTS
    Address,    \* listen addresses of keepers
    NoMaster,   \* a document with no master, or one that listens nowhere
    None        \* no address: lastReloadedAddress at first, no file, no process

ASSUME SuperviseAssumption ==
    /\ Address \subseteq Value
    /\ None \notin Value \cup {NoMaster}
    /\ NoMaster \notin Address

VARIABLES
    fold,               \* [at, kv] RetryFold and its operation; 0: nil
    lastReloadedAddress,
    config,             \* the address in PgBouncer.ConfigFile; None: no complete file
    configRev,          \* history: the revision config was generated from
    pgbouncer,          \* "off", "starting" (it may boot), or "up"
    route               \* the address PgBouncer sends connections to

Actor == INSTANCE WatchActor
            WITH keeperHost <- pgbouncer # "off", returned <- fold.at = "returned"

foldVars == <<fold, lastReloadedAddress, config, configRev, pgbouncer, route>>
vars == <<streamVars, foldVars>>

Addresses == Address \cup {None}

TypeOK ==
    /\ StreamTypeOK
    /\ fold \in [at : {"receive", "run", "write", "reload", "retry", "returned"}, kv : 0..MaxRev]
    /\ lastReloadedAddress \in Addresses
    /\ config \in Addresses
    /\ configRev \in 0..MaxRev
    /\ pgbouncer \in {"off", "starting", "up"}
    /\ route \in Addresses

Init ==
    /\ StreamInit
    /\ fold = [at |-> "receive", kv |-> 0]
    /\ lastReloadedAddress = None
    /\ config = None
    /\ configRev = 0
    /\ pgbouncer = "off"
    /\ route = None

-----------------------------------------------------------------------------
At(label) == fold' = [fold EXCEPT !.at = label]

\* Mutated form: a retry does not look at the stream.
FoldReceivesWhenDone ==
    /\ fold.at = "receive"
    /\ fold' = [at |-> "run", kv |-> filter]
    /\ Receive
    /\ UNCHANGED <<lastReloadedAddress, config, configRev, pgbouncer, route>>

\* RetryFold: the next document, in the range loop or instead of a retry.
FoldReceives ==
    /\ fold.at \in {"receive", "retry"}
    /\ fold' = [at |-> "run", kv |-> filter]
    /\ Receive
    /\ UNCHANGED <<lastReloadedAddress, config, configRev, pgbouncer, route>>

\* The stream is closed: the range loop ends, a wait for a retry receives nil.
FoldCloses ==
    /\ Closed
    /\ \/ fold.at = "receive" /\ At("returned")
       \/ fold.at = "retry" /\ fold' = [at |-> "run", kv |-> 0]
    /\ UNCHANGED <<streamVars, lastReloadedAddress, config, configRev, pgbouncer, route>>

FoldRetries ==
    /\ fold.at = "retry"
    /\ At("run")
    /\ UNCHANGED <<streamVars, lastReloadedAddress, config, configRev, pgbouncer, route>>

Document(kv) == IF kv = 0 THEN None ELSE store[kv]

\* Mutated form: nil is not expected.
NothingToDoUnlessNil(kv) ==
    Document(kv) \in {NoMaster, lastReloadedAddress} \ {None}

\* The operation returns at once: nil, no master, or the master of last time.
NothingToDo(kv) ==
    Document(kv) \in {None, NoMaster, lastReloadedAddress}

OpSkips ==
    /\ fold.at = "run"
    /\ NothingToDo(fold.kv)
    /\ At("receive")
    /\ UNCHANGED <<streamVars, lastReloadedAddress, config, configRev, pgbouncer, route>>

\* Unmarshal or GenerateConfig returns an error. (A template that cannot be
\* parsed ends the process, template.Must.)
OpRefuses ==
    /\ fold.at = "run"
    /\ ~ NothingToDo(fold.kv)
    /\ Document(fold.kv) \notin Address \/ "config" \in Faults
    /\ At("retry")
    /\ UNCHANGED <<streamVars, lastReloadedAddress, config, configRev, pgbouncer, route>>

\* GenerateConfig truncates the file it will write.
OpTruncates ==
    /\ fold.at = "run"
    /\ ~ NothingToDo(fold.kv)
    /\ Document(fold.kv) \in Address
    /\ config' = None
    /\ At("write")
    /\ UNCHANGED <<streamVars, lastReloadedAddress, configRev, pgbouncer, route>>

OpWriteFails ==
    /\ fold.at = "write"
    /\ "write" \in Faults
    /\ At("retry")
    /\ UNCHANGED <<streamVars, lastReloadedAddress, config, configRev, pgbouncer, route>>

\* GenerateConfig is done, and signalReceivedKeeperHost called.
OpGenerates ==
    /\ fold.at = "write"
    /\ config' = Document(fold.kv)
    /\ configRev' = fold.kv
    /\ pgbouncer' = IF pgbouncer = "off" THEN "starting" ELSE pgbouncer
    /\ At("reload")
    /\ UNCHANGED <<streamVars, lastReloadedAddress, route>>

\* Reload: PgBouncer reads its configuration file.
OpReloads ==
    /\ fold.at = "reload"
    /\ pgbouncer = "up"
    /\ ~ ctxDone
    /\ route' = config
    /\ lastReloadedAddress' = config
    /\ At("receive")
    /\ UNCHANGED <<streamVars, config, configRev, pgbouncer>>

\* Mutated form: the address is remembered whether or not the reload worked.
OpReloadFailsMarked ==
    /\ fold.at = "reload"
    /\ pgbouncer # "up" \/ ctxDone \/ "reload" \in Faults
    /\ lastReloadedAddress' = config
    /\ At("retry")
    /\ UNCHANGED <<streamVars, config, configRev, pgbouncer, route>>

OpReloadFails ==
    /\ fold.at = "reload"
    /\ \/ (pgbouncer # "up" \/ ctxDone \/ "reload" \in Faults) /\ UNCHANGED route
       \/ pgbouncer = "up" /\ "lateReload" \in Faults /\ route' = config
    /\ At("retry")
    /\ UNCHANGED <<streamVars, lastReloadedAddress, config, configRev, pgbouncer>>

\* The child actor starts PgBouncer, which reads its file. It may do so with
\* the context done: a select takes either of two branches that are ready.
Boot ==
    /\ pgbouncer = "starting"
    /\ pgbouncer' = "up"
    /\ route' = config
    /\ UNCHANGED <<streamVars, fold, lastReloadedAddress, config, configRev>>

-----------------------------------------------------------------------------
Stop ==
    /\ "stop" \in Faults
    /\ ~ ctxDone
    /\ Cancel
    /\ UNCHANGED foldVars

Write(v) == Put(v) /\ UNCHANGED foldVars

Flow == Goroutines /\ UNCHANGED foldVars

Op ==
    \/ OpSkips \/ OpRefuses \/ OpTruncates \/ OpWriteFails \/ OpGenerates
    \/ OpReloads \/ OpReloadFails

Next ==
    \/ Flow \/ FoldReceives \/ FoldCloses \/ FoldRetries \/ Op \/ Boot
    \/ Stop \/ (\E v \in Value : Write(v))

Spec == Init /\ [][Next]_vars

\* Each goroutine runs. A select does not pass over a document for ever, etcd
\* answers now and then, the configuration can be written now and then, and a
\* PgBouncer that runs obeys a reload now and then.
WatchRuns ==
    \/ WatchOpens \/ WatchEvent \/ WatchMisses \/ WatchSend \/ WatchStops
    \/ ctxDone /\ WatchBreaks

PollRuns == PollFails \/ PollAgain \/ PollSend

Fairness ==
    /\ WF_vars(WatchRuns /\ UNCHANGED foldVars)
    /\ WF_vars(PollRuns /\ UNCHANGED foldVars) /\ SF_vars(PollGets /\ UNCHANGED foldVars)
    /\ WF_vars(FilterTake /\ UNCHANGED foldVars)
    /\ WF_vars(Op \/ FoldRetries) /\ SF_vars(FoldReceives \/ FoldCloses)
    /\ SF_vars(OpTruncates) /\ SF_vars(OpGenerates) /\ SF_vars(OpReloads)
    /\ WF_vars(~ ctxDone /\ Boot)

FairSpec == Spec /\ Fairness

-----------------------------------------------------------------------------
\* Whatever order and however often documents arrive, the configuration is
\* never generated from an older document than the one it has: "we only fold
\* our events in their logical order, without duplicates" (main.go).
NeverRollsBack == [][configRev' >= configRev]_vars

\* A document is passed over only when PgBouncer already sends connections to
\* its master: "Only try reloading PgBouncer if the host has really changed"
\* (main.go).
SkipsOnlyWhenThere ==
    [][OpSkips /\ Document(fold.kv) \in Address => route = Document(fold.kv)]_vars

\* "our stolon-pgbouncer supervise processes will ensure we converge on the
\* primary" (README.md): when the document keeps the same master (nobody writes
\* more than MaxRev times) and supervise is not stopped, PgBouncer ends up
\* sending connections there.
Latest == IF store = <<>> THEN NoMaster ELSE store[Len(store)]

Converges == <>[](Latest \in Address /\ ~ ctxDone) => <>[](route = Latest)

\* The watch actor is what the child actor takes it for: it lets PgBouncer boot
\* once, returns only when asked to, and then it does, whatever the stream does.
WatchActorSpec == Actor!Spec

-----------------------------------------------------------------------------
\* "Let the pgbouncer.child know we've got a value, and that it's ok to boot
\* PgBouncer" (main.go): it boots on a complete file.
BootsOnWholeFile == [][Boot => config # None]_vars

=============================================================================
