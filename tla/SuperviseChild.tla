--------------------------- MODULE SuperviseChild ----------------------------
(***************************************************************************)
(* The PgBouncer child of the supervise command and its termination        *)
(* (cmd/stolon-pgbouncer/main.go). Two actors run in a group: one runs     *)
(* PgBouncer, the other is the watch, of which only WatchActor is known    *)
(* here. When one of them returns, the group interrupts the child, which   *)
(* disables PgBouncer's databases, waits for their connections and kills   *)
(* the process; then it interrupts the watch and waits for both. A         *)
(* supervisor of processes may start the command again, and finds the      *)
(* PgBouncer of a supervise that died.                                     *)
(***************************************************************************)
EXTENDS Naturals, FiniteSets

CONSTANTS
    Client,     \* clients of PgBouncer
    Database,   \* databases of its configuration
    Uses,       \* Uses[c]: the database client c connects to
    PoolModes,  \* pool modes PgBouncer may be configured with
    MaxStarts,  \* bound: how often supervise is started
    Faults      \* "stop": supervise is asked to terminate; "crash": it is killed,
                \* or gets a second signal; "dies": PgBouncer dies by itself;
                \* "refuse": a DISABLE or SHOW DATABASES fails; "pause": the
                \* pauser pauses PgBouncer

ASSUME SuperviseChildAssumption ==
    /\ Database # {}
    /\ Uses \in [Client -> Database]
    /\ PoolModes \subseteq {"session", "transaction"}
    /\ MaxStarts \in Nat \ {0}
    /\ Faults \subseteq {"stop", "crash", "dies", "refuse", "pause"}

VARIABLES
    ctxDone, keeperHost, returned,  \* those of WatchActor
    child,      \* the child actor: in its select, running PgBouncer, returned
    group,      \* where run.Group is; "exited" when there is no supervise
    left,       \* databases Disable has still to disable
    pgbouncer,  \* "off", "ours", or "orphan": of a supervise that died
    disabled,   \* databases PgBouncer accepts no new clients for
    paused,     \* PgBouncer is paused
    poolMode,   \* pool_mode of its configuration
    client,     \* what each client is doing; "linked": nothing, with a server
                \* connection of its own
    pooled,     \* databases with server connections that are nobody's
    starts,     \* how often supervise has been started
    crashed     \* history: a supervise has been killed

Watch == INSTANCE WatchActor

watchVars == <<ctxDone, keeperHost, returned>>
pgbouncerVars == <<pgbouncer, disabled, paused, poolMode>>
clientVars == <<client, pooled>>
vars == <<watchVars, child, group, left, pgbouncerVars, clientVars, starts, crashed>>

Interrupts == {"grace", "list", "disable", "look", "sleep", "kill", "cancel", "wait"}

TypeOK ==
    /\ ctxDone \in BOOLEAN /\ keeperHost \in BOOLEAN /\ returned \in BOOLEAN
    /\ child \in {"select", "running", "returned"}
    /\ group \in {"actors", "exited"} \cup Interrupts
    /\ left \subseteq Database /\ (left # {} => group = "disable")
    /\ pgbouncer \in {"off", "ours", "orphan"}
    /\ disabled \subseteq Database
    /\ paused \in BOOLEAN
    /\ poolMode \in PoolModes
    /\ client \in [Client -> {"out", "idle", "queued", "working", "linked"}]
    /\ pooled \subseteq Database
    /\ starts \in 0..MaxStarts /\ crashed \in BOOLEAN
    /\ pgbouncer = "ours" => child = "running"

Up == pgbouncer # "off"

Init ==
    /\ Watch!Init
    /\ child = "select" /\ group = "actors" /\ left = {}
    /\ pgbouncer = "off" /\ disabled = {} /\ paused = FALSE
    /\ poolMode \in PoolModes
    /\ client = [c \in Client |-> "out"] /\ pooled = {}
    /\ starts = 1 /\ crashed = FALSE

-----------------------------------------------------------------------------
\* The process is gone, and its connections, its pause and what it disabled.
PgBouncerEnds ==
    /\ pgbouncer' = "off"
    /\ disabled' = {}
    /\ paused' = FALSE
    /\ client' = [c \in Client |-> "out"]
    /\ pooled' = {}
    /\ UNCHANGED poolMode

\* The child actor is asked to terminate before it started PgBouncer.
ChildDeclines ==
    /\ group # "exited"
    /\ child = "select"
    /\ ctxDone
    /\ child' = "returned"
    /\ UNCHANGED <<watchVars, group, left, pgbouncerVars, clientVars, starts, crashed>>

\* Mutated form: the command is started and not waited for.
ChildStarts ==
    /\ group # "exited"
    /\ child = "select"
    /\ keeperHost
    /\ child' = "returned"
    /\ pgbouncer' = IF pgbouncer = "off" THEN "ours" ELSE pgbouncer
    /\ UNCHANGED <<watchVars, group, left, disabled, paused, poolMode, clientVars, starts, crashed>>

\* cmdCancel has been called: exec starts nothing any more.
Cancelled == group \in {"cancel", "wait"}

\* It runs PgBouncer; of two branches that are ready a select takes either. A
\* PgBouncer that finds another one on its socket gives up.
ChildBoots ==
    /\ group # "exited"
    /\ child = "select"
    /\ keeperHost
    /\ IF pgbouncer = "off" /\ ~ Cancelled
       THEN child' = "running" /\ pgbouncer' = "ours"
       ELSE child' = "returned" /\ UNCHANGED pgbouncer
    /\ UNCHANGED <<watchVars, group, left, disabled, paused, poolMode, clientVars, starts, crashed>>

\* cmd.Run returns.
ChildReturns ==
    /\ child = "running"
    /\ pgbouncer # "ours"
    /\ child' = "returned"
    /\ UNCHANGED <<watchVars, group, left, pgbouncerVars, clientVars, starts, crashed>>

Child == ChildDeclines \/ ChildBoots \/ ChildReturns

-----------------------------------------------------------------------------
Goto(label) ==
    /\ group' = label
    /\ UNCHANGED <<watchVars, child, left, pgbouncerVars, clientVars, starts, crashed>>

\* PgBouncer after its supervise is gone.
Abandoned == IF pgbouncer = "ours" THEN "orphan" ELSE pgbouncer

\* Mutated form: the group returns when its first actor does.
FirstReturnsAlone ==
    /\ group = "actors"
    /\ child = "returned" \/ returned
    /\ group' = "exited"
    /\ child' = "returned"
    /\ pgbouncer' = Abandoned
    /\ UNCHANGED <<watchVars, left, disabled, paused, poolMode, clientVars, starts, crashed>>

\* The first actor to return has the child interrupted.
FirstReturns ==
    /\ group = "actors"
    /\ child = "returned" \/ returned
    /\ Goto("grace")

\* The grace period, and the interval between two looks.
Sleeps ==
    \/ group = "grace" /\ Goto("list")
    \/ group = "sleep" /\ Goto("look")

\* Disable asks which databases there are.
Lists ==
    /\ group = "list"
    /\ Up
    /\ group' = "disable"
    /\ left' = Database
    /\ UNCHANGED <<watchVars, child, pgbouncerVars, clientVars, starts, crashed>>

\* Mutated form: Disable is done after its first database.
DisablesFirst(d) ==
    /\ group = "disable"
    /\ d \in left
    /\ Up
    /\ disabled' = disabled \cup {d}
    /\ left' = {}
    /\ group' = "look"
    /\ UNCHANGED <<watchVars, child, pgbouncer, paused, poolMode, clientVars, starts, crashed>>

Disables(d) ==
    /\ group = "disable"
    /\ d \in left
    /\ Up
    /\ disabled' = disabled \cup {d}
    /\ left' = left \ {d}
    /\ group' = IF left = {d} THEN "look" ELSE "disable"
    /\ UNCHANGED <<watchVars, child, pgbouncer, paused, poolMode, clientVars, starts, crashed>>

\* Disable fails, maybe half-way: the handler returns, and PgBouncer is killed.
\* A statement that timed out may have been obeyed.
DisableFails ==
    /\ group \in {"list", "disable"}
    /\ \/ ~ Up /\ UNCHANGED disabled
       \/ Up /\ "refuse" \in Faults /\ \E d \in SUBSET left :
            Cardinality(d) <= 1 /\ disabled' = disabled \cup d
    /\ group' = "kill"
    /\ left' = {}
    /\ UNCHANGED <<watchVars, child, pgbouncer, paused, poolMode, clientVars, starts, crashed>>

\* Clients with a server connection.
Served == {c \in Client : client[c] \in {"working", "linked"}}

\* Databases whose current_connections are not zero: server connections, also
\* those in the pool that nobody has.
Outstanding == {Uses[c] : c \in Served} \cup pooled

\* ShowDatabases finds connections. (When it fails the handler looks again at
\* once, for as long as it fails: no step.)
LooksBusy ==
    /\ group = "look"
    /\ Up
    /\ Outstanding # {}
    /\ Goto("sleep")

LooksIdle ==
    /\ group = "look"
    /\ Up
    /\ Outstanding = {}
    /\ Goto("kill")

\* The deferred cmdCancel: exec kills the process it started.
Kill ==
    /\ group = "kill"
    /\ group' = "cancel"
    /\ IF pgbouncer = "ours" THEN PgBouncerEnds ELSE UNCHANGED <<pgbouncerVars, clientVars>>
    /\ UNCHANGED <<watchVars, child, left, starts, crashed>>

\* The interrupt of the watch.
CancelsWatch ==
    /\ group = "cancel"
    /\ ctxDone' = TRUE
    /\ group' = "wait"
    /\ UNCHANGED <<keeperHost, returned, child, left, pgbouncerVars, clientVars, starts, crashed>>

\* Both actors have returned: the command is done.
Exits ==
    /\ group = "wait"
    /\ child = "returned"
    /\ returned
    /\ group' = "exited"
    /\ UNCHANGED <<watchVars, child, left, pgbouncerVars, clientVars, starts, crashed>>

Group ==
    \/ FirstReturns \/ Sleeps \/ Lists \/ DisableFails \/ LooksBusy \/ LooksIdle
    \/ Kill \/ CancelsWatch \/ Exits \/ (\E d \in Database : Disables(d))

-----------------------------------------------------------------------------
\* The watch actor, as WatchActor has it, while there is a process.
OfWatch(Action) ==
    /\ group # "exited"
    /\ Action
    /\ UNCHANGED <<child, group, left, pgbouncerVars, clientVars, starts, crashed>>

Signal == "stop" \in Faults /\ OfWatch(Watch!Cancel)

\* Killed, or a second signal: PgBouncer stays.
Crash ==
    /\ "crash" \in Faults
    /\ group # "exited"
    /\ group' = "exited"
    /\ child' = "returned" /\ left' = {} /\ crashed' = TRUE
    /\ pgbouncer' = Abandoned
    /\ UNCHANGED <<watchVars, disabled, paused, poolMode, clientVars, starts>>

Restart ==
    /\ group = "exited"
    /\ starts < MaxStarts
    /\ starts' = starts + 1
    /\ ctxDone' = FALSE /\ keeperHost' = FALSE /\ returned' = FALSE
    /\ child' = "select" /\ group' = "actors"
    /\ UNCHANGED <<left, pgbouncerVars, clientVars, crashed>>

-----------------------------------------------------------------------------
\* PgBouncer, its clients and its pauser.
PgBouncerDies ==
    /\ "dies" \in Faults
    /\ Up
    /\ PgBouncerEnds
    /\ UNCHANGED <<watchVars, child, group, left, starts, crashed>>

Becomes(c, state) == client' = [client EXCEPT ![c] = state]

\* The first login to a database has PgBouncer open a server connection.
Connects(c) ==
    /\ client[c] = "out"
    /\ Up
    /\ Uses[c] \notin disabled
    /\ Becomes(c, "idle")
    /\ \/ UNCHANGED pooled
       \/ ~ paused /\ pooled' = pooled \cup {Uses[c]}

\* A query gets a server connection: the client's, one of the pool, maybe the
\* last, or a new one. A paused PgBouncer makes it wait.
Asks(c) ==
    /\ client[c] \in {"idle", "queued", "linked"}
    /\ client[c] # "linked" => ~ paused
    /\ Becomes(c, "working")
    /\ \/ UNCHANGED pooled
       \/ client[c] # "linked" /\ pooled' = pooled \ {Uses[c]}

Queues(c) ==
    /\ client[c] = "idle"
    /\ paused
    /\ Becomes(c, "queued")
    /\ UNCHANGED pooled

\* In session pooling a client keeps its server connection until it leaves.
Finishes(c) ==
    /\ client[c] = "working"
    /\ IF poolMode = "session"
       THEN Becomes(c, "linked") /\ UNCHANGED pooled
       ELSE Becomes(c, "idle") /\ pooled' = pooled \cup {Uses[c]}

Leaves(c) ==
    /\ client[c] \in {"idle", "linked"}
    /\ Becomes(c, "out")
    /\ pooled' = IF client[c] = "linked" THEN pooled \cup {Uses[c]} ELSE pooled

\* server_idle_timeout.
PoolEmpties(d) == d \in pooled /\ pooled' = pooled \ {d} /\ UNCHANGED client

OfClients(Action) ==
    /\ Action
    /\ UNCHANGED <<watchVars, child, group, left, pgbouncerVars, starts, crashed>>

Clients ==
    \/ \E c \in Client :
        OfClients(Connects(c) \/ Asks(c) \/ Queues(c) \/ Finishes(c) \/ Leaves(c))
    \/ \E d \in Database : OfClients(PoolEmpties(d))

\* The pauser has PgBouncer paused once it has got every server connection
\* back, which it closes, and resumed.
Pauses ==
    /\ "pause" \in Faults
    /\ Up
    /\ Served = {} \/ paused
    /\ paused' = ~ paused
    /\ pooled' = IF paused THEN pooled ELSE {}
    /\ UNCHANGED <<watchVars, child, group, left, pgbouncer, disabled, poolMode, client, starts, crashed>>

Next ==
    \/ Child \/ Group \/ OfWatch(Watch!ReceivesHost) \/ OfWatch(Watch!Returns)
    \/ Signal \/ Crash \/ Restart \/ PgBouncerDies \/ Clients \/ Pauses

Spec == Init /\ [][Next]_vars

\* Goroutines run, and the watch actor keeps its promise. A PgBouncer that runs
\* answers now and then, serves who waits and closes idle server connections;
\* its clients finish their queries, and leave.
Fairness ==
    /\ WF_vars(OfWatch(Watch!Returns))
    /\ WF_vars(Child) /\ WF_vars(Group) /\ SF_vars(LooksIdle)
    /\ \A c \in Client :
        /\ WF_vars(client[c] = "queued" /\ OfClients(Asks(c)))
        /\ WF_vars(OfClients(Finishes(c)))
        /\ SF_vars(OfClients(Leaves(c)))
    /\ \A d \in Database : WF_vars(OfClients(PoolEmpties(d)))

FairSpec == Spec /\ Fairness

-----------------------------------------------------------------------------
\* "Whatever happens, once we exit this block we want to terminate the
\* PgBouncer process" (main.go): a PgBouncer without its supervise is what is
\* left of a supervise that was killed.
LeavesNoOrphan == pgbouncer = "orphan" \/ (group = "exited" /\ Up) => crashed

\* The drain may not end: it asks a PgBouncer that has died for ever, or one
\* that has been started since the databases of another were disabled.
DiesInDrain == group \in {"disable", "look", "sleep"} /\ ~ Up

\* A supervise that is asked to stop, or whose PgBouncer is gone, exits, once
\* the clients have left and PgBouncer has closed their server connections,
\* unless PgBouncer dies during a drain.
Exited ==
    \/ <>DiesInDrain
    \/ ctxDone \/ child = "returned" ~> group = "exited"

-----------------------------------------------------------------------------
\* "Ensures we only quit PgBouncer once all connections have finished their
\* work" (main.go): PgBouncer is killed under nobody whose query it holds.
KillsNoWork ==
    [][Kill /\ pgbouncer = "ours" => \A c \in Client : client[c] \notin {"working", "queued"}]_vars

\* "no more connections in PgBouncer, shutting down" (main.go): no client is
\* waiting for an answer then.
IdleMeansIdle == [][LooksIdle => \A c \in Client : client[c] # "queued"]_vars

\* Asked to stop, supervise exits once the clients have left.
DrainEnds == ctxDone ~> group = "exited"

\* The termination handler is that of the PgBouncer this supervise started.
DisablesOwn == [][disabled' \subseteq disabled \/ pgbouncer = "ours"]_vars

=============================================================================
