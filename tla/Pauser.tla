------------------------------- MODULE Pauser -------------------------------
(***************************************************************************)
(* One pauser process (pkg/failover/server.go and the pauser command of    *)
(* cmd/stolon-pgbouncer/main.go) in front of one PgBouncer, reached        *)
(* through pkg/pgbouncer. Pause requests are handled concurrently, each by *)
(* a gRPC handler that sends PAUSE on a connection of its own. A handler   *)
(* may leave a goroutine behind: the one that sleeps until the pause       *)
(* expires and then resumes, or the one in which the Postgres driver       *)
(* cancels a PAUSE whose context is done.                                  *)
(*                                                                         *)
(* PgBouncer itself is external: PAUSE stops new queries, is answered when *)
(* the server connections in use are given back, and is refused while a    *)
(* pause is already in force, draining or not; RESUME and the cancellation *)
(* of any admin connection lift the pause, whoever asked for it.           *)
(***************************************************************************)
EXTENDS Integers

CONSTANTS
    Request,    \* the Pause RPCs clients may send, each once
    Timeout,    \* PauseRequest.Timeout, in ticks of the clock
    Expiry,     \* [Request -> Nat], PauseRequest.Expiry; 0: none is scheduled
    MaxTime,    \* bound on the clock: requests come early enough to expire
    Faults      \* which of the faults below may happen

\* "crash": the pauser dies without notice; "stop": it gets a signal;
\* "cancelLost": PgBouncer never gets the driver's cancel request;
\* "resumeError": a RESUME fails; "clientGone": a client drops its RPC early.
AllFaults == {"crash", "stop", "cancelLost", "resumeError", "clientGone"}

ASSUME PauserAssumption ==
    /\ Timeout \in Nat
    /\ Expiry \in [Request -> Nat]
    /\ MaxTime \in Nat
    /\ Faults \subseteq AllFaults

VARIABLES
    now,        \* clock
    pool,       \* PgBouncer: "active", "draining" or "paused"
    busy,       \* a server connection is in use: by a query or, where sessions
                \* are pooled, by a client
    server,     \* the pauser process: "down", "serving" or "stopping"
    phase,      \* [Request -> Phases] progress of each handler
    createdAt,  \* [Request -> Nat] when the handler started
    task,       \* [Request -> Tasks] goroutine the handler left behind
    held,       \* history: requests granted a pause nobody has lifted since
    excuse      \* history: why the pause in force may lack an owner

vars == <<now, pool, busy, server, phase, createdAt, task, held, excuse>>

Phases == {"unsent", "received", "waiting", "answered", "granted", "failed"}
Tasks == {"none", "expiry", "cancel"}
Excuses == {"noExpiry", "cancelLost", "expiryResumeFailed", "bootResumeFailed"}

TypeOK ==
    /\ now \in Nat
    /\ pool \in {"active", "draining", "paused"}
    /\ busy \in BOOLEAN
    /\ server \in {"down", "serving", "stopping"}
    /\ phase \in [Request -> Phases]
    /\ createdAt \in [Request -> Nat]
    /\ task \in [Request -> Tasks]
    /\ held \subseteq Request
    /\ excuse \subseteq Excuses
    /\ pool = "active" => held = {} /\ excuse = {}
    /\ \A r \in Request : /\ createdAt[r] <= now
                          /\ task[r] = "expiry" => phase[r] = "granted" /\ Expiry[r] > 0
                          /\ task[r] = "cancel" => phase[r] = "failed"

Handling == {r \in Request : phase[r] \in {"received", "waiting", "answered"}}
Deadline(r) == createdAt[r] + Timeout
ExpiresAt(r) == createdAt[r] + Expiry[r]

\* A pause of an earlier incarnation may be in force when the pauser starts.
Init ==
    /\ now = 0
    /\ pool \in {"active", "paused"}
    /\ busy = FALSE
    /\ server = "down"
    /\ phase = [r \in Request |-> "unsent"]
    /\ createdAt = [r \in Request |-> 0]
    /\ task = [r \in Request |-> "none"]
    /\ held = {}
    /\ excuse = {}

-----------------------------------------------------------------------------
\* PgBouncer.Resume: "not paused" counts as success. A failure leaves the
\* pause, and nobody who would try again.
Unpause == /\ pool' = "active"
           /\ held' = {}
           /\ excuse' = {}

Blame(reason) == excuse' = IF pool = "active" THEN excuse ELSE excuse \cup {reason}

LeavePaused(fault, reason) == /\ fault \in Faults
                              /\ Blame(reason)
                              /\ UNCHANGED <<pool, held>>

\* Mutated forms of the actions below, to show what the properties rest on: a
\* boot that does not resume, a grant that schedules nothing, one that schedules
\* the expiry of a pause that has none.
BootNoResume ==
    /\ server = "down"
    /\ server' = "serving"
    /\ UNCHANGED <<now, pool, busy, phase, createdAt, task, held, excuse>>

GrantUnscheduled(r) ==
    /\ phase[r] = "answered"
    /\ phase' = [phase EXCEPT ![r] = "granted"]
    /\ held' = IF pool = "active" THEN held ELSE held \cup {r}
    /\ UNCHANGED <<now, pool, busy, server, createdAt, task, excuse>>

GrantWithoutTest(r) ==
    /\ phase[r] = "answered"
    /\ phase' = [phase EXCEPT ![r] = "granted"]
    /\ task' = [task EXCEPT ![r] = "expiry"]
    /\ held' = IF pool = "active" THEN held ELSE held \cup {r}
    /\ UNCHANGED <<now, pool, busy, server, createdAt, excuse>>

\* Boot of the pauser command: one attempt to resume, then serve regardless.
Boot ==
    /\ server = "down"
    /\ server' = "serving"
    /\ Unpause \/ LeavePaused("resumeError", "bootResumeFailed")
    /\ UNCHANGED <<now, busy, phase, createdAt, task>>

\* A signal: GracefulStop accepts nothing new and waits for the handlers; the
\* goroutines they left behind end with the process.
Stop ==
    /\ "stop" \in Faults
    /\ server = "serving"
    /\ server' = "stopping"
    /\ UNCHANGED <<now, pool, busy, phase, createdAt, task, held, excuse>>

Stopped ==
    /\ server = "stopping"
    /\ Handling = {}
    /\ server' = "down"
    /\ task' = [r \in Request |-> "none"]
    /\ UNCHANGED <<now, pool, busy, phase, createdAt, held, excuse>>

Crash ==
    /\ "crash" \in Faults
    /\ server # "down"
    /\ server' = "down"
    /\ phase' = [r \in Request |-> IF r \in Handling THEN "failed" ELSE phase[r]]
    /\ task' = [r \in Request |-> "none"]
    /\ UNCHANGED <<now, pool, busy, createdAt, held, excuse>>

-----------------------------------------------------------------------------
\* Server.Pause, from the creation of its context to the connection it opens,
\* which takes its time and knows no deadline.
Receive(r) ==
    /\ server = "serving"
    /\ phase[r] = "unsent"
    /\ now + Timeout <= MaxTime
    /\ now + Expiry[r] <= MaxTime
    /\ phase' = [phase EXCEPT ![r] = "received"]
    /\ createdAt' = [createdAt EXCEPT ![r] = now]
    /\ UNCHANGED <<now, pool, busy, server, task, held, excuse>>

\* PgBouncer.Pause sends PAUSE unless the context is done or no connection can
\* be made. "Already paused" counts as success.
SendPause(r) ==
    /\ phase[r] = "received"
    /\ now <= Deadline(r)
    /\ \/ /\ pool = "active"
          /\ pool' = "draining"
          /\ phase' = [phase EXCEPT ![r] = "waiting"]
       \/ /\ pool # "active"
          /\ phase' = [phase EXCEPT ![r] = "answered"]
          /\ UNCHANGED pool
    /\ UNCHANGED <<now, busy, server, createdAt, task, held, excuse>>

NotSent(r) ==
    /\ phase[r] = "received"
    /\ phase' = [phase EXCEPT ![r] = "failed"]
    /\ UNCHANGED <<now, pool, busy, server, createdAt, task, held, excuse>>

\* The context is done before the answer is read: the handler returns an error
\* and schedules no resume; the driver cancels PAUSE in the background.
GiveUp(r) ==
    /\ phase[r] \in {"waiting", "answered"}
    /\ now >= Deadline(r) \/ "clientGone" \in Faults
    /\ phase' = [phase EXCEPT ![r] = "failed"]
    /\ task' = [task EXCEPT ![r] = "cancel"]
    /\ UNCHANGED <<now, pool, busy, server, createdAt, held, excuse>>

\* The answer is read: the pause is granted, and a goroutine will lift it once
\* it expires if the request has an expiry.
Grant(r) ==
    /\ phase[r] = "answered"
    /\ phase' = [phase EXCEPT ![r] = "granted"]
    /\ task' = [task EXCEPT ![r] = IF Expiry[r] > 0 THEN "expiry" ELSE @]
    /\ held' = IF pool = "active" THEN held ELSE held \cup {r}
    /\ IF Expiry[r] > 0 THEN UNCHANGED excuse ELSE Blame("noExpiry")
    /\ UNCHANGED <<now, pool, busy, server, createdAt>>

CancelArrives(r) ==
    /\ task[r] = "cancel"
    /\ task' = [task EXCEPT ![r] = "none"]
    /\ Unpause \/ LeavePaused("cancelLost", "cancelLost")
    /\ UNCHANGED <<now, busy, server, phase, createdAt>>

ExpiryResume(r) ==
    /\ task[r] = "expiry"
    /\ now >= ExpiresAt(r)
    /\ task' = [task EXCEPT ![r] = "none"]
    /\ Unpause \/ LeavePaused("resumeError", "expiryResumeFailed")
    /\ UNCHANGED <<now, busy, server, phase, createdAt>>

\* Server.Resume. One that fails is reported to its caller and changes nothing.
Resume ==
    /\ server # "down"
    /\ Unpause
    /\ UNCHANGED <<now, busy, server, phase, createdAt, task>>

-----------------------------------------------------------------------------
\* PgBouncer and its clients.
QueryStart ==
    /\ pool = "active"
    /\ ~ busy
    /\ busy' = TRUE
    /\ UNCHANGED <<now, pool, server, phase, createdAt, task, held, excuse>>

QueryEnd ==
    /\ busy
    /\ busy' = FALSE
    /\ UNCHANGED <<now, pool, server, phase, createdAt, task, held, excuse>>

\* Every PAUSE still waiting is answered, also one sent before a RESUME.
Drained ==
    /\ pool = "draining"
    /\ ~ busy
    /\ pool' = "paused"
    /\ phase' = [r \in Request |-> IF phase[r] = "waiting" THEN "answered" ELSE phase[r]]
    /\ UNCHANGED <<now, busy, server, createdAt, task, held, excuse>>

Tick ==
    /\ now < MaxTime
    /\ now' = now + 1
    /\ UNCHANGED <<pool, busy, server, phase, createdAt, task, held, excuse>>

Next ==
    \/ Boot \/ Stop \/ Stopped \/ Crash \/ Resume
    \/ \E r \in Request : \/ Receive(r) \/ SendPause(r) \/ NotSent(r) \/ GiveUp(r)
                          \/ Grant(r) \/ CancelArrives(r) \/ ExpiryResume(r)
    \/ QueryStart \/ QueryEnd \/ Drained \/ Tick

Spec == Init /\ [][Next]_vars

\* Goroutines run, time passes, and the supervisor restarts the pauser. Nothing
\* is assumed of clients, of queries, nor of the operator.
Fairness ==
    /\ WF_vars(Tick) /\ WF_vars(Boot) /\ WF_vars(Stopped)
    /\ \A r \in Request : /\ WF_vars(SendPause(r) \/ NotSent(r))
                          /\ WF_vars(GiveUp(r) \/ Grant(r))
                          /\ WF_vars(CancelArrives(r))
                          /\ WF_vars(ExpiryResume(r))

FairSpec == Spec /\ Fairness

-----------------------------------------------------------------------------
\* While the pauser runs, a pause in force is owned: a handler is going to
\* answer for it or a task is going to lift it, unless one of the named reasons
\* took the owner away (Server.Pause schedules the resume only after PAUSE
\* succeeded, and Resume is attempted once).
Owners == {r \in Request : phase[r] \in {"waiting", "answered"} \/ task[r] # "none"}

NoSilentLeak ==
    pool # "active" /\ server # "down" => Owners # {} \/ excuse # {}

\* The resume that expiry schedules never cuts a pause that still has time
\* left: "remove the pause at expiry seconds from the moment the request was
\* received" (server.go).
ExpiryRespectsPauses ==
    [][\A r \in Request : ExpiryResume(r) /\ pool' = "active" =>
            \A h \in held : now >= ExpiresAt(h)]_vars

\* A pause is granted only when the queries that were running have finished:
\* "buffer incoming queries while waiting for those currently processing to
\* finish executing" (pgbouncer.go).
GrantMeansDrained ==
    [][\A r \in Request : Grant(r) => pool # "draining"]_vars

\* "safe means the pause will eventually be removed" (main.go).
PauseEventuallyRemoved == pool # "active" ~> pool = "active"

-----------------------------------------------------------------------------
\* The pauser implements the service it promises: every pause is lifted as long
\* as it is not abandoned for one of the named reasons.
Traffic == IF pool = "active" THEN "flowing" ELSE "blocked"

Duty == IF pool = "active" THEN "none"
        ELSE IF server = "down" THEN "restart"
        ELSE IF \E r \in Request : phase[r] \in {"waiting", "answered"} THEN "request"
        ELSE IF \E r \in Request : task[r] # "none" THEN "task"
        ELSE IF excuse # {} THEN "abandoned"
        ELSE "nobody"

Service == INSTANCE PauseService WITH traffic <- Traffic, duty <- Duty

ServiceSpec == Service!Spec

=============================================================================
