---------------------------- MODULE TimedFailover ----------------------------
(***************************************************************************)
(* The time-outs of one failover (pkg/failover) on a clock: the            *)
(* coordinator from the moment it has put the short interval, the pausers  *)
(* it calls, and a signal. Each wait ends by itself at the latest when it  *)
(* is due; the clock does not pass that. Failover has the same steps, for  *)
(* many coordinators and faults, without the time; Pauser has the handlers *)
(* of one pauser in detail.                                                *)
(***************************************************************************)
EXTENDS Naturals, FiniteSetsExt

CONSTANTS
    Node,           \* nodes whose pausers are called
    Options,        \* FailoverOptions, with the cleanup time-out of the command and
                    \* twice the cluster's sleepInterval
    RequestTime,    \* within this time etcd answers
    Second,         \* the network round-trip that Pause allows for
    Never           \* a time that no behaviour reaches

ASSUME TimedFailoverAssumption ==
    /\ Options \subseteq [sleep : Nat, pauseTimeout : Nat \ {0}, pauseExpiry : Nat \ {0},
                          resumeTimeout : Nat, stolonctlTimeout : Nat, cleanupTimeout : Nat]
    /\ RequestTime \in Nat /\ Second \in Nat /\ Never \in Nat
    /\ \A o \in Options :
          o.sleep + 2 * o.pauseExpiry + o.pauseTimeout + o.stolonctlTimeout + o.resumeTimeout
              + Second + 4 * RequestTime < Never

VARIABLES
    opt,        \* the options of this failover
    now,
    at,         \* where Run is; pc[c] in Failover
    began,      \* when it got there
    pausedAt,   \* when it began to pause
    asked,      \* when the signal came, or Never
    call,       \* call[n]: what has become of the Pause request to n
    received,   \* received[n]: when n received it (createdAt)
    holds,      \* holds[n]: PgBouncer holds n's traffic back
    task,       \* task[n]: when the resume that n has scheduled is due, or Never
    resumed,    \* nodes that have answered the Resume request
    restored,   \* the interval has been put back
    released    \* the lock has been released

coordinatorVars == <<at, began, pausedAt, resumed, restored, released>>
nodeVars == <<call, received, holds, task>>
vars == <<opt, now, asked, coordinatorVars, nodeVars>>

Steps == {"shortenSleep", "pause", "failGet", "failExec", "await"}
Deferred == {"resume", "restoreGet", "restorePut", "release"}

\* No timer is overdue.
TypeOK ==
    /\ opt \in Options
    /\ now \in Nat
    /\ at \in Steps \cup Deferred \cup {"done"}
    /\ began \in 0..now /\ pausedAt \in 0..now
    /\ asked \in 0..now \cup {Never}
    /\ call \in [Node -> {"sent", "pausing", "granted", "failed"}]
    /\ received \in [Node -> 0..now]
    /\ holds \in [Node -> BOOLEAN]
    /\ task \in [Node -> Nat] /\ \A n \in Node : task[n] >= now
    /\ resumed \subseteq Node
    /\ restored \in BOOLEAN /\ released \in BOOLEAN

Init ==
    /\ opt \in Options
    /\ now = 0 /\ at = "shortenSleep" /\ began = 0 /\ pausedAt = 0 /\ asked = Never
    /\ call = [n \in Node |-> "sent"]
    /\ received = [n \in Node |-> 0]
    /\ holds = [n \in Node |-> FALSE]
    /\ task = [n \in Node |-> Never]
    /\ resumed = {} /\ restored = FALSE /\ released = FALSE

-----------------------------------------------------------------------------
\* Mutated form: the deferred actions are given the context of the steps.
ContextEndsAtOnce ==
    CASE at = "shortenSleep" -> Never [] OTHER -> asked

\* When the context of the current wait ends. time.Sleep looks at none.
ContextEnds ==
    CASE at \in Steps \ {"shortenSleep"} -> asked
      [] at \in Deferred -> asked + opt.cleanupTimeout
      [] OTHER -> Never

\* How long the current wait lasts at most.
Allowed ==
    CASE at = "shortenSleep" -> opt.sleep
      [] at = "pause" -> opt.pauseExpiry + Second
      [] at = "failExec" -> opt.stolonctlTimeout
      [] at = "await" -> opt.pauseExpiry
      [] at = "resume" -> opt.resumeTimeout
      [] at = "done" -> Never
      [] OTHER -> RequestTime

Due == Min({began + Allowed, ContextEnds})

\* A request is answered while its context lives.
Live == now < ContextEnds

Goto(label) ==
    /\ at' = label
    /\ began' = now
    /\ UNCHANGED <<opt, now, asked, nodeVars>>

SleepEnds ==
    /\ at = "shortenSleep"
    /\ now = Due
    /\ Goto("pause")
    /\ pausedAt' = now
    /\ UNCHANGED <<resumed, restored, released>>

\* Mutated form: an error that one goroutine of EachClient wrote is lost.
AllPausedButOne ==
    (\A n \in Node : call[n] \in {"granted", "failed"}) /\ \E n \in Node : call[n] = "granted"

AllPaused == \A n \in Node : call[n] = "granted"

\* EachClient has all its answers, or the context has ended.
PauseReturns ==
    /\ at = "pause"
    /\ \/ AllPaused /\ Goto("failGet")
       \/ ~ AllPaused /\ (\A n \in Node : call[n] \in {"granted", "failed"}) /\ Goto("resume")
       \/ now >= Due /\ Goto("resume")
    /\ UNCHANGED <<pausedAt, resumed, restored, released>>

\* The current master is read, and marked as failed.
FailkeeperSteps ==
    /\ \/ at = "failGet" /\ Live /\ Goto("failExec")
       \/ at = "failExec" /\ Live /\ Goto("await")
       \/ at \in {"failGet", "failExec"} /\ now >= Due /\ Goto("resume")
    /\ UNCHANGED <<pausedAt, resumed, restored, released>>

\* A recovery is seen, PauseExpiry is over, or the context ends.
AwaitReturns ==
    /\ at = "await"
    /\ Goto("resume")
    /\ UNCHANGED <<pausedAt, resumed, restored, released>>

ResumeReturns ==
    /\ at = "resume"
    /\ resumed = Node \/ now >= Due
    /\ Goto("restoreGet")
    /\ UNCHANGED <<pausedAt, resumed, restored, released>>

RestoreSteps ==
    /\ \/ at = "restoreGet" /\ Live /\ Goto("restorePut") /\ UNCHANGED restored
       \/ at = "restorePut" /\ Live /\ Goto("release") /\ restored' = TRUE
       \/ at \in {"restoreGet", "restorePut"} /\ ~ Live /\ Goto("release") /\ UNCHANGED restored
    /\ UNCHANGED <<pausedAt, resumed, released>>

\* An Unlock that fails leaves the lock to the lease.
ReleaseLock ==
    /\ at = "release"
    /\ Goto("done")
    /\ released' = Live
    /\ UNCHANGED <<pausedAt, resumed, restored>>

Coordinator ==
    \/ SleepEnds \/ PauseReturns \/ FailkeeperSteps \/ AwaitReturns \/ ResumeReturns
    \/ RestoreSteps \/ ReleaseLock

-----------------------------------------------------------------------------
OfNode == UNCHANGED <<opt, now, asked, at, began, pausedAt, restored, released>>

\* A pauser receives the request, and PgBouncer the PAUSE.
Receive(n) ==
    /\ at = "pause"
    /\ call[n] = "sent"
    /\ call' = [call EXCEPT ![n] = "pausing"]
    /\ received' = [received EXCEPT ![n] = now]
    /\ holds' = [holds EXCEPT ![n] = TRUE]
    /\ UNCHANGED <<task, resumed>> /\ OfNode

HandlerDue(n) == IF at = "pause" THEN received[n] + opt.pauseTimeout ELSE now

Schedule(n, time) ==
    /\ call[n] = "pausing"
    /\ call' = [call EXCEPT ![n] = "granted"]
    /\ task' = [task EXCEPT ![n] = time]
    /\ UNCHANGED <<received, holds, resumed>> /\ OfNode

\* Mutated form: the expiry counts from the answer.
GrantFromNow(n) == Schedule(n, now + opt.pauseExpiry)

\* Mutated form: a Sleep for a negative time does not return.
GrantOverdue(n) == Schedule(n, received[n] + opt.pauseExpiry)

\* The queries have ended; the resume is scheduled, for now if it is due.
Grant(n) == Schedule(n, Max({now, received[n] + opt.pauseExpiry}))

\* The time-out, or the client has gone: the PAUSE is cancelled.
GiveUp(n) ==
    /\ call[n] = "pausing"
    /\ now >= HandlerDue(n)
    /\ call' = [call EXCEPT ![n] = "failed"]
    /\ holds' = [holds EXCEPT ![n] = FALSE]
    /\ UNCHANGED <<received, task, resumed>> /\ OfNode

ExpiryResume(n) ==
    /\ task[n] = now
    /\ task' = [task EXCEPT ![n] = Never]
    /\ holds' = [holds EXCEPT ![n] = FALSE]
    /\ UNCHANGED <<call, received, resumed>> /\ OfNode

\* The pauser answers Resume; a PAUSE that still drains is over.
Resume(n) ==
    /\ at = "resume" /\ Live
    /\ n \notin resumed
    /\ resumed' = resumed \cup {n}
    /\ holds' = [holds EXCEPT ![n] = FALSE]
    /\ call' = [call EXCEPT ![n] = IF @ = "pausing" THEN "failed" ELSE @]
    /\ UNCHANGED <<received, task>> /\ OfNode

Pauser(n) == Receive(n) \/ Grant(n) \/ GiveUp(n) \/ ExpiryResume(n) \/ Resume(n)

-----------------------------------------------------------------------------
\* The first signal; deferCtx ends when the cleanup time-out is over.
Signal ==
    /\ at # "done"
    /\ asked = Never
    /\ asked' = now
    /\ UNCHANGED <<opt, now, coordinatorVars, nodeVars>>

Ended == at = "done" /\ \A n \in Node : task[n] = Never /\ call[n] # "pausing"

Tick ==
    /\ ~ Ended
    /\ now < Due
    /\ \A n \in Node : now < task[n] /\ (call[n] = "pausing" => now < HandlerDue(n))
    /\ now' = now + 1
    /\ UNCHANGED <<opt, asked, coordinatorVars, nodeVars>>

\* The failover is over, and its pauses; any other state must have a next one.
Stutter == Ended /\ UNCHANGED vars

Next == Coordinator \/ (\E n \in Node : Pauser(n)) \/ Signal \/ Tick \/ Stutter

Spec == Init /\ [][Next]_vars

-----------------------------------------------------------------------------
\* "We need to ensure we remove the pause at expiry seconds from the moment the
\* request was received" (server.go): no client waits longer than that, or than
\* a PAUSE may drain, whatever becomes of the coordinator and its Resume.
OutageIsBounded ==
    \A n \in Node :
        holds[n] => now <= received[n] + Max({opt.pauseExpiry, opt.pauseTimeout})

\* The keeper is failed, and its successor awaited, with every node's traffic
\* held, for PauseExpiry from the start of the pause (Failkeeper after Pause in
\* failover.go).
HeldThroughFailover ==
    at \in {"failGet", "failExec", "await"} /\ now < pausedAt + opt.pauseExpiry =>
        \A n \in Node : holds[n]

\* What may come between the signal and the end of the cleanup fits its
\* time-out: a sleep that ignores the context, then Resume, then three requests.
CleanupFits == opt.sleep + opt.resumeTimeout + 3 * RequestTime < opt.cleanupTimeout

\* "in the event of an operator SIGQUIT that we attempt to run cleanup tasks
\* before actually quitting" (main.go): with such a time-out they do run, and
\* so they do without a signal.
CleanupRuns == at = "done" /\ (CleanupFits \/ asked = Never) => restored /\ released

-----------------------------------------------------------------------------
\* The same of any cleanup time-out.
CleanupAlwaysRuns == at = "done" => restored

\* "Once stolon has elected a new primary, resume PgBouncer pools" (README.md):
\* not while it is still awaited.
HeldUntilRecovery == at = "await" => \A n \in Node : holds[n]

=============================================================================
