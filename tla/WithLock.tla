------------------------------ MODULE WithLock ------------------------------
(***************************************************************************)
(* The with-lock command of cmd/stolon-pgbouncer/main.go: run a command    *)
(* while holding the failover lock. "Exit status 1=error, 2=no-lock,       *)
(* 3=command-error".                                                       *)
(***************************************************************************)
EXTENDS EtcdLock

CONSTANT Faults     \* "crash", "sessionLost", "signal" (once or twice), "unlockError"

ASSUME WithLockAssumption == Faults \subseteq {"crash", "sessionLost", "signal", "unlockError"}

VARIABLES
    pc,         \* [Client -> Labels]
    ran,        \* history: the clients whose command has started
    asked,      \* the clients at work that were sent a signal: their ctx is done
    exit        \* [Client -> -1..3] exit status; -1: none of with-lock's own

vars == <<key, myRev, nextRev, owned, lost, pc, ran, asked, exit>>

\* Panicked: ended by its second signal; crashed: killed.
Labels == {"lock", "waiting", "command", "unlock", "exited", "panicked", "crashed"}

TypeOK ==
    /\ LockTypeOK
    /\ pc \in [Client -> Labels]
    /\ ran \subseteq Client
    /\ asked \subseteq Client
    /\ exit \in [Client -> -1..3]
    /\ \A c \in Client : c \in owned => myRev[c] # 0

Init ==
    /\ LockInit
    /\ pc = [c \in Client |-> "lock"]
    /\ ran = {}
    /\ asked = {}
    /\ exit = [c \in Client |-> -1]

Goto(c, l) == pc' = [pc EXCEPT ![c] = l]
Exit(c, code) == exit' = [exit EXCEPT ![c] = code]
Ends(c, l) == Goto(c, l) /\ asked' = asked \ {c}

Enqueue(c) ==
    /\ pc[c] = "lock"
    /\ PutKey(c)
    /\ Goto(c, "waiting")
    /\ UNCHANGED <<ran, asked, exit>>

GetLock(c) ==
    /\ pc[c] = "waiting"
    /\ Acquire(c)
    /\ Goto(c, "command")
    /\ UNCHANGED <<ran, asked, exit>>

\* Mutated forms of NoLock: the command runs all the same; no --timeout.
NoLockRunsAnyway(c) ==
    /\ pc[c] \in {"lock", "waiting"}
    /\ UNCHANGED lockVars
    /\ Goto(c, "command")
    /\ Exit(c, 2)
    /\ UNCHANGED <<ran, asked>>

NoLockNoTimeout(c) ==
    /\ pc[c] = "lock"
    /\ UNCHANGED lockVars
    /\ Ends(c, "exited")
    /\ Exit(c, 2)
    /\ UNCHANGED ran

\* The context of --timeout, or of a signal, is done before the lock is held.
\* Lock gives its key up, if that request succeeds; an error while the key is
\* created can leave it in etcd too.
NoLock(c) ==
    /\ \/ pc[c] = "waiting" /\ Unlock(c)
       \/ pc[c] = "waiting" /\ "unlockError" \in Faults /\ UNCHANGED lockVars
       \/ pc[c] = "lock" /\ PutKey(c)
       \/ pc[c] = "lock" /\ UNCHANGED lockVars
    /\ Ends(c, "exited")
    /\ Exit(c, 2)
    /\ UNCHANGED ran

\* exec.CommandContext: a context already done starts nothing.
Start(c) ==
    /\ pc[c] = "command"
    /\ c \notin ran \cup asked
    /\ ran' = ran \cup {c}
    /\ UNCHANGED <<lockVars, pc, asked, exit>>

\* cmd.Run returns: the command has ended, by itself or killed with the context,
\* or it could not be started.
CommandEnds(c) ==
    /\ pc[c] = "command"
    /\ \/ c \in ran /\ Exit(c, 0)
       \/ Exit(c, 3)
    /\ Goto(c, "unlock")
    /\ UNCHANGED <<lockVars, ran, asked>>

\* The deferred Unlock, with a context that nothing ends; its error is only
\* logged.
Release(c) ==
    /\ pc[c] = "unlock"
    /\ \/ Unlock(c)
       \/ "unlockError" \in Faults /\ UNCHANGED lockVars
    /\ Ends(c, "exited")
    /\ UNCHANGED <<ran, exit>>

Gone(c) == pc[c] \in {"exited", "panicked", "crashed"}

\* setupSignalHandler: the first signal cancels ctx, and a second one panics in
\* a goroutine of its own. The Go runtime then ends the process with status 2,
\* and no deferred call is made.
Signal(c) ==
    /\ "signal" \in Faults
    /\ ~ Gone(c)
    /\ c \notin asked
    /\ asked' = asked \cup {c}
    /\ UNCHANGED <<lockVars, pc, ran, exit>>

SecondSignal(c) ==
    /\ c \in asked
    /\ ~ Gone(c)
    /\ Ends(c, "panicked")
    /\ Exit(c, 2)
    /\ UNCHANGED <<lockVars, ran>>

\* Killed, with no status of its own.
Crash(c) ==
    /\ "crash" \in Faults
    /\ ~ Gone(c)
    /\ Ends(c, "crashed")
    /\ Exit(c, -1)
    /\ UNCHANGED <<lockVars, ran>>

\* Nobody renews the lease of a process that is gone.
LeaseEnds(c) ==
    /\ Gone(c) \/ "sessionLost" \in Faults
    /\ ExpireLease(c)
    /\ UNCHANGED <<pc, ran, asked, exit>>

Next == \E c \in Client :
            \/ Enqueue(c) \/ GetLock(c) \/ NoLock(c) \/ Start(c) \/ CommandEnds(c)
            \/ Release(c) \/ Signal(c) \/ SecondSignal(c) \/ Crash(c) \/ LeaseEnds(c)

Spec == Init /\ [][Next]_vars

\* The --timeout ends every wait for the lock and etcd expires leases; a command
\* may run for ever, and so may an Unlock that etcd does not answer.
Fairness == \A c \in Client :
    /\ WF_vars(Enqueue(c) \/ NoLock(c) \/ GetLock(c))
    /\ WF_vars(Gone(c) /\ LeaseEnds(c))

FairSpec == Spec /\ Fairness

-----------------------------------------------------------------------------
\* From the start of a command until its end is seen: it may outlive a process
\* that is killed.
Running(c) == c \in ran /\ pc[c] \in {"command", "panicked", "crashed"}

\* No two commands run at once, as long as their processes keep their leases:
\* "should acquire this lock before making changes" (failover.go).
OneCommandAtATime ==
    \A c, d \in Client \ lost : Running(c) /\ Running(d) => c = d

\* What a caller may read off the exit status: 0 says that the command has been
\* started, and 2 that it has not ("no-lock"), unless the process was sent two
\* signals. 3 says nothing: a command that cannot be started has it too.
StatusTellsWhatRan ==
    \A c \in Client :
        /\ exit[c] = 0 => c \in ran
        /\ exit[c] = 2 => c \notin ran \/ pc[c] = "panicked"

\* "Exit status 1=error, 2=no-lock, 3=command-error" (main.go), by which a caller
\* tries again on 2. False: a second signal leaves 2 behind a command that ran.
NoLockMeansNotRun ==
    \A c \in Client : exit[c] = 2 => c \notin ran

\* However a process ends, nobody is kept from the lock for ever by a process
\* that is not running a command, unless etcd never answers its Unlock and its
\* lease lives on all the same.
LockIsFreed ==
    \A c \in Client :
        \/ key[c] # 0 ~> key[c] = 0 \/ pc[c] = "command"
        \/ <>[](pc[c] = "unlock")

=============================================================================
