----------------------------- MODULE WatchActor ------------------------------
(***************************************************************************)
(* What supervise's watch actor (cmd/stolon-pgbouncer/main.go) promises    *)
(* the child actor beside it: it says once that there is a configuration   *)
(* to boot from, it returns only when asked to stop, and then it does.     *)
(* Supervise implements this, and SuperviseChild relies on it.             *)
(***************************************************************************)
VARIABLES
    ctxDone,    \* the context of the signal handler is done
    keeperHost, \* receivedKeeperHost is closed: PgBouncer may boot
    returned    \* the actor has returned

vars == <<ctxDone, keeperHost, returned>>

Init ==
    /\ ctxDone = FALSE
    /\ keeperHost = FALSE
    /\ returned = FALSE

\* signalReceivedKeeperHost, the first time.
ReceivesHost ==
    /\ ~ returned
    /\ ~ keeperHost
    /\ keeperHost' = TRUE
    /\ UNCHANGED <<ctxDone, returned>>

Returns ==
    /\ ctxDone
    /\ ~ returned
    /\ returned' = TRUE
    /\ UNCHANGED <<ctxDone, keeperHost>>

\* A signal, or the interrupt of this actor.
Cancel ==
    /\ ~ ctxDone
    /\ ctxDone' = TRUE
    /\ UNCHANGED <<keeperHost, returned>>

Next == ReceivesHost \/ Returns \/ Cancel

Spec == Init /\ [][Next]_vars /\ WF_vars(Returns)

=============================================================================
