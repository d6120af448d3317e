------------------------------ MODULE Recovery -------------------------------
(***************************************************************************)
(* The wait for a failover to succeed (pkg/failover/failover.go): a        *)
(* goroutine of NotifyRecovered takes the clusterdata documents that       *)
(* module Stream delivers until one shows a new master that can be written *)
(* to, and Failkeeper's select waits for its word, or PauseExpiry. In      *)
(* Failover this is the variable sighted and the actions Recover,          *)
(* AwaitTimeout and AwaitCancelled.                                        *)
(***************************************************************************)
EXTENDS Stream

\* Faults here: "stop": the context ends.
CONSTANT Recovered      \* documents that show a new, healthy master with its standbys

ASSUME RecoveryAssumption == Recovered \subseteq Value

VARIABLES
    notifier,   \* [at, kv] the goroutine of NotifyRecovered
    wait,       \* the select of Failkeeper, and how it ended
    rejected    \* history: the last revision the notifier has passed over

waitVars == <<streamVars, notifier, wait, rejected>>

WaitTypeOK ==
    /\ StreamTypeOK
    /\ notifier \in [at : {"receive", "send", "sent", "closed"}, kv : 0..MaxRev]
    /\ wait \in {"select", "timedOut", "recovered", "closed"}
    /\ rejected \in 0..MaxRev
    /\ notifier.kv # 0 => notifier.kv = last /\ store[notifier.kv] \in Recovered

\* The keeper has been marked as failed; the document exists.
WaitInit ==
    /\ StreamInit
    /\ store # <<>>
    /\ notifier = [at |-> "receive", kv |-> 0]
    /\ wait = "select"
    /\ rejected = 0

-----------------------------------------------------------------------------
\* A document that does not show a recovery is passed over, whatever it is.
PassesOver ==
    /\ notifier.at = "receive"
    /\ Receive
    /\ store[filter] \notin Recovered
    /\ rejected' = filter
    /\ UNCHANGED <<notifier, wait>>

\* The first one that does: notify <- master.
Sights ==
    /\ notifier.at = "receive"
    /\ Receive
    /\ store[filter] \in Recovered
    /\ notifier' = [at |-> "send", kv |-> filter]
    /\ UNCHANGED <<wait, rejected>>

\* Mutated form: the goroutine ends and leaves its channel open.
ClosesNothing ==
    /\ notifier.at = "receive"
    /\ Closed
    /\ notifier' = [notifier EXCEPT !.at = "sent"]
    /\ UNCHANGED <<streamVars, wait, rejected>>

\* The stream has ended: close(notify).
Closes ==
    /\ notifier.at = "receive"
    /\ Closed
    /\ notifier' = [notifier EXCEPT !.at = "closed"]
    /\ UNCHANGED <<streamVars, wait, rejected>>

\* Mutated form: the goroutine goes on when its answer is taken.
AnsweredGoesOn ==
    /\ wait = "select"
    /\ notifier.at = "send"
    /\ wait' = "recovered"
    /\ notifier' = [notifier EXCEPT !.at = "receive"]
    /\ UNCHANGED <<streamVars, rejected>>

\* The select receives the master.
Answered ==
    /\ wait = "select"
    /\ notifier.at = "send"
    /\ wait' = "recovered"
    /\ notifier' = [notifier EXCEPT !.at = "sent"]
    /\ UNCHANGED <<streamVars, rejected>>

\* The select receives the zero DB of a closed channel, which it does not tell
\* from a master.
AnsweredNothing ==
    /\ wait = "select"
    /\ notifier.at = "closed"
    /\ wait' = "closed"
    /\ UNCHANGED <<streamVars, notifier, rejected>>

\* PauseExpiry is over.
TimesOut ==
    /\ wait = "select"
    /\ wait' = "timedOut"
    /\ UNCHANGED <<streamVars, notifier, rejected>>

ContextEnds ==
    /\ "stop" \in Faults
    /\ ~ ctxDone
    /\ Cancel
    /\ UNCHANGED <<notifier, wait, rejected>>

Rewrite(v) == Put(v) /\ UNCHANGED <<notifier, wait, rejected>>

OfStream(Action) == Action /\ UNCHANGED <<notifier, wait, rejected>>

Notifier == PassesOver \/ Sights \/ Closes

WaitNext ==
    \/ OfStream(Goroutines) \/ Notifier \/ Answered \/ AnsweredNothing
    \/ TimesOut \/ ContextEnds \/ (\E v \in Value : Rewrite(v))

WaitSpec == WaitInit /\ [][WaitNext]_waitVars

\* Goroutines run, and etcd answers now and then. Nothing is assumed of the
\* time-out: what follows holds however late it comes.
WaitFairness ==
    /\ WF_waitVars(OfStream(WatchOpens \/ WatchEvent \/ WatchMisses \/ WatchStops))
    /\ WF_waitVars(OfStream(ctxDone /\ WatchBreaks))
    /\ WF_waitVars(OfStream(PollFails \/ PollAgain))
    /\ SF_waitVars(OfStream(PollGets))
    /\ SF_waitVars(OfStream(WatchSend)) /\ SF_waitVars(OfStream(PollSend))
    /\ WF_waitVars(OfStream(FilterTake))
    /\ WF_waitVars(Notifier) /\ WF_waitVars(Answered \/ AnsweredNothing)

WaitFairSpec == WaitSpec /\ WaitFairness

-----------------------------------------------------------------------------
\* A failover succeeds on a document newer than any that denies it, though the
\* watch may deliver an older one that shows a recovery after it.
NewerThanRejected == wait = "recovered" => notifier.kv > rejected

\* When the cluster recovers and stays so, the coordinator is told, if it has
\* not given up: whatever the watch misses, the poll sees.
RecoveryIsTold ==
    <>[](store[Len(store)] \in Recovered /\ ~ ctxDone) => <>(wait # "select")

\* The wait ends with the context, before the time-out.
WaitEndsWithContext == ctxDone ~> wait # "select"

-----------------------------------------------------------------------------
\* "Notify the done channel once the wait group completes" (stream.go): when
\* the context is done the stream's goroutines stop.
StreamStops == ctxDone ~> watch.at = "stopped" /\ poll.at = "stopped"

=============================================================================
