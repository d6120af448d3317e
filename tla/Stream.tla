------------------------------- MODULE Stream -------------------------------
(***************************************************************************)
(* The stream of one etcd key (pkg/etcd/stream.go) through RevisionFilter, *)
(* and maybe Tap (pkg/streams/filter.go). Two goroutines write to one      *)
(* unbuffered channel: a watch that delivers the changes made while it is  *)
(* open, or none, and a poll that delivers the latest value. Between them, *)
(* and because a watch may be reopened, values arrive late, twice, out of  *)
(* order or not at all; the filter lets only newer ones through.           *)
(*                                                                         *)
(* A key-value pair is its revision, the position of the value in store;   *)
(* 0 is no pair. A goroutine that holds a pair is blocked on its send.     *)
(***************************************************************************)
EXTENDS Naturals, Sequences

CONSTANTS
    Value,      \* what may be written under the key
    MaxRev,     \* bound: number of writes
    Tapped,     \* there is a Tap between the stream and RevisionFilter
    Faults      \* "watch": the watch breaks; "prefix": it does not carry the key;
                \* "poll": a Get fails; those of the consumer

ASSUME StreamAssumption == MaxRev \in Nat \ {0} /\ Tapped \in BOOLEAN

VARIABLES
    store,      \* Seq(Value): the value at each revision of the key in etcd
    ctxDone,    \* the context of the stream is done
    watch,      \* [at, next, kv] the watch goroutine, the next revision it will see
    poll,       \* [at, kv] the poll goroutine
    tap,        \* the pair Tap holds, or the filter has not looked at yet
    filter,     \* the pair RevisionFilter has let through and not yet sent
    last        \* lastRevisions, for the key

streamVars == <<store, ctxDone, watch, poll, tap, filter, last>>
goroutines == <<watch, poll, tap, filter, last>>

Revisions == 0..MaxRev

StreamTypeOK ==
    /\ store \in Seq(Value) /\ Len(store) <= MaxRev
    /\ ctxDone \in BOOLEAN
    /\ watch \in [at : {"open", "retry", "stopped"}, next : 1..(MaxRev + 1), kv : Revisions]
    /\ poll \in [at : {"get", "wait", "stopped"}, kv : Revisions]
    /\ tap \in Revisions /\ filter \in Revisions /\ last \in Revisions
    /\ filter # 0 => filter > last

\* Somebody receives from the unbuffered channel of the two goroutines.
Receiver == tap = 0 /\ (Tapped \/ filter = 0)

\* The key may have a value before the stream is made, or none.
StreamInit ==
    /\ store \in {<<>>} \cup {<<v>> : v \in Value}
    /\ ctxDone = FALSE
    /\ watch = [at |-> "retry", next |-> 1, kv |-> 0]
    /\ poll = [at |-> "get", kv |-> 0]
    /\ tap = 0 /\ filter = 0 /\ last = 0

-----------------------------------------------------------------------------
Put(v) ==
    /\ Len(store) < MaxRev
    /\ store' = Append(store, v)
    /\ UNCHANGED <<ctxDone, goroutines>>

Cancel ==
    /\ ctxDone' = TRUE
    /\ UNCHANGED <<store, goroutines>>

\* A watch sees what is written from the moment it is opened.
WatchOpens ==
    /\ watch.at = "retry"
    /\ ~ ctxDone
    /\ watch' = [watch EXCEPT !.at = "open", !.next = Len(store) + 1]
    /\ UNCHANGED <<store, ctxDone, poll, tap, filter, last>>

WatchEvent ==
    /\ watch.at = "open"
    /\ watch.kv = 0
    /\ watch.next <= Len(store)
    /\ watch' = [watch EXCEPT !.next = @ + 1, !.kv = watch.next]
    /\ UNCHANGED <<store, ctxDone, poll, tap, filter, last>>

\* The watch is on the prefix "/". A key that does not begin with it, such as the
\* default stolon/cluster/..., is not watched.
WatchMisses ==
    /\ "prefix" \in Faults
    /\ watch.at = "open"
    /\ watch.kv = 0
    /\ watch.next <= Len(store)
    /\ watch' = [watch EXCEPT !.next = @ + 1]
    /\ UNCHANGED <<store, ctxDone, poll, tap, filter, last>>

WatchSend ==
    /\ watch.kv # 0
    /\ Receiver
    /\ tap' = watch.kv
    /\ watch' = [watch EXCEPT !.kv = 0]
    /\ UNCHANGED <<store, ctxDone, poll, filter, last>>

\* The watch channel is closed: by an error, or by the context.
WatchBreaks ==
    /\ watch.at = "open"
    /\ watch.kv = 0
    /\ ctxDone \/ "watch" \in Faults
    /\ watch' = [watch EXCEPT !.at = IF ctxDone THEN "stopped" ELSE "retry"]
    /\ UNCHANGED <<store, ctxDone, poll, tap, filter, last>>

WatchStops ==
    /\ watch.at = "retry"
    /\ ctxDone
    /\ watch' = [watch EXCEPT !.at = "stopped"]
    /\ UNCHANGED <<store, ctxDone, poll, tap, filter, last>>

\* A Get returns the latest value.
PollGets ==
    /\ poll.at = "get"
    /\ poll.kv = 0
    /\ ~ ctxDone
    /\ store # <<>>
    /\ poll' = [poll EXCEPT !.kv = Len(store)]
    /\ UNCHANGED <<store, ctxDone, watch, tap, filter, last>>

PollFails ==
    /\ poll.at = "get"
    /\ poll.kv = 0
    /\ store = <<>> \/ ctxDone \/ "poll" \in Faults
    /\ poll' = [poll EXCEPT !.at = "wait"]
    /\ UNCHANGED <<store, ctxDone, watch, tap, filter, last>>

PollSend ==
    /\ poll.kv # 0
    /\ Receiver
    /\ tap' = poll.kv
    /\ poll' = [at |-> "wait", kv |-> 0]
    /\ UNCHANGED <<store, ctxDone, watch, filter, last>>

\* Mutated form: the poll is made once.
PollOnce ==
    /\ poll.at = "wait"
    /\ ctxDone
    /\ poll' = [poll EXCEPT !.at = "stopped"]
    /\ UNCHANGED <<store, ctxDone, watch, tap, filter, last>>

\* PollInterval has passed. A timer that is due with the context counts as
\* the one before it.
PollAgain ==
    /\ poll.at = "wait"
    /\ poll' = [poll EXCEPT !.at = IF ctxDone THEN "stopped" ELSE "get"]
    /\ UNCHANGED <<store, ctxDone, watch, tap, filter, last>>

\* Mutated form: the filter lets every pair through.
FilterTakesAny ==
    /\ tap # 0
    /\ filter = 0
    /\ tap' = 0
    /\ filter' = tap
    /\ UNCHANGED <<store, ctxDone, watch, poll, last>>

FilterTake ==
    /\ tap # 0
    /\ filter = 0
    /\ tap' = 0
    /\ filter' = IF last >= tap THEN 0 ELSE tap
    /\ UNCHANGED <<store, ctxDone, watch, poll, last>>

\* The consumer receives the pair.
Receive ==
    /\ filter # 0
    /\ last' = filter
    /\ filter' = 0
    /\ UNCHANGED <<store, ctxDone, watch, poll, tap>>

\* The channel the consumer reads is closed: both goroutines have stopped and
\* each stage has passed on what it held.
Closed ==
    /\ watch.at = "stopped" /\ poll.at = "stopped"
    /\ tap = 0 /\ filter = 0

Goroutines ==
    \/ WatchOpens \/ WatchEvent \/ WatchMisses \/ WatchSend \/ WatchBreaks \/ WatchStops
    \/ PollGets \/ PollFails \/ PollSend \/ PollAgain \/ FilterTake

=============================================================================
