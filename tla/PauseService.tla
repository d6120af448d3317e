---------------------------- MODULE PauseService ----------------------------
(***************************************************************************)
(* What a pauser promises of the PgBouncer it guards: blocked traffic is   *)
(* somebody's duty to release, and is released, unless it is abandoned.    *)
(* The start-up code of the pauser command states the promise: "the pauser *)
(* provides a safe API around pausing PgBouncer, where safe means the      *)
(* pause will eventually be removed" (cmd/stolon-pgbouncer/main.go).       *)
(***************************************************************************)

VARIABLES traffic,  \* "flowing" or "blocked"
          duty      \* who has to release blocked traffic

vars == <<traffic, duty>>

\* A request being handled, a task it left behind (an expiry timer or a cancel
\* request on its way), or the resume made when the pauser starts again.
Duties == {"request", "task", "restart"}

\* Abandoned: the duty was not done, or the client wanted nobody to have it. A
\* restart or another request may take it up.
Owners == Duties \cup {"abandoned"}

TypeOK == \/ traffic = "flowing" /\ duty = "none"
          \/ traffic = "blocked" /\ duty \in Owners

Init == \/ traffic = "flowing" /\ duty = "none"
        \/ traffic = "blocked" /\ duty = "restart"

Block == /\ traffic = "flowing"
         /\ traffic' = "blocked"
         /\ duty' = "request"

HandOver == /\ traffic = "blocked"
            /\ duty' \in Owners \ {duty}
            /\ UNCHANGED traffic

Release == /\ traffic = "blocked"
           /\ traffic' = "flowing"
           /\ duty' = "none"

Next == Block \/ HandOver \/ Release

\* Whoever has the duty does it.
Spec == Init /\ [][Next]_vars /\ WF_vars(duty \in Duties /\ Release)

=============================================================================
