----------------------------- MODULE MCPipeline -----------------------------
(***************************************************************************)
(* Runs of every pipeline of up to MaxSteps steps with up to MaxDefers     *)
(* deferred actions each, with a history of what it ran. An action is      *)
(* named by its step and its place in the step.                            *)
(***************************************************************************)
EXTENDS Pipeline

CONSTANTS MaxSteps, MaxDefers

\* Some step, and every action under its name.
ASSUME PipelinesAssumption ==
    \A p \in Pipelines :
        /\ p \in Seq(Seq(Nat \X Nat))
        /\ p # <<>>
        /\ \A i \in DOMAIN p : \A j \in DOMAIN p[i] : p[i][j] = <<i, j>>

VARIABLES log,      \* [Run -> Seq(actions)] the deferred actions run, in order
          begun     \* [Run -> Nat] the number of steps begun

MCPipelines ==
    {[i \in DOMAIN n |-> [j \in 1..n[i] |-> <<i, j>>]] :
        n \in UNION {[1..k -> 0..MaxDefers] : k \in 1..MaxSteps}}

mcvars == <<vars, log, begun>>

MCInit ==
    /\ Init
    /\ log = [r \in Run |-> <<>>]
    /\ begun = [r \in Run |-> 1]

MCNext ==
    /\ Next
    /\ log' = [r \in Run |-> IF at[r] = Unwinding /\ stack'[r] # stack[r] /\ at'[r] # Dead
                             THEN Append(log[r], Head(stack[r])) ELSE log[r]]
    /\ begun' = [r \in Run |-> IF at'[r] > begun[r] THEN at'[r] ELSE begun[r]]

MCSpec == MCInit /\ [][MCNext]_mcvars

\* Deferred actions run at most once, later steps' before earlier ones' and,
\* within a step, in the reverse of the order they were given: the "defer"
\* statements of the loop in Pipeline.
LastInFirstOut ==
    \A r \in Run : \A p, q \in DOMAIN log[r] :
        p < q => LET f == log[r][p]
                     g == log[r][q]
                 IN  g[1] < f[1] \/ (g[1] = f[1] /\ g[2] < f[2])

\* "Defer first, ensuring we always attempt our defer steps, even if the
\* primary action fails" (pipeline.go): a run that returns has run the deferred
\* actions of each step it began, the failing one included, and no other.
DeferredOfBegunSteps ==
    \A r \in Run :
        at[r] = Unwinding /\ stack[r] = <<>> =>
            ToSet(log[r]) = UNION {ToSet(steps[r][i]) : i \in 1..begun[r]}

=============================================================================
