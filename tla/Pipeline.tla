------------------------------ MODULE Pipeline ------------------------------
(***************************************************************************)
(* pkg/failover/pipeline.go: run the steps in order, scheduling the        *)
(* deferred actions of a step before its own action; stop at the first     *)
(* error; then run what was scheduled, last in first out. Any number of    *)
(* runs, each in a process of its own that may die.                        *)
(***************************************************************************)
EXTENDS Integers, Sequences, SequencesExt

CONSTANTS
    Run,        \* the runs of the pipeline
    Pipelines   \* what Pipeline may be called with: sequences that give, for
                \* each step, the sequence of its deferred actions

VARIABLES
    steps,      \* [Run -> Pipelines] the pipeline being run
    at,         \* [Run -> Int] the step being run; Unwinding; or Dead
    stack,      \* [Run -> Seq(actions)] what is scheduled, next to run first
    result      \* [Run -> {"none", "ok", "error"}] what the run returns

vars == <<steps, at, stack, result>>

Unwinding == 0
Dead == -1

\* Mutated form: an action is deferred behind the ones already scheduled.
ScheduleFirstInFirstOut(deferred, scheduled) == scheduled \o deferred

\* defer pushes the actions of a step one by one on those already scheduled.
Schedule(deferred, scheduled) == Reverse(deferred) \o scheduled

Init ==
    /\ steps \in [Run -> Pipelines]
    /\ at = [r \in Run |-> 1]
    /\ stack = [r \in Run |-> Schedule(steps[r][1], <<>>)]
    /\ result = [r \in Run |-> "none"]

StepSucceeds(r) ==
    /\ at[r] \in 1..Len(steps[r]) - 1
    /\ at' = [at EXCEPT ![r] = @ + 1]
    /\ stack' = [stack EXCEPT ![r] = Schedule(steps[r][at[r] + 1], @)]
    /\ UNCHANGED <<steps, result>>

LastStepSucceeds(r) ==
    /\ at[r] = Len(steps[r])
    /\ at' = [at EXCEPT ![r] = Unwinding]
    /\ result' = [result EXCEPT ![r] = "ok"]
    /\ UNCHANGED <<steps, stack>>

\* Mutated form: the actions of the step that fails are not scheduled yet.
StepFailsUnscheduled(r) ==
    /\ at[r] \in 1..Len(steps[r])
    /\ at' = [at EXCEPT ![r] = Unwinding]
    /\ result' = [result EXCEPT ![r] = "error"]
    /\ stack' = [stack EXCEPT ![r] = SubSeq(@, Len(steps[r][at[r]]) + 1, Len(@))]
    /\ UNCHANGED steps

StepFails(r) ==
    /\ at[r] \in 1..Len(steps[r])
    /\ at' = [at EXCEPT ![r] = Unwinding]
    /\ result' = [result EXCEPT ![r] = "error"]
    /\ UNCHANGED <<steps, stack>>

\* One deferred action runs, with deferCtx; its error is dropped.
RunDeferred(r) ==
    /\ at[r] = Unwinding
    /\ stack[r] # <<>>
    /\ stack' = [stack EXCEPT ![r] = Tail(@)]
    /\ UNCHANGED <<steps, at, result>>

Die(r) ==
    /\ at[r] > Unwinding \/ (at[r] = Unwinding /\ stack[r] # <<>>)
    /\ at' = [at EXCEPT ![r] = Dead]
    /\ stack' = [stack EXCEPT ![r] = <<>>]
    /\ UNCHANGED <<steps, result>>

Next == \E r \in Run : \/ StepSucceeds(r) \/ LastStepSucceeds(r) \/ StepFails(r)
                       \/ RunDeferred(r) \/ Die(r)

Spec == Init /\ [][Next]_vars

=============================================================================
