-------------------------- MODULE FailoverPipeline --------------------------
(***************************************************************************)
(* The labels of Failover, read as runs of the pipeline that Failover.Run  *)
(* builds: the detailed coordinators implement module Pipeline.            *)
(***************************************************************************)
EXTENDS Failover, Sequences

\* The six steps of Run with their deferred actions.
RunPipeline == << <<>>, <<>>, <<"ReleaseLock">>, <<"RestoreSleepInterval">>,
                  <<"Resume">>, <<>> >>

StepOf(l) ==
    CASE l = "check" -> 1
      [] l = "ping" -> 2
      [] l \in {"lock", "lockwait"} -> 3
      [] l \in {"shortenGet", "shortenPut", "shortenSleep"} -> 4
      [] l = "pause" -> 5
      [] l \in {"failGet", "failExec", "await"} -> 6
      [] l \in Deferred \cup {"done"} -> 0
      [] l = "crashed" -> -1

Scheduled(l) ==
    CASE l \in {"check", "ping", "done", "crashed"} -> <<>>
      [] l \in {"lock", "lockwait", "release"} -> <<"ReleaseLock">>
      [] l \in {"shortenGet", "shortenPut", "shortenSleep", "restoreGet", "restorePut"} ->
            <<"RestoreSleepInterval", "ReleaseLock">>
      [] l \in {"pause", "failGet", "failExec", "await", "resume"} ->
            <<"Resume", "RestoreSleepInterval", "ReleaseLock">>

AsPipeline == INSTANCE Pipeline WITH
    Run <- Client,
    Pipelines <- {RunPipeline},
    steps <- [c \in Client |-> RunPipeline],
    at <- [c \in Client |-> StepOf(pc[c])],
    stack <- [c \in Client |-> Scheduled(pc[c])],
    result <- result

\* Every coordinator goes through its steps and deferred actions as Pipeline
\* does (pipeline.go), whatever fails and whenever it is interrupted.
FollowsPipeline == AsPipeline!Spec

=============================================================================
