----------------------------- MODULE MCFailover -----------------------------
(***************************************************************************)
(* Two coordinators over the same cluster.                                 *)
(***************************************************************************)
EXTENDS FailoverPipeline, TLC

\* Coordinators, keepers and nodes are interchangeable. Used by the runs that
\* check no liveness.
Symmetry == Permutations(Client) \cup Permutations(Keeper) \cup Permutations(Node)

\* The run that checks liveness begins with one of the keepers as the master:
\* to begin with another one is to rename them.
OneMasterInit == Init /\ store.master = CHOOSE k \in Keeper : TRUE

OneMasterSpec == OneMasterInit /\ [][Next]_vars /\ Fairness

=============================================================================
