--------------------------- MODULE MCTimedFailover ---------------------------
(* Options for TimedFailover: time-outs that are shorter and longer than each *)
(* other, a cleanup that just fits and one that does not.                     *)
EXTENDS TimedFailover, TLC

CONSTANTS n1, n2

MCOptions ==
    [sleep : {2}, pauseTimeout : {1, 3}, pauseExpiry : {2, 4},
     resumeTimeout : {1}, stolonctlTimeout : {1, 2}, cleanupTimeout : {3, 7}]

\* The defaults of the command and of stolon, in units of five seconds.
DefaultOptions ==
    {[sleep |-> 2, pauseTimeout |-> 1, pauseExpiry |-> 5, resumeTimeout |-> 1,
      stolonctlTimeout |-> 1, cleanupTimeout |-> 2]}

Symmetry == Permutations(Node)

=============================================================================
