--------------------------- MODULE MCClusterdata ---------------------------
(***************************************************************************)
(* The health check over every small document stolon's sentinel can write, *)
(* compared with reference definitions that count nothing.                 *)
(***************************************************************************)
EXTENDS Clusterdata, SequencesExt

CONSTANTS Uid,          \* UIDs of the DBs a document may hold, also naming
                        \* their keepers: stolon gives a keeper one DB
          Gone,         \* the UID of a DB that was removed
          Fake,         \* a dummy external synchronous standby
          MaxSync,      \* bound on the standbys that are reported synchronous
          MaxMin,       \* bound on minSynchronousStandbys
          MaxTolerate   \* bound on the failures to tolerate

VARIABLES cd, tolerate, verdict

checkVars == <<cd, tolerate, verdict>>

ASSUME ClusterdataAssumption ==
    /\ IsFiniteSet(Uid) /\ Uid \cap {NoKeeper, Gone, Fake} = {}
    /\ MaxSync \in Nat /\ MaxMin \in Nat /\ MaxTolerate \in Nat

\* Standby lists of the master m: no repetitions, never m itself; a name that
\* stolon does not manage appears among the external ones only.
SyncLists(m) ==
    {s \in SeqOf((Uid \cup {Gone}) \ {m}, MaxSync) : IsInjective(s)}

Record(u, h, s, e) == [keeper |-> u, healthy |-> h, sync |-> s, external |-> e]

\* The document of the DBs D, the healthy ones H, whose master is m.
Document(m, D, n, H, s, e) ==
    [min |-> n, master |-> m,
     dbs |-> [u \in D |-> IF u = m THEN Record(u, u \in H, s, e)
                                   ELSE Record(u, u \in H, <<>>, <<>>)]]

DocumentsOver(m, D) ==
    {Document(m, D, n, H, s, e) :
        n \in 0..MaxMin, H \in SUBSET D, s \in SyncLists(m), e \in {<<>>, <<Fake>>}}

Documents ==
    UNION {UNION {DocumentsOver(m, D) : D \in SUBSET Uid} :
           m \in {CHOOSE u \in Uid : TRUE, Gone}}

CheckInit ==
    /\ cd \in Documents
    /\ tolerate \in 0..MaxTolerate
    /\ verdict = "unasked"

Ask ==
    /\ verdict = "unasked"
    /\ verdict' = CheckHealthy(cd, tolerate)
    /\ UNCHANGED <<cd, tolerate>>

CheckSpec == CheckInit /\ [][Ask]_checkVars

-----------------------------------------------------------------------------
HealthyUids(c) == {u \in DOMAIN c.dbs : c.dbs[u].healthy}

StandbyKeepers(c) == {c.dbs[u].keeper : u \in HealthyUids(c)} \ {Master(c).keeper}

SyncKeepers(c) ==
    {c.dbs[u].keeper : u \in {v \in HealthyUids(c) :
                                 \E i \in DOMAIN Master(c).sync : Master(c).sync[i] = v}}

AtLeast(S, n) == \E T \in SUBSET S : Cardinality(T) = n

\* The master takes writes now and, after the loss of any k standby keepers,
\* enough healthy keepers are left to be its synchronous standbys.
Tolerates(c, k) ==
    /\ Master(c).healthy
    /\ AtLeast(SyncKeepers(c), c.min)
    /\ Cardinality(StandbyKeepers(c)) >= k
    /\ \A F \in SUBSET StandbyKeepers(c) :
          Cardinality(F) = k => AtLeast(StandbyKeepers(c) \ F, c.min)

\* CheckHealthy(k) passes exactly when the cluster tolerates k failures: the
\* three conditions of CheckHealthy (stolon.go).
HealthyMeansTolerant ==
    verdict # "unasked" => (verdict = "" <=> Tolerates(cd, tolerate))

\* The document the sentinel writes when it replaces the master by standby s,
\* with every healthy keeper that is left following it.
Promoted(c, s) ==
    LET others == HealthyUids(c) \ {c.master, s}
    IN  [c EXCEPT !.master = s,
                  !.dbs = [u \in DOMAIN c.dbs |->
                             Record(c.dbs[u].keeper, c.dbs[u].healthy /\ u # c.master,
                                    IF u = s THEN SetToSeq(others) ELSE <<>>, <<>>)]]

\* A failover that passed the health check can finish: whichever healthy
\* standby is promoted, the sentinel can write a document that satisfies the
\* wait of NotifyRecovered.
FailoverCanRecover ==
    verdict = "" /\ tolerate >= 1 =>
        \A s \in HealthyUids(cd) \ {cd.master} :
            Recovered(Promoted(cd, s), Master(cd).keeper)

\* The error of a document without a master is "no master", as the message and
\* the order of CheckHealthy's tests say.
NoMasterIsReported ==
    verdict # "unasked" /\ cd.master \notin DOMAIN cd.dbs => verdict = "no master"

\* The comment of CheckHealthy: "healthy standbys (sync and async) - minimum
\* number of synchronous standbys < the failure tolerance" when healthy.
HealthyAsCommented ==
    verdict = "" => HealthyStandbys(cd) - cd.min < tolerate

=============================================================================
