---------------------------- MODULE Clusterdata ----------------------------
(***************************************************************************)
(* The view of stolon's clusterdata document that stolon-pgbouncer reads,  *)
(* and the decisions it takes from one document: which DB is the master,   *)
(* which are its standbys (pkg/stolon/stolon.go), whether the cluster is   *)
(* healthy enough to start a failover (CheckHealthy), and whether it has   *)
(* recovered from one (the predicate inside NotifyRecovered,               *)
(* pkg/failover/failover.go).                                              *)
(*                                                                         *)
(* A document is a record                                                  *)
(*   [min    |-> cluster.spec.minSynchronousStandbys,                      *)
(*    master |-> proxy.spec.masterDbUid,                                   *)
(*    dbs    |-> function from the UIDs present to DB records]             *)
(* and a DB record is                                                      *)
(*   [keeper |-> spec.keeperUID, healthy |-> status.healthy,               *)
(*    sync |-> status.synchronousStandbys,                                 *)
(*    external |-> spec.externalSynchronousStandbys].                      *)
(***************************************************************************)
EXTENDS Integers, Sequences, FiniteSets

CONSTANT NoKeeper   \* the empty string, KeeperUID of the zero DB value

\* Go's DB{}: what indexing the Dbs map with a UID it does not hold returns.
ZeroDB == [keeper |-> NoKeeper, healthy |-> FALSE, sync |-> <<>>, external |-> <<>>]

DB(cd, uid) == IF uid \in DOMAIN cd.dbs THEN cd.dbs[uid] ELSE ZeroDB

Master(cd) == DB(cd, cd.master)

\* One DB per configured UID: the standbys stolon reports, then the external
\* ones. A dummy UID yields ZeroDB, which is never healthy.
SynchronousStandbys(cd) ==
    LET uids == Master(cd).sync \o Master(cd).external
    IN  [i \in DOMAIN uids |-> DB(cd, uids[i])]

AsynchronousStandbys(cd) ==
    {u \in DOMAIN cd.dbs :
        /\ cd.dbs[u].keeper # Master(cd).keeper
        /\ \A i \in DOMAIN SynchronousStandbys(cd) :
              cd.dbs[u].keeper # SynchronousStandbys(cd)[i].keeper}

HealthySynchronous(cd) ==
    {i \in DOMAIN SynchronousStandbys(cd) : SynchronousStandbys(cd)[i].healthy}

HealthyAsynchronous(cd) == {u \in AsynchronousStandbys(cd) : cd.dbs[u].healthy}

HealthyStandbys(cd) ==
    Cardinality(HealthySynchronous(cd)) + Cardinality(HealthyAsynchronous(cd))

-----------------------------------------------------------------------------
\* Mutated forms: CheckHealthy off by one, and a wait that wants a spare standby.
CheckHealthyOffByOne(cd, tolerateFailures) ==
    IF ~ Master(cd).healthy THEN "master unhealthy"
    ELSE IF Cardinality(HealthySynchronous(cd)) < cd.min
         THEN "insufficient standbys"
    ELSE IF HealthyStandbys(cd) - cd.min < tolerateFailures - 1
         THEN "insufficient standbys for failure"
    ELSE ""

RecoveredNeedsSpare(cd, oldKeeper) ==
    /\ Master(cd).keeper # oldKeeper
    /\ Master(cd).healthy
    /\ Cardinality(HealthySynchronous(cd)) > cd.min

\* The health check made before a failover: "" when no error is returned. The
\* "no master" branch compares a DB value with a *DB pointer, so that
\* reflect.DeepEqual is false whatever the master is.
MasterEqualsZeroPointer(cd) == FALSE

CheckHealthy(cd, tolerateFailures) ==
    IF MasterEqualsZeroPointer(cd) THEN "no master"
    ELSE IF ~ Master(cd).healthy THEN "master unhealthy"
    ELSE IF Cardinality(HealthySynchronous(cd)) < cd.min
         THEN "insufficient standbys"
    ELSE IF HealthyStandbys(cd) - cd.min < tolerateFailures
         THEN "insufficient standbys for failure"
    ELSE ""

\* The condition under which NotifyRecovered reports the new master.
Recovered(cd, oldKeeper) ==
    /\ Master(cd).keeper # oldKeeper
    /\ Master(cd).healthy
    /\ Cardinality(HealthySynchronous(cd)) >= cd.min

=============================================================================
