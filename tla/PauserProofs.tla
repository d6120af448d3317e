---------------------------- MODULE PauserProofs ----------------------------
(***************************************************************************)
(* Type correctness of Pauser and the ownership of every pause, for any    *)
(* set of requests, any timeouts and every combination of faults.          *)
(***************************************************************************)
EXTENDS Pauser, TLAPS

USE DEF AllFaults, Phases, Tasks, Excuses, Handling, Deadline, ExpiresAt

\* The type invariant, with what the history variables record of the pause in
\* force (Server.Pause and PgBouncer.Resume).
THEOREM TypeCorrect == Spec => []TypeOK
<1>1. Init => TypeOK
  <2> SUFFICES ASSUME Init PROVE TypeOK
    OBVIOUS
  <2>1. /\ phase \in [Request -> Phases]
        /\ createdAt \in [Request -> Nat]
        /\ task \in [Request -> Tasks]
    BY DEF Init
  <2>2. \A r \in Request : createdAt[r] = 0 /\ task[r] = "none"
    BY DEF Init
  <2>3. busy \in BOOLEAN
    BY Zenon DEF Init
  <2>4. now = 0 /\ pool \in {"active", "paused"} /\ server = "down" /\ held = {} /\ excuse = {}
    BY DEF Init
  <2> QED
    BY <2>1, <2>2, <2>3, <2>4 DEF TypeOK
<1>2. TypeOK /\ [Next]_vars => TypeOK'
  <2> SUFFICES ASSUME TypeOK, [Next]_vars PROVE TypeOK'
    OBVIOUS
  <2> USE PauserAssumption DEF TypeOK
  <2>1. CASE Boot
    BY <2>1 DEF Boot, Unpause, LeavePaused, Blame
  <2>2. CASE Stop
    BY <2>2 DEF Stop
  <2>3. CASE Stopped
    BY <2>3 DEF Stopped
  <2>4. CASE Crash
    BY <2>4 DEF Crash
  <2>5. CASE Resume
    BY <2>5 DEF Resume, Unpause
  <2>6. ASSUME NEW r \in Request, Receive(r) PROVE TypeOK'
    BY <2>6 DEF Receive
  <2>7. ASSUME NEW r \in Request, SendPause(r) PROVE TypeOK'
    BY <2>7 DEF SendPause
  <2>8. ASSUME NEW r \in Request, NotSent(r) PROVE TypeOK'
    BY <2>8 DEF NotSent
  <2>9. ASSUME NEW r \in Request, GiveUp(r) PROVE TypeOK'
    BY <2>9 DEF GiveUp
  <2>10. ASSUME NEW r \in Request, Grant(r) PROVE TypeOK'
    BY <2>10 DEF Grant, Blame
  <2>11. ASSUME NEW r \in Request, CancelArrives(r) PROVE TypeOK'
    BY <2>11 DEF CancelArrives, Unpause, LeavePaused, Blame
  <2>12. ASSUME NEW r \in Request, ExpiryResume(r) PROVE TypeOK'
    BY <2>12 DEF ExpiryResume, Unpause, LeavePaused, Blame
  <2>13. CASE QueryStart
    BY <2>13 DEF QueryStart
  <2>14. CASE QueryEnd
    BY <2>14 DEF QueryEnd
  <2>15. CASE Drained
    BY <2>15 DEF Drained
  <2>16. CASE Tick
    BY <2>16 DEF Tick
  <2>17. CASE UNCHANGED vars
    BY <2>17 DEF vars
  <2> QED
    BY <2>1, <2>2, <2>3, <2>4, <2>5, <2>6, <2>7, <2>8, <2>9, <2>10, <2>11,
       <2>12, <2>13, <2>14, <2>15, <2>16, <2>17 DEF Next
<1> QED
  BY <1>1, <1>2, PTL DEF Spec

\* A pause in force never loses its owner silently (Server.Pause, the expiry
\* goroutine it starts, and the pauser command's resume on boot).
THEOREM PauseIsOwned == Spec => []NoSilentLeak
<1> USE DEF NoSilentLeak, Owners
<1>1. Init => NoSilentLeak
  BY DEF Init
<1>2. TypeOK /\ NoSilentLeak /\ [Next]_vars => NoSilentLeak'
  <2> SUFFICES ASSUME TypeOK, NoSilentLeak, [Next]_vars PROVE NoSilentLeak'
    OBVIOUS
  <2> USE PauserAssumption DEF TypeOK
  <2>1. CASE Boot
    BY <2>1 DEF Boot, Unpause, LeavePaused, Blame
  <2>2. CASE Stop
    BY <2>2 DEF Stop
  <2>3. CASE Stopped
    BY <2>3 DEF Stopped
  <2>4. CASE Crash
    BY <2>4 DEF Crash
  <2>5. CASE Resume
    BY <2>5 DEF Resume, Unpause
  <2>6. ASSUME NEW r \in Request, Receive(r) PROVE NoSilentLeak'
    BY <2>6 DEF Receive
  <2>7. ASSUME NEW r \in Request, SendPause(r) PROVE NoSilentLeak'
    BY <2>7 DEF SendPause
  <2>8. ASSUME NEW r \in Request, NotSent(r) PROVE NoSilentLeak'
    BY <2>8 DEF NotSent
  <2>9. ASSUME NEW r \in Request, GiveUp(r) PROVE NoSilentLeak'
    BY <2>9 DEF GiveUp
  <2>10. ASSUME NEW r \in Request, Grant(r) PROVE NoSilentLeak'
    BY <2>10 DEF Grant, Blame
  <2>11. ASSUME NEW r \in Request, CancelArrives(r) PROVE NoSilentLeak'
    BY <2>11 DEF CancelArrives, Unpause, LeavePaused, Blame
  <2>12. ASSUME NEW r \in Request, ExpiryResume(r) PROVE NoSilentLeak'
    BY <2>12 DEF ExpiryResume, Unpause, LeavePaused, Blame
  <2>13. CASE QueryStart
    BY <2>13 DEF QueryStart
  <2>14. CASE QueryEnd
    BY <2>14 DEF QueryEnd
  <2>15. CASE Drained
    BY <2>15 DEF Drained
  <2>16. CASE Tick
    BY <2>16 DEF Tick
  <2>17. CASE UNCHANGED vars
    BY <2>17 DEF vars
  <2> QED
    BY <2>1, <2>2, <2>3, <2>4, <2>5, <2>6, <2>7, <2>8, <2>9, <2>10, <2>11,
       <2>12, <2>13, <2>14, <2>15, <2>16, <2>17 DEF Next
<1> QED
  BY <1>1, <1>2, TypeCorrect, PTL DEF Spec

-----------------------------------------------------------------------------
\* A handler runs in a pauser that is up.
HandlersAreUp == server = "down" => Handling = {}

\* The handlers end with the process: GracefulStop waits for them, and a crash
\* fails them (main.go).
LEMMA HandlersEnd == Spec => []HandlersAreUp
<1>1. Init => HandlersAreUp
  BY DEF Init, HandlersAreUp
<1>2. TypeOK /\ HandlersAreUp /\ [Next]_vars => HandlersAreUp'
  <2> SUFFICES ASSUME TypeOK, HandlersAreUp, [Next]_vars PROVE HandlersAreUp'
    OBVIOUS
  <2> USE DEF TypeOK, HandlersAreUp
  <2>1. CASE Boot \/ Stop \/ Stopped \/ Resume
    BY <2>1 DEF Boot, Stop, Stopped, Resume
  <2>2. CASE Crash
    BY <2>2 DEF Crash
  <2>3. ASSUME NEW r \in Request,
               \/ Receive(r) \/ SendPause(r) \/ NotSent(r) \/ GiveUp(r)
               \/ Grant(r) \/ CancelArrives(r) \/ ExpiryResume(r)
        PROVE  HandlersAreUp'
    BY <2>3 DEF Receive, SendPause, NotSent, GiveUp, Grant, CancelArrives, ExpiryResume
  <2>4. CASE QueryStart \/ QueryEnd \/ Tick \/ UNCHANGED vars
    BY <2>4 DEF QueryStart, QueryEnd, Tick, vars
  <2>5. CASE Drained
    BY <2>5 DEF Drained
  <2> QED
    BY <2>1, <2>2, <2>3, <2>4, <2>5 DEF Next
<1> QED
  BY <1>1, <1>2, TypeCorrect, PTL DEF Spec

\* Traffic flows, or it is blocked and somebody has the duty to release it.
LEMMA DutyIsKnown ==
  ASSUME TypeOK, NoSilentLeak
  PROVE  \/ pool = "active" /\ Traffic = "flowing" /\ Duty = "none"
         \/ pool # "active" /\ Traffic = "blocked" /\ Duty \in Service!Owners
  BY DEF NoSilentLeak, Owners, Traffic, Duty, Service!Owners, Service!Duties

\* Traffic is blocked by the PAUSE of a request, whose handler will answer for it.
LEMMA RequestBlocks ==
  ASSUME TypeOK, HandlersAreUp, [Next]_vars, pool = "active", pool' # "active"
  PROVE  Duty' = "request"
<1>1. PICK r \in Request : SendPause(r)
  BY DEF Next, vars, Boot, Stop, Stopped, Crash, Resume, Unpause, LeavePaused, Receive, NotSent,
     GiveUp, Grant, CancelArrives, ExpiryResume, QueryStart, QueryEnd, Drained, Tick
<1>2. server' # "down" /\ phase'[r] = "waiting"
  BY <1>1 DEF SendPause, TypeOK, HandlersAreUp
<1> QED
  BY <1>2 DEF Duty

\* The pauser is the service that it promises to be (the start-up code of the
\* pauser command): traffic is blocked for a request, somebody keeps the duty to
\* release it, and it passes from one to the other until traffic flows or it is
\* abandoned for a named reason. That the duty is done is a matter of fairness.
THEOREM ImplementsService == Spec => Service!Init /\ [][Service!Next]_(Service!vars)
<1>1. Init => Service!Init
  BY DEF Init, Service!Init, Traffic, Duty
<1>2. TypeOK /\ NoSilentLeak /\ TypeOK' /\ NoSilentLeak' /\ HandlersAreUp /\ [Next]_vars
        => [Service!Next]_(Service!vars)
  <2> SUFFICES ASSUME TypeOK, NoSilentLeak, TypeOK', NoSilentLeak', HandlersAreUp, [Next]_vars
               PROVE  [Service!Next]_(Service!vars)
    OBVIOUS
  <2>1. \/ pool = "active" /\ Traffic = "flowing" /\ Duty = "none"
        \/ pool # "active" /\ Traffic = "blocked" /\ Duty \in Service!Owners
    BY DutyIsKnown
  <2>2. \/ pool' = "active" /\ Traffic' = "flowing" /\ Duty' = "none"
        \/ pool' # "active" /\ Traffic' = "blocked" /\ Duty' \in Service!Owners
    BY DEF NoSilentLeak, Owners, Traffic, Duty, Service!Owners, Service!Duties
  <2> USE DEF Service!Next, Service!vars
  <2>3. CASE pool = "active" /\ pool' = "active"
    BY <2>1, <2>2, <2>3
  <2>4. CASE pool = "active" /\ pool' # "active"
    BY <2>1, <2>2, <2>4, RequestBlocks DEF Service!Block
  <2>5. CASE pool # "active" /\ pool' = "active"
    BY <2>1, <2>2, <2>5 DEF Service!Release
  <2>6. CASE pool # "active" /\ pool' # "active"
    BY <2>1, <2>2, <2>6 DEF Service!HandOver
  <2> QED
    BY <2>3, <2>4, <2>5, <2>6
<1> QED
  BY <1>1, <1>2, TypeCorrect, PauseIsOwned, HandlersEnd, PTL DEF Spec

=============================================================================
