------------------------ MODULE TimedFailoverProofs -------------------------
(***************************************************************************)
(* The time-outs of one failover, for any number of nodes and any options. *)
(* Every wait is bounded from the one before it, which bounds when Run     *)
(* gets anywhere, and with that every pauser's clock: its PAUSE drains for *)
(* pauseTimeout at most, and its resume is due pauseExpiry after the       *)
(* request. From a signal on the waits are bounded in the same way, so     *)
(* that a cleanup time-out that covers them lets every cleanup run.        *)
(***************************************************************************)
EXTENDS TimedFailover, TLAPS

\* How late Run can be where it is.
Reached ==
    LET paused == opt.sleep + opt.pauseExpiry + Second
        over == paused + RequestTime + opt.stolonctlTimeout + opt.pauseExpiry
    IN  CASE at = "shortenSleep" -> 0
          [] at = "pause" -> opt.sleep
          [] at = "failGet" -> paused
          [] at = "failExec" -> paused + RequestTime
          [] at = "await" -> paused + RequestTime + opt.stolonctlTimeout
          [] at = "resume" -> over
          [] at = "restoreGet" -> over + opt.resumeTimeout
          [] at = "restorePut" -> over + opt.resumeTimeout + RequestTime
          [] at = "release" -> over + opt.resumeTimeout + 2 * RequestTime
          [] at = "done" -> over + opt.resumeTimeout + 3 * RequestTime

\* No wait exceeds what it is allowed, and Never is not reached.
ClockInv ==
    /\ began <= Reached
    /\ at # "done" => now <= began + Allowed
    /\ now < Never

\* How long a node's traffic is held at most.
Longest == IF opt.pauseExpiry >= opt.pauseTimeout THEN opt.pauseExpiry ELSE opt.pauseTimeout

\* A PAUSE drains while its handler waits, and is held until its resume is due.
NodeInv(n) ==
    /\ call[n] = "sent" => ~ holds[n] /\ task[n] = Never
    /\ call[n] = "pausing" => holds[n] /\ task[n] = Never /\ now <= received[n] + opt.pauseTimeout
    /\ call[n] # "sent" => pausedAt <= received[n]
    /\ holds[n] => call[n] = "pausing" \/ task[n] # Never
    /\ task[n] # Never => task[n] <= received[n] + Longest
    /\ received[n] <= opt.sleep + opt.pauseExpiry + Second

\* No resume of a pause is early, but by the coordinator.
HeldInv(n) ==
    /\ at = "shortenSleep" => call[n] = "sent"
    /\ at \in {"failGet", "failExec", "await"} => call[n] = "granted"
    /\ at \in Steps /\ call[n] = "granted" =>
          \/ received[n] + opt.pauseExpiry <= now
          \/ holds[n] /\ received[n] + opt.pauseExpiry <= task[n]

\* How late after the signal Run can be where it is, in the deferred actions.
Delay ==
    CASE at = "restoreGet" -> opt.sleep + opt.resumeTimeout
      [] at = "restorePut" -> opt.sleep + opt.resumeTimeout + RequestTime
      [] at = "release" -> opt.sleep + opt.resumeTimeout + 2 * RequestTime
      [] at = "done" -> opt.sleep + opt.resumeTimeout + 3 * RequestTime
      [] OTHER -> opt.sleep

\* After the signal only the sleep and the deferred actions take time.
SignalInv ==
    /\ asked # Never => began <= asked + Delay
    /\ asked # Never /\ at \in Steps => now <= asked + opt.sleep
    /\ at \in {"release", "done"} /\ (CleanupFits \/ asked = Never) => restored
    /\ at = "done" /\ (CleanupFits \/ asked = Never) => released

IInv ==
    /\ TypeOK /\ ClockInv /\ SignalInv
    /\ \A n \in Node : NodeInv(n) /\ HeldInv(n)

-----------------------------------------------------------------------------
\* Max and Min of two numbers.
LEMMA MaxPair ==
  ASSUME NEW a \in Nat, NEW b \in Nat
  PROVE  Max({a, b}) = IF a >= b THEN a ELSE b
  <1>1. CASE a >= b
    BY <1>1 DEF Max
  <1>2. CASE ~ (a >= b)
    BY <1>2 DEF Max
  <1> QED
    BY <1>1, <1>2

\* The least of two numbers is one that neither exceeds.
LEMMA MinPair ==
  ASSUME NEW a \in Nat, NEW b \in Nat
  PROVE  Min({a, b}) = IF a <= b THEN a ELSE b
  <1>1. CASE a <= b
    BY <1>1 DEF Min
  <1>2. CASE ~ (a <= b)
    BY <1>2 DEF Min
  <1> QED
    BY <1>1, <1>2

\* The numbers that the clock runs on.
LEMMA Times ==
  ASSUME TypeOK
  PROVE  /\ opt.sleep \in Nat /\ opt.pauseTimeout \in Nat /\ opt.pauseExpiry \in Nat
         /\ opt.resumeTimeout \in Nat /\ opt.stolonctlTimeout \in Nat
         /\ opt.cleanupTimeout \in Nat
         /\ RequestTime \in Nat /\ Second \in Nat /\ Never \in Nat
         /\ opt.sleep + 2 * opt.pauseExpiry + opt.pauseTimeout + opt.stolonctlTimeout
                + opt.resumeTimeout + Second + 4 * RequestTime < Never
         /\ now \in Nat /\ began \in Nat /\ pausedAt \in Nat /\ asked \in Nat
         /\ \A n \in Node : received[n] \in Nat /\ task[n] \in Nat
  BY TimedFailoverAssumption DEF TimedFailoverAssumption, TypeOK

\* A wait is over when what it is allowed has passed, or its context has ended.
LEMMA DueBounds ==
  ASSUME TypeOK
  PROVE  /\ Allowed \in Nat /\ ContextEnds \in Nat
         /\ Due \in Nat /\ Due <= began + Allowed /\ Due <= ContextEnds
  <1>1. Allowed \in Nat /\ ContextEnds \in Nat
    BY Times DEF Allowed, ContextEnds
  <1> QED
    BY <1>1, Times, MinPair DEF Due

\* The failover begins with the sleep.
LEMMA InitInv == Init => IInv
  <1> SUFFICES ASSUME Init PROVE IInv
    OBVIOUS
  <1>0. Never \in Nat
    BY TimedFailoverAssumption DEF TimedFailoverAssumption
  <1>1. TypeOK
    <2>1. 0 \in 0..now /\ now = 0
      BY DEF Init
    <2>2. received \in [Node -> 0..now] /\ task \in [Node -> Nat]
      BY <1>0, <2>1 DEF Init
    <2>3. \A n \in Node : task[n] >= now
      BY <1>0, <2>1 DEF Init
    <2>4. call \in [Node -> {"sent", "pausing", "granted", "failed"}] /\ holds \in [Node -> BOOLEAN]
      BY DEF Init
    <2>5. /\ opt \in Options /\ now \in Nat /\ at \in Steps /\ asked \in {Never}
          /\ began \in 0..now /\ pausedAt \in 0..now
      BY <2>1 DEF Init, Steps
    <2>6. resumed \subseteq Node /\ restored \in BOOLEAN /\ released \in BOOLEAN
      BY DEF Init
    <2> QED
      BY <2>2, <2>3, <2>4, <2>5, <2>6 DEF TypeOK
  <1>2. 0 < Never
    BY <1>1, Times
  <1>3. ClockInv /\ SignalInv
    BY <1>1, <1>2, Times DEF Init, ClockInv, SignalInv, Reached, Allowed
  <1>4. \A n \in Node : NodeInv(n) /\ HeldInv(n)
    BY <1>1, <1>2, Times DEF Init, NodeInv, HeldInv
  <1> QED
    BY <1>1, <1>3, <1>4 DEF IInv

\* The steps of Run.
LEMMA StepsInv ==
  ASSUME IInv, SleepEnds \/ PauseReturns \/ FailkeeperSteps \/ AwaitReturns
  PROVE  IInv'
  <1> USE DEF IInv
  <1>1. TypeOK' /\ began' = now /\ UNCHANGED <<opt, now, asked, call, received, holds, task>>
    BY Times DEF SleepEnds, PauseReturns, FailkeeperSteps, AwaitReturns, Goto, TypeOK, nodeVars,
       Steps, Deferred
  <1>2. ClockInv'
    BY <1>1, Times DEF SleepEnds, PauseReturns, FailkeeperSteps, AwaitReturns, Goto, ClockInv,
       Reached, Allowed
  <1>3. SignalInv'
    BY <1>1, Times DEF SleepEnds, PauseReturns, FailkeeperSteps, AwaitReturns, Goto, SignalInv,
       Delay, Steps
  <1>4. \A n \in Node : NodeInv(n)'
    BY <1>1, Times DEF SleepEnds, PauseReturns, FailkeeperSteps, AwaitReturns, NodeInv, HeldInv,
       Longest
  <1>5. \A n \in Node : HeldInv(n)'
    BY <1>1, Times DEF SleepEnds, PauseReturns, FailkeeperSteps, AwaitReturns, Goto, HeldInv,
       AllPaused, Steps
  <1> QED
    BY <1>1, <1>2, <1>3, <1>4, <1>5

\* The deferred actions.
LEMMA DeferredInv ==
  ASSUME IInv, ResumeReturns \/ RestoreSteps \/ ReleaseLock
  PROVE  IInv'
  <1> USE DEF IInv
  <1> Live \in BOOLEAN
    BY DEF Live
  <1>1. /\ at \in {"resume", "restoreGet", "restorePut", "release"}
        /\ at' \in {"restoreGet", "restorePut", "release", "done"}
        /\ began' = now /\ UNCHANGED <<opt, now, asked, call, received, holds, task, pausedAt, resumed>>
    BY DEF ResumeReturns, RestoreSteps, ReleaseLock, Goto, nodeVars
  <1>2. TypeOK'
    <2>1. restored' \in BOOLEAN /\ released' \in BOOLEAN
      BY DEF ResumeReturns, RestoreSteps, ReleaseLock, TypeOK
    <2> QED
      BY <1>1, <2>1, Times DEF TypeOK, Steps, Deferred
  <1>3. ClockInv'
    BY <1>1, Times DEF ResumeReturns, RestoreSteps, ReleaseLock, Goto, ClockInv, Reached, Allowed
  <1>4. asked # Never => now <= asked + Delay'
    BY <1>1, Times
    DEF ResumeReturns, RestoreSteps, ReleaseLock, Goto, SignalInv, ClockInv, Delay, Allowed
  <1>5. ASSUME CleanupFits \/ asked = Never, at # "resume" PROVE Live
    BY <1>1, <1>5, Times
    DEF SignalInv, ClockInv, Delay, Allowed, Live, ContextEnds, CleanupFits, Steps, Deferred
  <1>6. SignalInv'
    <2>1. CleanupFits' <=> CleanupFits
      BY <1>1 DEF CleanupFits
    <2>2. /\ at' \in {"release", "done"} /\ (CleanupFits \/ asked = Never) => restored'
          /\ at' = "done" /\ (CleanupFits \/ asked = Never) => released'
      BY <1>5 DEF ResumeReturns, RestoreSteps, ReleaseLock, Goto, SignalInv
    <2> QED
      BY <1>1, <1>4, <2>1, <2>2 DEF SignalInv, Steps
  <1>7. \A n \in Node : NodeInv(n)'
    BY <1>1 DEF NodeInv, Longest
  <1>8. \A n \in Node : HeldInv(n)'
    BY <1>1 DEF HeldInv, Steps
  <1> QED
    BY <1>2, <1>3, <1>6, <1>7, <1>8

\* The pausers.
LEMMA PauserInv ==
  ASSUME IInv, NEW n \in Node, Pauser(n)
  PROVE  IInv'
  <1> USE DEF IInv
  <1>1. UNCHANGED <<opt, now, asked, at, began, pausedAt, restored, released>>
    BY DEF Pauser, Receive, Grant, Schedule, GiveUp, ExpiryResume, Resume, OfNode
  <1>2. ClockInv' /\ SignalInv'
    BY <1>1 DEF ClockInv, SignalInv, Reached, Allowed, Delay, CleanupFits
  <1>3. Max({now, received[n] + opt.pauseExpiry}) =
          IF now >= received[n] + opt.pauseExpiry THEN now ELSE received[n] + opt.pauseExpiry
    BY Times, MaxPair
  <1>4. TypeOK'
    <2>1. CASE Receive(n)
      BY <1>1, <2>1, Times DEF Receive, TypeOK
    <2>2. CASE Grant(n)
      <3>1. PICK due \in Nat : due >= now /\ Schedule(n, due)
        BY <1>3, <2>2, Times DEF Grant
      <3> QED
        BY <1>1, <3>1, Times DEF Schedule, TypeOK
    <2>3. CASE GiveUp(n)
      BY <1>1, <2>3, Times DEF GiveUp, TypeOK
    <2>4. CASE ExpiryResume(n)
      BY <1>1, <2>4, Times DEF ExpiryResume, TypeOK, ClockInv
    <2>5. CASE Resume(n)
      BY <1>1, <2>5, Times DEF Resume, TypeOK
    <2> QED
      BY <2>1, <2>2, <2>3, <2>4, <2>5 DEF Pauser
  <1>5. ASSUME NEW m \in Node PROVE NodeInv(m)' /\ HeldInv(m)'
    <2>1. CASE m # n
      BY <1>1, <2>1
      DEF Pauser, Receive, Grant, Schedule, GiveUp, ExpiryResume, Resume, TypeOK, NodeInv,
          HeldInv, Longest
    <2> USE DEF TypeOK
    <2>2. CASE m = n /\ Receive(n)
      BY <1>1, <2>2, Times DEF Receive, NodeInv, HeldInv, Longest, ClockInv, Reached, Allowed, Steps
    <2>3. CASE m = n /\ Grant(n)
      BY <1>1, <1>3, <2>3, Times
      DEF Grant, Schedule, NodeInv, HeldInv, Longest, ClockInv, Steps
    <2>4. CASE m = n /\ GiveUp(n)
      BY <1>1, <2>4, Times DEF GiveUp, NodeInv, HeldInv, Longest, Steps
    <2>5. CASE m = n /\ ExpiryResume(n)
      BY <1>1, <2>5, Times DEF ExpiryResume, NodeInv, HeldInv, Longest, ClockInv, Steps
    <2>6. CASE m = n /\ Resume(n)
      BY <1>1, <2>6, Times DEF Resume, NodeInv, HeldInv, Longest, ClockInv, Steps
    <2> QED
      BY <2>1, <2>2, <2>3, <2>4, <2>5, <2>6 DEF Pauser
  <1> QED
    BY <1>2, <1>4, <1>5

\* The signal finds Run where it is.
LEMMA SignalStepInv ==
  ASSUME IInv, Signal
  PROVE  IInv'
  <1> USE DEF IInv, Signal, coordinatorVars, nodeVars
  <1>1. TypeOK'
    BY Times DEF TypeOK
  <1>2. ClockInv'
    BY DEF ClockInv, Reached, Allowed
  <1>3. SignalInv'
    BY Times DEF TypeOK, SignalInv, ClockInv, Delay, CleanupFits
  <1>4. \A n \in Node : NodeInv(n)' /\ HeldInv(n)'
    BY DEF NodeInv, HeldInv, Longest
  <1> QED
    BY <1>1, <1>2, <1>3, <1>4

\* The clock passes nothing that is due.
LEMMA TickInv ==
  ASSUME IInv, Tick
  PROVE  IInv'
  <1> USE DEF IInv, Tick, coordinatorVars, nodeVars
  <1>1. now' = now + 1 /\ now' <= began + Allowed /\ now' <= ContextEnds
    BY Times, DueBounds
  <1>2. TypeOK'
    BY <1>1, Times DEF TypeOK
  <1>3. now' < Never
    <2>1. CASE at = "done"
      <3>1. PICK n \in Node : task[n] # Never
        BY <2>1, Times DEF Ended, HandlerDue
      <3> QED
        BY <1>1, <3>1, Times DEF NodeInv, Longest
    <2>2. CASE at # "done"
      BY <1>1, <2>2, Times DEF ClockInv, Reached, Allowed, TypeOK, Steps, Deferred
    <2> QED
      BY <2>1, <2>2
  <1>4. ClockInv'
    BY <1>1, <1>3 DEF ClockInv, Reached, Allowed
  <1>5. SignalInv'
    <2>1. UNCHANGED <<Delay, CleanupFits>>
      BY DEF Delay, CleanupFits
    <2>2. ASSUME asked # Never, at \in Steps PROVE now' <= asked + opt.sleep
      <3>1. CASE at = "shortenSleep"
        BY <1>1, <3>1, Times DEF ClockInv, Allowed, Reached
      <3>2. CASE at # "shortenSleep"
        BY <1>1, <2>2, <3>2, Times DEF ContextEnds, Steps, Deferred
      <3> QED
        BY <3>1, <3>2
    <2> QED
      BY <2>1, <2>2 DEF SignalInv
  <1>6. ASSUME NEW n \in Node PROVE NodeInv(n)' /\ HeldInv(n)'
    BY <1>1, Times DEF NodeInv, HeldInv, Longest, HandlerDue
  <1> QED
    BY <1>2, <1>4, <1>5, <1>6

\* Every step preserves the invariant.
LEMMA NextInv == IInv /\ [Next]_vars => IInv'
  <1> SUFFICES ASSUME IInv, [Next]_vars PROVE IInv'
    OBVIOUS
  <1>1. CASE Coordinator
    BY <1>1, StepsInv, DeferredInv DEF Coordinator
  <1>2. CASE \E n \in Node : Pauser(n)
    BY <1>2, PauserInv
  <1>3. CASE Signal \/ Tick
    BY <1>3, SignalStepInv, TickInv
  <1>4. CASE UNCHANGED vars
    BY <1>4
    DEF vars, coordinatorVars, nodeVars, IInv, TypeOK, ClockInv, SignalInv, NodeInv, HeldInv,
        Reached, Allowed, Delay, Longest, CleanupFits
  <1> QED
    BY <1>1, <1>2, <1>3, <1>4 DEF Next, Stutter

\* The invariant is inductive.
LEMMA Invariance == Spec => []IInv
  BY InitInv, NextInv, PTL DEF Spec

-----------------------------------------------------------------------------
\* Every variable keeps its type and no timer is overdue: the clock stops for
\* each of them.
THEOREM TypeCorrect == Spec => []TypeOK
  <1>1. IInv => TypeOK
    BY DEF IInv
  <1> QED
    BY <1>1, Invariance, PTL

\* No client's traffic is held longer than the expiry of the pause, or the
\* time-out of the PAUSE, from the request on, with no help of the coordinator
\* (Server.Pause in server.go).
THEOREM OutagesAreBounded == Spec => []OutageIsBounded
  <1>1. IInv => OutageIsBounded
    <2> SUFFICES ASSUME IInv, NEW n \in Node, holds[n]
                 PROVE  now <= received[n] + Max({opt.pauseExpiry, opt.pauseTimeout})
      BY DEF OutageIsBounded
    <2> USE DEF IInv
    <2>1. Max({opt.pauseExpiry, opt.pauseTimeout}) = Longest
      BY Times, MaxPair DEF Longest
    <2>2. task[n] >= now
      BY DEF TypeOK
    <2> QED
      BY <2>1, <2>2, Times DEF NodeInv, Longest
  <1> QED
    BY <1>1, Invariance, PTL

\* Within PauseExpiry of the start of the pause, the keeper is failed with the
\* traffic of every node held: no pauser's expiry is early (Failover.Pause and
\* Failover.Failkeeper in failover.go, Server.Pause in server.go).
THEOREM FailedWhileHeld == Spec => []HeldThroughFailover
  <1>1. IInv => HeldThroughFailover
    <2> SUFFICES ASSUME IInv, at \in {"failGet", "failExec", "await"},
                        now < pausedAt + opt.pauseExpiry, NEW n \in Node
                 PROVE  holds[n]
      BY DEF HeldThroughFailover
    <2> QED
      BY Times DEF IInv, NodeInv, HeldInv, Steps
  <1> QED
    BY <1>1, Invariance, PTL

\* Where the cleanup time-out covers the sleep, Resume and three requests, and
\* where nobody asks the failover to stop, the interval is put back and the lock
\* released (the deferred context of Failover.Run, and setupSignalHandler).
THEOREM CleanupsRun == Spec => []CleanupRuns
  <1>1. IInv => CleanupRuns
    BY DEF IInv, SignalInv, CleanupRuns
  <1> QED
    BY <1>1, Invariance, PTL

=============================================================================
