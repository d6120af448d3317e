-------------------------- MODULE AlgorithmProofs ---------------------------
(***************************************************************************)
(* The two algorithms of a failover that are worth a proof by themselves:  *)
(* the order in which Pipeline runs deferred actions, for any pipeline and *)
(* any number of runs; and what the health check decides, for any document *)
(* and any number of failures to tolerate.                                 *)
(***************************************************************************)
EXTENDS MCPipeline, MCClusterdata, FiniteSetTheorems, TLAPS

(***************************************************************************)
(* Pipeline (pkg/failover/pipeline.go).                                    *)
(***************************************************************************)
Action == Nat \X Nat

\* g is deferred before f: by an earlier step, or before it in the same step.
Before(g, f) == g[1] < f[1] \/ (g[1] = f[1] /\ g[2] < f[2])

Falls(s) == \A p, q \in DOMAIN s : p < q => Before(s[q], s[p])

\* The deferred actions of the first n steps.
DeferredOf(pipeline, n) == UNION {ToSet(pipeline[i]) : i \in 1..n}

\* What one run has scheduled and what it has run.
RunInv(r) ==
    /\ at[r] \in {Dead, Unwinding} \cup 1..Len(steps[r])
    /\ log[r] \in Seq(Action)
    /\ begun[r] \in 1..Len(steps[r])
    /\ at[r] \notin {Dead, Unwinding} => begun[r] = at[r] /\ log[r] = <<>>
    /\ Falls(stack[r]) /\ Falls(log[r])
    /\ \A q \in DOMAIN stack[r] :
          stack[r][q][1] <= begun[r] /\ \A p \in DOMAIN log[r] : Before(stack[r][q], log[r][p])
    /\ at[r] # Dead =>
          ToSet(log[r]) \cup ToSet(stack[r]) = DeferredOf(steps[r], begun[r])

PipelineInv ==
    /\ steps \in [Run -> Pipelines]
    /\ at \in [Run -> Int]
    /\ stack \in [Run -> Seq(Action)]
    /\ \A r \in Run : RunInv(r)

\* What defer makes of what is scheduled.
LEMMA ScheduleIs ==
  ASSUME NEW d \in Seq(Action), NEW s \in Seq(Action)
  PROVE  /\ Schedule(d, s) \in Seq(Action)
         /\ Len(Schedule(d, s)) = Len(d) + Len(s)
         /\ \A i \in 1..Len(d) : Schedule(d, s)[i] = d[Len(d) - i + 1]
         /\ \A i \in Len(d) + 1..Len(d) + Len(s) : Schedule(d, s)[i] = s[i - Len(d)]
  <1> DEFINE R == [i \in 1..Len(d) |-> d[Len(d) - i + 1]]
  <1>1. \A i \in 1..Len(d) : Len(d) - i + 1 \in 1..Len(d)
    OBVIOUS
  <1>2. R \in [1..Len(d) -> Action]
    BY <1>1
  <1>3. R \in Seq(Action) /\ Len(R) = Len(d)
    BY <1>2
  <1>4. \A i \in 1..Len(d) : R[i] = d[Len(d) - i + 1]
    OBVIOUS
  <1>5. Schedule(d, s) = R \o s
    BY DEF Schedule, Reverse
  <1> HIDE DEF R
  <1>6. R \o s \in Seq(Action) /\ Len(R \o s) = Len(d) + Len(s)
    BY <1>3
  <1>7. \A i \in 1..Len(d) : (R \o s)[i] = R[i]
    BY <1>3
  <1>8. \A i \in Len(d) + 1..Len(d) + Len(s) : (R \o s)[i] = s[i - Len(d)]
    BY <1>3
  <1> QED
    BY <1>4, <1>5, <1>6, <1>7, <1>8

\* Nothing is lost, or scheduled twice.
LEMMA ScheduleSet ==
  ASSUME NEW d \in Seq(Action), NEW s \in Seq(Action)
  PROVE  ToSet(Schedule(d, s)) = ToSet(d) \cup ToSet(s)
  <1> DEFINE S == Schedule(d, s)
  <1>1. DOMAIN S = 1..Len(d) + Len(s) /\ Len(d) \in Nat /\ Len(s) \in Nat
    <2>1. S \in Seq(Action) /\ Len(S) = Len(d) + Len(s)
      BY ScheduleIs
    <2> HIDE DEF S
    <2> QED
      BY <2>1
  <1>2. \A i \in 1..Len(d) : S[i] = d[Len(d) - i + 1]
    BY ScheduleIs
  <1>3. \A i \in Len(d) + 1..Len(d) + Len(s) : S[i] = s[i - Len(d)]
    BY ScheduleIs
  <1> HIDE DEF S
  <1>4. ASSUME NEW i \in DOMAIN S PROVE S[i] \in ToSet(d) \cup ToSet(s)
    <2>1. CASE i <= Len(d)
      <3>1. Len(d) - i + 1 \in DOMAIN d
        BY <1>1, <1>2, <1>3, <2>1
      <3> QED
        BY <1>1, <1>2, <1>3, <2>1, <3>1 DEF ToSet
    <2>2. CASE i > Len(d)
      <3>1. i - Len(d) \in DOMAIN s
        BY <1>1, <1>2, <1>3, <2>2
      <3> QED
        BY <1>1, <1>2, <1>3, <2>2, <3>1 DEF ToSet
    <2> QED
      BY <1>1, <1>2, <1>3, <2>1, <2>2
  <1>5. ASSUME NEW i \in DOMAIN d PROVE d[i] \in ToSet(S)
    <2>1. Len(d) - i + 1 \in 1..Len(d) /\ Len(d) - (Len(d) - i + 1) + 1 = i
      BY <1>1, <1>2, <1>3
    <2>2. S[Len(d) - i + 1] = d[i] /\ Len(d) - i + 1 \in DOMAIN S
      BY <1>1, <1>2, <1>3, <2>1
    <2> QED
      BY <2>2 DEF ToSet
  <1>6. ASSUME NEW i \in DOMAIN s PROVE s[i] \in ToSet(S)
    <2>1. Len(d) + i \in Len(d) + 1..Len(d) + Len(s) /\ Len(d) + i - Len(d) = i
      BY <1>1, <1>2, <1>3
    <2>2. S[Len(d) + i] = s[i] /\ Len(d) + i \in DOMAIN S
      BY <1>1, <1>2, <1>3, <2>1
    <2> QED
      BY <2>2 DEF ToSet
  <1>7. ToSet(S) = ToSet(d) \cup ToSet(s)
    BY <1>4, <1>5, <1>6 DEF ToSet
  <1> QED
    BY <1>7 DEF S

\* The actions of a step come before those of earlier ones, in reverse.
LEMMA ScheduleFalls ==
  ASSUME NEW d \in Seq(Action), NEW s \in Seq(Action), NEW n \in Nat,
         \A j \in DOMAIN d : d[j] = <<n, j>>,
         Falls(s), \A q \in DOMAIN s : s[q][1] < n
  PROVE  /\ Falls(Schedule(d, s))
         /\ \A q \in DOMAIN Schedule(d, s) : Schedule(d, s)[q][1] <= n
  <1> DEFINE S == Schedule(d, s)
  <1>1. DOMAIN S = 1..Len(d) + Len(s) /\ Len(d) \in Nat /\ Len(s) \in Nat
    <2>1. S \in Seq(Action) /\ Len(S) = Len(d) + Len(s)
      BY ScheduleIs
    <2> HIDE DEF S
    <2> QED
      BY <2>1
  <1>2. \A i \in 1..Len(d) : S[i] = d[Len(d) - i + 1]
    BY ScheduleIs
  <1>3. \A i \in Len(d) + 1..Len(d) + Len(s) : S[i] = s[i - Len(d)]
    BY ScheduleIs
  <1> HIDE DEF S
  <1>4. ASSUME NEW i \in 1..Len(d) PROVE S[i] = <<n, Len(d) - i + 1>>
    <2>1. Len(d) - i + 1 \in DOMAIN d /\ S[i] = d[Len(d) - i + 1]
      BY <1>1, <1>2, <1>3
    <2>2. d[Len(d) - i + 1] = <<n, Len(d) - i + 1>>
      BY <2>1
    <2> QED
      BY <2>1, <2>2
  <1>5. \A i \in DOMAIN S : i > Len(d) => i - Len(d) \in DOMAIN s /\ S[i] = s[i - Len(d)]
    BY <1>1, <1>2, <1>3
  <1>6. \A i \in DOMAIN s : s[i] \in Action
    OBVIOUS
  <1>7. ASSUME NEW p \in DOMAIN S, NEW q \in DOMAIN S, p < q PROVE Before(S[q], S[p])
    <2>1. CASE q <= Len(d)
      BY <1>1, <1>2, <1>3, <1>4, <1>7, <2>1 DEF Before
    <2>2. CASE p <= Len(d) /\ q > Len(d)
      BY <1>1, <1>2, <1>3, <1>4, <1>5, <2>2 DEF Before
    <2>3. CASE p > Len(d)
      BY <1>1, <1>2, <1>3, <1>5, <1>7, <2>3 DEF Falls
    <2> QED
      BY <1>1, <1>2, <1>3, <1>7, <2>1, <2>2, <2>3
  <1>8. ASSUME NEW q \in DOMAIN S PROVE S[q][1] <= n
    <2>1. CASE q <= Len(d)
      BY <1>1, <1>2, <1>3, <1>4, <2>1
    <2>2. CASE q > Len(d)
      BY <1>1, <1>2, <1>3, <1>5, <1>6, <2>2 DEF Action
    <2> QED
      BY <1>1, <1>2, <1>3, <2>1, <2>2
  <1> QED
    BY <1>7, <1>8 DEF S, Falls

\* What the steps of a pipeline defer.
LEMMA StepsAre ==
  ASSUME NEW p \in Pipelines
  PROVE  /\ p \in Seq(Seq(Action)) /\ Len(p) \in Nat \ {0}
         /\ \A i \in 1..Len(p) :
               p[i] \in Seq(Action) /\ \A j \in DOMAIN p[i] : p[i][j] = <<i, j>>
  <1>1. /\ p \in Seq(Seq(Action)) /\ p # <<>>
        /\ \A i \in DOMAIN p : \A j \in DOMAIN p[i] : p[i][j] = <<i, j>>
    BY PipelinesAssumption DEF PipelinesAssumption, Action
  <1> QED
    BY <1>1

\* One step more.
LEMMA DeferredOfNext ==
  ASSUME NEW p, NEW n \in Nat
  PROVE  DeferredOf(p, n + 1) = DeferredOf(p, n) \cup ToSet(p[n + 1])
  <1>1. 1..(n + 1) = 1..n \cup {n + 1}
    OBVIOUS
  <1> QED
    BY <1>1 DEF DeferredOf

\* The first step has begun.
LEMMA PipelineInitInv == MCInit => PipelineInv
  <1> SUFFICES ASSUME MCInit PROVE PipelineInv
    OBVIOUS
  <1> USE DEF MCInit, Init
  <1>1. ASSUME NEW r \in Run PROVE stack[r] \in Seq(Action) /\ RunInv(r)
    <2> DEFINE p == steps[r]
    <2>1. p \in Pipelines /\ Len(p) \in Nat \ {0} /\ p[1] \in Seq(Action)
          /\ \A j \in DOMAIN p[1] : p[1][j] = <<1, j>>
      <3>1. p \in Pipelines
        OBVIOUS
      <3>2. 1 \in 1..Len(p)
        BY <3>1, StepsAre
      <3> QED
        BY <3>1, <3>2, StepsAre
    <2>2. stack[r] = Schedule(p[1], <<>>) /\ log[r] = <<>> /\ at[r] = 1 /\ begun[r] = 1
      OBVIOUS
    <2>3. <<>> \in Seq(Action) /\ DOMAIN <<>> = {} /\ Falls(<<>>)
      BY DEF Falls
    <2> HIDE DEF p
    <2>4. /\ Falls(stack[r]) /\ \A q \in DOMAIN stack[r] : stack[r][q][1] <= 1
          /\ stack[r] \in Seq(Action)
      <3>1. \A q \in DOMAIN <<>> : <<>>[q][1] < 1
        BY <2>3
      <3> QED
        BY <2>1, <2>2, <2>3, <3>1, ScheduleFalls, ScheduleIs
    <2>5. ToSet(log[r]) \cup ToSet(stack[r]) = DeferredOf(p, 1)
      <3>1. ToSet(stack[r]) = ToSet(p[1]) \cup ToSet(<<>>)
        BY <2>1, <2>2, <2>3, ScheduleSet
      <3>2. ToSet(<<>>) = {} /\ DeferredOf(p, 1) = ToSet(p[1])
        BY <2>3 DEF ToSet, DeferredOf
      <3> QED
        BY <2>2, <3>1, <3>2
    <2>6. 1 \in 1..Len(p)
      BY <2>1
    <2> QED
      BY <2>2, <2>3, <2>4, <2>5, <2>6 DEF RunInv, Falls, p
  <1>2. /\ steps \in [Run -> Pipelines] /\ at \in [Run -> Int]
        /\ \E f : stack = [r \in Run |-> f[r]]
    BY DEF Init
  <1> QED
    BY <1>1, <1>2 DEF PipelineInv

\* A run that does not move.
LEMMA StaysInv ==
  ASSUME PipelineInv, NEW r \in Run,
         UNCHANGED <<steps, at[r], stack[r], log[r], begun[r]>>
  PROVE  RunInv(r)'
  BY DEF PipelineInv, RunInv

\* The step that begins schedules its deferred actions.
LEMMA BeginInv ==
  ASSUME PipelineInv, NEW r \in Run, StepSucceeds(r), MCNext
  PROVE  stack'[r] \in Seq(Action) /\ RunInv(r)'
  <1> DEFINE n == at[r] + 1
             p == steps[r]
  <1>1. /\ at[r] \in 1..Len(p) - 1 /\ p \in Pipelines /\ Len(p) \in Nat
        /\ stack[r] \in Seq(Action) /\ begun[r] = at[r] /\ log[r] = <<>>
        /\ n \in 1..Len(p) /\ n \in Nat /\ at[r] \in Nat /\ at[r] \notin {Dead, Unwinding}
    BY StepsAre DEF PipelineInv, RunInv, StepSucceeds, Dead, Unwinding
  <1>2. /\ steps' = steps /\ at'[r] = n /\ stack'[r] = Schedule(p[n], stack[r])
        /\ begun'[r] = n /\ log'[r] = <<>>
    BY <1>1 DEF PipelineInv, StepSucceeds, MCNext, Dead, Unwinding
  <1>3. p[n] \in Seq(Action) /\ \A j \in DOMAIN p[n] : p[n][j] = <<n, j>>
    BY <1>1, StepsAre
  <1>4. Falls(stack[r]) /\ \A q \in DOMAIN stack[r] : stack[r][q][1] < n
    <2>1. \A q \in DOMAIN stack[r] : stack[r][q] \in Action /\ stack[r][q][1] <= at[r]
      BY <1>1 DEF PipelineInv, RunInv
    <2>2. \A q \in DOMAIN stack[r] : stack[r][q][1] \in Nat
      BY <2>1 DEF Action
    <2> QED
      BY <1>1, <2>1, <2>2 DEF PipelineInv, RunInv
  <1> HIDE DEF p, n
  <1>5. /\ Falls(stack'[r]) /\ stack'[r] \in Seq(Action)
        /\ \A q \in DOMAIN stack'[r] : stack'[r][q][1] <= n
    BY <1>1, <1>2, <1>3, <1>4, ScheduleFalls, ScheduleIs
  <1>6. ToSet(log'[r]) \cup ToSet(stack'[r]) = DeferredOf(p, n)
    <2>1. ToSet(log[r]) \cup ToSet(stack[r]) = DeferredOf(p, at[r])
      BY <1>1 DEF PipelineInv, RunInv, p
    <2>2. DeferredOf(p, n) = DeferredOf(p, at[r]) \cup ToSet(p[n])
      BY <1>1, DeferredOfNext DEF n
    <2>3. ToSet(stack'[r]) = ToSet(p[n]) \cup ToSet(stack[r])
      BY <1>1, <1>2, <1>3, ScheduleSet
    <2> QED
      BY <1>1, <1>2, <2>1, <2>2, <2>3
  <1>7. <<>> \in Seq(Action) /\ Falls(<<>>) /\ DOMAIN <<>> = {}
    BY DEF Falls
  <1> QED
    BY <1>1, <1>2, <1>5, <1>6, <1>7 DEF RunInv, p

\* The steps are over, or the run is.
LEMMA EndInv ==
  ASSUME PipelineInv, NEW r \in Run, LastStepSucceeds(r) \/ StepFails(r) \/ Die(r), MCNext
  PROVE  stack'[r] \in Seq(Action) /\ RunInv(r)'
  <1>1. /\ steps' = steps /\ at'[r] \in {Dead, Unwinding} /\ stack'[r] \in {stack[r], <<>>}
        /\ begun'[r] = begun[r] /\ log'[r] = log[r]
        /\ at'[r] # Dead => at[r] # Dead /\ stack'[r] = stack[r]
    <2>1. at[r] \in Int /\ Len(steps[r]) \in Nat \ {0} /\ begun[r] \in Nat \ {0}
      BY StepsAre DEF PipelineInv, RunInv
    <2>2. CASE LastStepSucceeds(r) \/ StepFails(r)
      BY <2>1, <2>2 DEF PipelineInv, LastStepSucceeds, StepFails, MCNext, Dead, Unwinding
    <2>3. CASE Die(r)
      BY <2>1, <2>3 DEF PipelineInv, Die, MCNext, Dead, Unwinding
    <2> QED
      BY <2>2, <2>3
  <1>2. <<>> \in Seq(Action) /\ Falls(<<>>) /\ DOMAIN <<>> = {}
    BY DEF Falls
  <1> QED
    BY <1>1, <1>2 DEF PipelineInv, RunInv, Dead, Unwinding

\* A deferred action is run.
LEMMA UnwindInv ==
  ASSUME PipelineInv, NEW r \in Run, RunDeferred(r), MCNext
  PROVE  stack'[r] \in Seq(Action) /\ RunInv(r)'
  <1> DEFINE s == stack[r]
             l == log[r]
  <1>1. s \in Seq(Action) /\ s # <<>> /\ l \in Seq(Action) /\ at[r] = Unwinding
        /\ begun[r] \in 1..Len(steps[r]) /\ Len(steps[r]) \in Nat
    BY StepsAre DEF PipelineInv, RunInv, RunDeferred
  <1>2. Tail(s) \in Seq(Action) /\ Len(Tail(s)) = Len(s) - 1 /\ Len(s) \in Nat \ {0}
        /\ \A q \in DOMAIN Tail(s) : q + 1 \in DOMAIN s /\ Tail(s)[q] = s[q + 1]
    BY <1>1
  <1>3. Tail(s) # s
    <2> SUFFICES ASSUME Tail(s) = s PROVE FALSE
      OBVIOUS
    <2>1. Len(s) = Len(s) - 1
      BY <1>2
    <2> QED
      BY <1>2, <2>1
  <1>4. /\ steps' = steps /\ at'[r] = Unwinding /\ stack'[r] = Tail(s)
        /\ begun'[r] = begun[r] /\ log'[r] = Append(l, Head(s))
    BY <1>1, <1>3 DEF PipelineInv, RunDeferred, MCNext, Dead, Unwinding
  <1>5. /\ Falls(s) /\ Falls(l)
        /\ \A q \in DOMAIN s : s[q][1] <= begun[r] /\ \A p \in DOMAIN l : Before(s[q], l[p])
        /\ ToSet(l) \cup ToSet(s) = DeferredOf(steps[r], begun[r])
    <2>1. RunInv(r) /\ at[r] # Dead
      BY <1>1 DEF PipelineInv, Dead, Unwinding
    <2> QED
      BY <2>1 DEF RunInv
  <1> HIDE DEF s, l
  <1>6. Head(s) = s[1] /\ 1 \in DOMAIN s /\ Head(s) \in Action
    BY <1>1, <1>2
  <1>7. /\ Append(l, Head(s)) \in Seq(Action) /\ DOMAIN Append(l, Head(s)) = 1..Len(l) + 1
        /\ Append(l, Head(s))[Len(l) + 1] = s[1] /\ Len(l) \in Nat /\ DOMAIN l = 1..Len(l)
        /\ \A p \in DOMAIN l : Append(l, Head(s))[p] = l[p]
    BY <1>1, <1>6
  <1>8. Falls(Append(l, Head(s)))
    <2> SUFFICES ASSUME NEW p \in 1..Len(l) + 1, NEW q \in 1..Len(l) + 1, p < q
                 PROVE  Before(Append(l, Head(s))[q], Append(l, Head(s))[p])
      BY <1>7 DEF Falls
    <2>1. p \in DOMAIN l
      BY <1>7
    <2>2. CASE q = Len(l) + 1
      BY <1>5, <1>6, <1>7, <2>1, <2>2
    <2>3. CASE q # Len(l) + 1
      <3>1. q \in DOMAIN l
        BY <1>7, <2>3
      <3> QED
        BY <1>5, <1>7, <2>1, <3>1 DEF Falls
    <2> QED
      BY <2>2, <2>3
  <1>9. Falls(Tail(s))
    <2> SUFFICES ASSUME NEW p \in DOMAIN Tail(s), NEW q \in DOMAIN Tail(s), p < q
                 PROVE  Before(Tail(s)[q], Tail(s)[p])
      BY DEF Falls
    <2>1. p + 1 < q + 1 /\ p + 1 \in DOMAIN s /\ q + 1 \in DOMAIN s
      BY <1>2
    <2> QED
      BY <1>2, <1>5, <2>1 DEF Falls
  <1>10. ASSUME NEW q \in DOMAIN Tail(s)
         PROVE  /\ Tail(s)[q][1] <= begun[r]
                /\ \A p \in DOMAIN Append(l, Head(s)) : Before(Tail(s)[q], Append(l, Head(s))[p])
    <2>1. q + 1 \in DOMAIN s /\ Tail(s)[q] = s[q + 1] /\ 1 < q + 1
      BY <1>2
    <2>2. Before(s[q + 1], s[1])
      BY <1>5, <1>6, <2>1 DEF Falls
    <2> QED
      BY <1>5, <1>7, <2>1, <2>2
  <1>11. ToSet(Append(l, Head(s))) \cup ToSet(Tail(s)) = ToSet(l) \cup ToSet(s)
    <2>1. ToSet(Append(l, Head(s))) = ToSet(l) \cup {s[1]}
      BY <1>7 DEF ToSet
    <2>2. ToSet(s) = {s[1]} \cup ToSet(Tail(s))
      <3>1. \A q \in DOMAIN s : q = 1 \/ (q - 1 \in DOMAIN Tail(s) /\ Tail(s)[q - 1] = s[q])
        BY <1>1, <1>2
      <3>2. ToSet(s) \subseteq {s[1]} \cup ToSet(Tail(s))
        BY <3>1 DEF ToSet
      <3>3. ToSet(Tail(s)) \subseteq ToSet(s) /\ s[1] \in ToSet(s)
        BY <1>2, <1>6 DEF ToSet
      <3> QED
        BY <3>2, <3>3
    <2> QED
      BY <2>1, <2>2
  <1> QED
    BY <1>1, <1>2, <1>4, <1>5, <1>7, <1>8, <1>9, <1>10, <1>11 DEF RunInv

\* Every step preserves the invariant, of the run that moves and of the others.
LEMMA PipelineNextInv == PipelineInv /\ [MCNext]_mcvars => PipelineInv'
  <1> SUFFICES ASSUME PipelineInv, [MCNext]_mcvars PROVE PipelineInv'
    OBVIOUS
  <1>1. CASE UNCHANGED mcvars
    BY <1>1 DEF mcvars, vars, PipelineInv, RunInv
  <1>2. CASE MCNext
    <2>1. PICK r \in Run : \/ StepSucceeds(r) \/ LastStepSucceeds(r) \/ StepFails(r)
                           \/ RunDeferred(r) \/ Die(r)
      BY <1>2 DEF MCNext, Next
    <2>2. stack'[r] \in Seq(Action) /\ RunInv(r)'
      BY <1>2, <2>1, BeginInv, EndInv, UnwindInv
    <2>3. /\ steps' = steps /\ at' \in [Run -> Int]
          /\ \E s \in Seq(Action) : stack' = [stack EXCEPT ![r] = s]
          /\ \A q \in Run \ {r} : at'[q] = at[q] /\ stack'[q] = stack[q]
      <3>1. at[r] \in Int /\ steps' = steps
        BY <2>1 DEF PipelineInv, StepSucceeds, LastStepSucceeds, StepFails, RunDeferred, Die
      <3>2. at' \in [Run -> Int] /\ \A q \in Run \ {r} : at'[q] = at[q]
        BY <2>1, <3>1 DEF PipelineInv, StepSucceeds, LastStepSucceeds, StepFails, RunDeferred, Die,
           Unwinding, Dead
      <3>3. stack' = [stack EXCEPT ![r] = stack'[r]]
        BY <2>1 DEF PipelineInv, StepSucceeds, LastStepSucceeds, StepFails, RunDeferred, Die
      <3> QED
        BY <2>2, <3>1, <3>2, <3>3 DEF PipelineInv
    <2>4. ASSUME NEW q \in Run, q # r PROVE RunInv(q)'
      <3>1. at[q] <= begun[q]
        <4>1. RunInv(q) /\ Len(steps[q]) \in Nat
          BY StepsAre DEF PipelineInv
        <4>2. begun[q] \in Nat
          BY <4>1 DEF RunInv
        <4> QED
          BY <4>1, <4>2 DEF RunInv, Dead, Unwinding
      <3>2. log'[q] = log[q] /\ begun'[q] = begun[q]
        BY <1>2, <2>3, <2>4, <3>1, StepsAre DEF MCNext, PipelineInv, RunInv
      <3> QED
        BY <2>3, <2>4, <3>2, StaysInv
    <2> QED
      BY <2>2, <2>3, <2>4 DEF PipelineInv
  <1> QED
    BY <1>1, <1>2

\* The invariant is inductive.
LEMMA PipelineInvariance == MCSpec => []PipelineInv
  BY PipelineInitInv, PipelineNextInv, PTL DEF MCSpec

\* Of any pipeline and any number of runs, the deferred actions run at most once
\* and in the reverse of the order in which "defer" met them (pipeline.go).
THEOREM DefersUnwind == MCSpec => []LastInFirstOut
  <1>1. PipelineInv => LastInFirstOut
    BY DEF PipelineInv, RunInv, Falls, Before, LastInFirstOut
  <1> QED
    BY <1>1, PipelineInvariance, PTL

\* A run of any pipeline that returns has run the deferred actions of every step
\* it began, the one that failed included, and no others (pipeline.go).
THEOREM DefersAreComplete == MCSpec => []DeferredOfBegunSteps
  <1>1. PipelineInv => DeferredOfBegunSteps
    <2> SUFFICES ASSUME PipelineInv, NEW r \in Run, at[r] = Unwinding, stack[r] = <<>>
                 PROVE  ToSet(log[r]) = DeferredOf(steps[r], begun[r])
      BY DEF DeferredOfBegunSteps, DeferredOf
    <2>1. ToSet(stack[r]) = {}
      BY DEF ToSet
    <2>2. RunInv(r) /\ at[r] # Dead
      BY DEF PipelineInv, Dead, Unwinding
    <2> QED
      BY <2>1, <2>2 DEF RunInv
  <1> QED
    BY <1>1, PipelineInvariance, PTL

-----------------------------------------------------------------------------
(***************************************************************************)
(* The health check (pkg/stolon/stolon.go).                                *)
(***************************************************************************)
\* What stolon's sentinel guarantees of a document: a keeper has one DB, and the
\* master's standbys are other DBs, without repetition. An external standby is
\* none of them.
WellFormed(c) ==
    /\ c = [min |-> c.min, master |-> c.master, dbs |-> c.dbs]
    /\ c.min \in Nat
    /\ IsFiniteSet(DOMAIN c.dbs)
    /\ \A u \in DOMAIN c.dbs : c.dbs[u].keeper # NoKeeper /\ c.dbs[u].healthy \in BOOLEAN
    /\ \A u, v \in DOMAIN c.dbs : c.dbs[u].keeper = c.dbs[v].keeper => u = v
    /\ c.master \in DOMAIN c.dbs =>
          /\ Master(c).sync \in Seq(ToSet(Master(c).sync))
          /\ Master(c).external \in Seq(ToSet(Master(c).external))
          /\ IsInjective(Master(c).sync)
          /\ c.master \notin ToSet(Master(c).sync)
          /\ ToSet(Master(c).external) \cap DOMAIN c.dbs = {}

\* The healthy DBs that the master replicates to.
SyncUids(c) ==
    {v \in HealthyUids(c) : \E i \in DOMAIN Master(c).sync : Master(c).sync[i] = v}

\* DBs are counted by their keepers.
LEMMA KeepersCount ==
  ASSUME NEW c, WellFormed(c), NEW T \in SUBSET DOMAIN c.dbs
  PROVE  /\ IsFiniteSet(T) /\ IsFiniteSet({c.dbs[u].keeper : u \in T})
         /\ Cardinality({c.dbs[u].keeper : u \in T}) = Cardinality(T)
  <1> DEFINE K == {c.dbs[u].keeper : u \in T}
             f == [u \in T |-> c.dbs[u].keeper]
  <1>1. IsFiniteSet(T)
    BY FS_Subset DEF WellFormed
  <1>2. f \in Bijection(T, K)
    BY DEF WellFormed, Bijection, Injection, Surjection, IsInjective
  <1>3. ExistsBijection(T, K)
    BY <1>2 DEF ExistsBijection
  <1> QED
    BY <1>1, <1>3, FS_Bijection

\* A set has subsets of every size up to its own.
LEMMA AtLeastIs ==
  ASSUME NEW S, IsFiniteSet(S), NEW n \in Nat
  PROVE  AtLeast(S, n) <=> n <= Cardinality(S)
  <1>1. ASSUME AtLeast(S, n) PROVE n <= Cardinality(S)
    BY <1>1, FS_Subset DEF AtLeast
  <1>2. ASSUME n <= Cardinality(S) PROVE AtLeast(S, n)
    <2>1. Cardinality(S) \in Nat /\ ExistsBijection(1..Cardinality(S), S)
      BY FS_CardinalityType
    <2>2. PICK f : f \in Bijection(1..Cardinality(S), S)
      BY <2>1 DEF ExistsBijection
    <2> DEFINE T == {f[i] : i \in 1..n}
               g == [i \in 1..n |-> f[i]]
    <2>3. 1..n \subseteq 1..Cardinality(S)
      BY <1>2, <2>1
    <2>4. f \in [1..Cardinality(S) -> S] /\ \A a, b \in 1..Cardinality(S) : f[a] = f[b] => a = b
      BY <2>2 DEF Bijection, Injection, IsInjective
    <2>5. T \in SUBSET S
      BY <2>3, <2>4
    <2>6. g \in Bijection(1..n, T)
      BY <2>3, <2>4 DEF Bijection, Injection, Surjection, IsInjective
    <2>7. ExistsBijection(1..n, T)
      BY <2>6 DEF ExistsBijection
    <2>8. IsFiniteSet(1..n) /\ Cardinality(1..n) = n
      BY FS_Interval
    <2>9. Cardinality(T) = n
      BY <2>7, <2>8, FS_Bijection
    <2> QED
      BY <2>5, <2>9 DEF AtLeast
  <1> QED
    BY <1>1, <1>2

\* The healthy synchronous standbys are DBs, each counted once.
LEMMA SynchronousCount ==
  ASSUME NEW c, WellFormed(c), c.master \in DOMAIN c.dbs
  PROVE  Cardinality(HealthySynchronous(c)) = Cardinality(SyncUids(c))
  <1> DEFINE sync == Master(c).sync
             external == Master(c).external
             uids == sync \o external
             H == HealthySynchronous(c)
             f == [i \in H |-> sync[i]]
  <1>1. /\ Len(sync) \in Nat /\ DOMAIN sync = 1..Len(sync) /\ Len(external) \in Nat
        /\ DOMAIN uids = 1..(Len(sync) + Len(external))
        /\ \A i \in 1..Len(sync) : uids[i] = sync[i]
        /\ \A i \in DOMAIN uids : i > Len(sync) => uids[i] \in ToSet(external)
    <2>1. sync \in Seq(ToSet(sync)) /\ external \in Seq(ToSet(external))
      BY DEF WellFormed
    <2> HIDE DEF sync, external
    <2>2. \A i \in DOMAIN uids : i > Len(sync) => uids[i] = external[i - Len(sync)]
      BY <2>1
    <2>3. \A i \in DOMAIN uids : i > Len(sync) => i - Len(sync) \in DOMAIN external
      BY <2>1
    <2> QED
      BY <2>1, <2>2, <2>3 DEF ToSet
  <1>2. H = {i \in DOMAIN uids : DB(c, uids[i]).healthy}
    BY DEF HealthySynchronous, SynchronousStandbys
  <1>3. \A i \in DOMAIN uids : i > Len(sync) => uids[i] \notin DOMAIN c.dbs
    BY <1>1 DEF WellFormed
  <1>4. ASSUME NEW u PROVE DB(c, u).healthy <=> u \in HealthyUids(c)
    <2>1. CASE u \in DOMAIN c.dbs
      BY <2>1 DEF DB, HealthyUids
    <2>2. CASE u \notin DOMAIN c.dbs
      <3>1. DB(c, u).healthy = FALSE
        BY <2>2 DEF DB, ZeroDB
      <3> QED
        BY <2>2, <3>1 DEF HealthyUids
    <2> QED
      BY <2>1, <2>2
  <1>5. H = {i \in 1..Len(sync) : sync[i] \in HealthyUids(c)}
    <2>1. \A i \in DOMAIN uids : i \in H <=> uids[i] \in HealthyUids(c)
      BY <1>2, <1>4
    <2>2. HealthyUids(c) \subseteq DOMAIN c.dbs
      BY DEF HealthyUids
    <2>3. H \subseteq DOMAIN uids
      BY <1>2
    <2> HIDE DEF H, uids, sync, external
    <2>4. ASSUME NEW i \in H PROVE i \in 1..Len(sync)
      BY <1>1, <1>3, <2>1, <2>2, <2>3
    <2>5. 1..Len(sync) \subseteq DOMAIN uids
      BY <1>1
    <2> QED
      BY <1>1, <2>1, <2>3, <2>4, <2>5
  <1>6. IsInjective(sync)
    BY DEF WellFormed
  <1> HIDE DEF sync, H
  <1>7. SyncUids(c) = {v \in HealthyUids(c) : \E i \in DOMAIN sync : sync[i] = v}
    BY DEF SyncUids, sync
  <1>8. f \in Bijection(H, SyncUids(c))
    BY <1>1, <1>5, <1>6, <1>7 DEF Bijection, Injection, Surjection, IsInjective
  <1>9. ExistsBijection(H, SyncUids(c))
    BY <1>8 DEF ExistsBijection
  <1>10. IsFiniteSet(H)
    <2>1. IsFiniteSet(1..Len(sync))
      BY <1>1, FS_Interval
    <2>2. H \in SUBSET (1..Len(sync))
      BY <1>5
    <2> HIDE DEF uids, external, f
    <2> QED
      BY <2>1, <2>2, FS_Subset
  <1> QED
    BY <1>9, <1>10, FS_Bijection DEF H

\* The healthy DBs other than the master's are its standbys, synchronous or not.
LEMMA StandbyCount ==
  ASSUME NEW c, WellFormed(c), c.master \in DOMAIN c.dbs
  PROVE  /\ IsFiniteSet(StandbyKeepers(c)) /\ IsFiniteSet(SyncKeepers(c))
         /\ Cardinality(HealthySynchronous(c)) = Cardinality(SyncKeepers(c))
         /\ HealthyStandbys(c) = Cardinality(StandbyKeepers(c))
         /\ Cardinality(StandbyKeepers(c)) = Cardinality(HealthyUids(c) \ {c.master})
  <1> DEFINE D == HealthyUids(c) \ {c.master}
             S == SyncUids(c)
  <1>1. HealthyUids(c) \subseteq DOMAIN c.dbs /\ D \in SUBSET DOMAIN c.dbs /\ S \in SUBSET D
    BY DEF HealthyUids, SyncUids, WellFormed, ToSet
  <1>2. Master(c) = c.dbs[c.master]
    BY DEF Master, DB
  <1>3. StandbyKeepers(c) = {c.dbs[u].keeper : u \in D}
    BY <1>1, <1>2 DEF StandbyKeepers, WellFormed
  <1>4. SyncKeepers(c) = {c.dbs[u].keeper : u \in S}
    BY DEF SyncKeepers, SyncUids
  <1>5. /\ IsFiniteSet(D) /\ IsFiniteSet(StandbyKeepers(c))
        /\ Cardinality(StandbyKeepers(c)) = Cardinality(D)
    <2>1. D \in SUBSET DOMAIN c.dbs
      BY <1>1
    <2> HIDE DEF D
    <2> QED
      BY <1>3, <2>1, KeepersCount
  <1>6. /\ IsFiniteSet(S) /\ IsFiniteSet(SyncKeepers(c))
        /\ Cardinality(SyncKeepers(c)) = Cardinality(S)
    <2>1. S \in SUBSET DOMAIN c.dbs
      BY <1>1
    <2> HIDE DEF S
    <2> QED
      BY <1>4, <2>1, KeepersCount
  <1>7. HealthyAsynchronous(c) = D \ S
    <2>1. ASSUME NEW u \in DOMAIN c.dbs, c.dbs[u].healthy
          PROVE  /\ c.dbs[u].keeper # Master(c).keeper <=> u # c.master
                 /\ (\E i \in DOMAIN SynchronousStandbys(c) :
                        c.dbs[u].keeper = SynchronousStandbys(c)[i].keeper) <=> u \in S
      <3> DEFINE sync == Master(c).sync
                 external == Master(c).external
                 uids == sync \o external
      <3>1. /\ DOMAIN sync \subseteq DOMAIN uids
            /\ \A i \in DOMAIN sync : uids[i] = sync[i]
            /\ \A i \in DOMAIN uids : i \in DOMAIN sync \/ uids[i] \notin DOMAIN c.dbs
        <4>1. sync \in Seq(ToSet(sync)) /\ external \in Seq(ToSet(external))
          BY DEF WellFormed
        <4>2. ToSet(external) \cap DOMAIN c.dbs = {}
          BY DEF WellFormed
        <4> HIDE DEF sync, external
        <4>3. \A i \in DOMAIN uids : i \notin DOMAIN sync =>
                 i - Len(sync) \in DOMAIN external /\ uids[i] = external[i - Len(sync)]
          BY <4>1
        <4> QED
          BY <4>1, <4>2, <4>3 DEF ToSet
      <3>2. /\ DOMAIN SynchronousStandbys(c) = DOMAIN uids
            /\ \A i \in DOMAIN uids : SynchronousStandbys(c)[i] = DB(c, uids[i])
        BY DEF SynchronousStandbys
      <3>3. \A v : c.dbs[u].keeper = DB(c, v).keeper <=> u = v
        <4> SUFFICES ASSUME NEW v PROVE c.dbs[u].keeper = DB(c, v).keeper <=> u = v
          OBVIOUS
        <4>1. CASE v \in DOMAIN c.dbs
          BY <4>1 DEF DB, WellFormed
        <4>2. CASE v \notin DOMAIN c.dbs
          <5>1. DB(c, v).keeper = NoKeeper
            BY <4>2 DEF DB, ZeroDB
          <5> QED
            BY <4>2, <5>1 DEF WellFormed
        <4> QED
          BY <4>1, <4>2
      <3>4. u \in S <=> \E i \in DOMAIN sync : sync[i] = u
        BY <2>1 DEF SyncUids, HealthyUids
      <3> HIDE DEF sync, uids, S
      <3>5. (\E i \in DOMAIN uids : u = uids[i]) <=> \E i \in DOMAIN sync : sync[i] = u
        BY <3>1
      <3> QED
        BY <1>2, <3>2, <3>3, <3>4, <3>5 DEF Master
    <2> HIDE DEF S
    <2> QED
      BY <1>1, <2>1 DEF HealthyAsynchronous, AsynchronousStandbys, HealthyUids
  <1>8. Cardinality(D \ S) = Cardinality(D) - Cardinality(S)
    <2>1. D \cap S = S
      BY <1>1
    <2> QED
      BY <1>5, <2>1, FS_Difference
  <1>9. HealthyStandbys(c) = Cardinality(D)
    <2>1. Cardinality(D) \in Nat /\ Cardinality(S) \in Nat
      BY <1>5, <1>6, FS_CardinalityType
    <2> HIDE DEF D, S
    <2> QED
      BY <1>7, <1>8, <2>1, SynchronousCount DEF HealthyStandbys, S
  <1> QED
    BY <1>5, <1>6, <1>9, SynchronousCount

\* The health check without its messages.
LEMMA CheckHealthyIs ==
  ASSUME NEW c, NEW k
  PROVE  CheckHealthy(c, k) = "" <=>
            /\ Master(c).healthy
            /\ ~ (Cardinality(HealthySynchronous(c)) < c.min)
            /\ ~ (HealthyStandbys(c) - c.min < k)
  BY Zenon DEF CheckHealthy, MasterEqualsZeroPointer

\* The health check accepts a document exactly when the cluster can lose any k
\* of its standby keepers and go on, for every document that stolon may write
\* and every k (CheckHealthy in stolon.go).
THEOREM HealthCheckDecides ==
  ASSUME NEW c, WellFormed(c), NEW k \in Nat
  PROVE  CheckHealthy(c, k) = "" <=> Tolerates(c, k)
  <1> c.min \in Nat
    BY DEF WellFormed
  <1> DEFINE N == Cardinality(StandbyKeepers(c))
             Enough == \A F \in SUBSET StandbyKeepers(c) :
                          Cardinality(F) = k => AtLeast(StandbyKeepers(c) \ F, c.min)
  <1>1. CASE c.master \notin DOMAIN c.dbs
    <2>1. Master(c).healthy = FALSE
      BY <1>1 DEF Master, DB, ZeroDB
    <2> QED
      BY <2>1, CheckHealthyIs DEF Tolerates
  <1>2. CASE c.master \in DOMAIN c.dbs
    <2>1. /\ IsFiniteSet(StandbyKeepers(c)) /\ IsFiniteSet(SyncKeepers(c))
          /\ N \in Nat /\ Cardinality(SyncKeepers(c)) \in Nat
          /\ Cardinality(HealthySynchronous(c)) = Cardinality(SyncKeepers(c))
          /\ HealthyStandbys(c) = N
      BY <1>2, StandbyCount, FS_CardinalityType
    <2>2. AtLeast(SyncKeepers(c), c.min) <=> c.min <= Cardinality(SyncKeepers(c))
      BY <2>1, AtLeastIs
    <2>3. ASSUME NEW F \in SUBSET StandbyKeepers(c), Cardinality(F) = k
          PROVE  AtLeast(StandbyKeepers(c) \ F, c.min) <=> c.min <= N - k
      <3>1. StandbyKeepers(c) \cap F = F
        OBVIOUS
      <3>2. /\ IsFiniteSet(StandbyKeepers(c) \ F)
            /\ Cardinality(StandbyKeepers(c) \ F) = N - Cardinality(StandbyKeepers(c) \cap F)
        BY <2>1, FS_Difference
      <3>3. Cardinality(StandbyKeepers(c) \ F) = N - k
        BY <2>3, <3>1, <3>2
      <3> QED
        BY <3>2, <3>3, AtLeastIs
    <2>4. ASSUME N >= k PROVE Enough <=> c.min <= N - k
      <3>1. PICK F \in SUBSET StandbyKeepers(c) : Cardinality(F) = k
        BY <2>1, <2>4, AtLeastIs DEF AtLeast
      <3> QED
        BY <2>3, <3>1
    <2>5. (N >= k /\ Enough) <=> ~ (N - c.min < k)
      <3> HIDE DEF N, Enough
      <3>1. N >= k => (Enough <=> c.min <= N - k)
        BY <2>4
      <3> QED
        BY <2>1, <3>1
    <2>6. c.min <= Cardinality(SyncKeepers(c)) <=> ~ (Cardinality(SyncKeepers(c)) < c.min)
      BY <2>1
    <2> QED
      BY Zenon, <2>1, <2>2, <2>5, <2>6, CheckHealthyIs DEF Tolerates
  <1> QED
    BY <1>1, <1>2

\* SetToSeq lists a finite set.
LEMMA SetToSeqIs ==
  ASSUME NEW S, IsFiniteSet(S)
  PROVE  SetToSeq(S) \in [1..Cardinality(S) -> S]
  <1>1. ExistsBijection(1..Cardinality(S), S)
    BY FS_CardinalityType
  <1>2. \E f \in [1..Cardinality(S) -> S] : IsInjective(f)
    BY <1>1 DEF ExistsBijection, Bijection, Injection
  <1> QED
    BY <1>2 DEF SetToSeq

\* The document of a promotion: the master is the standby, its synchronous
\* standbys are the healthy DBs that are left.
LEMMA PromotedIs ==
  ASSUME NEW c, WellFormed(c), NEW s \in HealthyUids(c) \ {c.master}
  PROVE  LET P == Promoted(c, s)
             n == Cardinality(HealthyUids(c) \ {c.master, s})
         IN  /\ P.min = c.min
             /\ Master(P).keeper = c.dbs[s].keeper
             /\ Master(P).healthy
             /\ HealthySynchronous(P) = 1..n
             /\ n \in Nat
  <1>1. PICK others : others = HealthyUids(c) \ {c.master, s}
    OBVIOUS
  <1>2. PICK n : n = Cardinality(others)
    OBVIOUS
  <1>3. PICK Q : Q = SetToSeq(others)
    OBVIOUS
  <1>4. PICK dbs : dbs = [u \in DOMAIN c.dbs |->
                            Record(c.dbs[u].keeper, c.dbs[u].healthy /\ u # c.master,
                                   IF u = s THEN Q ELSE <<>>, <<>>)]
    OBVIOUS
  <1>5. PICK P : P = Promoted(c, s)
    OBVIOUS
  <1>6. n \in Nat /\ Q \in [1..n -> others]
    <2>1. IsFiniteSet(others)
      <3>1. others \in SUBSET DOMAIN c.dbs
        BY <1>1 DEF HealthyUids
      <3> QED
        BY <3>1, FS_Subset DEF WellFormed
    <2> QED
      BY <1>2, <1>3, <2>1, SetToSeqIs, FS_CardinalityType
  <1>7. Len(Q) = n /\ Q \o <<>> = Q /\ DOMAIN Q = 1..n
    BY <1>6
  <1>8. P.min = c.min /\ P.master = s /\ P.dbs = dbs
    <2>1. P = [c EXCEPT !.master = s, !.dbs = dbs]
      BY <1>1, <1>3, <1>4, <1>5 DEF Promoted
    <2>2. c = [min |-> c.min, master |-> c.master, dbs |-> c.dbs]
      BY DEF WellFormed
    <2> QED
      BY <2>1, <2>2
  <1>9. s \in DOMAIN c.dbs /\ c.dbs[s].healthy /\ s # c.master
    BY DEF HealthyUids
  <1>10. ASSUME NEW u \in DOMAIN c.dbs
         PROVE  DB(P, u) = Record(c.dbs[u].keeper, c.dbs[u].healthy /\ u # c.master,
                                  IF u = s THEN Q ELSE <<>>, <<>>)
    BY <1>4, <1>8, <1>10 DEF DB
  <1>11. /\ Master(P).keeper = c.dbs[s].keeper
         /\ Master(P).healthy
         /\ Master(P).sync = Q /\ Master(P).external = <<>>
    <2>1. PICK h : h = (c.dbs[s].healthy /\ s # c.master)
      OBVIOUS
    <2>2. Master(P) = Record(c.dbs[s].keeper, h, Q, <<>>)
      BY <1>8, <1>9, <1>10, <2>1 DEF Master
    <2>3. h
      BY <1>9, <2>1
    <2>4. /\ Master(P).keeper = c.dbs[s].keeper /\ Master(P).healthy = h
          /\ Master(P).sync = Q /\ Master(P).external = <<>>
      BY <2>2 DEF Record
    <2> QED
      BY <2>3, <2>4
  <1>12. \A i \in 1..n : DB(P, Q[i]).healthy
    <2> SUFFICES ASSUME NEW i \in 1..n PROVE DB(P, Q[i]).healthy
      OBVIOUS
    <2>1. PICK u : u = Q[i]
      OBVIOUS
    <2>2. u \in DOMAIN c.dbs /\ c.dbs[u].healthy /\ u # c.master
      BY <1>1, <1>6, <2>1 DEF HealthyUids
    <2>3. DB(P, u).healthy = (c.dbs[u].healthy /\ u # c.master)
      BY <1>10, <2>2 DEF Record
    <2> QED
      BY <2>1, <2>2, <2>3
  <1>13. SynchronousStandbys(P) = [i \in 1..n |-> DB(P, Q[i])]
    BY <1>7, <1>11 DEF SynchronousStandbys
  <1>14. HealthySynchronous(P) = 1..n
    BY <1>12, <1>13 DEF HealthySynchronous
  <1> QED
    BY <1>1, <1>2, <1>5, <1>6, <1>8, <1>11, <1>14

\* A master that can spare a standby can be replaced by any healthy standby.
LEMMA SpareCanRecover ==
  ASSUME NEW c, WellFormed(c), NEW k \in Nat \ {0},
         Master(c).healthy, ~ (HealthyStandbys(c) - c.min < k),
         NEW s \in HealthyUids(c) \ {c.master}
  PROVE  Recovered(Promoted(c, s), Master(c).keeper)
  <1>1. PICK D : D = HealthyUids(c) \ {c.master}
    OBVIOUS
  <1>2. PICK others : others = HealthyUids(c) \ {c.master, s}
    OBVIOUS
  <1>3. c.master \in DOMAIN c.dbs
    <2> SUFFICES ASSUME c.master \notin DOMAIN c.dbs PROVE Master(c).healthy = FALSE
      OBVIOUS
    <2> QED
      BY DEF Master, DB, ZeroDB
  <1>4. IsFiniteSet(D)
    <2>1. D \in SUBSET DOMAIN c.dbs
      BY <1>1 DEF HealthyUids
    <2> QED
      BY <2>1, FS_Subset DEF WellFormed
  <1>5. Cardinality(others) = Cardinality(D) - 1
    <2>1. others = D \ {s} /\ s \in D
      BY <1>1, <1>2
    <2> QED
      BY <1>4, <2>1, FS_RemoveElement
  <1>6. Cardinality(D) \in Nat /\ c.min \in Nat /\ HealthyStandbys(c) = Cardinality(D)
    BY <1>1, <1>3, <1>4, StandbyCount, FS_CardinalityType DEF WellFormed
  <1>7. c.min <= Cardinality(others)
    BY <1>5, <1>6
  <1>8. PICK P : P = Promoted(c, s)
    OBVIOUS
  <1>9. /\ P.min = c.min
        /\ Master(P).keeper = c.dbs[s].keeper
        /\ Master(P).healthy
        /\ HealthySynchronous(P) = 1..Cardinality(others)
        /\ Cardinality(others) \in Nat
    BY <1>2, <1>8, PromotedIs
  <1>10. Cardinality(HealthySynchronous(P)) >= P.min
    <2>1. Cardinality(1..Cardinality(others)) = Cardinality(others)
      BY <1>9, FS_Interval
    <2> QED
      BY <1>6, <1>7, <1>9, <2>1
  <1>11. Master(P).keeper # Master(c).keeper
    <2>1. Master(c).keeper = c.dbs[c.master].keeper
      BY <1>3 DEF Master, DB
    <2>2. s \in DOMAIN c.dbs /\ s # c.master
      BY DEF HealthyUids
    <2> QED
      BY <1>3, <1>9, <2>1, <2>2 DEF WellFormed
  <1> QED
    BY <1>8, <1>9, <1>10, <1>11 DEF Recovered

\* What passed the check for one failure or more survives the loss of the
\* master: whichever healthy standby is promoted, the sentinel can write a
\* document on which NotifyRecovered (failover.go) reports the new master.
THEOREM HealthyCanRecover ==
  ASSUME NEW c, WellFormed(c), NEW k \in Nat \ {0}, CheckHealthy(c, k) = "",
         NEW s \in HealthyUids(c) \ {c.master}
  PROVE  Recovered(Promoted(c, s), Master(c).keeper)
  BY Zenon, CheckHealthyIs, SpareCanRecover

\* The documents of the runs are ones that stolon may write.
LEMMA DocumentsWellFormed == \A c \in Documents : WellFormed(c)
  <1> SUFFICES ASSUME NEW c \in Documents PROVE WellFormed(c)
    OBVIOUS
  <1>a. PICK m \in {CHOOSE u \in Uid : TRUE, Gone} :
          c \in UNION {DocumentsOver(m, D) : D \in SUBSET Uid}
    BY Zenon DEF Documents
  <1>0. PICK D \in SUBSET Uid : c \in DocumentsOver(m, D)
    BY <1>a
  <1>1. PICK n \in 0..MaxMin, H \in SUBSET D, s \in SyncLists(m), e \in {<<>>, <<Fake>>} :
          c = Document(m, D, n, H, s, e)
    BY <1>0 DEF DocumentsOver
  <1>2. /\ c.min = n /\ c.master = m /\ DOMAIN c.dbs = D
        /\ \A u \in D : c.dbs[u] = IF u = m THEN Record(u, u \in H, s, e)
                                            ELSE Record(u, u \in H, <<>>, <<>>)
        /\ c = [min |-> c.min, master |-> c.master, dbs |-> c.dbs]
    BY <1>1 DEF Document
  <1>3. \A u \in D : c.dbs[u].keeper = u /\ c.dbs[u].healthy \in BOOLEAN
    <2> SUFFICES ASSUME NEW u \in D
                 PROVE  c.dbs[u].keeper = u /\ c.dbs[u].healthy \in BOOLEAN
      OBVIOUS
    <2>1. PICK h \in BOOLEAN : h = (u \in H)
      <3>1. CASE u \in H
        <4>1. TRUE = (u \in H)
          BY <3>1
        <4> QED
          BY <4>1
      <3>2. CASE u \notin H
        <4>1. FALSE = (u \in H)
          BY <3>2
        <4> QED
          BY <4>1
      <3> QED
        BY <3>1, <3>2
    <2>2. PICK r : r = c.dbs[u]
      OBVIOUS
    <2>3. r = Record(u, h, s, e) \/ r = Record(u, h, <<>>, <<>>)
      BY <1>2, <2>1, <2>2
    <2>4. r.keeper = u /\ r.healthy = h
      BY <2>3 DEF Record
    <2> QED
      BY <2>1, <2>2, <2>4
  <1>4. n \in Nat /\ IsFiniteSet(D) /\ \A u \in D : u # NoKeeper /\ u # Fake
    BY ClusterdataAssumption, FS_Subset DEF ClusterdataAssumption
  <1>5. ASSUME m \in D PROVE Master(c).sync = s /\ Master(c).external = e
    <2>1. Master(c) = Record(m, m \in H, s, e)
      BY <1>2, <1>5 DEF Master, DB
    <2> QED
      BY <2>1 DEF Record
  <1>6. s \in Seq(ToSet(s)) /\ IsInjective(s) /\ m \notin ToSet(s)
    <2>1. PICK l \in 0..MaxSync : s \in [1..l -> (Uid \cup {Gone}) \ {m}]
      BY DEF SyncLists, SeqOf
    <2>2. IsInjective(s)
      BY DEF SyncLists
    <2>3. l \in Nat
      BY <2>1
    <2> QED
      BY <2>1, <2>2, <2>3 DEF ToSet
  <1>7. e \in Seq(ToSet(e)) /\ ToSet(e) \subseteq {Fake}
    <2>1. CASE e = <<>>
      BY <2>1 DEF ToSet
    <2>2. CASE e = <<Fake>>
      BY <2>2 DEF ToSet
    <2> QED
      BY <2>1, <2>2
  <1>8. ASSUME c.master \in DOMAIN c.dbs
        PROVE  /\ Master(c).sync \in Seq(ToSet(Master(c).sync))
               /\ Master(c).external \in Seq(ToSet(Master(c).external))
               /\ IsInjective(Master(c).sync)
               /\ c.master \notin ToSet(Master(c).sync)
               /\ ToSet(Master(c).external) \cap DOMAIN c.dbs = {}
    <2>1. Master(c).sync = s /\ Master(c).external = e /\ c.master = m /\ DOMAIN c.dbs = D
      BY <1>2, <1>5, <1>8
    <2> QED
      BY <1>4, <1>6, <1>7, <2>1
  <1>9. /\ c.min \in Nat /\ IsFiniteSet(DOMAIN c.dbs)
        /\ \A u \in DOMAIN c.dbs : c.dbs[u].keeper # NoKeeper /\ c.dbs[u].healthy \in BOOLEAN
        /\ \A u, v \in DOMAIN c.dbs : c.dbs[u].keeper = c.dbs[v].keeper => u = v
    <2>1. c.min \in Nat /\ IsFiniteSet(DOMAIN c.dbs)
      BY <1>2, <1>4
    <2>2. ASSUME NEW u \in D
          PROVE  c.dbs[u].keeper # NoKeeper /\ c.dbs[u].healthy \in BOOLEAN
      BY <1>3, <1>4
    <2>3. \A u, v \in D : c.dbs[u].keeper = c.dbs[v].keeper => u = v
      BY <1>3
    <2> QED
      BY <1>2, <2>1, <2>2, <2>3
  <1>10. c = [min |-> c.min, master |-> c.master, dbs |-> c.dbs]
    BY <1>2
  <1> QED
    BY <1>8, <1>9, <1>10 DEF WellFormed

CheckInv ==
    /\ cd \in Documents
    /\ tolerate \in Nat
    /\ verdict = "unasked" \/ verdict = CheckHealthy(cd, tolerate)

\* The verdict is that of the health check.
LEMMA CheckInvariance == CheckSpec => []CheckInv
  <1>1. CheckInit => CheckInv
    BY ClusterdataAssumption DEF ClusterdataAssumption, CheckInit, CheckInv
  <1>2. CheckInv /\ [Ask]_checkVars => CheckInv'
    BY DEF CheckInv, Ask, checkVars
  <1> QED
    BY <1>1, <1>2, PTL DEF CheckSpec

\* Of every document the health check gives the verdict that the cluster
\* deserves (CheckHealthy in stolon.go).
THEOREM VerdictIsTolerance == CheckSpec => []HealthyMeansTolerant
  <1>1. CheckInv => HealthyMeansTolerant
    <2> SUFFICES ASSUME CheckInv, verdict # "unasked"
                 PROVE  verdict = "" <=> Tolerates(cd, tolerate)
      BY DEF HealthyMeansTolerant
    <2>1. WellFormed(cd) /\ tolerate \in Nat /\ verdict = CheckHealthy(cd, tolerate)
      BY DocumentsWellFormed DEF CheckInv
    <2> QED
      BY Zenon, <2>1, HealthCheckDecides
  <1> QED
    BY <1>1, CheckInvariance, PTL

\* A failover that passed the health check for one failure or more can finish
\* (CheckHealthy in stolon.go, NotifyRecovered in failover.go).
THEOREM FailoversCanRecover == CheckSpec => []FailoverCanRecover
  <1>0. CheckInv => WellFormed(cd) /\ (tolerate >= 1 => tolerate \in Nat \ {0})
    BY DocumentsWellFormed DEF CheckInv
  <1>1. CheckInv => FailoverCanRecover
    <2> SUFFICES ASSUME CheckInv, verdict = "", tolerate >= 1,
                        NEW s \in HealthyUids(cd) \ {cd.master}
                 PROVE  Recovered(Promoted(cd, s), Master(cd).keeper)
      BY Zenon DEF FailoverCanRecover
    <2>1. WellFormed(cd) /\ tolerate \in Nat \ {0}
      BY Zenon, <1>0
    <2>2. CheckHealthy(cd, tolerate) = ""
      BY Zenon DEF CheckInv
    <2> QED
      BY Zenon, <2>1, <2>2, HealthyCanRecover
  <1> QED
    BY <1>1, CheckInvariance, PTL

=============================================================================
