----------------------- MODULE ParallelTrainingProofs -----------------------
(***************************************************************************)
(* For every number of threads, sentences and iterations: a worker reads   *)
(* only lattices it built itself, L-BFGS always gets the exact gradient of *)
(* the whole training set, and the threaded trainer implements batch       *)
(* training.                                                               *)
(***************************************************************************)
EXTENDS ParallelTraining, TLAPS

(* Facts about % that the provers do not know: what the strides of the     *)
(* threads (encoder.cpp 84, 365) rest on.                                  *)

(* Multiples of d are at least d apart.  *)
LEMMA TimesGrows ==
  ASSUME NEW d \in Nat \ {0}, NEW p \in Int, NEW q \in Int, p < q
  PROVE  d*q >= d*p + d
  OBVIOUS

(* Division with remainder, and its uniqueness.  *)
LEMMA Division ==
  ASSUME NEW d \in Nat \ {0}, NEW a \in Nat
  PROVE  a = d * (a \div d) + (a % d) /\ a \div d \in Int /\ a % d \in 0..d-1
  OBVIOUS

LEMMA DivisionUnique ==
  ASSUME NEW d \in Nat \ {0}, NEW p \in Int, NEW q \in Int,
         NEW r \in 0..d-1, NEW s \in 0..d-1, d*p + r = d*q + s
  PROVE  r = s /\ p = q
<1>1. CASE p < q
  BY <1>1, TimesGrows
<1>2. CASE q < p
  BY <1>2, TimesGrows
<1>3. CASE q = p
  BY <1>3
<1> QED BY <1>1, <1>2, <1>3

(* One stride keeps the residue ...  *)
LEMMA ModStep ==
  ASSUME NEW d \in Nat \ {0}, NEW a \in Nat
  PROVE  (a + d) % d = a % d
<1> DEFINE b == a + d
           p == a \div d
           q == b \div d
           r == a % d
           u == b % d
<1>1. a = d * p + r /\ p \in Int /\ r \in 0..d-1
  BY Division
<1>2. b \in Nat /\ b = a + d
  OBVIOUS
<1>3. b = d * q + u /\ q \in Int /\ u \in 0..d-1
  <2> HIDE DEF b
  <2> QED BY <1>2, Division
<1> SUFFICES r = u
  OBVIOUS
<1> HIDE DEF p, q, r, u, b
<1>4. d * (p + 1) = d * p + d
  BY <1>1
<1>5. d * (p + 1) + r = d * q + u /\ p + 1 \in Int
  BY <1>1, <1>2, <1>3, <1>4
<1> QED BY <1>1, <1>3, <1>5, DivisionUnique

(* ... and skips no number of that residue.  *)
LEMMA ModGap ==
  ASSUME NEW d \in Nat \ {0}, NEW a \in Nat, NEW b \in Nat, a < b, a % d = b % d
  PROVE  b >= a + d
<1> DEFINE p == a \div d
           q == b \div d
           r == a % d
<1>1. /\ a = d * p + r /\ p \in Int /\ r \in 0..d-1
      /\ b = d * q + r /\ q \in Int
  BY Division
<1> HIDE DEF p, q, r
<1>2. p < q
  <2>1. CASE q < p  BY <2>1, <1>1, TimesGrows
  <2>2. CASE q = p  BY <2>2, <1>1
  <2> QED BY <2>1, <2>2, <1>1
<1>3. d * q >= d * p + d
  BY <1>1, <1>2, TimesGrows
<1>4. d * q \in Int /\ d * p \in Int
  BY <1>1
<1> QED BY <1>1, <1>3, <1>4
-----------------------------------------------------------------------------
-----------------------------------------------------------------------------
(* The initial state satisfies the invariant.                              *)
LEMMA InitIInv == Init => IInv
<1> SUFFICES ASSUME Init PROVE IInv
  OBVIOUS
<1> USE TrainingAssumption DEF Init
<1>1. TypeOK
  BY DEF TypeOK, Zero, Thread, Sentence, Term, None
<1>2. Phases
  BY DEF Phases, Thread
<1>3. Strides /\ SumEval /\ LatticeIntact
  BY DEF Strides, SumEval, LatticeIntact
<1>4. Shares /\ Reduced /\ GradientExact
  BY DEF Shares, Reduced, GradientExact, Thread
<1> QED BY <1>1, <1>2, <1>3, <1>4 DEF IInv

(* Types, step by step.                                                    *)
LEMMA TypeStep == ASSUME IInv, [Next]_vars PROVE TypeOK'
<1> USE TrainingAssumption DEF TypeOK, Thread, Sentence, Term
<1>0. TypeOK
  BY DEF IInv
<1>a. /\ 0 \in Thread
      /\ main \in {"start", "join"} => k \in Thread
      /\ main = "reduce" /\ k < T => k \in Thread
      /\ main = "optimize" => itr < MaxItr
      /\ main = "reduce" => converge < 3
      /\ \A t \in Thread : worker[t] = "sum" => pos[t] \in Term
  BY <1>0 DEF IInv, Phases, Strides
<1>1. ASSUME NEW t \in Thread, Run(t) PROVE TypeOK'
  <2>1. Zero \in [Term -> Nat] /\ t \in Nat
    BY DEF Zero
  <2>2. expected' \in [Thread -> [Term -> Nat]] /\ pos' \in [Thread -> Nat]
    BY <1>0, <1>1, <2>1 DEF Run
  <2> QED BY <1>0, <1>1, <2>2 DEF Run, mainVars
<1>2. ASSUME NEW t \in Thread, BuildLattice(t) PROVE TypeOK'
  <2>1. pos[t] \in Sentence /\ pos[t] \in Nat
    BY <1>0, <1>2 DEF BuildLattice
  <2>2. list' \in [Thread -> Sentence \cup {None}] /\ costs' \in [Sentence -> Nat]
    BY <1>0, <1>2, <2>1 DEF BuildLattice
  <2> QED BY <1>0, <1>2, <2>2 DEF BuildLattice, mainVars
<1>3. ASSUME NEW t \in Thread, Accumulate(t) PROVE TypeOK'
  <2>1. expected[t] \in [Term -> Nat] /\ pos[t] \in Term
    BY <1>0, <1>a, <1>3 DEF Accumulate
  <2>2. [expected[t] EXCEPT ![pos[t]] = @ + 1] \in [Term -> Nat]
    BY <2>1
  <2>3. expected' \in [Thread -> [Term -> Nat]]
    BY <1>0, <1>3, <2>2 DEF Accumulate
  <2> QED BY <1>0, <1>3, <2>3 DEF Accumulate, mainVars
<1>4. ASSUME NEW t \in Thread, Eval(t) PROVE TypeOK'
  <2>1. pos' \in [Thread -> Nat]
    BY <1>0, <1>4 DEF Eval
  <2> QED BY <1>0, <1>4, <2>1 DEF Eval, mainVars
<1>5. ASSUME NEW t \in Thread, Finish(t) PROVE TypeOK'
  BY <1>0, <1>5 DEF Finish, mainVars
<1>6. CASE StartThread
  <2>1. k' \in 0..T /\ worker' \in [Thread -> {"idle", "run", "loop", "sum", "eval", "finished"}]
    BY <1>0, <1>a, <1>6 DEF StartThread
  <2>2. main' \in {"start", "join"}
    BY <1>6 DEF StartThread
  <2> QED BY <1>0, <1>6, <2>1, <2>2 DEF StartThread
<1>7. CASE JoinThread
  <2>1. k' \in 0..T /\ worker' \in [Thread -> {"idle", "run", "loop", "sum", "eval", "finished"}]
    BY <1>0, <1>a, <1>7 DEF JoinThread
  <2>2. main' \in {"join", "reduce"}
    BY <1>7 DEF JoinThread
  <2> QED BY <1>0, <1>7, <2>1, <2>2 DEF JoinThread
<1>8. CASE Reduce
  <2>0. expected[0] \in [Term -> Nat] /\ expected[k] \in [Term -> Nat]
    BY <1>0, <1>a, <1>8 DEF Reduce
  <2>1. [e \in Term |-> expected[0][e] + expected[k][e]] \in [Term -> Nat]
    BY <2>0
  <2>2. expected' \in [Thread -> [Term -> Nat]]
    BY <1>0, <1>8, <2>1 DEF Reduce
  <2>3. k' \in 0..T
    BY <1>0, <1>8 DEF Reduce
  <2> QED BY <1>0, <1>8, <2>2, <2>3 DEF Reduce, workerVars
<1>9. CASE Decide
  <2>0. expected[0] \in [Term -> Nat] /\ Reg \in Term
    BY <1>0, <1>a DEF Reg
  <2>1. expected' \in [Thread -> [Term -> Nat]]
    <3>1. [expected[0] EXCEPT ![Reg] = @ + 1] \in [Term -> Nat]
      BY <2>0
    <3> QED BY <1>0, <1>a, <1>9, <3>1 DEF Decide
  <2>2. converge' \in 0..3
    BY <1>0, <1>a, <1>9 DEF Decide
  <2>3. main' \in {"converged", "optimize"} /\ k' \in 0..T
    BY <1>9 DEF Decide
  <2> QED BY <1>0, <1>9, <2>1, <2>2, <2>3 DEF Decide, workerVars
<1>10. CASE Optimize
  <2>1. alpha' \in Nat /\ itr' \in 0..MaxItr
    BY <1>0, <1>a, <1>10 DEF Optimize
  <2> QED BY <1>0, <1>10, <2>1 DEF Optimize, workerVars
<1>11. CASE UNCHANGED vars
  BY <1>0, <1>11 DEF vars, mainVars, workerVars
<1> QED BY <1>1, <1>2, <1>3, <1>4, <1>5, <1>6, <1>7, <1>8, <1>9, <1>10, <1>11
        DEF Next, Main, Worker, Return

(* Who runs while the main thread stands where it stands.                  *)
LEMMA PhasesStep == ASSUME IInv, [Next]_vars PROVE Phases'
<1> USE TrainingAssumption DEF Thread
<1>0. /\ TypeOK /\ Phases
      /\ k \in 0..T /\ itr \in Nat /\ T \in Nat
      /\ worker \in [Thread -> {"idle", "run", "loop", "sum", "eval", "finished"}]
  BY DEF IInv, TypeOK
<1>1. ASSUME NEW t \in Thread, Worker(t) PROVE Phases'
  <2>1. /\ UNCHANGED mainVars
        /\ worker[t] # "idle" /\ worker'[t] # "idle"
        /\ \A u \in Thread : u # t => worker'[u] = worker[u]
    BY <1>0, <1>1 DEF Worker, Run, BuildLattice, Accumulate, Eval, Finish
  <2> QED BY <1>0, <2>1 DEF Phases, mainVars
<1>2. CASE StartThread
  <2>1. /\ k \in Thread /\ k < T /\ itr < MaxItr /\ converge < 3 /\ main = "start"
        /\ \A t \in Thread : (t >= k) = (worker[t] = "idle")
    BY <1>0, <1>2 DEF StartThread, Phases
  <2>2. /\ \A t \in Thread : (t >= k + 1) = (worker'[t] = "idle")
        /\ itr' = itr /\ converge' = converge
    BY <1>0, <1>2, <2>1 DEF StartThread
  <2>3. CASE k + 1 < T
    BY <1>0, <1>2, <2>1, <2>2, <2>3 DEF StartThread, Phases
  <2>4. CASE ~(k + 1 < T)
    <3>1. main' = "join" /\ k' = 0
      BY <1>2, <2>4 DEF StartThread
    <3>2. \A t \in Thread : worker'[t] # "idle"
      BY <1>0, <2>2, <2>4
    <3> QED BY <2>1, <2>2, <3>1, <3>2 DEF Phases
  <2> QED BY <2>3, <2>4
<1>3. CASE JoinThread
  <2>1. /\ k \in Thread /\ k < T /\ itr < MaxItr /\ converge < 3 /\ main = "join"
        /\ \A t \in Thread : (t < k) = (worker[t] = "idle")
    BY <1>0, <1>3 DEF JoinThread, Phases
  <2>2. \A t \in Thread : (t < k + 1) = (worker'[t] = "idle")
    BY <1>0, <1>3, <2>1 DEF JoinThread
  <2>3. CASE k + 1 < T
    BY <1>0, <1>3, <2>1, <2>2, <2>3 DEF JoinThread, Phases
  <2>4. CASE ~(k + 1 < T)
    <3>1. main' = "reduce" /\ k' = 1 /\ itr' = itr /\ converge' = converge
      BY <1>3, <2>1, <2>4 DEF JoinThread
    <3>2. \A t \in Thread : worker'[t] = "idle"
      BY <1>0, <2>1, <2>2, <2>4
    <3> QED BY <2>1, <3>1, <3>2 DEF Phases
  <2> QED BY <2>3, <2>4
<1>4. CASE Reduce
  BY <1>0, <1>4 DEF Reduce, workerVars, Phases
<1>5. CASE Decide
  <2>1. converge' # 3 => converge' < 3
    BY <1>0, <1>5 DEF Decide, TypeOK, Phases
  <2> QED BY <1>0, <1>5, <2>1 DEF Decide, workerVars, Phases
<1>6. CASE Optimize
  BY <1>0, <1>6 DEF Optimize, workerVars, Phases
<1>7. CASE UNCHANGED vars
  BY <1>0, <1>7 DEF vars, mainVars, workerVars, Phases
<1> QED BY <1>1, <1>2, <1>3, <1>4, <1>5, <1>6, <1>7 DEF Next, Main, Return

(* A worker stays on its residue.                                          *)
LEMMA StridesStep == ASSUME IInv, [Next]_vars PROVE Strides'
<1> USE TrainingAssumption DEF Thread
<1>0. /\ Strides /\ Phases /\ k \in 0..T
      /\ worker \in [Thread -> {"idle", "run", "loop", "sum", "eval", "finished"}]
      /\ pos \in [Thread -> Nat]
  BY DEF IInv, TypeOK
<1>1. ASSUME NEW t \in Thread, Worker(t) PROVE Strides'
  <2>1. \A u \in Thread : u # t => worker'[u] = worker[u] /\ pos'[u] = pos[u]
    BY <1>0, <1>1 DEF Worker, Run, BuildLattice, Accumulate, Eval, Finish
  <2>2. /\ worker'[t] \in {"loop", "sum", "eval"} => pos'[t] % T = t
        /\ worker'[t] \in {"sum", "eval"} => pos'[t] < N
    <3>1. CASE Run(t)
      <4>1. t % T = t
        OBVIOUS
      <4> QED BY <1>0, <3>1, <4>1 DEF Run
    <3>2. CASE BuildLattice(t)
      BY <1>0, <3>2 DEF BuildLattice, Strides
    <3>3. CASE Accumulate(t)
      BY <1>0, <3>3 DEF Accumulate, Strides
    <3>4. CASE Eval(t)
      <4>1. (pos[t] + T) % T = pos[t] % T
        BY <1>0, ModStep
      <4> QED BY <1>0, <3>4, <4>1 DEF Eval, Strides
    <3>5. CASE Finish(t)
      BY <1>0, <3>5 DEF Finish
    <3> QED BY <1>1, <3>1, <3>2, <3>3, <3>4, <3>5 DEF Worker
  <2> QED BY <1>0, <2>1, <2>2 DEF Strides
<1>2. CASE StartThread \/ JoinThread
  <2>1. /\ UNCHANGED pos
        /\ \A u \in Thread : worker'[u] = worker[u] \/ worker'[u] \in {"run", "idle"}
    BY <1>0, <1>2 DEF StartThread, JoinThread
  <2> QED BY <1>0, <2>1 DEF Strides
<1>3. CASE Reduce \/ Decide \/ Optimize \/ UNCHANGED vars
  BY <1>0, <1>3 DEF Reduce, Decide, Optimize, vars, workerVars, Strides
<1> QED BY <1>1, <1>2, <1>3 DEF Next, Main, Return

(* The lattice under a worker's hands is its own.                          *)
LEMMA LatticeStep == ASSUME IInv, [Next]_vars PROVE LatticeIntact'
<1> USE TrainingAssumption DEF Thread, ThreadId
<1>0. /\ Strides /\ Phases /\ LatticeIntact /\ k \in 0..T
      /\ worker \in [Thread -> {"idle", "run", "loop", "sum", "eval", "finished"}]
      /\ pos \in [Thread -> Nat]
      /\ list \in [Thread -> Sentence \cup {None}]
  BY DEF IInv, TypeOK
<1>1. ASSUME NEW t \in Thread, BuildLattice(t) PROVE LatticeIntact'
  <2>1. pos[t] % T = t
    BY <1>0, <1>1 DEF BuildLattice, Strides
  <2>2. \A u \in Thread : u # t /\ worker[u] = "sum" => pos[u] % T # t
    BY <1>0 DEF Strides
  <2>3. list'[t] = pos[t] /\ \A u \in Thread : u # t => list'[u] = list[u]
    BY <1>0, <1>1, <2>1 DEF BuildLattice
  <2>4. UNCHANGED pos /\ \A u \in Thread : u # t => worker'[u] = worker[u]
    BY <1>0, <1>1 DEF BuildLattice
  <2> QED BY <1>0, <2>1, <2>2, <2>3, <2>4 DEF LatticeIntact, Strides
<1>2. ASSUME NEW t \in Thread, Run(t) \/ Accumulate(t) \/ Eval(t) \/ Finish(t)
      PROVE LatticeIntact'
  <2>1. /\ UNCHANGED list /\ worker'[t] # "sum"
        /\ \A u \in Thread : u # t => worker'[u] = worker[u] /\ pos'[u] = pos[u]
    BY <1>0, <1>2 DEF Run, Accumulate, Eval, Finish
  <2> QED BY <1>0, <2>1 DEF LatticeIntact
<1>3. CASE StartThread \/ JoinThread
  <2>1. /\ UNCHANGED <<pos, list>>
        /\ \A u \in Thread : worker'[u] = worker[u] \/ worker'[u] # "sum"
    BY <1>0, <1>3 DEF StartThread, JoinThread
  <2> QED BY <1>0, <2>1 DEF LatticeIntact
<1>4. CASE Reduce \/ Decide \/ Optimize \/ UNCHANGED vars
  BY <1>0, <1>4 DEF Reduce, Decide, Optimize, vars, workerVars, LatticeIntact
<1> QED BY <1>1, <1>2, <1>3, <1>4 DEF Next, Main, Return, Worker

(* The weights move only when every worker has been joined.                *)
LEMMA AlphaStep ==
  ASSUME IInv, [Next]_vars
  PROVE  alpha' = alpha \/ (Optimize /\ \A t \in Thread : worker[t] = "idle")
<1>1. CASE \E t \in Thread : Worker(t)
  BY <1>1 DEF Worker, Run, BuildLattice, Accumulate, Eval, Finish, mainVars
<1>2. CASE Optimize
  BY <1>2 DEF Optimize, IInv, Phases
<1> QED BY <1>1, <1>2 DEF Next, Main, Return, StartThread, JoinThread, Reduce,
                          Decide, vars, mainVars

(* The lattice being summed was built with the current weights.            *)
LEMMA SumEvalStep == ASSUME IInv, [Next]_vars PROVE SumEval'
<1> USE TrainingAssumption DEF Thread, Sentence
<1>0. /\ Strides /\ Phases /\ SumEval /\ k \in 0..T
      /\ worker \in [Thread -> {"idle", "run", "loop", "sum", "eval", "finished"}]
      /\ pos \in [Thread -> Nat]
      /\ costs \in [Sentence -> Nat]
  BY DEF IInv, TypeOK
<1>1. ASSUME NEW t \in Thread, Worker(t) PROVE SumEval'
  <2>1. /\ UNCHANGED alpha
        /\ \A u \in Thread : u # t => worker'[u] = worker[u] /\ pos'[u] = pos[u]
    BY <1>0, <1>1 DEF Worker, Run, BuildLattice, Accumulate, Eval, Finish, mainVars
  <2>2. \A s \in Sentence : costs'[s] = costs[s] \/ costs'[s] = alpha
    BY <1>0, <1>1 DEF Worker, Run, BuildLattice, Accumulate, Eval, Finish
  <2>3. worker'[t] \in {"sum", "eval"} => costs'[pos'[t]] = alpha
    <3>1. CASE BuildLattice(t)
      BY <1>0, <3>1 DEF BuildLattice
    <3>2. CASE Accumulate(t)
      BY <1>0, <3>2 DEF Accumulate, SumEval
    <3> QED BY <1>0, <1>1, <3>1, <3>2 DEF Worker, Run, Eval, Finish
  <2>4. \A u \in Thread : worker[u] \in {"sum", "eval"} => pos[u] \in Sentence
    BY <1>0 DEF Strides
  <2> QED BY <1>0, <2>1, <2>2, <2>3, <2>4 DEF SumEval
<1>2. CASE StartThread \/ JoinThread
  <2>1. /\ UNCHANGED <<alpha, pos, costs>>
        /\ \A u \in Thread : worker'[u] = worker[u] \/ worker'[u] \in {"run", "idle"}
    BY <1>0, <1>2 DEF StartThread, JoinThread
  <2> QED BY <1>0, <2>1 DEF SumEval
<1>3. CASE Reduce \/ Decide \/ UNCHANGED vars
  BY <1>0, <1>3 DEF Reduce, Decide, vars, mainVars, workerVars, SumEval
<1>4. CASE Optimize
  BY <1>0, <1>4 DEF Optimize, workerVars, Phases, SumEval
<1> QED BY <1>1, <1>2, <1>3, <1>4 DEF Next, Main, Return

(* What each worker has added up so far.                                   *)
LEMMA SharesStep == ASSUME IInv, [Next]_vars PROVE Shares'
<1> USE TrainingAssumption DEF Thread, Sentence, Term
<1>0. /\ Strides /\ Phases /\ SumEval /\ Shares
      /\ k \in 0..T /\ alpha \in Nat
      /\ worker \in [Thread -> {"idle", "run", "loop", "sum", "eval", "finished"}]
      /\ pos \in [Thread -> Nat]
      /\ costs \in [Sentence -> Nat]
      /\ expected \in [Thread -> [Term -> Nat]]
  BY DEF IInv, TypeOK
<1>1. ASSUME NEW t \in Thread, Worker(t) PROVE Shares'
  <2>1. /\ UNCHANGED <<alpha, main, k>>
        /\ \A s \in Sentence : costs'[s] = costs[s] \/ costs'[s] = alpha
        /\ \A u \in Thread : u # t => /\ worker'[u] = worker[u]
                                      /\ pos'[u] = pos[u]
                                      /\ expected'[u] = expected[u]
    BY <1>0, <1>1 DEF Worker, Run, BuildLattice, Accumulate, Eval, Finish, mainVars
  <2>2. \A u \in Thread : u # t => (Share(u) => Share(u)')
    BY <2>1 DEF Share, Limit
  <2>3. worker[t] \in {"loop", "sum", "eval"} => Share(t)
    BY <1>0 DEF Shares
  <2>4. Share(t)'
    <3>1. CASE Run(t)
      <4>1. \A e \in Term : ~(e < N /\ e % T = t /\ e < t)
        <5> SUFFICES ASSUME NEW e \in Term, e < t PROVE e % T # t
          OBVIOUS
        <5>1. e \in 0..T-1
          OBVIOUS
        <5>2. e % T = e
          BY <5>1
        <5> QED BY <5>2
      <4>2. expected'[t] = Zero /\ worker'[t] = "loop" /\ pos'[t] = t
        BY <1>0, <3>1 DEF Run
      <4>3. Limit(t)' = t
        BY <4>2 DEF Limit
      <4> QED BY <4>1, <4>2, <4>3 DEF Share, Zero
    <3>2. CASE BuildLattice(t)
      <4>1. Share(t) /\ Limit(t) = pos[t] /\ Limit(t)' = pos[t]
        BY <1>0, <2>3, <3>2 DEF BuildLattice, Limit
      <4>2. UNCHANGED <<expected, alpha>>
        BY <3>2 DEF BuildLattice, mainVars
      <4> QED BY <2>1, <4>1, <4>2 DEF Share
    <3>3. CASE Accumulate(t)
      <4>1. /\ Share(t) /\ Limit(t) = pos[t] /\ Limit(t)' = pos[t] + 1
            /\ pos[t] % T = t /\ pos[t] \in Sentence /\ costs[pos[t]] = alpha
        BY <1>0, <2>3, <3>3 DEF Accumulate, Limit, Strides, SumEval
      <4>2. /\ UNCHANGED <<costs, alpha>>
            /\ expected'[t] = [expected[t] EXCEPT ![pos[t]] = @ + 1]
        BY <1>0, <3>3 DEF Accumulate, mainVars
      <4>3. expected[t][pos[t]] = 0 /\ pos[t] \in Term
        BY <4>1 DEF Share
      <4>4. /\ expected'[t][pos[t]] = 1
            /\ \A e \in Term : e # pos[t] => expected'[t][e] = expected[t][e]
        <5>1. expected[t] \in [Term -> Nat]
          BY <1>0
        <5> QED BY <4>2, <4>3, <5>1
      <4> QED BY <4>1, <4>2, <4>4 DEF Share
    <3>4. CASE Eval(t)
      <4>1. /\ Share(t) /\ Limit(t) = pos[t] + 1 /\ Limit(t)' = pos[t] + T
            /\ pos[t] % T = t /\ pos[t] \in Nat
        BY <1>0, <2>3, <3>4 DEF Eval, Limit, Strides
      <4>2. UNCHANGED <<expected, costs, alpha>>
        BY <3>4 DEF Eval, mainVars
      <4>3. \A e \in Term : e % T = t /\ pos[t] < e => e >= pos[t] + T
        BY <4>1, ModGap
      <4>4. \A e \in Term : e % T = t => (e < pos[t] + 1) = (e < pos[t] + T)
        BY <4>1, <4>3
      <4> QED BY <4>1, <4>2, <4>4 DEF Share
    <3>5. CASE Finish(t)
      <4>1. /\ Share(t) /\ Limit(t) = pos[t] /\ Limit(t)' = N
            /\ pos[t] \in Nat /\ pos[t] >= N
        BY <1>0, <2>3, <3>5 DEF Finish, Limit
      <4>2. UNCHANGED <<expected, costs, alpha>>
        BY <3>5 DEF Finish, mainVars
      <4> QED BY <4>1, <4>2 DEF Share
    <3> QED BY <1>1, <3>1, <3>2, <3>3, <3>4, <3>5 DEF Worker
  <2> QED BY <1>0, <2>1, <2>2, <2>4 DEF Shares
<1>2. CASE StartThread
  <2>1. /\ UNCHANGED <<alpha, pos, costs, expected>>
        /\ k \in Thread /\ worker'[k] = "run" /\ main = "start" /\ main' # "reduce"
        /\ main' = "join" => k' = 0
        /\ \A u \in Thread : u # k => worker'[u] = worker[u]
    BY <1>0, <1>2 DEF StartThread, Phases
  <2>2. \A u \in Thread : u # k => (Share(u) => Share(u)')
    BY <2>1 DEF Share, Limit
  <2>3. ASSUME NEW u \in Thread,
               \/ worker'[u] \in {"loop", "sum", "eval", "finished"}
               \/ main' = "join" /\ u < k'
        PROVE  Share(u)'
    <3>1. u # k /\ worker[u] \in {"loop", "sum", "eval", "finished"}
      BY <2>1, <2>3
    <3> QED BY <1>0, <2>2, <3>1 DEF Shares
  <2> QED BY <2>1, <2>3 DEF Shares
<1>3. CASE JoinThread
  <2>1. /\ UNCHANGED <<alpha, pos, costs, expected>>
        /\ k \in Thread /\ worker[k] = "finished" /\ worker'[k] = "idle"
        /\ main = "join" /\ main' \in {"join", "reduce"}
        /\ main' = "join" => k' = k + 1
        /\ main' = "reduce" => k + 1 = T
        /\ \A u \in Thread : u # k => worker'[u] = worker[u]
    BY <1>0, <1>3 DEF JoinThread, Phases
  <2>2. \A u \in Thread : Share(u) => Share(u)'
    BY <2>1 DEF Share, Limit
  <2>3. \A u \in Thread : u <= k => Share(u)
    BY <1>0, <2>1 DEF Shares
  <2>4. ASSUME NEW u \in Thread,
               \/ worker'[u] \in {"loop", "sum", "eval", "finished"}
               \/ main' = "join" /\ u < k'
               \/ main' = "reduce" /\ k' <= u
        PROVE  Share(u)'
    <3>1. CASE u <= k
      BY <2>2, <2>3, <3>1
    <3>2. CASE u > k
      <4>1. worker[u] \in {"loop", "sum", "eval", "finished"}
        <5>0. u \in Int /\ k \in Int /\ T \in Int /\ u < T /\ u > k
          BY TrainingAssumption, <2>1, <3>2 DEF Thread
        <5>a. ~(main' = "join" /\ u < k')
          BY <5>0, <2>1
        <5>b. ~(main' = "reduce") /\ u # k
          BY <5>0, <2>1
        <5>1. ~(main' = "join" /\ u < k') /\ ~(main' = "reduce") /\ u # k
          BY <5>a, <5>b
        <5> QED BY <2>1, <2>4, <5>1
      <4> QED BY <1>0, <2>2, <4>1 DEF Shares
    <3> QED BY <1>0, <3>1, <3>2
  <2> QED BY <2>4 DEF Shares
<1>4. CASE Reduce
  <2>1. /\ UNCHANGED <<alpha, main, pos, costs, worker>>
        /\ main = "reduce" /\ k' = k + 1 /\ 1 <= k
        /\ \A u \in Thread : u # 0 => expected'[u] = expected[u]
        /\ \A u \in Thread : worker[u] = "idle"
    BY <1>0, <1>4 DEF Reduce, workerVars, Phases
  <2>2. \A u \in Thread : u # 0 => (Share(u) => Share(u)')
    BY <2>1 DEF Share, Limit
  <2> QED BY <1>0, <2>1, <2>2 DEF Shares
<1>5. CASE Decide \/ Optimize
  <2>1. main' \notin {"join", "reduce"} /\ \A u \in Thread : worker'[u] = "idle"
    BY <1>0, <1>5 DEF Decide, Optimize, workerVars, Phases
  <2> QED BY <2>1 DEF Shares
<1>6. CASE UNCHANGED vars
  BY <1>0, <1>6 DEF vars, mainVars, workerVars, Shares, Share, Limit
<1> QED BY <1>1, <1>2, <1>3, <1>4, <1>5, <1>6 DEF Next, Main, Return

(* The sum grows by one worker at a time, starting from worker 0's own.    *)
LEMMA ReducedStep == ASSUME IInv, [Next]_vars PROVE Reduced'
<1> USE TrainingAssumption DEF Thread, Sentence, Term
<1>0. /\ Phases /\ Shares /\ Reduced /\ k \in 0..T
      /\ worker \in [Thread -> {"idle", "run", "loop", "sum", "eval", "finished"}]
      /\ expected \in [Thread -> [Term -> Nat]]
  BY DEF IInv, TypeOK
<1>m. \A e \in Term : e % T \in Thread
  OBVIOUS
<1>1. CASE \E t \in Thread : Worker(t)
  <2>1. main # "reduce" /\ UNCHANGED main
    BY <1>0, <1>1 DEF Phases, Worker, Run, BuildLattice, Accumulate, Eval, Finish, mainVars
  <2> QED BY <2>1 DEF Reduced
<1>2. CASE StartThread \/ Decide \/ Optimize
  BY <1>2 DEF StartThread, Decide, Optimize, Reduced
<1>3. CASE JoinThread
  <2> SUFFICES ASSUME main' = "reduce" PROVE Reduced'
    BY DEF Reduced
  <2>1. /\ UNCHANGED <<alpha, costs, expected>>
        /\ worker[k] = "finished" /\ main = "join" /\ k' = 1 /\ k \in Thread
        /\ k + 1 = T
    BY <1>0, <1>3 DEF JoinThread, Phases
  <2>2. \A t \in Thread : Share(t) /\ Limit(t) = N
    BY <1>0, <2>1 DEF Shares, Phases, Limit
  <2>3. \A s \in Sentence : costs[s] = alpha
    BY <1>m, <2>2 DEF Share
  <2>4. \A e \in Term : expected[0][e] = IF e < N /\ e % T < 1 THEN 1 ELSE 0
    <3>1. 0 \in Thread
      OBVIOUS
    <3>2. Share(0) /\ Limit(0) = N
      BY <2>2, <3>1
    <3> QED BY <1>m, <3>2 DEF Share
  <2> QED BY <2>1, <2>3, <2>4 DEF Reduced
<1>4. CASE Reduce
  <2>1. /\ UNCHANGED <<alpha, main, costs, worker>>
        /\ main = "reduce" /\ k' = k + 1 /\ k \in Thread /\ 1 <= k
        /\ worker[k] = "idle"
    BY <1>0, <1>4 DEF Reduce, workerVars, Phases
  <2>2. \A e \in Term : expected'[0][e] = expected[0][e] + expected[k][e]
    BY <1>0, <1>4, <2>1 DEF Reduce
  <2>3. Share(k) /\ Limit(k) = N
    BY <1>0, <2>1 DEF Shares, Limit
  <2>4. \A e \in Term : expected[k][e] = IF e < N /\ e % T = k THEN 1 ELSE 0
    BY <2>3 DEF Share
  <2>5. /\ \A e \in Term : expected[0][e] = IF e < N /\ e % T < k THEN 1 ELSE 0
        /\ \A s \in Sentence : costs[s] = alpha
    BY <1>0, <2>1 DEF Reduced
  <2>6. \A e \in Term : expected'[0][e] = IF e < N /\ e % T < k + 1 THEN 1 ELSE 0
    BY <1>m, <2>1, <2>2, <2>4, <2>5
  <2> QED BY <2>1, <2>5, <2>6 DEF Reduced
<1>5. CASE UNCHANGED vars
  BY <1>0, <1>5 DEF vars, mainVars, workerVars, Reduced
<1> QED BY <1>1, <1>2, <1>3, <1>4, <1>5 DEF Next, Main, Return

(* The complete sum, with the regulariser, is what L-BFGS is handed.       *)
LEMMA GradientStep == ASSUME IInv, [Next]_vars PROVE GradientExact'
<1> USE TrainingAssumption DEF Thread, Sentence, Term
<1>0. /\ Phases /\ Reduced /\ GradientExact
      /\ expected \in [Thread -> [Term -> Nat]]
  BY DEF IInv, TypeOK
<1>1. CASE \E t \in Thread : Worker(t)
  <2>1. main \notin {"optimize", "converged"} /\ UNCHANGED main
    BY <1>0, <1>1 DEF Phases, Worker, Run, BuildLattice, Accumulate, Eval, Finish, mainVars
  <2> QED BY <2>1 DEF GradientExact
<1>2. CASE StartThread \/ JoinThread \/ Reduce \/ Optimize
  BY <1>2 DEF StartThread, JoinThread, Reduce, Optimize, GradientExact
<1>3. CASE Decide
  <2>1. /\ UNCHANGED <<alpha, costs>> /\ main = "reduce" /\ k = T
        /\ expected' = IF Orthant THEN expected
                       ELSE [expected EXCEPT ![0][Reg] = @ + 1]
    BY <1>3 DEF Decide, workerVars
  <2>2. \A s \in Sentence : expected[0][s] = 1 /\ costs[s] = alpha
    <3>1. \A s \in Sentence : s % T < T /\ s \in Term /\ s < N
      OBVIOUS
    <3> QED BY <1>0, <2>1, <3>1 DEF Reduced
  <2>3. expected[0][Reg] = 0
    BY <1>0, <2>1 DEF Reduced, Reg
  <2>4. /\ \A s \in Sentence : expected'[0][s] = 1
        /\ expected'[0][Reg] = IF Orthant THEN 0 ELSE 1
    BY <1>0, <2>1, <2>2, <2>3 DEF Reg
  <2> QED BY <2>1, <2>2, <2>4 DEF GradientExact, Reg
<1>4. CASE UNCHANGED vars
  BY <1>0, <1>4 DEF vars, mainVars, workerVars, GradientExact
<1> QED BY <1>1, <1>2, <1>3, <1>4 DEF Next, Main, Return

-----------------------------------------------------------------------------
(* Every reachable state satisfies the strengthened invariant.             *)
THEOREM Inductive == Spec => []IInv
<1>1. IInv /\ [Next]_vars => IInv'
  <2> SUFFICES ASSUME IInv, [Next]_vars PROVE IInv'
    OBVIOUS
  <2> QED BY TypeStep, PhasesStep, StridesStep, SharesStep, SumEvalStep,
             ReducedStep, LatticeStep, GradientStep DEF IInv
<1> QED BY InitIInv, <1>1, PTL DEF Spec

(* No worker ever reads a lattice another one has emptied or rebuilt       *)
(* (encoder.cpp 84, 365; feature.cpp 130), for every number of threads.    *)
THEOREM LatticesIntact == Spec => []LatticeIntact
<1>1. IInv => LatticeIntact
  BY DEF IInv
<1> QED BY <1>1, Inductive, PTL

(* What L-BFGS is handed is the gradient of the whole training set at the  *)
(* current weights, regularised once (encoder.cpp 237-256, 278).           *)
THEOREM GradientsExact == Spec => []GradientExact
<1>1. IInv => GradientExact
  BY DEF IInv
<1> QED BY <1>1, Inductive, PTL

(* The weights stand still while a worker runs (encoder.cpp 222-228, 278). *)
THEOREM WeightsUnderNoWorker == Spec => WeightsStable
<1>1. IInv /\ [Next]_vars => [alpha' # alpha => \A t \in Thread : worker[t] = "idle"]_vars
  BY AlphaStep
<1> QED BY <1>1, Inductive, PTL DEF Spec, WeightsStable

(* The threaded trainer does nothing that batch training does not: every   *)
(* interleaving of the workers is hidden between two evaluations of the    *)
(* whole gradient.                                                         *)
THEOREM Refinement == Spec => Implements
<1> USE TrainingAssumption
<1>1. Init => Batch!Init
  BY DEF Init, Batch!Init, InRound, Batch!NoGradient, Batch!Term, Batch!Sentence,
         Zero, Term, Sentence
<1>2. IInv /\ IInv' /\ [Next]_vars => [Batch!Next]_(Batch!vars)
  <2> SUFFICES ASSUME IInv, IInv', [Next]_vars
               PROVE  Batch!Next \/ UNCHANGED Batch!vars
    OBVIOUS
  <2>0. TypeOK /\ Phases /\ GradientExact' /\ TypeOK'
    BY DEF IInv
  <2>1. CASE \E t \in Thread : Worker(t)
    <3>1. UNCHANGED mainVars /\ InRound
      BY <2>0, <2>1 DEF Phases, InRound, Worker, Run, BuildLattice, Accumulate,
                        Eval, Finish, TypeOK
    <3> QED BY <3>1 DEF Batch!vars, InRound, mainVars
  <2>2. CASE StartThread \/ JoinThread \/ Reduce
    <3>1. InRound /\ InRound' /\ UNCHANGED <<itr, converge, alpha>>
      BY <2>2 DEF StartThread, JoinThread, Reduce, InRound
    <3> QED BY <3>1 DEF Batch!vars
  <2>3. CASE Decide
    <3>1. /\ InRound /\ main' \in {"optimize", "converged"} /\ ~InRound'
          /\ UNCHANGED <<itr, alpha>> /\ itr < MaxItr /\ itr \in Nat
          /\ main' = IF converge' = 3 THEN "converged" ELSE "optimize"
      BY <2>0, <2>3 DEF Decide, InRound, Phases, TypeOK
    <3>2. \E small \in BOOLEAN :
             /\ itr = 0 => small = LooseEta
             /\ converge' = IF small THEN converge + 1 ELSE 0
      BY <2>3 DEF Decide
    <3>3. [count |-> expected'[0], at |-> costs'] = Batch!FullGradient(alpha)
      <4>1. /\ \A s \in Sentence : expected'[0][s] = 1 /\ costs'[s] = alpha
            /\ expected'[0][Reg] = IF Orthant THEN 0 ELSE 1
        BY <2>0, <3>1 DEF GradientExact
      <4>2. expected'[0] \in [Term -> Nat] /\ costs' \in [Sentence -> Nat]
        BY <2>0 DEF TypeOK, Thread
      <4>3. expected'[0] = [t \in Term |-> IF t = Reg /\ Orthant THEN 0 ELSE 1]
        BY <4>1, <4>2 DEF Term, Sentence, Reg
      <4>4. costs' = [s \in Sentence |-> alpha]
        BY <4>1, <4>2
      <4> QED BY <4>3, <4>4 DEF Batch!FullGradient, Batch!Term, Batch!Sentence,
                               Batch!Reg, Term, Sentence, Reg
    <3> QED BY <3>1, <3>2, <3>3 DEF Batch!Next, Batch!Evaluate
  <2>4. CASE Optimize
    <3>1. main = "optimize" /\ ~InRound
      BY <2>4 DEF Optimize, InRound
    <3>2. CASE main' = "failed"
      BY <2>0, <2>4, <3>1, <3>2 DEF Optimize, workerVars, InRound, Batch!Next,
         Batch!GiveUp
    <3>3. CASE main' # "failed"
      BY <2>0, <2>4, <3>1, <3>3 DEF Optimize, InRound, Batch!Next, Batch!Move,
         Batch!NoGradient, Batch!Term, Batch!Sentence, Zero, Term, Sentence
    <3> QED BY <3>2, <3>3
  <2>5. CASE UNCHANGED vars
    BY <2>5 DEF vars, mainVars, workerVars, Batch!vars, InRound
  <2> QED BY <2>1, <2>2, <2>3, <2>4, <2>5 DEF Next, Main, Return
<1> QED BY <1>1, <1>2, Inductive, PTL DEF Spec, Batch!Spec, Implements
=============================================================================
