-------------------------- MODULE ParallelTraining --------------------------
(***************************************************************************)
(* runCRF and its worker threads (encoder.cpp 68-93, 194-287), with what a *)
(* worker does to the storage it shares with the others: the taggers x[i], *)
(* the weights alpha and the node and path lists of the one Allocator.     *)
(*                                                                         *)
(* T workers are created anew in every iteration.  Worker t evaluates the  *)
(* sentences t, t+T, t+2T, ...; the lattice of sentence s is built in the  *)
(* lists of ThreadId(s), which rebuildFeatures empties first (feature.cpp  *)
(* 125-157): two sentences of one list cannot have a lattice at a time.    *)
(* No lock protects any of this.  The main thread starts all workers,      *)
(* joins them in order, adds their gradients into that of worker 0, tests  *)
(* for convergence and hands the sum to L-BFGS, which moves alpha.         *)
(***************************************************************************)
EXTENDS Integers

CONSTANTS T,          \* thread_num
          N,          \* x.size()
          MaxItr,     \* maxitr
          LooseEta,   \* eta > 1.0
          Orthant     \* CRF-L1

(* thread_num > 0 is checked (encoder.cpp 314).  An empty training set has *)
(* no &x[0] to hand to the workers (line 212).                             *)
ASSUME TrainingAssumption == /\ T \in Nat \ {0}
                             /\ N \in Nat \ {0}
                             /\ MaxItr \in Nat
                             /\ LooseEta \in BOOLEAN
                             /\ Orthant \in BOOLEAN

Thread   == 0..T-1
Sentence == 0..N-1
Reg      == N
Term     == 0..N      \* what a gradient is summed from
None     == -1

VARIABLES main,       \* where the main thread stands
          k,          \* its loop variable over the threads
          itr, converge,
          alpha,      \* how often L-BFGS has moved the weights
          worker,     \* worker[t]: idle, run, loop, sum, eval, finished
          pos,        \* pos[t]: the i of CRFEncoderThread::run
          expected,   \* expected[t][e]: how often term e was added
          list,       \* list[t]: sentence whose lattice fills t's lists
          costs,      \* costs[s]: alpha when the lattice of s got its costs
          reply       \* what LBFGS::optimize returned last

mainVars   == <<main, k, itr, converge, alpha, reply>>
workerVars == <<worker, pos, list, costs>>
vars       == <<mainVars, workerVars, expected>>

(* The list a sentence is bound to when it is read (encoder.cpp 365), and  *)
(* the same when the call is forgotten: thread_id_ starts as 0.            *)
ThreadIdUnset(s) == 0                        \* mutant
ThreadId(s) == s % T

Zero == [e \in Term |-> 0]

Init == /\ main = IF MaxItr = 0 THEN "exhausted" ELSE "start"
        /\ k = 0 /\ itr = 0 /\ converge = 0 /\ alpha = 0 /\ reply = 1
        /\ worker = [t \in Thread |-> "idle"]
        /\ pos = [t \in Thread |-> 0]
        /\ expected = [t \in Thread |-> Zero]
        /\ list = [t \in Thread |-> None]
        /\ costs = [s \in Sentence |-> 0]
-----------------------------------------------------------------------------
(* The worker.                                                             *)

RunUncleared(t) ==                           \* mutant: std::fill forgotten
          /\ worker[t] = "run"
          /\ pos' = [pos EXCEPT ![t] = t]
          /\ worker' = [worker EXCEPT ![t] = "loop"]
          /\ UNCHANGED <<mainVars, expected, list, costs>>

Run(t) == /\ worker[t] = "run"
          /\ expected' = [expected EXCEPT ![t] = Zero]
          /\ pos' = [pos EXCEPT ![t] = t]
          /\ worker' = [worker EXCEPT ![t] = "loop"]
          /\ UNCHANGED <<mainVars, list, costs>>

(* gradient(): buildLattice empties the lists of the sentence's thread id, *)
(* builds its lattice there and reads alpha for the costs.                 *)
BuildLattice(t) ==
  /\ worker[t] = "loop" /\ pos[t] < N
  /\ list' = [list EXCEPT ![ThreadId(pos[t])] = pos[t]]
  /\ costs' = [costs EXCEPT ![pos[t]] = alpha]
  /\ worker' = [worker EXCEPT ![t] = "sum"]
  /\ UNCHANGED <<mainVars, pos, expected>>

(* gradient(): forward-backward over that lattice, the sentence's share is *)
(* added to the worker's own gradient, then viterbi() fills result_.       *)
Accumulate(t) ==
  /\ worker[t] = "sum"
  /\ expected' = [expected EXCEPT ![t][pos[t]] = @ + 1]
  /\ worker' = [worker EXCEPT ![t] = "eval"]
  /\ UNCHANGED <<mainVars, pos, list, costs>>

(* eval() reads result_ and answer_, which belong to the sentence alone.   *)
Eval(t) == /\ worker[t] = "eval"
           /\ pos' = [pos EXCEPT ![t] = @ + T]
           /\ worker' = [worker EXCEPT ![t] = "loop"]
           /\ UNCHANGED <<mainVars, expected, list, costs>>

Finish(t) == /\ worker[t] = "loop" /\ pos[t] >= N
             /\ worker' = [worker EXCEPT ![t] = "finished"]
             /\ UNCHANGED <<mainVars, pos, expected, list, costs>>

Worker(t) == Run(t) \/ BuildLattice(t) \/ Accumulate(t) \/ Eval(t) \/ Finish(t)
-----------------------------------------------------------------------------
(* The main thread.                                                        *)

StartThread == /\ main = "start"
               /\ worker' = [worker EXCEPT ![k] = "run"]
               /\ main' = IF k + 1 < T THEN "start" ELSE "join"
               /\ k' = IF k + 1 < T THEN k + 1 ELSE 0
               /\ UNCHANGED <<itr, converge, alpha, reply, pos, expected, list, costs>>

JoinNoWait == /\ main = "join"               \* mutant: the exit is not awaited
              /\ main' = IF k + 1 < T THEN "join" ELSE "reduce"
              /\ k' = IF k + 1 < T THEN k + 1 ELSE 1
              /\ UNCHANGED <<worker, itr, converge, alpha, reply, pos, expected, list, costs>>

JoinThread == /\ main = "join"
              /\ worker[k] = "finished"
              /\ worker' = [worker EXCEPT ![k] = "idle"]
              /\ main' = IF k + 1 < T THEN "join" ELSE "reduce"
              /\ k' = IF k + 1 < T THEN k + 1 ELSE 1
              /\ UNCHANGED <<itr, converge, alpha, reply, pos, expected, list, costs>>

Reduce == /\ main = "reduce" /\ k < T
          /\ expected' = [expected EXCEPT ![0] =
                            [e \in Term |-> @[e] + expected[k][e]]]
          /\ k' = k + 1
          /\ UNCHANGED <<main, itr, converge, alpha, reply>>
          /\ UNCHANGED workerVars

DecideNoReset ==                             \* mutant: converge = 0 forgotten
  /\ main = "reduce" /\ k = T
  /\ expected' = IF Orthant THEN expected
                 ELSE [expected EXCEPT ![0][Reg] = @ + 1]
  /\ \E small \in BOOLEAN :
       /\ itr = 0 => small = LooseEta
       /\ converge' = IF small THEN converge + 1 ELSE converge
  /\ main' = IF itr > MaxItr \/ converge' = 3 THEN "converged" ELSE "optimize"
  /\ k' = 0
  /\ UNCHANGED <<itr, alpha, reply>>
  /\ UNCHANGED workerVars

(* The regulariser and the test for convergence.  The first diff is 1.0.   *)
Decide ==
  /\ main = "reduce" /\ k = T
  /\ expected' = IF Orthant THEN expected
                 ELSE [expected EXCEPT ![0][Reg] = @ + 1]
  /\ \E small \in BOOLEAN :
       /\ itr = 0 => small = LooseEta
       /\ converge' = IF small THEN converge + 1 ELSE 0
  /\ main' = IF itr > MaxItr \/ converge' = 3 THEN "converged" ELSE "optimize"
  /\ k' = 0
  /\ UNCHANGED <<itr, alpha, reply>>
  /\ UNCHANGED workerVars

(* LBFGS::optimize: 1 moves alpha, 0 and -1 end the loop with "false".     *)
OptimizeAgain ==                 \* mutant: the reply decides nothing but ++itr
  /\ main = "optimize"
  /\ reply' \in {-1, 0, 1}
  /\ IF reply' <= 0
     THEN main' = "start" /\ UNCHANGED <<itr, alpha>>
     ELSE /\ alpha' = alpha + 1
          /\ itr' = itr + 1
          /\ main' = IF itr + 1 < MaxItr THEN "start" ELSE "exhausted"
  /\ UNCHANGED <<k, converge, expected>>
  /\ UNCHANGED workerVars

Optimize ==
  /\ main = "optimize"
  /\ reply' \in {-1, 0, 1}
  /\ IF reply' <= 0
     THEN main' = "failed" /\ UNCHANGED <<itr, alpha>>
     ELSE /\ alpha' = alpha + 1
          /\ itr' = itr + 1
          /\ main' = IF itr + 1 < MaxItr THEN "start" ELSE "exhausted"
  /\ UNCHANGED <<k, converge, expected>>
  /\ UNCHANGED workerVars

Main == StartThread \/ JoinThread \/ Reduce \/ Decide \/ Optimize

(* The function has returned; nothing of it is left running.               *)
Returned == main \in {"converged", "exhausted", "failed"}
Return == Returned /\ UNCHANGED vars

Next == Main \/ Return \/ \E t \in Thread : Worker(t)

(* The operating system runs every runnable thread eventually.             *)
Fairness == WF_vars(Main) /\ \A t \in Thread : WF_vars(Worker(t))

Spec == Init /\ [][Next]_vars
FairSpec == Spec /\ Fairness
-----------------------------------------------------------------------------
TypeOK ==
  /\ main \in {"start", "join", "reduce", "optimize",
               "converged", "exhausted", "failed"}
  /\ k \in 0..T /\ itr \in 0..MaxItr /\ converge \in 0..3 /\ alpha \in Nat
  /\ worker \in [Thread -> {"idle", "run", "loop", "sum", "eval", "finished"}]
  /\ pos \in [Thread -> Nat]
  /\ expected \in [Thread -> [Term -> Nat]]
  /\ list \in [Thread -> Sentence \cup {None}]
  /\ costs \in [Sentence -> Nat]
  /\ reply \in {-1, 0, 1}

(* The lattice a worker is reading is still the one it built: no other     *)
(* worker has emptied or refilled those lists in between, although nothing *)
(* but the numbering of sentences and threads keeps them apart             *)
(* (encoder.cpp 365 against 84; feature.cpp 130).                          *)
LatticeIntact ==
  \A t \in Thread : worker[t] = "sum" => list[ThreadId(pos[t])] = pos[t]

(* L-BFGS is handed the gradient of the whole training set at the current  *)
(* alpha: every sentence counted exactly once, evaluated with the weights  *)
(* it is about to move, and the regulariser once for L2, never for L1      *)
(* (encoder.cpp 237-256, 278).                                             *)
GradientExact ==
  main \in {"optimize", "converged"} =>
    /\ \A s \in Sentence : expected[0][s] = 1 /\ costs[s] = alpha
    /\ expected[0][Reg] = IF Orthant THEN 0 ELSE 1

(* The weights never change under a running worker, which reads them       *)
(* without a lock (feature_index.cpp 507-538 against encoder.cpp 278).     *)
WeightsStable ==
  [][alpha' # alpha => \A t \in Thread : worker[t] = "idle"]_vars

(* runCRF is batch minimisation, threads or not.                           *)
InRound == main \in {"start", "join", "reduce"}
Batch == INSTANCE BatchTraining WITH
  phase <- IF InRound THEN "evaluate" ELSE main,
  point <- alpha,
  grad  <- IF InRound \/ main = "exhausted"
           THEN [count |-> Zero, at |-> [s \in Sentence |-> 0]]
           ELSE [count |-> expected[0], at |-> costs]
Implements == Batch!Spec

(* Training ends: no round waits for a worker for ever, and the bound on   *)
(* the iterations or a reply of L-BFGS ends the loop.                      *)
Terminates == <>Returned
-----------------------------------------------------------------------------
(* The inductive invariant behind LatticeIntact and GradientExact.         *)

(* Who runs while the main thread stands where it stands.                  *)
Phases ==
  /\ main = "start" => /\ k < T
                       /\ \A t \in Thread : (t >= k) = (worker[t] = "idle")
  /\ main = "join" => /\ k < T
                      /\ \A t \in Thread : (t < k) = (worker[t] = "idle")
  /\ main = "reduce" => 1 <= k
  /\ main \notin {"start", "join"} => \A t \in Thread : worker[t] = "idle"
  /\ main = "start" \/ main = "optimize" => itr < MaxItr
  /\ main \in {"join", "reduce"} => itr < MaxItr
  /\ main # "converged" => converge < 3
  /\ main \in {"optimize", "converged", "exhausted"} => k = 0

(* A worker visits the sentences of its own residue, one by one.           *)
Strides ==
  \A t \in Thread :
    /\ worker[t] \in {"loop", "sum", "eval"} => pos[t] % T = t
    /\ worker[t] \in {"sum", "eval"} => pos[t] < N

(* What worker t has added up when it has reached sentence e.              *)
Limit(t) == CASE worker[t] \in {"loop", "sum"} -> pos[t]
              [] worker[t] = "eval"            -> pos[t] + 1
              [] OTHER                         -> N

Share(t) ==
  /\ \A e \in Term : expected[t][e] =
       IF e < N /\ e % T = t /\ e < Limit(t) THEN 1 ELSE 0
  /\ \A s \in Sentence : s % T = t /\ s < Limit(t) => costs[s] = alpha

Shares ==
  \A t \in Thread :
    \/ worker[t] \in {"loop", "sum", "eval", "finished"}
    \/ main = "join" /\ t < k
    \/ main = "reduce" /\ k <= t
    => Share(t)

SumEval == \A t \in Thread : worker[t] \in {"sum", "eval"} => costs[pos[t]] = alpha

Reduced ==
  main = "reduce" =>
    /\ \A e \in Term : expected[0][e] = IF e < N /\ e % T < k THEN 1 ELSE 0
    /\ \A s \in Sentence : costs[s] = alpha

IInv == /\ TypeOK /\ Phases /\ Strides /\ Shares /\ SumEval /\ Reduced
        /\ LatticeIntact /\ GradientExact
=============================================================================
