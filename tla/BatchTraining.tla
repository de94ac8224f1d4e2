--------------------------- MODULE BatchTraining ---------------------------
(***************************************************************************)
(* What runCRF (encoder.cpp 194-287) promises, without its threads: batch  *)
(* minimisation.  Each round evaluates the objective's gradient over the   *)
(* WHOLE training set at one point, then either stops or lets L-BFGS move  *)
(* the point.  ParallelTraining implements this module.                    *)
(*                                                                         *)
(* A gradient is described by what was summed to obtain it: how often each *)
(* sentence and the regulariser were added (count), and the point at which *)
(* each sentence was evaluated (at).                                       *)
(***************************************************************************)
EXTENDS Integers

CONSTANTS N,          \* sentences in the training set: x.size()
          MaxItr,     \* -m / maxitr
          LooseEta,   \* eta > 1.0: even the first round counts as converged
          Orthant     \* CRF-L1: the regulariser is left to L-BFGS

Sentence == 0..N-1
Reg  == N             \* the term alpha[k] / C, beside the sentences
Term == 0..N

VARIABLES phase,      \* evaluate, optimize, and the three ways to end
          itr, converge,
          point,      \* how often L-BFGS has moved alpha
          grad        \* the gradient L-BFGS is given, NoGradient before

vars == <<phase, itr, converge, point, grad>>

NoGradient == [count |-> [t \in Term |-> 0], at |-> [s \in Sentence |-> 0]]

FullGradient(p) ==
  [count |-> [t \in Term |-> IF t = Reg /\ Orthant THEN 0 ELSE 1],
   at    |-> [s \in Sentence |-> p]]

Init == /\ phase = IF MaxItr = 0 THEN "exhausted" ELSE "evaluate"
        /\ itr = 0 /\ converge = 0 /\ point = 0
        /\ grad = NoGradient

(* One round: the exact gradient, then the test of encoder.cpp 258-276.    *)
Evaluate ==
  /\ phase = "evaluate"
  /\ grad' = FullGradient(point)
  /\ \E small \in BOOLEAN :
       /\ itr = 0 => small = LooseEta
       /\ converge' = IF small THEN converge + 1 ELSE 0
  /\ phase' = IF converge' = 3 THEN "converged" ELSE "optimize"
  /\ UNCHANGED <<itr, point>>

Move == /\ phase = "optimize"
        /\ point' = point + 1
        /\ itr' = itr + 1
        /\ phase' = IF itr' < MaxItr THEN "evaluate" ELSE "exhausted"
        /\ grad' = NoGradient
        /\ UNCHANGED converge

GiveUp == /\ phase = "optimize"
          /\ phase' = "failed"
          /\ UNCHANGED <<itr, converge, point, grad>>

Next == Evaluate \/ Move \/ GiveUp

Spec == Init /\ [][Next]_vars
=============================================================================
