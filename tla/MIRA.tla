-------------------------------- MODULE MIRA --------------------------------
(***************************************************************************)
(* runMIRA (encoder.cpp 95-192): one sentence after the other is parsed    *)
(* with the current weights and, when it is parsed wrongly, pulls them     *)
(* towards its answer.  Sentence s has a budget C for all its pulls        *)
(* (upper_bound) and is left out once it was parsed right shrinking_size   *)
(* times running (shrink), until a pass in which nothing was left to       *)
(* correct.  The count is an unsigned char, shrinking_size is wider.       *)
(*                                                                         *)
(* Only what the control reads is kept of the numbers: whether a wrong     *)
(* parse is still too close to the answer (error_num > cost_diff), the     *)
(* length mu of the pull in units of the budget, and whether the pass saw  *)
(* a violation (max_kkt_violation > 0).  A mu of 0 is one of at most 1e-10.*)
(***************************************************************************)
EXTENDS Integers

CONSTANTS N,          \* x.size()
          Sizes,      \* the values of -H
          Wrap,       \* values of an unsigned char: 256 in the code
          C,          \* the budget
          MaxItr      \* maxitr

(* shrinking_size >= 1 and C >= 0 are checked (encoder.cpp 312-313).       *)
ASSUME MIRAAssumption == /\ N \in Nat /\ C \in Nat /\ MaxItr \in Nat
                         /\ Sizes \subseteq Nat \ {0} /\ Wrap \in Nat \ {0}

Sentence == 0..N-1

VARIABLES shrinking_size,  \* -H, fixed
          phase,      \* visit, converged, exhausted
          itr, converge,
          cur,        \* the sentence whose turn it is
          shrink, upper,
          violated,   \* max_kkt_violation > 0 in this pass
          seen,       \* history: the sentences parsed in this pass
          streak      \* history: right parses of s since its last wrong one
                      \* or since the last clean pass

miraVars == <<shrinking_size, phase, itr, converge, cur, shrink, upper, violated, seen, streak>>

NoneYet == [s \in Sentence |-> 0]

MiraInit ==
        /\ shrinking_size \in Sizes
        /\ phase = IF MaxItr = 0 THEN "exhausted" ELSE "visit"
        /\ itr = 0 /\ converge = 0 /\ cur = 0
        /\ shrink = NoneYet /\ upper = NoneYet /\ streak = NoneYet
        /\ violated = FALSE /\ seen = {}

(* Lines 124-126.                                                          *)
Skip == /\ phase = "visit" /\ cur < N
        /\ shrink[cur] >= shrinking_size
        /\ cur' = cur + 1
        /\ UNCHANGED <<phase, itr, converge, shrink, upper, violated, seen, streak>>

Parse == /\ phase = "visit" /\ cur < N
         /\ shrink[cur] < shrinking_size
         /\ cur' = cur + 1
         /\ seen' = seen \cup {cur}

Right == /\ Parse
         /\ shrink' = [shrink EXCEPT ![cur] = (@ + 1) % Wrap]
         /\ streak' = [streak EXCEPT ![cur] = @ + 1]
         /\ UNCHANGED <<phase, itr, converge, upper, violated>>

PullWhole(mu) == mu                          \* mutant: the budget is not applied

(* A pull of length mu; the budget cuts it short (lines 146-162).          *)
Pull(mu) == IF upper[cur] + mu > C THEN C - upper[cur] ELSE mu

WrongKeepsShrink(mu, close) ==               \* mutant: shrink[i] = 0 forgotten
  /\ Parse
  /\ ~close => mu = 0
  /\ streak' = [streak EXCEPT ![cur] = 0]
  /\ upper' = [upper EXCEPT ![cur] = @ + Pull(mu)]
  /\ violated' = (violated \/ (close /\ upper[cur] + mu <= C))
  /\ UNCHANGED <<phase, itr, converge, shrink>>

Wrong(mu, close) ==
  /\ Parse
  /\ ~close => mu = 0
  /\ shrink' = [shrink EXCEPT ![cur] = 0]
  /\ streak' = [streak EXCEPT ![cur] = 0]
  /\ upper' = [upper EXCEPT ![cur] = @ + Pull(mu)]
  /\ violated' = (violated \/ (close /\ upper[cur] + mu <= C))
  /\ UNCHANGED <<phase, itr, converge>>

(* Lines 179-188, and the head of the loop.  A clean pass brings back the  *)
(* sentences set aside.                                                    *)
PassNoRefill ==                              \* mutant: std::fill forgotten
  /\ phase = "visit" /\ cur = N
  /\ UNCHANGED <<shrink, streak>>
  /\ converge' = IF violated THEN 0 ELSE converge + 1
  /\ IF converge' = 2
     THEN phase' = "converged" /\ UNCHANGED <<itr, cur, violated, seen>>
     ELSE /\ itr' = itr + 1
          /\ phase' = IF itr' < MaxItr THEN "visit" ELSE "exhausted"
          /\ cur' = 0 /\ violated' = FALSE /\ seen' = {}
  /\ UNCHANGED upper

PassForever ==                               \* mutant: itr is not advanced
  /\ phase = "visit" /\ cur = N
  /\ IF violated THEN UNCHANGED <<shrink, streak>>
                 ELSE shrink' = NoneYet /\ streak' = NoneYet
  /\ converge' = IF violated THEN 0 ELSE converge + 1
  /\ IF converge' = 2
     THEN phase' = "converged" /\ UNCHANGED <<cur, violated, seen>>
     ELSE phase' = "visit" /\ cur' = 0 /\ violated' = FALSE /\ seen' = {}
  /\ UNCHANGED <<itr, upper>>

Pass ==
  /\ phase = "visit" /\ cur = N
  /\ IF violated THEN UNCHANGED <<shrink, streak>>
                 ELSE shrink' = NoneYet /\ streak' = NoneYet
  /\ converge' = IF violated THEN 0 ELSE converge + 1
  /\ IF converge' = 2
     THEN phase' = "converged" /\ UNCHANGED <<itr, cur, violated, seen>>
     ELSE /\ itr' = itr + 1
          /\ phase' = IF itr' < MaxItr THEN "visit" ELSE "exhausted"
          /\ cur' = 0 /\ violated' = FALSE /\ seen' = {}
  /\ UNCHANGED upper

Returned == phase # "visit"
Return == Returned /\ UNCHANGED miraVars

MiraNext == /\ UNCHANGED shrinking_size
            /\ \/ Skip \/ Right \/ Pass \/ Return
               \/ \E mu \in 0..C+1, close \in BOOLEAN : Wrong(mu, close)

MiraSpec == MiraInit /\ [][MiraNext]_miraVars
MiraFairSpec == MiraSpec /\ WF_miraVars(MiraNext)
-----------------------------------------------------------------------------
MiraTypeOK ==
          /\ shrinking_size \in Sizes
          /\ phase \in {"visit", "converged", "exhausted"}
          /\ itr \in 0..MaxItr /\ converge \in 0..2 /\ cur \in 0..N
          /\ shrink \in [Sentence -> 0..Wrap-1]
          /\ upper \in [Sentence -> Nat]
          /\ violated \in BOOLEAN
          /\ seen \subseteq Sentence
          /\ streak \in [Sentence -> Nat]

(* Sentences are set aside only on trial: training is never declared       *)
(* converged on the strength of sentences it no longer looks at.  The last *)
(* pass before convergence parsed all of them and found nothing to correct *)
(* (encoder.cpp 124, 137, 179-187).                                        *)
ConvergedOnAll == phase = "converged" => seen = Sentence /\ ~violated

(* No sentence pulls the weights further than C allows over all passes     *)
(* (encoder.cpp 146-162).                                                  *)
WithinBudget == \A s \in Sentence : upper[s] \in 0..C

(* A sentence is set aside exactly when it was parsed right shrinking_size *)
(* times running, if the counter can hold that many; if it cannot, no      *)
(* sentence is ever set aside, however often it is parsed right            *)
(* (encoder.cpp 103, 124, 138).                                            *)
ShrinksAfterH ==
  \A s \in Sentence :
    IF shrinking_size < Wrap
    THEN /\ streak[s] <= shrinking_size
         /\ shrink[s] >= shrinking_size <=> streak[s] = shrinking_size
    ELSE shrink[s] < shrinking_size

(* The passes end: by convergence or by maxitr.                            *)
Terminates == <>Returned

(* The inductive invariants.  After a clean pass (converge = 1) no         *)
(* sentence that is still to come in this pass is set aside.               *)
AllBack == phase = "visit" /\ converge = 1 =>
             /\ \A s \in Sentence : s >= cur => shrink[s] = 0
             /\ \A s \in Sentence : s < cur => s \in seen
Ends == phase = "visit" => converge < 2 /\ itr < MaxItr
MiraInv == MiraTypeOK /\ AllBack /\ Ends /\ ConvergedOnAll /\ WithinBudget

ShrinkIsStreak == shrinking_size < Wrap => \A s \in Sentence : /\ shrink[s] = streak[s]
                                                                /\ streak[s] <= shrinking_size
=============================================================================
