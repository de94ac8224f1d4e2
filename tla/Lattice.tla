------------------------------- MODULE Lattice -------------------------------
(***************************************************************************)
(* The dynamic programmes over a sentence's lattice: calcAlpha, calcBeta,  *)
(* calcExpectation (node.cpp, path.cpp), forwardbackward, viterbi, gradient*)
(* and collins (tagger.cpp 506-664).                                       *)
(*                                                                         *)
(* A lattice has a node for every position and tag and a path between any  *)
(* two tags of neighbouring positions.  c.node[i][y] and c.path[i][a][b]   *)
(* are their costs; b is the tag at i, a the one at i-1.  Costs here are   *)
(* natural numbers and log is taken to base 2, so that exp(cost) is exact: *)
(* Alpha and Beta are the exponentials of the fields of the code, and      *)
(* logsumexp is a sum.                                                     *)
(***************************************************************************)
EXTENDS Integers, Sequences, FiniteSets, FiniteSetsExt

CONSTANT Y            \* number of tags
ASSUME YAssumption == Y \in Nat \ {0}

Tag == 0..Y-1

(* 2 to the n, as a function of the naturals so that it can be reasoned    *)
(* about.                                                                  *)
Exp(n) ==
  LET power[k \in 0..n] == IF k = 0 THEN 1 ELSE 2 * power[k-1]
  IN  power[n]

(* f[0] + ... + f[n-1], added up as the loops over nodes and paths do.     *)
SumUpTo(n, f) ==
  LET upto[k \in 0..n] == IF k = 0 THEN 0 ELSE upto[k-1] + f[k-1]
  IN  upto[n]
TagSum(f) == SumUpTo(Y, f)

(* The sum of f over a finite set, one element after another.              *)
SetSum(S, f) ==
  LET sum[T \in SUBSET S] ==
        IF T = {} THEN 0 ELSE LET x == CHOOSE x \in T : TRUE
                              IN  f[x] + sum[T \ {x}]
  IN  sum[S]

(* node.cpp 15-23: the sum over the left paths, then the node's own cost.  *)
AlphaNoCost(c, len) ==                       \* mutant: alpha += cost dropped
  LET alpha[i \in 0..len-1] ==
        [y \in Tag |->
           IF i = 0 THEN Exp(c.node[i][y])
           ELSE TagSum([a \in Tag |-> Exp(c.path[i][a][y]) * alpha[i-1][a]])]
  IN  alpha
Alpha(c, len) ==
  LET alpha[i \in 0..len-1] ==
        [y \in Tag |->
           Exp(c.node[i][y]) *
             IF i = 0 THEN 1
             ELSE TagSum([a \in Tag |-> Exp(c.path[i][a][y]) * alpha[i-1][a]])]
  IN  alpha

(* node.cpp 25-33, from the last position to the first.                    *)
Beta(c, len) ==
  LET beta[i \in 0..len-1] ==
        [y \in Tag |->
           Exp(c.node[i][y]) *
             IF i = len - 1 THEN 1
             ELSE TagSum([b \in Tag |-> Exp(c.path[i+1][y][b]) * beta[i+1][b]])]
  IN  beta

(* tagger.cpp 523-526: the normaliser is read off the first position.      *)
Z(c, len) == TagSum([y \in Tag |-> Beta(c, len)[0][y]])

(* exp(alpha + beta - cost) and exp(lnode->alpha + cost + rnode->beta): Z  *)
(* times what calcExpectation adds for a node and for a path.              *)
NodeMass(c, len, i, y) ==
  (Alpha(c, len)[i][y] * Beta(c, len)[i][y]) \div Exp(c.node[i][y])
PathMass(c, len, i, a, b) ==
  Alpha(c, len)[i-1][a] * Exp(c.path[i][a][b]) * Beta(c, len)[i][b]

(* viterbi(): the first of the best left neighbours wins (> at line 540).  *)
FirstBest(f) == CHOOSE y \in Tag : /\ \A z \in Tag : f[z] <= f[y]
                                   /\ \A z \in Tag : z < y => f[z] < f[y]
BestCost(c, len) ==
  LET best[i \in 0..len-1] ==
        [y \in Tag |->
           c.node[i][y] +
             IF i = 0 THEN 0
             ELSE Max({best[i-1][a] + c.path[i][a][y] : a \in Tag})]
  IN  best

PrevNext(c, best, i, y) ==                   \* mutant: the path's cost dropped
  FirstBest([a \in Tag |-> best[i-1][a]])

Prev(c, best, i, y) == FirstBest([a \in Tag |-> best[i-1][a] + c.path[i][a][y]])

(* The walk back along prev from the best node of the last position.       *)
BestTags(c, len) ==
  LET best == BestCost(c, len)
      back[i \in 0..len-1] == IF i = len - 1 THEN FirstBest(best[i])
                              ELSE Prev(c, best, i+1, back[i+1])
  IN  back

(* What gradient() subtracts for the answer, and what collins() adds: the  *)
(* paths of the lattice whose two tags are those of the answer; the costs  *)
(* on the way are summed position by position.                             *)
OnTags(tags, i, y)      == tags[i] = y
OnPath(tags, i, a, b)   == tags[i-1] = a /\ tags[i] = b
One(p) == IF p THEN 1 ELSE 0

RunningCost(c, len, tags) ==
  LET sum[i \in 0..len-1] ==
        c.node[i][tags[i]] +
          IF i = 0 THEN 0 ELSE sum[i-1] + c.path[i][tags[i-1]][tags[i]]
  IN  sum
TagsCost(c, len, tags) == RunningCost(c, len, tags)[len-1]

(* gradient(): Z times the derivative for a node weight and a path weight. *)
NodeGradient(c, len, answer, i, y) ==
  NodeMass(c, len, i, y) - Z(c, len) * One(OnTags(answer, i, y))
PathGradient(c, len, answer, i, a, b) ==
  PathMass(c, len, i, a, b) - Z(c, len) * One(OnPath(answer, i, a, b))

(* collins(): nothing at all when the tags are right (line 620); otherwise *)
(* the direction from the tags found to the answer, and what it would gain.*)
CollinsNode(answer, result, i, y) ==
  IF answer = result THEN 0
  ELSE One(OnTags(answer, i, y)) - One(OnTags(result, i, y))
CollinsPath(answer, result, i, a, b) ==
  IF answer = result THEN 0
  ELSE One(OnPath(answer, i, a, b)) - One(OnPath(result, i, a, b))
CollinsCostSwapped(c, len, answer, result) ==   \* mutant: + answer, - result
  IF answer = result THEN 0
  ELSE TagsCost(c, len, answer) - TagsCost(c, len, result)
CollinsCost(c, len, answer, result) ==
  IF answer = result THEN 0
  ELSE TagsCost(c, len, result) - TagsCost(c, len, answer)
-----------------------------------------------------------------------------
(* The reference: every labelling, one by one.                             *)
Labellings(len) == [0..len-1 -> Tag]
Mass(c, len) == [tags \in Labellings(len) |-> Exp(TagsCost(c, len, tags))]
TotalMass(c, len, S) == SetSum(S, Mass(c, len))
=============================================================================
