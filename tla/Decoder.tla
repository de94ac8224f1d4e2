------------------------------- MODULE Decoder -------------------------------
(***************************************************************************)
(* TaggerImpl::parse and next (tagger.cpp 403-455, 666-683): the lattice of*)
(* a sentence is built and searched, then the n-best labellings are drawn  *)
(* from it one at a time by an A* search that runs from the last position  *)
(* to the first, guided by the exact scores viterbi() left in the nodes.   *)
(*                                                                         *)
(* An element of the agenda is the chain of QueueElements hanging off one  *)
(* of them: the tags of the last positions, with its g and f.              *)
(***************************************************************************)
EXTENDS Lattice, SequencesExt

CONSTANTS Lengths,    \* lengths of sentence to examine
          Costs(_)    \* the lattices of a length to examine

(* The costs of a lattice of n positions.                                  *)
LatticesOf(n) == [node : [0..n-1 -> [Tag -> Int]],
                  path : [1..n-1 -> [Tag -> [Tag -> Int]]]]
ASSUME LatticeAssumption == /\ Lengths \subseteq Nat \ {0}
                            /\ \A n \in Lengths : Costs(n) \subseteq LatticesOf(n)
(* The sums of exponentials are about those whose costs are natural, as    *)
(* module Lattice explains; the searches are about all of them.            *)
NaturalLattices(n) == [node : [0..n-1 -> [Tag -> Nat]],
                       path : [1..n-1 -> [Tag -> [Tag -> Nat]]]]
NaturalCosts == \A n \in Lengths : Costs(n) \subseteq NaturalLattices(n)

VARIABLES phase,      \* built, summed, searched, nbest, empty
          wanted,     \* what the options ask for: nbest_ > 0, else vlevel_ > 0
          len, costs, \* the sentence
          z,          \* Z_ (its exponential); 0 before forwardbackward()
          best,       \* bestCost of every node
          result, cost,  \* result_ and cost_
          agenda,
          found       \* history: the labellings next() has returned, in order

searchVars == <<best, result, cost, agenda, found>>
sentence == <<wanted, len, costs>>
vars == <<phase, sentence, z, searchVars>>

NoTags == [i \in {} |-> 0]

Init == /\ phase = "built"
        /\ len \in Lengths
        /\ costs \in Costs(len)
        /\ wanted \in {"best", "marginals", "nbest"}
        /\ z = 0
        /\ best = <<>> /\ result = NoTags /\ cost = 0
        /\ agenda = {} /\ found = <<>>

ForwardBackward ==
  /\ phase = "built" /\ wanted # "best"
  /\ phase' = "summed"
  /\ z' = Z(costs, len)
  /\ UNCHANGED <<sentence, searchVars>>

Element(tags, g, f) == [tags |-> tags, gx |-> g, fx |-> f]

Viterbi ==
  /\ phase = IF wanted = "best" THEN "built" ELSE "summed"
  /\ phase' = "searched"
  /\ best' = BestCost(costs, len)
  /\ result' = BestTags(costs, len)
  /\ cost' = -best'[len-1][result'[len-1]]
  /\ UNCHANGED <<sentence, z, agenda, found>>

(* One element for every tag of the last position.                         *)
InitNbest ==
  /\ phase = "searched" /\ wanted = "nbest"
  /\ phase' = "nbest"
  /\ agenda' = {Element(<<y>>, -costs.node[len-1][y], -best[len-1][y]) : y \in Tag}
  /\ UNCHANGED <<sentence, z, best, result, cost, found>>

(* The elements one node further to the left.                              *)
ExpandGreedy(e) ==               \* mutant: the right node's cost left out of f
  LET i == len - Len(e.tags)
      y == Head(e.tags)
  IN  {Element(<<a>> \o e.tags,
               e.gx - costs.path[i][a][y] - costs.node[i-1][a],
               e.gx - costs.path[i][a][y]) : a \in Tag}
ExpandSkip(e) ==                 \* mutant: the walk over lpath starts one late
  LET i == len - Len(e.tags)
      y == Head(e.tags)
  IN  {Element(<<a>> \o e.tags,
               e.gx - costs.path[i][a][y] - costs.node[i-1][a],
               e.gx - costs.path[i][a][y] - best[i-1][a]) : a \in Tag \ {0}}
Expand(e) ==
  LET i == len - Len(e.tags)
      y == Head(e.tags)
  IN  {Element(<<a>> \o e.tags,
               e.gx - costs.path[i][a][y] - costs.node[i-1][a],
               e.gx - costs.path[i][a][y] - best[i-1][a]) : a \in Tag}

(* std::priority_queue promises no order between equal f.                  *)
Top == {e \in agenda : \A d \in agenda : e.fx <= d.fx}

(* One turn of the loop in next(): an element that has reached position 0  *)
(* is returned, any other is replaced by its extensions.                   *)
Pop(e) ==
  /\ phase = "nbest" /\ e \in Top
  /\ IF Len(e.tags) = len
     THEN /\ result' = [i \in 0..len-1 |-> e.tags[i+1]]
          /\ cost' = e.gx
          /\ found' = Append(found, result')
          /\ agenda' = agenda \ {e}
     ELSE /\ agenda' = (agenda \ {e}) \cup Expand(e)
          /\ UNCHANGED <<result, cost, found>>
  /\ UNCHANGED <<phase, sentence, z, best>>

(* next() finds the agenda empty and returns 0, now and ever after.        *)
Empty == /\ phase = "nbest" /\ agenda = {}
         /\ phase' = "empty"
         /\ UNCHANGED <<sentence, z, searchVars>>
Done == \/ phase = "empty"
        \/ phase = "searched" /\ wanted # "nbest"
Rest == Done /\ UNCHANGED vars

Next == ForwardBackward \/ Viterbi \/ InitNbest \/ Empty \/ Rest \/ \E e \in agenda : Pop(e)

Spec == Init /\ [][Next]_vars
-----------------------------------------------------------------------------
(* Z and the marginals are those of the full enumeration of labellings:    *)
(* what prob(i, j) returns is a marginal probability (crfpp.h 238) and what*)
(* training takes for the gradient is the derivative of the likelihood     *)
(* (tagger.cpp 567-600; node.cpp 35-43; path.cpp 14-19).                   *)
MarginalsExact ==
  phase = "summed" =>
    /\ z = TotalMass(costs, len, Labellings(len))
    /\ \A answer \in Labellings(len), i \in 0..len-1, y \in Tag :
         NodeGradient(costs, len, answer, i, y) =
           TotalMass(costs, len, {t \in Labellings(len) : t[i] = y})
           - (IF answer[i] = y THEN z ELSE 0)
    /\ \A answer \in Labellings(len), i \in 1..len-1, a, b \in Tag :
         PathGradient(costs, len, answer, i, a, b) =
           TotalMass(costs, len, {t \in Labellings(len) : t[i-1] = a /\ t[i] = b})
           - (IF answer[i-1] = a /\ answer[i] = b THEN z ELSE 0)

(* After viterbi() result_ is a best labelling; cost_ is the cost of       *)
(* result_ then and after every next() (tagger.cpp 438, 564).              *)
ViterbiOptimal ==
  /\ phase \in {"searched", "nbest", "empty"} => cost = -TagsCost(costs, len, result)
  /\ phase = "searched" =>
       \A t \in Labellings(len) : TagsCost(costs, len, t) <= TagsCost(costs, len, result)

(* Each call of next() returns a best one of the labellings not returned   *)
(* yet: the list is sorted, without repetition, and skips nothing.         *)
NbestOrdered ==
  \A k \in DOMAIN found :
    \A t \in Labellings(len) \ {found[j] : j \in 1..k-1} :
      /\ TagsCost(costs, len, t) <= TagsCost(costs, len, found[k])
      /\ found[k] \notin {found[j] : j \in 1..k-1}

(* The search loses no labelling: until it is returned, exactly one chain  *)
(* of the agenda is its end, and next() gives up only when all were given. *)
EndOf(e, t) == \A k \in 1..Len(e.tags) : e.tags[k] = t[len - Len(e.tags) + k - 1]
NothingLost ==
  phase \in {"nbest", "empty"} =>
    \A t \in Labellings(len) :
      Cardinality({e \in agenda : EndOf(e, t)})
        = IF \E k \in DOMAIN found : found[k] = t THEN 0 ELSE 1

(* MIRA's step: the tags found score at least as well as the answer, the   *)
(* reported difference is the gain of undoing them, and a right parse      *)
(* leaves the weights alone (tagger.cpp 602-664).                          *)
CollinsDirection ==
  phase = "searched" =>
    \A answer \in Labellings(len) :
    /\ CollinsCost(costs, len, answer, result) >= 0
    /\ CollinsCost(costs, len, answer, result) =
         -SumUpTo(len, [i \in 0..len-1 |->
            TagSum([y \in Tag |-> costs.node[i][y] * CollinsNode(answer, result, i, y)])
            + IF i = 0 THEN 0
              ELSE TagSum([a \in Tag |-> TagSum([b \in Tag |->
                     costs.path[i][a][b] * CollinsPath(answer, result, i, a, b)])])])
-----------------------------------------------------------------------------
(* The inductive invariant of the search: g of an element is what its chain*)
(* costs, f adds the best that can stand before it, each labelling not yet *)
(* returned is the end of one chain, and those returned are the best ones. *)
Ready == phase \in {"searched", "nbest", "empty"}

TypeOK ==
  /\ phase \in {"built", "summed", "searched", "nbest", "empty"}
  /\ len \in Lengths /\ costs \in Costs(len)
  /\ found \in Seq(Labellings(len))
  /\ Ready => best = BestCost(costs, len) /\ result \in Labellings(len)
  /\ phase # "nbest" => agenda = {}
  /\ phase \notin {"nbest", "empty"} => found = <<>>

Chain(e) ==
  LET p == len - Len(e.tags)
  IN  /\ e.tags \in Seq(Tag) /\ Len(e.tags) \in 1..len
      /\ e.gx \in Int /\ e.fx \in Int
      /\ \A t \in Labellings(len) :
           EndOf(e, t) =>
             LET before == RunningCost(costs, len, t)[p]
                 whole  == TagsCost(costs, len, t)
             IN  /\ e.gx = before - costs.node[p][t[p]] - whole
                 /\ e.fx = before - best[p][t[p]] - whole

Returned(t) == \E k \in DOMAIN found : found[k] = t
ChainsOf(t) == {e \in agenda : EndOf(e, t)}

OneChain == phase \in {"nbest", "empty"} =>
              \A t \in Labellings(len) :
                IF Returned(t) THEN ChainsOf(t) = {}
                ELSE \E e \in agenda : ChainsOf(t) = {e}

SInv == /\ TypeOK /\ \A e \in agenda : Chain(e)
        /\ OneChain /\ ViterbiOptimal /\ NbestOrdered
=============================================================================
