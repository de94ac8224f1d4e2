------------------------------ MODULE MCDecoder ------------------------------
(* Two tags, sentences of one to three tokens.  The costs of all paths and *)
(* of one tag of the first token are free; the others are fixed and uneven,*)
(* so that leaving one out of a sum shows.                                 *)
EXTENDS Decoder
MCLengths == 1..3
MCNode(n) == {[i \in 0..n-1 |-> IF i = 0 THEN [y \in Tag |-> IF y = 0 THEN f ELSE 1]
                                    ELSE [y \in Tag |-> IF y = i - 1 THEN 1 ELSE 0]] :
                  f \in 0..1}
MCCosts(n) == [node : MCNode(n), path : [1..n-1 -> [Tag -> [Tag -> 0..1]]]]
ASSUME MCNaturalCosts == NaturalCosts
=============================================================================
