------------------------ MODULE MCFeatureDictionary ------------------------
(* Two 'U' and two 'B' features, in mixed key order, over three rows of up *)
(* to three templates: two that give the same feature, and one in between. *)
EXTENDS FeatureDictionary
MCUnigram == {1, 3}
=============================================================================
