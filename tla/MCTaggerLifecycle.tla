------------------------- MODULE MCTaggerLifecycle -------------------------
(* A model of two tags and one of three; sentences of up to two lines; any *)
(* two liberties, but for "penalty" with another.                          *)
EXTENDS TaggerLifecycle
Lib == INSTANCE TLC
MCSize(i) == IF i = Own THEN 2 ELSE 3
Either == Lib!Permutations(Token)
Others == {"closed", "dirty", "empty", "options", "reopen", "unparsed"}
MCClients == {{}, {"penalty"}} \cup {{l, k} : l, k \in Others}
=============================================================================
