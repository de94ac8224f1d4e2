------------------------------ MODULE ModelStore ------------------------------
(***************************************************************************)
(* What crf_learn and crf_test promise each other through the model file:  *)
(* at the path there is one whole model or none, a tagger holds a model    *)
(* that was there whole when it was opened, and every answer is the answer *)
(* of the model the tagger holds.  Toolchain implements it cell by cell.   *)
(***************************************************************************)
None == [kind |-> "none"]

VARIABLES store,      \* the model at the path, None while it is not whole
          held,       \* the model of the tagger
          said        \* the model the last answer was given by

vars == <<store, held, said>>

Init == store = None /\ held = None /\ said = None

Withdraw   == store' = None /\ UNCHANGED <<held, said>>
Publish    == store = None /\ store' # None /\ UNCHANGED <<held, said>>
Load       == store # None /\ held' = store /\ UNCHANGED <<store, said>>
Answer     == held # None /\ said' = held /\ UNCHANGED <<store, held>>
Leave      == held' = None /\ said' \in {said, None} /\ UNCHANGED store

Next == Withdraw \/ Publish \/ Load \/ Answer \/ Leave

Spec == Init /\ [][Next]_vars
=============================================================================
