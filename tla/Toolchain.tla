------------------------------ MODULE Toolchain ------------------------------
(***************************************************************************)
(* crf_learn and crf_test as two programs that meet only in the model file *)
(* at one path.  They run at the same time; crf_learn may be killed at any *)
(* moment, and leaves under the final name what was flushed by then.  The  *)
(* user does not write a model over one that a running crf_test has mapped *)
(* (Liberties has "in_place" when he does).                                *)
(***************************************************************************)
EXTENDS Learn, CrfTest

vars == <<learnVars, diskVars, testVars>>

Init == LearnInit /\ TestInit

Learning ==
  \/ LearnRefused \/ LearnOpen \/ Convert \/ Working
  \/ SaveRefused \/ TextRefused \/ Kill
  \/ SaveOpen /\ (IsMapped => May("in_place"))

Next ==
  \/ Learning /\ UNCHANGED testVars
  \/ (TestStart \/ Testing(file)) /\ UNCHANGED <<learnVars, diskVars>>

Spec == Init /\ [][Next]_vars
-----------------------------------------------------------------------------
(* The abstract specification: the path holds one whole model or none.     *)

Said == IF out = <<>> THEN NoModel ELSE out[Len(out)].by

Store == INSTANCE ModelStore WITH store <- published, held <- decoder, said <- Said

(* However the runs of crf_learn and crf_test interleave and wherever      *)
(* crf_learn is killed, crf_test answers only by a model that some         *)
(* training or conversion had written to its last cell when the file was   *)
(* opened: a file that is still being written, or was cut, is refused.     *)
Implements == Store!Spec

(* No sentence is deleted while it is still to be trained on, and however  *)
(* the program goes on every one is deleted once, and once only but for    *)
(* the two ways out that come back from save(): the path or the text       *)
(* beside it refused, when the loop of 414-417 has deleted them already    *)
(* (encoder.cpp 333-338, 419-421).  One sentence is lost instead: the one  *)
(* at which reading stops (354-357).                                       *)
DeletedOnce ==
  /\ \A i \in 1 .. Len(freed) :
       freed[i] = CASE lphase \in {"read", "train", "delete"} -> 0
                    [] lphase = "idle" /\ result.why \in {"save", "text"} -> 2
                    [] OTHER -> 1
  /\ leaked = IF lphase = "idle" /\ result.why \in {"read", "features"} THEN 1 ELSE 0

(* Training starts with exactly the sentences of the file, in order, none  *)
(* empty and none beyond the first overlong line; and it always starts     *)
(* when a template does not name a missing column, for openTagSet and      *)
(* read() agree on the lines of the file: no line that is read has a tag   *)
(* which is not in y_, or too few columns.                                 *)
SentencesRead ==
  /\ result.why # "read"
  /\ (lphase \in {"train", "delete", "save", "write", "text"} /\ args.mode = "learn")
     => [i \in 1 .. Len(x) |-> x[i].tokens] = Sentences(args.train, 1)

(* Sentence i is bound to the lists of the worker that will train on it,   *)
(* whatever was read between it and the sentence before.                   *)
OwnLists == \A i \in 1 .. Len(x) : x[i].thread = (i - 1) % args.threads

(* The sentences crf_test answers are those of its files, in order, each   *)
(* once: missing are only runs that end at a line with too few columns and *)
(* sentences a template of the model cannot be expanded on.  A tagger      *)
(* never reads past the file it has mapped, nor parses a sentence by a     *)
(* model without tags: tphase is never "fault".                            *)
Answered(lines, model) ==
  LET s == Sentences(lines, model.xsize)
  IN  Pick(s, {n \in 1 .. Len(s) : ~Malformed(model, Len(s[n]))})

AnsweredOf(files, model) ==
  LET all[k \in 0 .. Len(files)] ==
        IF k = 0 THEN <<>> ELSE all[k - 1] \o Answered(files[k].lines, model)
  IN  all

AnswersInOrder ==
  /\ tphase # "fault"
  /\ tphase = "input" =>
       [i \in 1 .. Len(out) |-> out[i].tokens] = AnsweredOf(job.files, decoder)[nth - 1]
=============================================================================
