--------------------------- MODULE TaggerLifecycle ---------------------------
(***************************************************************************)
(* One CRFPP::Tagger in the hands of a client (TaggerImpl, tagger.cpp      *)
(* 118-402, 403-477, 666-771): which model and which memory it holds, and  *)
(* whether an answer it gives is the answer for the sentence it holds.     *)
(*                                                                         *)
(* What is computed is described by its origin.  A lattice is known by the *)
(* sentence, the model and the penalties it was built from; result_, Z_    *)
(* and the agenda by the lattice they were computed from.  A call that     *)
(* would take the code where C++ defines nothing (a null or dangling       *)
(* pointer, an index past the end of a vector) is a fault, and the last.   *)
(* A tag or a label that a call names may be any, and the worst is taken.  *)
(* The columns of a line are left out, but for a line that has too few.    *)
(*                                                                         *)
(* A client that takes no liberties clears, adds, parses and then reads,   *)
(* as sdk/example.cpp does.  The code keeps nobody to that, and crfpp.h    *)
(* promises more than it gives; a client takes some of these:              *)
(*   "closed"   calls a closed tagger, or attaches a model to it           *)
(*   "dirty"    goes on with the old sentence after open or set_model      *)
(*   "empty"    parses a sentence of no tokens                             *)
(*   "options"  reads an answer after set_nbest or set_vlevel, or calls    *)
(*              next without n-best                                        *)
(*   "penalty"  goes on to another sentence after set_penalty              *)
(*   "reopen"   opens a model in a tagger that shares one                  *)
(*   "unparsed" reads an answer before parse, or after one that failed     *)
(* The encoder's use of a tagger (mode LEARN) is in ParallelTraining.      *)
(***************************************************************************)
EXTENDS Integers, Sequences, FiniteSets

CONSTANTS Token,      \* lines that can be added
          Model,      \* models that can be shared
          Size(_),    \* number of tags of a model, y_.size()
          MaxLen,     \* bound on the length of a sentence
          MaxOwned,   \* bound on the models opened and not deleted
          MaxPenalized,   \* bound on the sentences that penalties are set for
          Liberties   \* the sets of liberties a client may take

Own  == "own"         \* the model the tagger opened itself
None == "none"

ASSUME LifecycleAssumption ==
  /\ Model \cap {Own, None} = {}
  /\ \A i \in Model \cup {Own} : Size(i) \in Nat \ {0}
  /\ MaxLen \in Nat /\ MaxOwned \in Nat

VARIABLES
  takes,      \* the liberties of this client
  stage,      \* the client: closed, dirty, context, parsed, changed (penalties
              \* set since), retuned (options set since), or deleted
  fault,      \* what the code went wrong on, "none" when it did not
  mode,       \* mode_: TEST or SHARED
  index,      \* feature_index_
  owned,      \* models of its own the tagger has opened and not deleted
  alloc,      \* it has an allocator_
  ysize,
  nbest, vlevel,          \* 1 stands for any number above 0
  x, rows,    \* x_, and the width of each row of node_
  live,       \* the strings of x_ have not been freed
  penalty,    \* penalty_: its length and width; history: the sentences it is of
  lattice,    \* what the nodes of node_ are, NoLattice when there are none
  result, z,  \* the lattice result_ and Z_ are of
  agenda      \* Null, Drained, Dangling, or the lattice its elements belong to

modelVars   == <<mode, index, owned, alloc, ysize>>
optionVars  == <<nbest, vlevel>>
contextVars == <<x, rows, live>>
answerVars  == <<lattice, result, z, agenda>>
taggerVars  == <<modelVars, optionVars, contextVars, penalty, answerVars>>
vars == <<takes, stage, fault, taggerVars>>

Sentence == Seq(Token)

Lat(s, i, p) == [kind |-> "lattice", x |-> s, index |-> i, pen |-> p]
NoLattice == [kind |-> "none"]
Null      == [kind |-> "null"]
Drained   == [kind |-> "drained"]
Dangling  == [kind |-> "dangling"]
NoPenalty == [len |-> 0, y |-> 0, of |-> {}]

(* createTagger(arg), or createTagger() of a model.                        *)
Init ==
  /\ takes \in Liberties /\ stage = "context" /\ fault = "none"
  /\ \/ mode = "TEST" /\ index = Own /\ owned = 1
     \/ mode = "SHARED" /\ index \in Model /\ owned = 0
  /\ alloc = TRUE /\ ysize = Size(index)
  /\ nbest \in 0..1 /\ vlevel \in 0..1
  /\ x = <<>> /\ rows = <<>> /\ live = TRUE
  /\ penalty = NoPenalty
  /\ lattice = NoLattice /\ result = NoLattice /\ z = NoLattice /\ agenda = Null

May(l) == l \in takes
Alive  == stage # "deleted" /\ fault = "none"
Usable == Alive /\ (stage = "closed" => May("closed"))

(* The sentence of the tagger may be worked on.                            *)
Holding == Usable /\ (stage = "dirty" => May("dirty"))

(* The client may go on to another sentence, or to more of this one.       *)
NextSentence == penalty = NoPenalty \/ May("penalty")

(* Its answer may be read.                                                 *)
Readable == /\ Holding
            /\ stage = "context" => May("unparsed")
            /\ stage = "retuned" => May("options")

(* A call on which the code goes wrong.                                    *)
Stops(f) == f # "none" /\ fault' = f /\ UNCHANGED <<takes, stage, taggerVars>>

(* One on which it does not.                                               *)
Goes(f, next) == f = "none" /\ stage' = next /\ UNCHANGED <<takes, fault>>
-----------------------------------------------------------------------------
(* The model and the memory.                                               *)

CloseKeepsIndex ==                           \* mutant: feature_index_ not deleted
  /\ UNCHANGED owned
  /\ index' = IF mode = "TEST" THEN None ELSE index

(* What close() does to the model; the caller gives alloc its value.       *)
DropIndex ==
  /\ owned' = IF mode = "TEST" /\ index = Own THEN owned - 1 ELSE owned
  /\ index' = IF mode = "TEST" THEN None ELSE index

(* The strings and nodes are gone with the allocator; x_, node_ and the    *)
(* agenda are left as they are, and point to nothing.                      *)
DropMemory ==
  /\ live' = (x = <<>>)
  /\ lattice' = NoLattice
  /\ agenda' = IF agenda \in {Null, Drained} THEN agenda ELSE Dangling
  /\ UNCHANGED <<x, rows, penalty, result, z>>

(* Closing twice does no harm; open() given --help or --version closes and *)
(* fails as well.                                                          *)
Close ==
  /\ Alive
  /\ DropIndex /\ alloc' = FALSE
  /\ DropMemory
  /\ Goes("none", "closed")
  /\ UNCHANGED <<mode, ysize, optionVars>>

(* ~TaggerImpl: close(), and then the vectors.                             *)
Delete ==
  /\ Alive
  /\ DropIndex /\ alloc' = FALSE
  /\ DropMemory
  /\ Goes("none", "deleted")
  /\ UNCHANGED <<mode, ysize, optionVars>>

(* close() of a tagger that shares a model leaves feature_index_ and mode_ *)
(* alone: a model opened there is never deleted.                           *)
MayOpen == Alive /\ (mode = "SHARED" => May("reopen") /\ owned < MaxOwned)

(* open(param): close() comes first.  A model that cannot be opened, or a  *)
(* cost factor that is not positive, closes again; arguments that cannot   *)
(* be read leave everything as it is.                                      *)
Open(n, v) ==
  /\ MayOpen
  /\ owned' = IF mode = "TEST" /\ index = Own THEN owned ELSE owned + 1
  /\ index' = Own /\ alloc' = TRUE /\ ysize' = Size(Own)
  /\ nbest' = n /\ vlevel' = v
  /\ DropMemory
  /\ Goes("none", "dirty")
  /\ UNCHANGED mode

OpenFails(n, v) ==
  /\ MayOpen
  /\ IF mode = "TEST"
     THEN index' = None /\ owned' = IF index = Own THEN owned - 1 ELSE owned
     ELSE index' = Own /\ owned' = owned + 1
  /\ alloc' = FALSE
  /\ nbest' = n /\ vlevel' = v
  /\ DropMemory
  /\ Goes("none", "closed")
  /\ UNCHANGED <<mode, ysize>>

SetModelOldSize(m, n, v) ==                  \* mutant: ysize_ forgotten
  /\ Usable
  /\ owned' = IF mode = "TEST" /\ index = Own THEN owned - 1 ELSE owned
  /\ mode' = "SHARED" /\ index' = m
  /\ nbest' = n /\ vlevel' = v
  /\ Goes("none", "dirty")
  /\ UNCHANGED <<alloc, ysize, contextVars, penalty, answerVars>>

(* The allocator is used on, whatever it is; sentence, rows and answer     *)
(* stay those of the model before.                                         *)
SetModel(m, n, v) ==
  /\ Usable
  /\ owned' = IF mode = "TEST" /\ index = Own THEN owned - 1 ELSE owned
  /\ mode' = "SHARED" /\ index' = m /\ ysize' = Size(m)
  /\ nbest' = n /\ vlevel' = v
  /\ Goes("none", "dirty")
  /\ UNCHANGED <<alloc, contextVars, penalty, answerVars>>

(* set_nbest, set_vlevel.                                                  *)
SetOptions(n, v) ==
  /\ Usable
  /\ nbest' = n /\ vlevel' = v
  /\ Goes("none", IF stage \in {"parsed", "changed"} THEN "retuned" ELSE stage)
  /\ UNCHANGED <<modelVars, contextVars, penalty, answerVars>>
-----------------------------------------------------------------------------
(* The sentence.                                                           *)

Clear ==
  /\ Usable /\ NextSentence
  /\ LET f == IF alloc THEN "none" ELSE "memory"
     IN  \/ Stops(f)
         \/ /\ Goes(f, "context")
            /\ x' = <<>> /\ rows' = <<>> /\ live' = TRUE
            /\ lattice' = NoLattice /\ result' = NoLattice /\ z' = NoLattice
            /\ UNCHANGED <<modelVars, optionVars, penalty, agenda>>

(* add: the line is copied into the allocator, the row is as wide as the   *)
(* model has tags.  It may follow a parse.                                 *)
Add(t) ==
  /\ Holding /\ NextSentence /\ Len(x) < MaxLen
  /\ LET f == IF alloc /\ index # None THEN "none" ELSE "memory"
     IN  \/ Stops(f)
         \/ /\ Goes(f, IF stage = "dirty" THEN "dirty" ELSE "context")
            /\ x' = Append(x, t) /\ rows' = Append(rows, ysize)
            /\ UNCHANGED <<modelVars, optionVars, live, penalty, answerVars>>

(* The first call sizes penalty_ for the sentence at hand.                 *)
SetPenalty(i) ==
  /\ Holding /\ i \in DOMAIN x
  /\ Cardinality(penalty.of \cup {x}) <= MaxPenalized
  /\ LET p == IF penalty.len = 0
              THEN [len |-> Len(rows), y |-> ysize, of |-> {x}]
              ELSE [penalty EXCEPT !.of = @ \cup {x}]
         f == IF i <= p.len /\ ysize <= p.y THEN "none" ELSE "penalty"
     IN  \/ Stops(f)
         \/ /\ Goes(f, IF stage = "parsed" THEN "changed" ELSE stage)
            /\ penalty' = p
            /\ UNCHANGED <<modelVars, optionVars, contextVars, answerVars>>
-----------------------------------------------------------------------------
(* The answer.                                                             *)

(* What parse() on sentence s, with rows of the given width, goes wrong on:*)
(* first buildFeatures, then rebuildFeatures and buildLattice.             *)
ParseFault(s, width, fresh) ==
  IF ~alloc \/ index = None \/ ~fresh THEN "memory"
  ELSE IF \E k \in DOMAIN s : width[k] < Size(index) \/ width[k] < ysize THEN "rows"
  ELSE IF s # <<>> /\ Size(index) < ysize THEN "nodes"
  ELSE IF s # <<>> /\ penalty.len > 0 /\ (penalty.len < Len(s) \/ penalty.y < ysize)
       THEN "penalty"
  ELSE "none"

ParseKeepsAgenda(s) ==                       \* mutant: initNbest forgotten
  LET l == Lat(s, index, penalty.of)
  IN  IF s = <<>> THEN UNCHANGED answerVars
      ELSE /\ lattice' = l /\ result' = l
           /\ z' = IF nbest + vlevel > 0 THEN l ELSE z
           /\ UNCHANGED agenda

(* Forward-backward only for n-best or a verbose level.                    *)
Answer(s) ==
  LET l == Lat(s, index, penalty.of)
  IN  IF s = <<>> THEN UNCHANGED answerVars
      ELSE /\ lattice' = l /\ result' = l
           /\ z' = IF nbest + vlevel > 0 THEN l ELSE z
           /\ agenda' = IF nbest > 0 THEN l ELSE agenda

MayParse(s) == s # <<>> \/ May("empty")

Parse ==
  /\ Holding /\ MayParse(x)
  /\ LET f == ParseFault(x, rows, live)
     IN  \/ Stops(f)
         \/ /\ Goes(f, "parsed")
            /\ Answer(x)
            /\ UNCHANGED <<modelVars, optionVars, contextVars, penalty>>

(* buildFeatures finds a template it cannot apply, and nothing is done;    *)
(* the answer and the nodes are those of before.                           *)
ParseFails ==
  /\ Holding /\ x # <<>>
  /\ ParseFault(x, rows, live) # "memory"
  /\ Goes("none", IF stage = "dirty" THEN "dirty" ELSE "context")
  /\ UNCHANGED taggerVars

(* What drawing a labelling goes wrong on: the elements of the agenda      *)
(* point to nodes, which are those of the lattice only if it was built     *)
(* from it, and the positions of these to result_.                         *)
DrawFault == IF agenda \in {Drained, lattice} THEN "none" ELSE "agenda"

Draw ==
  IF agenda = Drained THEN UNCHANGED <<result, agenda>>
  ELSE result' = agenda /\ agenda' \in {agenda, Drained}

(* next().                                                                 *)
NextBest ==
  /\ Readable /\ (nbest > 0 \/ May("options"))
  /\ \/ Stops(DrawFault)
     \/ /\ Goes(DrawFault, stage)
        /\ Draw
        /\ UNCHANGED <<modelVars, optionVars, contextVars, penalty, lattice, z>>

(* What printing the sentence with the labels of l goes wrong on: strings  *)
(* and names of labels, and at a verbose level nodes, for every tag.       *)
PrintFault(l) ==
  IF x = <<>> THEN "none"
  ELSE IF ~live \/ index = None THEN "memory"
  ELSE IF l # NoLattice /\ Size(l.index) > Size(index) THEN "labels"
  ELSE IF vlevel = 0 THEN "none"
  ELSE IF \E k \in DOMAIN rows : rows[k] < ysize THEN "rows"
  ELSE IF lattice = NoLattice THEN "nodes"
  ELSE IF Len(lattice.x) < Len(x) \/ Size(lattice.index) < ysize THEN "nodes"
  ELSE "none"

(* With n-best every labelling drawn is printed, and none when none is.    *)
ToStringFault ==
  IF nbest = 0 THEN PrintFault(result)
  ELSE IF DrawFault # "none" THEN DrawFault
  ELSE IF agenda = Drained THEN "none"
  ELSE PrintFault(agenda)

ToString ==
  /\ Readable
  /\ \/ Stops(ToStringFault)
     \/ /\ Goes(ToStringFault, stage)
        /\ IF nbest > 0 THEN Draw ELSE UNCHANGED <<result, agenda>>
        /\ UNCHANGED <<modelVars, optionVars, contextVars, penalty, lattice, z>>

(* parse(str, size1, result, size2): str is never read.                    *)
ParseIntoBuffer == x # <<>> /\ ToString

(* What parse(str) goes wrong on: read() clears and adds, then parse() and *)
(* toString().  A drawing from an empty sentence has no lattice.           *)
TextFault(s, width) ==
  LET f == ParseFault(s, width, TRUE)
  IN  IF f = "none" /\ s = <<>> /\ nbest > 0 /\ agenda # Drained THEN "agenda" ELSE f

ParseText(s) ==
  /\ Usable /\ NextSentence /\ MayParse(s)
  /\ LET width == [k \in DOMAIN s |-> ysize]
         f == TextFault(s, width)
         l == IF s = <<>> THEN NoLattice ELSE Lat(s, index, penalty.of)
     IN  \/ Stops(f)
         \/ /\ Goes(f, "parsed")
            /\ x' = s /\ rows' = width /\ live' = TRUE
            /\ lattice' = l /\ result' = l
            /\ z' = IF nbest + vlevel > 0 THEN l ELSE NoLattice
            /\ agenda' \in IF nbest > 0 /\ s # <<>> THEN {l, Drained} ELSE {agenda}
            /\ UNCHANGED <<modelVars, optionVars, penalty>>

(* A line of the text has too few columns and what was read so far stays,  *)
(* or a template cannot be applied.                                        *)
ParseTextFails(s) ==
  /\ Usable /\ NextSentence
  /\ LET f == IF alloc /\ index # None THEN "none" ELSE "memory"
     IN  \/ Stops(f)
         \/ /\ Goes(f, "context")
            /\ x' = s /\ rows' = [k \in DOMAIN s |-> ysize] /\ live' = TRUE
            /\ lattice' = NoLattice /\ result' = NoLattice /\ z' = NoLattice
            /\ UNCHANGED <<modelVars, optionVars, penalty, agenda>>

Over == ~Alive /\ UNCHANGED vars

(* Sentences of bounded length, as an argument of parse(str).              *)
Text == UNION {[1..n -> Token] : n \in 0..MaxLen}

Next ==
  \/ Close \/ Delete \/ Clear \/ Parse \/ ParseFails
  \/ NextBest \/ ToString \/ ParseIntoBuffer
  \/ \E n, v \in 0..1 : Open(n, v) \/ OpenFails(n, v) \/ SetOptions(n, v)
  \/ \E n, v \in 0..1, m \in Model : SetModel(m, n, v)
  \/ \E t \in Token : Add(t)
  \/ \E i \in 1..MaxLen : SetPenalty(i)
  \/ \E s \in Text : ParseText(s) \/ ParseTextFails(s)
  \/ Over

Spec == Init /\ [][Next]_vars
-----------------------------------------------------------------------------
(* The liberties that each fault can come of.                              *)
Earns(f) ==
  CASE f = "memory"  -> {"closed", "dirty"}
    [] f = "rows"    -> {"dirty"}
    [] f = "labels"  -> {"dirty"}
    [] f = "penalty" -> {"penalty", "dirty", "closed"}
    [] f = "nodes"   -> {"unparsed", "dirty"}
    [] f = "agenda"  -> {"closed", "dirty", "empty", "options", "unparsed"}

(* The code uses a null or freed pointer, or an index past the end of a    *)
(* row, of penalty_ or of the labels, only in the hands of a client that   *)
(* took a liberty which can bring that fault about, and never in those of  *)
(* one that takes none, however it mixes models, options, penalties,       *)
(* failing parses, n-best and text (tagger.cpp 216-504, 666-771).          *)
UndefinedEarned == fault # "none" => takes \cap Earns(fault) # {}

(* After a parse everything the client can read belongs to this sentence,  *)
(* with this model and these penalties: the labels, the normaliser behind  *)
(* the probabilities, and the labellings next() will still draw.           *)
AnswerCurrent ==
  stage = "parsed" /\ x # <<>> =>
    LET l == Lat(x, index, penalty.of)
    IN  /\ lattice = l /\ result = l
        /\ nbest + vlevel > 0 => z = l
        /\ nbest > 0 => agenda \in {l, Drained}

(* A sentence is parsed with the penalties set for it and no others:       *)
(* clear() is to "clear all context" (crfpp.h 303).                        *)
PenaltiesOfThisSentence ==
  stage = "parsed" /\ x # <<>> => lattice.pen \subseteq {x}

(* "took the owner" (tagger.cpp 280): a model the tagger opened itself is  *)
(* deleted at most once, by the time the tagger is, and exactly once       *)
(* unless it was opened where the tagger shared another.                   *)
OwnedOnce ==
  LET held == IF index = Own /\ mode = "TEST" THEN 1 ELSE 0
  IN  /\ owned >= held
      /\ ~May("reopen") => owned = held
      /\ stage = "deleted" => held = 0 /\ ~alloc
-----------------------------------------------------------------------------
(* The inductive invariant.                                                *)
Working == stage \in {"context", "parsed", "changed", "retuned"}
Faults  == {"memory", "rows", "labels", "penalty", "nodes", "agenda"}

TypeOK ==
  /\ Working \/ stage \in {"closed", "dirty", "deleted"}
  /\ fault \in Faults \cup {"none"}
  /\ mode \in {"TEST", "SHARED"}
  /\ index \in Model \cup {Own, None} /\ owned \in Int
  /\ alloc \in BOOLEAN /\ ysize \in Nat
  /\ nbest \in 0..1 /\ vlevel \in 0..1
  /\ x \in Sentence /\ rows \in Seq(Nat) /\ Len(rows) = Len(x)
  /\ penalty \in [len : Nat, y : Nat, of : SUBSET Sentence]

(* The model and the allocator.                                            *)
Held ==
  /\ stage \notin {"closed", "deleted"} =>
       /\ ~May("closed") => alloc
       /\ index # None /\ ysize = Size(index)
  /\ mode = "TEST" => index \in {Own, None}
  /\ mode = "SHARED" /\ ~May("reopen") => index \in Model
  /\ stage = "closed" => ~alloc /\ (live => x = <<>>)
  /\ stage = "deleted" => ~alloc /\ (mode = "TEST" => index = None)

(* What is worked on is of the model held.                                 *)
Context ==
  Working /\ ~May("dirty") =>
    /\ live /\ \A k \in DOMAIN x : rows[k] = ysize
    /\ \A l \in {lattice, result} : l # NoLattice => l.index = index

Penalty ==
  /\ penalty.len = 0 => penalty = NoPenalty
  /\ Working /\ takes \cap {"penalty", "dirty", "closed"} = {} /\ penalty.len > 0 =>
       penalty.len = Len(x) /\ penalty.y = ysize

(* What can be read without the liberty "unparsed" is of the sentence held.*)
Parsed ==
  stage \in {"parsed", "changed", "retuned"} /\ ~May("dirty") =>
    /\ x # <<>> => lattice # NoLattice /\ lattice.x = x
    /\ x = <<>> => May("empty")
    /\ x # <<>> /\ stage # "retuned" /\ nbest > 0 => agenda \in {lattice, Drained}

IInv == /\ TypeOK /\ Held /\ Context /\ Penalty /\ Parsed
        /\ UndefinedEarned /\ AnswerCurrent /\ OwnedOnce
=============================================================================
