-------------------------------- MODULE Learn --------------------------------
(***************************************************************************)
(* crf_learn: Encoder::learn and Encoder::convert as crfpp_learn calls     *)
(* them (encoder.cpp 288-426, 453-511).  One run opens the templates and   *)
(* the tags, reads the sentences one at a time into the vector x, shrinks  *)
(* the dictionary, trains, deletes the sentences and writes the model to   *)
(* the path, cell by cell; or it makes a binary of a text.  A run may be   *)
(* killed anywhere.  What runCRF and runMIRA do is in ParallelTraining and *)
(* MIRA: here they succeed with some weights or fail.                      *)
(*                                                                         *)
(* Every template has one key (its columns hold the same word everywhere), *)
(* so an entry's key is a template.                                        *)
(***************************************************************************)
EXTENDS ModelFile, SentenceStream

CONSTANTS Training,      \* the command lines of crf_learn
          Found,         \* weights that training may find
          MaxRuns,       \* bound on the number of runs
          Liberties      \* "in_place": writes over a model that is mapped

ASSUME TrainingAssumption ==
  \A a \in Training : a.mode = "learn" =>
    /\ a.train \in Seq(InputLine)
    /\ a.templ \in Seq([kind : STRING, col : Int, spaced : BOOLEAN])

VARIABLES
  lphase,     \* idle, read, shrink, train, delete, save, write, text
  args,       \* the command line
  in,         \* the training file: what is left, and whether it is good
  x, line,    \* the sentences and their number
  freed,      \* history: how often each sentence was deleted
  leaked,     \* sentences neither in x nor deleted
  index,      \* the EncoderFeatureIndex
  result,     \* of the last run: its return value and what it complained of
  file, text, \* the model at the path and the text beside it; <<>> is no
              \* file as well as an empty one
  published,  \* history: the model whose last cell was the last one written
  runs

learnVars == <<lphase, args, in, x, line, freed, leaked, index, result, runs>>
diskVars  == <<file, text, published>>
NotYet == [kind |-> "none"]

Tag(n) == [kind |-> "tag", name |-> n]

NoIndex == [y |-> <<>>, uni |-> <<>>, bi |-> <<>>, dic |-> {}, maxid |-> 0,
            xsize |-> 0, maxx |-> 0, alpha |-> <<>>]

NoArgs == [mode |-> "none"]

Returned(rc, why) == [rc |-> rc, why |-> why]

LearnInit ==
  /\ lphase = "idle" /\ args = NoArgs
  /\ in = [good |-> FALSE, rest |-> <<>>]
  /\ x = <<>> /\ line = 0 /\ freed = <<>> /\ leaked = 0
  /\ index = NoIndex
  /\ result = Returned(0, "none")
  /\ file = <<>> /\ text = <<>> /\ published = NotYet
  /\ runs = 0
-----------------------------------------------------------------------------
(* The index while the sentences are read.                                 *)

(* openTagSet looks at the lines read() will see: all must have the same   *)
(* number of columns; the last one is the tag.                             *)
TokenLines(f) == {l \in Range(Visible(f)) : l.cols > 0}

ConsistentUnchecked(f) == TRUE               \* mutant: max_size == size not tested

Consistent(f) == \A k, l \in TokenLines(f) : k.cols = l.cols

TagsOf(f) ==
  LET names == {l.tag : l \in TokenLines(f)}
  IN  [n \in 1 .. Cardinality(names) |-> Tag(Nth(names, n))]

(* openTemplate keeps what begins with U or B, silently.  All lines have   *)
(* the columns of any of them.                                             *)
Opened(a) ==
  LET t == TokenLines(a.train)
  IN  [NoIndex EXCEPT !.uni = OfKind(a.templ, "U"), !.bi = OfKind(a.templ, "B"),
                      !.y = TagsOf(a.train),
                      !.xsize = IF t = {} THEN 0 ELSE (CHOOSE l \in t : TRUE).cols - 1]

Size(ix, key) == IF key.kind = "U" THEN Len(ix.y) ELSE Len(ix.y) * Len(ix.y)

(* getID for one key, n times, after getIndex has noted the column.        *)
Meet(ix, key, n) ==
  LET known == {e \in ix.dic : e.key = key}
      wide  == IF key.col + 1 > ix.maxx THEN key.col + 1 ELSE ix.maxx
  IN  IF known # {}
      THEN [ix EXCEPT !.dic = (@ \ known) \cup {[e EXCEPT !.freq = @ + n] : e \in known}]
      ELSE [ix EXCEPT !.dic = @ \cup {[key |-> key, id |-> ix.maxid, freq |-> n]},
                      !.maxid = @ + Size(ix, key), !.maxx = wide]

BuildFeatures(ix, n) ==
  LET t == Expanded(ix, n)
      met[i \in 0 .. Len(t)] ==
        IF i = 0 THEN ix
        ELSE Meet(met[i - 1], t[i], IF t[i].kind = "U" THEN n ELSE n - 1)
  IN  met[Len(t)]

(* The order of the map: B before U, then the text.                        *)
Before(a, b) ==
  \/ a.key.kind = "B" /\ b.key.kind = "U"
  \/ a.key.kind = b.key.kind /\ a.key.col < b.key.col
  \/ a.key.kind = b.key.kind /\ a.key.col = b.key.col /\ ~a.key.spaced /\ b.key.spaced

(* The entries d in that order: n - 1 of them come before the n-th.        *)
InOrder(d) ==
  [n \in 1 .. Cardinality(d) |->
     CHOOSE e \in d : Cardinality({c \in d : Before(c, e)}) = n - 1]

Dictionary(ix) == InOrder(ix.dic)

(* Entries below freq go; the others are numbered afresh in key order.     *)
Shrink(ix, freq) ==
  IF freq <= 1 THEN ix
  ELSE LET kept == InOrder({e \in ix.dic : e.freq >= freq})
           start[i \in 0 .. Len(kept)] ==
             IF i = 0 THEN 0 ELSE start[i - 1] + Size(ix, kept[i].key)
       IN  [ix EXCEPT !.dic   = {[kept[i] EXCEPT !.id = start[i - 1]] : i \in 1 .. Len(kept)},
                      !.maxid = start[Len(kept)]]

SavedXsize(ix) == IF ix.maxx > 0 /\ ix.maxx < ix.xsize THEN ix.maxx ELSE ix.xsize

(* The model that save() writes.                                           *)
ToSave(ix) ==
  LET d == Dictionary(ix)
  IN  [y |-> ix.y, uni |-> ix.uni, bi |-> ix.bi,
       dic |-> [i \in 1 .. Len(d) |-> [kind |-> "key", key |-> d[i].key, id |-> d[i].id]],
       maxid |-> ix.maxid, xsize |-> SavedXsize(ix), alpha |-> ix.alpha]

-----------------------------------------------------------------------------
(* A run.                                                                  *)

May(l) == l \in Liberties

Ends(rc, why) == lphase' = "idle" /\ result' = Returned(rc, why)

(* WHAT_ERROR: the sentences of x are deleted, the program ends with -1.   *)
DeleteAll == freed' = [i \in 1 .. Len(freed) |-> freed[i] + 1]
Complains(why) == Ends(-1, why) /\ DeleteAll

FreshRun ==
  /\ lphase = "idle" /\ runs < MaxRuns /\ runs' = runs + 1
  /\ x' = <<>> /\ line' = 0 /\ freed' = <<>> /\ leaked' = 0

(* What ends the program before a file is opened: the usage, options that  *)
(* the code refuses, an algorithm it does not know.                        *)
LearnRefused ==
  /\ FreshRun
  /\ args' \in {a \in Training : a.mode \in {"help", "options", "algorithm"}}
  /\ Ends(IF args'.mode = "help" THEN 0 ELSE -1, args'.mode)
  /\ index' = NoIndex
  /\ UNCHANGED <<in, diskVars>>

LearnOpen ==
  /\ FreshRun
  /\ args' \in {a \in Training : a.mode = "learn"}
  /\ IF args'.there /\ Consistent(args'.train)
     THEN /\ lphase' = "read"
          /\ index' = Opened(args')
          /\ in' = [good |-> TRUE, rest |-> args'.train]
          /\ UNCHANGED result
     ELSE Ends(-1, "open") /\ index' = NoIndex /\ UNCHANGED in
  /\ UNCHANGED diskVars

KeepCountsFirst(tokens) ==                   \* mutant: ++line before set_thread_id
  /\ x' = Append(x, [tokens |-> tokens, thread |-> (line + 1) % args.threads])
  /\ line' = line + 1 /\ freed' = Append(freed, 0)

Keep(tokens) ==
  /\ x' = Append(x, [tokens |-> tokens, thread |-> line % args.threads])
  /\ line' = line + 1
  /\ freed' = Append(freed, 0)

(* One turn of the loop: a new tagger, read() and shrink(), which files    *)
(* the features.  A sentence that fails is in no list and never deleted.   *)
ReadSentence ==
  LET r      == Read(in.rest, index.xsize + 1)
      n      == Len(r.tokens)
      answer == \A i \in 1 .. n : \E k \in 1 .. Len(index.y) :
                  index.y[k] = Tag(r.tokens[i].tag)
  IN  /\ lphase = "read" /\ in.good
      /\ in' = [good |-> r.good, rest |-> r.rest]
      /\ IF ~r.ok \/ ~answer \/ Malformed(index, n)
         THEN /\ Complains(IF r.ok /\ answer THEN "features" ELSE "read")
              /\ leaked' = leaked + 1
              /\ UNCHANGED <<x, line, index>>
         ELSE /\ IF n = 0 THEN UNCHANGED <<x, line, freed>> ELSE Keep(r.tokens)
              /\ index' = BuildFeatures(index, n)
              /\ UNCHANGED <<lphase, result, leaked>>
      /\ UNCHANGED <<args, runs, diskVars>>

ShrinkDictionary ==
  /\ lphase = "read" /\ ~in.good
  /\ index' = Shrink(index, args.freq)
  /\ lphase' = "train"
  /\ UNCHANGED <<args, in, x, line, freed, leaked, result, runs, diskVars>>

Train ==
  /\ lphase = "train"
  /\ \/ /\ \E w \in Found :
            index' = [index EXCEPT !.alpha = [i \in 1 .. index.maxid |-> w]]
        /\ lphase' = "delete"
        /\ UNCHANGED <<freed, result>>
     \/ Complains("train") /\ UNCHANGED index
  /\ UNCHANGED <<args, in, x, line, leaked, runs, diskVars>>

DeleteNothing ==                             \* mutant: the loop of 414-417 missing
  /\ lphase = "delete"
  /\ lphase' = "save"
  /\ UNCHANGED <<args, in, x, line, freed, leaked, index, result, runs, diskVars>>

DeleteSentences ==
  /\ lphase = "delete"
  /\ DeleteAll
  /\ lphase' = "save"
  /\ UNCHANGED <<args, in, x, line, leaked, index, result, runs, diskVars>>

(* save() opens the path, which empties the file there.                    *)
SaveOpen ==
  /\ lphase = "save"
  /\ file' = <<>> /\ published' = NotYet
  /\ lphase' = "write"
  /\ UNCHANGED <<args, in, x, line, freed, leaked, index, result, runs, text>>

(* The keys make no trie, or the path cannot be opened: the sentences are  *)
(* deleted a second time.                                                  *)
SaveRefused ==
  /\ lphase = "save"
  /\ Complains("save")
  /\ UNCHANGED <<args, in, x, line, leaked, index, runs, diskVars>>

SaveCell ==
  /\ lphase = "write"
  /\ LET b == Binary(ToSave(index))
     IN  /\ file' = Append(file, b[Len(file) + 1])
         /\ IF Len(file') < Len(b)
            THEN UNCHANGED <<lphase, published>>
            ELSE lphase' = "text" /\ published' = Stored(ToSave(index))
  /\ UNCHANGED <<args, in, x, line, freed, leaked, index, result, runs, text>>

TextWanted == args.mode = "learn" /\ args.text

(* The file of the text cannot be opened: save() has failed, and again the *)
(* sentences are deleted a second time; but the model is at the path.      *)
TextRefused ==
  /\ lphase = "text" /\ TextWanted
  /\ Complains("text")
  /\ UNCHANGED <<args, in, x, line, leaked, index, runs, diskVars>>

Finish ==
  /\ lphase = "text"
  /\ text' = IF TextWanted THEN Text(ToSave(index)) ELSE text
  /\ Ends(0, "done")
  /\ UNCHANGED <<args, in, x, line, freed, leaked, index, runs, file, published>>

(* The index that convert() makes of the model in a text.                  *)
Converted(m) ==
  [NoIndex EXCEPT
    !.y = m.y, !.uni = m.uni, !.bi = m.bi,
    !.maxid = m.maxid, !.xsize = m.xsize, !.alpha = m.alpha,
    !.dic = {[key |-> m.dic[i].key, id |-> m.dic[i].id, freq |-> 1] :
               i \in 1 .. Len(m.dic)}]

(* crf_learn -C: the text beside the path becomes the model at the path.   *)
Convert ==
  /\ FreshRun
  /\ args' \in {a \in Training : a.mode = "convert"}
  /\ IF Converts(text)
     THEN index' = Converted(FromText(text)) /\ lphase' = "save" /\ UNCHANGED result
     ELSE Ends(-1, "format") /\ index' = NoIndex
  /\ UNCHANGED <<in, diskVars>>

(* The program is killed: what it had in memory is gone, the files stay as *)
(* they are, the text with as many lines and the part of a line as were    *)
(* flushed.                                                                *)
Kill ==
  /\ lphase # "idle"
  /\ Ends(-1, "killed")
  /\ x' = <<>> /\ line' = 0 /\ freed' = <<>> /\ leaked' = 0 /\ index' = NoIndex
  /\ IF lphase = "text" /\ TextWanted
     THEN LET t == Text(ToSave(index))
          IN  text' \in {text} \cup {Cut(t, n, b) : n \in 0 .. Len(t), b \in BOOLEAN}
     ELSE UNCHANGED text
  /\ UNCHANGED <<args, in, runs, file, published>>

Working ==
  \/ ReadSentence \/ ShrinkDictionary \/ Train \/ DeleteSentences
  \/ SaveCell \/ Finish
=============================================================================
