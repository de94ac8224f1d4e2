------------------------------- MODULE Columns -------------------------------
(***************************************************************************)
(* The sequential programs around the tagger, as pure functions: reading   *)
(* the tagged columns and listing the entities (NER_extractor.java 18-133),*)
(* gathering chunks (Chunker.java 84-127).                                 *)
(* A line of a tagged file is blank (no columns) or a record of its number *)
(* of columns, its word and the label of its fourth column.  A label is a  *)
(* pair: "B", "I" or "O", and the type.                                    *)
(***************************************************************************)
EXTENDS Places, SequencesExt

Blank == [cols |-> 0]

(* load_data: one row for every line that has a first column; the Scanner  *)
(* of a blank line has no line, so sentences run into one another.  A line *)
(* of less than four columns is an exception that nothing catches.         *)
LoadRows(file) == Pick(file, {i \in DOMAIN file : file[i].cols > 0})
LoadThrows(file) == \E i \in DOMAIN file : file[i].cols \in 1 .. 3

(* The rows of the entity that begins at row i: as far as its labels go.   *)
InsideAny(rows, i, type) ==                  \* mutant: any I- label goes on
  Max({j \in i .. Len(rows) : \A k \in i + 1 .. j : rows[k].label[1] = "I"})

LastOf(rows, i, type) ==
  Max({j \in i .. Len(rows) : \A k \in i + 1 .. j : rows[k].label = <<"I", type>>})

Begins(rows, type) == {i \in DOMAIN rows : rows[i].label = <<"B", type>>}

(* printWordsToFile looks at the row after every entity: past the last row *)
(* of the file that is an exception, and nothing is written.               *)
ListThrows(rows, types) == \E t \in types : \E i \in Begins(rows, t) : LastOf(rows, i, t) = Len(rows)

WordsOf(rows, i, j) == [k \in 1 .. j - i + 1 |-> rows[i + k - 1].word]

(* printSortedMap: how often each entity of a type was found.              *)
Counts(rows, type) ==
  LET entities == {WordsOf(rows, i, LastOf(rows, i, type)) : i \in Begins(rows, type)}
  IN  [e \in entities |->
         Cardinality({i \in Begins(rows, type) : WordsOf(rows, i, LastOf(rows, i, type)) = e})]
-----------------------------------------------------------------------------
(* addChunks: the words of a tagging gathered by their labels.             *)
Gathering == [open |-> <<>>, done |-> <<>>, in |-> FALSE]

ForgetsOpen(g, word, label) ==               \* mutant: the open chunk dropped at O
  IF label = "B" /\ g.in THEN [open |-> <<word>>, done |-> Append(g.done, g.open), in |-> TRUE]
  ELSE IF label = "B" THEN [g EXCEPT !.open = Append(@, word), !.in = TRUE]
  ELSE IF label = "I" THEN [g EXCEPT !.open = Append(@, word)]
  ELSE [g EXCEPT !.open = <<>>, !.in = FALSE]

GoesOn(g, word, label) ==                    \* mutant: B inside a chunk goes on
  IF label \in {"B", "I"} THEN [g EXCEPT !.open = Append(@, word), !.in = @ \/ label = "B"]
  ELSE IF g.in THEN [open |-> <<>>, done |-> Append(g.done, g.open), in |-> FALSE]
  ELSE g

(* A word labelled I that follows no B is added to the open chunk without  *)
(* opening one: the next B then goes on with it.                           *)
Gather(g, word, label) ==
  IF label = "B" /\ g.in THEN [open |-> <<word>>, done |-> Append(g.done, g.open), in |-> TRUE]
  ELSE IF label = "B" THEN [g EXCEPT !.open = Append(@, word), !.in = TRUE]
  ELSE IF label = "I" THEN [g EXCEPT !.open = Append(@, word)]
  ELSE IF g.in THEN [open |-> <<>>, done |-> Append(g.done, g.open), in |-> FALSE]
  ELSE g

AddChunks(tokens, labels) ==
  LET n == Len(tokens)
      after[i \in 0 .. n] ==
        IF i = 0 THEN Gathering ELSE Gather(after[i-1], tokens[i], labels[i])
      g == after[n]
  IN  IF g.open = <<>> THEN g.done ELSE Append(g.done, g.open)
=============================================================================
