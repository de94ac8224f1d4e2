--------------------------- MODULE SentenceStream ---------------------------
(***************************************************************************)
(* How training and test files are cut into sentences: TaggerImpl::read    *)
(* (tagger.cpp 358-376) with the column test of add2 (300-307), as it is   *)
(* called again and again by the loops of Encoder::learn and crfpp_test.   *)
(* A line is its number of columns and its last column, which is the tag   *)
(* of a training line.  An index is a record with the fields uni, bi and   *)
(* xsize of a FeatureIndex.                                                *)
(***************************************************************************)
EXTENDS Places, FiniteSetsExt

Line(n, t) == [cols |-> n, tag |-> t]

(* An empty line, or one that begins with a space or a tab.                *)
Separator == Line(0, 0)

(* 8192 characters or more: getline stores 8191 and fails, which read()    *)
(* takes for the end of the input.                                         *)
Overlong == Line(-1, 0)

(* What a line of a file can be.                                           *)
InputLine == [cols : Nat \ {0}, tag : Int] \cup {Separator, Overlong}

IsEnd(s, i) == i = Len(s) + 1 \/ s[i] = Overlong

StopsAtSeparatorOnly(s, need, i) ==          \* mutant: short lines accepted
  IsEnd(s, i) \/ s[i].cols <= 0

Stops(s, need, i) == IsEnd(s, i) \/ s[i].cols <= 0 \/ s[i].cols < need

ReadToFirstEmpty(s, need) ==                 \* mutant: an empty sentence ends the input
  LET stop == Min({i \in 1 .. Len(s) + 1 : Stops(s, need, i)})
      end  == IsEnd(s, stop) \/ stop = 1
  IN  [tokens |-> SubSeq(s, 1, stop - 1),
       ok     |-> end \/ s[stop] = Separator,
       good   |-> ~end,
       rest   |-> IF end THEN <<>> ELSE SubSeq(s, stop + 1, Len(s))]

(* One call of read() on the lines s, when a line must have need columns:  *)
(* the tokens kept, whether it succeeded, whether the stream is still good *)
(* and what is left in it.                                                 *)
Read(s, need) ==
  LET stop == Min({i \in 1 .. Len(s) + 1 : Stops(s, need, i)})
      end  == IsEnd(s, stop)
  IN  [tokens |-> SubSeq(s, 1, stop - 1),
       ok     |-> end \/ s[stop] = Separator,
       good   |-> ~end,
       rest   |-> IF end THEN <<>> ELSE SubSeq(s, stop + 1, Len(s))]

(* A template line: U or B, the column its macro names (-1: it has none),  *)
(* and whether a space is in its text.                                     *)
Template(k, c, s) == [kind |-> k, col |-> c, spaced |-> s]

(* Templates that buildFeatures expands for a sentence of n tokens, and    *)
(* those it cannot: the column is not there.                               *)
Expanded(ix, n) == (IF n >= 1 THEN ix.uni ELSE <<>>) \o (IF n >= 2 THEN ix.bi ELSE <<>>)

Malformed(ix, n) ==
  \E i \in 1 .. Len(Expanded(ix, n)) : Expanded(ix, n)[i].col >= ix.xsize

-----------------------------------------------------------------------------
(* What the loops must come to, without reading: the sentences of a file   *)
(* are its longest runs of good lines that end at a separator or at the    *)
(* end of the input, which an overlong line puts before it.  A run that    *)
(* ends at a line with too few columns is lost.                            *)

Visible(s) ==
  LET long == {i \in 1 .. Len(s) : s[i] = Overlong}
  IN  IF long = {} THEN s ELSE SubSeq(s, 1, Min(long) - 1)

Good(s, need, i) == i \in 1 .. Len(s) /\ s[i].cols > 0 /\ s[i].cols >= need

IsSentence(s, need, i, j) ==
  /\ i <= j
  /\ \A k \in i .. j : Good(s, need, k)
  /\ ~Good(s, need, i - 1)
  /\ j = Len(s) \/ s[j + 1] = Separator

FirstLines(s, need) ==
  {i \in 1 .. Len(s) : \E j \in i .. Len(s) : IsSentence(s, need, i, j)}

LastLine(s, need, i) == CHOOSE j \in i .. Len(s) : IsSentence(s, need, i, j)

Sentences(file, need) ==
  LET s     == Visible(file)
      first == FirstLines(s, need)
  IN  [n \in 1 .. Cardinality(first) |->
         SubSeq(s, Nth(first, n), LastLine(s, need, Nth(first, n)))]
=============================================================================
