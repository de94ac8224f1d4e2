------------------------------ MODULE Templates ------------------------------
(***************************************************************************)
(* The expansion of a feature template at one position of a sentence:      *)
(* FeatureIndex::getIndex and applyRule (feature.cpp 22-123).  A template  *)
(* is a sequence of characters; reading past its last one finds the NUL,   *)
(* reading past the NUL is undefined.  A macro %x[row,col] becomes a cell  *)
(* of the sentence, or, beyond its ends, one of the words _B-1 .. _B-8 and *)
(* _B+1 .. _B+8.                                                           *)
(***************************************************************************)
EXTENDS Integers, Sequences, SequencesExt, FiniteSetsExt

kMaxContextSize == 8

Digits == <<"0", "1", "2", "3", "4", "5", "6", "7", "8", "9">>
IsDigit(c) == \E d \in 1 .. 10 : Digits[d] = c
Digit(c)   == (CHOOSE d \in 1 .. 10 : Digits[d] = c) - 1
End == "end"                          \* the NUL

CharAt(t, p) == IF p <= Len(t) THEN t[p] ELSE End

(* The first character at or after p that is no digit, and the number the  *)
(* digits before it spell: 0 if there are none.                            *)
AfterDigits(t, p) == Min({q \in p .. Len(t) + 1 : ~IsDigit(CharAt(t, q))})
Spelt(digits) ==
  LET number[n \in 0 .. Len(digits)] ==
        IF n = 0 THEN 0 ELSE 10 * number[n - 1] + Digit(digits[n])
  IN  number[Len(digits)]
DigitsAt(t, p) == SubSeq(t, p, AfterDigits(t, p) - 1)

Refused == [ok |-> FALSE]

(* The cell named by a row and a column, seen from pos: x(idx, col), or an *)
(* entry of BOS or EOS by its number in the table.                         *)
BosShifted(s, pos, row, col) ==              \* mutant: BOS[-idx]
  LET idx == pos + row
  IN  IF idx < 0 THEN <<"BOS", -idx>>
      ELSE IF idx >= s.size THEN <<"EOS", idx - s.size>> ELSE <<"x", idx, col>>

Cell(s, pos, row, col) ==
  LET idx == pos + row
  IN  IF idx < 0 THEN <<"BOS", -idx - 1>>
      ELSE IF idx >= s.size THEN <<"EOS", idx - s.size>> ELSE <<"x", idx, col>>

PastBracket(t, c) == AfterDigits(t, c) + 1   \* mutant: ']' skipped twice

(* Where the reading of a column that starts at c ends: at ']' or the NUL. *)
ColumnEnd(t, c) == AfterDigits(t, c)

(* getIndex from the character after %x: refused, or the cell, its column, *)
(* and where the reading stopped.  A macro that breaks off at the end of   *)
(* the template is taken as if it were closed.                             *)
GetIndex(t, p, s, pos) ==
  LET minus == CharAt(t, p + 1) = "-"
      r     == IF minus THEN p + 2 ELSE p + 1
      rEnd  == AfterDigits(t, r)
      c     == IF CharAt(t, rEnd) = "," THEN rEnd + 1 ELSE rEnd
      size  == Spelt(DigitsAt(t, r))
      row   == IF minus THEN -size ELSE size
      col   == Spelt(DigitsAt(t, c))
  IN  IF /\ CharAt(t, p) = "["
         /\ CharAt(t, rEnd) \in {",", End}
         /\ CharAt(t, AfterDigits(t, c)) \in {"]", End}
         /\ row \in - kMaxContextSize .. kMaxContextSize
         /\ col < s.xsize
      THEN [ok |-> TRUE, cell |-> Cell(s, pos, row, col), col |-> col,
            stop |-> ColumnEnd(t, c)]
      ELSE Refused

(* applyRule: the verdict ("built", "refused", "undefined"), the feature   *)
(* as a sequence of characters and cells, and the columns it needs, which  *)
(* raise max_xsize_ when training checks it.  The loop's p++ after a macro *)
(* that broke off steps over the NUL.                                      *)
ApplyRule(t, s, pos) ==
  LET none(v) == [verdict |-> v, feature |-> <<>>, columns |-> 0]
      add(e, n, r) == [r EXCEPT !.feature = <<e>> \o @, !.columns = Max({n, @})]
      from[p \in 1 .. Len(t) + 3] ==
        IF p > Len(t) + 1 THEN none("undefined")
        ELSE IF p = Len(t) + 1 THEN none("built")
        ELSE IF t[p] # "%" THEN add(t[p], 0, from[p + 1])
        ELSE IF CharAt(t, p + 1) # "x" THEN none("refused")
        ELSE LET g == GetIndex(t, p + 2, s, pos)
             IN  IF g.ok THEN add(g.cell, g.col + 1, from[g.stop + 1]) ELSE none("refused")
  IN  from[1]
=============================================================================
