----------------------------- MODULE MCToolchain -----------------------------
(***************************************************************************)
(* Command lines of crf_learn and crf_test.  Training files: two sentences *)
(* with empty ones between, an overlong line in the middle, columns that   *)
(* no template uses, a bigram template that training never expands, one    *)
(* that it cannot expand on the second sentence, a feature below -f,       *)
(* unequal columns, no file.  Test files: lines short of a column in the   *)
(* middle of a sentence, a last sentence without separator, an overlong    *)
(* line, a file that is not there.                                         *)
(***************************************************************************)
EXTENDS Toolchain

U0 == Template("U", 0, FALSE)
U1 == Template("U", 1, FALSE)
US == Template("U", 0, TRUE)
B  == Template("B", -1, FALSE)
B1 == Template("B", 1, FALSE)
Comment == Template("X", -1, FALSE)

Crf(templ, train, freq, txt) ==
  [mode |-> "learn", there |-> TRUE, templ |-> templ, train |-> train,
   freq |-> freq, text |-> txt, threads |-> 2]
Other(mode) == [mode |-> mode]

S == Separator
P == Line(2, 1)
Q == Line(2, 2)

MCTraining ==
  {Other("help"), Other("options"), Other("algorithm"), Other("convert"),
   [Crf(<<U0>>, <<P>>, 1, FALSE) EXCEPT !.there = FALSE],
   Crf(<<U0>>, <<P, Line(1, 1)>>, 1, FALSE),
   Crf(<<Comment, U0, US>>, <<P, S, S, Q, S, P, Overlong, Line(1, 1)>>, 1, TRUE),
   Crf(<<U0, B1>>, <<P, S, Q>>, 1, FALSE),
   Crf(<<U0, B1>>, <<P, S, Q, P>>, 1, FALSE),
   Crf(<<U0, B>>, <<P, P>>, 2, FALSE),
   Crf(<<U1>>, <<Line(4, 1), Line(4, 1)>>, 1, FALSE)}

File(lines) == [there |-> TRUE, lines |-> lines]
Test(files) == [mode |-> "run", cost |-> TRUE, output |-> TRUE, files |-> files]

MCJob ==
  {[mode |-> "version"],
   [Test(<<>>) EXCEPT !.cost = FALSE],
   [Test(<<>>) EXCEPT !.output = FALSE],
   Test(<<File(<<Q, S, P, Line(1, 3), Q, S, S, P, Q>>), File(<<Line(1, 4), P, Overlong, P>>)>>),
   Test(<<File(<<P>>), [File(<<>>) EXCEPT !.there = FALSE]>>)}
=============================================================================
