---------------------------- MODULE MCAlgorithms ----------------------------
(***************************************************************************)
(* Inputs: the sets of up to three keys, of up to three characters over    *)
(* two letters, and the set of all of them; small models with all kinds of *)
(* weights and keys; templates of up to two pieces, and all ways to lose   *)
(* characters of one; command lines of up to four words; files of up to    *)
(* five lines; sentences of up to six words; calls of every function of    *)
(* the wrappers, with a size_t of 4 bits, an unsigned int of 3 and         *)
(* arguments on both sides of every bound.                                 *)
(***************************************************************************)
EXTENDS Algorithms, SequencesExt, FiniteSetsExt

UpTo(S, n) == UNION {[1 .. k -> S] : k \in 0 .. n}

MCWords == UpTo({1, 2}, 4)
Keys == UpTo({1, 2}, 3) \ {<<>>}
InOrder(S) ==
  [n \in 1 .. Cardinality(S) |-> CHOOSE k \in S : Cardinality({j \in S : Precedes(j, k)}) = n - 1]
MCKeySets ==
  {InOrder(S) : S \in UNION {kSubset(n, Keys) : n \in 1 .. 3} \cup {Keys}}

Tag(n) == [kind |-> "tag", name |-> n]
Templ(k) == [kind |-> k, col |-> 0, spaced |-> FALSE]
Entry(n, s, id) == [kind |-> "key", key |-> [name |-> n, spaced |-> s], id |-> id]
MCModels ==
  {[y |-> y, uni |-> <<Templ("U")>>, bi |-> bi, dic |-> dic, maxid |-> Len(a),
    alpha |-> a, xsize |-> x] :
     y \in {<<Tag(1)>>, <<Tag(1), Tag(2)>>}, bi \in {<<>>, <<Templ("B")>>},
     dic \in {<<>>, <<Entry(1, FALSE, 0)>>, <<Entry(1, FALSE, 0), Entry(1, TRUE, 1)>>},
     a \in UpTo(0 .. 3, 3), x \in 0 .. 2}

Char(c) == [kind |-> "char", char |-> c]
Macro(m, r, c) == [kind |-> "macro", minus |-> m, row |-> r, col |-> c]
Pieces ==
  {Char("a"), Char("]"), Char(",")} \cup
  {Macro(m, r, c) : m \in BOOLEAN, r \in {<<>>, <<"1">>, <<"8">>, <<"9">>, <<"0", "2">>, <<"1", "0">>},
                    c \in {<<>>, <<"0">>, <<"0", "1">>, <<"2">>}}
MCSentences == [size : 1 .. 2, xsize : 1 .. 2]
MCPieceLists == UpTo(Pieces, 2)

Base == <<"%", "x", "[", "-", "1", ",", "0", "]", "%", "x", "[", "2", ",">>
MCStrings ==
  {FoldLeft(LAMBDA s, i : IF i \in S THEN Append(s, Base[i]) ELSE s, <<>>, [i \in 1 .. 13 |-> i]) :
     S \in SUBSET (1 .. 13)}

Opt(n, s, w, d) == [name |-> n, short |-> s, wants |-> w, default |-> d]
T(n) == [kind |-> "text", number |-> n]
None == [kind |-> "none", number |-> 0]
Nothing == [kind |-> "empty", number |-> 0]
MCTable ==
  <<Opt("freq", "f", TRUE, T(1)), Opt("verbose", "v", TRUE, T(0)), Opt("version", "v", FALSE, None)>>
W(k, n, v) == [kind |-> k, name |-> n, value |-> v, number |-> 0]
P(k, n) == [kind |-> k, number |-> n]
Common == {W("long", "freq", None), W("short", "v", None), W("long", "version", None),
           P("other", 3), P("stop", 0), P("dash", 0)}
Rare == {W("long", "freq", Nothing), W("long", "freq", T(2)), W("short", "f", T(0)),
         W("short", "f", None), W("long", "version", T(1)), W("long", "unknown", None)}
MCCommandLines == UpTo(Common, 4) \cup UpTo(Common \cup Rare, 3)

Row(w, l) == [cols |-> 4, word |-> w, label |-> l]
MCLines == {[cols |-> 0], Row(1, <<"O", "-">>)} \cup
           {Row(w, <<b, t>>) : w \in {1}, b \in {"B", "I"}, t \in {"LOC", "PER"}}
MCFiles == UpTo(MCLines, 5) \cup UpTo({[cols |-> 0], [cols |-> 3], [Row(2, <<"B", "PER">>) EXCEPT !.cols = 5], Row(1, <<"O", "-">>)}, 3)

MCLabels == UpTo({"B", "I", "O"}, 6)
V(is, n) == [is |-> is, n |-> n]
Arguments ==
  {V("int", n) : n \in {-9, -8, -1, 0, 2, 7, 8, 15, 16}} \cup
  {V("real", h) : h \in {-4, 1, 4, 7}} \cup
  {V("numeral", n) : n \in {-1, 3, 16}} \cup {V("padded", 8), V("padded", 10)} \cup
  {V("blank", 0), V("text", 0), V("nil", 0), V("Model", 0), V("Model", 1), V("Tagger", 2)}
Few == {V("int", -9), V("int", -1), V("int", 2), V("real", 3), V("padded", 10), V("nil", 0)}
Selves == {V("Tagger", 2), V("Tagger", 0), V("Model", 1), V("nil", 0)}
ArgumentLists == UpTo(Arguments, 1) \cup [1 .. 2 -> Few \cup {V("int", 15), V("text", 0)}]
                   \cup [1 .. 3 -> Few] \cup {[i \in 1 .. 4 |-> V("int", 1)]}
Names == {s.name : s \in Python!Declared}
Takes(n, k) == \E s \in Python!Declared : s.name = n /\ Len(s.args) = k
Made(self) == UNION {[lang : {"Python", "Perl", "Ruby", "Java"}, name : {n},
                      argv : {<<self>> \o a : a \in {b \in ArgumentLists : Len(b) < 2 \/ Takes(n, Len(b))}}] :
                       n \in Names}
\* Perl has no object without a pointer, and Ruby and Java call nothing on nil.
MCCalls == {c \in UNION {Made(s) : s \in Selves} :
              /\ c.lang = "Perl" => \A i \in DOMAIN c.argv : c.argv[i].is = "Model" => c.argv[i].n # 0
              /\ c.lang = "Perl" => c.argv[1] # V("Tagger", 0)
              /\ c.lang \in {"Ruby", "Java"} => c.argv[1].is # "nil"
              /\ c.argv[1] # V("Tagger", 2) => Len(c.argv) < 3}
=============================================================================
