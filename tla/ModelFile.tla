------------------------------ MODULE ModelFile ------------------------------
(***************************************************************************)
(* The two formats of a CRF++ model: what EncoderFeatureIndex::save        *)
(* writes, what DecoderFeatureIndex::openFromArray accepts and reads back, *)
(* and what EncoderFeatureIndex::convert makes of a text                   *)
(* (feature_index.cpp 192-252, 281-501).                                   *)
(*                                                                         *)
(* A binary file is a sequence of cells: a number of the header, a tag or  *)
(* a template with its NUL, a NUL of padding, an entry of the double       *)
(* array, a weight.  Sizes count cells where the code counts bytes, so     *)
(* dsize is the number of entries of the array.  A text is a sequence of   *)
(* lines.  A model is a record:                                            *)
(*   y      tags in order             uni, bi  template lines              *)
(*   dic    entries of a key and its number, in key order                  *)
(*   maxid  number of weights         alpha    the weights                 *)
(*   xsize  columns a test line must have                                  *)
(* Tags, templates and entries are records that bear their kind.           *)
(***************************************************************************)
EXTENDS Places, SequencesExt

Version == 100                    \* MODEL_VERSION; one release is a hundred
Nul == [kind |-> "nul"]

(* Weights: 0 is zero, 1 is below the 16 decimals of a text, 3 has digits  *)
(* that a float drops and becomes 2.                                       *)
Float(w)    == IF w = 3 THEN 2 ELSE w
Decimals(w) == IF w = 1 THEN 0 ELSE w

OfKind(s, k) == Pick(s, {i \in 1 .. Len(s) : s[i].kind = k})

-----------------------------------------------------------------------------
(* The binary format.                                                      *)

(* Every template line ends in NUL; more NULs bring tags and templates     *)
(* together to a multiple of four.                                         *)
Padded(m) ==
  LET t == m.uni \o m.bi
      n == Len(m.y) + Len(t)
  IN  t \o [i \in 1 .. (4 - (n % 4)) % 4 |-> Nul]

Header(m) == <<Version, 0, 1, m.maxid, m.xsize, Len(m.dic), Len(m.y)>>

Weights(m) == [i \in 1 .. m.maxid |-> Float(m.alpha[i])]

Binary(m) ==
  Header(m) \o m.y \o <<Len(Padded(m))>> \o Padded(m) \o m.dic \o Weights(m)

(* Cell i of the mapping.  Past the last cell of the file, but on the same *)
(* page, the mapping holds anything (zeros, or half a number).             *)
At(f, i, junk) == IF i <= Len(f) THEN f[i] ELSE junk

Region(f, from, n, junk) == [i \in 1 .. n |-> At(f, from + i, junk)]

TagsFrom == 7
TemplatesFrom(f, junk) == TagsFrom + At(f, 7, junk) + 1
ArrayFrom(f, junk) ==
  TemplatesFrom(f, junk) + At(f, TemplatesFrom(f, junk), junk)
WeightsFrom(f, junk) == ArrayFrom(f, junk) + At(f, 6, junk)

OpensAnyLength(f, size, junk) ==             \* mutant: "model file is broken"
  At(f, 1, junk) \div 100 = Version \div 100

(* The checks of openFromArray on a file of the given size: the release,   *)
(* and that the pointer ends where the file does.  An empty file cannot be *)
(* mapped.                                                                 *)
Opens(f, size, junk) ==
  /\ size > 0
  /\ At(f, 1, junk) \div 100 = Version \div 100
  /\ WeightsFrom(f, junk) + At(f, 4, junk) = size

(* What the decoder's index holds.  The type and the cost factor are read  *)
(* and not used: the cost factor is the tagger's option.                   *)
Index(f, junk) ==
  LET templs == Region(f, TemplatesFrom(f, junk),
                       At(f, TemplatesFrom(f, junk), junk), junk)
  IN  [y     |-> Region(f, TagsFrom, At(f, 7, junk), junk),
       uni   |-> OfKind(templs, "U"),
       bi    |-> OfKind(templs, "B"),
       dic   |-> Region(f, ArrayFrom(f, junk), At(f, 6, junk), junk),
       maxid |-> At(f, 4, junk),
       xsize |-> At(f, 5, junk),
       alpha |-> Region(f, WeightsFrom(f, junk), At(f, 4, junk), junk)]

(* The model a whole file stands for.                                      *)
Stored(m) == [m EXCEPT !.alpha = Weights(m)]
-----------------------------------------------------------------------------
(* The text format: sections closed by empty lines, the weights last.      *)

Empty == [kind |-> "empty"]
HeadLine(k, n) == [kind |-> "head", name |-> k, value |-> n]
Weight(w)     == [kind |-> "weight", value |-> w]
Lines(s)      == Append(s, Empty)

TextUnclosed(m) ==                           \* mutant: no empty line after the tags
  Lines(<<HeadLine("version", Version), HeadLine("cost-factor", 1),
          HeadLine("maxid", m.maxid), HeadLine("xsize", m.xsize)>>)
  \o m.y \o Lines(m.uni \o m.bi) \o Lines(m.dic)
  \o [i \in 1 .. m.maxid |-> Weight(Decimals(m.alpha[i]))]

Text(m) ==
  Lines(<<HeadLine("version", Version), HeadLine("cost-factor", 1),
          HeadLine("maxid", m.maxid), HeadLine("xsize", m.xsize)>>)
  \o Lines(m.y) \o Lines(m.uni \o m.bi) \o Lines(m.dic)
  \o [i \in 1 .. m.maxid |-> Weight(Decimals(m.alpha[i]))]

(* A text of which only n lines, and with broken a part of the next, have  *)
(* reached the disk.  getline gives that part as a line; of a weight it is *)
(* another number, of any other line it is followed by the end of the      *)
(* file, where an empty line is still missing.                             *)
Broken(line) == IF line.kind = "weight" THEN Weight(0) ELSE [kind |-> "part"]

Cut(t, n, broken) ==
  SubSeq(t, 1, n) \o IF broken /\ n < Len(t) THEN <<Broken(t[n + 1])>> ELSE <<>>

Empties(t) == {i \in 1 .. Len(t) : t[i] = Empty}

(* The place of the k-th empty line.                                       *)
EmptyAt(t, k) == Nth(Empties(t), k)

Section(t, k) ==
  SubSeq(t, IF k = 1 THEN 1 ELSE EmptyAt(t, k - 1) + 1, EmptyAt(t, k) - 1)

(* Of two lines of one name the later counts.                              *)
HeadValue(t, name) ==
  LET named == {i \in 1 .. EmptyAt(t, 1) - 1 : t[i].kind = "head" /\ t[i].name = name}
  IN  IF named = {} THEN 0 ELSE t[Max(named)].value

Numbers(t) == SubSeq(t, EmptyAt(t, 4) + 1, Len(t))

ConvertsUncounted(t) ==                      \* mutant: alpha.size() not compared
  /\ Cardinality(Empties(t)) >= 4
  /\ HeadValue(t, "maxid") > 0 /\ HeadValue(t, "xsize") > 0

(* All four sections, a number of weights and of columns above zero, and   *)
(* one number per weight.                                                  *)
Converts(t) ==
  /\ Cardinality(Empties(t)) >= 4
  /\ HeadValue(t, "maxid") > 0 /\ HeadValue(t, "xsize") > 0
  /\ Len(Numbers(t)) = HeadValue(t, "maxid")

(* The columns of a dictionary line end at a space, so a key does too; of  *)
(* two keys that become equal the first is kept.                           *)
UpToSpace(key) == [key EXCEPT !.spaced = FALSE]

ReadKeys(d) ==
  LET cut == [i \in 1 .. Len(d) |-> [d[i] EXCEPT !.key = UpToSpace(@)]]
  IN  Pick(cut, {i \in 1 .. Len(d) : \A j \in 1 .. i - 1 : cut[j].key # cut[i].key})

FromText(t) ==
  [y     |-> Section(t, 2),
   uni   |-> OfKind(Section(t, 3), "U"),
   bi    |-> OfKind(Section(t, 3), "B"),
   dic   |-> ReadKeys(Section(t, 4)),
   maxid |-> HeadValue(t, "maxid"),
   xsize |-> HeadValue(t, "xsize"),
   alpha |-> [i \in 1 .. Len(Numbers(t)) |-> Numbers(t)[i].value]]
=============================================================================
