----------------------------- MODULE Algorithms -----------------------------
(***************************************************************************)
(* The sequential algorithms of the repository against what they should    *)
(* compute, over bounded inputs: one initial state for every input, no     *)
(* steps.  The reference definitions here are written from the shape of    *)
(* the input (a set of keys, a list of pieces, places in a sequence),      *)
(* never by scanning it.                                                   *)
(***************************************************************************)
EXTENDS Integers, Sequences, FiniteSets

CONSTANTS Alphabet,     \* characters are 1 .. Alphabet
          Cells,        \* length of the double array
          KeySets,      \* sequences of keys, in order
          Words,        \* what is looked up
          Models,       \* models as records of ModelFile
          PieceLists,   \* templates as lists of pieces
          Strings,      \* templates as characters
          Sentences,    \* the sizes of sentences: tokens and columns
          Settings,     \* the options of a program
          CommandLines,
          TaggedFiles,  \* tagged files, as Columns reads them
          Labels,       \* labels of the words of a sentence
          SizeBits,     \* widths and bounds of C++, as Wrapping names them
          UnsignedBits,
          MaxFloat,
          Calls         \* calls of a script: language, name and arguments

DA      == INSTANCE Darts
Model   == INSTANCE ModelFile
Rule    == INSTANCE Templates
Command == INSTANCE Options
Column  == INSTANCE Columns
Python  == INSTANCE PythonWrapper
Perl    == INSTANCE PerlWrapper
Ruby    == INSTANCE RubyWrapper
Java    == INSTANCE JavaWrapper

(* std::map and std::set hand the keys out in order, none twice; an index  *)
(* has at least one.  The array grows when it is full, so that it has room *)
(* for a node of every prefix, wherever the one before it ended.           *)
PrefixesOf(w) == {SubSeq(w, 1, n) : n \in 0 .. Len(w)}
Branches(keys) == UNION {PrefixesOf(keys[i]) : i \in DOMAIN keys}

Precedes(a, b) ==
  \E n \in 0 .. Len(a) : /\ n <= Len(b) /\ \A i \in 1 .. n : a[i] = b[i]
                         /\ DA!CodeAt(a, n) < DA!CodeAt(b, n)

ASSUME KeysAssumption ==
  /\ Alphabet \in Nat /\ Cells \in Nat
  /\ Words \subseteq Seq(1 .. Alphabet)
  /\ \A keys \in KeySets :
       /\ keys \in Seq(Seq(1 .. Alphabet)) /\ keys # <<>>
       /\ \A i, j \in DOMAIN keys : i < j => Precedes(keys[i], keys[j])
       /\ (Cardinality(Branches(keys)) + 1) * (Alphabet + 2) <= Cells

(* A template line is made of macros and of characters that begin none.    *)
ASSUME TemplatesAssumption ==
  /\ \A s \in Sentences : s.size \in Nat /\ s.xsize \in Nat
  /\ \A ps \in PieceLists :
       /\ ps \in Seq({ps[i] : i \in DOMAIN ps})
       /\ \A i \in DOMAIN ps :
            \/ ps[i].kind = "char" /\ ps[i].char # "%"
            \/ /\ ps[i].kind = "macro" /\ ps[i].minus \in BOOLEAN
               /\ ps[i].row \in Seq({"0", "1", "2", "3", "4", "5", "6", "7", "8", "9"})
               /\ ps[i].col \in Seq({"0", "1", "2", "3", "4", "5", "6", "7", "8", "9"})
  /\ \A t \in Strings : t \in Seq({t[i] : i \in DOMAIN t})

(* The table of a program names an option once; a line is a sequence of    *)
(* words of the five kinds.                                                *)
ASSUME LinesAssumption ==
  /\ Settings \in Seq({Settings[i] : i \in DOMAIN Settings})
  /\ \A i, j \in DOMAIN Settings : Settings[i].name = Settings[j].name => i = j
  /\ \A words \in CommandLines :
       /\ words \in Seq({words[i] : i \in DOMAIN words})
       /\ \A i \in DOMAIN words : words[i].kind \in {"long", "short", "other", "dash", "stop"}

(* A model as training leaves it: templates of the two kinds, the keys of  *)
(* a std::map, none twice, and a weight for every id.                      *)
ASSUME ModelsAssumption ==
  \A m \in Models :
    /\ m.y \in Seq({m.y[i] : i \in DOMAIN m.y}) /\ m.uni \in Seq({m.uni[i] : i \in DOMAIN m.uni})
    /\ m.bi \in Seq({m.bi[i] : i \in DOMAIN m.bi}) /\ m.dic \in Seq({m.dic[i] : i \in DOMAIN m.dic})
    /\ m.maxid \in Nat /\ DOMAIN m.alpha = 1 .. m.maxid
    /\ \A i \in DOMAIN m.alpha : m.alpha[i] \in 0 .. 3
    /\ \A i \in DOMAIN m.y : m.y[i].kind = "tag"
    /\ \A i \in DOMAIN m.uni : m.uni[i].kind = "U"
    /\ \A i \in DOMAIN m.bi : m.bi[i].kind = "B"
    /\ \A i \in DOMAIN m.dic :
         m.dic[i] = [kind |-> "key", id |-> m.dic[i].id,
                     key |-> [name |-> m.dic[i].key.name, spaced |-> m.dic[i].key.spaced]]
    /\ \A i \in DOMAIN m.dic : m.dic[i].key.spaced \in BOOLEAN
    /\ \A i, j \in DOMAIN m.dic : m.dic[i].key = m.dic[j].key => i = j

ASSUME TaggingsAssumption ==
  /\ \A file \in TaggedFiles : /\ file \in Seq({file[i] : i \in DOMAIN file})
                               /\ \A i \in DOMAIN file : file[i].cols \in Nat
  /\ Labels \subseteq Seq({"B", "I", "O"})

(* A long is wider than an int.  A call has a receiver; Perl has no object *)
(* without a pointer, and Ruby and Java call nothing on nil.               *)
ASSUME CallsAssumption ==
  /\ SizeBits \in Nat /\ UnsignedBits \in Nat /\ UnsignedBits < SizeBits /\ MaxFloat \in Nat
  /\ \A c \in Calls :
       /\ c.lang \in {"Python", "Perl", "Ruby", "Java"}
       /\ c.argv \in Seq({c.argv[i] : i \in DOMAIN c.argv}) /\ c.argv # <<>>
       /\ \A i \in DOMAIN c.argv :
            /\ c.argv[i].is \in {"int", "real", "numeral", "padded", "blank", "text",
                                 "nil", "Model", "Tagger"}
            /\ c.argv[i].n \in Int
            /\ c.lang = "Perl" /\ c.argv[i].is \in {"Model", "Tagger"} => c.argv[i].n # 0
       /\ c.lang \in {"Ruby", "Java"} => c.argv[1].is # "nil"

VARIABLE case

Case(k, v) == [kind |-> k, input |-> v]

CasesInit ==
  \/ \E keys \in KeySets : case = Case("keys", keys)
  \/ \E m \in Models : case = Case("model", m)
  \/ \E p \in PieceLists : case = Case("pieces", p)
  \/ \E t \in Strings : case = Case("string", t)
  \/ \E w \in CommandLines : case = Case("words", w)
  \/ \E f \in TaggedFiles : case = Case("file", f)
  \/ \E l \in Labels : case = Case("labels", l)
  \/ \E c \in Calls : case = Case("call", c)

CasesNext == UNCHANGED case

CasesSpec == CasesInit /\ [][CasesNext]_case

When(k) == case.kind = k
-----------------------------------------------------------------------------
(* The double array.  Values count down, so that they are not the ranks.   *)
Values(keys) == [i \in DOMAIN keys |-> Len(keys) - i]
Array(keys) == DA!Build(keys, Values(keys))
Lookup(keys, w) ==
  IF \E i \in DOMAIN keys : keys[i] = w
  THEN Len(keys) - (CHOOSE i \in DOMAIN keys : keys[i] = w) ELSE -1

(* Whatever slots the nodes came to share, a search finds every key with   *)
(* its value, and nothing for any other word: a feature never gets the     *)
(* weights of another one.  The prefixes found are those that are keys,    *)
(* traverse tells a word that leads on to a key (-1) from one that leads   *)
(* nowhere (-2), and no search reads past size(), which is all of the      *)
(* array that a model file holds: the weights begin right after it         *)
(* (darts.h insert, build, exactMatchSearch, commonPrefixSearch, traverse). *)
DartsExact ==
  When("keys") =>
    LET da   == Array(case.input)
        keys == {case.input[i] : i \in DOMAIN case.input}
    IN  \A w \in Words :
          /\ DA!ExactMatchSearch(da, w) = Lookup(case.input, w)
          /\ DA!Probed(da, w) \subseteq 0 .. da.size - 1
          /\ DA!CommonPrefixSearch(da, w)
               = {<<Len(p), Lookup(case.input, p)>> : p \in PrefixesOf(w) \cap keys}
          /\ DA!Traverse(da, w)
               = IF \E k \in keys : w \in PrefixesOf(k) THEN Lookup(case.input, w) ELSE -2
-----------------------------------------------------------------------------
(* A text converts to the very binary that training writes beside it, as   *)
(* long as no key has a space in it and no weight is lost in 16 decimals;  *)
(* and a text that did not reach the disk whole does not convert, unless   *)
(* it was cut inside its last number (feature_index.cpp save, convert).    *)
TextAgrees ==
  When("model") =>
    LET m == case.input
        t == Model!Text(m)
        kept == /\ m.maxid > 0 /\ m.xsize > 0
                /\ \A i \in DOMAIN m.dic : ~m.dic[i].key.spaced
                /\ \A i \in DOMAIN m.alpha : m.alpha[i] # 1
    IN  /\ kept => Model!Converts(t) /\ Model!Binary(Model!FromText(t)) = Model!Binary(m)
        /\ \A n \in 0 .. Len(t) : \A b \in BOOLEAN :
             Model!Converts(Model!Cut(t, n, b)) => n = Len(t) \/ (n = Len(t) - 1 /\ b)
-----------------------------------------------------------------------------
(* Templates.  A piece is a character or a macro with its sign and digits. *)
Render(p) ==
  IF p.kind = "char" THEN <<p.char>>
  ELSE <<"%", "x", "[">> \o (IF p.minus THEN <<"-">> ELSE <<>>) \o p.row
       \o <<",">> \o p.col \o <<"]">>
Rendered(ps) == Rule!FlattenSeq([i \in DOMAIN ps |-> Render(ps[i])])

Number(digits) ==
  LET upTo[n \in 0 .. Len(digits)] ==
        IF n = 0 THEN 0 ELSE 10 * upTo[n - 1] + Rule!Digit(digits[n])
  IN  upTo[Len(digits)]

RowOf(p) == IF p.minus THEN -Number(p.row) ELSE Number(p.row)

Meaning(p, s, pos) ==
  LET at == pos + RowOf(p)
  IN  IF p.kind = "char" THEN p.char
      ELSE CASE at < 0 -> <<"BOS", (-1) - at>>
             [] at \in 0 .. s.size - 1 -> <<"x", at, Number(p.col)>>
             [] at >= s.size -> <<"EOS", at - s.size>>

Acceptable(p, s) ==
  p.kind = "char" \/ (RowOf(p) \in -8 .. 8 /\ Number(p.col) < s.xsize)

Needs(p) == IF p.kind = "char" THEN 0 ELSE Number(p.col) + 1

(* At every position of a sentence a well-formed template becomes its      *)
(* pieces with the macros replaced, or is refused because a macro names a  *)
(* row or column that cannot be; the columns it needs are the largest one  *)
(* named.  A word before or after the sentence is one of the eight that    *)
(* there are.  Of any other text, only one whose last macro is not closed  *)
(* makes the expansion read on behind its NUL (feature.cpp 22-123).        *)
TemplateExact ==
  \A s \in Sentences : \A pos \in 0 .. s.size - 1 :
    /\ When("pieces") =>
         LET ps == case.input
             r  == Rule!ApplyRule(Rendered(ps), s, pos)
         IN  IF \A i \in DOMAIN ps : Acceptable(ps[i], s)
             THEN /\ r.verdict = "built"
                  /\ r.feature = [i \in DOMAIN ps |-> Meaning(ps[i], s, pos)]
                  /\ r.columns = Rule!Max({0} \cup {Needs(ps[i]) : i \in DOMAIN ps})
                  /\ \A i \in DOMAIN ps :
                       ps[i].kind = "macro" /\ r.feature[i][1] # "x" => r.feature[i][2] \in 0 .. 7
             ELSE r.verdict = "refused"
    /\ When("string") =>
         LET t == case.input
         IN  Rule!ApplyRule(t, s, pos).verdict = "undefined" =>
               \E i \in DOMAIN t : /\ t[i] = "["
                                   /\ \A j \in i .. Len(t) : t[j] \notin {"]", "%"}
-----------------------------------------------------------------------------
(* Command lines.  Wanting words come in runs; every second word of a run, *)
(* or the word after it, is a value.                                       *)
Known(w) == w.kind \in {"long", "short"} /\ Command!Named(Settings, w) # 0
Wants(w) == Known(w) /\ Settings[Command!Named(Settings, w)].wants
Wanting(w) == Wants(w) /\ w.value = Command!NoValue

Consumed(ws, i) ==
  \E n \in 0 .. i - 1 : /\ n % 2 = 1
                        /\ \A j \in i - n .. i - 1 : Wanting(ws[j])
                        /\ i - n = 1 \/ ~Wanting(ws[i - n - 1])

WrongBy(ws, i) ==
  LET w == ws[i]
  IN  CASE w.kind \notin {"long", "short"} -> 3
        [] w.kind \in {"long", "short"} /\ ~Known(w) -> 0
        [] Wants(w) /\ (w.value = Command!EmptyValue \/ (Wanting(w) /\ i = Len(ws))) -> 1
        [] Known(w) /\ ~Wants(w) /\ w.value # Command!NoValue -> 2
        [] OTHER -> 3

Read(ws) == {i \in DOMAIN ws : ~Consumed(ws, i)}
Halts(ws) == {i \in Read(ws) : ws[i].kind = "stop" \/ WrongBy(ws, i) # 3}
Halt(ws) == Command!Min(Halts(ws) \cup {Len(ws) + 1})
Before(ws) == {i \in Read(ws) : i < Halt(ws)}

LastSet(ws, name) ==
  {i \in Before(ws) : Known(ws[i]) /\ Settings[Command!Named(Settings, ws[i])].name = name}

(* Every word before the first wrong one (or --) is the value of the       *)
(* option before it, an option, or a file, and the last occurrence of an   *)
(* option counts; the error is that of the first wrong word.               *)
CommandLineMeans ==
  When("words") =>
    LET ws    == case.input
        conf  == Command!Conf(Settings, ws)
        files == {i \in Before(ws) : ws[i].kind = "other"}
        wrong == IF Halt(ws) > Len(ws) THEN 3 ELSE WrongBy(ws, Halt(ws))
    IN  /\ Command!Error(Settings, ws) = wrong
        /\ Len(Command!Rest(Settings, ws)) = Cardinality(files)
        /\ \A i \in files :
             Command!Rest(Settings, ws)[Cardinality({j \in files : j <= i})] = ws[i]
        /\ \A k \in DOMAIN Settings :
             LET set == LastSet(ws, Settings[k].name)
                 i   == Command!Max(set)
             IN  Command!Get(conf, Settings[k].name) =
                   IF set = {} THEN Settings[k].default.number
                   ELSE IF ~Settings[k].wants THEN 1
                   ELSE IF Wanting(ws[i]) THEN ws[i + 1].number ELSE ws[i].value.number
-----------------------------------------------------------------------------
(* Entities of a file, by the sentences it is made of.                     *)
Types == {"LOC", "PER"}
RowAt(f, i) == i \in DOMAIN f /\ f[i].cols > 0
EntityAt(f, i, j, type) ==
  /\ i <= j
  /\ \A k \in i .. j : RowAt(f, k) /\ f[k].label = <<(IF k = i THEN "B" ELSE "I"), type>>
  /\ ~(RowAt(f, j + 1) /\ f[j + 1].label = <<"I", type>>)

Stray(f) ==          \* a sentence that begins inside an entity
  \E i \in DOMAIN f : RowAt(f, i) /\ ~RowAt(f, i - 1) /\ f[i].label[1] = "I"
InsideAtEnd(f) ==
  \E i \in DOMAIN f : /\ RowAt(f, i) /\ f[i].label[1] # "O"
                      /\ \A j \in i + 1 .. Len(f) : ~RowAt(f, j)
ReadableRows(f) == \A i \in DOMAIN f : f[i].cols = 0 \/ f[i].cols >= 4

(* On a file of four columns or more whose last word is no entity, the     *)
(* extractor prints every entity of every sentence as often as it occurs,  *)
(* although it has forgotten where sentences end: provided no sentence     *)
(* begins inside an entity.                                                *)
EntitiesListed ==
  When("file") =>
    LET f    == case.input
        rows == Column!LoadRows(f)
    IN  /\ Column!LoadThrows(f) <=> ~ReadableRows(f)
        /\ ReadableRows(f) /\ ~InsideAtEnd(f) /\ ~Stray(f) =>
             /\ ~Column!ListThrows(rows, Types)
             /\ \A t \in Types :
                  LET places == {e \in (DOMAIN f) \X (DOMAIN f) : EntityAt(f, e[1], e[2], t)}
                      words  == {Column!WordsOf(f, e[1], e[2]) : e \in places}
                  IN  Column!Counts(rows, t) =
                        [w \in words |->
                           Cardinality({e \in places : Column!WordsOf(f, e[1], e[2]) = w})]

(* The chunks of a sentence of the chunker.                                *)
Chunked(labels) == Column!AddChunks([i \in DOMAIN labels |-> i], labels)
WellLabelled(labels) ==
  \A i \in DOMAIN labels : labels[i] = "I" => i > 1 /\ labels[i - 1] # "O"

(* The chunks of a well labelled sentence are its words from a B to before *)
(* the next B or O; and even of an ill labelled one no word labelled B or  *)
(* I is lost, repeated or moved (Chunker.java addChunks).                  *)
ChunksExact ==
  When("labels") =>
    LET ls == case.input
        end(i) == Command!Max({j \in i .. Len(ls) : \A k \in i + 1 .. j : ls[k] = "I"})
        starts == {i \in DOMAIN ls : ls[i] = "B"}
    IN  /\ WellLabelled(ls) =>
             /\ Len(Chunked(ls)) = Cardinality(starts)
             /\ \A i \in starts :
                  Chunked(ls)[Cardinality({j \in starts : j <= i})]
                    = [k \in 1 .. end(i) - i + 1 |-> i + k - 1]
        /\ Column!FlattenSeq(Chunked(ls))
             = Column!Pick([i \in DOMAIN ls |-> i], {i \in DOMAIN ls : ls[i] # "O"})
-----------------------------------------------------------------------------
(* Calls from a script, against the classes as crfpp.h declares them.      *)
Called(c) ==
  CASE c.lang = "Python" -> Python!Call(c.name, c.argv)
    [] c.lang = "Perl"   -> Perl!Call(c.name, c.argv)
    [] c.lang = "Ruby"   -> Ruby!Call(c.name, c.argv)
    [] c.lang = "Java"   -> Java!Call(c.name, c.argv)

TypeOf(stub, i) == IF i = 1 THEN stub.class ELSE stub.args[i - 1]
IsNumber(type) == type \in {"size_t", "unsigned int", "float", "double"}

Fits(type, v) ==
  CASE type = "size_t"            -> v.is = "int" /\ v.n \in 0 .. Python!ULongMax
    [] type = "unsigned int"      -> v.is = "int" /\ v.n \in 0 .. Python!UIntMax
    [] type = "float"             -> \/ v.is = "int" /\ 2 * v.n \in - MaxFloat .. MaxFloat
                                     \/ v.is = "real" /\ v.n \in - MaxFloat .. MaxFloat
    [] type = "double"            -> v.is \in {"int", "real"}
    [] type = "text"              -> Python!IsString(v)
    [] type \in {"Model&", "Model"} -> v.is = "Model" /\ v.n # 0
    [] type = "Tagger"            -> v.is = "Tagger" /\ v.n # 0

Meant(type, v) ==
  CASE type \in {"float", "double"} /\ v.is = "int" -> 2 * v.n
    [] type = "text"                                -> 1
    [] OTHER                                        -> v.n

(* Where a wrapper reads something else into an argument than it says, or  *)
(* lets null pass.                                                         *)
Bent(lang, type, v) ==
  \/ type = "text" /\ v.is = "nil"
  \/ type \in {"Model", "Tagger"} /\ v.is = "nil" /\ lang \in {"Python", "Perl"}
  \/ type \in {"Model", "Tagger"} /\ v.n = 0 /\ lang = "Java"
  \/ type = "size_t" /\ v.is = "int" /\ v.n < 0 /\ lang \in {"Ruby", "Java"}
  \/ type = "unsigned int" /\ v.is = "int" /\ v.n \notin 0 .. Python!UIntMax /\ lang = "Java"
  \/ lang = "Java" /\ IsNumber(type) /\ v.is = "int" /\ v.n \notin Python!LongMin .. Python!LongMax
  \/ lang = "Perl" /\ IsNumber(type) /\ v.is \in {"nil", "blank", "numeral", "padded"}
  \/ lang = "Perl" /\ type \in {"size_t", "unsigned int"} /\ v.is = "real" /\ v.n % 2 = 0

(* A call enters the function of that name that takes so many arguments,   *)
(* with the very values of the script, if they fit its parameters, and is  *)
(* refused otherwise: from every language and for every function, but for  *)
(* the bent arguments above.  A null pointer reaches C++, which checks     *)
(* none, only if the script passed nil itself, or a Java object it had     *)
(* deleted (the stubs of the four wrappers).                               *)
CallsAsDeclared ==
  When("call") =>
    LET c     == case.input
        out   == Called(c)
        stubs == {s \in Python!Declared : s.name = c.name /\ Len(c.argv) = Len(s.args) + 1
                                            /\ (c.lang = "Ruby" => s.class = c.argv[1].is)}
        right(s) == \A i \in DOMAIN c.argv : Fits(TypeOf(s, i), c.argv[i])
        straight == \A s \in stubs : \A i \in DOMAIN c.argv : ~Bent(c.lang, TypeOf(s, i), c.argv[i])
    IN  /\ straight =>
             IF \E s \in stubs : right(s)
             THEN LET s == CHOOSE s \in stubs : right(s)
                  IN  out = Python!Native(c.name,
                              [i \in DOMAIN c.argv |-> Meant(TypeOf(s, i), c.argv[i])])
             ELSE out = Python!Refused
        /\ out.kind = "native" =>
             \A s \in stubs : \A i \in DOMAIN c.argv :
               ~IsNumber(TypeOf(s, i)) /\ out.args[i] = 0
               => c.argv[i].is = "nil" \/ (c.lang = "Java" /\ i = 1)
=============================================================================
