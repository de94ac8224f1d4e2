------------------------------ MODULE ConllEval ------------------------------
(***************************************************************************)
(* The evaluation of the tagger's output, conll-eval.pl: one pass over the *)
(* lines of the output, each with the label of the corpus (correct) and the*)
(* label guessed, that counts the chunks of both and those found in both.  *)
(* The pass looks only at the current line and the previous one; whether   *)
(* the chunk both are in began together it remembers in one flag.          *)
(*                                                                         *)
(* A label is a tag with a type ("B-LOC"); O has none.  An empty line and  *)
(* the boundary marker count as O in both columns but not as tokens.  The  *)
(* options -r, -d and -o, which rewrite the input, are left out, and so are*)
(* the bracket tags of the tables.                                         *)
(***************************************************************************)
EXTENDS Integers, Sequences, FiniteSets

CONSTANTS Type,       \* types of chunks
          MaxLines    \* bound on the lines read

NoType == ""

ASSUME EvalAssumption == {"", "all"} \cap Type = {} /\ MaxLines \in Nat

(* An input keeps to one way of marking: B at a beginning or E at an end.  *)
Scheme == {{"O", "B", "I"}, {"O", "I", "E"}}

Outside == [tag |-> "O", type |-> NoType]
Label   == {Outside} \cup [tag : {"B", "I", "E"}, type : Type]
All     == "all"      \* the counters over all types

VARIABLES phase,      \* read, abort, report
          scheme,     \* how the input is marked
          lastCorrect, lastGuessed,
          inCorrect,
          correctChunk, foundCorrect, foundGuessed,  \* per type, and All
          correctTags, tokenCounter,
          gold, guess \* history: the two columns read

counters == <<correctChunk, foundCorrect, foundGuessed, correctTags, tokenCounter>>
vars == <<phase, scheme, lastCorrect, lastGuessed, inCorrect, counters, gold, guess>>

Counter == Type \cup {All}
None == [t \in Counter |-> 0]

Init == /\ phase = "read" /\ scheme \in Scheme
        /\ lastCorrect = Outside /\ lastGuessed = Outside
        /\ inCorrect = FALSE
        /\ correctChunk = None /\ foundCorrect = None /\ foundGuessed = None
        /\ correctTags = 0 /\ tokenCounter = 0
        /\ gold = <<>> /\ guess = <<>>
-----------------------------------------------------------------------------
(* The tables of endOfChunk and startOfChunk, for the previous and the     *)
(* current label.                                                          *)
EndPair   == {<<"B", "B">>, <<"B", "O">>, <<"I", "B">>, <<"I", "O">>,
              <<"E", "E">>, <<"E", "I">>, <<"E", "O">>}
StartPair == {<<"B", "B">>, <<"I", "B">>, <<"O", "B">>, <<"O", "I">>,
              <<"E", "E">>, <<"E", "I">>, <<"O", "E">>}

EndOfChunk(prev, cur) == \/ <<prev.tag, cur.tag>> \in EndPair
                         \/ prev.tag # "O" /\ prev.type # cur.type

StartNoType(prev, cur) ==                    \* mutant: the types not compared
  <<prev.tag, cur.tag>> \in StartPair

StartOfChunk(prev, cur) == \/ <<prev.tag, cur.tag>> \in StartPair
                           \/ cur.tag # "O" /\ prev.type # cur.type

Count(f, t) == [u \in Counter |-> IF u \in {All, t} THEN f[u] + 1 ELSE f[u]]

(* Both chunks end before this line: the chunk was correct.                *)
BothEnd(c, g) == /\ EndOfChunk(lastCorrect, c)
                 /\ EndOfChunk(lastGuessed, g)
                 /\ lastGuessed.type = lastCorrect.type
BothStart(c, g) == /\ StartOfChunk(lastCorrect, c)
                   /\ StartOfChunk(lastGuessed, g)
                   /\ g.type = c.type

(* The two columns go on together in the chunk they began together.        *)
Stays(c, g) == /\ inCorrect
               /\ ~BothEnd(c, g)
               /\ EndOfChunk(lastCorrect, c) = EndOfChunk(lastGuessed, g)
               /\ g.type = c.type

Line(c, g, token) ==
  /\ phase = "read" /\ Len(gold) < MaxLines
  /\ c.tag \in scheme /\ g.tag \in scheme
  /\ ~token => c = Outside /\ g = Outside
  /\ correctChunk' = IF inCorrect /\ BothEnd(c, g)
                     THEN Count(correctChunk, lastCorrect.type) ELSE correctChunk
  /\ inCorrect' = (Stays(c, g) \/ BothStart(c, g))
  /\ foundCorrect' = IF StartOfChunk(lastCorrect, c)
                     THEN Count(foundCorrect, c.type) ELSE foundCorrect
  /\ foundGuessed' = IF StartOfChunk(lastGuessed, g)
                     THEN Count(foundGuessed, g.type) ELSE foundGuessed
  /\ correctTags' = IF token /\ c = g THEN correctTags + 1 ELSE correctTags
  /\ tokenCounter' = IF token THEN tokenCounter + 1 ELSE tokenCounter
  /\ lastCorrect' = c /\ lastGuessed' = g
  /\ gold' = Append(gold, c) /\ guess' = Append(guess, g)
  /\ UNCHANGED <<phase, scheme>>

(* A line with another number of fields ends the run without a report.     *)
Abort ==
  /\ phase = "read"
  /\ phase' = "abort"
  /\ UNCHANGED <<scheme, lastCorrect, lastGuessed, inCorrect, counters, gold, guess>>

ReportNoFlush ==                             \* mutant: the last chunk forgotten
  /\ phase = "read"
  /\ phase' = "report"
  /\ UNCHANGED <<scheme, lastCorrect, lastGuessed, inCorrect, counters, gold, guess>>

(* The end of the input closes a chunk that is still open in both columns. *)
Report ==
  /\ phase = "read"
  /\ phase' = "report"
  /\ correctChunk' = IF inCorrect THEN Count(correctChunk, lastCorrect.type)
                                  ELSE correctChunk
  /\ UNCHANGED <<scheme, lastCorrect, lastGuessed, inCorrect, foundCorrect, foundGuessed,
                 correctTags, tokenCounter, gold, guess>>

Reported == phase # "read" /\ UNCHANGED vars

Next == \/ \E c, g \in Label, token \in BOOLEAN : Line(c, g, token)
        \/ Abort \/ Report \/ Reported

Spec == Init /\ [][Next]_vars
-----------------------------------------------------------------------------
(* What a chunk is, without the pass: a longest run of labels of one type  *)
(* that no B begins anew and no E ends.                                    *)
Joined(p, c) == p.tag # "O" /\ c.tag # "O" /\ p.type = c.type /\ p.tag # "E" /\ c.tag # "B"

Chunks(s) ==
  {x \in (DOMAIN s) \X (DOMAIN s) :
     /\ x[1] <= x[2] /\ s[x[1]].tag # "O"
     /\ \A k \in x[1]..x[2]-1 : Joined(s[k], s[k+1])
     /\ x[1] = 1      \/ ~Joined(s[x[1]-1], s[x[1]])
     /\ x[2] = Len(s) \/ ~Joined(s[x[2]], s[x[2]+1])}

OfType(s, t) == {x \in Chunks(s) : t = All \/ s[x[1]].type = t}

(* The numbers reported are those of the definition: a chunk is correct    *)
(* when the guess has one of the same type at exactly the same place.      *)
ChunksCounted ==
  phase = "report" =>
    \A t \in Counter :
      /\ foundCorrect[t] = Cardinality(OfType(gold, t))
      /\ foundGuessed[t] = Cardinality(OfType(guess, t))
      /\ correctChunk[t] = Cardinality({x \in OfType(gold, t) \cap OfType(guess, t) :
                                          gold[x[1]].type = guess[x[1]].type})

(* Precision and recall never exceed 100%, overall or of a type: no chunk  *)
(* is counted as correct that was not counted as found in both columns.    *)
AtMostFound ==
  \A t \in Counter : /\ correctChunk[t] <= foundCorrect[t]
                     /\ correctChunk[t] <= foundGuessed[t]
-----------------------------------------------------------------------------
(* The inductive invariant: a chunk both columns are in has been counted   *)
(* as found, of one type, but not yet as correct.                          *)
TypeOK == /\ phase \in {"read", "abort", "report"} /\ scheme \in Scheme
          /\ lastCorrect \in Label /\ lastGuessed \in Label
          /\ inCorrect \in BOOLEAN
          /\ correctChunk \in [Counter -> Nat]
          /\ foundCorrect \in [Counter -> Nat]
          /\ foundGuessed \in [Counter -> Nat]
          /\ correctTags \in Nat /\ tokenCounter \in Nat
          /\ gold \in Seq(Label) /\ guess \in Seq(Label)

Open == phase = "read" /\ inCorrect

SameChunk == Open => /\ lastCorrect.tag # "O" /\ lastGuessed.tag # "O"
                     /\ lastCorrect.type = lastGuessed.type

Pending(t) == IF Open /\ t \in {All, lastCorrect.type} THEN 1 ELSE 0

Ahead == \A t \in Counter : /\ correctChunk[t] + Pending(t) <= foundCorrect[t]
                            /\ correctChunk[t] + Pending(t) <= foundGuessed[t]

IInv == TypeOK /\ SameChunk /\ Ahead

(* What ChunksCounted needs besides, about the columns read so far: the    *)
(* last labels are the last read; a column inside a chunk has one that     *)
(* reaches its end; the flag says that both columns have the same one; and *)
(* each counter holds what the definition of a chunk gives, but that a     *)
(* chunk that is correct so far is counted only when it has ended.         *)
LastOf(s) == IF s = <<>> THEN Outside ELSE s[Len(s)]

HasTail(s) ==
  LastOf(s).tag # "O" =>
    \E a \in DOMAIN s : <<a, Len(s)>> \in Chunks(s) /\ s[a].type = LastOf(s).type

History ==
  /\ Len(guess) = Len(gold)
  /\ lastCorrect = LastOf(gold) /\ lastGuessed = LastOf(guess)
  /\ lastCorrect.tag \in scheme /\ lastGuessed.tag \in scheme
  /\ HasTail(gold) /\ HasTail(guess)

MatchesOf(s, u, t) == {x \in OfType(s, t) \cap OfType(u, t) : s[x[1]].type = u[x[1]].type}
Matches(t) == MatchesOf(gold, guess, t)
Ended(t) == {x \in Matches(t) : x[2] < Len(gold)}

Flag == phase = "read" => (inCorrect <=> \E x \in Matches(All) : x[2] = Len(gold))

Tallied ==
  \A t \in Counter :
    /\ foundCorrect[t] = Cardinality(OfType(gold, t))
    /\ foundGuessed[t] = Cardinality(OfType(guess, t))
    /\ phase = "read"   => correctChunk[t] = Cardinality(Ended(t))
    /\ phase = "report" => correctChunk[t] = Cardinality(Matches(t))

Tally == History /\ Flag /\ Tallied
=============================================================================
