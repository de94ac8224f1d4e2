--------------------------- MODULE SequentialProofs --------------------------
(***************************************************************************)
(* The sequential algorithms for inputs of any length: the evaluator, for  *)
(* every set of types and both ways to mark chunks; the double array, for  *)
(* every alphabet, every ordered sequence of keys and every word; the      *)
(* command line, for every table of options and every line; the chunker    *)
(* and the extractor of the Java pipeline, for every file of rows; the     *)
(* text of a model and what convert makes of it, for every model; and the  *)
(* calls of the wrappers, for every width and every value of a script.     *)
(*                                                                         *)
(* The double array: what fetch finds are the next codes of a word and the *)
(* keys behind each (Fetched).  An insertion leaves what was there alone   *)
(* (Extends) and lays every node below (Laid): the slots that bear its     *)
(* begin are those of its codes, and lead to the begins of its children or *)
(* hold the value of its key.  By induction over the brothers (FiledTo)    *)
(* and over the height (AllInserted) the whole trie is laid (Built), and   *)
(* a walk meets the begin of every prefix that leads to a key.             *)
(*                                                                         *)
(* The chunker: after word i the chunks done and the one still open are    *)
(* the places of the labels B before (Marked, Opened).  The extractor: a   *)
(* row loaded is the line of its rank (At, Place), and if no sentence      *)
(* begins inside an entity, rows of one entity are neighbouring lines      *)
(* (RunOfLines): entities of rows and entities of lines are one to one.    *)
(*                                                                         *)
(* A call: each table of stubs is the declarations of crfpp.h (DeclaredIs, *)
(* PythonTableIs), at most one stub takes the values of a call (OneRight), *)
(* and each conversion makes the value itself or nothing (Straight).       *)
(***************************************************************************)
EXTENDS ConllEval, Algorithms, FiniteSetTheorems, WellFoundedInduction, TLAPS

(* What one more chunk of type t does to the counters.                     *)
LEMMA CountOne ==
  ASSUME NEW f \in [Counter -> Nat], NEW t \in Type
  PROVE  /\ Count(f, t) \in [Counter -> Nat]
         /\ \A u \in Counter :
              Count(f, t)[u] = f[u] + (IF u \in {All, t} THEN 1 ELSE 0)
BY DEF Count

LEMMA LabelOf ==
  ASSUME NEW c \in Label
  PROVE  c.tag # "O" => c.type \in Type
BY DEF Label, Outside

(* A chunk starts only at a label inside one.                              *)
LEMMA StartsInside ==
  ASSUME NEW p, NEW c, StartOfChunk(p, c)
  PROVE  c.tag # "O"
BY DEF StartOfChunk, StartPair

(* A chunk that does not end goes on with the same type.                   *)
LEMMA GoesOn ==
  ASSUME NEW p \in Label, NEW c \in Label, p.tag # "O", ~EndOfChunk(p, c)
  PROVE  c.tag # "O" /\ c.type = p.type
<1>1. p.type \in Type /\ c.type = p.type
  BY LabelOf DEF EndOfChunk
<1>2. c.tag = "O" => c = Outside
  BY DEF Label
<1>3. Outside.type \notin Type
  BY EvalAssumption DEF Outside, NoType
<1> QED BY <1>1, <1>2, <1>3

(* The counters of found chunks never go down, and stay numbers.           *)
LEMMA FoundGrows ==
  ASSUME TypeOK, NEW c \in Label, NEW g \in Label, NEW token \in BOOLEAN,
         Line(c, g, token)
  PROVE  /\ foundCorrect' \in [Counter -> Nat]
         /\ \A t \in Counter : foundCorrect[t] <= foundCorrect'[t]
         /\ foundGuessed' \in [Counter -> Nat]
         /\ \A t \in Counter : foundGuessed[t] <= foundGuessed'[t]
<1>1. /\ foundCorrect \in [Counter -> Nat] /\ foundGuessed \in [Counter -> Nat]
  BY DEF TypeOK
<1>2. ASSUME NEW f \in [Counter -> Nat], NEW t \in Type
      PROVE  /\ Count(f, t) \in [Counter -> Nat]
             /\ \A u \in Counter : f[u] <= Count(f, t)[u]
  BY CountOne
<1>3. /\ \/ foundCorrect' = foundCorrect
         \/ c.type \in Type /\ foundCorrect' = Count(foundCorrect, c.type)
      /\ \/ foundGuessed' = foundGuessed
         \/ g.type \in Type /\ foundGuessed' = Count(foundGuessed, g.type)
  BY StartsInside, LabelOf DEF Line
<1>4. /\ foundCorrect' \in [Counter -> Nat]
      /\ \A t \in Counter : foundCorrect[t] <= foundCorrect'[t]
  BY <1>1, <1>2, <1>3
<1>5. /\ foundGuessed' \in [Counter -> Nat]
      /\ \A t \in Counter : foundGuessed[t] <= foundGuessed'[t]
  BY <1>1, <1>2, <1>3
<1> QED BY <1>4, <1>5

LEMMA LineKeepsType ==
  ASSUME TypeOK, NEW c \in Label, NEW g \in Label, NEW token \in BOOLEAN,
         SameChunk, Line(c, g, token)
  PROVE  TypeOK'
<1>1. inCorrect => lastCorrect.type \in Type
  BY LabelOf DEF TypeOK, SameChunk, Open, Line
<1>2. correctChunk' \in [Counter -> Nat]
  BY <1>1, CountOne DEF TypeOK, Line
<1>3. foundCorrect' \in [Counter -> Nat]
  BY FoundGrows
<1>4. foundGuessed' \in [Counter -> Nat]
  BY FoundGrows
<1>5. inCorrect' \in BOOLEAN
  BY DEF Line, Stays, BothStart
<1>6. correctTags' \in Nat /\ tokenCounter' \in Nat
  BY DEF Line, TypeOK
<1>7. gold' \in Seq(Label) /\ guess' \in Seq(Label)
  BY DEF Line, TypeOK
<1>8. lastCorrect' \in Label /\ lastGuessed' \in Label
  BY DEF Line, TypeOK
<1>9. phase' = "read" /\ scheme' \in Scheme
  BY DEF Line, TypeOK
<1> QED BY <1>2, <1>3, <1>4, <1>5, <1>6, <1>7, <1>8, <1>9 DEF TypeOK

(* A line keeps every counter ahead: a chunk counted as correct was the    *)
(* pending one, and a pending one is counted as found when it starts.      *)
LEMMA LineKeepsAhead ==
  ASSUME TypeOK, NEW c \in Label, NEW g \in Label, NEW token \in BOOLEAN,
         SameChunk, Ahead, Line(c, g, token)
  PROVE  SameChunk' /\ Ahead'
<1>0. phase = "read" /\ phase' = "read" /\ lastCorrect' = c /\ lastGuessed' = g
  BY DEF Line
<1>1. CASE Stays(c, g)
  <2>1. inCorrect /\ lastCorrect.tag # "O" /\ lastGuessed.tag # "O"
        /\ lastCorrect.type = lastGuessed.type
    BY <1>0, <1>1 DEF Stays, SameChunk, Open
  <2>2. ~EndOfChunk(lastCorrect, c) /\ ~EndOfChunk(lastGuessed, g)
    BY <1>1, <2>1 DEF Stays, BothEnd
  <2>3. /\ c.tag # "O" /\ c.type = lastCorrect.type
        /\ g.tag # "O" /\ g.type = c.type
    BY <2>1, <2>2, GoesOn DEF TypeOK
  <2>4. SameChunk'
    BY <1>0, <2>3 DEF SameChunk
  <2>5. correctChunk' = correctChunk
    BY <1>1 DEF Line, Stays
  <2>6. \A t \in Counter : Pending(t)' <= Pending(t)
    BY <1>0, <2>1, <2>3 DEF Pending, Open
  <2>7. \A t \in Counter : Pending(t) \in Nat /\ Pending(t)' \in Nat
    BY DEF Pending
  <2>8. \A t \in Counter : /\ foundCorrect[t] <= foundCorrect'[t]
                           /\ foundGuessed[t] <= foundGuessed'[t]
    BY FoundGrows
  <2>9. TypeOK'
    BY LineKeepsType
  <2>10. Ahead'
    BY <2>5, <2>6, <2>7, <2>8, <2>9 DEF Ahead, TypeOK
  <2> QED BY <2>4, <2>10
<1>2. CASE ~Stays(c, g)
  <2>0. TypeOK'
    BY LineKeepsType
  <2>1. inCorrect' = BothStart(c, g)
    BY <1>2 DEF Line, Stays, BothStart
  <2>2. SameChunk'
    BY <1>0, <2>1, StartsInside DEF SameChunk, Open, BothStart
  <2>3. \A t \in Counter : correctChunk'[t] <= correctChunk[t] + Pending(t)
    <3>1. CASE inCorrect /\ BothEnd(c, g)
      <4>1. lastCorrect.type \in Type
        BY <1>0, <3>1, LabelOf DEF TypeOK, SameChunk, Open
      <4>2. correctChunk' = Count(correctChunk, lastCorrect.type)
        BY <3>1 DEF Line
      <4>3. \A t \in Counter : Pending(t) = IF t \in {All, lastCorrect.type} THEN 1 ELSE 0
        BY <1>0, <3>1 DEF Pending, Open
      <4>4. correctChunk \in [Counter -> Nat]
        BY DEF TypeOK
      <4>5. \A t \in Counter : correctChunk'[t] = correctChunk[t] + Pending(t)
        BY <4>1, <4>2, <4>3, <4>4, CountOne
      <4> QED BY <4>3, <4>4, <4>5
    <3>2. CASE ~(inCorrect /\ BothEnd(c, g))
      BY <3>2 DEF Line, TypeOK, Pending
    <3> QED BY <3>1, <3>2
  <2>4. \A t \in Counter : /\ foundCorrect[t] + Pending(t)' <= foundCorrect'[t]
                           /\ foundGuessed[t] + Pending(t)' <= foundGuessed'[t]
    <3>1. CASE BothStart(c, g)
      <4>1. c.type \in Type /\ g.type = c.type
        BY <3>1, StartsInside, LabelOf DEF BothStart
      <4>2. /\ foundCorrect' = Count(foundCorrect, c.type)
            /\ foundGuessed' = Count(foundGuessed, c.type)
        BY <3>1, <4>1 DEF Line, BothStart
      <4>3. \A t \in Counter : Pending(t)' = IF t \in {All, c.type} THEN 1 ELSE 0
        BY <1>0, <2>1, <3>1 DEF Pending, Open
      <4>4. /\ foundCorrect \in [Counter -> Nat] /\ foundGuessed \in [Counter -> Nat]
        BY DEF TypeOK
      <4>5. \A t \in Counter : foundCorrect'[t] = foundCorrect[t] + Pending(t)'
        BY <4>1, <4>2, <4>3, <4>4, CountOne
      <4>6. \A t \in Counter : foundGuessed'[t] = foundGuessed[t] + Pending(t)'
        BY <4>1, <4>2, <4>3, <4>4, CountOne
      <4> QED BY <2>0, <4>5, <4>6 DEF TypeOK
    <3>2. CASE ~BothStart(c, g)
      <4>1. \A t \in Counter : Pending(t)' = 0
        BY <2>1, <3>2 DEF Pending, Open
      <4>2. \A t \in Counter : /\ foundCorrect[t] <= foundCorrect'[t]
                               /\ foundGuessed[t] <= foundGuessed'[t]
        BY FoundGrows
      <4> QED BY <2>0, <4>1, <4>2 DEF TypeOK
    <3> QED BY <3>1, <3>2
  <2>5. \A t \in Counter : Pending(t) \in Nat /\ Pending(t)' \in Nat
    BY DEF Pending
  <2> QED BY <2>0, <2>2, <2>3, <2>4, <2>5 DEF Ahead, TypeOK
<1> QED BY <1>1, <1>2

LEMMA ReportKeeps ==
  ASSUME TypeOK, SameChunk, Ahead, Report
  PROVE  IInv'
<1>1. phase = "read" /\ ~Open' /\ \A t \in Counter : Pending(t)' = 0
  BY DEF Report, Open, Pending
<1>2. inCorrect => lastCorrect.type \in Type
  BY <1>1, LabelOf DEF TypeOK, SameChunk, Open
<1>3. correctChunk' \in [Counter -> Nat]
  BY <1>2, CountOne DEF TypeOK, Report
<1>4. TypeOK'
  BY <1>3 DEF TypeOK, Report
<1>5. \A t \in Counter : correctChunk'[t] = correctChunk[t] + Pending(t)
  <2>1. CASE inCorrect
    <3>1. \A t \in Counter : Pending(t) = IF t \in {All, lastCorrect.type} THEN 1 ELSE 0
      BY <1>1, <2>1 DEF Pending, Open
    <3>2. correctChunk' = Count(correctChunk, lastCorrect.type)
      BY <2>1 DEF Report
    <3>3. correctChunk \in [Counter -> Nat]
      BY DEF TypeOK
    <3> QED BY <1>2, <2>1, <3>1, <3>2, <3>3, CountOne
  <2>2. CASE ~inCorrect
    BY <2>2 DEF Report, Pending, Open, TypeOK
  <2> QED BY <2>1, <2>2
<1>6. Ahead'
  BY <1>1, <1>4, <1>5 DEF Ahead, TypeOK, Report
<1>7. SameChunk'
  BY <1>1 DEF SameChunk
<1> QED BY <1>4, <1>6, <1>7 DEF IInv

(* The inductive invariant: a pending chunk is in both found counters and  *)
(* not yet in the correct one (lines 148-177).                             *)
THEOREM Inductive == Spec => []IInv
<1>1. Init => IInv
  <2> SUFFICES ASSUME Init PROVE IInv
    OBVIOUS
  <2>1. TypeOK
    <3>1. None \in [Counter -> Nat]
      BY DEF None
    <3>2. Outside \in Label /\ <<>> \in Seq(Label)
      BY DEF Label
    <3> QED BY <3>1, <3>2 DEF Init, TypeOK
  <2>2. SameChunk /\ \A t \in Counter : Pending(t) = 0
    BY DEF Init, SameChunk, Open, Pending
  <2>3. Ahead
    BY <2>2 DEF Init, None, Ahead
  <2> QED BY <2>1, <2>2, <2>3 DEF IInv
<1>2. ASSUME IInv, [Next]_vars PROVE IInv'
  <2>0. TypeOK /\ SameChunk /\ Ahead
    BY <1>2 DEF IInv
  <2>1. CASE \E c, g \in Label, token \in BOOLEAN : Line(c, g, token)
    <3> PICK c \in Label, g \in Label, token \in BOOLEAN : Line(c, g, token)
      BY <2>1
    <3> QED BY <2>0, LineKeepsType, LineKeepsAhead DEF IInv
  <2>2. CASE Report
    BY <2>0, <2>2, ReportKeeps
  <2>4. CASE Abort
    <3>1. TypeOK' /\ ~Open'
      BY <2>0, <2>4 DEF Abort, counters, TypeOK, Open
    <3>2. \A t \in Counter : Pending(t)' = 0 /\ Pending(t) \in Nat
      BY <3>1 DEF Pending
    <3>3. Ahead'
      BY <2>0, <2>4, <3>2 DEF Abort, counters, Ahead, TypeOK
    <3> QED BY <3>1, <3>3 DEF IInv, SameChunk
  <2>3. CASE UNCHANGED vars
    <3>1. TypeOK' /\ Open' = Open
      BY <2>0, <2>3 DEF vars, counters, TypeOK, Open
    <3>2. SameChunk'
      BY <2>0, <2>3, <3>1 DEF vars, counters, SameChunk
    <3>3. Ahead'
      BY <2>0, <2>3, <3>1 DEF vars, counters, Ahead, Pending
    <3> QED BY <3>1, <3>2, <3>3 DEF IInv
  <2> QED BY <1>2, <2>1, <2>2, <2>3, <2>4 DEF Next, Reported
<1> QED BY <1>1, <1>2, PTL DEF Spec

(* No chunk is reported as correct that was not counted in both columns,   *)
(* so that precision and recall stay within 100% (lines 148-200).          *)
THEOREM NeverAboveFound == Spec => []AtMostFound
<1>1. IInv => AtMostFound
  <2> SUFFICES ASSUME IInv, NEW t \in Counter
               PROVE  /\ correctChunk[t] <= foundCorrect[t]
                      /\ correctChunk[t] <= foundGuessed[t]
    BY DEF AtMostFound
  <2>1. Pending(t) \in Nat
    BY DEF Pending
  <2> QED BY <2>1 DEF IInv, TypeOK, Ahead
<1> QED BY <1>1, Inductive, PTL
-----------------------------------------------------------------------------
(* The tables of the code against the definition of a chunk: within one    *)
(* way of marking, a label ends the chunk before it exactly when it is not *)
(* joined to it, and starts one exactly when it is joined to nothing.      *)
LEMMA Tables ==
  ASSUME NEW s \in Scheme, NEW p \in Label, NEW c \in Label, p.tag \in s, c.tag \in s
  PROVE  /\ EndOfChunk(p, c) <=> p.tag # "O" /\ ~Joined(p, c)
         /\ StartOfChunk(p, c) <=> c.tag # "O" /\ ~Joined(p, c)
<1>0. ASSUME NEW l \in Label
      PROVE  /\ l.tag = "O" => l.type = ""
             /\ l.tag # "O" => l.type \in Type
  <2>1. l.tag = "O" => l = Outside
    BY DEF Label
  <2>2. Outside.type = ""
    BY DEF Outside, NoType
  <2>3. l.tag = "O" => l.type = ""
    BY <2>1, <2>2
  <2>4. l.tag # "O" => l.type \in Type
    BY LabelOf
  <2> QED BY <2>3, <2>4
<1>1. /\ p.tag = "O" => p.type = ""
      /\ c.tag = "O" => c.type = ""
      /\ p.tag # "O" => p.type \in Type
      /\ c.tag # "O" => c.type \in Type
      /\ "" \notin Type
  BY <1>0, EvalAssumption
<1>2. CASE s = {"O", "B", "I"}
  BY <1>1, <1>2 DEF EndOfChunk, StartOfChunk, EndPair, StartPair, Joined
<1>3. CASE s = {"O", "I", "E"}
  BY <1>1, <1>3 DEF EndOfChunk, StartOfChunk, EndPair, StartPair, Joined
<1> QED BY <1>2, <1>3 DEF Scheme

(* Membership in Chunks, for the two ends of a chunk.                      *)
IsChunk(s, a, b) ==
  /\ a \in DOMAIN s /\ b \in DOMAIN s /\ a <= b
  /\ s[a].tag # "O"
  /\ \A k \in a..b-1 : Joined(s[k], s[k+1])
  /\ a = 1      \/ ~Joined(s[a-1], s[a])
  /\ b = Len(s) \/ ~Joined(s[b], s[b+1])

LEMMA ChunkEnds ==
  ASSUME NEW s
  PROVE  /\ \A a, b : <<a, b>> \in Chunks(s) <=> IsChunk(s, a, b)
         /\ \A x \in Chunks(s) : x = <<x[1], x[2]>> /\ IsChunk(s, x[1], x[2])
BY DEF Chunks, IsChunk

(* At most one chunk reaches the end of a column.                          *)
LEMMA OneTail ==
  ASSUME NEW s \in Seq(Label), NEW a, NEW b,
         IsChunk(s, a, Len(s)), IsChunk(s, b, Len(s))
  PROVE  a = b
<1>1. a \in Nat /\ b \in Nat /\ Len(s) \in Nat /\ a >= 1 /\ b >= 1
  BY DEF IsChunk
<1>2. ASSUME NEW x \in DOMAIN s, NEW y \in DOMAIN s, x < y,
             IsChunk(s, x, Len(s)), IsChunk(s, y, Len(s)) PROVE FALSE
  <2>1. y - 1 \in x..Len(s)-1 /\ y # 1 /\ y - 1 + 1 = y
    BY <1>1, <1>2
  <2> QED BY <1>2, <2>1 DEF IsChunk
<1>3. a \in DOMAIN s /\ b \in DOMAIN s
  BY DEF IsChunk
<1>4. ~(a < b) /\ ~(b < a)
  BY <1>2, <1>3
<1> QED BY <1>1, <1>4

(* One more label: the chunks that had ended stay, the one at the end      *)
(* stays or grows, and a new one may start.                                *)
LEMMA NextLabel ==
  ASSUME NEW s \in Seq(Label), NEW c \in Label
  PROVE  LET n == Len(s)
             u == Append(s, c)
         IN  /\ \A a, b : b < n => (IsChunk(u, a, b) <=> IsChunk(s, a, b))
             /\ \A a : IsChunk(u, a, n) <=> IsChunk(s, a, n) /\ ~Joined(LastOf(s), c)
             /\ \A a : IsChunk(u, a, n + 1) <=>
                         \/ a = n + 1 /\ c.tag # "O" /\ ~Joined(LastOf(s), c)
                         \/ IsChunk(s, a, n) /\ Joined(LastOf(s), c)
<1> DEFINE n == Len(s)
           u == Append(s, c)
<1>1. /\ n \in Nat /\ u \in Seq(Label) /\ Len(u) = n + 1 /\ DOMAIN u = 1..n+1
      /\ DOMAIN s = 1..n /\ u[n+1] = c /\ \A k \in 1..n : u[k] = s[k]
  OBVIOUS
<1> HIDE DEF n, u
<1>2. LastOf(s) = IF n = 0 THEN Outside ELSE s[n]
  BY DEF LastOf, n
<1>3. ASSUME NEW a, NEW b, b < n PROVE IsChunk(u, a, b) <=> IsChunk(s, a, b)
  <2>1. CASE b \in 1..n /\ a \in 1..n /\ a <= b
    <3>1. \A k \in a..b : k \in 1..n /\ k + 1 \in 1..n /\ u[k] = s[k] /\ u[k+1] = s[k+1]
      BY <1>1, <1>3, <2>1
    <3>2. a # 1 => u[a-1] = s[a-1]
      BY <1>1, <2>1
    <3>3. a \in a..b /\ b \in a..b
      BY <2>1
    <3>4. \A k \in a..b-1 : k \in a..b
      BY <2>1
    <3>5. b # Len(u) /\ b # Len(s)
      BY <1>1, <1>3, <2>1 DEF n
    <3> HIDE DEF IsChunk
    <3>6. (\A k \in a..b-1 : Joined(u[k], u[k+1])) <=> (\A k \in a..b-1 : Joined(s[k], s[k+1]))
      BY <3>1, <3>4
    <3> QED BY <1>1, <2>1, <3>1, <3>2, <3>3, <3>5, <3>6 DEF IsChunk
  <2>2. CASE ~(b \in 1..n /\ a \in 1..n /\ a <= b)
    BY <1>1, <1>3, <2>2 DEF IsChunk
  <2> QED BY <2>1, <2>2
<1>4. ASSUME NEW a PROVE IsChunk(u, a, n) <=> IsChunk(s, a, n) /\ ~Joined(LastOf(s), c)
  <2>1. CASE n # 0 /\ a \in 1..n
    <3>1. \A k \in a..n-1 : k \in 1..n /\ k + 1 \in 1..n /\ u[k] = s[k] /\ u[k+1] = s[k+1]
      BY <1>1, <2>1
    <3>2. (\A k \in a..n-1 : Joined(u[k], u[k+1])) <=> (\A k \in a..n-1 : Joined(s[k], s[k+1]))
      BY <3>1
    <3>3. a # 1 => u[a-1] = s[a-1]
      BY <1>1, <2>1
    <3>4. u[n] = s[n] /\ u[n+1] = c /\ LastOf(s) = s[n] /\ u[a] = s[a] /\ n # Len(u)
      BY <1>1, <1>2, <2>1
    <3>5. IsChunk(u, a, n) <=> /\ u[a].tag # "O"
                               /\ \A k \in a..n-1 : Joined(u[k], u[k+1])
                               /\ a = 1 \/ ~Joined(u[a-1], u[a])
                               /\ ~Joined(u[n], u[n+1])
      BY <1>1, <2>1, <3>4 DEF IsChunk
    <3>6. IsChunk(s, a, n) <=> /\ s[a].tag # "O"
                               /\ \A k \in a..n-1 : Joined(s[k], s[k+1])
                               /\ a = 1 \/ ~Joined(s[a-1], s[a])
      BY <1>1, <2>1 DEF IsChunk, n
    <3> QED BY <3>2, <3>3, <3>4, <3>5, <3>6
  <2>2. CASE ~(n # 0 /\ a \in 1..n)
    BY <1>1, <2>2 DEF IsChunk
  <2> QED BY <2>1, <2>2
<1>5. ASSUME NEW a
      PROVE  IsChunk(u, a, n + 1) <=> \/ a = n + 1 /\ c.tag # "O" /\ ~Joined(LastOf(s), c)
                                      \/ IsChunk(s, a, n) /\ Joined(LastOf(s), c)
  <2>1. CASE a = n + 1
    <3>1. ~IsChunk(s, a, n)
      BY <1>1, <2>1 DEF IsChunk
    <3>2. n = 0 => ~Joined(LastOf(s), c)
      BY <1>2 DEF Joined, Outside
    <3>3. n # 0 => u[a-1] = LastOf(s)
      BY <1>1, <1>2, <2>1
    <3>4. a..(n+1)-1 = {}
      BY <1>1, <2>1
    <3> QED BY <1>1, <2>1, <3>1, <3>2, <3>3, <3>4 DEF IsChunk
  <2>2. CASE a \in 1..n
    <3>1. \A k \in a..n-1 : k \in 1..n /\ k + 1 \in 1..n /\ u[k] = s[k] /\ u[k+1] = s[k+1]
      BY <1>1, <2>2
    <3>2. /\ n \in a..n /\ n \in a..(n+1)-1 /\ u[n] = s[n] /\ LastOf(s) = s[n] /\ u[n+1] = c
          /\ \A k \in a..(n+1)-1 : k = n \/ k \in a..n-1
          /\ \A k \in a..n-1 : k \in a..(n+1)-1
      BY <1>1, <1>2, <2>2
    <3>3. (\A k \in a..(n+1)-1 : Joined(u[k], u[k+1]))
            <=> (\A k \in a..n-1 : Joined(s[k], s[k+1])) /\ Joined(LastOf(s), c)
      BY <3>1, <3>2
    <3>4. a # 1 => u[a-1] = s[a-1]
      BY <1>1, <2>2
    <3>5. IsChunk(u, a, n + 1) <=> /\ u[a].tag # "O"
                                   /\ \A k \in a..(n+1)-1 : Joined(u[k], u[k+1])
                                   /\ a = 1 \/ ~Joined(u[a-1], u[a])
      BY <1>1, <2>2 DEF IsChunk
    <3>6. IsChunk(s, a, n) <=> /\ s[a].tag # "O"
                               /\ \A k \in a..n-1 : Joined(s[k], s[k+1])
                               /\ a = 1 \/ ~Joined(s[a-1], s[a])
      BY <1>1, <2>2 DEF IsChunk, n
    <3>7. a # n + 1 /\ u[a] = s[a]
      BY <1>1, <2>2
    <3> QED BY <3>3, <3>4, <3>5, <3>6, <3>7
  <2>3. CASE a \notin 1..n+1
    BY <1>1, <2>3 DEF IsChunk
  <2> QED BY <1>1, <2>1, <2>2, <2>3
<1> QED BY <1>3, <1>4, <1>5 DEF n, u

LEMMA ChunksOfType ==
  ASSUME NEW s \in Seq(Label), NEW t
  PROVE  /\ \A a, b : <<a, b>> \in OfType(s, t) <=>
                        IsChunk(s, a, b) /\ (t = All \/ s[a].type = t)
         /\ \A x \in OfType(s, t) : x = <<x[1], x[2]>> /\ IsChunk(s, x[1], x[2])
         /\ IsFiniteSet(OfType(s, t)) /\ Cardinality(OfType(s, t)) \in Nat
<1>1. /\ \A a, b : <<a, b>>[1] = a
      /\ \A a, b : <<a, b>> \in Chunks(s) <=> IsChunk(s, a, b)
      /\ \A x \in Chunks(s) : x = <<x[1], x[2]>> /\ IsChunk(s, x[1], x[2])
  BY ChunkEnds
<1>2. IsFiniteSet(Chunks(s))
  <2>1. DOMAIN s = 1..Len(s) /\ Len(s) \in Nat
    OBVIOUS
  <2>2. IsFiniteSet(DOMAIN s)
    BY <2>1, FS_Interval
  <2>3. IsFiniteSet((DOMAIN s) \X (DOMAIN s))
    BY <2>2, FS_Product
  <2>4. Chunks(s) \in SUBSET ((DOMAIN s) \X (DOMAIN s))
    BY DEF Chunks
  <2> QED BY <2>3, <2>4, FS_Subset
<1>3. OfType(s, t) \in SUBSET Chunks(s)
  BY DEF OfType
<1>4. IsFiniteSet(OfType(s, t))
  BY <1>2, <1>3, FS_Subset
<1>5. Cardinality(OfType(s, t)) \in Nat
  BY <1>4, FS_CardinalityType
<1> QED BY <1>1, <1>3, <1>4, <1>5 DEF OfType

(* Two sets of pairs are equal when they have the same pairs.              *)
LEMMA SamePairs ==
  ASSUME NEW X, NEW Z, \A x \in X : x = <<x[1], x[2]>>, \A x \in Z : x = <<x[1], x[2]>>,
         \A a, b : <<a, b>> \in X <=> <<a, b>> \in Z
  PROVE  X = Z
<1>1. \A x \in X : x \in Z
  OBVIOUS
<1>2. \A x \in Z : x \in X
  OBVIOUS
<1> QED BY <1>1, <1>2

(* One more label adds a chunk exactly when it starts one.                 *)
LEMMA CountNext ==
  ASSUME NEW s \in Seq(Label), HasTail(s), NEW c \in Label, NEW t
  PROVE  /\ Cardinality(OfType(Append(s, c), t)) = Cardinality(OfType(s, t)) +
              IF c.tag # "O" /\ ~Joined(LastOf(s), c) /\ t \in {All, c.type} THEN 1 ELSE 0
         /\ HasTail(Append(s, c))
<1> DEFINE n == Len(s)
           u == Append(s, c)
           A == OfType(s, t)
           B == OfType(u, t)
           start == c.tag # "O" /\ ~Joined(LastOf(s), c)
<1>1. /\ n \in Nat /\ u \in Seq(Label) /\ Len(u) = n + 1
      /\ u[n+1] = c /\ LastOf(u) = c /\ \A k \in 1..n : u[k] = s[k]
      /\ DOMAIN u = 1..n+1 /\ DOMAIN s = 1..n
  BY DEF LastOf
<1>2. /\ \A a, b : b < n => (IsChunk(u, a, b) <=> IsChunk(s, a, b))
      /\ \A a : IsChunk(u, a, n) <=> IsChunk(s, a, n) /\ ~Joined(LastOf(s), c)
      /\ \A a : IsChunk(u, a, n + 1) <=> \/ a = n + 1 /\ start
                                         \/ IsChunk(s, a, n) /\ Joined(LastOf(s), c)
  BY NextLabel
<1>3. /\ \A a, b : IsChunk(s, a, b) => a \in 1..n /\ b \in 1..n
      /\ \A a, b : IsChunk(u, a, b) => a \in 1..n+1 /\ b \in 1..n+1
  BY <1>1 DEF IsChunk
<1>4. /\ \A a, b : <<a, b>> \in A <=> IsChunk(s, a, b) /\ (t = All \/ s[a].type = t)
      /\ \A x \in A : x = <<x[1], x[2]>>
      /\ IsFiniteSet(A) /\ Cardinality(A) \in Nat
  BY ChunksOfType
<1>5. /\ \A a, b : <<a, b>> \in B <=> IsChunk(u, a, b) /\ (t = All \/ u[a].type = t)
      /\ \A x \in B : x = <<x[1], x[2]>>
  BY <1>1, ChunksOfType
<1>6. Joined(LastOf(s), c) => c.tag # "O" /\ LastOf(s).tag # "O" /\ c.type = LastOf(s).type
  BY DEF Joined
<1> HIDE DEF A, B, u, n
<1>7. CASE Joined(LastOf(s), c)
  <2>1. PICK a \in 1..n : IsChunk(s, a, n) /\ s[a].type = LastOf(s).type
    BY <1>1, <1>6, <1>7, ChunkEnds DEF HasTail, n
  <2>2. \A e : IsChunk(s, e, n) => e = a
    BY <2>1, OneTail DEF n
  <2>3. IsChunk(u, a, n + 1) /\ u[a].type = c.type
    BY <1>1, <1>2, <1>6, <1>7, <2>1
  <2>4. HasTail(u)
    BY <1>1, <2>3, ChunkEnds DEF HasTail
  <2>5. Cardinality(B) = Cardinality(A)
    <3>1. CASE t = All \/ s[a].type = t
      <4>1. B = (A \ {<<a, n>>}) \cup {<<a, n + 1>>}
        <5>1. \A p, q : <<p, q>> \in B <=> <<p, q>> \in (A \ {<<a, n>>}) \cup {<<a, n + 1>>}
          <6> TAKE p, q
          <6>1. CASE p \in 1..n+1 /\ q \in 1..n+1
            <7>1. CASE q < n
              <8>1. IsChunk(u, p, q) <=> IsChunk(s, p, q)
                BY <1>2, <7>1
              <8>2. IsChunk(s, p, q) => u[p] = s[p]
                BY <1>1, <1>3
              <8>3. <<p, q>> # <<a, n>> /\ <<p, q>> # <<a, n + 1>>
                BY <1>1, <6>1, <7>1
              <8> QED BY <1>4, <1>5, <8>1, <8>2, <8>3
            <7>2. CASE q = n
              <8>1. ~IsChunk(u, p, q)
                BY <1>2, <1>7, <7>2
              <8>2. IsChunk(s, p, q) => p = a
                BY <2>2, <7>2
              <8>3. <<p, q>> # <<a, n + 1>>
                BY <1>1, <7>2
              <8> QED BY <1>4, <1>5, <7>2, <8>1, <8>2, <8>3
            <7>3. CASE q = n + 1
              <8>1. IsChunk(u, p, q) <=> p = a
                BY <1>2, <1>7, <2>1, <2>2, <7>3
              <8>2. ~IsChunk(s, p, q)
                BY <1>1, <1>3, <7>3
              <8>3. u[a].type = s[a].type
                BY <1>1, <2>1
              <8> QED BY <1>4, <1>5, <3>1, <7>3, <8>1, <8>2, <8>3
            <7> QED BY <1>1, <6>1, <7>1, <7>2, <7>3
          <6>2. CASE ~(p \in 1..n+1 /\ q \in 1..n+1)
            <7>1. ~IsChunk(u, p, q) /\ ~IsChunk(s, p, q)
              BY <1>1, <1>3, <6>2
            <7>2. <<p, q>> # <<a, n + 1>>
              BY <1>1, <2>1, <6>2
            <7> QED BY <1>4, <1>5, <7>1, <7>2
          <6> QED BY <6>1, <6>2
        <5>2. \A x \in (A \ {<<a, n>>}) \cup {<<a, n + 1>>} : x = <<x[1], x[2]>>
          BY <1>4
        <5> QED BY <1>5, <5>1, <5>2, SamePairs
      <4>2. <<a, n>> \in A /\ <<a, n + 1>> \notin A
        BY <1>1, <1>3, <1>4, <2>1, <3>1
      <4>3. IsFiniteSet(A \ {<<a, n>>}) /\ Cardinality(A \ {<<a, n>>}) = Cardinality(A) - 1
        BY <1>4, <4>2, FS_RemoveElement
      <4>4. <<a, n + 1>> \notin A \ {<<a, n>>}
        BY <4>2
      <4>5. Cardinality(B) = Cardinality(A \ {<<a, n>>}) + 1
        BY <4>1, <4>3, <4>4, FS_AddElement
      <4> QED BY <1>4, <4>3, <4>5
    <3>2. CASE ~(t = All \/ s[a].type = t)
      <4>1. \A p, q : <<p, q>> \in B <=> <<p, q>> \in A
        <5> TAKE p, q
        <5>1. u[a].type = s[a].type
          BY <1>1, <2>1
        <5>2. CASE q < n
          BY <1>1, <1>2, <1>3, <1>4, <1>5, <5>2
        <5>3. CASE q = n
          BY <1>2, <1>4, <1>5, <1>7, <2>2, <3>2, <5>3
        <5>4. CASE q = n + 1
          <6>1. IsChunk(u, p, q) => p = a
            BY <1>2, <1>7, <2>2, <5>4
          <6>2. ~IsChunk(s, p, q)
            BY <1>1, <1>3, <5>4
          <6> QED BY <1>4, <1>5, <3>2, <5>1, <6>1, <6>2
        <5>5. CASE q \notin 1..n+1
          BY <1>1, <1>3, <1>4, <1>5, <5>5
        <5> QED BY <1>1, <5>2, <5>3, <5>4, <5>5
      <4> QED BY <1>4, <1>5, <4>1, SamePairs
    <3> QED BY <3>1, <3>2
  <2> QED BY <1>4, <1>7, <2>4, <2>5 DEF u, A, B
<1>8. CASE start /\ (t = All \/ c.type = t)
  <2>1. IsChunk(u, n + 1, n + 1)
    BY <1>2, <1>8
  <2>2. HasTail(u)
    BY <1>1, <2>1, ChunkEnds DEF HasTail
  <2>3. B = A \cup {<<n + 1, n + 1>>}
    <3>1. \A p, q : <<p, q>> \in B <=> <<p, q>> \in A \cup {<<n + 1, n + 1>>}
      <4> TAKE p, q
      <4>1. CASE q \in 1..n
        <5>1. IsChunk(u, p, q) <=> IsChunk(s, p, q)
          BY <1>1, <1>2, <1>8, <4>1
        <5>2. IsChunk(s, p, q) => u[p] = s[p]
          BY <1>1, <1>3
        <5>3. <<p, q>> # <<n + 1, n + 1>>
          BY <1>1, <4>1
        <5> QED BY <1>4, <1>5, <5>1, <5>2, <5>3
      <4>2. CASE q = n + 1
        <5>1. IsChunk(u, p, q) <=> p = n + 1
          BY <1>2, <1>8, <4>2
        <5>2. ~IsChunk(s, p, q)
          BY <1>1, <1>3, <4>2
        <5> QED BY <1>1, <1>4, <1>5, <1>8, <4>2, <5>1, <5>2
      <4>3. CASE q \notin 1..n+1
        <5>1. ~IsChunk(u, p, q) /\ ~IsChunk(s, p, q)
          BY <1>1, <1>3, <4>3
        <5>2. <<p, q>> # <<n + 1, n + 1>>
          BY <1>1, <4>3
        <5> QED BY <1>4, <1>5, <5>1, <5>2
      <4> QED BY <1>1, <4>1, <4>2, <4>3
    <3>2. \A x \in A \cup {<<n + 1, n + 1>>} : x = <<x[1], x[2]>>
      BY <1>4
    <3> QED BY <1>5, <3>1, <3>2, SamePairs
  <2>4. <<n + 1, n + 1>> \notin A
    BY <1>1, <1>3, <1>4
  <2>5. Cardinality(B) = Cardinality(A) + 1
    BY <1>4, <2>3, <2>4, FS_AddElement
  <2> QED BY <1>8, <2>2, <2>5 DEF u, A, B
<1>9. CASE ~Joined(LastOf(s), c) /\ ~(start /\ (t = All \/ c.type = t))
  <2>1. \A p, q : <<p, q>> \in B <=> <<p, q>> \in A
    <3> TAKE p, q
    <3>1. CASE q \in 1..n
      <4>1. IsChunk(u, p, q) <=> IsChunk(s, p, q)
        BY <1>1, <1>2, <1>9, <3>1
      <4>2. IsChunk(s, p, q) => u[p] = s[p]
        BY <1>1, <1>3
      <4> QED BY <1>4, <1>5, <4>1, <4>2
    <3>2. CASE q = n + 1
      <4>1. IsChunk(u, p, q) <=> p = n + 1 /\ start
        BY <1>2, <1>9, <3>2
      <4>2. ~IsChunk(s, p, q)
        BY <1>1, <1>3, <3>2
      <4> QED BY <1>1, <1>4, <1>5, <1>9, <4>1, <4>2
    <3>3. CASE q \notin 1..n+1
      BY <1>1, <1>3, <1>4, <1>5, <3>3
    <3> QED BY <1>1, <3>1, <3>2, <3>3
  <2>2. A = B
    BY <1>4, <1>5, <2>1, SamePairs
  <2>3. HasTail(u)
    <3> SUFFICES ASSUME c.tag # "O" PROVE HasTail(u)
      BY <1>1 DEF HasTail
    <3>1. IsChunk(u, n + 1, n + 1)
      BY <1>2, <1>9
    <3> QED BY <1>1, <3>1, ChunkEnds DEF HasTail
  <2> QED BY <1>4, <1>9, <2>2, <2>3 DEF u, A, B
<1> QED BY <1>7, <1>8, <1>9

LEMMA MatchIs ==
  ASSUME NEW s \in Seq(Label), NEW v \in Seq(Label), NEW t
  PROVE  \A a, b : <<a, b>> \in MatchesOf(s, v, t) <=>
                     /\ IsChunk(s, a, b) /\ IsChunk(v, a, b)
                     /\ t = All \/ s[a].type = t
                     /\ s[a].type = v[a].type
<1> TAKE a, b
<1>1. <<a, b>> \in OfType(s, t) <=> IsChunk(s, a, b) /\ (t = All \/ s[a].type = t)
  BY ChunksOfType
<1>2. <<a, b>> \in OfType(v, t) <=> IsChunk(v, a, b) /\ (t = All \/ v[a].type = t)
  BY ChunksOfType
<1>3. <<a, b>>[1] = a
  OBVIOUS
<1>4. <<a, b>> \in MatchesOf(s, v, t) <=>
        <<a, b>> \in OfType(s, t) /\ <<a, b>> \in OfType(v, t) /\ s[a].type = v[a].type
  BY <1>3 DEF MatchesOf
<1> QED BY <1>1, <1>2, <1>4

(* The chunks both columns have, after one more label in each.             *)
LEMMA MatchNext ==
  ASSUME NEW s \in Seq(Label), NEW v \in Seq(Label), Len(s) = Len(v),
         NEW c \in Label, NEW g \in Label, NEW t
  PROVE  LET n == Len(s)
             M == MatchesOf(s, v, t)
             N == MatchesOf(Append(s, c), Append(v, g), t)
             goOn == Joined(LastOf(s), c) /\ Joined(LastOf(v), g)
             stop == ~Joined(LastOf(s), c) /\ ~Joined(LastOf(v), g)
         IN  /\ \A a, b : b < n => (<<a, b>> \in N <=> <<a, b>> \in M)
             /\ \A a : <<a, n>> \in N <=> <<a, n>> \in M /\ stop
             /\ \A a : <<a, n + 1>> \in N <=>
                  \/ /\ a = n + 1 /\ stop /\ c.tag # "O" /\ g.tag # "O"
                     /\ c.type = g.type /\ t \in {All, c.type}
                  \/ <<a, n>> \in M /\ goOn
             /\ \A x \in M : x = <<x[1], x[2]>> /\ x[1] \in 1..n /\ x[2] \in 1..n
             /\ \A x \in N : x = <<x[1], x[2]>> /\ x[1] \in 1..n+1 /\ x[2] \in 1..n+1
<1> DEFINE n == Len(s)
           u == Append(s, c)
           w == Append(v, g)
           M == MatchesOf(s, v, t)
           N == MatchesOf(u, w, t)
<1>1. /\ n \in Nat /\ n = Len(v) /\ u \in Seq(Label) /\ w \in Seq(Label)
      /\ u[n+1] = c /\ w[n+1] = g /\ \A k \in 1..n : u[k] = s[k] /\ w[k] = v[k]
      /\ DOMAIN u = 1..n+1 /\ DOMAIN s = 1..n /\ DOMAIN w = 1..n+1 /\ DOMAIN v = 1..n
  OBVIOUS
<1>2. /\ \A a, b : b < n => (IsChunk(u, a, b) <=> IsChunk(s, a, b))
      /\ \A a : IsChunk(u, a, n) <=> IsChunk(s, a, n) /\ ~Joined(LastOf(s), c)
      /\ \A a : IsChunk(u, a, n + 1) <=> \/ a = n + 1 /\ c.tag # "O" /\ ~Joined(LastOf(s), c)
                                         \/ IsChunk(s, a, n) /\ Joined(LastOf(s), c)
  BY NextLabel
<1>3. /\ \A a, b : b < n => (IsChunk(w, a, b) <=> IsChunk(v, a, b))
      /\ \A a : IsChunk(w, a, n) <=> IsChunk(v, a, n) /\ ~Joined(LastOf(v), g)
      /\ \A a : IsChunk(w, a, n + 1) <=> \/ a = n + 1 /\ g.tag # "O" /\ ~Joined(LastOf(v), g)
                                         \/ IsChunk(v, a, n) /\ Joined(LastOf(v), g)
  BY <1>1, NextLabel
<1>4. \A a, b : <<a, b>> \in M <=> /\ IsChunk(s, a, b) /\ IsChunk(v, a, b)
                                   /\ t = All \/ s[a].type = t
                                   /\ s[a].type = v[a].type
  BY MatchIs
<1>5. \A a, b : <<a, b>> \in N <=> /\ IsChunk(u, a, b) /\ IsChunk(w, a, b)
                                   /\ t = All \/ u[a].type = t
                                   /\ u[a].type = w[a].type
  BY <1>1, MatchIs
<1>6. /\ \A a, b : IsChunk(s, a, b) => a \in 1..n /\ b \in 1..n
      /\ \A a, b : IsChunk(u, a, b) => a \in 1..n+1 /\ b \in 1..n+1
  BY <1>1 DEF IsChunk
<1>7. /\ \A x \in M : x = <<x[1], x[2]>> /\ x[1] \in 1..n /\ x[2] \in 1..n
      /\ \A x \in N : x = <<x[1], x[2]>> /\ x[1] \in 1..n+1 /\ x[2] \in 1..n+1
  <2>1. /\ \A x \in M : x \in OfType(s, t)
        /\ \A x \in N : x \in OfType(u, t)
    BY DEF MatchesOf
  <2>2. /\ \A x \in OfType(s, t) : x = <<x[1], x[2]>> /\ IsChunk(s, x[1], x[2])
        /\ \A x \in OfType(u, t) : x = <<x[1], x[2]>> /\ IsChunk(u, x[1], x[2])
    BY <1>1, ChunksOfType
  <2> QED BY <1>6, <2>1, <2>2
<1> HIDE DEF M, N, u, w, n
<1>8. ASSUME NEW a, NEW b, b < n PROVE <<a, b>> \in N <=> <<a, b>> \in M
  BY <1>1, <1>2, <1>3, <1>4, <1>5, <1>6, <1>8
<1>9. ASSUME NEW a
      PROVE  <<a, n>> \in N <=> /\ <<a, n>> \in M
                                /\ ~Joined(LastOf(s), c) /\ ~Joined(LastOf(v), g)
  BY <1>1, <1>2, <1>3, <1>4, <1>5, <1>6
<1>10. ASSUME NEW a
       PROVE  <<a, n + 1>> \in N <=>
                \/ /\ a = n + 1 /\ ~Joined(LastOf(s), c) /\ ~Joined(LastOf(v), g)
                   /\ c.tag # "O" /\ g.tag # "O"
                   /\ c.type = g.type /\ t \in {All, c.type}
                \/ <<a, n>> \in M /\ Joined(LastOf(s), c) /\ Joined(LastOf(v), g)
  <2>1. CASE a = n + 1
    <3>1. ~IsChunk(s, a, n)
      BY <1>1, <1>6, <2>1
    <3>2. ~IsChunk(v, a, n)
      BY <1>1, <2>1 DEF IsChunk
    <3> QED BY <1>1, <1>2, <1>3, <1>4, <1>5, <2>1, <3>1, <3>2
  <2>2. CASE a # n + 1
    <3>1. IsChunk(s, a, n) => u[a] = s[a] /\ w[a] = v[a]
      BY <1>1, <1>6
    <3> QED BY <1>2, <1>3, <1>4, <1>5, <2>2, <3>1
  <2> QED BY <2>1, <2>2
<1> QED BY <1>7, <1>8, <1>9, <1>10 DEF M, N, u, w, n
-----------------------------------------------------------------------------
LEMMA MatchesFinite ==
  ASSUME NEW s \in Seq(Label), NEW v, NEW t, NEW S \in SUBSET MatchesOf(s, v, t)
  PROVE  IsFiniteSet(S) /\ Cardinality(S) \in Nat
<1>1. S \in SUBSET OfType(s, t) /\ IsFiniteSet(OfType(s, t))
  BY ChunksOfType DEF MatchesOf
<1>2. IsFiniteSet(S)
  BY <1>1, FS_Subset
<1> QED BY <1>2, FS_CardinalityType

(* Where both columns are in the same chunk, it is of the last type; it is *)
(* the only match that reaches the end.                                    *)
LEMMA TailMatch ==
  ASSUME NEW s \in Seq(Label), NEW v \in Seq(Label), Len(v) = Len(s),
         HasTail(s), HasTail(v), NEW a, <<a, Len(s)>> \in MatchesOf(s, v, All)
  PROVE  /\ LastOf(s).tag # "O" /\ LastOf(v).tag # "O"
         /\ LastOf(s).type = LastOf(v).type
         /\ \A t, b : <<b, Len(s)>> \in MatchesOf(s, v, t) <=>
                        b = a /\ t \in {All, LastOf(s).type}
<1>1. \A t, b : <<b, Len(s)>> \in MatchesOf(s, v, t) <=>
                  /\ IsChunk(s, b, Len(s)) /\ IsChunk(v, b, Len(v))
                  /\ t = All \/ s[b].type = t
                  /\ s[b].type = v[b].type
  BY MatchIs
<1>2. IsChunk(s, a, Len(s)) /\ IsChunk(v, a, Len(v)) /\ s[a].type = v[a].type
  BY <1>1
<1>3. ASSUME NEW r \in Seq(Label), HasTail(r), IsChunk(r, a, Len(r))
      PROVE  LastOf(r).tag # "O" /\ r[a].type = LastOf(r).type
             /\ \A b : IsChunk(r, b, Len(r)) => b = a
  <2>1. Len(r) \in Nat /\ a \in 1..Len(r) /\ r # <<>> /\ LastOf(r) = r[Len(r)]
    BY <1>3 DEF IsChunk, LastOf
  <2>2. LastOf(r).tag # "O"
    <3>1. CASE a = Len(r)
      BY <1>3, <2>1, <3>1 DEF IsChunk
    <3>2. CASE a # Len(r)
      <4>1. Len(r) - 1 \in a..Len(r)-1 /\ Len(r) - 1 + 1 = Len(r)
        BY <2>1, <3>2
      <4>2. Joined(r[Len(r) - 1], r[Len(r)])
        BY <1>3, <4>1 DEF IsChunk
      <4> QED BY <2>1, <4>2 DEF Joined
    <3> QED BY <3>1, <3>2
  <2>3. PICK b : IsChunk(r, b, Len(r)) /\ r[b].type = LastOf(r).type
    BY <1>3, <2>2, ChunkEnds DEF HasTail
  <2>4. \A e : IsChunk(r, e, Len(r)) => e = a
    BY <1>3, OneTail
  <2> QED BY <2>2, <2>3, <2>4
<1>4. /\ LastOf(s).tag # "O" /\ s[a].type = LastOf(s).type
      /\ \A b : IsChunk(s, b, Len(s)) => b = a
      /\ LastOf(v).tag # "O" /\ v[a].type = LastOf(v).type
  BY <1>2, <1>3
<1> QED BY <1>1, <1>2, <1>4
-----------------------------------------------------------------------------
LEMMA PairEnd ==
  ASSUME NEW X, \A x \in X : x = <<x[1], x[2]>>, NEW m
  PROVE  (\E x \in X : x[2] = m) <=> \E a : <<a, m>> \in X
<1>1. ASSUME NEW x \in X, x[2] = m PROVE \E a : <<a, m>> \in X
  <2>1. x = <<x[1], m>>
    BY <1>1
  <2> QED BY <2>1
<1>2. ASSUME NEW a, <<a, m>> \in X PROVE \E x \in X : x[2] = m
  <2>1. <<a, m>>[2] = m
    OBVIOUS
  <2> QED BY <1>2, <2>1
<1> QED BY <1>1, <1>2

(* One line keeps the tally.                                               *)
LEMMA LineKeepsHistory ==
  ASSUME TypeOK, History, NEW c \in Label, NEW g \in Label, NEW token \in BOOLEAN,
         Line(c, g, token)
  PROVE  History'
<1>1. /\ gold \in Seq(Label) /\ guess \in Seq(Label) /\ scheme \in Scheme
      /\ gold' = Append(gold, c) /\ guess' = Append(guess, g) /\ scheme' = scheme
      /\ lastCorrect' = c /\ lastGuessed' = g /\ c.tag \in scheme /\ g.tag \in scheme
      /\ HasTail(gold) /\ HasTail(guess) /\ Len(guess) = Len(gold)
  BY DEF TypeOK, History, Line
<1>2. HasTail(gold') /\ HasTail(guess')
  BY <1>1, CountNext
<1>3. LastOf(gold') = c /\ LastOf(guess') = g /\ Len(guess') = Len(gold')
  BY <1>1 DEF LastOf
<1> QED BY <1>1, <1>2, <1>3 DEF History

LEMMA LineKeepsTally ==
  ASSUME IInv, Tally, NEW c \in Label, NEW g \in Label, NEW token \in BOOLEAN,
         Line(c, g, token)
  PROVE  Tally'
<1> DEFINE n == Len(gold)
           goOn == Joined(lastCorrect, c) /\ Joined(lastGuessed, g)
           stop == ~Joined(lastCorrect, c) /\ ~Joined(lastGuessed, g)
<1>0. /\ TypeOK /\ History /\ Flag /\ Tallied /\ phase = "read" /\ phase' = "read"
      /\ inCorrect \in BOOLEAN
  BY DEF IInv, TypeOK, Tally, Line
<1>1. /\ gold \in Seq(Label) /\ guess \in Seq(Label) /\ scheme \in Scheme
      /\ gold' = Append(gold, c) /\ guess' = Append(guess, g)
      /\ lastCorrect \in Label /\ lastGuessed \in Label
      /\ lastCorrect = LastOf(gold) /\ lastGuessed = LastOf(guess)
      /\ lastCorrect.tag \in scheme /\ lastGuessed.tag \in scheme
      /\ c.tag \in scheme /\ g.tag \in scheme
      /\ HasTail(gold) /\ HasTail(guess) /\ Len(guess) = n /\ n \in Nat
      /\ Len(gold') = n + 1
  BY <1>0 DEF TypeOK, History, Line
<1>2. /\ EndOfChunk(lastCorrect, c) <=> lastCorrect.tag # "O" /\ ~Joined(lastCorrect, c)
      /\ EndOfChunk(lastGuessed, g) <=> lastGuessed.tag # "O" /\ ~Joined(lastGuessed, g)
      /\ StartOfChunk(lastCorrect, c) <=> c.tag # "O" /\ ~Joined(lastCorrect, c)
      /\ StartOfChunk(lastGuessed, g) <=> g.tag # "O" /\ ~Joined(lastGuessed, g)
  BY <1>1, Tables
<1>3. ASSUME NEW t
      PROVE  /\ \A a, b : b < n => (<<a, b>> \in Matches(t)' <=> <<a, b>> \in Matches(t))
             /\ \A a : <<a, n>> \in Matches(t)' <=> <<a, n>> \in Matches(t) /\ stop
             /\ \A a : <<a, n + 1>> \in Matches(t)' <=>
                  \/ /\ a = n + 1 /\ stop /\ c.tag # "O" /\ g.tag # "O"
                     /\ c.type = g.type /\ t \in {All, c.type}
                  \/ <<a, n>> \in Matches(t) /\ goOn
             /\ \A x \in Matches(t) : x = <<x[1], x[2]>> /\ x[1] \in 1..n /\ x[2] \in 1..n
             /\ \A x \in Matches(t)' : x = <<x[1], x[2]>> /\ x[1] \in 1..n+1 /\ x[2] \in 1..n+1
  <2>1. Matches(t) = MatchesOf(gold, guess, t)
    BY DEF Matches
  <2>2. Matches(t)' = MatchesOf(Append(gold, c), Append(guess, g), t)
    BY <1>1 DEF Matches, MatchesOf, OfType, Chunks
  <2> QED BY <1>1, <2>1, <2>2, MatchNext
<1> HIDE DEF n
<1>4. History'
  BY <1>0, LineKeepsHistory
<1>5. inCorrect <=> \E a : <<a, n>> \in Matches(All)
  <2>1. \A x \in Matches(All) : x = <<x[1], x[2]>>
    BY <1>3
  <2>2. (\E x \in Matches(All) : x[2] = n) <=> \E a : <<a, n>> \in Matches(All)
    BY <2>1, PairEnd
  <2>3. inCorrect <=> \E x \in Matches(All) : x[2] = n
    BY <1>0 DEF Flag, n
  <2> QED BY <2>2, <2>3
<1>6. ASSUME NEW a, <<a, n>> \in Matches(All)
      PROVE  /\ inCorrect /\ lastCorrect.tag # "O" /\ lastGuessed.tag # "O"
             /\ lastCorrect.type = lastGuessed.type /\ lastCorrect.type \in Type
             /\ BothEnd(c, g) <=> stop
             /\ \A t, b : <<b, n>> \in Matches(t) <=> b = a /\ t \in {All, lastCorrect.type}
  <2>1. /\ lastCorrect.tag # "O" /\ lastGuessed.tag # "O"
        /\ lastCorrect.type = lastGuessed.type
        /\ \A t, b : <<b, n>> \in Matches(t) <=> b = a /\ t \in {All, lastCorrect.type}
    BY <1>1, <1>6, TailMatch DEF Matches, n
  <2>2. lastCorrect.type \in Type
    BY <1>1, <2>1, LabelOf
  <2> QED BY <1>2, <1>5, <1>6, <2>1, <2>2 DEF BothEnd
<1>7. Flag'
  <2>1. inCorrect' <=> Stays(c, g) \/ BothStart(c, g)
    BY DEF Line
  <2>2. (\E x \in Matches(All)' : x[2] = n + 1) <=> \E a : <<a, n + 1>> \in Matches(All)'
    <3>1. \A x \in Matches(All)' : x = <<x[1], x[2]>>
      BY <1>3
    <3> QED BY <3>1, PairEnd
  <2>3. Stays(c, g) <=> goOn /\ \E a : <<a, n>> \in Matches(All)
    <3>1. CASE inCorrect
      <4>1. PICK a : <<a, n>> \in Matches(All)
        BY <1>5, <3>1
      <4>2. goOn => g.type = c.type
        BY <1>6, <4>1 DEF Joined
      <4>3. /\ lastCorrect.tag # "O" /\ lastGuessed.tag # "O"
            /\ BothEnd(c, g) <=> stop
        BY <1>6, <4>1
      <4>4. EndOfChunk(lastCorrect, c) <=> ~Joined(lastCorrect, c)
        BY <1>2, <4>3
      <4>5. EndOfChunk(lastGuessed, g) <=> ~Joined(lastGuessed, g)
        BY <1>2, <4>3
      <4>6. EndOfChunk(lastCorrect, c) \in BOOLEAN /\ EndOfChunk(lastGuessed, g) \in BOOLEAN
        BY DEF EndOfChunk
      <4>7. CASE goOn
        <5>1. ~EndOfChunk(lastCorrect, c) /\ ~EndOfChunk(lastGuessed, g) /\ ~BothEnd(c, g)
          BY <4>3, <4>4, <4>5, <4>7
        <5>2. EndOfChunk(lastCorrect, c) = EndOfChunk(lastGuessed, g)
          BY <4>6, <5>1
        <5> QED BY <3>1, <4>1, <4>2, <4>7, <5>1, <5>2 DEF Stays
      <4>8. CASE ~goOn
        <5>1. Stays(c, g) => (EndOfChunk(lastCorrect, c) <=> EndOfChunk(lastGuessed, g))
          BY DEF Stays
        <5>2. Stays(c, g) => ~stop
          BY <4>3 DEF Stays
        <5> QED BY <4>4, <4>5, <4>8, <5>1, <5>2
      <4> QED BY <4>7, <4>8
    <3>2. CASE ~inCorrect
      BY <1>5, <3>2 DEF Stays
    <3> QED BY <3>1, <3>2
  <2>4. BothStart(c, g) <=> stop /\ c.tag # "O" /\ g.tag # "O" /\ c.type = g.type
    BY <1>2 DEF BothStart
  <2>5. (\E a : <<a, n + 1>> \in Matches(All)') <=> Stays(c, g) \/ BothStart(c, g)
    BY <1>3, <2>3, <2>4
  <2> QED BY <1>1, <2>1, <2>2, <2>5 DEF Flag
<1>8. ASSUME NEW t \in Counter
      PROVE  /\ foundCorrect'[t] = Cardinality(OfType(gold, t))'
             /\ foundGuessed'[t] = Cardinality(OfType(guess, t))'
  <2>1. /\ foundCorrect \in [Counter -> Nat] /\ foundGuessed \in [Counter -> Nat]
        /\ foundCorrect[t] = Cardinality(OfType(gold, t))
        /\ foundGuessed[t] = Cardinality(OfType(guess, t))
    BY <1>0 DEF TypeOK, Tallied
  <2>2. /\ Cardinality(OfType(gold', t)) = foundCorrect[t] +
             IF StartOfChunk(lastCorrect, c) /\ t \in {All, c.type} THEN 1 ELSE 0
        /\ Cardinality(OfType(guess', t)) = foundGuessed[t] +
             IF StartOfChunk(lastGuessed, g) /\ t \in {All, g.type} THEN 1 ELSE 0
    BY <1>1, <1>2, <2>1, CountNext
  <2>3. /\ Cardinality(OfType(gold, t))' = Cardinality(OfType(gold', t))
        /\ Cardinality(OfType(guess, t))' = Cardinality(OfType(guess', t))
    BY DEF OfType, Chunks
  <2>4. /\ StartOfChunk(lastCorrect, c) => c.type \in Type
        /\ StartOfChunk(lastGuessed, g) => g.type \in Type
    BY <1>2, LabelOf
  <2>5. foundCorrect'[t] = foundCorrect[t] +
          IF StartOfChunk(lastCorrect, c) /\ t \in {All, c.type} THEN 1 ELSE 0
    <3>1. CASE StartOfChunk(lastCorrect, c)
      BY <2>1, <2>4, <3>1, CountOne DEF Line
    <3>2. CASE ~StartOfChunk(lastCorrect, c)
      BY <2>1, <3>2 DEF Line
    <3> QED BY <3>1, <3>2
  <2>6. foundGuessed'[t] = foundGuessed[t] +
          IF StartOfChunk(lastGuessed, g) /\ t \in {All, g.type} THEN 1 ELSE 0
    <3>1. CASE StartOfChunk(lastGuessed, g)
      BY <2>1, <2>4, <3>1, CountOne DEF Line
    <3>2. CASE ~StartOfChunk(lastGuessed, g)
      BY <2>1, <3>2 DEF Line
    <3> QED BY <3>1, <3>2
  <2> QED BY <2>2, <2>3, <2>5, <2>6
<1>9. ASSUME NEW t \in Counter PROVE correctChunk'[t] = Cardinality(Ended(t))'
  <2>1. correctChunk \in [Counter -> Nat] /\ correctChunk[t] = Cardinality(Ended(t))
    BY <1>0 DEF TypeOK, Tallied
  <2>2. IsFiniteSet(Ended(t)) /\ Cardinality(Ended(t)) \in Nat
    BY <1>1, MatchesFinite DEF Ended, Matches
  <2>3. /\ \A x \in Ended(t) : x = <<x[1], x[2]>> /\ x[2] \in 1..n-1
        /\ \A x \in Ended(t)' : x = <<x[1], x[2]>> /\ x[2] \in 1..n
        /\ \A a, b : <<a, b>> \in Ended(t)' <=> <<a, b>> \in Matches(t)' /\ b < n + 1
        /\ \A a, b : <<a, b>> \in Ended(t) <=> <<a, b>> \in Matches(t) /\ b < n
    BY <1>1, <1>3 DEF Ended, n
  <2>4. CASE \E a : <<a, n>> \in Matches(t) /\ stop
    <3>1. PICK a : <<a, n>> \in Matches(t) /\ stop
      BY <2>4
    <3>2. <<a, n>> \in Matches(All)
      BY <1>1, <3>1, MatchIs DEF Matches
    <3>3. /\ inCorrect /\ BothEnd(c, g) /\ t \in {All, lastCorrect.type}
          /\ lastCorrect.type \in Type
          /\ \A b : <<b, n>> \in Matches(t) <=> b = a
      BY <1>6, <3>1, <3>2
    <3>4. Ended(t)' = Ended(t) \cup {<<a, n>>}
      <4>1. \A p, q : <<p, q>> \in Ended(t)' <=> <<p, q>> \in Ended(t) \cup {<<a, n>>}
        <5> TAKE p, q
        <5>1. CASE q < n
          BY <1>1, <1>3, <2>3, <5>1
        <5>2. CASE q = n
          BY <1>1, <1>3, <2>3, <3>1, <3>3, <5>2
        <5>3. CASE ~(q < n) /\ q # n
          <6>1. <<p, q>> \notin Ended(t)'
            BY <1>1, <2>3, <5>3
          <6>2. <<p, q>> # <<a, n>>
            BY <5>3
          <6> QED BY <2>3, <5>3, <6>1, <6>2
        <5> QED BY <5>1, <5>2, <5>3
      <4>2. \A x \in Ended(t) \cup {<<a, n>>} : x = <<x[1], x[2]>>
        BY <2>3
      <4> QED BY <2>3, <4>1, <4>2, SamePairs
    <3>5. <<a, n>> \notin Ended(t)
      BY <1>1, <2>3
    <3>6. Cardinality(Ended(t))' = Cardinality(Ended(t)) + 1
      BY <2>2, <3>4, <3>5, FS_AddElement
    <3>7. correctChunk' = Count(correctChunk, lastCorrect.type)
      BY <3>3 DEF Line
    <3>8. correctChunk'[t] = correctChunk[t] + 1
      BY <2>1, <3>3, <3>7, CountOne
    <3> QED BY <2>1, <3>6, <3>8
  <2>5. CASE ~\E a : <<a, n>> \in Matches(t) /\ stop
    <3>1. Ended(t)' = Ended(t)
      <4>1. \A p, q : <<p, q>> \in Ended(t)' <=> <<p, q>> \in Ended(t)
        <5> TAKE p, q
        <5>1. CASE q < n
          BY <1>1, <1>3, <2>3, <5>1
        <5>2. CASE q = n
          BY <1>1, <1>3, <2>3, <2>5, <5>2
        <5>3. CASE ~(q < n) /\ q # n
          <6>1. <<p, q>> \notin Ended(t)'
            BY <1>1, <2>3, <5>3
          <6> QED BY <2>3, <5>3, <6>1
        <5> QED BY <5>1, <5>2, <5>3
      <4> QED BY <2>3, <4>1, SamePairs
    <3>2. correctChunk'[t] = correctChunk[t]
      <4>1. CASE inCorrect /\ BothEnd(c, g)
        <5>1. PICK a : <<a, n>> \in Matches(All)
          BY <1>5, <4>1
        <5>2. t \notin {All, lastCorrect.type} /\ lastCorrect.type \in Type
          BY <1>6, <2>5, <4>1, <5>1
        <5>3. correctChunk' = Count(correctChunk, lastCorrect.type)
          BY <4>1 DEF Line
        <5> QED BY <2>1, <5>2, <5>3, CountOne
      <4>2. CASE ~(inCorrect /\ BothEnd(c, g))
        BY <2>1, <4>2 DEF Line
      <4> QED BY <4>1, <4>2
    <3> QED BY <2>1, <3>1, <3>2
  <2> QED BY <2>4, <2>5
<1> QED BY <1>0, <1>4, <1>7, <1>8, <1>9 DEF Tally, Tallied

(* At the end of the input every chunk found in both columns has ended: the*)
(* flush counts the one that was still open.                               *)
LEMMA ReportKeepsTally ==
  ASSUME IInv, Tally, Report
  PROVE  Tally'
<1> DEFINE n == Len(gold)
<1>1. /\ TypeOK /\ History /\ Flag /\ Tallied /\ phase = "read" /\ phase' = "report"
      /\ gold \in Seq(Label) /\ guess \in Seq(Label) /\ n \in Nat /\ Len(guess) = n
      /\ HasTail(gold) /\ HasTail(guess) /\ lastCorrect = LastOf(gold)
      /\ lastCorrect \in Label /\ correctChunk \in [Counter -> Nat]
      /\ lastGuessed = LastOf(guess)
  BY DEF IInv, TypeOK, Tally, History, Report
<1>2. /\ gold' = gold /\ guess' = guess /\ foundCorrect' = foundCorrect
      /\ foundGuessed' = foundGuessed
      /\ lastCorrect' = lastCorrect /\ lastGuessed' = lastGuessed /\ scheme' = scheme
  BY DEF Report
<1>3. History' /\ Flag'
  BY <1>1, <1>2 DEF History, Flag
<1>4. ASSUME NEW t
      PROVE  /\ \A x \in Matches(t) : x = <<x[1], x[2]>> /\ x[2] \in 1..n
             /\ \A x \in Ended(t) : x = <<x[1], x[2]>> /\ x[2] \in 1..n-1
             /\ \A a, b : <<a, b>> \in Ended(t) <=> <<a, b>> \in Matches(t) /\ b < n
             /\ IsFiniteSet(Ended(t)) /\ Cardinality(Ended(t)) \in Nat
  <2>1. \A x \in Matches(t) : x \in OfType(gold, t)
    BY DEF Matches, MatchesOf
  <2>2. \A x \in OfType(gold, t) : x = <<x[1], x[2]>> /\ IsChunk(gold, x[1], x[2])
    BY <1>1, ChunksOfType
  <2>3. \A x \in Matches(t) : x = <<x[1], x[2]>> /\ x[2] \in 1..n
    BY <1>1, <2>1, <2>2 DEF IsChunk
  <2>4. IsFiniteSet(Ended(t)) /\ Cardinality(Ended(t)) \in Nat
    BY <1>1, MatchesFinite DEF Ended, Matches
  <2>5. \A a, b : <<a, b>>[2] = b
    OBVIOUS
  <2>6. \A a, b : <<a, b>> \in Ended(t) <=> <<a, b>> \in Matches(t) /\ b < n
    BY <2>5 DEF Ended
  <2>7. \A x \in Ended(t) : x \in Matches(t) /\ x[2] < n
    BY DEF Ended
  <2>8. \A x \in Ended(t) : x = <<x[1], x[2]>> /\ x[2] \in 1..n-1
    BY <1>1, <2>3, <2>7
  <2> QED BY <2>3, <2>4, <2>6, <2>8
<1>5. inCorrect <=> \E a : <<a, n>> \in Matches(All)
  <2>1. \A x \in Matches(All) : x = <<x[1], x[2]>>
    BY <1>4
  <2>2. (\E x \in Matches(All) : x[2] = n) <=> \E a : <<a, n>> \in Matches(All)
    BY <2>1, PairEnd
  <2>3. inCorrect \in BOOLEAN /\ (inCorrect <=> \E x \in Matches(All) : x[2] = n)
    BY <1>1 DEF Flag, TypeOK
  <2> QED BY <2>2, <2>3
<1>6. ASSUME NEW t \in Counter
      PROVE  correctChunk'[t] = Cardinality(Matches(t))
  <2>1. correctChunk[t] = Cardinality(Ended(t))
    BY <1>1 DEF Tallied
  <2>2. CASE inCorrect
    <3>1. PICK a : <<a, n>> \in Matches(All)
      BY <1>5, <2>2
    <3>2. /\ lastCorrect.tag # "O"
          /\ \A u, b : <<b, n>> \in Matches(u) <=> b = a /\ u \in {All, lastCorrect.type}
      BY <1>1, <3>1, TailMatch DEF Matches
    <3>3. lastCorrect.type \in Type
      BY <1>1, <3>2, LabelOf
    <3>4. correctChunk' = Count(correctChunk, lastCorrect.type)
      BY <2>2 DEF Report
    <3>5. correctChunk'[t] = correctChunk[t] + (IF t \in {All, lastCorrect.type} THEN 1 ELSE 0)
      BY <1>1, <3>3, <3>4, CountOne
    <3>6. CASE t \in {All, lastCorrect.type}
      <4>1. \A p, q : <<p, q>> \in Matches(t) <=> <<p, q>> \in Ended(t) \cup {<<a, n>>}
        <5> TAKE p, q
        <5>1. CASE q = n
          BY <1>4, <3>2, <3>6, <5>1
        <5>2. CASE q # n
          <6>1. <<p, q>>[2] = q /\ <<p, q>> # <<a, n>>
            BY <5>2
          <6>2. <<p, q>> \in Matches(t) => q \in 1..n
            BY <1>4, <6>1
          <6> QED BY <1>1, <1>4, <5>2, <6>1, <6>2
        <5> QED BY <5>1, <5>2
      <4>2. \A x \in Matches(t) : x = <<x[1], x[2]>>
        BY <1>4
      <4>3. \A x \in Ended(t) \cup {<<a, n>>} : x = <<x[1], x[2]>>
        BY <1>4
      <4>4. Matches(t) = Ended(t) \cup {<<a, n>>}
        BY <4>1, <4>2, <4>3, SamePairs
      <4>5. <<a, n>> \notin Ended(t)
        BY <1>1, <1>4
      <4>6. Cardinality(Matches(t)) = Cardinality(Ended(t)) + 1
        BY <1>4, <4>4, <4>5, FS_AddElement
      <4> QED BY <2>1, <3>5, <3>6, <4>6
    <3>7. CASE t \notin {All, lastCorrect.type}
      <4>1. \A p : <<p, n>> \notin Matches(t)
        BY <3>2, <3>7
      <4>2. \A x \in Matches(t) : x[2] # n
        BY <1>4, <4>1
      <4>3. Matches(t) = Ended(t)
        <5>1. \A m \in 1..n : m # n => m < n
          BY <1>1
        <5>2. \A x \in Matches(t) : x[2] < n
          BY <1>4, <4>2, <5>1
        <5> QED BY <5>2 DEF Ended
      <4> QED BY <1>1, <2>1, <3>5, <3>7, <4>3
    <3> QED BY <3>6, <3>7
  <2>3. CASE ~inCorrect
    <3>1. \A p : <<p, n>> \notin Matches(t)
      <4>1. \A p : <<p, n>> \in Matches(t) => <<p, n>> \in Matches(All)
        BY <1>1, MatchIs DEF Matches
      <4> QED BY <1>5, <2>3, <4>1
    <3>2. \A x \in Matches(t) : x[2] # n
      BY <1>4, <3>1
    <3>3. Matches(t) = Ended(t)
      <4>1. \A m \in 1..n : m # n => m < n
        BY <1>1
      <4>2. \A x \in Matches(t) : x[2] < n
        BY <1>4, <3>2, <4>1
      <4> QED BY <4>2 DEF Ended
    <3>4. correctChunk' = correctChunk
      BY <2>3 DEF Report
    <3> QED BY <2>1, <3>3, <3>4
  <2> QED BY <2>2, <2>3
<1>7. ASSUME NEW t
      PROVE  /\ Cardinality(Matches(t))' = Cardinality(Matches(t))
             /\ Cardinality(OfType(gold, t))' = Cardinality(OfType(gold, t))
             /\ Cardinality(OfType(guess, t))' = Cardinality(OfType(guess, t))
  BY <1>2 DEF Matches, MatchesOf, OfType, Chunks
<1>8. Tallied'
  BY <1>1, <1>2, <1>6, <1>7 DEF Tallied
<1> QED BY <1>3, <1>8 DEF Tally

(* Steps that leave the columns and the counters alone keep the tally.     *)
LEMMA IdleKeepsTally ==
  ASSUME IInv, Tally, Abort \/ UNCHANGED vars
  PROVE  Tally'
<1>1. /\ UNCHANGED <<scheme, lastCorrect, lastGuessed, inCorrect, counters, gold, guess>>
      /\ phase' = phase \/ phase' = "abort"
  BY DEF Abort, vars
<1>2. ASSUME NEW t
      PROVE  /\ Cardinality(Matches(t))' = Cardinality(Matches(t))
             /\ Cardinality(Ended(t))' = Cardinality(Ended(t))
             /\ Cardinality(OfType(gold, t))' = Cardinality(OfType(gold, t))
             /\ Cardinality(OfType(guess, t))' = Cardinality(OfType(guess, t))
  BY <1>1 DEF Ended, Matches, MatchesOf, OfType, Chunks
<1>3. History /\ Flag /\ Tallied
  BY DEF Tally
<1>4. Tallied'
  BY <1>1, <1>2, <1>3 DEF Tallied, counters
<1>5. History'
  BY <1>1, <1>3 DEF History
<1>6. Matches(All)' = Matches(All)
  BY <1>1 DEF Matches, MatchesOf, OfType, Chunks
<1>7. Flag'
  BY <1>1, <1>3, <1>6 DEF Flag
<1> QED BY <1>4, <1>5, <1>7 DEF Tally

(* Before the first line both columns are empty and nothing is counted.    *)
LEMMA StartTallies == Init => Tally
<1> SUFFICES ASSUME Init PROVE Tally
  OBVIOUS
<1>1. gold = <<>> /\ guess = <<>> /\ phase = "read" /\ inCorrect = FALSE
  BY DEF Init
<1>2. History
  BY <1>1 DEF Init, History, LastOf, HasTail, Outside, Scheme
<1>3. \A t : OfType(<<>>, t) = {} /\ MatchesOf(<<>>, <<>>, t) = {}
  BY DEF OfType, Chunks, MatchesOf
<1>4. \A t : Matches(t) = {} /\ Ended(t) = {}
  BY <1>1, <1>3 DEF Matches, Ended
<1>5. Flag
  BY <1>1, <1>4 DEF Flag
<1>6. Cardinality({}) = 0
  BY FS_EmptySet
<1>7. \A t \in Counter : /\ foundCorrect[t] = 0 /\ foundGuessed[t] = 0
                         /\ correctChunk[t] = 0
  BY DEF Init, None
<1>8. Tallied
  BY <1>1, <1>3, <1>4, <1>6, <1>7 DEF Tallied
<1> QED BY <1>2, <1>5, <1>8 DEF Tally

(* The one pass, which sees two lines at a time and remembers one flag,    *)
(* reports the numbers the definition of a chunk gives: chunks of the      *)
(* corpus, of the guess, and those in both, overall and of each type       *)
(* (lines 148-200), for inputs of any length.                              *)
THEOREM ChunksAlwaysCounted == Spec => []ChunksCounted
<1>1. Spec => []IInv
  BY Inductive
<1>2. Init => Tally
  BY StartTallies
<1>3. IInv /\ Tally /\ [Next]_vars => Tally'
  <2> SUFFICES ASSUME IInv, Tally, [Next]_vars PROVE Tally'
    OBVIOUS
  <2>1. CASE \E c, g \in Label, token \in BOOLEAN : Line(c, g, token)
    BY <2>1, LineKeepsTally
  <2>2. CASE Report
    BY <2>2, ReportKeepsTally
  <2>3. CASE Abort \/ Reported \/ UNCHANGED vars
    BY <2>3, IdleKeepsTally DEF Reported
  <2> QED BY <2>1, <2>2, <2>3 DEF Next
<1>4. Tally => ChunksCounted
  BY DEF Tally, Tallied, ChunksCounted, Matches, MatchesOf
<1> QED BY <1>1, <1>2, <1>3, <1>4, PTL DEF Spec

-----------------------------------------------------------------------------
(* Induction over the places of a sequence, from the order of Nat, and the *)
(* elements of a finite set of numbers in order.                           *)
LEMMA Least ==
  ASSUME NEW T, T \subseteq Nat, T # {}
  PROVE  \E z \in T : \A y \in T : z <= y
<1>1. \E z \in T : \A y \in T : ~ (<<y, z>> \in OpToRel(<, Nat))
  BY WFMin, NatLessThanWellFounded
<1>2. PICK z \in T : \A y \in T : ~ (<<y, z>> \in OpToRel(<, Nat))
  BY <1>1
<1>3. \A y \in T : ~(y < z)
  BY <1>2 DEF OpToRel
<1>4. \A y \in T : y \in Int /\ z \in Int
  OBVIOUS
<1>5. \A y \in T : z <= y
  BY <1>3, <1>4
<1> QED BY <1>5

LEMMA LeastIs ==
  ASSUME NEW T, T \subseteq Nat, T # {}
  PROVE  DA!Min(T) \in T /\ \A y \in T : DA!Min(T) <= y
<1>1. \E z \in T : \A y \in T : z <= y
  BY Least
<1> QED BY <1>1 DEF DA!Min

LEMMA UpTo ==
  ASSUME NEW m \in Nat, NEW T, 0 \in T, \A i \in 0..m-1 : i \in T => i + 1 \in T
  PROVE  0..m \subseteq T
<1> SUFFICES ASSUME NEW k \in 0..m, k \notin T PROVE FALSE
  OBVIOUS
<1> DEFINE U == {i \in 0..m : i \notin T}
<1>1. U \subseteq Nat /\ U # {}
  OBVIOUS
<1>2. PICK z \in U : \A y \in U : z <= y
  BY <1>1, Least
<1>3. z # 0 /\ z - 1 \in 0..m-1 /\ z - 1 + 1 = z
  BY <1>2
<1>4. z - 1 \in T
  BY <1>2, <1>3
<1> QED BY <1>2, <1>3, <1>4

(* The count of the instance is the count.                                 *)
LEMMA SameCount == \A S : DA!Cardinality(S) = Cardinality(S)
BY DEF DA!Cardinality, Cardinality

Through(T, n) == {j \in T : j <= n}

LEMMA ThroughFinite ==
  ASSUME NEW N \in Nat, NEW T, T \subseteq 0 .. N, NEW n
  PROVE  /\ IsFiniteSet(Through(T, n)) /\ Cardinality(Through(T, n)) \in Nat
         /\ IsFiniteSet(T) /\ Cardinality(T) \in Nat
<1>1. IsFiniteSet(0 .. N)
  BY FS_Interval
<1>2. IsFiniteSet(T) /\ Through(T, n) \subseteq T
  BY <1>1, FS_Subset DEF Through
<1>3. IsFiniteSet(Through(T, n))
  BY <1>2, FS_Subset
<1> QED BY <1>2, <1>3, FS_CardinalityType

(* There is an n-th number when there are that many.                       *)
LEMMA NthIs ==
  ASSUME NEW N \in Nat, NEW T, T \subseteq 0 .. N, NEW k \in 1 .. Cardinality(T)
  PROVE  DA!Nth(T, k) \in T /\ Cardinality(Through(T, DA!Nth(T, k))) = k
<1> DEFINE W == {n \in Nat : Cardinality(Through(T, n)) >= k}
<1>1. \A n : IsFiniteSet(Through(T, n)) /\ Cardinality(Through(T, n)) \in Nat
  BY ThroughFinite
<1>2. Cardinality(T) \in Nat
  BY ThroughFinite
<1> HIDE DEF W
<1>0. \A j \in T : j \in Nat /\ j <= N
  OBVIOUS
<1>3. Through(T, N) = T
  BY <1>0 DEF Through
<1>4. N \in W
  BY <1>2, <1>3 DEF W
<1>5. PICK n \in W : \A m \in W : n <= m
  <2>1. W \subseteq Nat /\ W # {}
    BY <1>4 DEF W
  <2> QED BY <2>1, Least
<1>7. n \in Nat /\ Cardinality(Through(T, n)) >= k
  BY <1>5 DEF W
<1>6. Cardinality(Through(T, n - 1)) < k
  <2>1. CASE n = 0
    <3>1. \A j \in T : ~(j <= n - 1)
      BY <1>0, <2>1
    <3>2. Through(T, n - 1) = {}
      BY <3>1 DEF Through
    <3> QED BY <3>2, FS_EmptySet
  <2>2. CASE n # 0
    <3>1. n - 1 \in Nat /\ n - 1 < n
      BY <1>7, <2>2
    <3>2. n - 1 \notin W
      BY <1>5, <1>7, <3>1
    <3> QED BY <1>1, <3>1, <3>2 DEF W
  <2> QED BY <2>1, <2>2
<1>9. n \in T
  <2> SUFFICES ASSUME n \notin T PROVE FALSE
    OBVIOUS
  <2>1. Through(T, n) = Through(T, n - 1)
    <3>1. \A j \in T : j <= n <=> j <= n - 1
      <4> TAKE j \in T
      <4>1. j \in Nat /\ j # n
        BY <1>0
      <4> QED BY <1>7, <4>1
    <3> QED BY <3>1 DEF Through
  <2> QED BY <1>1, <1>2, <1>6, <1>7, <2>1
<1>10. Through(T, n) = Through(T, n - 1) \cup {n} /\ n \notin Through(T, n - 1)
  <2>1. \A j \in T : j <= n <=> (j <= n - 1 \/ j = n)
    <3> TAKE j \in T
    <3>1. j \in Nat
      BY <1>0
    <3> QED BY <1>7, <3>1
  <2>2. ~(n <= n - 1)
    BY <1>7
  <2> QED BY <1>9, <2>1, <2>2 DEF Through
<1>11. Cardinality(Through(T, n)) = Cardinality(Through(T, n - 1)) + 1
  BY <1>1, <1>10, FS_AddElement
<1>12. Cardinality(Through(T, n)) = k
  BY <1>1, <1>2, <1>6, <1>7, <1>11
<1>13. \E i \in T : Cardinality({j \in T : j <= i}) = k
  BY <1>9, <1>12 DEF Through
<1> QED BY <1>13, SameCount DEF DA!Nth, Through

LEMMA NthGrows ==
  ASSUME NEW N \in Nat, NEW T, T \subseteq 0 .. N,
         NEW k \in 1 .. Cardinality(T), NEW l \in 1 .. Cardinality(T), k < l
  PROVE  DA!Nth(T, k) < DA!Nth(T, l)
<1> DEFINE i == DA!Nth(T, k)
           j == DA!Nth(T, l)
<1>1. i \in T /\ Cardinality(Through(T, i)) = k
  BY NthIs
<1>2. j \in T /\ Cardinality(Through(T, j)) = l
  BY NthIs
<1>3. IsFiniteSet(Through(T, i)) /\ Cardinality(T) \in Nat
  BY ThroughFinite
<1> HIDE DEF i, j
<1>4. i \in Nat /\ j \in Nat /\ \A z \in T : z \in Nat
  BY <1>1, <1>2
<1> SUFFICES ASSUME j <= i PROVE FALSE
  BY <1>4 DEF i, j
<1>5. Through(T, j) \subseteq Through(T, i)
  <2>1. \A z \in T : z <= j => z <= i
    BY <1>4
  <2> QED BY <2>1 DEF Through
<1>6. Cardinality(Through(T, j)) <= Cardinality(Through(T, i))
  BY <1>3, <1>5, FS_Subset
<1> QED BY <1>1, <1>2, <1>3, <1>6

(* Every element is the n-th one for some n.                               *)
LEMMA NthAll ==
  ASSUME NEW N \in Nat, NEW T, T \subseteq 0 .. N, NEW c \in T
  PROVE  \E k \in 1 .. Cardinality(T) : DA!Nth(T, k) = c
<1> DEFINE k == Cardinality(Through(T, c))
<1>1. /\ IsFiniteSet(Through(T, c)) /\ IsFiniteSet(T)
      /\ k \in Nat /\ Cardinality(T) \in Nat
  BY ThroughFinite
<1>2. c \in Through(T, c) /\ Through(T, c) \subseteq T
  BY DEF Through
<1>3. k <= Cardinality(T)
  BY <1>1, <1>2, FS_Subset
<1>4. k # 0
  BY <1>1, <1>2, FS_EmptySet
<1>5. k \in 1 .. Cardinality(T)
  BY <1>1, <1>3, <1>4
<1> DEFINE i == DA!Nth(T, k)
<1>6. i \in T /\ Cardinality(Through(T, i)) = k
  BY <1>5, NthIs
<1> HIDE DEF i
<1>7. i \in Nat /\ c \in Nat /\ \A z \in T : z \in Nat
  BY <1>6
<1>8. ASSUME NEW a \in T, NEW b \in T, a < b
      PROVE  Cardinality(Through(T, a)) < Cardinality(Through(T, b))
  <2>1. a \in Nat /\ b \in Nat
    BY <1>7
  <2>2. Through(T, a) \subseteq Through(T, b)
    <3>1. \A z \in T : z <= a => z <= b
      BY <1>7, <1>8, <2>1
    <3> QED BY <3>1 DEF Through
  <2>3. b \in Through(T, b) /\ b \notin Through(T, a)
    BY <1>8, <2>1 DEF Through
  <2>4. IsFiniteSet(Through(T, b)) /\ Cardinality(Through(T, a)) \in Nat
        /\ Cardinality(Through(T, b)) \in Nat
    BY ThroughFinite
  <2>5. /\ Cardinality(Through(T, a)) <= Cardinality(Through(T, b))
        /\ Cardinality(Through(T, a)) # Cardinality(Through(T, b))
    BY <2>2, <2>3, <2>4, FS_Subset
  <2> QED BY <2>4, <2>5
<1>9. i = c
  BY <1>1, <1>6, <1>7, <1>8
<1> QED BY <1>5, <1>9 DEF i
-----------------------------------------------------------------------------
(* The double array.  Keys that begin with w are those under the node of w.*)
Chars == 1 .. Alphabet
Word  == Seq(Chars)

GoodKeys(keys) ==
  /\ keys \in Seq(Word) /\ keys # <<>>
  /\ \A i, j \in DOMAIN keys : i < j => Precedes(keys[i], keys[j])

Leads(w, k)    == Len(w) <= Len(k) /\ \A i \in 1 .. Len(w) : k[i] = w[i]
Under(keys, w) == {i \in DOMAIN keys : Leads(w, keys[i])}
CodeOf(keys, w, i) == DA!CodeAt(keys[i], Len(w))
Codes(keys, w) == {CodeOf(keys, w, i) : i \in Under(keys, w)}

NodeFor(keys, w, nd) == /\ nd.depth = Len(w) /\ nd.left \in Nat /\ nd.right \in Nat
                        /\ Under(keys, w) = nd.left .. nd.right - 1

LEMMA SameWord ==
  ASSUME NEW S, NEW a \in Seq(S), NEW b \in Seq(S), Len(a) = Len(b),
         \A m \in 1 .. Len(a) : a[m] = b[m]
  PROVE  a = b
<1>1. a \in [1 .. Len(a) -> S] /\ b \in [1 .. Len(a) -> S]
  OBVIOUS
<1> QED BY <1>1

LEMMA CodeIs ==
  ASSUME Alphabet \in Nat, NEW k \in Word, NEW n \in 0 .. Len(k)
  PROVE  /\ DA!CodeAt(k, n) \in 0 .. Alphabet + 1
         /\ n = Len(k) => DA!CodeAt(k, n) = 0
         /\ n # Len(k) => k[n+1] \in Chars /\ DA!CodeAt(k, n) = k[n+1] + 1
<1>1. Len(k) \in Nat /\ k \in [1 .. Len(k) -> Chars]
  BY DEF Word
<1>2. CASE n = Len(k)
  BY <1>2 DEF DA!CodeAt
<1>3. CASE n # Len(k)
  <2> DEFINE l == Len(k)
  <2>0. l \in Nat /\ n \in 0 .. l /\ n # l
    BY <1>1, <1>3
  <2> HIDE DEF l
  <2>1. n + 1 \in 1 .. l
    BY <2>0
  <2>2. k[n+1] \in Chars
    BY <1>1, <2>1 DEF l
  <2> QED BY <1>3, <2>2 DEF DA!CodeAt, Chars
<1> QED BY <1>2, <1>3

LEMMA UnderIs ==
  ASSUME Alphabet \in Nat, NEW keys, GoodKeys(keys), NEW w \in Word, NEW i \in Under(keys, w)
  PROVE  /\ keys[i] \in Word /\ i \in 1 .. Len(keys)
         /\ Len(w) \in 0 .. Len(keys[i])
         /\ CodeOf(keys, w, i) \in 0 .. Alphabet + 1
<1>1. keys[i] \in Word /\ i \in 1 .. Len(keys)
  BY DEF GoodKeys, Under
<1>2. Len(w) \in 0 .. Len(keys[i])
  BY <1>1 DEF Under, Leads, Word
<1> QED BY <1>1, <1>2, CodeIs DEF CodeOf

(* The keys under a node come in the order of their next codes.            *)
LEMMA InCodeOrder ==
  ASSUME Alphabet \in Nat, NEW keys, GoodKeys(keys), NEW w \in Word,
         NEW i \in Under(keys, w), NEW j \in Under(keys, w), i < j
  PROVE  CodeOf(keys, w, i) <= CodeOf(keys, w, j)
<1> DEFINE a == keys[i]
           b == keys[j]
           d == Len(w)
<1>1. a \in Word /\ b \in Word /\ d \in 0 .. Len(a) /\ d \in 0 .. Len(b)
  BY UnderIs
<1>2. /\ DA!CodeAt(a, d) \in Nat /\ DA!CodeAt(b, d) \in Nat
      /\ \A m \in 1 .. d : a[m] = b[m]
  BY <1>1, CodeIs DEF Under, Leads
<1>3. Precedes(a, b)
  BY DEF GoodKeys, Under
<1>4. PICK n \in 0 .. Len(a) : /\ n <= Len(b) /\ \A m \in 1 .. n : a[m] = b[m]
                               /\ DA!CodeAt(a, n) < DA!CodeAt(b, n)
  BY <1>3 DEF Precedes
<1> HIDE DEF a, b, d
<1>5. Len(a) \in Nat /\ Len(b) \in Nat
  BY <1>1 DEF Word
<1>6. CASE n = d
  BY <1>2, <1>4, <1>6 DEF CodeOf, a, b, d
<1>7. CASE n < d
  <2>1. n + 1 \in 1 .. d /\ n # Len(a) /\ n # Len(b) /\ n \in 0 .. Len(b)
    BY <1>1, <1>5, <1>7
  <2>2. DA!CodeAt(a, n) = a[n+1] + 1 /\ DA!CodeAt(b, n) = b[n+1] + 1
    BY <1>1, <2>1, CodeIs
  <2>3. DA!CodeAt(a, n) \in 0 .. Alphabet + 1
    BY <1>1, CodeIs
  <2> QED BY <1>2, <1>4, <2>1, <2>2, <2>3
<1>8. CASE n > d
  <2>1. d + 1 \in 1 .. n /\ d # Len(a) /\ d # Len(b)
    BY <1>1, <1>4, <1>5, <1>8
  <2>2. DA!CodeAt(a, d) = a[d+1] + 1 /\ DA!CodeAt(b, d) = b[d+1] + 1
    BY <1>1, <2>1, CodeIs
  <2>3. DA!CodeAt(a, d) = DA!CodeAt(b, d)
    BY <1>4, <2>1, <2>2
  <2> QED BY <1>2, <2>3 DEF CodeOf, a, b, d
<1> QED BY <1>1, <1>6, <1>7, <1>8

(* The keys under a child are those with its character next; those with    *)
(* the code 0 are the word of the node itself.                             *)
LEMMA UnderChild ==
  ASSUME Alphabet \in Nat, NEW keys, GoodKeys(keys), NEW w \in Word, NEW ch \in Chars
  PROVE  /\ Append(w, ch) \in Word /\ Len(Append(w, ch)) = Len(w) + 1
         /\ Under(keys, Append(w, ch)) = {i \in Under(keys, w) : CodeOf(keys, w, i) = ch + 1}
<1> DEFINE v == Append(w, ch)
           d == Len(w)
<1>1. /\ v \in Word /\ Len(v) = d + 1 /\ v[d+1] = ch /\ d \in Nat
      /\ \A m \in 1 .. d : v[m] = w[m]
  BY DEF Word
<1> HIDE DEF v
<1>2. ASSUME NEW i \in DOMAIN keys
      PROVE  Leads(v, keys[i]) <=> Leads(w, keys[i]) /\ DA!CodeAt(keys[i], d) = ch + 1
  <2> DEFINE k == keys[i]
  <2>1. k \in Word /\ Len(k) \in Nat
    BY <1>2 DEF GoodKeys, Word
  <2> HIDE DEF k
  <2>2. ASSUME Leads(v, k) PROVE Leads(w, k) /\ DA!CodeAt(k, d) = ch + 1
    <3>1. d + 1 <= Len(k) /\ d + 1 \in 1 .. Len(v) /\ \A m \in 1 .. d : m \in 1 .. Len(v)
      BY <1>1, <2>2 DEF Leads
    <3>2. k[d+1] = ch /\ \A m \in 1 .. d : k[m] = w[m]
      BY <1>1, <2>2, <3>1 DEF Leads
    <3>3. d \in 0 .. Len(k) /\ d # Len(k) /\ d <= Len(k)
      BY <1>1, <2>1, <3>1
    <3> QED BY <2>1, <3>2, <3>3, CodeIs DEF Leads
  <2>3. ASSUME Leads(w, k), DA!CodeAt(k, d) = ch + 1 PROVE Leads(v, k)
    <3>1. d \in 0 .. Len(k)
      BY <1>1, <2>1, <2>3 DEF Leads
    <3>2. d # Len(k) /\ k[d+1] \in Chars /\ k[d+1] + 1 = ch + 1
      BY <2>1, <2>3, <3>1, CodeIs DEF Chars
    <3>3. k[d+1] = ch
      BY <3>2 DEF Chars
    <3>4. Len(v) <= Len(k)
      BY <1>1, <2>1, <3>1, <3>2
    <3>5. ASSUME NEW m \in 1 .. Len(v) PROVE k[m] = v[m]
      <4>1. m \in 1 .. d \/ m = d + 1
        BY <1>1
      <4> QED BY <1>1, <2>3, <3>3, <4>1 DEF Leads
    <3> QED BY <3>4, <3>5 DEF Leads
  <2> QED BY <2>2, <2>3 DEF k
<1> QED BY <1>1, <1>2 DEF Under, CodeOf, v

LEMMA UnderEnd ==
  ASSUME Alphabet \in Nat, NEW keys, GoodKeys(keys), NEW w \in Word, NEW i \in Under(keys, w)
  PROVE  CodeOf(keys, w, i) = 0 <=> keys[i] = w
<1>1. keys[i] \in Word /\ Len(w) \in 0 .. Len(keys[i])
  BY UnderIs
<1>2. ASSUME CodeOf(keys, w, i) = 0 PROVE keys[i] = w
  <2>1. Len(keys[i]) = Len(w)
    <3> SUFFICES ASSUME Len(w) # Len(keys[i]) PROVE FALSE
      OBVIOUS
    <3> DEFINE c == keys[i][Len(w)+1]
    <3>1. c \in Chars /\ DA!CodeAt(keys[i], Len(w)) = c + 1
      BY <1>1, CodeIs
    <3> HIDE DEF c
    <3> QED BY <1>2, <3>1 DEF Chars, CodeOf
  <2>2. \A m \in 1 .. Len(w) : keys[i][m] = w[m]
    BY DEF Under, Leads
  <2> QED BY <1>1, <2>1, <2>2, SameWord DEF Word
<1>3. ASSUME keys[i] = w PROVE CodeOf(keys, w, i) = 0
  BY <1>1, <1>3, CodeIs DEF CodeOf
<1> QED BY <1>2, <1>3

(* No key is there twice.                                                  *)
LEMMA KeysApart ==
  ASSUME Alphabet \in Nat, NEW keys, GoodKeys(keys),
         NEW i \in DOMAIN keys, NEW j \in DOMAIN keys, keys[i] = keys[j]
  PROVE  i = j
<1>1. keys[i] \in Word /\ i \in Nat /\ j \in Nat
  BY DEF GoodKeys
<1>2. ~Precedes(keys[i], keys[i])
  <2> SUFFICES ASSUME NEW n \in 0 .. Len(keys[i]),
                      DA!CodeAt(keys[i], n) < DA!CodeAt(keys[i], n)
               PROVE  FALSE
    BY DEF Precedes
  <2>1. DA!CodeAt(keys[i], n) \in 0 .. Alphabet + 1
    BY <1>1, CodeIs
  <2> QED BY <2>1
<1>3. ~(i < j) /\ ~(j < i)
  BY <1>2 DEF GoodKeys
<1> QED BY <1>1, <1>3

(* What fetch finds: one child for every next code, in order, with the     *)
(* keys that have this code next.                                          *)
KeysAt(keys, w, c) == {i \in Under(keys, w) : CodeOf(keys, w, i) = c}

Fetched(keys, w, f) ==
  /\ f \in Seq(DA!Nodes) /\ Len(f) = Cardinality(Codes(keys, w))
  /\ \A k \in 1 .. Len(f) : /\ f[k].code = DA!Nth(Codes(keys, w), k)
                            /\ f[k].depth = Len(w) + 1
                            /\ f[k].left .. f[k].right - 1 = KeysAt(keys, w, f[k].code)
                            /\ f[k].left \in KeysAt(keys, w, f[k].code)

LEMMA CodesAre ==
  ASSUME Alphabet \in Nat, NEW keys, GoodKeys(keys), NEW w \in Word
  PROVE  /\ Codes(keys, w) \subseteq 0 .. Alphabet + 1
         /\ IsFiniteSet(Codes(keys, w)) /\ Cardinality(Codes(keys, w)) \in Nat
<1>1. Codes(keys, w) \subseteq 0 .. Alphabet + 1
  BY UnderIs DEF Codes
<1>2. Alphabet + 1 \in Nat
  OBVIOUS
<1> QED BY <1>1, <1>2, ThroughFinite

LEMMA FirstAt ==
  ASSUME Alphabet \in Nat, NEW keys, GoodKeys(keys), NEW w \in Word, NEW c \in Codes(keys, w)
  PROVE  /\ DA!Min(KeysAt(keys, w, c)) \in KeysAt(keys, w, c)
         /\ \A i \in KeysAt(keys, w, c) : DA!Min(KeysAt(keys, w, c)) <= i
<1>1. KeysAt(keys, w, c) # {}
  BY DEF KeysAt, Codes
<1>2. KeysAt(keys, w, c) \subseteq Nat
  BY UnderIs DEF KeysAt
<1> QED BY <1>1, <1>2, LeastIs

(* The keys with the k-th code next end where those with the next begin.   *)
LEMMA RangeOfCode ==
  ASSUME Alphabet \in Nat, NEW keys, GoodKeys(keys), NEW w \in Word,
         NEW l \in Nat, NEW r \in Nat, Under(keys, w) = l .. r - 1,
         NEW k \in 1 .. Cardinality(Codes(keys, w)),
         NEW e, e = IF k = Cardinality(Codes(keys, w)) THEN r
                    ELSE DA!Min(KeysAt(keys, w, DA!Nth(Codes(keys, w), k + 1)))
  PROVE  /\ DA!Min(KeysAt(keys, w, DA!Nth(Codes(keys, w), k))) .. e - 1
              = KeysAt(keys, w, DA!Nth(Codes(keys, w), k))
         /\ e \in Nat
<1> DEFINE C == Codes(keys, w)
           U == Under(keys, w)
           n == Cardinality(C)
           code(i) == CodeOf(keys, w, i)
           c == DA!Nth(C, k)
           b == DA!Min(KeysAt(keys, w, c))
           d == DA!Nth(C, k + 1)
<1>1. n \in Nat /\ C \subseteq 0 .. Alphabet + 1 /\ Alphabet + 1 \in Nat
  BY CodesAre
<1>2. c \in C
  BY <1>1, NthIs
<1>3. /\ b \in U /\ code(b) = c
      /\ \A i \in U : code(i) = c => b <= i
  BY <1>2, FirstAt DEF KeysAt
<1>4. \A i \in U : i \in Nat /\ code(i) \in Nat /\ code(i) \in C
  BY UnderIs DEF Codes
<1>5. \A i, j \in U : i < j => code(i) <= code(j)
  BY InCodeOrder
<1>6. k # n => /\ d \in C /\ c < d
               /\ e \in U /\ code(e) = d
               /\ \A i \in U : code(i) = d => e <= i
  <2> SUFFICES ASSUME k # n PROVE /\ d \in C /\ c < d
                                  /\ e \in U /\ code(e) = d
                                  /\ \A i \in U : code(i) = d => e <= i
    OBVIOUS
  <2>1. k + 1 \in 1 .. n /\ k < k + 1
    BY <1>1
  <2>2. d \in C
    BY <1>1, <2>1, NthIs
  <2>3. c < d
    BY <1>1, <2>1, NthGrows
  <2>4. e = DA!Min(KeysAt(keys, w, d))
    OBVIOUS
  <2> QED BY <2>2, <2>3, <2>4, FirstAt DEF KeysAt
<1>7. \A x \in C : c < x => k # n /\ d <= x
  <2> SUFFICES ASSUME NEW x \in C, c < x PROVE k # n /\ d <= x
    OBVIOUS
  <2>1. PICK m \in 1 .. n : DA!Nth(C, m) = x
    BY <1>1, NthAll
  <2>2. c \in Nat /\ x \in Nat
    BY <1>1, <1>2
  <2>3. ~(m < k) /\ m # k
    <3>1. m < k => x < c
      BY <1>1, <2>1, NthGrows
    <3> QED BY <2>1, <2>2, <3>1
  <2>4. k # n /\ k + 1 \in 1 .. n /\ k + 1 <= m
    BY <1>1, <2>3
  <2>5. d = x \/ d < x
    <3>1. k + 1 < m => d < x
      BY <1>1, <2>1, <2>4, NthGrows
    <3> QED BY <2>1, <2>4, <3>1
  <2>6. d \in Nat
    BY <1>1, <1>6, <2>4
  <2> QED BY <2>2, <2>4, <2>5, <2>6
<1>8. k = n => e = r
  OBVIOUS
<1>9. e \in Nat /\ U = l .. r - 1
  BY <1>4, <1>6, <1>8
<1> HIDE DEF C, U, n, code, c, b, d
<1>10. ASSUME NEW i \in U, code(i) = c PROVE b <= i /\ i <= e - 1
  <2>1. CASE k = n
    BY <1>3, <1>4, <1>8, <1>9, <1>10, <2>1
  <2>2. CASE k # n
    <3>1. ~(e < i) /\ e # i
      <4>1. code(e) = d /\ c < d /\ e \in U /\ d \in Nat /\ c \in Nat
        BY <1>2, <1>4, <1>6, <2>2, <1>3
      <4>2. e < i => d <= c
        BY <1>5, <1>10, <4>1
      <4> QED BY <1>10, <4>1, <4>2
    <3> QED BY <1>3, <1>4, <1>9, <1>10, <3>1
  <2> QED BY <2>1, <2>2
<1>11. ASSUME NEW i \in b .. e - 1 PROVE i \in U /\ code(i) = c
  <2>1. b \in Nat /\ i \in Int /\ b <= i /\ i <= e - 1
    BY <1>3, <1>4, <1>9
  <2>2. i \in U
    <3>1. e - 1 <= r - 1
      BY <1>6, <1>8, <1>9
    <3>2. l <= b
      BY <1>3, <1>9
    <3> QED BY <1>9, <2>1, <3>1, <3>2
  <2>3. c <= code(i)
    <3>1. b < i => c <= code(i)
      BY <1>3, <1>5, <2>2
    <3> QED BY <1>3, <1>4, <2>1, <2>2, <3>1
  <2>4. ~(c < code(i))
    <3> SUFFICES ASSUME c < code(i) PROVE FALSE
      OBVIOUS
    <3>1. k # n /\ d <= code(i)
      BY <1>4, <1>7, <2>2
    <3>2. e \in U /\ code(e) = d /\ i < e /\ d \in Nat
      BY <1>4, <1>6, <1>9, <2>1, <3>1
    <3>3. code(i) <= d
      BY <1>5, <2>2, <3>2
    <3>4. code(i) = d
      BY <1>4, <2>2, <3>1, <3>2, <3>3
    <3> QED BY <1>6, <2>1, <2>2, <3>1, <3>2, <3>4, <1>9
  <2> QED BY <1>3, <1>4, <2>2, <2>3, <2>4
<1>12. \A i : i \in b .. e - 1 <=> i \in U /\ code(i) = c
  <2>1. \A i \in U : code(i) = c => i \in b .. e - 1
    BY <1>3, <1>4, <1>9, <1>10
  <2> QED BY <1>11, <2>1
<1>13. b .. e - 1 = KeysAt(keys, w, c)
  BY <1>12 DEF KeysAt, U, code
<1> QED BY <1>9, <1>13 DEF b, c, C

LEMMA FetchIs ==
  ASSUME Alphabet \in Nat, NEW keys, GoodKeys(keys), NEW w \in Word,
         NEW nd, NodeFor(keys, w, nd)
  PROVE  Fetched(keys, w, DA!Fetch(keys, nd))
<1> DEFINE C == Codes(keys, w)
           n == Cardinality(C)
           first(c) == DA!Min(KeysAt(keys, w, c))
           e(k) == IF k = n THEN nd.right ELSE first(DA!Nth(C, k + 1))
           f == [k \in 1 .. n |-> DA!Node(DA!Nth(C, k), Len(w) + 1, first(DA!Nth(C, k)), e(k))]
           member == {i \in nd.left .. nd.right - 1 : Len(keys[i]) >= nd.depth}
<1>1. /\ nd.depth = Len(w) /\ nd.left \in Nat /\ nd.right \in Nat
      /\ Under(keys, w) = nd.left .. nd.right - 1
  BY DEF NodeFor
<1>2. member = Under(keys, w)
  <2>1. \A i \in Under(keys, w) : Len(keys[i]) >= nd.depth
    BY <1>1, UnderIs
  <2> QED BY <1>1, <2>1
<1>3. DA!Fetch(keys, nd) = f
  <2>1. {DA!CodeAt(keys[i], nd.depth) : i \in member} = C
    BY <1>1, <1>2 DEF Codes, CodeOf
  <2>2. \A c : {i \in member : DA!CodeAt(keys[i], nd.depth) = c} = KeysAt(keys, w, c)
    BY <1>1, <1>2 DEF KeysAt, CodeOf
  <2> HIDE DEF member, C
  <2>3. DA!Fetch(keys, nd) =
          LET codes == {DA!CodeAt(keys[i], nd.depth) : i \in member}
              from(c) == DA!Min({i \in member : DA!CodeAt(keys[i], nd.depth) = c})
              m == DA!Cardinality(codes)
          IN  [k \in 1 .. m |->
                 DA!Node(DA!Nth(codes, k), nd.depth + 1, from(DA!Nth(codes, k)),
                         IF k = m THEN nd.right ELSE from(DA!Nth(codes, k + 1)))]
    BY DEF DA!Fetch, member
  <2> QED BY <1>1, <2>1, <2>2, <2>3, SameCount
<1>4. n \in Nat /\ C \subseteq 0 .. Alphabet + 1 /\ Alphabet + 1 \in Nat
  BY CodesAre
<1>5. ASSUME NEW k \in 1 .. n
      PROVE  /\ DA!Nth(C, k) \in C
             /\ first(DA!Nth(C, k)) \in KeysAt(keys, w, DA!Nth(C, k))
             /\ first(DA!Nth(C, k)) \in Nat
             /\ first(DA!Nth(C, k)) .. e(k) - 1 = KeysAt(keys, w, DA!Nth(C, k))
             /\ e(k) \in Nat
  <2>1. DA!Nth(C, k) \in C
    BY <1>4, NthIs
  <2>2. first(DA!Nth(C, k)) \in KeysAt(keys, w, DA!Nth(C, k))
    BY <2>1, FirstAt
  <2>3. first(DA!Nth(C, k)) \in Nat
    BY <2>2, UnderIs DEF KeysAt
  <2>4. first(DA!Nth(C, k)) .. e(k) - 1 = KeysAt(keys, w, DA!Nth(C, k)) /\ e(k) \in Nat
    BY <1>1, RangeOfCode
  <2> QED BY <2>1, <2>2, <2>3, <2>4
<1>6. Len(w) + 1 \in Nat
  BY DEF Word
<1> HIDE DEF C, n, first, e
<1>7. \A k \in 1 .. n : f[k] \in DA!Nodes
  BY <1>4, <1>5, <1>6 DEF DA!Nodes, DA!Node
<1>8. f \in Seq(DA!Nodes) /\ Len(f) = n
  BY <1>4, <1>7
<1>9. \A k \in 1 .. n : /\ f[k].code = DA!Nth(C, k)
                        /\ f[k].depth = Len(w) + 1
                        /\ f[k].left = first(DA!Nth(C, k)) /\ f[k].right = e(k)
  BY DEF DA!Node
<1> HIDE DEF f
<1> QED BY <1>3, <1>5, <1>8, <1>9 DEF Fetched, C, n

LEMMA NoPlaces ==
  ASSUME NEW f, f \in [1 .. 0 -> Int]
  PROVE  f = <<>>
<1>1. f \in Seq(Int) /\ Len(f) = 0
  OBVIOUS
<1> QED BY <1>1

(* The child with the code 0 is a leaf; any other is the node of the next  *)
(* longer word.                                                            *)
LEMMA LeafIs ==
  ASSUME Alphabet \in Nat, NEW keys, GoodKeys(keys), NEW w \in Word,
         NEW f, Fetched(keys, w, f), NEW k \in 1 .. Len(f), f[k].code = 0
  PROVE  /\ f[k].left \in DOMAIN keys /\ keys[f[k].left] = w
         /\ DA!Fetch(keys, f[k]) = <<>>
<1>1. /\ f[k].left .. f[k].right - 1 = KeysAt(keys, w, 0)
      /\ f[k].left \in KeysAt(keys, w, 0) /\ f[k].depth = Len(w) + 1
  BY DEF Fetched
<1>2. \A i \in KeysAt(keys, w, 0) : i \in DOMAIN keys /\ keys[i] = w
  BY UnderEnd DEF KeysAt, Under
<1>3. Len(w) \in Nat
  BY DEF Word
<1> DEFINE member == {i \in f[k].left .. f[k].right - 1 : Len(keys[i]) >= f[k].depth}
           codes == {DA!CodeAt(keys[i], f[k].depth) : i \in member}
<1>4. member = {}
  <2>1. \A i \in f[k].left .. f[k].right - 1 : ~(Len(keys[i]) >= f[k].depth)
    <3> TAKE i \in f[k].left .. f[k].right - 1
    <3>1. keys[i] = w
      BY <1>1, <1>2
    <3> QED BY <1>1, <1>3, <3>1
  <2> QED BY <2>1
<1>5. codes = {}
  BY <1>4
<1>6. DA!Cardinality(codes) = 0
  BY <1>5, SameCount, FS_EmptySet
<1> DEFINE first(c) == DA!Min({i \in member : DA!CodeAt(keys[i], f[k].depth) = c})
           m == DA!Cardinality(codes)
           h == [j \in 1 .. m |->
                   DA!Node(DA!Nth(codes, j), f[k].depth + 1, first(DA!Nth(codes, j)),
                           IF j = m THEN f[k].right ELSE first(DA!Nth(codes, j + 1)))]
<1>7. DA!Fetch(keys, f[k]) = h
  BY DEF DA!Fetch
<1> HIDE DEF member, codes
<1>8. h \in [1 .. 0 -> Int]
  BY <1>6
<1> HIDE DEF h
<1>9. h = <<>>
  BY <1>8, NoPlaces
<1> QED BY <1>1, <1>2, <1>7, <1>9

LEMMA ChildIs ==
  ASSUME Alphabet \in Nat, NEW keys, GoodKeys(keys), NEW w \in Word,
         NEW f, Fetched(keys, w, f), NEW k \in 1 .. Len(f), f[k].code # 0
  PROVE  /\ f[k].code - 1 \in Chars /\ f[k].code \in Codes(keys, w)
         /\ NodeFor(keys, Append(w, f[k].code - 1), f[k])
         /\ Under(keys, Append(w, f[k].code - 1)) # {}
         /\ DA!Fetch(keys, f[k]) # <<>>
<1> DEFINE c == f[k].code
           v == Append(w, c - 1)
<1>1. /\ f[k].left .. f[k].right - 1 = KeysAt(keys, w, c)
      /\ f[k].left \in KeysAt(keys, w, c) /\ f[k].depth = Len(w) + 1
      /\ f[k] \in DA!Nodes
  BY DEF Fetched
<1>2. f[k].left \in Nat /\ f[k].right \in Nat /\ c \in Nat
  BY <1>1 DEF DA!Nodes
<1>3. c \in Codes(keys, w)
  BY <1>1 DEF KeysAt, Codes
<1>4. c - 1 \in Chars
  <2> DEFINE i == f[k].left
  <2>1. i \in Under(keys, w) /\ CodeOf(keys, w, i) = c
    BY <1>1 DEF KeysAt
  <2>2. keys[i] \in Word /\ Len(w) \in 0 .. Len(keys[i])
    BY <2>1, UnderIs
  <2>3. Len(w) # Len(keys[i])
    BY <2>1, <2>2, CodeIs DEF CodeOf
  <2>4. keys[i][Len(w)+1] \in Chars /\ c = keys[i][Len(w)+1] + 1
    BY <2>1, <2>2, <2>3, CodeIs DEF CodeOf
  <2> QED BY <2>4 DEF Chars
<1> HIDE DEF c
<1>5. c - 1 + 1 = c
  BY <1>2
<1>6. /\ v \in Word /\ Len(v) = Len(w) + 1
      /\ Under(keys, v) = KeysAt(keys, w, c)
  BY <1>4, <1>5, UnderChild DEF KeysAt
<1>7. NodeFor(keys, v, f[k])
  BY <1>1, <1>2, <1>6 DEF NodeFor
<1>8. Fetched(keys, v, DA!Fetch(keys, f[k]))
  BY <1>6, <1>7, FetchIs
<1>9. DA!Fetch(keys, f[k]) # <<>>
  <2>1. Codes(keys, v) # {}
    BY <1>1, <1>6 DEF Codes
  <2>2. IsFiniteSet(Codes(keys, v))
    BY <1>6, CodesAre
  <2>3. Cardinality(Codes(keys, v)) # 0
    BY <2>1, <2>2, FS_EmptySet
  <2>4. Len(DA!Fetch(keys, f[k])) # 0
    BY <1>8, <2>3 DEF Fetched
  <2> QED BY <2>4
<1> QED BY <1>1, <1>3, <1>4, <1>6, <1>7, <1>9 DEF c

(* Brothers: at least one, with growing codes.                             *)
Brothers(f) ==
  /\ f \in Seq(DA!Nodes) /\ Len(f) > 0
  /\ \A i, j \in 1 .. Len(f) : i < j => f[i].code < f[j].code

LEMMA BrothersAre ==
  ASSUME Alphabet \in Nat, NEW keys, GoodKeys(keys), NEW w \in Word,
         Under(keys, w) # {}, NEW f, Fetched(keys, w, f)
  PROVE  /\ Brothers(f)
         /\ \A c : c \in Codes(keys, w) <=> \E i \in 1 .. Len(f) : c = f[i].code
<1> DEFINE C == Codes(keys, w)
<1>1. C # {} /\ C \subseteq 0 .. Alphabet + 1 /\ IsFiniteSet(C) /\ Alphabet + 1 \in Nat
  BY CodesAre DEF Codes
<1>2. f \in Seq(DA!Nodes) /\ Len(f) = Cardinality(C)
      /\ \A i \in 1 .. Len(f) : f[i].code = DA!Nth(C, i)
  BY DEF Fetched
<1> HIDE DEF C
<1>3. Len(f) > 0
  BY <1>1, <1>2, FS_EmptySet, FS_CardinalityType
<1>4. \A i, j \in 1 .. Len(f) : i < j => f[i].code < f[j].code
  BY <1>1, <1>2, NthGrows
<1>5. ASSUME NEW i \in 1 .. Len(f) PROVE f[i].code \in C
  <2>1. i \in 1 .. Cardinality(C)
    BY <1>2
  <2> QED BY <1>1, <1>2, <2>1, NthIs
<1>6. ASSUME NEW c \in C PROVE \E i \in 1 .. Len(f) : c = f[i].code
  <2>1. PICK i \in 1 .. Cardinality(C) : DA!Nth(C, i) = c
    BY <1>1, NthAll
  <2> QED BY <1>2, <2>1
<1> QED BY <1>2, <1>3, <1>4, <1>5, <1>6 DEF Brothers, C
-----------------------------------------------------------------------------
(* Arrays.  A slot in use bears the begin of its node, and the array ends  *)
(* not far behind the last node, however the nodes were placed.            *)
Width == Alphabet + 2

GoodArray(s) ==
  /\ s \in DA!Array
  /\ IsFiniteSet(s.used) /\ 0 \notin s.used /\ \A b \in s.used : b < s.size
  /\ \A p \in DA!Slot : s.check[p] # 0 => s.check[p] \in s.used /\ p < s.size
  /\ s.size <= Cardinality(s.used) * Width + 1 /\ s.next <= s.size
  /\ s.check[0] = 0 /\ s.base[0] = 1

(* t has all that s has, and no slot more that bears a begin of s.         *)
Extends(s, t) ==
  /\ s.used \subseteq t.used
  /\ \A p \in DA!Slot : s.check[p] # 0 \/ p = 0
                        => t.check[p] = s.check[p] /\ t.base[p] = s.base[p]
  /\ \A p \in DA!Slot : t.check[p] \in s.used => t.check[p] = s.check[p]

Roomy(N) == Alphabet \in Nat /\ Cells \in Nat /\ N \in Nat /\ (N + 1) * Width <= Cells

LEMMA TimesGrows ==
  ASSUME NEW a \in Nat, NEW b \in Nat, NEW M \in Nat, a + 1 <= b
  PROVE  a * M + M <= b * M /\ a * M \in Nat /\ b * M \in Nat
  OBVIOUS

LEMMA ExtendsTrans ==
  ASSUME NEW r, NEW s, NEW t, Extends(r, s), Extends(s, t)
  PROVE  Extends(r, t)
  BY DEF Extends

(* What a place must be, and the one that is taken.                        *)
Placed(s, f, pos) ==
  /\ pos \in DA!Slot /\ pos >= DA!StartOf(s, f)
  /\ pos - f[1].code + f[Len(f)].code < Cells
  /\ DA!Fits(s, f, pos)

LEMMA CodesIn ==
  ASSUME Alphabet \in Nat, NEW f, Brothers(f)
  PROVE  /\ Len(f) \in Nat /\ 1 \in 1 .. Len(f) /\ Len(f) \in 1 .. Len(f)
         /\ \A i \in 1 .. Len(f) : /\ f[i].code \in 0 .. Alphabet + 1
                                   /\ f[1].code <= f[i].code /\ f[i].code <= f[Len(f)].code
<1>1. f \in Seq(DA!Nodes) /\ Len(f) > 0
  BY DEF Brothers
<1>2. Len(f) \in Nat /\ 1 \in 1 .. Len(f) /\ Len(f) \in 1 .. Len(f)
  BY <1>1
<1>3. ASSUME NEW i \in 1 .. Len(f) PROVE f[i].code \in 0 .. Alphabet + 1
  <2>1. f[i] \in DA!Nodes
    BY <1>1
  <2> QED BY <2>1 DEF DA!Nodes
<1>4. ASSUME NEW i \in 1 .. Len(f) PROVE f[1].code <= f[i].code
  <2>1. 1 < i \/ 1 = i
    BY <1>2
  <2> QED BY <1>2, <1>3, <2>1 DEF Brothers
<1>5. ASSUME NEW i \in 1 .. Len(f) PROVE f[i].code <= f[Len(f)].code
  <2>1. i < Len(f) \/ i = Len(f)
    BY <1>2
  <2> QED BY <1>2, <1>3, <2>1 DEF Brothers
<1> QED BY <1>2, <1>3, <1>4, <1>5

LEMMA RoomIs ==
  ASSUME NEW N, Roomy(N), NEW s, GoodArray(s), NEW f, Brothers(f),
         Cardinality(s.used) + 1 <= N
  PROVE  /\ Placed(s, f, DA!Room(s, f))
         /\ DA!Room(s, f) - f[1].code <= Cardinality(s.used) * Width + 1
         /\ \A pos : Placed(s, f, pos) => DA!Room(s, f) <= pos
<1> DEFINE n == Cardinality(s.used)
           z == IF s.size = 0 THEN 1 ELSE s.size
           c == f[1].code
           d == f[Len(f)].code
           T == {pos \in DA!Slot : Placed(s, f, pos)}
<1>1. /\ s \in DA!Array /\ IsFiniteSet(s.used) /\ \A b \in s.used : b < s.size
      /\ \A p \in DA!Slot : s.check[p] # 0 => p < s.size
      /\ s.size <= n * Width + 1 /\ s.next <= s.size
  BY DEF GoodArray
<1>2. Alphabet \in Nat /\ Cells \in Nat /\ N \in Nat /\ (N + 1) * Width <= Cells /\ Width \in Nat
  BY DEF Roomy, Width
<1>3. n \in Nat /\ n + 1 <= N
  BY <1>1, FS_CardinalityType
<1>4. s.size \in Nat /\ s.next \in Nat /\ s.check \in [DA!Slot -> Nat] /\ s.used \subseteq Nat
  BY <1>1 DEF DA!Array
<1>5. c \in 0 .. Alphabet + 1 /\ d \in 0 .. Alphabet + 1 /\ c <= d
  BY <1>2, CodesIn
<1>6. n * Width \in Nat /\ n * Width + Width <= N * Width /\ N * Width \in Nat
  BY <1>2, <1>3, TimesGrows
<1>7. (N + 1) * Width = N * Width + Width
  BY <1>2
<1> HIDE DEF n, c, d
<1>8. z \in Nat /\ z >= 1 /\ z <= n * Width + 1 /\ z >= s.size
  BY <1>1, <1>4, <1>6
<1> HIDE DEF z
<1>9. z + d < Cells /\ z + c < Cells /\ z + c \in Nat
  BY <1>2, <1>5, <1>6, <1>7, <1>8 DEF Width
<1>10. Placed(s, f, z + c)
  <2>1. z + c \in DA!Slot
    BY <1>2, <1>9 DEF DA!Slot
  <2>2. z + c >= DA!StartOf(s, f)
    BY <1>1, <1>4, <1>5, <1>8 DEF DA!StartOf, c
  <2>3. (z + c) - c = z
    BY <1>5, <1>8
  <2>4. z \notin s.used
    BY <1>1, <1>4, <1>8
  <2>5. ASSUME NEW i \in 1 .. Len(f) PROVE s.check[z + f[i].code] = 0
    <3>1. f[i].code \in 0 .. Alphabet + 1 /\ f[i].code <= d
      BY <1>2, CodesIn DEF d
    <3>2. z + f[i].code \in 0 .. Cells - 1 /\ ~(z + f[i].code < s.size)
      BY <1>2, <1>4, <1>5, <1>8, <1>9, <3>1
    <3> QED BY <1>1, <3>2 DEF DA!Slot
  <2>6. 1 \in 1 .. Len(f) /\ \A i \in 2 .. Len(f) : i \in 1 .. Len(f)
    BY <1>2, CodesIn
  <2>7. DA!Fits(s, f, z + c)
    <3> DEFINE q == z + c
    <3>1. q - c = z
      BY <2>3
    <3>2. s.check[q] = 0
      BY <2>5, <2>6 DEF c
    <3> HIDE DEF q
    <3>3. q - f[1].code = z
      BY <3>1 DEF c
    <3>4. DA!Fits(s, f, q)
      BY <2>4, <2>5, <2>6, <3>2, <3>3 DEF DA!Fits
    <3> QED BY <3>4 DEF q
  <2> DEFINE q == z + c
  <2>8. q - c = z
    BY <2>3
  <2>9. q \in DA!Slot /\ q >= DA!StartOf(s, f) /\ DA!Fits(s, f, q)
    BY <2>1, <2>2, <2>7
  <2> HIDE DEF q
  <2>10. q - c + d < Cells
    BY <1>9, <2>8
  <2>11. Placed(s, f, q)
    BY <2>9, <2>10 DEF Placed, c, d
  <2> QED BY <2>11 DEF q
<1>11. DA!Room(s, f) = DA!Min(T)
  BY DEF DA!Room, Placed
<1>12. T \subseteq Nat /\ z + c \in T
  BY <1>2, <1>10 DEF DA!Slot, Placed
<1>13. DA!Min(T) \in T /\ \A pos \in T : DA!Min(T) <= pos
  BY <1>12, LeastIs
<1>14. Placed(s, f, DA!Room(s, f)) /\ \A pos : Placed(s, f, pos) => DA!Room(s, f) <= pos
  BY <1>11, <1>13 DEF Placed
<1>15. DA!Room(s, f) \in Nat /\ DA!Room(s, f) <= z + c
  BY <1>11, <1>12, <1>13
<1>16. DA!Room(s, f) - c <= n * Width + 1
  BY <1>5, <1>6, <1>8, <1>15
<1> QED BY <1>14, <1>16 DEF n, c

(* What claim does to the array: the slots of the children are the node's. *)
Claimed(s, f, b, t) ==
  /\ GoodArray(t) /\ Extends(s, t)
  /\ b \in Nat \ {0} /\ b \notin s.used /\ t.used = s.used \cup {b}
  /\ Cardinality(t.used) = Cardinality(s.used) + 1
  /\ \A i \in 1 .. Len(f) : b + f[i].code \in DA!Slot
  /\ \A p \in DA!Slot : t.check[p] = b <=> \E i \in 1 .. Len(f) : p = b + f[i].code

LEMMA NextStartIs ==
  ASSUME Alphabet \in Nat, Cells \in Nat, NEW s, GoodArray(s), NEW f, Brothers(f),
         NEW pos, Placed(s, f, pos)
  PROVE  DA!NextStart(s, f, pos) \in Nat /\ DA!NextStart(s, f, pos) <= pos
<1> DEFINE T == {p \in DA!StartOf(s, f) .. pos : s.check[p] = 0}
<1>1. pos \in Nat /\ pos >= DA!StartOf(s, f) /\ s.check[pos] = 0
  BY DEF Placed, DA!Slot, DA!Fits
<1>2. f[1].code \in Nat /\ s.next \in Nat
  BY CodesIn DEF GoodArray, DA!Array
<1>3. DA!StartOf(s, f) \in Nat
  BY <1>2 DEF DA!StartOf
<1>4. T \subseteq Nat /\ pos \in T
  BY <1>1, <1>3
<1>5. DA!Min(T) \in T /\ DA!Min(T) <= pos
  BY <1>4, LeastIs
<1>6. DA!NextStart(s, f, pos) \in {pos, DA!Min(T)}
  BY DEF DA!NextStart
<1> QED BY <1>1, <1>3, <1>5, <1>6

LEMMA ClaimIs ==
  ASSUME NEW N, Roomy(N), NEW s, GoodArray(s), NEW f, Brothers(f),
         Cardinality(s.used) + 1 <= N
  PROVE  Claimed(s, f, DA!Room(s, f) - f[1].code, DA!Claim(s, f, DA!Room(s, f)))
<1> DEFINE pos == DA!Room(s, f)
           c == f[1].code
           d == f[Len(f)].code
           b == pos - c
           t == DA!Claim(s, f, pos)
           n == Cardinality(s.used)
           own(p) == \E i \in 1 .. Len(f) : p = b + f[i].code
           q == DA!NextStart(s, f, pos)
           e == b + d + 1
           z == IF e > s.size THEN e ELSE s.size
<1>1. Placed(s, f, pos) /\ b <= n * Width + 1
  BY RoomIs
<1>2. /\ s \in DA!Array /\ IsFiniteSet(s.used) /\ 0 \notin s.used
      /\ \A u \in s.used : u < s.size
      /\ \A p \in DA!Slot : s.check[p] # 0 => s.check[p] \in s.used /\ p < s.size
      /\ s.size <= n * Width + 1 /\ s.next <= s.size
      /\ s.check[0] = 0 /\ s.base[0] = 1
  BY DEF GoodArray
<1>3. /\ s.size \in Nat /\ s.next \in Nat /\ s.check \in [DA!Slot -> Nat]
      /\ s.base \in [DA!Slot -> Int] /\ s.used \subseteq Nat
      /\ DOMAIN s = {"base", "check", "used", "size", "next"}
  BY <1>2 DEF DA!Array
<1>4. Alphabet \in Nat /\ Cells \in Nat /\ Width = Alphabet + 2
  BY DEF Roomy, Width
<1>5. /\ Len(f) \in Nat /\ 1 \in 1 .. Len(f) /\ Len(f) \in 1 .. Len(f)
      /\ \A i \in 1 .. Len(f) : f[i].code \in 0 .. Alphabet + 1 /\ c <= f[i].code /\ f[i].code <= d
  BY <1>4, CodesIn
<1>6. /\ c \in Nat /\ d \in Nat /\ d <= Alphabet + 1 /\ c <= d
  BY <1>4, <1>5
<1>7. q \in Nat /\ q <= pos
  BY <1>1, <1>4, NextStartIs
<1>8. n \in Nat
  BY <1>2, FS_CardinalityType
<1>9. n * Width \in Nat /\ (n + 1) * Width = n * Width + Width
  BY <1>4, <1>8
<1>10. /\ pos \in DA!Slot /\ pos >= DA!StartOf(s, f) /\ b + d < Cells
       /\ s.check[pos] = 0 /\ b \notin s.used
       /\ \A i \in 2 .. Len(f) : s.check[b + f[i].code] = 0
  BY <1>1 DEF Placed, DA!Fits
<1>11. pos \in Nat /\ pos > c
  BY <1>3, <1>4, <1>6, <1>10 DEF DA!StartOf, DA!Slot
<1>12. t = [s EXCEPT !.used = @ \cup {b}, !.size = z, !.next = q,
                     !.check = [p \in DA!Slot |-> IF own(p) THEN b ELSE @[p]]]
  BY DEF DA!Claim, DA!Reach
<1>13. /\ t.used = s.used \cup {b} /\ t.size = z /\ t.next = q /\ t.base = s.base
       /\ t.check = [p \in DA!Slot |-> IF own(p) THEN b ELSE s.check[p]]
       /\ DOMAIN t = DOMAIN s
       /\ t = [base |-> t.base, check |-> t.check, used |-> t.used, size |-> t.size, next |-> t.next]
  BY <1>2, <1>3, <1>12 DEF DA!Array
<1> HIDE DEF pos, c, d, t, n, q
<1>14. b \in Nat \ {0} /\ pos = b + c
  BY <1>6, <1>11
<1> HIDE DEF b
<1>15. e \in Nat /\ z \in Nat /\ e <= z /\ s.size <= z /\ z \in {e, s.size}
  BY <1>3, <1>6, <1>14
<1> HIDE DEF z
<1>16. ASSUME NEW i \in 1 .. Len(f)
       PROVE  /\ b + f[i].code \in DA!Slot /\ s.check[b + f[i].code] = 0
              /\ b + f[i].code < z /\ b + f[i].code # 0
  <2>1. f[i].code \in Nat /\ f[i].code <= d
    BY <1>4, <1>5
  <2>2. b + f[i].code \in 0 .. Cells - 1 /\ b + f[i].code < z /\ b + f[i].code # 0
    BY <1>4, <1>6, <1>10, <1>14, <1>15, <2>1
  <2>3. i = 1 \/ i \in 2 .. Len(f)
    OBVIOUS
  <2>4. i = 1 => b + f[i].code = pos
    BY <1>14 DEF c
  <2> QED BY <1>10, <2>2, <2>3, <2>4 DEF DA!Slot
<1>17. \A p \in DA!Slot : own(p) => s.check[p] = 0 /\ p < z /\ p # 0
  BY <1>16
<1> HIDE DEF own, e
<1>18. \A p \in DA!Slot : t.check[p] = IF own(p) THEN b ELSE s.check[p]
  BY <1>13
<1>19. \A p \in DA!Slot : s.check[p] # b
  BY <1>2, <1>10, <1>14
<1>20. t \in DA!Array
  <2>1. t.check \in [DA!Slot -> Nat]
    BY <1>3, <1>13, <1>14
  <2> QED BY <1>3, <1>7, <1>13, <1>14, <1>15, <2>1 DEF DA!Array
<1>21. Cardinality(t.used) = n + 1 /\ IsFiniteSet(t.used)
  BY <1>2, <1>10, <1>13, FS_AddElement DEF n
<1>22. z <= (n + 1) * Width + 1
  <2>1. e <= n * Width + 1 + Width
    BY <1>1, <1>4, <1>6, <1>9, <1>14 DEF e
  <2> QED BY <1>2, <1>3, <1>4, <1>9, <1>15, <2>1
<1>23. b < z /\ q <= z
  <2>1. b < e /\ pos < e
    BY <1>6, <1>14 DEF e
  <2> QED BY <1>7, <1>11, <1>14, <1>15, <2>1
<1>24. 0 \in DA!Slot /\ ~own(0)
  <2>1. 0 \in DA!Slot
    BY <1>10, <1>4 DEF DA!Slot
  <2> QED BY <1>17, <2>1
<1>25. GoodArray(t)
  <2>1. 0 \notin t.used
    BY <1>2, <1>13, <1>14
  <2>2. \A u \in t.used : u < t.size
    <3>1. \A u \in s.used : u < z
      BY <1>2, <1>3, <1>15
    <3> QED BY <1>13, <1>23, <3>1
  <2>3. ASSUME NEW p \in DA!Slot, t.check[p] # 0 PROVE t.check[p] \in t.used /\ p < t.size
    <3>1. CASE own(p)
      BY <1>13, <1>17, <1>18, <3>1
    <3>2. CASE ~own(p)
      <4>1. s.check[p] # 0 /\ t.check[p] = s.check[p]
        BY <1>18, <2>3, <3>2
      <4>2. s.check[p] \in s.used /\ p < s.size /\ p \in Nat
        BY <1>2, <4>1 DEF DA!Slot
      <4> QED BY <1>3, <1>13, <1>15, <4>1, <4>2
    <3> QED BY <3>1, <3>2
  <2>4. t.check[0] = 0 /\ t.base[0] = 1
    BY <1>2, <1>13, <1>18, <1>24
  <2> QED BY <1>13, <1>20, <1>21, <1>22, <1>23, <2>1, <2>2, <2>3, <2>4 DEF GoodArray
<1>26. Extends(s, t)
  <2>1. \A p \in DA!Slot : s.check[p] # 0 \/ p = 0 => ~own(p)
    BY <1>17
  <2>2. \A p \in DA!Slot : t.check[p] \in s.used => t.check[p] = s.check[p]
    BY <1>10, <1>18
  <2> QED BY <1>13, <1>18, <2>1, <2>2 DEF Extends
<1>27. \A p \in DA!Slot : t.check[p] = b <=> own(p)
  BY <1>18, <1>19
<1> QED BY <1>10, <1>13, <1>14, <1>16, <1>21, <1>25, <1>26, <1>27 DEF Claimed, own, n, t, pos, b, c
-----------------------------------------------------------------------------
(* One child filed: its value, or what below inserts.                      *)
FiledOne(keys, value, f, below, b, t, i) ==
  LET here == b + f[i].code
      kids == DA!Fetch(keys, f[i])
      sub  == below[<<t, kids>>]
  IN  IF kids = <<>>
      THEN [t EXCEPT !.base[here] = - value[f[i].left] - 1]
      ELSE [sub.da EXCEPT !.base[here] = sub.begin]

LEMMA FiledIs ==
  ASSUME NEW s, NEW keys, NEW value, NEW f, NEW below, Len(f) \in Nat
  PROVE  LET a == DA!Filed(s, keys, value, f, below)
             b == DA!Room(s, f) - f[1].code
         IN  /\ a[0] = DA!Claim(s, f, DA!Room(s, f))
             /\ \A i \in 1 .. Len(f) : a[i] = FiledOne(keys, value, f, below, b, a[i-1], i)
<1> DEFINE m == Len(f)
           b == DA!Room(s, f) - f[1].code
           X == DA!Claim(s, f, DA!Room(s, f))
           Y(t, i) == FiledOne(keys, value, f, below, b, t, i)
           Is(g, k) == g = [i \in 0 .. k |-> IF i = 0 THEN X ELSE Y(g[i-1], i)]
           T == {k \in Nat : k <= m => \E g : Is(g, k)}
           a == CHOOSE g : Is(g, m)
<1>1. DA!Filed(s, keys, value, f, below) = a
  BY DEF DA!Filed, FiledOne
<1> HIDE DEF X, Y
<1>2. 0 \in T
  <2>1. Is([i \in 0 .. 0 |-> X], 0)
    OBVIOUS
  <2> QED BY <2>1
<1>3. ASSUME NEW k \in 0 .. m - 1, k \in T PROVE k + 1 \in T
  <2>1. PICK g : Is(g, k)
    BY <1>3
  <2> DEFINE h == [i \in 0 .. k + 1 |-> IF i = k + 1 THEN Y(g[k], k + 1) ELSE g[i]]
  <2>2. k \in Nat /\ k + 1 \in Nat
    OBVIOUS
  <2>3. \A i \in 0 .. k : h[i] = g[i]
    BY <2>2
  <2>4. ASSUME NEW i \in 0 .. k + 1 PROVE h[i] = IF i = 0 THEN X ELSE Y(h[i-1], i)
    <3>1. CASE i = k + 1
      <4>1. h[i] = Y(g[k], k + 1) /\ i - 1 = k /\ h[k] = g[k] /\ i # 0
        BY <2>2, <2>3, <3>1
      <4> QED BY <3>1, <4>1
    <3>2. CASE i # k + 1 /\ i # 0
      <4>1. i \in 0 .. k /\ i - 1 \in 0 .. k
        BY <2>2, <3>2
      <4>2. h[i] = g[i] /\ h[i-1] = g[i-1]
        BY <2>3, <4>1
      <4> QED BY <2>1, <3>2, <4>1, <4>2
    <3>3. CASE i = 0
      <4>1. 0 \in 0 .. k /\ h[0] = g[0]
        BY <2>2, <2>3
      <4> QED BY <2>1, <3>3, <4>1
    <3> QED BY <3>1, <3>2, <3>3
  <2> HIDE DEF Y
  <2>5. Is(h, k + 1)
    <3> DEFINE h2 == [i \in 0 .. k + 1 |-> IF i = 0 THEN X ELSE Y(h[i-1], i)]
    <3>1. \A i \in 0 .. k + 1 : h[i] = h2[i]
      BY <2>4
    <3>2. DOMAIN h = 0 .. k + 1 /\ DOMAIN h2 = 0 .. k + 1
      OBVIOUS
    <3>3. h = [i \in 0 .. k + 1 |-> h[i]] /\ h2 = [i \in 0 .. k + 1 |-> h2[i]]
      OBVIOUS
    <3> HIDE DEF h
    <3>4. h = h2
      BY <3>1, <3>3
    <3> QED BY <3>4
  <2> HIDE DEF h, Is
  <2> QED BY <2>2, <2>5
<1> HIDE DEF T
<1>4. m \in T
  <2>1. 0 .. m \subseteq T
    BY <1>2, <1>3, UpTo
  <2> QED BY <2>1
<1>5. \E g : Is(g, m)
  BY <1>4 DEF T
<1>6. Is(a, m)
  BY <1>5
<1> HIDE DEF a
<1>7. /\ a[0] = X
      /\ \A i \in 1 .. m : a[i] = Y(a[i-1], i)
  BY <1>6
<1> QED BY <1>1, <1>7 DEF X, Y

OneHigher(keys, value, below) ==
  [x \in DA!Array \X Seq(DA!Nodes) |-> DA!Insert(x[1], keys, value, x[2], below)]

LEMMA InsertingIs ==
  ASSUME NEW keys, NEW value, DA!Height(keys) \in Nat, NEW n \in 1 .. DA!Height(keys)
  PROVE  DA!Inserting(keys, value)[n] = OneHigher(keys, value, DA!Inserting(keys, value)[n-1])
<1> DEFINE m == DA!Height(keys)
           Y(t) == OneHigher(keys, value, t)
           Is(g, k) == g = [i \in 0 .. k |-> IF i = 0 THEN <<>> ELSE Y(g[i-1])]
           T == {k \in Nat : k <= m => \E g : Is(g, k)}
           a == CHOOSE g : Is(g, m)
<1>1. DA!Inserting(keys, value) = a
  BY DEF DA!Inserting, OneHigher
<1> HIDE DEF Y
<1>2. 0 \in T
  <2>1. Is([i \in 0 .. 0 |-> <<>>], 0)
    OBVIOUS
  <2> QED BY <2>1
<1>3. ASSUME NEW k \in 0 .. m - 1, k \in T PROVE k + 1 \in T
  <2>1. PICK g : Is(g, k)
    BY <1>3
  <2> DEFINE h == [i \in 0 .. k + 1 |-> IF i = k + 1 THEN Y(g[k]) ELSE g[i]]
  <2>2. k \in Nat /\ k + 1 \in Nat
    OBVIOUS
  <2>3. \A i \in 0 .. k : h[i] = g[i]
    BY <2>2
  <2>4. ASSUME NEW i \in 0 .. k + 1 PROVE h[i] = IF i = 0 THEN <<>> ELSE Y(h[i-1])
    <3>1. CASE i = k + 1
      <4>1. h[i] = Y(g[k]) /\ i - 1 = k /\ h[k] = g[k] /\ i # 0
        BY <2>2, <2>3, <3>1
      <4> QED BY <3>1, <4>1
    <3>2. CASE i # k + 1 /\ i # 0
      <4>1. i \in 0 .. k /\ i - 1 \in 0 .. k
        BY <2>2, <3>2
      <4>2. h[i] = g[i] /\ h[i-1] = g[i-1]
        BY <2>3, <4>1
      <4> QED BY <2>1, <3>2, <4>1, <4>2
    <3>3. CASE i = 0
      <4>1. 0 \in 0 .. k /\ h[0] = g[0]
        BY <2>2, <2>3
      <4> QED BY <2>1, <3>3, <4>1
    <3> QED BY <3>1, <3>2, <3>3
  <2>5. Is(h, k + 1)
    <3> DEFINE h2 == [i \in 0 .. k + 1 |-> IF i = 0 THEN <<>> ELSE Y(h[i-1])]
    <3>1. \A i \in 0 .. k + 1 : h[i] = h2[i]
      BY <2>4
    <3>2. h = [i \in 0 .. k + 1 |-> h[i]] /\ h2 = [i \in 0 .. k + 1 |-> h2[i]]
      OBVIOUS
    <3> HIDE DEF h
    <3>3. h = h2
      BY <3>1, <3>2
    <3> QED BY <3>3
  <2> HIDE DEF h, Is
  <2> QED BY <2>2, <2>5
<1> HIDE DEF T
<1>4. m \in T
  <2>1. 0 .. m \subseteq T
    BY <1>2, <1>3, UpTo
  <2> QED BY <2>1
<1>5. \E g : Is(g, m)
  BY <1>4 DEF T
<1>6. Is(a, m)
  BY <1>5
<1> HIDE DEF a
<1>7. \A i \in 1 .. m : a[i] = Y(a[i-1])
  BY <1>6
<1> QED BY <1>1, <1>7 DEF Y
-----------------------------------------------------------------------------
(* The words that lead to a key from w on, and how a node lies in an array.*)
Below(keys, w) == {u \in Word : Leads(w, u) /\ Under(keys, u) # {}}

LEMMA PrefixIs ==
  ASSUME NEW k \in Word, NEW n \in 0 .. Len(k)
  PROVE  /\ SubSeq(k, 1, n) \in Word /\ Len(SubSeq(k, 1, n)) = n
         /\ \A i \in 1 .. n : SubSeq(k, 1, n)[i] = k[i]
<1>1. n \in Nat /\ \A i \in 1 .. n : k[i] \in Chars
  BY DEF Word
<1> QED BY <1>1 DEF Word

LEMMA BranchesAre ==
  ASSUME Alphabet \in Nat, NEW keys, GoodKeys(keys)
  PROVE  /\ Below(keys, <<>>) = Branches(keys)
         /\ IsFiniteSet(Branches(keys)) /\ Cardinality(Branches(keys)) \in Nat
<1>1. \A i \in DOMAIN keys : keys[i] \in Word
  BY DEF GoodKeys
<1>2. ASSUME NEW u, NEW i \in DOMAIN keys
      PROVE  u \in PrefixesOf(keys[i]) <=> u \in Word /\ Leads(u, keys[i])
  <2> DEFINE k == keys[i]
  <2>1. k \in Word /\ Len(k) \in Nat
    BY <1>1 DEF Word
  <2> HIDE DEF k
  <2>2. ASSUME NEW n \in 0 .. Len(k), u = SubSeq(k, 1, n) PROVE u \in Word /\ Leads(u, k)
    <3>1. /\ u \in Word /\ Len(u) = n /\ \A m \in 1 .. n : u[m] = k[m]
      BY <2>1, <2>2, PrefixIs
    <3>2. n <= Len(k)
      BY <2>1
    <3> QED BY <3>1, <3>2 DEF Leads
  <2>3. ASSUME u \in Word, Leads(u, k) PROVE \E n \in 0 .. Len(k) : u = SubSeq(k, 1, n)
    <3>1. Len(u) \in 0 .. Len(k) /\ \A m \in 1 .. Len(u) : k[m] = u[m]
      BY <2>1, <2>3 DEF Leads, Word
    <3> DEFINE v == SubSeq(k, 1, Len(u))
    <3>2. v \in Word /\ Len(v) = Len(u) /\ \A m \in 1 .. Len(u) : v[m] = k[m]
      BY <2>1, <3>1, PrefixIs
    <3> HIDE DEF v
    <3>3. u = v
      BY <2>3, <3>1, <3>2, SameWord DEF Word
    <3> QED BY <3>1, <3>3 DEF v
  <2> QED BY <2>2, <2>3 DEF PrefixesOf, k
<1>3. \A u \in Word : Leads(<<>>, u)
  BY DEF Leads, Word
<1>4. \A u : u \in Below(keys, <<>>) <=> u \in Branches(keys)
  BY <1>2, <1>3 DEF Below, Under, Branches
<1>5. ASSUME NEW i \in DOMAIN keys PROVE IsFiniteSet(PrefixesOf(keys[i]))
  <2>1. Len(keys[i]) \in Nat
    BY <1>1 DEF Word
  <2>2. IsFiniteSet(0 .. Len(keys[i]))
    BY <2>1, FS_Interval
  <2> DEFINE g == [n \in 0 .. Len(keys[i]) |-> SubSeq(keys[i], 1, n)]
  <2>3. PrefixesOf(keys[i]) = {g[n] : n \in DOMAIN g} /\ DOMAIN g = 0 .. Len(keys[i])
    BY DEF PrefixesOf
  <2>4. g \in Surjection(0 .. Len(keys[i]), PrefixesOf(keys[i]))
    BY <2>3 DEF Surjection
  <2> HIDE DEF g
  <2> QED BY <2>2, <2>4, FS_Surjection DEF ExistsSurjection
<1> DEFINE P == [i \in DOMAIN keys |-> PrefixesOf(keys[i])]
           R == {PrefixesOf(keys[i]) : i \in DOMAIN keys}
<1>6. IsFiniteSet(R)
  <2>1. DOMAIN keys = 1 .. Len(keys) /\ Len(keys) \in Nat
    BY DEF GoodKeys
  <2>2. IsFiniteSet(DOMAIN keys)
    BY <2>1, FS_Interval
  <2>3. P \in Surjection(DOMAIN keys, R)
    BY DEF Surjection
  <2> HIDE DEF P, R
  <2> QED BY <2>2, <2>3, FS_Surjection DEF ExistsSurjection
<1>7. \A S \in R : IsFiniteSet(S)
  BY <1>5
<1> HIDE DEF R
<1>8. IsFiniteSet(UNION R)
  BY <1>6, <1>7, FS_UNION
<1>9. IsFiniteSet(Branches(keys))
  BY <1>8 DEF R, Branches
<1> QED BY <1>4, <1>9, FS_CardinalityType

LEMMA BelowFinite ==
  ASSUME Alphabet \in Nat, NEW keys, GoodKeys(keys), NEW w \in Word
  PROVE  IsFiniteSet(Below(keys, w)) /\ Cardinality(Below(keys, w)) \in Nat
<1>1. \A u \in Word : Leads(<<>>, u)
  BY DEF Leads, Word
<1>2. Below(keys, w) \subseteq Below(keys, <<>>)
  BY <1>1 DEF Below
<1>3. IsFiniteSet(Below(keys, <<>>))
  BY BranchesAre
<1> QED BY <1>2, <1>3, FS_Subset, FS_CardinalityType

(* g names the begin of every node: where that of u lies, its slots are    *)
(* those of its next codes, and bear the begins of the longer words or the *)
(* value of the key.                                                       *)
Index(keys, w) == CHOOSE i \in DOMAIN keys : keys[i] = w

Bears(keys, value, g, u, c) ==
  IF c = 0 THEN - value[Index(keys, u)] - 1 ELSE g[Append(u, c - 1)]

Lies(s, keys, b, u) ==
  /\ b \in s.used
  /\ \A c \in Codes(keys, u) : b + c \in DA!Slot
  /\ \A p \in DA!Slot : s.check[p] = b <=> \E c \in Codes(keys, u) : p = b + c

Laid(s, keys, value, g, u) ==
  /\ Lies(s, keys, g[u], u)
  /\ \A c \in Codes(keys, u) : s.base[g[u] + c] = Bears(keys, value, g, u, c)

LEMMA LaidStays ==
  ASSUME NEW s, NEW t, GoodArray(s), Extends(s, t),
         NEW keys, NEW value, NEW g, NEW u, Laid(s, keys, value, g, u)
  PROVE  Laid(t, keys, value, g, u)
<1> DEFINE b == g[u]
           C == Codes(keys, u)
<1>1. /\ b \in s.used /\ \A c \in C : b + c \in DA!Slot
      /\ \A p \in DA!Slot : s.check[p] = b <=> \E c \in C : p = b + c
      /\ \A c \in C : s.base[b + c] = Bears(keys, value, g, u, c)
  BY DEF Laid, Lies
<1>2. b # 0
  BY <1>1 DEF GoodArray
<1>3. ASSUME NEW p \in DA!Slot PROVE t.check[p] = b <=> s.check[p] = b
  BY <1>1, <1>2 DEF Extends
<1>4. ASSUME NEW c \in C PROVE t.base[b + c] = s.base[b + c]
  <2>1. s.check[b + c] = b /\ b + c \in DA!Slot
    BY <1>1
  <2> QED BY <1>2, <2>1 DEF Extends
<1>5. b \in t.used
  BY <1>1 DEF Extends
<1> HIDE DEF b, C
<1>6. Lies(t, keys, b, u)
  BY <1>1, <1>3, <1>5 DEF Lies, C
<1> QED BY <1>1, <1>4, <1>6 DEF Laid, b, C

Edited(s, here, v) == [s EXCEPT !.base[here] = v]

LEMMA EditedIs ==
  ASSUME NEW s \in DA!Array, NEW here \in DA!Slot, NEW v \in Int
  PROVE  /\ Edited(s, here, v) \in DA!Array
         /\ Edited(s, here, v).used = s.used /\ Edited(s, here, v).check = s.check
         /\ Edited(s, here, v).size = s.size /\ Edited(s, here, v).next = s.next
         /\ \A p \in DA!Slot : Edited(s, here, v).base[p] = IF p = here THEN v ELSE s.base[p]
  BY DEF DA!Array, Edited

LEMMA LaidEdited ==
  ASSUME NEW s \in DA!Array, NEW here \in DA!Slot, NEW v \in Int,
         NEW keys, NEW value, NEW g, NEW u, Laid(s, keys, value, g, u),
         s.check[here] # g[u]
  PROVE  Laid(Edited(s, here, v), keys, value, g, u)
<1> DEFINE t == Edited(s, here, v)
<1>1. /\ t.used = s.used /\ t.check = s.check
      /\ \A p \in DA!Slot : t.base[p] = IF p = here THEN v ELSE s.base[p]
  BY EditedIs
<1> HIDE DEF t
<1>2. Lies(t, keys, g[u], u)
  BY <1>1 DEF Laid, Lies
<1>3. ASSUME NEW c \in Codes(keys, u) PROVE t.base[g[u] + c] = s.base[g[u] + c]
  <2>1. g[u] + c \in DA!Slot /\ s.check[g[u] + c] = g[u]
    BY DEF Laid, Lies
  <2> QED BY <1>1, <2>1
<1> QED BY <1>2, <1>3 DEF Laid, t

LEMMA GoodEdited ==
  ASSUME Cells \in Nat, NEW s, GoodArray(s), NEW here \in DA!Slot, here # 0, NEW v \in Int
  PROVE  GoodArray(Edited(s, here, v))
<1> DEFINE t == Edited(s, here, v)
<1>1. s \in DA!Array
  BY DEF GoodArray
<1>2. /\ t \in DA!Array /\ t.used = s.used /\ t.check = s.check
      /\ t.size = s.size /\ t.next = s.next
      /\ \A p \in DA!Slot : t.base[p] = IF p = here THEN v ELSE s.base[p]
  BY <1>1, EditedIs
<1>3. here \in 0 .. Cells - 1
  BY DEF DA!Slot
<1>4. 0 \in DA!Slot
  BY <1>3 DEF DA!Slot
<1> HIDE DEF t
<1> QED BY <1>2, <1>4 DEF GoodArray, t

LEMMA ExtendsEdited ==
  ASSUME NEW s, NEW t, t \in DA!Array, Extends(s, t), NEW here \in DA!Slot, here # 0,
         s.check[here] = 0, NEW v \in Int
  PROVE  Extends(s, Edited(t, here, v))
<1> DEFINE u == Edited(t, here, v)
<1>1. /\ u.used = t.used /\ u.check = t.check
      /\ \A p \in DA!Slot : u.base[p] = IF p = here THEN v ELSE t.base[p]
  BY EditedIs
<1> HIDE DEF u
<1> QED BY <1>1 DEF Extends, u

(* What an insertion of the children of w gives.                           *)
Inserted(s, r, keys, value, w) ==
  /\ GoodArray(r.da) /\ Extends(s, r.da)
  /\ Cardinality(r.da.used) = Cardinality(s.used) + Cardinality(Below(keys, w))
  /\ r.begin \in Nat
  /\ \E g : /\ g[w] = r.begin
            /\ \A u \in Below(keys, w) : g[u] \notin s.used /\ Laid(r.da, keys, value, g, u)

Inserts(below, keys, value, N, w) ==
  \A nd, s : /\ NodeFor(keys, w, nd) /\ GoodArray(s)
             /\ Cardinality(s.used) + Cardinality(Below(keys, w)) <= N
             => Inserted(s, below[<<s, DA!Fetch(keys, nd)>>], keys, value, w)

(* The words below the first i children, and w.                            *)
Part(keys, w, f, i) ==
  {w} \cup {u \in Below(keys, w) : /\ Len(u) > Len(w)
                                   /\ \E j \in 1 .. i : u[Len(w)+1] + 1 = f[j].code}

LEMMA PartIs ==
  ASSUME Alphabet \in Nat, NEW keys, GoodKeys(keys), NEW w \in Word, Under(keys, w) # {},
         NEW f, Fetched(keys, w, f)
  PROVE  /\ Part(keys, w, f, 0) = {w}
         /\ Part(keys, w, f, Len(f)) = Below(keys, w)
         /\ \A i \in 0 .. Len(f) : w \in Part(keys, w, f, i) /\ Part(keys, w, f, i) \subseteq Below(keys, w)
         /\ \A i \in 1 .. Len(f) : f[i].code = 0 => Part(keys, w, f, i) = Part(keys, w, f, i - 1)
<1> DEFINE d == Len(w)
<1>0. d \in Nat /\ Brothers(f) /\ Len(f) \in Nat
  BY BrothersAre DEF Word, Brothers
<1>1. w \in Below(keys, w)
  BY <1>0 DEF Below, Leads
<1>2. ASSUME NEW u \in Below(keys, w), Len(u) > d PROVE u[d+1] \in Chars
  <2>1. u \in Word /\ Len(u) \in Nat
    BY DEF Below, Word
  <2>2. d + 1 \in 1 .. Len(u)
    BY <1>0, <1>2, <2>1
  <2> QED BY <2>1, <2>2 DEF Word
<1>3. ASSUME NEW u \in Below(keys, w), u # w
      PROVE  Len(u) > d /\ \E j \in 1 .. Len(f) : u[d+1] + 1 = f[j].code
  <2>1. u \in Word /\ Leads(w, u) /\ Len(u) \in Nat
    BY DEF Below, Word
  <2>2. Len(u) > d
    <3> SUFFICES ASSUME Len(u) = d PROVE FALSE
      BY <1>0, <2>1 DEF Leads
    <3>1. u = w
      BY <2>1, SameWord DEF Word, Leads
    <3> QED BY <1>3, <3>1
  <2>3. PICK k \in Under(keys, u) : TRUE
    BY DEF Below
  <2>4. Leads(w, keys[k]) /\ keys[k][d+1] = u[d+1] /\ d + 1 <= Len(keys[k]) /\ k \in DOMAIN keys
    <3>1. Leads(u, keys[k]) /\ k \in DOMAIN keys
      BY <2>3 DEF Under
    <3>2. keys[k] \in Word /\ Len(keys[k]) \in Nat
      BY <3>1 DEF GoodKeys, Word
    <3>3. \A m \in 1 .. d : m \in 1 .. Len(u)
      BY <1>0, <2>1, <2>2
    <3>4. d + 1 \in 1 .. Len(u) /\ d <= Len(keys[k]) /\ d + 1 <= Len(keys[k])
      BY <1>0, <2>1, <2>2, <3>1, <3>2 DEF Leads
    <3> QED BY <2>1, <3>1, <3>3, <3>4 DEF Leads
  <2>5. k \in Under(keys, w)
    BY <2>4 DEF Under
  <2>6. keys[k] \in Word /\ d \in 0 .. Len(keys[k]) /\ d # Len(keys[k])
    BY <1>0, <2>4, <2>5, UnderIs
  <2>7. CodeOf(keys, w, k) = u[d+1] + 1
    BY <2>4, <2>6, CodeIs DEF CodeOf
  <2>8. u[d+1] + 1 \in Codes(keys, w)
    BY <2>5, <2>7 DEF Codes
  <2> QED BY <2>2, <2>8, BrothersAre
<1>4. Part(keys, w, f, 0) = {w}
  BY DEF Part
<1>5. Part(keys, w, f, Len(f)) = Below(keys, w)
  BY <1>1, <1>3 DEF Part
<1>6. \A i \in 0 .. Len(f) : w \in Part(keys, w, f, i) /\ Part(keys, w, f, i) \subseteq Below(keys, w)
  BY <1>1 DEF Part
<1>7. ASSUME NEW i \in 1 .. Len(f), f[i].code = 0
      PROVE  Part(keys, w, f, i) = Part(keys, w, f, i - 1)
  <2>1. ASSUME NEW u \in Below(keys, w), Len(u) > d
        PROVE  (\E j \in 1 .. i : u[d+1] + 1 = f[j].code)
                  <=> (\E j \in 1 .. i - 1 : u[d+1] + 1 = f[j].code)
    <3>1. u[d+1] \in Nat
      BY <1>2, <2>1 DEF Chars
    <3>2. u[d+1] + 1 # f[i].code
      BY <1>7, <3>1
    <3>3. \A j \in 1 .. i : j = i \/ j \in 1 .. i - 1
      BY <1>0
    <3>4. \A j \in 1 .. i - 1 : j \in 1 .. i
      BY <1>0
    <3> QED BY <3>2, <3>3, <3>4
  <2> QED BY <2>1 DEF Part
<1> QED BY <1>4, <1>5, <1>6, <1>7

(* Another child adds the words below it, and none twice.                  *)
Splits(keys, w, f, i, v) ==
  /\ Part(keys, w, f, i) = Part(keys, w, f, i - 1) \cup Below(keys, v)
  /\ Part(keys, w, f, i - 1) \cap Below(keys, v) = {}

LEMMA PartNext ==
  ASSUME Alphabet \in Nat, NEW keys, GoodKeys(keys), NEW w \in Word, Under(keys, w) # {},
         NEW f, Fetched(keys, w, f), NEW i \in 1 .. Len(f), f[i].code # 0,
         NEW v, v = Append(w, f[i].code - 1)
  PROVE  Splits(keys, w, f, i, v)
<1> DEFINE d == Len(w)
           c == f[i].code - 1
<1>1. c \in Chars /\ c + 1 = f[i].code
  <2>1. c \in Chars
    BY ChildIs
  <2>2. f[i] \in DA!Nodes
    BY DEF Fetched
  <2> QED BY <2>1, <2>2 DEF DA!Nodes
<1>2. Brothers(f) /\ Len(f) \in Nat /\ d \in Nat
  BY BrothersAre DEF Brothers, Word
<1>3. v \in Word /\ Len(v) = d + 1 /\ v[d+1] = c /\ \A m \in 1 .. d : v[m] = w[m]
  BY <1>1, <1>2 DEF Word
<1> HIDE DEF c
<1>4. ASSUME NEW u \in Word, Under(keys, u) # {}
      PROVE  Leads(v, u) <=> Leads(w, u) /\ Len(u) > d /\ u[d+1] + 1 = f[i].code
  <2>1. Len(u) \in Nat
    BY DEF Word
  <2>2. ASSUME Leads(v, u) PROVE Leads(w, u) /\ Len(u) > d /\ u[d+1] + 1 = f[i].code
    <3>1. d + 1 <= Len(u) /\ d + 1 \in 1 .. Len(v) /\ \A m \in 1 .. d : m \in 1 .. Len(v)
      BY <1>2, <1>3, <2>2 DEF Leads
    <3>2. u[d+1] = c /\ \A m \in 1 .. d : u[m] = w[m]
      BY <1>3, <2>2, <3>1 DEF Leads
    <3>3. d <= Len(u) /\ d < Len(u)
      BY <1>2, <2>1, <3>1
    <3> QED BY <1>1, <3>2, <3>3 DEF Leads
  <2>3. ASSUME Leads(w, u), Len(u) > d, u[d+1] + 1 = f[i].code PROVE Leads(v, u)
    <3>1. Len(v) <= Len(u) /\ d + 1 \in 1 .. Len(u)
      BY <1>2, <1>3, <2>1, <2>3
    <3>2. u[d+1] \in Chars
      BY <3>1 DEF Word
    <3>3. u[d+1] = c
      BY <1>1, <2>3, <3>2 DEF Chars
    <3>4. ASSUME NEW m \in 1 .. Len(v) PROVE u[m] = v[m]
      <4>1. m \in 1 .. d \/ m = d + 1
        BY <1>2, <1>3
      <4> QED BY <1>3, <2>3, <3>3, <4>1 DEF Leads
    <3> QED BY <3>1, <3>4 DEF Leads
  <2> QED BY <2>2, <2>3
<1>5. Below(keys, v) = {u \in Below(keys, w) : Len(u) > d /\ u[d+1] + 1 = f[i].code}
  BY <1>4 DEF Below
<1>6. Part(keys, w, f, i) = Part(keys, w, f, i - 1) \cup Below(keys, v)
  <2>1. \A j : j \in 1 .. i <=> j = i \/ j \in 1 .. i - 1
    BY <1>2
  <2> QED BY <1>5, <2>1 DEF Part
<1>7. \A u \in Below(keys, v) : u # w
  BY <1>2, <1>5
<1>8. Part(keys, w, f, i - 1) \cap Below(keys, v) = {}
  <2> SUFFICES ASSUME NEW u \in Part(keys, w, f, i - 1), u \in Below(keys, v) PROVE FALSE
    OBVIOUS
  <2>1. u # w /\ u[d+1] + 1 = f[i].code
    BY <1>5, <1>7
  <2>2. PICK j \in 1 .. i - 1 : u[d+1] + 1 = f[j].code
    BY <2>1 DEF Part
  <2>3. f[j].code < f[i].code
    BY <1>2, <2>2 DEF Brothers
  <2>4. f[i].code \in Nat
    BY <1>1 DEF Chars
  <2> QED BY <2>1, <2>2, <2>3, <2>4
<1> QED BY <1>6, <1>8 DEF Splits
-----------------------------------------------------------------------------
ValuesFor(keys, value) == \A k \in DOMAIN keys : value[k] \in Int

(* Inserting the children of w: what the array is after i of them.         *)
FiledTo(s, t, keys, value, w, f, b, i) ==
  /\ GoodArray(t) /\ Extends(s, t)
  /\ b \in Nat \ {0} /\ b \in t.used /\ b \notin s.used
  /\ Cardinality(t.used) = Cardinality(s.used) + Cardinality(Part(keys, w, f, i))
  /\ \A j \in 1 .. Len(f) : b + f[j].code \in DA!Slot
  /\ \A p \in DA!Slot : t.check[p] = b <=> \E j \in 1 .. Len(f) : p = b + f[j].code
  /\ \E g : /\ g[w] = b
            /\ \A u \in Part(keys, w, f, i) \ {w} :
                 g[u] \notin s.used /\ g[u] # b /\ Laid(t, keys, value, g, u)
            /\ \A j \in 1 .. i : t.base[b + f[j].code] = Bears(keys, value, g, w, f[j].code)

(* Below a child of u are words below w when u is.                         *)
LEMMA GoesDown ==
  ASSUME Alphabet \in Nat, NEW keys, GoodKeys(keys), NEW w \in Word,
         NEW u \in Below(keys, w), NEW c \in Codes(keys, u), c # 0
  PROVE  /\ c - 1 \in Chars /\ Append(u, c - 1) \in Below(keys, w)
         /\ Len(Append(u, c - 1)) = Len(u) + 1
         /\ \A m \in 1 .. Len(u) : Append(u, c - 1)[m] = u[m]
<1>1. u \in Word /\ Leads(w, u) /\ Len(u) \in Nat /\ Len(w) \in Nat
  BY DEF Below, Word
<1>2. PICK i \in Under(keys, u) : CodeOf(keys, u, i) = c
  BY DEF Codes
<1>3. /\ keys[i] \in Word /\ Len(u) \in 0 .. Len(keys[i]) /\ i \in DOMAIN keys
  BY <1>1, <1>2, UnderIs DEF Under
<1>4. c - 1 \in Chars /\ c - 1 + 1 = c
  <2>1. Len(u) # Len(keys[i])
    BY <1>2, <1>3, CodeIs DEF CodeOf
  <2>2. keys[i][Len(u)+1] \in Chars /\ c = keys[i][Len(u)+1] + 1
    BY <1>2, <1>3, <2>1, CodeIs DEF CodeOf
  <2> QED BY <2>2 DEF Chars
<1> DEFINE v == Append(u, c - 1)
<1>5. /\ v \in Word /\ Len(v) = Len(u) + 1
      /\ i \in Under(keys, v)
  BY <1>1, <1>2, <1>4, UnderChild
<1>6. \A m \in 1 .. Len(u) : v[m] = u[m]
  BY <1>1
<1> HIDE DEF v
<1>7. Leads(w, v)
  <2>1. \A m \in 1 .. Len(w) : m \in 1 .. Len(u)
    BY <1>1 DEF Leads
  <2>2. Len(w) <= Len(v)
    BY <1>1, <1>5 DEF Leads
  <2> QED BY <1>1, <1>6, <2>1, <2>2 DEF Leads
<1>8. v \in Below(keys, w)
  BY <1>5, <1>7 DEF Below
<1> QED BY <1>4, <1>5, <1>6, <1>8 DEF v

LEMMA GoesDownPart ==
  ASSUME Alphabet \in Nat, NEW keys, GoodKeys(keys), NEW w \in Word, NEW f, NEW i,
         NEW u \in Part(keys, w, f, i), u # w, u \in Below(keys, w),
         NEW c \in Codes(keys, u), c # 0
  PROVE  Append(u, c - 1) \in Part(keys, w, f, i)
<1> DEFINE v == Append(u, c - 1)
<1>1. /\ v \in Below(keys, w) /\ Len(v) = Len(u) + 1
      /\ \A m \in 1 .. Len(u) : v[m] = u[m]
  BY GoesDown
<1>2. Len(u) > Len(w) /\ \E j \in 1 .. i : u[Len(w)+1] + 1 = f[j].code
  BY DEF Part
<1>3. u \in Word /\ Len(u) \in Nat /\ Len(w) \in Nat
  BY DEF Below, Word
<1> HIDE DEF v
<1>4. Len(w) + 1 \in 1 .. Len(u) /\ Len(v) > Len(w)
  BY <1>1, <1>2, <1>3
<1>5. v[Len(w)+1] = u[Len(w)+1]
  BY <1>1, <1>4
<1> QED BY <1>1, <1>2, <1>4, <1>5 DEF Part, v

LEMMA LaidSame ==
  ASSUME NEW s, NEW keys, NEW value, NEW g, NEW h, NEW u, Laid(s, keys, value, g, u),
         h[u] = g[u],
         \A c \in Codes(keys, u) : c # 0 => h[Append(u, c - 1)] = g[Append(u, c - 1)]
  PROVE  Laid(s, keys, value, h, u)
<1>1. \A c \in Codes(keys, u) : Bears(keys, value, g, u, c) = Bears(keys, value, h, u, c)
  BY DEF Bears
<1> QED BY <1>1 DEF Laid

(* The first step: the slots are claimed, nothing is filed yet.            *)
LEMMA FiledNone ==
  ASSUME Alphabet \in Nat, NEW keys, GoodKeys(keys), NEW value, NEW w \in Word,
         Under(keys, w) # {}, NEW f, Fetched(keys, w, f),
         NEW s, NEW t, NEW b, Claimed(s, f, b, t)
  PROVE  FiledTo(s, t, keys, value, w, f, b, 0)
<1>1. Part(keys, w, f, 0) = {w}
  BY PartIs
<1>2. Cardinality(Part(keys, w, f, 0)) = 1
  BY <1>1, FS_Singleton
<1> DEFINE g == [u \in {w} |-> b]
<1>3. /\ g[w] = b
      /\ \A u \in Part(keys, w, f, 0) \ {w} :
           g[u] \notin s.used /\ g[u] # b /\ Laid(t, keys, value, g, u)
      /\ \A j \in 1 .. 0 : t.base[b + f[j].code] = Bears(keys, value, g, w, f[j].code)
  BY <1>1
<1> HIDE DEF g
<1> QED BY <1>2, <1>3 DEF FiledTo, Claimed

SlotsBear(s, t, f, b) ==
  \A i \in 1 .. Len(f) :
    /\ b + f[i].code \in DA!Slot /\ b + f[i].code # 0
    /\ t.check[b + f[i].code] = b /\ s.check[b + f[i].code] = 0
    /\ \A j \in 1 .. Len(f) : j # i => b + f[j].code # b + f[i].code

(* The slot of a child is free in the array before, and bears b now.       *)
LEMMA SlotsBeared ==
  ASSUME Alphabet \in Nat, NEW keys, GoodKeys(keys), NEW value, NEW w \in Word,
         Under(keys, w) # {}, NEW f, Fetched(keys, w, f),
         NEW s, GoodArray(s), NEW t, NEW b, NEW n, FiledTo(s, t, keys, value, w, f, b, n)
  PROVE  SlotsBear(s, t, f, b)
<1> SUFFICES ASSUME NEW i \in 1 .. Len(f)
    PROVE  /\ b + f[i].code \in DA!Slot /\ b + f[i].code # 0
           /\ t.check[b + f[i].code] = b /\ s.check[b + f[i].code] = 0
           /\ \A j \in 1 .. Len(f) : j # i => b + f[j].code # b + f[i].code
  BY DEF SlotsBear
<1>1. /\ b + f[i].code \in DA!Slot /\ t.check[b + f[i].code] = b
      /\ b \in Nat \ {0} /\ b \notin s.used /\ Extends(s, t)
  BY DEF FiledTo
<1>2. Brothers(f)
  BY BrothersAre
<1>3. \A j \in 1 .. Len(f) : f[j].code \in Nat
  BY <1>2, CodesIn
<1>4. s.check[b + f[i].code] = 0
  <2>1. b + f[i].code \in DA!Slot
    BY <1>1
  <2> DEFINE p == b + f[i].code
  <2>2. t.check[p] = b
    BY <1>1
  <2>3. p \in DA!Slot
    BY <2>1
  <2> HIDE DEF p
  <2>4. s.check[p] = 0
    <3>1. s.check[p] # 0 => s.check[p] \in s.used
      BY <2>3 DEF GoodArray
    <3>2. s.check[p] # 0 => t.check[p] = s.check[p]
      BY <1>1, <2>3 DEF Extends
    <3> QED BY <1>1, <2>2, <3>1, <3>2
  <2> QED BY <2>4 DEF p
<1>5. ASSUME NEW j \in 1 .. Len(f), j # i PROVE f[j].code # f[i].code
  <2>1. j < i \/ i < j
    BY <1>5
  <2> QED BY <1>2, <1>3, <2>1 DEF Brothers
<1>6. \A j \in 1 .. Len(f) : j # i => b + f[j].code # b + f[i].code
  BY <1>1, <1>3, <1>5
<1>7. b + f[i].code # 0
  BY <1>1, <1>3
<1> QED BY <1>1, <1>4, <1>6, <1>7

(* The key of w is filed.                                                  *)
LEMMA FiledLeaf ==
  ASSUME Alphabet \in Nat, Cells \in Nat, NEW keys, GoodKeys(keys),
         NEW value, ValuesFor(keys, value), NEW w \in Word,
         Under(keys, w) # {}, NEW f, Fetched(keys, w, f),
         NEW s, GoodArray(s), NEW t, NEW b, NEW i \in 1 .. Len(f), f[i].code = 0,
         FiledTo(s, t, keys, value, w, f, b, i - 1)
  PROVE  FiledTo(s, Edited(t, b + f[i].code, - value[f[i].left] - 1), keys, value, w, f, b, i)
<1> DEFINE here == b + f[i].code
           x == - value[f[i].left] - 1
           r == Edited(t, here, x)
<1>1. f[i].left \in DOMAIN keys /\ keys[f[i].left] = w
  BY LeafIs
<1>2. Index(keys, w) = f[i].left
  BY <1>1, KeysApart DEF Index
<1>3. x \in Int
  BY <1>1 DEF ValuesFor
<1>4. /\ here \in DA!Slot /\ here # 0 /\ t.check[here] = b /\ s.check[here] = 0
      /\ \A j \in 1 .. Len(f) : j # i => b + f[j].code # here
  <2>1. SlotsBear(s, t, f, b)
    BY SlotsBeared
  <2> QED BY <2>1 DEF SlotsBear
<1>5. \A g : Bears(keys, value, g, w, f[i].code) = x
  BY <1>2 DEF Bears
<1>6. GoodArray(t) /\ t \in DA!Array /\ Extends(s, t)
  BY DEF FiledTo, GoodArray
<1> HIDE DEF x
<1>7. /\ r.used = t.used /\ r.check = t.check
      /\ \A p \in DA!Slot : r.base[p] = IF p = here THEN x ELSE t.base[p]
  BY <1>3, <1>4, <1>6, EditedIs
<1>8. GoodArray(r)
  BY <1>3, <1>4, <1>6, GoodEdited
<1>9. Extends(s, r)
  BY <1>3, <1>4, <1>6, ExtendsEdited
<1>10. Part(keys, w, f, i) = Part(keys, w, f, i - 1)
  BY PartIs
<1>11. PICK g : /\ g[w] = b
                /\ \A u \in Part(keys, w, f, i - 1) \ {w} :
                     g[u] \notin s.used /\ g[u] # b /\ Laid(t, keys, value, g, u)
                /\ \A j \in 1 .. i - 1 : t.base[b + f[j].code] = Bears(keys, value, g, w, f[j].code)
  BY DEF FiledTo
<1>12. \A u \in Part(keys, w, f, i) \ {w} :
         g[u] \notin s.used /\ g[u] # b /\ Laid(r, keys, value, g, u)
  BY <1>3, <1>4, <1>6, <1>10, <1>11, LaidEdited
<1>13. /\ b \in Nat \ {0} /\ b \in t.used /\ b \notin s.used
       /\ Cardinality(t.used) = Cardinality(s.used) + Cardinality(Part(keys, w, f, i - 1))
       /\ \A j \in 1 .. Len(f) : b + f[j].code \in DA!Slot
       /\ \A p \in DA!Slot : t.check[p] = b <=> \E j \in 1 .. Len(f) : p = b + f[j].code
  BY DEF FiledTo
<1>14. ASSUME NEW j \in 1 .. i
       PROVE  r.base[b + f[j].code] = Bears(keys, value, g, w, f[j].code)
  <2>1. CASE j = i
    BY <1>4, <1>5, <1>7, <2>1
  <2>2. CASE j # i
    <3>1. j \in 1 .. i - 1 /\ j \in 1 .. Len(f)
      BY <2>2
    <3>2. b + f[j].code \in DA!Slot /\ b + f[j].code # here
      BY <1>4, <1>13, <2>2, <3>1
    <3> QED BY <1>7, <1>11, <3>1, <3>2
  <2> QED BY <2>1, <2>2
<1> HIDE DEF r
<1>15. FiledTo(s, r, keys, value, w, f, b, i)
  BY <1>7, <1>8, <1>9, <1>10, <1>11, <1>12, <1>13, <1>14 DEF FiledTo
<1> QED BY <1>15 DEF r, x

(* A child is filed: the words below it are inserted.                      *)
LEMMA FiledChild ==
  ASSUME Alphabet \in Nat, Cells \in Nat, NEW keys, GoodKeys(keys),
         NEW value, NEW w \in Word,
         Under(keys, w) # {}, NEW f, Fetched(keys, w, f),
         NEW s, GoodArray(s), NEW t, NEW b, NEW i \in 1 .. Len(f), f[i].code # 0,
         FiledTo(s, t, keys, value, w, f, b, i - 1),
         NEW v, v = Append(w, f[i].code - 1),
         NEW sub, Inserted(t, sub, keys, value, v)
  PROVE  FiledTo(s, Edited(sub.da, b + f[i].code, sub.begin), keys, value, w, f, b, i)
<1> DEFINE here == b + f[i].code
           q == sub.da
           beg == sub.begin
           r == Edited(q, here, beg)
<1>1. SlotsBear(s, t, f, b)
  BY SlotsBeared
<1>2. /\ here \in DA!Slot /\ here # 0 /\ t.check[here] = b /\ s.check[here] = 0
      /\ \A j \in 1 .. Len(f) : j # i => b + f[j].code # here
  BY <1>1 DEF SlotsBear
<1>3. GoodArray(t) /\ Extends(s, t)
  BY DEF FiledTo
<1>4. /\ b \in Nat \ {0} /\ b \in t.used /\ b \notin s.used
      /\ Cardinality(t.used) = Cardinality(s.used) + Cardinality(Part(keys, w, f, i - 1))
      /\ \A j \in 1 .. Len(f) : b + f[j].code \in DA!Slot
      /\ \A p \in DA!Slot : t.check[p] = b <=> \E j \in 1 .. Len(f) : p = b + f[j].code
  BY DEF FiledTo
<1>5. /\ GoodArray(q) /\ q \in DA!Array /\ Extends(t, q) /\ sub.begin \in Nat
      /\ Cardinality(q.used) = Cardinality(t.used) + Cardinality(Below(keys, v))
  BY DEF Inserted, GoodArray
<1>6. PICK g : /\ g[w] = b
               /\ \A u \in Part(keys, w, f, i - 1) \ {w} :
                    g[u] \notin s.used /\ g[u] # b /\ Laid(t, keys, value, g, u)
               /\ \A j \in 1 .. i - 1 : t.base[b + f[j].code] = Bears(keys, value, g, w, f[j].code)
  BY DEF FiledTo
<1>7. PICK k : /\ k[v] = sub.begin
               /\ \A u \in Below(keys, v) : k[u] \notin t.used /\ Laid(q, keys, value, k, u)
  BY DEF Inserted
<1>8. /\ f[i].code - 1 \in Chars /\ f[i].code \in Nat /\ Len(f) \in Nat
      /\ v \in Word /\ Under(keys, v) # {} /\ v \in Below(keys, v)
  <2>1. f[i].code - 1 \in Chars /\ Under(keys, v) # {}
    BY ChildIs
  <2>2. v \in Word
    BY <2>1, UnderChild
  <2>3. Len(v) \in Nat
    BY <2>2 DEF Word
  <2>4. Leads(v, v)
    BY <2>3 DEF Leads
  <2>6. v \in Below(keys, v)
    BY <2>1, <2>2, <2>4 DEF Below
  <2>5. Brothers(f)
    BY BrothersAre
  <2> QED BY <2>1, <2>2, <2>5, <2>6, CodesIn
<1>9. /\ Part(keys, w, f, i) = Part(keys, w, f, i - 1) \cup Below(keys, v)
      /\ Part(keys, w, f, i - 1) \cap Below(keys, v) = {}
  <2>1. Splits(keys, w, f, i, v)
    BY PartNext
  <2> QED BY <2>1 DEF Splits
<1>10. /\ w \in Part(keys, w, f, i - 1) /\ Part(keys, w, f, i - 1) \subseteq Below(keys, w)
       /\ Part(keys, w, f, i) \subseteq Below(keys, w) /\ i - 1 \in 0 .. Len(f) /\ i \in 0 .. Len(f)
  <2>1. i - 1 \in 0 .. Len(f) /\ i \in 0 .. Len(f)
    BY <1>8
  <2>2. \A j \in 0 .. Len(f) : w \in Part(keys, w, f, j) /\ Part(keys, w, f, j) \subseteq Below(keys, w)
    BY PartIs
  <2> QED BY <2>1, <2>2
<1> HIDE DEF q, here, beg
<1>11. /\ r.used = q.used /\ r.check = q.check
       /\ \A p \in DA!Slot : r.base[p] = IF p = here THEN beg ELSE q.base[p]
  <2>1. beg \in Int
    BY <1>5 DEF beg
  <2> QED BY <1>2, <1>5, <2>1, EditedIs
<1>12. GoodArray(r) /\ Extends(s, r)
  <2>1. beg \in Int
    BY <1>5 DEF beg
  <2>2. Extends(s, q)
    BY <1>3, <1>5, ExtendsTrans
  <2> QED BY <1>2, <1>5, <2>1, <2>2, GoodEdited, ExtendsEdited
<1>13. \A p \in DA!Slot : q.check[p] = b <=> t.check[p] = b
  <2>1. \A p \in DA!Slot : t.check[p] # 0 => q.check[p] = t.check[p]
    BY <1>5 DEF Extends
  <2>2. \A p \in DA!Slot : q.check[p] \in t.used => q.check[p] = t.check[p]
    BY <1>5 DEF Extends
  <2> QED BY <1>4, <2>1, <2>2
<1>14. b \in r.used /\ \A p \in DA!Slot : r.check[p] = b <=> \E j \in 1 .. Len(f) : p = b + f[j].code
  BY <1>4, <1>5, <1>11, <1>13 DEF Extends
<1>15. Cardinality(r.used) = Cardinality(s.used) + Cardinality(Part(keys, w, f, i))
  <2>1. IsFiniteSet(Below(keys, w)) /\ IsFiniteSet(Below(keys, v))
    BY <1>8, BelowFinite
  <2>2. IsFiniteSet(Part(keys, w, f, i - 1))
    BY <1>10, <2>1, FS_Subset
  <2>3. Cardinality(Part(keys, w, f, i))
          = Cardinality(Part(keys, w, f, i - 1)) + Cardinality(Below(keys, v))
            - Cardinality(Part(keys, w, f, i - 1) \cap Below(keys, v))
    BY <1>9, <2>1, <2>2, FS_Union
  <2>4. Cardinality(Part(keys, w, f, i - 1) \cap Below(keys, v)) = 0
    BY <1>9, FS_EmptySet
  <2>5. /\ Cardinality(Part(keys, w, f, i - 1)) \in Nat /\ Cardinality(Below(keys, v)) \in Nat
        /\ Cardinality(s.used) \in Nat
    <3>1. IsFiniteSet(s.used)
      BY DEF GoodArray
    <3> QED BY <2>1, <2>2, <3>1, FS_CardinalityType
  <2> QED BY <1>4, <1>5, <1>11, <2>3, <2>4, <2>5
<1> DEFINE h == [u \in Word |-> IF u \in Below(keys, v) THEN k[u] ELSE g[u]]
<1>16. /\ \A u \in Below(keys, v) : u \in Word /\ h[u] = k[u]
       /\ \A u \in Part(keys, w, f, i - 1) : u \in Word /\ h[u] = g[u]
  BY <1>9, <1>10 DEF Below
<1> HIDE DEF h
<1>17. h[w] = b
  BY <1>6, <1>10, <1>16
<1> DEFINE GoodAt(u) == h[u] \notin s.used /\ h[u] # b /\ Laid(r, keys, value, h, u)
<1>18. ASSUME NEW u \in Part(keys, w, f, i - 1), u # w PROVE GoodAt(u)
  <2>1. g[u] \notin s.used /\ g[u] # b /\ Laid(t, keys, value, g, u)
    BY <1>6, <1>18
  <2>2. Laid(q, keys, value, g, u)
    BY <1>3, <1>5, <2>1, LaidStays
  <2>3. q.check[here] = b
    BY <1>2, <1>13
  <2>4. beg \in Int
    BY <1>5 DEF beg
  <2>5. Laid(r, keys, value, g, u)
    BY <1>2, <1>5, <2>1, <2>2, <2>3, <2>4, LaidEdited
  <2> HIDE DEF r
  <2>6. \A c \in Codes(keys, u) : c # 0 => h[Append(u, c - 1)] = g[Append(u, c - 1)]
    BY <1>10, <1>16, <1>18, GoesDownPart
  <2>7. h[u] = g[u]
    BY <1>16
  <2>8. Laid(r, keys, value, h, u)
    BY <2>5, <2>6, <2>7, LaidSame
  <2> QED BY <2>1, <2>7, <2>8
<1>19. ASSUME NEW u \in Below(keys, v) PROVE GoodAt(u)
  <2>1. k[u] \notin t.used /\ Laid(q, keys, value, k, u)
    BY <1>7
  <2>2. k[u] # b /\ k[u] \notin s.used
    BY <1>3, <1>4, <2>1 DEF Extends
  <2>3. q.check[here] = b
    BY <1>2, <1>13
  <2>4. beg \in Int
    BY <1>5 DEF beg
  <2>5. Laid(r, keys, value, k, u)
    BY <1>2, <1>5, <2>1, <2>2, <2>3, <2>4, LaidEdited
  <2> HIDE DEF r
  <2>6. \A c \in Codes(keys, u) : c # 0 => h[Append(u, c - 1)] = k[Append(u, c - 1)]
    BY <1>8, <1>16, GoesDown
  <2>7. h[u] = k[u]
    BY <1>16
  <2>8. Laid(r, keys, value, h, u)
    BY <2>5, <2>6, <2>7, LaidSame
  <2> QED BY <2>2, <2>7, <2>8
<1> DEFINE Code(j) == f[j].code
<1>20. ASSUME NEW j \in 1 .. i
       PROVE  r.base[b + f[j].code] = Bears(keys, value, h, w, f[j].code)
  <2>0. here \in DA!Slot /\ q.check[here] = b
    BY <1>2, <1>13
  <2>1. CASE j = i
    <3>1. r.base[here] = beg
      BY <1>2, <1>11
    <3>2. h[v] = beg
      BY <1>7, <1>8, <1>16 DEF beg
    <3> HIDE DEF r
    <3> QED BY <2>1, <3>1, <3>2 DEF Bears, here
  <2>2. CASE j # i
    <3>1. j \in 1 .. i - 1 /\ j \in 1 .. Len(f)
      BY <1>8, <2>2
    <3> DEFINE p == b + f[j].code
    <3>2. p \in DA!Slot /\ p # here /\ t.check[p] = b
      BY <1>2, <1>4, <2>2, <3>1
    <3>3. t.base[p] = Bears(keys, value, g, w, f[j].code)
      BY <1>6, <3>1
    <3> HIDE DEF p
    <3>4. q.base[p] = t.base[p]
      BY <1>4, <1>5, <3>2 DEF Extends
    <3>5. r.base[p] = q.base[p]
      BY <1>11, <3>2
    <3>6. Bears(keys, value, h, w, f[j].code) = Bears(keys, value, g, w, f[j].code)
      <4>1. CASE f[j].code = 0
        BY <4>1 DEF Bears
      <4>2. CASE f[j].code # 0
        <5> DEFINE x == Append(w, f[j].code - 1)
        <5>0. Part(keys, w, f, j) = Part(keys, w, f, j - 1) \cup Below(keys, x)
          <6>1. Splits(keys, w, f, j, x)
            BY <3>1, <4>2, PartNext
          <6> QED BY <6>1 DEF Splits
        <5>1. Under(keys, x) # {} /\ f[j].code - 1 \in Chars
          BY <3>1, <4>2, ChildIs
        <5>2. x \in Word /\ Len(x) \in Nat
          BY <5>1, UnderChild DEF Word
        <5> HIDE DEF x
        <5>3. x \in Part(keys, w, f, j)
          BY <5>0, <5>1, <5>2 DEF Below, Leads
        <5>4. Part(keys, w, f, j) \subseteq Part(keys, w, f, i - 1)
          <6>1. \A m : m \in 1 .. j => m \in 1 .. i - 1
            BY <3>1
          <6> QED BY <6>1 DEF Part
        <5>5. h[x] = g[x]
          BY <1>16, <5>3, <5>4
        <5> QED BY <4>2, <5>5 DEF Bears, x
      <4> QED BY <4>1, <4>2
    <3> HIDE DEF r
    <3> QED BY <3>3, <3>4, <3>5, <3>6 DEF p
  <2> QED BY <2>1, <2>2
<1>21. \A u \in Part(keys, w, f, i) \ {w} : GoodAt(u)
  <2> HIDE DEF GoodAt
  <2> QED BY <1>9, <1>18, <1>19
<1> HIDE DEF r
<1>22. FiledTo(s, r, keys, value, w, f, b, i)
  BY <1>4, <1>12, <1>14, <1>15, <1>17, <1>20, <1>21 DEF FiledTo
<1> QED BY <1>22 DEF r, q, here, beg

(* All children filed.                                                     *)
LEMMA FiledAll ==
  ASSUME Alphabet \in Nat, NEW keys, GoodKeys(keys), NEW value, NEW w \in Word,
         Under(keys, w) # {}, NEW f, Fetched(keys, w, f),
         NEW s, NEW r, FiledTo(s, r.da, keys, value, w, f, r.begin, Len(f))
  PROVE  Inserted(s, r, keys, value, w)
<1> DEFINE t == r.da
           b == r.begin
<1>1. /\ GoodArray(t) /\ Extends(s, t)
      /\ b \in Nat \ {0} /\ b \in t.used /\ b \notin s.used
      /\ Cardinality(t.used) = Cardinality(s.used) + Cardinality(Part(keys, w, f, Len(f)))
      /\ \A j \in 1 .. Len(f) : b + f[j].code \in DA!Slot
      /\ \A p \in DA!Slot : t.check[p] = b <=> \E j \in 1 .. Len(f) : p = b + f[j].code
  BY DEF FiledTo
<1>2. PICK g : /\ g[w] = b
               /\ \A u \in Part(keys, w, f, Len(f)) \ {w} :
                    g[u] \notin s.used /\ g[u] # b /\ Laid(t, keys, value, g, u)
               /\ \A j \in 1 .. Len(f) : t.base[b + f[j].code] = Bears(keys, value, g, w, f[j].code)
  BY DEF FiledTo
<1>3. Part(keys, w, f, Len(f)) = Below(keys, w)
  BY PartIs
<1>4. \A c : c \in Codes(keys, w) <=> \E j \in 1 .. Len(f) : c = f[j].code
  BY BrothersAre
<1> HIDE DEF t, b
<1>5. Lies(t, keys, b, w)
  BY <1>1, <1>4 DEF Lies
<1>6. Laid(t, keys, value, g, w)
  BY <1>2, <1>4, <1>5 DEF Laid
<1>7. \A u \in Below(keys, w) : g[u] \notin s.used /\ Laid(t, keys, value, g, u)
  BY <1>1, <1>2, <1>3, <1>6
<1>8. b \in Nat
  BY <1>1
<1> QED BY <1>1, <1>2, <1>3, <1>7, <1>8 DEF Inserted, t, b

(* insert inserts, when it does so for the children.                       *)
LEMMA InsertIs ==
  ASSUME NEW N, Roomy(N), NEW keys, GoodKeys(keys), NEW value, ValuesFor(keys, value),
         NEW w \in Word, Under(keys, w) # {}, NEW f, Fetched(keys, w, f),
         NEW s, GoodArray(s), Cardinality(s.used) + Cardinality(Below(keys, w)) <= N,
         NEW below,
         \A i \in 1 .. Len(f) : f[i].code # 0 => Inserts(below, keys, value, N, Append(w, f[i].code - 1))
  PROVE  Inserted(s, DA!Insert(s, keys, value, f, below), keys, value, w)
<1> DEFINE a == DA!Filed(s, keys, value, f, below)
           b == DA!Room(s, f) - f[1].code
           m == Len(f)
           Holds(i) == FiledTo(s, a[i], keys, value, w, f, b, i)
           T == {i \in Nat : i <= m => Holds(i)}
<1>1. Alphabet \in Nat /\ Cells \in Nat /\ N \in Nat
  BY DEF Roomy
<1>2. Brothers(f) /\ m \in Nat
  BY <1>1, BrothersAre DEF Brothers
<1>3. /\ IsFiniteSet(Below(keys, w)) /\ Cardinality(Below(keys, w)) \in Nat
      /\ Cardinality(s.used) \in Nat /\ IsFiniteSet(s.used)
  BY <1>1, BelowFinite, FS_CardinalityType DEF GoodArray
<1>4. Cardinality(s.used) + 1 <= N
  <2>1. w \in Below(keys, w)
    BY DEF Below, Leads, Word
  <2>2. Cardinality(Below(keys, w)) # 0
    BY <1>3, <2>1, FS_EmptySet
  <2> QED BY <1>1, <1>3, <2>2
<1>5. Claimed(s, f, b, DA!Claim(s, f, DA!Room(s, f)))
  BY <1>2, <1>4, ClaimIs
<1>6. /\ a[0] = DA!Claim(s, f, DA!Room(s, f))
      /\ \A i \in 1 .. m : a[i] = FiledOne(keys, value, f, below, b, a[i-1], i)
  BY <1>2, FiledIs
<1> HIDE DEF a, b
<1>7. 0 \in T
  BY <1>1, <1>5, <1>6, FiledNone
<1>8. ASSUME NEW j \in 0 .. m - 1, j \in T PROVE j + 1 \in T
  <2> DEFINE i == j + 1
  <2>1. /\ i \in Nat /\ i \in 1 .. m /\ j \in 0 .. m /\ j \in Nat
    BY <1>2
  <2>2. i - 1 = j
    BY <2>1
  <2>3. Holds(j)
    BY <1>2, <1>8, <2>1
  <2> HIDE DEF i
  <2>4. FiledTo(s, a[j], keys, value, w, f, b, i - 1)
    BY <2>2, <2>3
  <2> DEFINE t == a[j]
  <2>5. FiledTo(s, t, keys, value, w, f, b, i - 1)
    BY <2>4
  <2>6. a[i] = FiledOne(keys, value, f, below, b, t, i)
    BY <1>6, <2>1, <2>2
  <2> HIDE DEF t
  <2>7. CASE f[i].code = 0
    <3>1. DA!Fetch(keys, f[i]) = <<>>
      BY <1>1, <2>1, <2>7, LeafIs
    <3>2. a[i] = Edited(t, b + f[i].code, - value[f[i].left] - 1)
      BY <2>6, <3>1 DEF FiledOne, Edited
    <3>3. FiledTo(s, Edited(t, b + f[i].code, - value[f[i].left] - 1), keys, value, w, f, b, i)
      BY <1>1, <2>1, <2>5, <2>7, FiledLeaf
    <3> QED BY <2>1, <3>2, <3>3 DEF i
  <2>8. CASE f[i].code # 0
    <3> DEFINE v == Append(w, f[i].code - 1)
               sub == below[<<t, DA!Fetch(keys, f[i])>>]
    <3>1. DA!Fetch(keys, f[i]) # <<>> /\ NodeFor(keys, v, f[i]) /\ f[i].code - 1 \in Chars
      BY <1>1, <2>1, <2>8, ChildIs
    <3>2. GoodArray(t) /\ Cardinality(t.used) = Cardinality(s.used) + Cardinality(Part(keys, w, f, i - 1))
      BY <2>5 DEF FiledTo
    <3>3. /\ Part(keys, w, f, i) = Part(keys, w, f, i - 1) \cup Below(keys, v)
          /\ Part(keys, w, f, i - 1) \cap Below(keys, v) = {}
          /\ Part(keys, w, f, i) \subseteq Below(keys, w)
      <4>1. i \in 0 .. Len(f)
        BY <2>1
      <4>2. Part(keys, w, f, i) \subseteq Below(keys, w)
        BY <1>1, <4>1, PartIs
      <4>3. /\ Part(keys, w, f, i) = Part(keys, w, f, i - 1) \cup Below(keys, v)
            /\ Part(keys, w, f, i - 1) \cap Below(keys, v) = {}
        <5>1. Splits(keys, w, f, i, v)
          BY <1>1, <2>1, <2>8, PartNext
        <5> QED BY <5>1 DEF Splits
      <4> QED BY <4>2, <4>3
    <3>4. Cardinality(t.used) + Cardinality(Below(keys, v)) <= N
      <4>1. /\ IsFiniteSet(Part(keys, w, f, i)) /\ IsFiniteSet(Part(keys, w, f, i - 1))
            /\ IsFiniteSet(Below(keys, v))
        BY <1>3, <3>3, FS_Subset
      <4>2. Cardinality(Part(keys, w, f, i)) <= Cardinality(Below(keys, w))
        BY <1>3, <3>3, FS_Subset
      <4>3. Cardinality(Part(keys, w, f, i))
              = Cardinality(Part(keys, w, f, i - 1)) + Cardinality(Below(keys, v))
                - Cardinality(Part(keys, w, f, i - 1) \cap Below(keys, v))
        BY <3>3, <4>1, FS_Union
      <4>4. Cardinality(Part(keys, w, f, i - 1) \cap Below(keys, v)) = 0
        BY <3>3, FS_EmptySet
      <4>5. /\ Cardinality(Part(keys, w, f, i - 1)) \in Nat /\ Cardinality(Below(keys, v)) \in Nat
            /\ Cardinality(Part(keys, w, f, i)) \in Nat
        BY <4>1, FS_CardinalityType
      <4> QED BY <1>1, <1>3, <3>2, <4>2, <4>3, <4>4, <4>5
    <3>5. Inserted(t, sub, keys, value, v)
      <4>1. Inserts(below, keys, value, N, v)
        BY <2>1, <2>8
      <4> HIDE DEF v
      <4> QED BY <3>1, <3>2, <3>4, <4>1 DEF Inserts
    <3>6. a[i] = Edited(sub.da, b + f[i].code, sub.begin)
      BY <2>6, <3>1 DEF FiledOne, Edited
    <3> HIDE DEF sub
    <3>7. FiledTo(s, Edited(sub.da, b + f[i].code, sub.begin), keys, value, w, f, b, i)
      BY <1>1, <2>1, <2>5, <2>8, <3>5, FiledChild
    <3> QED BY <2>1, <3>6, <3>7 DEF i
  <2> QED BY <2>7, <2>8
<1> HIDE DEF T
<1>9. m \in T
  <2>1. 0 .. m \subseteq T
    BY <1>2, <1>7, <1>8, UpTo
  <2> QED BY <1>2, <2>1
<1>10. Holds(m)
  BY <1>2, <1>9 DEF T
<1> DEFINE r == DA!Insert(s, keys, value, f, below)
<1>11. r.da = a[m] /\ r.begin = b
  BY DEF DA!Insert, a, b
<1> HIDE DEF r
<1>12. FiledTo(s, r.da, keys, value, w, f, r.begin, Len(f))
  BY <1>10, <1>11
<1> QED BY <1>1, <1>12, FiledAll DEF r
-----------------------------------------------------------------------------
(* The height is more than the length of any key, and inserting at height  *)
(* h inserts the children of every word less than h from its longest key.  *)
LEMMA HeightIs ==
  ASSUME Alphabet \in Nat, NEW keys, GoodKeys(keys)
  PROVE  /\ DA!Height(keys) \in Nat
         /\ \A i \in DOMAIN keys : Len(keys[i]) < DA!Height(keys)
<1> DEFINE S == {Len(keys[i]) : i \in DOMAIN keys}
           n == Len(keys)
           Top(k) == \E i \in 1 .. k + 1 : \A j \in 1 .. k + 1 : Len(keys[j]) <= Len(keys[i])
           T == {k \in Nat : k < n => Top(k)}
<1>1. /\ n \in Nat /\ n > 0 /\ DOMAIN keys = 1 .. n
      /\ \A i \in 1 .. n : Len(keys[i]) \in Nat
  BY DEF GoodKeys, Word
<1> HIDE DEF n
<1>2. 0 \in T
  <2>1. Len(keys[1]) <= Len(keys[1])
    BY <1>1
  <2> QED BY <2>1
<1>3. ASSUME NEW k \in 0 .. (n - 1) - 1, k \in T PROVE k + 1 \in T
  <2>1. PICK i \in 1 .. k + 1 : \A j \in 1 .. k + 1 : Len(keys[j]) <= Len(keys[i])
    BY <1>1, <1>3
  <2>2. i \in 1 .. n /\ k + 2 \in 1 .. n /\ k + 1 \in Nat /\ \A j \in 1 .. k + 1 : j \in 1 .. n
    BY <1>1
  <2>3. \A j \in 1 .. k + 2 : j = k + 2 \/ j \in 1 .. k + 1
    BY <1>1
  <2>4. CASE Len(keys[k+2]) <= Len(keys[i])
    <3>1. \A j \in 1 .. k + 2 : Len(keys[j]) <= Len(keys[i])
      BY <2>1, <2>3, <2>4
    <3>2. i \in 1 .. k + 2 /\ k + 1 + 1 = k + 2
      BY <2>2
    <3> QED BY <2>2, <3>1, <3>2
  <2>5. CASE ~(Len(keys[k+2]) <= Len(keys[i]))
    <3>1. \A j \in 1 .. k + 1 : Len(keys[j]) <= Len(keys[k+2])
      BY <1>1, <2>1, <2>2, <2>5
    <3>2. \A j \in 1 .. k + 2 : Len(keys[j]) <= Len(keys[k+2])
      BY <1>1, <2>2, <2>3, <3>1
    <3>3. k + 2 \in 1 .. k + 2 /\ k + 1 + 1 = k + 2
      BY <2>2
    <3> QED BY <2>2, <3>2, <3>3
  <2> QED BY <2>4, <2>5
<1> HIDE DEF T
<1>4. n - 1 \in T
  <2>1. n - 1 \in Nat
    BY <1>1
  <2>2. 0 .. n - 1 \subseteq T
    BY <1>2, <1>3, <2>1, UpTo
  <2> QED BY <2>1, <2>2
<1>5. PICK i \in 1 .. n : \A j \in 1 .. n : Len(keys[j]) <= Len(keys[i])
  <2>1. n - 1 < n /\ n - 1 + 1 = n
    BY <1>1
  <2> QED BY <1>4, <2>1 DEF T
<1>6. Len(keys[i]) \in S /\ \A y \in S : Len(keys[i]) >= y
  BY <1>1, <1>5
<1>7. DA!Max(S) \in S /\ \A y \in S : DA!Max(S) >= y
  BY <1>6 DEF DA!Max
<1>8. DA!Height(keys) = DA!Max(S) + 1
  BY DEF DA!Height
<1>9. \A y \in S : y \in Nat
  BY <1>1
<1> HIDE DEF S
<1>10. DA!Max(S) \in Nat
  BY <1>7, <1>9
<1>11. \A j \in DOMAIN keys : Len(keys[j]) \in S
  BY DEF S
<1> QED BY <1>7, <1>8, <1>9, <1>10, <1>11

Shallow(keys, w, h) == \A i \in Under(keys, w) : Len(keys[i]) < Len(w) + h

AllInserted(keys, value, N, h) ==
  \A w \in Word : Under(keys, w) # {} /\ Shallow(keys, w, h)
                  => Inserts(DA!Inserting(keys, value)[h], keys, value, N, w)

LEMMA InsertsDeeper ==
  ASSUME NEW N, Roomy(N), NEW keys, GoodKeys(keys), NEW value, ValuesFor(keys, value),
         NEW h \in Nat, h + 1 <= DA!Height(keys), AllInserted(keys, value, N, h)
  PROVE  AllInserted(keys, value, N, h + 1)
<1> DEFINE to == DA!Inserting(keys, value)
<1>1. Alphabet \in Nat /\ DA!Height(keys) \in Nat
  BY HeightIs DEF Roomy
<1>2. to[h+1] = [x \in DA!Array \X Seq(DA!Nodes) |-> DA!Insert(x[1], keys, value, x[2], to[h])]
  <2> DEFINE k == h + 1
  <2>1. k \in 1 .. DA!Height(keys) /\ k - 1 = h
    BY <1>1
  <2> HIDE DEF k
  <2>2. to[k] = OneHigher(keys, value, to[k-1])
    BY <1>1, <2>1, InsertingIs
  <2> QED BY <2>1, <2>2 DEF k, OneHigher
<1> HIDE DEF to
<1> SUFFICES ASSUME NEW w \in Word, Under(keys, w) # {}, Shallow(keys, w, h + 1),
                    NEW nd, NEW s, NodeFor(keys, w, nd), GoodArray(s),
                    Cardinality(s.used) + Cardinality(Below(keys, w)) <= N
             PROVE  Inserted(s, to[h+1][<<s, DA!Fetch(keys, nd)>>], keys, value, w)
  BY DEF AllInserted, Inserts, to
<1> DEFINE f == DA!Fetch(keys, nd)
<1>3. Fetched(keys, w, f)
  BY <1>1, FetchIs
<1> HIDE DEF f
<1>4. f \in Seq(DA!Nodes) /\ s \in DA!Array
  BY <1>3 DEF Fetched, GoodArray
<1>5. to[h+1][<<s, f>>] = DA!Insert(s, keys, value, f, to[h])
  BY <1>2, <1>4
<1>6. ASSUME NEW i \in 1 .. Len(f), f[i].code # 0
      PROVE  Inserts(to[h], keys, value, N, Append(w, f[i].code - 1))
  <2> DEFINE v == Append(w, f[i].code - 1)
  <2>1. f[i].code - 1 \in Chars /\ Under(keys, v) # {}
    BY <1>1, <1>3, <1>6, ChildIs
  <2>2. /\ v \in Word /\ Len(v) = Len(w) + 1
        /\ Under(keys, v) \subseteq Under(keys, w)
    BY <1>1, <2>1, UnderChild
  <2> HIDE DEF v
  <2>3. Shallow(keys, v, h)
    <3>1. ASSUME NEW j \in Under(keys, v) PROVE Len(keys[j]) < Len(v) + h
      <4>1. Len(keys[j]) < Len(w) + (h + 1)
        BY <2>2, <3>1 DEF Shallow
      <4>2. Len(w) \in Nat /\ Len(w) + (h + 1) = Len(v) + h
        BY <2>2 DEF Word
      <4> QED BY <4>1, <4>2
    <3> QED BY <3>1 DEF Shallow
  <2> QED BY <2>1, <2>2, <2>3 DEF AllInserted, to, v
<1>7. Inserted(s, DA!Insert(s, keys, value, f, to[h]), keys, value, w)
  BY <1>3, <1>6, InsertIs
<1> QED BY <1>5, <1>7 DEF f

LEMMA InsertingInserts ==
  ASSUME NEW N, Roomy(N), NEW keys, GoodKeys(keys), NEW value, ValuesFor(keys, value)
  PROVE  Inserts(DA!Inserting(keys, value)[DA!Height(keys)], keys, value, N, <<>>)
<1> DEFINE H == DA!Height(keys)
           T == {h \in Nat : h <= H => AllInserted(keys, value, N, h)}
<1>1. /\ Alphabet \in Nat /\ H \in Nat
      /\ \A i \in DOMAIN keys : Len(keys[i]) < H
  BY HeightIs DEF Roomy
<1> HIDE DEF H
<1>2. 0 \in T
  <2> SUFFICES ASSUME NEW w \in Word, Under(keys, w) # {}, Shallow(keys, w, 0) PROVE FALSE
    BY DEF AllInserted
  <2>1. PICK i \in Under(keys, w) : Len(keys[i]) < Len(w) + 0
    BY DEF Shallow
  <2>2. Len(w) \in 0 .. Len(keys[i]) /\ keys[i] \in Word
    BY <1>1, UnderIs
  <2>3. Len(keys[i]) \in Nat
    BY <2>2 DEF Word
  <2> QED BY <2>1, <2>2, <2>3
<1>3. ASSUME NEW h \in 0 .. H - 1, h \in T PROVE h + 1 \in T
  <2>1. h \in Nat /\ h <= H /\ h + 1 <= H /\ h + 1 \in Nat
    BY <1>1
  <2>2. AllInserted(keys, value, N, h)
    BY <1>3, <2>1
  <2>3. AllInserted(keys, value, N, h + 1)
    BY <2>1, <2>2, InsertsDeeper DEF H
  <2> QED BY <2>1, <2>3
<1> HIDE DEF T
<1>4. H \in T
  <2>1. 0 .. H \subseteq T
    BY <1>1, <1>2, <1>3, UpTo
  <2> QED BY <1>1, <2>1
<1>5. AllInserted(keys, value, N, H)
  BY <1>1, <1>4 DEF T
<1>6. /\ <<>> \in Word /\ Len(<<>>) = 0
      /\ Under(keys, <<>>) = DOMAIN keys
  <2>1. <<>> \in Word /\ Len(<<>>) = 0
    BY DEF Word
  <2>2. \A i \in DOMAIN keys : Len(keys[i]) \in Nat
    BY DEF GoodKeys, Word
  <2>3. \A i \in DOMAIN keys : Leads(<<>>, keys[i])
    BY <2>1, <2>2 DEF Leads
  <2> QED BY <2>1, <2>3 DEF Under
<1>7. Under(keys, <<>>) # {}
  <2>1. 1 \in DOMAIN keys
    BY DEF GoodKeys
  <2> QED BY <1>6, <2>1
<1>8. Shallow(keys, <<>>, H)
  BY <1>1, <1>6 DEF Shallow
<1> QED BY <1>5, <1>6, <1>7, <1>8 DEF AllInserted, H

(* The array that is built: every node lies in it, and there is room       *)
(* behind each, within size(), for the code of every character.            *)
Built(da, keys, value, g) ==
  /\ da.base[0] = 1 /\ g[<<>>] = 1 /\ da.size \in Nat
  /\ \A u \in Branches(keys) : /\ Laid(da, keys, value, g, u)
                               /\ g[u] \in Nat \ {0}
                               /\ g[u] + Alphabet + 1 < Cells
                               /\ g[u] + Alphabet + 1 < da.size

LEMMA FreshIs ==
  ASSUME Alphabet \in Nat, Cells \in Nat \ {0}
  PROVE  GoodArray(DA!Fresh) /\ Cardinality(DA!Fresh.used) = 0 /\ DA!Fresh.next = 0
<1> DEFINE s == DA!Fresh
<1>1. 0 \in DA!Slot
  BY DEF DA!Slot
<1>2. /\ s.used = {} /\ s.size = 0 /\ s.next = 0
      /\ s.check = [p \in DA!Slot |-> 0] /\ s.base = [p \in DA!Slot |-> IF p = 0 THEN 1 ELSE 0]
  BY DEF DA!Fresh
<1>3. s \in DA!Array
  <2>1. [p \in DA!Slot |-> 0] \in [DA!Slot -> Nat]
    OBVIOUS
  <2>2. [p \in DA!Slot |-> IF p = 0 THEN 1 ELSE 0] \in [DA!Slot -> Int]
    OBVIOUS
  <2> QED BY <2>1, <2>2 DEF DA!Array, DA!Fresh
<1> HIDE DEF s
<1>4. Cardinality(s.used) = 0 /\ IsFiniteSet(s.used)
  BY <1>2, FS_EmptySet
<1>5. Cardinality(s.used) * Width + 1 = 1
  BY <1>4 DEF Width
<1>6. GoodArray(s)
  BY <1>1, <1>2, <1>3, <1>4, <1>5 DEF GoodArray
<1> QED BY <1>2, <1>4, <1>6 DEF s

LEMMA BuildIs ==
  ASSUME Alphabet \in Nat, Cells \in Nat, NEW keys, GoodKeys(keys),
         NEW value, ValuesFor(keys, value),
         (Cardinality(Branches(keys)) + 1) * (Alphabet + 2) <= Cells
  PROVE  \E g : Built(DA!Build(keys, value), keys, value, g)
<1> DEFINE N == Cardinality(Branches(keys))
           root == DA!Node(0, 0, 1, Len(keys) + 1)
           f == DA!Fetch(keys, root)
           s == DA!Fresh
           r == DA!Inserting(keys, value)[DA!Height(keys)][<<s, f>>]
           t == r.da
           da == DA!Build(keys, value)
<1>1. /\ Below(keys, <<>>) = Branches(keys) /\ N \in Nat
  BY BranchesAre
<1> HIDE DEF N
<1>2. Width \in Nat /\ Width = Alphabet + 2 /\ (N + 1) * Width <= Cells
  BY DEF Width, N
<1>3. Roomy(N)
  BY <1>1, <1>2 DEF Roomy
<1>4. N * Width \in Nat /\ (N + 1) * Width = N * Width + Width
  BY <1>1, <1>2
<1>5. Cells \in Nat \ {0}
  BY <1>2, <1>4
<1>6. GoodArray(s) /\ Cardinality(s.used) = 0 /\ s.next = 0
  BY <1>5, FreshIs
<1>7. <<>> \in Word /\ Len(<<>>) = 0 /\ Under(keys, <<>>) = 1 .. Len(keys)
  <2>1. <<>> \in Word /\ Len(<<>>) = 0
    BY DEF Word
  <2>2. \A i \in DOMAIN keys : Len(keys[i]) \in Nat
    BY DEF GoodKeys, Word
  <2>3. DOMAIN keys = 1 .. Len(keys)
    BY DEF GoodKeys
  <2> QED BY <2>1, <2>2, <2>3 DEF Under, Leads
<1>8. NodeFor(keys, <<>>, root)
  <2>1. Len(keys) \in Nat
    BY DEF GoodKeys
  <2>2. root.depth = 0 /\ root.left = 1 /\ root.right = Len(keys) + 1
    BY DEF DA!Node
  <2> QED BY <1>7, <2>1, <2>2 DEF NodeFor
<1>9. Fetched(keys, <<>>, f)
  BY <1>7, <1>8, FetchIs
<1>10. Under(keys, <<>>) # {}
  <2>1. 1 \in 1 .. Len(keys)
    BY DEF GoodKeys
  <2> QED BY <1>7, <2>1
<1>11. Inserts(DA!Inserting(keys, value)[DA!Height(keys)], keys, value, N, <<>>)
  BY <1>3, InsertingInserts
<1>12. Inserted(s, r, keys, value, <<>>)
  <2>1. Cardinality(s.used) + Cardinality(Below(keys, <<>>)) <= N
    BY <1>1, <1>6 DEF N
  <2> QED BY <1>6, <1>8, <1>11, <2>1 DEF Inserts
<1>13. da = [t EXCEPT !.size = t.size + Alphabet + 2]
  <2>1. keys # <<>>
    BY DEF GoodKeys
  <2> QED BY <2>1 DEF DA!Build, DA!Padding
<1>14. /\ GoodArray(t) /\ t \in DA!Array /\ Extends(s, t)
       /\ Cardinality(t.used) = N
  BY <1>1, <1>6, <1>12 DEF Inserted, GoodArray, N
<1>15. PICK g : /\ g[<<>>] = r.begin
                /\ \A u \in Below(keys, <<>>) : g[u] \notin s.used /\ Laid(t, keys, value, g, u)
  BY <1>12 DEF Inserted
<1>16. r.begin = 1
  <2>1. Brothers(f)
    BY <1>7, <1>9, <1>10, BrothersAre
  <2>2. f[1].code \in Nat
    BY <2>1, CodesIn
  <2>3. Cardinality(s.used) + 1 <= N
    <3>1. <<>> \in Below(keys, <<>>)
      BY <1>7, <1>10 DEF Below, Leads
    <3>2. IsFiniteSet(Branches(keys))
      BY BranchesAre
    <3>3. N # 0
      BY <1>1, <3>1, <3>2, FS_EmptySet DEF N
    <3> QED BY <1>1, <1>6, <3>3
  <2>4. Placed(s, f, DA!Room(s, f)) /\ DA!Room(s, f) - f[1].code <= Cardinality(s.used) * Width + 1
    BY <1>3, <1>6, <2>1, <2>3, RoomIs
  <2>5. DA!Room(s, f) >= f[1].code + 1 /\ DA!Room(s, f) \in Nat
    BY <1>6, <2>2, <2>4 DEF Placed, DA!StartOf, DA!Slot
  <2>6. DA!Room(s, f) - f[1].code <= 1
    BY <1>2, <1>6, <2>4
  <2>7. DA!Room(s, f) - f[1].code = 1
    BY <2>2, <2>5, <2>6
  <2>8. r.begin = DA!Room(s, f) - f[1].code
    <3>1. DA!Height(keys) \in Nat /\ DA!Height(keys) \in 1 .. DA!Height(keys)
      <4>1. 1 \in DOMAIN keys /\ Len(keys[1]) \in Nat
        BY DEF GoodKeys, Word
      <4>2. DA!Height(keys) \in Nat /\ Len(keys[1]) < DA!Height(keys)
        BY <4>1, HeightIs
      <4> QED BY <4>1, <4>2
    <3> DEFINE to == DA!Inserting(keys, value)
               H == DA!Height(keys)
    <3>2. to[H] = OneHigher(keys, value, to[H-1])
      BY <3>1, InsertingIs
    <3> HIDE DEF to, H
    <3>3. s \in DA!Array /\ f \in Seq(DA!Nodes)
      BY <1>6, <1>9 DEF GoodArray, Fetched
    <3> HIDE DEF f, s
    <3>4. to[H][<<s, f>>] = DA!Insert(s, keys, value, f, to[H-1])
      BY <3>2, <3>3 DEF OneHigher
    <3>5. r = DA!Insert(s, keys, value, f, to[H-1])
      BY <3>4 DEF to, H
    <3> HIDE DEF r
    <3> QED BY <3>5 DEF DA!Insert
  <2> QED BY <2>7, <2>8
<1>17. t.base[0] = 1 /\ t.size \in Nat
  BY <1>14 DEF GoodArray, DA!Array
<1>18. da.base = t.base /\ da.check = t.check /\ da.used = t.used /\ da.size = t.size + Alphabet + 2
  BY <1>13, <1>14 DEF DA!Array
<1> HIDE DEF t, da, r
<1>19. ASSUME NEW u \in Branches(keys)
       PROVE  /\ Laid(da, keys, value, g, u)
              /\ g[u] \in Nat \ {0}
              /\ g[u] + Alphabet + 1 < Cells
              /\ g[u] + Alphabet + 1 < da.size
  <2>1. Laid(t, keys, value, g, u)
    BY <1>1, <1>15, <1>19
  <2>2. Laid(da, keys, value, g, u)
    BY <1>18, <2>1 DEF Laid, Lies
  <2>3. g[u] \in t.used
    BY <2>1 DEF Laid, Lies
  <2>4. g[u] \in Nat \ {0} /\ g[u] < t.size /\ t.size <= N * Width + 1
    BY <1>14, <2>3 DEF GoodArray, DA!Array
  <2>5. g[u] + Alphabet + 1 < Cells
    BY <1>2, <1>4, <1>17, <2>4
  <2>6. g[u] + Alphabet + 1 < da.size
    BY <1>17, <1>18, <2>4
  <2> QED BY <2>2, <2>4, <2>5, <2>6
<1>20. Built(da, keys, value, g)
  <2>1. da.size \in Nat
    BY <1>17, <1>18
  <2> QED BY <2>1, <1>15, <1>16, <1>17, <1>18, <1>19 DEF Built
<1> QED BY <1>20 DEF da
-----------------------------------------------------------------------------
(* The searches.                                                           *)
LEMMA WalkIs ==
  ASSUME NEW da, NEW key, Len(key) \in Nat
  PROVE  /\ DA!Walk(da, key)[0] = da.base[0]
         /\ \A i \in 1 .. Len(key) :
              LET b == DA!Walk(da, key)[i-1]
              IN  DA!Walk(da, key)[i]
                    = IF b = DA!None \/ da.check[b + key[i] + 1] # b THEN DA!None
                      ELSE da.base[b + key[i] + 1]
<1> DEFINE m == Len(key)
           X == da.base[0]
           Y(t, i) == IF t = DA!None \/ da.check[t + key[i] + 1] # t THEN DA!None
                      ELSE da.base[t + key[i] + 1]
           Is(g, k) == g = [i \in 0 .. k |-> IF i = 0 THEN X ELSE Y(g[i-1], i)]
           T == {k \in Nat : k <= m => \E g : Is(g, k)}
           a == CHOOSE g : Is(g, m)
<1>1. DA!Walk(da, key) = a
  BY DEF DA!Walk
<1> HIDE DEF X, Y
<1>2. 0 \in T
  <2>1. Is([i \in 0 .. 0 |-> X], 0)
    OBVIOUS
  <2> QED BY <2>1
<1>3. ASSUME NEW k \in 0 .. m - 1, k \in T PROVE k + 1 \in T
  <2>1. PICK g : Is(g, k)
    BY <1>3
  <2> DEFINE h == [i \in 0 .. k + 1 |-> IF i = k + 1 THEN Y(g[k], k + 1) ELSE g[i]]
  <2>2. k \in Nat /\ k + 1 \in Nat
    OBVIOUS
  <2>3. \A i \in 0 .. k : h[i] = g[i]
    BY <2>2
  <2>4. ASSUME NEW i \in 0 .. k + 1 PROVE h[i] = IF i = 0 THEN X ELSE Y(h[i-1], i)
    <3>1. CASE i = k + 1
      <4>1. h[i] = Y(g[k], k + 1) /\ i - 1 = k /\ h[k] = g[k] /\ i # 0
        BY <2>2, <2>3, <3>1
      <4> QED BY <3>1, <4>1
    <3>2. CASE i # k + 1 /\ i # 0
      <4>1. i \in 0 .. k /\ i - 1 \in 0 .. k
        BY <2>2, <3>2
      <4>2. h[i] = g[i] /\ h[i-1] = g[i-1]
        BY <2>3, <4>1
      <4> QED BY <2>1, <3>2, <4>1, <4>2
    <3>3. CASE i = 0
      <4>1. 0 \in 0 .. k /\ h[0] = g[0]
        BY <2>2, <2>3
      <4> QED BY <2>1, <3>3, <4>1
    <3> QED BY <3>1, <3>2, <3>3
  <2> HIDE DEF Y
  <2>5. Is(h, k + 1)
    <3> DEFINE h2 == [i \in 0 .. k + 1 |-> IF i = 0 THEN X ELSE Y(h[i-1], i)]
    <3>1. \A i \in 0 .. k + 1 : h[i] = h2[i]
      BY <2>4
    <3>3. h = [i \in 0 .. k + 1 |-> h[i]] /\ h2 = [i \in 0 .. k + 1 |-> h2[i]]
      OBVIOUS
    <3> HIDE DEF h
    <3>4. h = h2
      BY <3>1, <3>3
    <3> QED BY <3>4
  <2> HIDE DEF h, Is
  <2> QED BY <2>2, <2>5
<1> HIDE DEF T
<1>4. m \in T
  <2>1. 0 .. m \subseteq T
    BY <1>2, <1>3, UpTo
  <2> QED BY <2>1
<1>5. \E g : Is(g, m)
  BY <1>4 DEF T
<1>6. Is(a, m)
  BY <1>5
<1> HIDE DEF a
<1>7. /\ a[0] = X
      /\ \A i \in 1 .. m : a[i] = Y(a[i-1], i)
  BY <1>6
<1> QED BY <1>1, <1>7 DEF X, Y

(* A word with a character more.                                           *)
LEMMA PrefixNext ==
  ASSUME NEW k \in Word, NEW n \in 1 .. Len(k)
  PROVE  SubSeq(k, 1, n) = Append(SubSeq(k, 1, n - 1), k[n]) /\ k[n] \in Chars
<1> DEFINE a == SubSeq(k, 1, n)
           p == SubSeq(k, 1, n - 1)
           b == Append(p, k[n])
<1>1. Len(k) \in Nat /\ n \in 0 .. Len(k) /\ n - 1 \in 0 .. Len(k) /\ k[n] \in Chars
  BY DEF Word
<1>2. a \in Word /\ Len(a) = n /\ \A i \in 1 .. n : a[i] = k[i]
  BY <1>1, PrefixIs
<1>3. p \in Word /\ Len(p) = n - 1 /\ \A i \in 1 .. n - 1 : p[i] = k[i]
  BY <1>1, PrefixIs
<1> HIDE DEF a, p
<1>4. b \in Word /\ Len(b) = n
  BY <1>1, <1>3 DEF Word
<1>5. ASSUME NEW i \in 1 .. n PROVE b[i] = k[i]
  <2>1. CASE i = n
    BY <1>1, <1>3, <2>1 DEF Word
  <2>2. CASE i # n
    <3>1. i \in 1 .. n - 1
      BY <2>2
    <3> QED BY <1>1, <1>3, <3>1 DEF Word
  <2> QED BY <2>1, <2>2
<1> HIDE DEF b
<1>6. a = b
  BY <1>2, <1>4, <1>5, SameWord DEF Word
<1> QED BY <1>1, <1>6 DEF a, p, b

LEMMA BranchIs ==
  ASSUME Alphabet \in Nat, NEW keys, GoodKeys(keys), NEW u \in Word
  PROVE  /\ u \in Branches(keys) <=> Under(keys, u) # {}
         /\ (\E k \in {keys[i] : i \in DOMAIN keys} : u \in PrefixesOf(k)) <=> u \in Branches(keys)
<1>1. Below(keys, <<>>) = Branches(keys)
  BY BranchesAre
<1>2. Leads(<<>>, u)
  BY DEF Leads, Word
<1>3. u \in Branches(keys) <=> Under(keys, u) # {}
  BY <1>1, <1>2 DEF Below
<1>4. (\E k \in {keys[i] : i \in DOMAIN keys} : u \in PrefixesOf(k)) <=> u \in Branches(keys)
  BY DEF Branches
<1> QED BY <1>3, <1>4

(* The walk reaches the begin of every prefix that leads to a key.         *)
LEMMA WalkReaches ==
  ASSUME Alphabet \in Nat, Cells \in Nat, NEW keys, GoodKeys(keys), NEW value,
         NEW da, NEW g, Built(da, keys, value, g), NEW w \in Word
  PROVE  \A i \in 0 .. Len(w) :
           DA!Walk(da, w)[i] = IF SubSeq(w, 1, i) \in Branches(keys) THEN g[SubSeq(w, 1, i)]
                               ELSE DA!None
<1> DEFINE at == DA!Walk(da, w)
           m == Len(w)
           Goal(i) == at[i] = IF SubSeq(w, 1, i) \in Branches(keys) THEN g[SubSeq(w, 1, i)]
                              ELSE DA!None
           T == {i \in Nat : i <= m => Goal(i)}
<1>1. m \in Nat
  BY DEF Word
<1>2. /\ at[0] = da.base[0]
      /\ \A i \in 1 .. m : at[i] = IF at[i-1] = DA!None \/ da.check[at[i-1] + w[i] + 1] # at[i-1]
                                   THEN DA!None ELSE da.base[at[i-1] + w[i] + 1]
  BY <1>1, WalkIs
<1> HIDE DEF at
<1>3. 0 \in T
  <2>1. SubSeq(w, 1, 0) = <<>>
    <3>1. 0 \in 0 .. Len(w)
      BY <1>1
    <3>2. SubSeq(w, 1, 0) \in Word /\ Len(SubSeq(w, 1, 0)) = 0
      BY <3>1, PrefixIs
    <3> QED BY <3>2 DEF Word
  <2>2. <<>> \in Branches(keys)
    <3>1. <<>> \in Word
      BY DEF Word
    <3>2. 1 \in DOMAIN keys /\ Len(keys[1]) \in Nat
      BY DEF GoodKeys, Word
    <3>3. 1 \in Under(keys, <<>>)
      BY <3>2 DEF Under, Leads
    <3> QED BY <3>1, <3>3, BranchIs
  <2> QED BY <1>2, <2>1, <2>2 DEF Built
<1>4. ASSUME NEW j \in 0 .. m - 1, j \in T PROVE j + 1 \in T
  <2> DEFINE i == j + 1
             p == SubSeq(w, 1, j)
             q == SubSeq(w, 1, i)
             ch == w[i]
  <2>1. j \in 0 .. m /\ i \in 1 .. m /\ i \in Nat /\ i - 1 = j
    BY <1>1
  <2>2. at[j] = IF p \in Branches(keys) THEN g[p] ELSE DA!None
    BY <1>1, <1>4, <2>1
  <2> HIDE DEF i
  <2>3. p \in Word
    BY <2>1, PrefixIs
  <2>4. q = Append(p, ch) /\ ch \in Chars
    BY <2>1, PrefixNext
  <2>5. at[i] = IF at[j] = DA!None \/ da.check[at[j] + ch + 1] # at[j]
                THEN DA!None ELSE da.base[at[j] + ch + 1]
    BY <1>2, <2>1
  <2> HIDE DEF p, q, ch
  <2>6. /\ q \in Word /\ ch \in Nat /\ ch + 1 - 1 = ch /\ ch + 1 # 0 /\ ch <= Alphabet
        /\ Under(keys, q) = {k \in Under(keys, p) : CodeOf(keys, p, k) = ch + 1}
    BY <2>3, <2>4, UnderChild DEF Chars
  <2>7. q \in Branches(keys) <=> ch + 1 \in Codes(keys, p)
    BY <2>6, BranchIs DEF Codes
  <2>8. CASE p \notin Branches(keys)
    <3>1. at[j] = DA!None
      BY <2>2, <2>8
    <3>2. Under(keys, q) = {}
      BY <2>3, <2>6, <2>8, BranchIs
    <3>3. q \notin Branches(keys)
      BY <2>6, <3>2, BranchIs
    <3>4. at[i] = DA!None
      BY <2>5, <3>1
    <3>5. Goal(i)
      BY <3>3, <3>4 DEF q
    <3> QED BY <2>1, <3>5 DEF i
  <2>9. CASE p \in Branches(keys)
    <3> DEFINE b == g[p]
               c == ch + 1
    <3>1. at[j] = b
      BY <2>2, <2>9
    <3>2. /\ Laid(da, keys, value, g, p) /\ b \in Nat \ {0}
          /\ b + Alphabet + 1 < Cells
      BY <2>9 DEF Built
    <3>3. b # DA!None /\ b + c \in DA!Slot /\ b + ch + 1 = b + c /\ c # 0 /\ c \in Nat
      BY <2>6, <3>2 DEF DA!None, DA!Slot
    <3>4. \A z \in Codes(keys, p) : z \in Nat
      BY <2>3, CodesAre
    <3>5. /\ \A x \in DA!Slot : da.check[x] = b <=> \E z \in Codes(keys, p) : x = b + z
          /\ \A z \in Codes(keys, p) : da.base[b + z] = Bears(keys, value, g, p, z)
      BY <3>2 DEF Laid, Lies
    <3>9. Append(p, c - 1) = q
      BY <2>4, <2>6
    <3>10. c \in Codes(keys, p) <=> q \in Branches(keys)
      BY <2>7
    <3>11. at[i] = IF b = DA!None \/ da.check[b + c] # b THEN DA!None ELSE da.base[b + c]
      BY <2>5, <3>1, <3>3
    <3> HIDE DEF b, c
    <3>6. da.check[b + c] = b <=> c \in Codes(keys, p)
      <4>1. \A z \in Codes(keys, p) : b + c = b + z => c = z
        BY <3>2, <3>3, <3>4
      <4>2. da.check[b + c] = b <=> \E z \in Codes(keys, p) : b + c = b + z
        BY <3>3, <3>5
      <4> QED BY <4>1, <4>2
    <3>7. CASE c \in Codes(keys, p)
      <4>1. da.base[b + c] = g[q]
        BY <3>3, <3>5, <3>7, <3>9 DEF Bears
      <4>2. at[i] = g[q]
        BY <3>3, <3>6, <3>7, <3>11, <4>1
      <4>3. Goal(i)
        BY <3>7, <3>10, <4>2 DEF q
      <4> QED BY <2>1, <4>3 DEF i
    <3>8. CASE c \notin Codes(keys, p)
      <4>1. at[i] = DA!None
        BY <3>6, <3>8, <3>11
      <4>2. Goal(i)
        BY <3>8, <3>10, <4>1 DEF q
      <4> QED BY <2>1, <4>2 DEF i
    <3> QED BY <3>7, <3>8
  <2> QED BY <2>8, <2>9
<1> HIDE DEF T
<1>5. 0 .. m \subseteq T
  BY <1>1, <1>3, <1>4, UpTo
<1>6. \A i \in 0 .. m : i \in T
  BY <1>5
<1> QED BY <1>6 DEF T, at

(* What is stored at a node: the value of its key.                         *)
LEMMA ValueIs ==
  ASSUME Alphabet \in Nat, Cells \in Nat, NEW keys, GoodKeys(keys),
         NEW da, NEW g, Built(da, keys, Values(keys), g), NEW u \in Branches(keys), u \in Word
  PROVE  DA!ValueAt(da, g[u]) = Lookup(keys, u)
<1> DEFINE b == g[u]
           value == Values(keys)
           i == Index(keys, u)
<1>1. /\ Laid(da, keys, value, g, u) /\ b \in Nat \ {0} /\ b + Alphabet + 1 < Cells
  BY DEF Built
<1>2. /\ \A x \in DA!Slot : da.check[x] = b <=> \E z \in Codes(keys, u) : x = b + z
      /\ \A z \in Codes(keys, u) : da.base[b + z] = Bears(keys, value, g, u, z)
  BY <1>1 DEF Laid, Lies
<1> HIDE DEF b
<1>3. b \in DA!Slot /\ b + 0 = b
  BY <1>1 DEF DA!Slot
<1>4. da.check[b] = b <=> 0 \in Codes(keys, u)
  <2>1. \A z \in Codes(keys, u) : z \in Nat
    BY CodesAre
  <2> QED BY <1>1, <1>2, <1>3, <2>1
<1>5. 0 \in Codes(keys, u) <=> \E j \in DOMAIN keys : keys[j] = u
  <2>1. ASSUME NEW j \in DOMAIN keys, keys[j] = u PROVE j \in Under(keys, u)
    <3>1. Len(u) \in Nat
      BY DEF Word
    <3> QED BY <2>1, <3>1 DEF Under, Leads
  <2>2. \A j \in Under(keys, u) : j \in DOMAIN keys
    BY DEF Under
  <2>3. \A j \in Under(keys, u) : CodeOf(keys, u, j) = 0 <=> keys[j] = u
    BY UnderEnd
  <2> QED BY <2>1, <2>2, <2>3 DEF Codes
<1>6. CASE 0 \in Codes(keys, u)
  <2>1. i \in DOMAIN keys /\ keys[i] = u
    BY <1>5, <1>6 DEF Index
  <2>2. Len(keys) \in Nat /\ i \in 1 .. Len(keys)
    BY <2>1 DEF GoodKeys
  <2>3. value[i] = Len(keys) - i
    BY <2>1 DEF Values
  <2>4. da.base[b] = - value[i] - 1
    BY <1>2, <1>3, <1>6 DEF Bears
  <2>5. Lookup(keys, u) = Len(keys) - i
    BY <2>1 DEF Lookup, Index
  <2> HIDE DEF i, value
  <2>6. value[i] \in Nat
    BY <2>2, <2>3
  <2>7. da.base[b] < 0 /\ - da.base[b] - 1 = value[i]
    BY <2>4, <2>6
  <2>8. DA!ValueAt(da, b) = value[i]
    BY <1>4, <1>6, <2>7 DEF DA!ValueAt
  <2> QED BY <2>3, <2>5, <2>8 DEF b
<1>7. CASE 0 \notin Codes(keys, u)
  BY <1>4, <1>5, <1>7 DEF DA!ValueAt, Lookup, b
<1> QED BY <1>6, <1>7

LEMMA PrefixOf ==
  ASSUME NEW w \in Word, NEW n \in 0 .. Len(w)
  PROVE  SubSeq(w, 1, n) \in PrefixesOf(w) /\ SubSeq(w, 1, n) \in Word
         /\ Len(SubSeq(w, 1, n)) = n
BY PrefixIs DEF PrefixesOf

(* Every search, on the array of any keys, for any word.                   *)
LEMMA SearchesAre ==
  ASSUME Alphabet \in Nat, Cells \in Nat, NEW ks, GoodKeys(ks),
         NEW da, NEW g, Built(da, ks, Values(ks), g), NEW w \in Word,
         NEW keys, keys = {ks[i] : i \in DOMAIN ks}
  PROVE  /\ DA!ExactMatchSearch(da, w) = Lookup(ks, w)
         /\ DA!Probed(da, w) \subseteq 0 .. da.size - 1
         /\ DA!CommonPrefixSearch(da, w)
              = {<<Len(p), Lookup(ks, p)>> : p \in PrefixesOf(w) \cap keys}
         /\ DA!Traverse(da, w)
              = IF \E k \in keys : w \in PrefixesOf(k) THEN Lookup(ks, w) ELSE -2
<1> DEFINE at == DA!Walk(da, w)
           m == Len(w)
           P(i) == SubSeq(w, 1, i)
           B == Branches(ks)
<1>1. m \in Nat /\ \A i \in 1 .. m : w[i] \in Chars
  BY DEF Word
<1>2. ASSUME NEW i \in 0 .. m
      PROVE  /\ P(i) \in Word /\ Len(P(i)) = i /\ P(i) \in PrefixesOf(w)
             /\ P(i) \in B => at[i] = g[P(i)] /\ DA!ValueAt(da, at[i]) = Lookup(ks, P(i))
                              /\ at[i] \in Nat \ {0} /\ at[i] + Alphabet + 1 < da.size
             /\ P(i) \notin B => at[i] = DA!None
  <2>1. P(i) \in Word /\ Len(P(i)) = i /\ P(i) \in PrefixesOf(w)
    BY PrefixOf
  <2>2. at[i] = IF P(i) \in B THEN g[P(i)] ELSE DA!None
    BY WalkReaches
  <2> HIDE DEF P, at
  <2>3. ASSUME P(i) \in B
        PROVE  /\ at[i] = g[P(i)] /\ DA!ValueAt(da, at[i]) = Lookup(ks, P(i))
               /\ at[i] \in Nat \ {0} /\ at[i] + Alphabet + 1 < da.size
    <3>1. at[i] = g[P(i)]
      BY <2>2, <2>3
    <3>2. DA!ValueAt(da, g[P(i)]) = Lookup(ks, P(i))
      BY <2>1, <2>3, ValueIs
    <3>3. g[P(i)] \in Nat \ {0} /\ g[P(i)] + Alphabet + 1 < da.size
      BY <2>3 DEF Built
    <3> QED BY <3>1, <3>2, <3>3
  <2> QED BY <2>1, <2>2, <2>3
<1>3. P(m) = w
  <2>1. m \in 0 .. m
    BY <1>1
  <2>2. P(m) \in Word /\ Len(P(m)) = m /\ \A i \in 1 .. m : P(m)[i] = w[i]
    BY <2>1, PrefixIs
  <2> HIDE DEF P
  <2> QED BY <2>2, SameWord DEF Word
<1>4. ASSUME NEW u \in Word
      PROVE  /\ u \in keys => u \in B /\ Lookup(ks, u) >= 0
             /\ u \notin keys => Lookup(ks, u) = -1
             /\ u \in B <=> \E k \in keys : u \in PrefixesOf(k)
  <2>1. ASSUME u \in keys PROVE u \in B /\ Lookup(ks, u) >= 0
    <3>1. PICK j \in DOMAIN ks : ks[j] = u
      BY <2>1
    <3>2. j \in Under(ks, u)
      <4>1. Len(u) \in Nat
        BY DEF Word
      <4> QED BY <3>1, <4>1 DEF Under, Leads
    <3>3. u \in B
      BY <3>2, BranchIs
    <3> DEFINE i == CHOOSE i \in DOMAIN ks : ks[i] = u
    <3>4. i \in DOMAIN ks
      BY <3>1
    <3>5. Lookup(ks, u) = Len(ks) - i
      BY <3>1 DEF Lookup
    <3>6. Len(ks) \in Nat /\ i \in 1 .. Len(ks)
      BY <3>4 DEF GoodKeys
    <3> HIDE DEF i
    <3> QED BY <3>3, <3>5, <3>6
  <2>2. u \notin keys => Lookup(ks, u) = -1
    BY DEF Lookup
  <2>3. u \in B <=> \E k \in keys : u \in PrefixesOf(k)
    BY BranchIs
  <2> QED BY <2>1, <2>2, <2>3
<1>5. m \in 0 .. m /\ (w \notin B => Lookup(ks, w) = -1)
  BY <1>1, <1>4
<1>6. \A i \in 0 .. m : P(i) \in B => at[i] # DA!None
  <2> HIDE DEF P, at, B, m
  <2>1. \A i \in 0 .. m : P(i) \in B => at[i] \in Nat \ {0}
    BY <1>2
  <2> QED BY <2>1 DEF DA!None
<1> HIDE DEF P, B
<1>7. DA!ExactMatchSearch(da, w) = Lookup(ks, w)
  <2>1. DA!ExactMatchSearch(da, w) = IF at[m] = DA!None THEN -1 ELSE DA!ValueAt(da, at[m])
    BY DEF DA!ExactMatchSearch
  <2> HIDE DEF at, m
  <2> QED BY <1>2, <1>3, <1>5, <1>6, <2>1
<1>8. DA!Traverse(da, w)
        = IF \E k \in keys : w \in PrefixesOf(k) THEN Lookup(ks, w) ELSE -2
  <2>1. DA!Traverse(da, w) = IF at[m] = DA!None THEN -2 ELSE DA!ValueAt(da, at[m])
    BY DEF DA!Traverse
  <2> HIDE DEF at, m
  <2> QED BY <1>2, <1>3, <1>4, <1>5, <1>6, <2>1
<1>9. DA!Probed(da, w) \subseteq 0 .. da.size - 1
  <2>1. DA!Probed(da, w) = {at[i-1] + w[i] + 1 : i \in {j \in 1 .. m : at[j-1] # DA!None}}
                           \cup {at[i] : i \in {j \in 0 .. m : at[j] # DA!None}}
    BY DEF DA!Probed
  <2> HIDE DEF at, m
  <2>2. ASSUME NEW i \in 0 .. m, at[i] # DA!None
        PROVE  at[i] \in Nat /\ at[i] + Alphabet + 1 < da.size
    BY <1>2, <2>2
  <2>3. ASSUME NEW i \in 0 .. m, at[i] # DA!None PROVE at[i] \in 0 .. da.size - 1
    <3>1. at[i] \in Nat /\ at[i] + Alphabet + 1 < da.size
      BY <2>2, <2>3
    <3>2. da.size \in Nat
      BY DEF Built
    <3> QED BY <3>1, <3>2
  <2>4. ASSUME NEW i \in 1 .. m, at[i-1] # DA!None
        PROVE  at[i-1] + w[i] + 1 \in 0 .. da.size - 1
    <3>1. i - 1 \in 0 .. m
      BY <1>1
    <3>2. at[i-1] \in Nat /\ at[i-1] + Alphabet + 1 < da.size
      BY <2>2, <2>4, <3>1
    <3>3. w[i] \in 1 .. Alphabet /\ da.size \in Nat
      BY <1>1 DEF Chars, Built
    <3> HIDE DEF m
    <3> QED BY <3>2, <3>3
  <2> QED BY <2>1, <2>3, <2>4
<1>10. DA!CommonPrefixSearch(da, w)
         = {<<Len(p), Lookup(ks, p)>> : p \in PrefixesOf(w) \cap keys}
  <2> DEFINE L == {j \in 0 .. m : at[j] # DA!None /\ DA!ValueAt(da, at[j]) >= 0}
             R == PrefixesOf(w) \cap keys
  <2>1. DA!CommonPrefixSearch(da, w) = {<<i, DA!ValueAt(da, at[i])>> : i \in L}
    BY DEF DA!CommonPrefixSearch
  <2>2. \A p : p \in PrefixesOf(w) <=> \E i \in 0 .. m : p = P(i)
    BY DEF PrefixesOf, P
  <2> HIDE DEF at, m
  <2>3. ASSUME NEW i \in 0 .. m PROVE i \in L <=> P(i) \in keys
    <3>1. ASSUME P(i) \in keys PROVE i \in L
      <4>1. P(i) \in B /\ Lookup(ks, P(i)) >= 0
        BY <1>2, <1>4, <3>1
      <4> QED BY <1>2, <1>6, <4>1
    <3>2. ASSUME P(i) \notin keys PROVE i \notin L
      <4>1. Lookup(ks, P(i)) = -1
        BY <1>2, <1>4, <3>2
      <4> QED BY <1>2, <4>1
    <3> QED BY <3>1, <3>2
  <2>4. ASSUME NEW i \in L
        PROVE  P(i) \in R /\ <<i, DA!ValueAt(da, at[i])>> = <<Len(P(i)), Lookup(ks, P(i))>>
    <3>1. i \in 0 .. m /\ P(i) \in keys
      BY <2>3
    <3> QED BY <1>2, <1>4, <3>1
  <2>5. ASSUME NEW p \in R
        PROVE  \E i \in L : <<Len(p), Lookup(ks, p)>> = <<i, DA!ValueAt(da, at[i])>>
    <3>1. PICK i \in 0 .. m : p = P(i)
      BY <2>2
    <3>2. i \in L
      BY <2>3, <3>1
    <3> QED BY <2>4, <3>1, <3>2
  <2> HIDE DEF L, R
  <2>6. {<<i, DA!ValueAt(da, at[i])>> : i \in L} = {<<Len(p), Lookup(ks, p)>> : p \in R}
    BY <2>4, <2>5
  <2> QED BY <2>1, <2>6 DEF R
<1> QED BY <1>7, <1>8, <1>9, <1>10

(* Whatever keys there are and whatever word is looked up, the double      *)
(* array that build makes answers every search as the keys themselves do:  *)
(* no placement of the nodes lets a feature find the weights of another    *)
(* (darts.h build, exactMatchSearch, commonPrefixSearch, traverse).        *)
THEOREM DartsAlwaysExact == CasesSpec => []DartsExact
<1> DEFINE KeysKnown == When("keys") => case.input \in KeySets
<1>1. CasesInit => KeysKnown
  BY DEF CasesInit, Case, When
<1>2. KeysKnown /\ [CasesNext]_case => KeysKnown'
  BY DEF CasesNext, When
<1>3. KeysKnown => DartsExact
  <2> SUFFICES ASSUME KeysKnown, When("keys") PROVE DartsExact
    BY DEF DartsExact
  <2> DEFINE ks == case.input
             da == Array(ks)
             keys == {ks[i] : i \in DOMAIN ks}
  <2>1. /\ Alphabet \in Nat /\ Cells \in Nat
        /\ \A w \in Words : w \in Word
        /\ ks \in KeySets
    BY KeysAssumption DEF Word, Chars
  <2>2. /\ GoodKeys(ks)
        /\ (Cardinality(Branches(ks)) + 1) * (Alphabet + 2) <= Cells
    BY <2>1, KeysAssumption DEF GoodKeys, Word, Chars
  <2>3. ValuesFor(ks, Values(ks))
    <3>1. Len(ks) \in Int /\ \A k \in DOMAIN ks : k \in Int
      BY <2>2 DEF GoodKeys
    <3> QED BY <3>1 DEF ValuesFor, Values
  <2>4. PICK g : Built(DA!Build(ks, Values(ks)), ks, Values(ks), g)
    BY <2>1, <2>2, <2>3, BuildIs
  <2>5. Built(da, ks, Values(ks), g)
    BY <2>4 DEF Array
  <2> HIDE DEF ks, da
  <2>6. ASSUME NEW w \in Words
        PROVE  /\ DA!ExactMatchSearch(da, w) = Lookup(ks, w)
               /\ DA!Probed(da, w) \subseteq 0 .. da.size - 1
               /\ DA!CommonPrefixSearch(da, w)
                    = {<<Len(p), Lookup(ks, p)>> : p \in PrefixesOf(w) \cap keys}
               /\ DA!Traverse(da, w)
                    = IF \E k \in keys : w \in PrefixesOf(k) THEN Lookup(ks, w) ELSE -2
    BY <2>1, <2>2, <2>5, SearchesAre
  <2> QED BY <2>6 DEF DartsExact, ks, da
<1> QED BY <1>1, <1>2, <1>3, PTL DEF CasesSpec
-----------------------------------------------------------------------------
(* The command line: the loop of open, word by word.                       *)
LEMMA OpenIs ==
  ASSUME NEW ws, Len(ws) \in Nat
  PROVE  \E a : /\ a[0] = Command!Beginning(Settings)
                /\ \A n \in 1 .. Len(ws) :
                     a[n] = IF a[n-1].at > Len(ws) THEN a[n-1]
                            ELSE Command!ReadWord(Settings, ws, a[n-1])
                /\ Command!Open(Settings, ws) = a[Len(ws)]
<1> DEFINE m == Len(ws)
           X == Command!Beginning(Settings)
           Y(r) == Command!ReadWord(Settings, ws, r)
           Is(g, k) == g = [n \in 0 .. k |-> IF n = 0 THEN X
                                             ELSE IF g[n-1].at > m THEN g[n-1]
                                             ELSE Y(g[n-1])]
           T == {k \in Nat : k <= m => \E g : Is(g, k)}
           a == CHOOSE g : Is(g, m)
<1>1. Command!Open(Settings, ws) = a[m]
  BY DEF Command!Open
<1> HIDE DEF X, Y
<1>2. 0 \in T
  <2>1. Is([n \in 0 .. 0 |-> X], 0)
    OBVIOUS
  <2> QED BY <2>1
<1>3. ASSUME NEW k \in 0 .. m - 1, k \in T PROVE k + 1 \in T
  <2>1. PICK g : Is(g, k)
    BY <1>3
  <2> DEFINE G(r) == IF r.at > m THEN r ELSE Y(r)
             h == [n \in 0 .. k + 1 |-> IF n = k + 1 THEN G(g[k]) ELSE g[n]]
  <2>2. k \in Nat /\ k + 1 \in Nat
    OBVIOUS
  <2>3. \A n \in 0 .. k : h[n] = g[n]
    BY <2>2
  <2>4. ASSUME NEW n \in 0 .. k + 1 PROVE h[n] = IF n = 0 THEN X ELSE G(h[n-1])
    <3>1. CASE n = k + 1
      <4>1. h[n] = G(g[k]) /\ n - 1 = k /\ h[k] = g[k] /\ n # 0
        BY <2>2, <2>3, <3>1
      <4> QED BY <3>1, <4>1
    <3>2. CASE n # k + 1 /\ n # 0
      <4>1. n \in 0 .. k /\ n - 1 \in 0 .. k
        BY <2>2, <3>2
      <4>2. h[n] = g[n] /\ h[n-1] = g[n-1]
        BY <2>3, <4>1
      <4> QED BY <2>1, <3>2, <4>1, <4>2
    <3>3. CASE n = 0
      <4>1. 0 \in 0 .. k /\ h[0] = g[0]
        BY <2>2, <2>3
      <4> QED BY <2>1, <3>3, <4>1
    <3> QED BY <3>1, <3>2, <3>3
  <2>5. Is(h, k + 1)
    <3> DEFINE h2 == [n \in 0 .. k + 1 |-> IF n = 0 THEN X ELSE G(h[n-1])]
    <3> HIDE DEF G
    <3>1. \A n \in 0 .. k + 1 : h[n] = h2[n]
      BY <2>4
    <3>3. h = [n \in 0 .. k + 1 |-> h[n]] /\ h2 = [n \in 0 .. k + 1 |-> h2[n]]
      OBVIOUS
    <3> HIDE DEF h
    <3>4. h = h2
      BY <3>1, <3>3
    <3> QED BY <3>4 DEF G
  <2> HIDE DEF h, Is
  <2> QED BY <2>2, <2>5
<1> HIDE DEF T
<1>4. m \in T
  <2>1. 0 .. m \subseteq T
    BY <1>2, <1>3, UpTo
  <2> QED BY <2>1
<1>5. \E g : Is(g, m)
  BY <1>4 DEF T
<1>6. Is(a, m)
  BY <1>5
<1> HIDE DEF a
<1>7. /\ a[0] = X
      /\ \A n \in 1 .. m : a[n] = IF a[n-1].at > m THEN a[n-1] ELSE Y(a[n-1])
  BY <1>6
<1> QED BY <1>1, <1>7 DEF X, Y

(* A word is a value exactly if the word before it is not and wants one.   *)
LEMMA ConsumedNext ==
  ASSUME NEW ws, NEW i \in Nat \ {0}
  PROVE  /\ ~Consumed(ws, 1)
         /\ Consumed(ws, i + 1) <=> Wanting(ws[i]) /\ ~Consumed(ws, i)
<1> DEFINE V(j) == Wanting(ws[j])
           Run(n, k) == /\ \A j \in k - n .. k - 1 : V(j)
                        /\ k - n = 1 \/ ~V(k - n - 1)
<1>1. \A k : Consumed(ws, k) <=> \E n \in 0 .. k - 1 : n % 2 = 1 /\ Run(n, k)
  BY DEF Consumed
<1> HIDE DEF V
<1>2. ASSUME NEW n \in 0 .. i - 1, NEW m \in 0 .. i - 1, Run(n, i), Run(m, i), n < m
      PROVE  FALSE
  <2>1. i - n - 1 \in i - m .. i - 1 /\ i - n # 1
    BY <1>2
  <2> QED BY <1>2, <2>1
<1>3. ASSUME NEW n \in 0 .. i - 1, NEW m \in 0 .. i - 1, Run(n, i), Run(m, i)
      PROVE  n = m
  <2>1. n < m \/ m < n \/ n = m
    OBVIOUS
  <2> QED BY <1>2, <1>3, <2>1
<1>4. \E n \in 0 .. i - 1 : Run(n, i)
  <2> DEFINE T == {n \in 0 .. i - 1 : i - n = 1 \/ ~V(i - n - 1)}
  <2>1. i - 1 \in T /\ T \subseteq Nat
    OBVIOUS
  <2>2. PICK n \in T : \A y \in T : n <= y
    BY <2>1, Least
  <2>3. ASSUME NEW j \in i - n .. i - 1 PROVE V(j)
    <3>1. i - 1 - j \in 0 .. i - 1 /\ ~(n <= i - 1 - j) /\ i - (i - 1 - j) - 1 = j
      BY <2>2
    <3>2. i - 1 - j \notin T
      BY <2>2, <3>1
    <3> QED BY <3>1, <3>2
  <2> QED BY <2>2, <2>3
<1>5. ASSUME NEW n \in 0 .. i - 1, V(i) PROVE Run(n, i) <=> Run(n + 1, i + 1)
  <2>1. (i + 1) - (n + 1) = i - n /\ i - n .. i = (i - n .. i - 1) \cup {i}
    OBVIOUS
  <2>2. (i + 1) - 1 = i
    OBVIOUS
  <2> QED BY <1>5, <2>1, <2>2
<1>6. ~Consumed(ws, 1)
  <2>1. ASSUME NEW n \in 0 .. 1 - 1, n % 2 = 1 PROVE FALSE
    <3>1. n = 0 /\ 0 % 2 = 0
      OBVIOUS
    <3> QED BY <2>1, <3>1
  <2> QED BY <1>1, <2>1
<1>7. ASSUME Consumed(ws, i + 1) PROVE V(i) /\ ~Consumed(ws, i)
  <2>1. PICK m \in 0 .. i : m % 2 = 1 /\ Run(m, i + 1)
    BY <1>1, <1>7
  <2>2. m # 0 /\ m - 1 \in 0 .. i - 1 /\ (m - 1) + 1 = m /\ (m - 1) % 2 = 0
    BY <2>1
  <2>3. V(i)
    BY <2>1, <2>2
  <2>4. Run(m - 1, i)
    BY <1>5, <2>1, <2>2, <2>3
  <2>5. ASSUME NEW n \in 0 .. i - 1, n % 2 = 1, Run(n, i) PROVE FALSE
    BY <1>3, <2>2, <2>4, <2>5
  <2> QED BY <1>1, <2>3, <2>5
<1>8. ASSUME V(i), ~Consumed(ws, i) PROVE Consumed(ws, i + 1)
  <2>1. PICK n \in 0 .. i - 1 : Run(n, i)
    BY <1>4
  <2>2. n % 2 # 1
    BY <1>1, <1>8, <2>1
  <2>3. n + 1 \in 0 .. (i + 1) - 1 /\ (n + 1) % 2 = 1
    BY <2>2
  <2>4. Run(n + 1, i + 1)
    BY <1>5, <1>8, <2>1
  <2> QED BY <1>1, <2>3, <2>4
<1> QED BY <1>6, <1>7, <1>8 DEF V

(* What a line and a table of options are, for the lemmas below.           *)
GoodLine(ws) ==
  /\ ws \in Seq({ws[i] : i \in DOMAIN ws})
  /\ \A i \in DOMAIN ws : ws[i].kind \in {"long", "short", "other", "dash", "stop"}

GoodTable ==
  /\ Settings \in Seq({Settings[i] : i \in DOMAIN Settings})
  /\ \A i, j \in DOMAIN Settings : Settings[i].name = Settings[j].name => i = j

LEMMA KnownIs ==
  ASSUME GoodTable, NEW w
  PROVE  /\ Known(w) => Command!Named(Settings, w) \in DOMAIN Settings
         /\ Known(w) => w.kind \in {"long", "short"}
         /\ Wants(w) <=> Known(w) /\ Settings[Command!Named(Settings, w)].wants
         /\ Wanting(w) <=> Wants(w) /\ w.value = Command!NoValue
<1> DEFINE hit == {i \in DOMAIN Settings : \/ w.kind = "long"  /\ Settings[i].name = w.name
                                           \/ w.kind = "short" /\ Settings[i].short = w.name}
<1>1. Command!Named(Settings, w) = IF hit = {} THEN 0 ELSE Command!Min(hit)
  BY DEF Command!Named
<1>2. DOMAIN Settings \subseteq Nat
  BY DEF GoodTable
<1>3. hit # {} => Command!Min(hit) \in hit
  <2> SUFFICES ASSUME hit # {} PROVE Command!Min(hit) \in hit
    OBVIOUS
  <2>1. \E z \in hit : \A y \in hit : z <= y
    BY <1>2, Least
  <2> QED BY <2>1 DEF Command!Min
<1>4. hit \subseteq DOMAIN Settings
  OBVIOUS
<1> HIDE DEF hit
<1> QED BY <1>1, <1>3, <1>4 DEF Known, Wants, Wanting

(* The files and the settings of an option among the words before i.       *)
FilesBefore(ws, i) == {j \in Read(ws) : j < i /\ ws[j].kind = "other"}
SetBefore(ws, i, name) ==
  {j \in Read(ws) : j < i /\ Known(ws[j]) /\ Settings[Command!Named(Settings, ws[j])].name = name}
ValueAt(ws, j) ==
  IF ~Settings[Command!Named(Settings, ws[j])].wants THEN Command!Set1
  ELSE IF Wanting(ws[j]) THEN ws[j + 1] ELSE ws[j].value

Names == {Settings[k].name : k \in DOMAIN Settings}

LastCounts(ws, i, conf, k) ==
  LET set == SetBefore(ws, i, Settings[k].name)
  IN  /\ set = {} => conf[Settings[k].name] = Settings[k].default
      /\ \A j \in set : (\A l \in set : l <= j) => conf[Settings[k].name] = ValueAt(ws, j)

FileAt(ws, rest, j) == rest[Cardinality(FilesBefore(ws, j + 1))] = ws[j]

(* What the loop has when it is before word i.                             *)
ReadTo(ws, i, r) ==
  /\ \A j \in Read(ws) : j < i => j \notin Halts(ws)
  /\ r = [at |-> r.at, rest |-> r.rest, error |-> r.error, conf |-> r.conf]
  /\ r.rest \in Seq({ws[j] : j \in DOMAIN ws})
  /\ Len(r.rest) = Cardinality(FilesBefore(ws, i))
  /\ \A j \in FilesBefore(ws, i) : FileAt(ws, r.rest, j)
  /\ r.conf = [x \in Names |-> r.conf[x]]
  /\ \A k \in DOMAIN Settings : LastCounts(ws, i, r.conf, k)

GoesOnAt(ws, i, r) ==
  /\ ReadTo(ws, i, r) /\ r.at = i /\ r.error = 3
  /\ ~Consumed(ws, i)
StoppedAt(ws, i, r) ==
  /\ ReadTo(ws, i, r) /\ r.at = Len(ws) + 1 /\ i \in Halts(ws) /\ r.error = WrongBy(ws, i)

LEMMA ReadIs ==
  ASSUME NEW ws, GoodLine(ws)
  PROVE  /\ DOMAIN ws = 1 .. Len(ws) /\ Len(ws) \in Nat
         /\ Read(ws) \subseteq 1 .. Len(ws)
         /\ \A i \in 1 .. Len(ws) : i \in Read(ws) <=> ~Consumed(ws, i)
<1>1. DOMAIN ws = 1 .. Len(ws) /\ Len(ws) \in Nat
  BY DEF GoodLine
<1> QED BY <1>1 DEF Read

LEMMA FilesFinite ==
  ASSUME NEW ws, GoodLine(ws), NEW i
  PROVE  IsFiniteSet(FilesBefore(ws, i)) /\ Cardinality(FilesBefore(ws, i)) \in Nat
<1>1. FilesBefore(ws, i) \subseteq 1 .. Len(ws) /\ Len(ws) \in Nat
  BY ReadIs DEF FilesBefore
<1>2. IsFiniteSet(1 .. Len(ws))
  BY <1>1, FS_Interval
<1> QED BY <1>1, <1>2, FS_Subset, FS_CardinalityType

(* A word that is a value, and one that is neither a file nor an option,   *)
(* changes nothing.                                                        *)
LEMMA PassesOver ==
  ASSUME NEW ws, GoodLine(ws), NEW i \in 1 .. Len(ws), NEW r, ReadTo(ws, i, r),
         i \notin Halts(ws), i \in Read(ws) => ws[i].kind # "other" /\ ~Known(ws[i])
  PROVE  ReadTo(ws, i + 1, r)
<1>1. \A j \in Read(ws) : j \in Int /\ (j < i + 1 <=> (j < i \/ j = i))
  BY ReadIs
<1>2. FilesBefore(ws, i + 1) = FilesBefore(ws, i)
  BY <1>1 DEF FilesBefore
<1>3. \A name : SetBefore(ws, i + 1, name) = SetBefore(ws, i, name)
  BY <1>1 DEF SetBefore
<1>4. \A k \in DOMAIN Settings : LastCounts(ws, i + 1, r.conf, k)
  BY <1>3 DEF LastCounts, ReadTo
<1>5. \A j \in Read(ws) : j < i + 1 => j \notin Halts(ws)
  BY <1>1 DEF ReadTo
<1>6. \A j \in FilesBefore(ws, i + 1) : FileAt(ws, r.rest, j)
  BY <1>2 DEF ReadTo, FileAt
<1> QED BY <1>2, <1>4, <1>5, <1>6 DEF ReadTo

LEMMA AddsFile ==
  ASSUME NEW ws, GoodLine(ws), NEW i \in 1 .. Len(ws), NEW r, ReadTo(ws, i, r),
         i \notin Halts(ws), i \in Read(ws), ws[i].kind = "other",
         NEW r2, r2 = [r EXCEPT !.at = i + 1, !.rest = Append(@, ws[i])]
  PROVE  ReadTo(ws, i + 1, r2)
<1> DEFINE F == FilesBefore(ws, i)
           W == {ws[j] : j \in DOMAIN ws}
<1>1. \A j \in Read(ws) : j \in Int /\ (j < i + 1 <=> (j < i \/ j = i))
  BY ReadIs
<1>2. ~Known(ws[i])
  BY DEF Known
<1>3. FilesBefore(ws, i + 1) = F \cup {i} /\ i \notin F
  BY <1>1 DEF FilesBefore
<1>4. \A name : SetBefore(ws, i + 1, name) = SetBefore(ws, i, name)
  BY <1>1, <1>2 DEF SetBefore
<1>5. IsFiniteSet(F) /\ Cardinality(F) \in Nat
  BY FilesFinite
<1>6. Cardinality(F \cup {i}) = Cardinality(F) + 1
  BY <1>3, <1>5, FS_AddElement
<1>7. /\ r = [at |-> r.at, rest |-> r.rest, error |-> r.error, conf |-> r.conf]
      /\ r.rest \in Seq(W) /\ Len(r.rest) = Cardinality(F)
      /\ \A j \in F : FileAt(ws, r.rest, j)
      /\ r.conf = [x \in Names |-> r.conf[x]]
      /\ \A k \in DOMAIN Settings : LastCounts(ws, i, r.conf, k)
      /\ \A j \in Read(ws) : j < i => j \notin Halts(ws)
  BY DEF ReadTo
<1>8. /\ r2 = [at |-> i + 1, rest |-> Append(r.rest, ws[i]), error |-> r.error, conf |-> r.conf]
      /\ ws[i] \in W
  <2>1. DOMAIN ws = 1 .. Len(ws)
    BY ReadIs
  <2>2. ws[i] \in W
    BY <2>1
  <2> HIDE DEF W, F
  <2>3. r2 = [at |-> i + 1, rest |-> Append(r.rest, ws[i]), error |-> r.error, conf |-> r.conf]
    BY <1>7
  <2> QED BY <2>2, <2>3
<1> HIDE DEF W
<1>9. /\ r2.rest \in Seq(W) /\ Len(r2.rest) = Cardinality(F) + 1
      /\ r2.rest[Cardinality(F) + 1] = ws[i]
      /\ \A n \in 1 .. Cardinality(F) : r2.rest[n] = r.rest[n]
      /\ r2.conf = r.conf /\ r2.at = i + 1
  <2>1. r2.rest = Append(r.rest, ws[i])
    BY <1>8
  <2> HIDE DEF F
  <2> QED BY <1>5, <1>7, <1>8, <2>1
<1>10. ASSUME NEW j \in F \cup {i} PROVE FileAt(ws, r2.rest, j)
  <2>1. CASE j = i
    <3>1. Cardinality(FilesBefore(ws, j + 1)) = Cardinality(F) + 1
      BY <1>3, <1>6, <2>1
    <3> QED BY <1>9, <2>1, <3>1 DEF FileAt
  <2>2. CASE j \in F
    <3>1. FilesBefore(ws, j + 1) \subseteq F /\ j \in FilesBefore(ws, j + 1)
      <4>1. j \in Read(ws) /\ j \in Int /\ j < i /\ ws[j].kind = "other"
        BY <1>1, <2>2 DEF FilesBefore
      <4>2. \A l \in Read(ws) : l < j + 1 => l < i
        BY <1>1, <4>1
      <4>3. j < j + 1
        BY <4>1
      <4> QED BY <4>1, <4>2, <4>3 DEF FilesBefore
    <3>2. /\ IsFiniteSet(FilesBefore(ws, j + 1)) /\ Cardinality(FilesBefore(ws, j + 1)) \in Nat
          /\ Cardinality(FilesBefore(ws, j + 1)) <= Cardinality(F)
      BY <1>5, <3>1, FilesFinite, FS_Subset
    <3>3. Cardinality(FilesBefore(ws, j + 1)) # 0
      BY <3>1, <3>2, FS_EmptySet
    <3>4. FileAt(ws, r.rest, j)
      BY <1>7, <2>2
    <3> QED BY <1>5, <1>9, <3>2, <3>3, <3>4 DEF FileAt
  <2> QED BY <2>1, <2>2
<1>11. \A k \in DOMAIN Settings : LastCounts(ws, i + 1, r2.conf, k)
  BY <1>4, <1>7, <1>9 DEF LastCounts
<1>12. \A j \in Read(ws) : j < i + 1 => j \notin Halts(ws)
  BY <1>1, <1>7
<1>13. r2 = [at |-> r2.at, rest |-> r2.rest, error |-> r2.error, conf |-> r2.conf]
  BY <1>8
<1> HIDE DEF F
<1>14. Len(r2.rest) = Cardinality(FilesBefore(ws, i + 1))
  BY <1>3, <1>6, <1>9
<1>15. \A j \in FilesBefore(ws, i + 1) : FileAt(ws, r2.rest, j)
  BY <1>3, <1>10
<1> QED BY <1>7, <1>9, <1>11, <1>12, <1>13, <1>14, <1>15 DEF ReadTo, W

SetTo(r, name, v, at) == [r EXCEPT !.at = at, !.conf = [@ EXCEPT ![name] = v]]

LEMMA PartsOf ==
  ASSUME NEW r, NEW at, NEW rest, NEW error, NEW conf,
         r = [at |-> at, rest |-> rest, error |-> error, conf |-> conf]
  PROVE  r.at = at /\ r.rest = rest /\ r.error = error /\ r.conf = conf
OBVIOUS

LEMMA SetsOption ==
  ASSUME NEW ws, GoodLine(ws), GoodTable, NEW i \in 1 .. Len(ws), NEW r, ReadTo(ws, i, r),
         i \notin Halts(ws), i \in Read(ws), Known(ws[i]), NEW at,
         NEW r2, r2 = SetTo(r, Settings[Command!Named(Settings, ws[i])].name, ValueAt(ws, i), at)
  PROVE  ReadTo(ws, i + 1, r2) /\ r2.at = at /\ r2.error = r.error
<1> DEFINE here == Command!Named(Settings, ws[i])
           v == ValueAt(ws, i)
<1>1. \A j \in Read(ws) : j \in Int /\ (j < i + 1 <=> (j < i \/ j = i))
  BY ReadIs
<1>2. here \in DOMAIN Settings /\ ws[i].kind # "other"
  BY KnownIs
<1>3. FilesBefore(ws, i + 1) = FilesBefore(ws, i)
  BY <1>1, <1>2 DEF FilesBefore
<1>4. ReadTo(ws, i, r)
  OBVIOUS
<1> DEFINE name == Settings[here].name
<1>5. name \in Names
  BY <1>2 DEF Names
<1>6. \A x : /\ x # name => SetBefore(ws, i + 1, x) = SetBefore(ws, i, x)
             /\ x = name => SetBefore(ws, i + 1, x) = SetBefore(ws, i, x) \cup {i}
  BY <1>1 DEF SetBefore
<1>7. \A x : \A j \in SetBefore(ws, i, x) : j \in Int /\ j < i
  BY <1>1 DEF SetBefore
<1> HIDE DEF here, v, name
<1>8. r2 = [r EXCEPT !.at = at, !.conf = [@ EXCEPT ![name] = v]]
  BY DEF name, here, v, SetTo
<1> DEFINE c == [r.conf EXCEPT ![name] = v]
<1>9. r2 = [at |-> at, rest |-> r.rest, error |-> r.error, conf |-> c]
  BY <1>4, <1>8 DEF ReadTo
<1> HIDE DEF c
<1>10. r2.at = at /\ r2.rest = r.rest /\ r2.error = r.error /\ r2.conf = c
  BY <1>9, PartsOf
<1>11. /\ r2.conf = [x \in Names |-> r2.conf[x]]
       /\ r2.conf[name] = v
       /\ \A x \in Names : x # name => r2.conf[x] = r.conf[x]
  <2>1. r.conf = [x \in Names |-> r.conf[x]]
    BY <1>4 DEF ReadTo
  <2> QED BY <1>5, <1>10, <2>1 DEF c
<1>12. ASSUME NEW k \in DOMAIN Settings PROVE LastCounts(ws, i + 1, r2.conf, k)
  <2>1. LastCounts(ws, i, r.conf, k) /\ Settings[k].name \in Names
    BY <1>4 DEF ReadTo, Names
  <2>2. CASE Settings[k].name # name
    BY <1>6, <1>11, <2>1, <2>2 DEF LastCounts
  <2>3. CASE Settings[k].name = name
    <3> DEFINE set == SetBefore(ws, i, name)
    <3>1. SetBefore(ws, i + 1, name) = set \cup {i}
      BY <1>6
    <3>2. \A j \in set : j \in Int /\ j < i
      BY <1>7
    <3>3. r2.conf[name] = ValueAt(ws, i)
      BY <1>11 DEF v
    <3> HIDE DEF set
    <3>4. \A j \in set \cup {i} : (\A l \in set \cup {i} : l <= j) => j = i
      BY <3>2
    <3> QED BY <2>3, <3>1, <3>3, <3>4 DEF LastCounts
  <2> QED BY <2>2, <2>3
<1>13. r2 = [at |-> r2.at, rest |-> r2.rest, error |-> r2.error, conf |-> r2.conf]
  BY <1>9
<1>14. \A j \in Read(ws) : j < i + 1 => j \notin Halts(ws)
  BY <1>1, <1>4 DEF ReadTo
<1>15. ReadTo(ws, i + 1, r2)
  BY <1>3, <1>4, <1>10, <1>11, <1>12, <1>13, <1>14 DEF ReadTo
<1> QED BY <1>10, <1>15

(* Going on, the loop is before the next word, or behind its value.        *)
Further(ws, i, r) == \E k \in {i + 1, i + 2} : k <= Len(ws) + 1 /\ GoesOnAt(ws, k, r)

(* What is wrong with a word, by its parts.                                *)
LEMMA HaltsIs ==
  ASSUME NEW ws, GoodLine(ws), GoodTable, NEW i \in 1 .. Len(ws), ~Consumed(ws, i)
  PROVE  LET w == ws[i] IN
         /\ i \in Halts(ws) <=> w.kind = "stop" \/ WrongBy(ws, i) # 3
         /\ w.kind \notin {"long", "short"} => WrongBy(ws, i) = 3
         /\ w.kind \in {"long", "short"} /\ ~Known(w) => WrongBy(ws, i) = 0
         /\ Known(w) /\ Wants(w) /\ (w.value = Command!EmptyValue \/ (Wanting(w) /\ i = Len(ws)))
              => WrongBy(ws, i) = 1
         /\ Known(w) /\ Wants(w) /\ ~(w.value = Command!EmptyValue \/ (Wanting(w) /\ i = Len(ws)))
              => WrongBy(ws, i) = 3
         /\ Known(w) /\ ~Wants(w) /\ w.value # Command!NoValue => WrongBy(ws, i) = 2
         /\ Known(w) /\ ~Wants(w) /\ w.value = Command!NoValue => WrongBy(ws, i) = 3
<1> DEFINE w == ws[i]
           lacks == w.value = Command!EmptyValue \/ (Wanting(w) /\ i = Len(ws))
<1>1. i \in Read(ws)
  BY ReadIs
<1>2. /\ Known(w) => w.kind \in {"long", "short"}
      /\ Wants(w) => Known(w)
  BY KnownIs
<1>3. i \in Halts(ws) <=> w.kind = "stop" \/ WrongBy(ws, i) # 3
  BY <1>1 DEF Halts
<1>4. WrongBy(ws, i) = CASE w.kind \notin {"long", "short"} -> 3
                        [] w.kind \in {"long", "short"} /\ ~Known(w) -> 0
                        [] Wants(w) /\ lacks -> 1
                        [] Known(w) /\ ~Wants(w) /\ w.value # Command!NoValue -> 2
                        [] OTHER -> 3
  BY DEF WrongBy
<1>5. w.kind \notin {"long", "short"} => WrongBy(ws, i) = 3
  <2> HIDE DEF w, lacks
  <2> QED BY <1>2, <1>4
<1> HIDE DEF w, lacks
<1>6. w.kind \in {"long", "short"} /\ ~Known(w) => WrongBy(ws, i) = 0
  BY <1>2, <1>4
<1>7. Known(w) /\ Wants(w) /\ lacks => WrongBy(ws, i) = 1
  BY <1>2, <1>4
<1>8. Known(w) /\ Wants(w) /\ ~lacks => WrongBy(ws, i) = 3
  BY <1>2, <1>4
<1>9. Known(w) /\ ~Wants(w) /\ w.value # Command!NoValue => WrongBy(ws, i) = 2
  BY <1>2, <1>4
<1>10. Known(w) /\ ~Wants(w) /\ w.value = Command!NoValue => WrongBy(ws, i) = 3
  BY <1>2, <1>4
<1> QED BY <1>3, <1>5, <1>6, <1>7, <1>8, <1>9, <1>10 DEF w, lacks

LEMMA StepsOn ==
  ASSUME NEW ws, GoodLine(ws), GoodTable, NEW i \in 1 .. Len(ws),
         ~Wanting(ws[i]), NEW r, ReadTo(ws, i + 1, r), r.at = i + 1, r.error = 3
  PROVE  Further(ws, i, r)
<1>1. ~Consumed(ws, i + 1)
  BY ConsumedNext
<1>2. i + 1 <= Len(ws) + 1
  BY ReadIs
<1> QED BY <1>1, <1>2 DEF Further, GoesOnAt

FailedTo(r, at, e) == [r EXCEPT !.at = at, !.error = e]

LEMMA FailedIs ==
  ASSUME NEW r, r = [at |-> r.at, rest |-> r.rest, error |-> r.error, conf |-> r.conf],
         NEW at, NEW e
  PROVE  FailedTo(r, at, e) = [at |-> at, rest |-> r.rest, error |-> e, conf |-> r.conf]
<1> DEFINE F == {"at", "rest", "error", "conf"}
           q == [at |-> at, rest |-> r.rest, error |-> e, conf |-> r.conf]
           p == FailedTo(r, at, e)
<1>1. DOMAIN r = F
  OBVIOUS
<1>2. p = [x \in F |-> p[x]] /\ q = [x \in F |-> q[x]]
  BY <1>1 DEF FailedTo
<1>3. p["at"] = at /\ p["rest"] = r.rest /\ p["error"] = e /\ p["conf"] = r.conf
  BY <1>1 DEF FailedTo
<1>4. q["at"] = at /\ q["rest"] = r.rest /\ q["error"] = e /\ q["conf"] = r.conf
  OBVIOUS
<1> HIDE DEF p, q
<1>5. \A x \in F : p[x] = q[x]
  BY <1>3, <1>4
<1>6. p = q
  BY <1>2, <1>5
<1> QED BY <1>6 DEF p, q

LEMMA StopsAt ==
  ASSUME NEW ws, NEW i, NEW r, ReadTo(ws, i, r), i \in Halts(ws),
         NEW e, e = WrongBy(ws, i)
  PROVE  StoppedAt(ws, i, FailedTo(r, Len(ws) + 1, e))
<1> DEFINE n == Len(ws) + 1
           r2 == FailedTo(r, n, e)
<1> HIDE DEF n
<1>1. r = [at |-> r.at, rest |-> r.rest, error |-> r.error, conf |-> r.conf]
  BY DEF ReadTo
<1>2. r2 = [at |-> n, rest |-> r.rest, error |-> e, conf |-> r.conf]
  BY <1>1, FailedIs
<1> HIDE DEF r2
<1>3. r2.rest = r.rest /\ r2.conf = r.conf /\ r2.at = n /\ r2.error = e
  BY <1>2, PartsOf
<1>4. r2 = [at |-> r2.at, rest |-> r2.rest, error |-> r2.error, conf |-> r2.conf]
  BY <1>2
<1>5. ReadTo(ws, i, r2)
  BY <1>3, <1>4 DEF ReadTo
<1>6. StoppedAt(ws, i, r2)
  BY <1>3, <1>5 DEF StoppedAt, n
<1> QED BY <1>6 DEF r2, n

MovedTo(r, at) == [r EXCEPT !.at = at]

LEMMA MovesTo ==
  ASSUME NEW ws, NEW i, NEW r, ReadTo(ws, i, r), NEW at
  PROVE  ReadTo(ws, i, MovedTo(r, at)) /\ MovedTo(r, at).at = at /\ MovedTo(r, at).error = r.error
<1> DEFINE r2 == MovedTo(r, at)
<1>1. r = [at |-> r.at, rest |-> r.rest, error |-> r.error, conf |-> r.conf]
  BY DEF ReadTo
<1>2. r2 = [at |-> at, rest |-> r.rest, error |-> r.error, conf |-> r.conf]
  BY <1>1 DEF MovedTo
<1> HIDE DEF r2
<1>3. r2.rest = r.rest /\ r2.conf = r.conf /\ r2.at = at /\ r2.error = r.error
  BY <1>2, PartsOf
<1>4. r2 = [at |-> r2.at, rest |-> r2.rest, error |-> r2.error, conf |-> r2.conf]
  BY <1>2
<1>5. ReadTo(ws, i, r2)
  BY <1>3, <1>4 DEF ReadTo
<1> QED BY <1>3, <1>5 DEF r2

LEMMA TurnIs ==
  ASSUME NEW ws, GoodLine(ws), GoodTable, NEW i \in 1 .. Len(ws), NEW r, GoesOnAt(ws, i, r)
  PROVE  LET r2 == Command!ReadWord(Settings, ws, r)
         IN  StoppedAt(ws, i, r2) \/ Further(ws, i, r2)
<1> DEFINE n == Len(ws)
           w == ws[i]
           k == Command!Named(Settings, w)
           fails(e) == [r EXCEPT !.at = n + 1, !.error = e]
           sets(v, next) == [r EXCEPT !.at = next, !.conf = [@ EXCEPT ![Settings[k].name] = v]]
           r2 == Command!ReadWord(Settings, ws, r)
<1>1. ReadTo(ws, i, r) /\ r.at = i /\ r.error = 3 /\ ~Consumed(ws, i)
  BY DEF GoesOnAt
<1>2. i \in Read(ws) /\ n \in Nat /\ w.kind \in {"long", "short", "other", "dash", "stop"}
  BY <1>1, ReadIs DEF GoodLine
<1>3. /\ Known(w) => k \in DOMAIN Settings
      /\ Known(w) <=> w.kind \in {"long", "short"} /\ k # 0
      /\ Wants(w) <=> Known(w) /\ Settings[k].wants
      /\ Wanting(w) <=> Wants(w) /\ w.value = Command!NoValue
  BY KnownIs DEF Known
<1>4. /\ i \in Halts(ws) <=> w.kind = "stop" \/ WrongBy(ws, i) # 3
      /\ w.kind \notin {"long", "short"} => WrongBy(ws, i) = 3
      /\ w.kind \in {"long", "short"} /\ ~Known(w) => WrongBy(ws, i) = 0
      /\ Known(w) /\ Wants(w) /\ (w.value = Command!EmptyValue \/ (Wanting(w) /\ i = Len(ws)))
           => WrongBy(ws, i) = 1
      /\ Known(w) /\ Wants(w) /\ ~(w.value = Command!EmptyValue \/ (Wanting(w) /\ i = Len(ws)))
           => WrongBy(ws, i) = 3
      /\ Known(w) /\ ~Wants(w) /\ w.value # Command!NoValue => WrongBy(ws, i) = 2
      /\ Known(w) /\ ~Wants(w) /\ w.value = Command!NoValue => WrongBy(ws, i) = 3
  BY <1>1, HaltsIs
<1>5. r2 = CASE w.kind = "stop"  -> [r EXCEPT !.at = n + 1]
             [] w.kind = "dash"  -> [r EXCEPT !.at = @ + 1]
             [] w.kind = "other" -> [r EXCEPT !.at = @ + 1, !.rest = Append(@, w)]
             [] w.kind \in {"long", "short"} ->
                  IF k = 0 THEN fails(0)
                  ELSE IF ~Settings[k].wants
                  THEN IF w.value # Command!NoValue THEN fails(2) ELSE sets(Command!Set1, i + 1)
                  ELSE IF w.value = Command!EmptyValue \/ (w.value = Command!NoValue /\ i = n) THEN fails(1)
                  ELSE IF w.value # Command!NoValue THEN sets(w.value, i + 1)
                  ELSE sets(ws[i + 1], Command!AfterValue(i))
  BY <1>1 DEF Command!ReadWord
<1> HIDE DEF n, w, k, fails, sets, r2
<1>6. CASE w.kind = "stop"
  <2>1. r2 = MovedTo(r, n + 1) /\ i \in Halts(ws) /\ WrongBy(ws, i) = 3
    BY <1>4, <1>5, <1>6 DEF MovedTo
  <2>2. ReadTo(ws, i, r2) /\ r2.at = n + 1 /\ r2.error = 3
    BY <1>1, <2>1, MovesTo
  <2> QED BY <2>1, <2>2 DEF StoppedAt, n, r2
<1>7. CASE w.kind = "dash"
  <2>1. /\ r2 = MovedTo(r, i + 1) /\ i \notin Halts(ws)
        /\ ~Known(w) /\ ~Wanting(w) /\ w.kind # "other"
    BY <1>1, <1>3, <1>4, <1>5, <1>7 DEF MovedTo
  <2>2. ReadTo(ws, i + 1, r)
    BY <1>1, <2>1, PassesOver DEF w
  <2>3. ReadTo(ws, i + 1, r2) /\ r2.at = i + 1 /\ r2.error = 3
    BY <1>1, <2>1, <2>2, MovesTo
  <2>4. Further(ws, i, r2)
    BY <2>1, <2>3, StepsOn DEF w
  <2> QED BY <2>4 DEF r2
<1>8. CASE w.kind = "other"
  <2>1. /\ r2 = [r EXCEPT !.at = i + 1, !.rest = Append(@, w)] /\ i \notin Halts(ws)
        /\ ~Known(w) /\ ~Wanting(w)
    BY <1>1, <1>3, <1>4, <1>5, <1>8
  <2>2. ReadTo(ws, i + 1, r2)
    BY <1>1, <1>2, <1>8, <2>1, AddsFile DEF w
  <2>3. r2.at = i + 1 /\ r2.error = 3
    BY <1>1, <2>1 DEF ReadTo
  <2>4. Further(ws, i, r2)
    BY <2>1, <2>2, <2>3, StepsOn DEF w
  <2> QED BY <2>4 DEF r2
<1>9. CASE i \in Halts(ws) /\ w.kind \in {"long", "short"}
  <2>1. r2 = FailedTo(r, n + 1, WrongBy(ws, i))
    <3>4. \A e : fails(e) = FailedTo(r, n + 1, e)
      BY DEF fails, FailedTo
    <3>1. CASE k = 0
      BY <1>3, <1>4, <1>5, <1>9, <3>1, <3>4
    <3>2. CASE k # 0 /\ ~Settings[k].wants
      BY <1>3, <1>4, <1>5, <1>9, <3>2, <3>4
    <3>3. CASE k # 0 /\ Settings[k].wants
      BY <1>3, <1>4, <1>5, <1>9, <3>3, <3>4 DEF n
    <3> QED BY <3>1, <3>2, <3>3
  <2>2. StoppedAt(ws, i, r2)
    BY <1>1, <1>9, <2>1, StopsAt DEF n
  <2> QED BY <2>2 DEF r2
<1>10. CASE i \notin Halts(ws) /\ w.kind \in {"long", "short"}
  <2>1. /\ Known(w)
        /\ r2 = IF Wanting(w) THEN sets(ws[i + 1], Command!AfterValue(i))
                ELSE sets(ValueAt(ws, i), i + 1)
    <3>1. Known(w) /\ k # 0
      BY <1>3, <1>4, <1>10
    <3>2. CASE ~Settings[k].wants
      <4>1. ValueAt(ws, i) = Command!Set1
        BY <3>2 DEF ValueAt, k, w
      <4> QED BY <1>3, <1>4, <1>5, <1>10, <3>1, <3>2, <4>1
    <3>3. CASE Settings[k].wants
      <4>1. ~Wanting(w) => ValueAt(ws, i) = w.value
        BY <3>3 DEF ValueAt, k, w
      <4> QED BY <1>3, <1>4, <1>5, <1>10, <3>1, <3>3, <4>1 DEF n
    <3> QED BY <3>1, <3>2, <3>3
  <2>2. Wanting(w) => i # n /\ ValueAt(ws, i) = ws[i + 1]
    <3>1. Wanting(w) => Wants(w) /\ Settings[k].wants
      BY <1>3
    <3>2. Wanting(w) => i # n
      BY <1>4, <1>10, <2>1, <3>1 DEF n
    <3> QED BY <3>1, <3>2 DEF ValueAt, k, w
  <2> DEFINE next == IF Wanting(w) THEN i + 2 ELSE i + 1
  <2>3. r2 = sets(ValueAt(ws, i), next)
    BY <2>1, <2>2 DEF Command!AfterValue
  <2> HIDE DEF next
  <2>4. ReadTo(ws, i + 1, r2) /\ r2.at = next /\ r2.error = 3
    <3>1. r2 = SetTo(r, Settings[k].name, ValueAt(ws, i), next)
      BY <2>3 DEF sets, SetTo
    <3> QED BY <1>1, <1>2, <1>10, <2>1, <3>1, SetsOption DEF k, w
  <2>5. CASE ~Wanting(w)
    <3>1. Further(ws, i, r2)
      BY <2>4, <2>5, StepsOn DEF w, next
    <3> QED BY <3>1 DEF r2
  <2>6. CASE Wanting(w)
    <3>1. i + 1 \in 1 .. n /\ next = i + 2 /\ (i + 1) + 1 = i + 2
      BY <1>2, <2>2, <2>6 DEF next, n
    <3>2. Consumed(ws, i + 1) /\ ~Consumed(ws, i + 2)
      <4>1. Consumed(ws, i + 1)
        BY <1>1, <2>6, ConsumedNext DEF w
      <4>2. ~Consumed(ws, (i + 1) + 1)
        BY <3>1, <4>1, ConsumedNext
      <4> QED BY <3>1, <4>1, <4>2
    <3>3. i + 1 \notin Read(ws) /\ i + 1 \notin Halts(ws)
      BY <3>1, <3>2, ReadIs DEF Halts, n
    <3>4. ReadTo(ws, (i + 1) + 1, r2)
      BY <2>4, <3>1, <3>3, PassesOver DEF n
    <3>5. ReadTo(ws, i + 2, r2) /\ i + 2 <= n + 1
      BY <1>2, <3>1, <3>4
    <3>6. Further(ws, i, r2)
      BY <2>4, <3>1, <3>2, <3>5 DEF Further, GoesOnAt, n
    <3> QED BY <3>6 DEF r2
  <2> QED BY <2>5, <2>6
<1> QED BY <1>2, <1>6, <1>7, <1>8, <1>9, <1>10

LEMMA StartsReading ==
  ASSUME NEW ws, GoodLine(ws), GoodTable
  PROVE  GoesOnAt(ws, 1, Command!Beginning(Settings))
<1> DEFINE r == Command!Beginning(Settings)
           first(x) == CHOOSE i \in DOMAIN Settings : Settings[i].name = x
           conf == [x \in Names |-> Settings[first(x)].default]
<1>1. r = [at |-> 1, rest |-> <<>>, error |-> 3, conf |-> conf]
  BY DEF Command!Beginning, Names
<1>2. ASSUME NEW k \in DOMAIN Settings PROVE first(Settings[k].name) = k
  <2>1. /\ first(Settings[k].name) \in DOMAIN Settings
        /\ Settings[first(Settings[k].name)].name = Settings[k].name
    OBVIOUS
  <2> QED BY <2>1 DEF GoodTable
<1> HIDE DEF first
<1>3. /\ conf = [x \in Names |-> conf[x]]
      /\ \A k \in DOMAIN Settings : conf[Settings[k].name] = Settings[k].default
  BY <1>2 DEF Names
<1> HIDE DEF conf
<1>4. r.at = 1 /\ r.rest = <<>> /\ r.error = 3 /\ r.conf = conf
  BY <1>1, PartsOf
<1>5. r = [at |-> r.at, rest |-> r.rest, error |-> r.error, conf |-> r.conf]
  BY <1>1, <1>4
<1> HIDE DEF r
<1>6. \A j \in Read(ws) : ~(j < 1)
  BY ReadIs
<1>7. FilesBefore(ws, 1) = {} /\ \A name : SetBefore(ws, 1, name) = {}
  BY <1>6 DEF FilesBefore, SetBefore
<1>8. r.rest \in Seq({ws[j] : j \in DOMAIN ws}) /\ Len(r.rest) = Cardinality(FilesBefore(ws, 1))
  BY <1>4, <1>7, FS_EmptySet
<1>9. \A k \in DOMAIN Settings : LastCounts(ws, 1, r.conf, k)
  BY <1>3, <1>4, <1>7 DEF LastCounts
<1>10. ReadTo(ws, 1, r)
  <2>1. r.conf = [x \in Names |-> r.conf[x]]
    BY <1>3, <1>4
  <2> QED BY <1>5, <1>6, <1>7, <1>8, <1>9, <2>1 DEF ReadTo
<1>11. ~Consumed(ws, 1)
  <2>1. 1 \in Nat \ {0}
    OBVIOUS
  <2> QED BY <2>1, ConsumedNext
<1>12. GoesOnAt(ws, 1, r)
  BY <1>4, <1>10, <1>11 DEF GoesOnAt
<1> QED BY <1>12 DEF r

(* After n turns of the loop it has read n words or more, or has stopped.  *)
Reads(ws, n, r) ==
  \/ \E i \in n + 1 .. Len(ws) + 1 : GoesOnAt(ws, i, r)
  \/ \E i \in 1 .. Len(ws) : StoppedAt(ws, i, r)

LEMMA OpenReads ==
  ASSUME NEW ws, GoodLine(ws), GoodTable
  PROVE  Reads(ws, Len(ws), Command!Open(Settings, ws))
<1> DEFINE m == Len(ws)
<1>1. m \in Nat
  BY ReadIs
<1>2. PICK a : /\ a[0] = Command!Beginning(Settings)
               /\ \A n \in 1 .. Len(ws) :
                    a[n] = IF a[n-1].at > Len(ws) THEN a[n-1]
                           ELSE Command!ReadWord(Settings, ws, a[n-1])
               /\ Command!Open(Settings, ws) = a[Len(ws)]
  BY <1>1, OpenIs
<1> DEFINE T == {n \in 0 .. m : Reads(ws, n, a[n])}
<1>3. 0 \in T
  <2>1. GoesOnAt(ws, 1, a[0])
    BY <1>2, StartsReading
  <2>2. 1 \in 0 + 1 .. Len(ws) + 1
    BY <1>1
  <2> QED BY <1>1, <2>1, <2>2 DEF Reads
<1>4. ASSUME NEW n \in 0 .. m - 1, n \in T PROVE n + 1 \in T
  <2>1. n + 1 \in 1 .. Len(ws) /\ (n + 1) - 1 = n /\ n + 1 \in 0 .. m
    BY <1>1
  <2> DEFINE r == a[n]
             r2 == a[n+1]
  <2>2. r2 = IF r.at > Len(ws) THEN r ELSE Command!ReadWord(Settings, ws, r)
    BY <1>2, <2>1
  <2>3. Reads(ws, n, r)
    BY <1>4
  <2> HIDE DEF r, r2
  <2>4. Reads(ws, n + 1, r2)
    <3>1. CASE \E i \in 1 .. Len(ws) : StoppedAt(ws, i, r)
      <4>1. r.at > Len(ws)
        BY <1>1, <3>1 DEF StoppedAt
      <4> QED BY <2>2, <3>1, <4>1 DEF Reads
    <3>2. CASE \E i \in n + 1 .. Len(ws) + 1 : GoesOnAt(ws, i, r)
      <4>1. PICK i \in n + 1 .. Len(ws) + 1 : GoesOnAt(ws, i, r)
        BY <3>2
      <4>2. r.at = i
        BY <4>1 DEF GoesOnAt
      <4>3. CASE i = Len(ws) + 1
        <5>1. r2 = r /\ i \in (n + 1) + 1 .. Len(ws) + 1
          BY <1>1, <2>1, <2>2, <4>2, <4>3
        <5> QED BY <4>1, <5>1 DEF Reads
      <4>4. CASE i # Len(ws) + 1
        <5>1. i \in 1 .. Len(ws) /\ ~(i > Len(ws))
          BY <1>1, <2>1, <4>4
        <5>2. r2 = Command!ReadWord(Settings, ws, r)
          BY <2>2, <4>2, <5>1
        <5>3. StoppedAt(ws, i, r2) \/ Further(ws, i, r2)
          BY <4>1, <5>1, <5>2, TurnIs
        <5>4. ASSUME Further(ws, i, r2) PROVE Reads(ws, n + 1, r2)
          <6>1. PICK k \in {i + 1, i + 2} : k <= Len(ws) + 1 /\ GoesOnAt(ws, k, r2)
            BY <5>4 DEF Further
          <6>2. k \in (n + 1) + 1 .. Len(ws) + 1
            BY <1>1, <2>1, <6>1
          <6> QED BY <6>1, <6>2 DEF Reads
        <5> QED BY <5>1, <5>3, <5>4 DEF Reads
      <4> QED BY <4>3, <4>4
    <3> QED BY <2>3, <3>1, <3>2 DEF Reads
  <2> QED BY <2>1, <2>4 DEF r2
<1> HIDE DEF T
<1>5. 0 .. m \subseteq T
  BY <1>1, <1>3, <1>4, UpTo
<1>6. m \in T
  BY <1>1, <1>5
<1> QED BY <1>2, <1>6 DEF T

LEMMA HaltIs ==
  ASSUME NEW ws, GoodLine(ws), NEW i \in 1 .. Len(ws) + 1,
         i \in Halts(ws) \/ i = Len(ws) + 1, \A j \in Read(ws) : j < i => j \notin Halts(ws)
  PROVE  Halt(ws) = i
<1> DEFINE S == Halts(ws) \cup {Len(ws) + 1}
<1>1. Halts(ws) \subseteq Read(ws) /\ Read(ws) \subseteq 1 .. Len(ws) /\ Len(ws) \in Nat
  BY ReadIs DEF Halts
<1>2. i \in S /\ \A j \in S : j \in Int /\ i <= j
  BY <1>1
<1>3. Halt(ws) = CHOOSE x \in S : \A y \in S : x <= y
  BY DEF Halt, Command!Min
<1> HIDE DEF S
<1>4. \A x \in S : (\A y \in S : x <= y) => x = i
  BY <1>2
<1> QED BY <1>2, <1>3, <1>4

LEMMA MaxIs ==
  ASSUME NEW n \in Nat, NEW S, S \subseteq 1 .. n, S # {}
  PROVE  Command!Max(S) \in S /\ \A y \in S : y <= Command!Max(S)
<1> DEFINE T == {n - x : x \in S}
<1>1. T \subseteq Nat /\ T # {}
  OBVIOUS
<1>2. PICK z \in T : \A y \in T : z <= y
  BY <1>1, Least
<1>3. PICK x \in S : z = n - x
  BY <1>2
<1>4. ASSUME NEW y \in S PROVE y <= x
  <2>1. n - x <= n - y
    BY <1>2, <1>3
  <2> QED BY <2>1
<1>5. \E u \in S : \A y \in S : u >= y
  BY <1>4
<1>6. Command!Max(S) \in S /\ \A y \in S : Command!Max(S) >= y
  BY <1>5 DEF Command!Max
<1>7. \A y \in S : y \in Int
  OBVIOUS
<1> QED BY <1>6, <1>7

(* Whatever line a program with whatever table of options is started with, *)
(* open reads it so: the files are the words that are no option and no     *)
(* value of one, in order, the last occurrence of an option counts, and    *)
(* the error is that of the first wrong word (param.cpp Param::open).      *)
THEOREM CommandLineAlwaysMeans == CasesSpec => []CommandLineMeans
<1> DEFINE LineKnown == When("words") => case.input \in CommandLines
<1>1. CasesInit => LineKnown
  BY DEF CasesInit, Case, When
<1>2. LineKnown /\ [CasesNext]_case => LineKnown'
  BY DEF CasesNext, When
<1>3. LineKnown => CommandLineMeans
  <2> SUFFICES ASSUME LineKnown, When("words") PROVE CommandLineMeans
    BY DEF CommandLineMeans
  <2> DEFINE ws == case.input
             r == Command!Open(Settings, ws)
             h == Halt(ws)
             files == {i \in Before(ws) : ws[i].kind = "other"}
             wrong == IF Halt(ws) > Len(ws) THEN 3 ELSE WrongBy(ws, Halt(ws))
  <2>1. GoodLine(ws) /\ GoodTable
    BY LinesAssumption DEF GoodLine, GoodTable
  <2> HIDE DEF ws
  <2>2. /\ DOMAIN ws = 1 .. Len(ws) /\ Len(ws) \in Nat
        /\ Read(ws) \subseteq 1 .. Len(ws)
    BY <2>1, ReadIs
  <2>3. ReadTo(ws, h, r) /\ r.error = wrong
    <3>1. Reads(ws, Len(ws), r)
      BY <2>1, OpenReads
    <3> HIDE DEF r
    <3>2. CASE \E i \in Len(ws) + 1 .. Len(ws) + 1 : GoesOnAt(ws, i, r)
      <4> DEFINE i == Len(ws) + 1
      <4>1. ReadTo(ws, i, r) /\ r.error = 3 /\ i \in 1 .. Len(ws) + 1 /\ i > Len(ws)
        BY <2>2, <3>2 DEF GoesOnAt
      <4>2. \A j \in Read(ws) : j < i => j \notin Halts(ws)
        BY <4>1 DEF ReadTo
      <4>3. h = i
        BY <2>1, <4>1, <4>2, HaltIs
      <4> QED BY <4>1, <4>3
    <3>3. CASE \E i \in 1 .. Len(ws) : StoppedAt(ws, i, r)
      <4>1. PICK i \in 1 .. Len(ws) : StoppedAt(ws, i, r)
        BY <3>3
      <4>2. ReadTo(ws, i, r) /\ i \in Halts(ws) /\ r.error = WrongBy(ws, i)
        BY <4>1 DEF StoppedAt
      <4>3. \A j \in Read(ws) : j < i => j \notin Halts(ws)
        BY <4>2 DEF ReadTo
      <4>4. i \in 1 .. Len(ws) + 1 /\ ~(i > Len(ws))
        BY <2>2
      <4>5. h = i
        BY <2>1, <4>2, <4>3, <4>4, HaltIs
      <4> QED BY <4>2, <4>4, <4>5
    <3> QED BY <3>1, <3>2, <3>3 DEF Reads
  <2>4. /\ Command!Error(Settings, ws) = r.error
        /\ Command!Rest(Settings, ws) = r.rest
        /\ Command!Conf(Settings, ws) = r.conf
    BY DEF Command!Error, Command!Rest, Command!Conf
  <2>5. files = FilesBefore(ws, h) /\ \A name : LastSet(ws, name) = SetBefore(ws, h, name)
    BY DEF FilesBefore, SetBefore, LastSet, Before
  <2>6. \A i \in files : i \in Int /\ i < h
    BY <2>2, <2>5 DEF FilesBefore
  <2>7. ASSUME NEW i \in files PROVE r.rest[Cardinality({j \in files : j <= i})] = ws[i]
    <3>1. FileAt(ws, r.rest, i)
      BY <2>3, <2>5 DEF ReadTo
    <3>2. \A j \in Read(ws) : (j < h /\ j <= i) <=> j < i + 1
      <4>1. \A j \in Read(ws) : j \in Int
        BY <2>2
      <4>2. i \in Int /\ i < h /\ h \in Int
        <5>1. h \in Halts(ws) \cup {Len(ws) + 1}
          <6> DEFINE S == Halts(ws) \cup {Len(ws) + 1}
          <6>1. S \subseteq Nat /\ S # {}
            BY <2>2 DEF Halts
          <6>2. \E z \in S : \A y \in S : z <= y
            BY <6>1, Least
          <6> QED BY <6>2 DEF Halt, Command!Min
        <5>2. h \in Int
          BY <2>2, <5>1 DEF Halts
        <5> QED BY <2>6, <5>2
      <4> HIDE DEF h
      <4> QED BY <4>1, <4>2
    <3> HIDE DEF h
    <3>3. {j \in files : j <= i} = FilesBefore(ws, i + 1)
      BY <2>5, <3>2 DEF FilesBefore
    <3> QED BY <3>1, <3>3 DEF FileAt
  <2>8. ASSUME NEW k \in DOMAIN Settings
        PROVE  LET set == LastSet(ws, Settings[k].name)
                   i   == Command!Max(set)
               IN  Command!Get(r.conf, Settings[k].name) =
                     IF set = {} THEN Settings[k].default.number
                     ELSE IF ~Settings[k].wants THEN 1
                     ELSE IF Wanting(ws[i]) THEN ws[i + 1].number ELSE ws[i].value.number
    <3> DEFINE name == Settings[k].name
               set == LastSet(ws, name)
               i == Command!Max(set)
    <3>1. LastCounts(ws, h, r.conf, k) /\ DOMAIN r.conf = Names /\ name \in Names
      BY <2>3 DEF ReadTo, Names
    <3> HIDE DEF r, h
    <3>2. Command!Get(r.conf, name) = r.conf[name].number
      BY <3>1 DEF Command!Get
    <3>3. CASE set = {}
      BY <2>5, <3>1, <3>2, <3>3 DEF LastCounts
    <3>4. CASE set # {}
      <4>1. set \subseteq 1 .. Len(ws)
        BY <2>2 DEF LastSet, Before
      <4>2. i \in set /\ \A l \in set : l <= i
        BY <2>2, <3>4, <4>1, MaxIs
      <4>3. r.conf[name] = ValueAt(ws, i)
        BY <2>5, <3>1, <3>4, <4>2 DEF LastCounts
      <4>4. Known(ws[i]) /\ Settings[Command!Named(Settings, ws[i])].name = name
        BY <4>2 DEF LastSet
      <4> HIDE DEF i, set
      <4>5. Command!Named(Settings, ws[i]) = k
        BY <2>1, <4>4, KnownIs DEF GoodTable
      <4>6. ValueAt(ws, i) = IF ~Settings[k].wants THEN Command!Set1
                             ELSE IF Wanting(ws[i]) THEN ws[i + 1] ELSE ws[i].value
        BY <4>5 DEF ValueAt
      <4>7. Command!Set1.number = 1
        BY DEF Command!Set1
      <4>8. r.conf[name].number = IF ~Settings[k].wants THEN 1
                                  ELSE IF Wanting(ws[i]) THEN ws[i + 1].number ELSE ws[i].value.number
        BY <4>3, <4>6, <4>7
      <4> QED BY <3>2, <3>4, <4>8 DEF i, set
    <3> QED BY <3>3, <3>4
  <2>9. Len(r.rest) = Cardinality(files)
    BY <2>3, <2>5 DEF ReadTo
  <2> HIDE DEF r, h
  <2> QED BY <2>3, <2>4, <2>7, <2>8, <2>9 DEF CommandLineMeans, ws
<1> QED BY <1>1, <1>2, <1>3, PTL DEF CasesSpec

-----------------------------------------------------------------------------
(* Rows and chunks of the Java pipeline.                                   *)
(* The places that Columns counts, the same as those of the double array.  *)
LEMMA SamePlaces ==
  /\ \A P, n : Column!Nth(P, n) = DA!Nth(P, n)
  /\ \A s, P : Column!Pick(s, P) = [n \in 1 .. Cardinality(P) |-> s[DA!Nth(P, n)]]
<1>1. \A S : Column!Cardinality(S) = Cardinality(S)
  BY DEF Column!Cardinality, Cardinality
<1>2. \A P, n : Column!Nth(P, n) = DA!Nth(P, n)
  BY <1>1, SameCount DEF Column!Nth, DA!Nth
<1>3. \A s, P : Column!Pick(s, P) = [n \in 1 .. Cardinality(P) |-> s[DA!Nth(P, n)]]
  BY <1>1, <1>2 DEF Column!Pick
<1> QED BY <1>2, <1>3

LEMMA NthOnly ==
  ASSUME NEW N \in Nat, NEW T, T \subseteq 0 .. N, NEW c \in T
  PROVE  /\ DA!Nth(T, Cardinality(Through(T, c))) = c
         /\ Cardinality(Through(T, c)) \in 1 .. Cardinality(T)
<1>1. PICK k \in 1 .. Cardinality(T) : DA!Nth(T, k) = c
  BY NthAll
<1>2. Cardinality(Through(T, c)) = k
  BY <1>1, NthIs
<1> QED BY <1>1, <1>2

(* A place behind all others comes last.                                   *)
OneMore(T, U, m) ==
  /\ Cardinality(U) = Cardinality(T) + 1 /\ Cardinality(T) \in Nat
  /\ DA!Nth(U, Cardinality(T) + 1) = m
  /\ \A k \in 1 .. Cardinality(T) : DA!Nth(U, k) = DA!Nth(T, k)

LEMMA NthNext ==
  ASSUME NEW N \in Nat, NEW T, T \subseteq 0 .. N, NEW m \in 0 .. N, \A j \in T : j < m
  PROVE  OneMore(T, T \cup {m}, m)
<1> DEFINE U == T \cup {m}
<1>1. U \subseteq 0 .. N /\ m \notin T
  OBVIOUS
<1>2. IsFiniteSet(T) /\ Cardinality(T) \in Nat
  BY ThroughFinite
<1>3. Cardinality(U) = Cardinality(T) + 1
  BY <1>1, <1>2, FS_AddElement
<1>4. Through(U, m) = U
  <2>1. \A j \in U : j <= m
    OBVIOUS
  <2> QED BY <2>1 DEF Through
<1>5. DA!Nth(U, Cardinality(T) + 1) = m
  <2>1. m \in U
    OBVIOUS
  <2> HIDE DEF U
  <2> QED BY <1>1, <1>3, <1>4, <2>1, NthOnly
<1>6. ASSUME NEW k \in 1 .. Cardinality(T) PROVE DA!Nth(U, k) = DA!Nth(T, k)
  <2> DEFINE c == DA!Nth(T, k)
  <2>1. c \in T /\ Cardinality(Through(T, c)) = k
    BY NthIs
  <2> HIDE DEF c
  <2>2. Through(U, c) = Through(T, c)
    <3>1. c \in Int /\ m \in Int /\ c < m /\ ~(m <= c)
      BY <2>1
    <3> QED BY <3>1 DEF Through
  <2>3. c \in U
    BY <2>1
  <2> HIDE DEF U
  <2>4. DA!Nth(U, k) = c
    BY <1>1, <2>1, <2>2, <2>3, NthOnly
  <2> QED BY <2>4 DEF c
<1> QED BY <1>2, <1>3, <1>5, <1>6 DEF OneMore

PicksNext(S, s, T, m) ==
  /\ Column!Pick(s, T) \in Seq(S)
  /\ Column!Pick(s, T \cup {m}) = Append(Column!Pick(s, T), s[m])

LEMMA PickNext ==
  ASSUME NEW N \in Nat, NEW T, T \subseteq 0 .. N, NEW m \in 0 .. N, \A j \in T : j < m,
         NEW S, NEW s, \A j \in T \cup {m} : s[j] \in S
  PROVE  PicksNext(S, s, T, m)
<1> DEFINE U == T \cup {m}
           a == Column!Pick(s, T)
           b == Column!Pick(s, U)
<1>1. /\ Cardinality(U) = Cardinality(T) + 1 /\ Cardinality(T) \in Nat
      /\ DA!Nth(U, Cardinality(T) + 1) = m
      /\ \A k \in 1 .. Cardinality(T) : DA!Nth(U, k) = DA!Nth(T, k)
  <2>1. OneMore(T, U, m)
    BY NthNext
  <2> HIDE DEF U
  <2> QED BY <2>1 DEF OneMore
<1>2. /\ a = [n \in 1 .. Cardinality(T) |-> s[DA!Nth(T, n)]]
      /\ b = [n \in 1 .. Cardinality(U) |-> s[DA!Nth(U, n)]]
  BY SamePlaces
<1>3. \A k \in 1 .. Cardinality(T) : DA!Nth(T, k) \in T
  BY NthIs
<1>4. T \subseteq U /\ m \in U
  OBVIOUS
<1> HIDE DEF a, b, U
<1>5. a \in Seq(S) /\ Len(a) = Cardinality(T) /\ \A k \in 1 .. Cardinality(T) : a[k] = s[DA!Nth(T, k)]
  <2>1. \A k \in 1 .. Cardinality(T) : s[DA!Nth(T, k)] \in S
    BY <1>3, <1>4 DEF U
  <2> QED BY <1>1, <1>2, <2>1
<1>6. b \in Seq(S) /\ Len(b) = Cardinality(T) + 1 /\ \A k \in 1 .. Cardinality(T) + 1 : b[k] = s[DA!Nth(U, k)]
  <2>1. \A k \in 1 .. Cardinality(T) + 1 : DA!Nth(U, k) \in U
    <3> TAKE k \in 1 .. Cardinality(T) + 1
    <3>1. k \in 1 .. Cardinality(T) \/ k = Cardinality(T) + 1
      BY <1>1
    <3> QED BY <1>1, <1>3, <1>4, <3>1
  <2>2. \A k \in 1 .. Cardinality(T) + 1 : s[DA!Nth(U, k)] \in S
    BY <2>1 DEF U
  <2> QED BY <1>1, <1>2, <2>2
<1> DEFINE c == Append(a, s[m])
<1>7. s[m] \in S
  BY <1>4 DEF U
<1>8. /\ c \in Seq(S) /\ Len(c) = Cardinality(T) + 1 /\ c[Cardinality(T) + 1] = s[m]
      /\ \A k \in 1 .. Cardinality(T) : c[k] = a[k]
  BY <1>1, <1>5, <1>7
<1> HIDE DEF c
<1>9. ASSUME NEW k \in 1 .. Len(b) PROVE b[k] = c[k]
  <2>1. k \in 1 .. Cardinality(T) \/ k = Cardinality(T) + 1
    BY <1>1, <1>6
  <2>2. k \in 1 .. Cardinality(T) + 1
    BY <1>6
  <2>3. CASE k = Cardinality(T) + 1
    BY <1>1, <1>6, <1>8, <2>2, <2>3
  <2>4. CASE k \in 1 .. Cardinality(T)
    BY <1>1, <1>5, <1>6, <1>8, <2>2, <2>4
  <2> QED BY <2>1, <2>3, <2>4
<1>10. b = c
  BY <1>6, <1>8, <1>9, SameWord
<1> QED BY <1>5, <1>10 DEF a, b, c, U, PicksNext

(* Flattening a sequence of sequences.                                     *)
LEMMA FlatIs ==
  ASSUME NEW S, NEW d \in Seq(Seq(S))
  PROVE  \E a : /\ a[0] = <<>>
                /\ \A i \in 1 .. Len(d) : a[i] = a[i-1] \o d[i]
                /\ \A i \in 0 .. Len(d) : a[i] \in Seq(S)
                /\ Column!FlattenSeq(d) = a[Len(d)]
<1> DEFINE n == Len(d)
           Is(g, k) == g = [i \in 1 .. k |-> IF i = 1 THEN d[i] ELSE g[i-1] \o d[i]]
           T == {k \in Nat : k <= n => \E g : Is(g, k)}
           f == CHOOSE g : Is(g, n)
           a == [i \in 0 .. n |-> IF i = 0 THEN <<>> ELSE f[i]]
<1>1. n \in Nat /\ \A i \in 1 .. n : d[i] \in Seq(S)
  OBVIOUS
<1>2. Column!FlattenSeq(d) = IF n = 0 THEN d ELSE f[n]
  BY DEF Column!FlattenSeq
<1>3. 0 \in T
  <2>1. Is([i \in 1 .. 0 |-> <<>>], 0)
    OBVIOUS
  <2> QED BY <2>1
<1>4. ASSUME NEW k \in 0 .. n - 1, k \in T PROVE k + 1 \in T
  <2>0. k <= n
    BY <1>1
  <2>1. PICK g : Is(g, k)
    <3> HIDE DEF Is
    <3> QED BY <1>4, <2>0
  <2> DEFINE h == [i \in 1 .. k + 1 |-> IF i = k + 1 THEN (IF i = 1 THEN d[i] ELSE g[k] \o d[i]) ELSE g[i]]
  <2>2. k \in Nat /\ k + 1 \in Nat
    OBVIOUS
  <2>3. \A i \in 1 .. k : h[i] = g[i]
    BY <2>2
  <2>4. ASSUME NEW i \in 1 .. k + 1 PROVE h[i] = IF i = 1 THEN d[i] ELSE h[i-1] \o d[i]
    <3>1. CASE i = k + 1
      <4>1. h[i] = (IF i = 1 THEN d[i] ELSE g[k] \o d[i]) /\ i - 1 = k
        BY <2>2, <3>1
      <4>2. i # 1 => h[k] = g[k]
        BY <2>2, <2>3, <3>1
      <4> QED BY <4>1, <4>2
    <3>2. CASE i # k + 1
      <4>1. i \in 1 .. k /\ (i # 1 => i - 1 \in 1 .. k)
        BY <2>2, <3>2
      <4>2. h[i] = g[i] /\ (i # 1 => h[i-1] = g[i-1])
        BY <2>3, <4>1
      <4> QED BY <2>1, <4>1, <4>2
    <3> QED BY <3>1, <3>2
  <2>5. Is(h, k + 1)
    <3> DEFINE h2 == [i \in 1 .. k + 1 |-> IF i = 1 THEN d[i] ELSE h[i-1] \o d[i]]
    <3>1. \A i \in 1 .. k + 1 : h[i] = h2[i]
      BY <2>4
    <3>3. h = [i \in 1 .. k + 1 |-> h[i]] /\ h2 = [i \in 1 .. k + 1 |-> h2[i]]
      OBVIOUS
    <3> HIDE DEF h
    <3>4. h = h2
      BY <3>1, <3>3
    <3> QED BY <3>4
  <2> HIDE DEF h, Is
  <2> QED BY <2>2, <2>5
<1> HIDE DEF T
<1>5. n \in T
  <2>1. 0 .. n \subseteq T
    BY <1>1, <1>3, <1>4, UpTo
  <2> QED BY <1>1, <2>1
<1>6. \E g : Is(g, n)
  <2>1. n <= n
    BY <1>1
  <2> HIDE DEF Is
  <2> QED BY <1>5, <2>1 DEF T
<1>7. Is(f, n)
  BY <1>6
<1> HIDE DEF f
<1>8. \A i \in 1 .. n : f[i] = IF i = 1 THEN d[i] ELSE f[i-1] \o d[i]
  BY <1>7
<1>9. a[0] = <<>> /\ \A i \in 1 .. n : a[i] = f[i]
  BY <1>1
<1> HIDE DEF a
<1>10. ASSUME NEW i \in 1 .. n PROVE a[i] = a[i-1] \o d[i]
  <2>1. CASE i = 1
    <3>1. a[1] = d[1] /\ d[1] \in Seq(S) /\ i - 1 = 0 /\ i = 1
      BY <1>1, <1>8, <1>9, <2>1
    <3>2. d[1] = <<>> \o d[1]
      BY <3>1
    <3> QED BY <1>9, <3>1, <3>2
  <2>2. CASE i # 1
    <3>1. i - 1 \in 1 .. n
      BY <2>2
    <3> QED BY <1>8, <1>9, <2>2, <3>1
  <2> QED BY <2>1, <2>2
<1> DEFINE V == {i \in 0 .. n : a[i] \in Seq(S)}
<1>11. 0 \in V
  <2>1. <<>> \in Seq(S) /\ 0 \in 0 .. n
    BY <1>1
  <2> QED BY <1>9, <2>1
<1>12. ASSUME NEW i \in 0 .. n - 1, i \in V PROVE i + 1 \in V
  <2>1. i + 1 \in 1 .. n /\ (i + 1) - 1 = i
    BY <1>1
  <2>2. a[i+1] = a[i] \o d[i+1] /\ a[i] \in Seq(S) /\ d[i+1] \in Seq(S)
    BY <1>1, <1>10, <1>12, <2>1
  <2>3. a[i+1] \in Seq(S)
    BY <2>2
  <2> QED BY <1>1, <2>1, <2>3
<1>13. 0 .. n \subseteq V
  <2> HIDE DEF V
  <2> QED BY <1>1, <1>11, <1>12, UpTo
<1>14. Column!FlattenSeq(d) = a[n]
  <2>1. CASE n = 0
    <3>1. d = <<>>
      BY <2>1
    <3> QED BY <1>2, <1>9, <2>1, <3>1
  <2>2. CASE n # 0
    BY <1>1, <1>2, <1>9, <2>2
  <2> QED BY <2>1, <2>2
<1> QED BY <1>9, <1>10, <1>13, <1>14

LEMMA FlatNext ==
  ASSUME NEW S, NEW d \in Seq(Seq(S)), NEW c \in Seq(S)
  PROVE  /\ Column!FlattenSeq(d) \in Seq(S)
         /\ Column!FlattenSeq(Append(d, c)) = Column!FlattenSeq(d) \o c
<1> DEFINE n == Len(d)
           e == Append(d, c)
<1>1. n \in Nat /\ e \in Seq(Seq(S)) /\ Len(e) = n + 1 /\ e[n+1] = c /\ \A i \in 1 .. n : e[i] = d[i]
  OBVIOUS
<1>2. PICK a : /\ a[0] = <<>>
               /\ \A i \in 1 .. Len(d) : a[i] = a[i-1] \o d[i]
               /\ \A i \in 0 .. Len(d) : a[i] \in Seq(S)
               /\ Column!FlattenSeq(d) = a[Len(d)]
  BY FlatIs
<1> HIDE DEF e
<1>3. PICK b : /\ b[0] = <<>>
               /\ \A i \in 1 .. Len(e) : b[i] = b[i-1] \o e[i]
               /\ \A i \in 0 .. Len(e) : b[i] \in Seq(S)
               /\ Column!FlattenSeq(e) = b[Len(e)]
  BY <1>1, FlatIs
<1> DEFINE V == {i \in 0 .. n : a[i] = b[i]}
<1>4. 0 \in V
  BY <1>1, <1>2, <1>3
<1>5. ASSUME NEW i \in 0 .. n - 1, i \in V PROVE i + 1 \in V
  <2>1. i + 1 \in 1 .. n /\ (i + 1) - 1 = i /\ i + 1 \in 1 .. Len(e) /\ i + 1 \in 0 .. n
    BY <1>1
  <2>2. a[i+1] = a[i] \o d[i+1] /\ b[i+1] = b[i] \o e[i+1] /\ a[i] = b[i] /\ e[i+1] = d[i+1]
    BY <1>1, <1>2, <1>3, <1>5, <2>1
  <2> QED BY <2>1, <2>2
<1>6. 0 .. n \subseteq V
  <2> HIDE DEF V
  <2> QED BY <1>1, <1>4, <1>5, UpTo
<1>7. a[n] = b[n] /\ n + 1 \in 1 .. Len(e) /\ (n + 1) - 1 = n /\ n \in 0 .. n
  BY <1>1, <1>6
<1>8. b[n+1] = a[n] \o c
  BY <1>1, <1>3, <1>7
<1> QED BY <1>1, <1>2, <1>3, <1>7, <1>8 DEF e

-----------------------------------------------------------------------------
(* The chunker.  Marked: the words so far that are labelled B or I.  After *)
(* word i the chunks done and the open one are these, and if the sentence  *)
(* is well labelled they are the right ones.                               *)
Marked(ls, i) == Column!Pick([j \in DOMAIN ls |-> j], {j \in 1 .. i : ls[j] # "O"})
Opened(ls, i) == {j \in 1 .. i : ls[j] = "B"}
Rank(ls, c)   == Cardinality(Opened(ls, c))
Span(b, e)    == [k \in 1 .. e - b + 1 |-> b + k - 1]

InChunk(ls, b, e) == b <= e /\ ls[b] = "B" /\ \A k \in b + 1 .. e : ls[k] = "I"
Closed(ls, done, c) ==
  /\ Rank(ls, c) \in 1 .. Len(done)
  /\ \E e \in c .. Len(ls) : /\ InChunk(ls, c, e) /\ (e = Len(ls) \/ ls[e+1] # "I")
                             /\ done[Rank(ls, c)] = Span(c, e)

IsGathering(g) == g = [open |-> g.open, done |-> g.done, in |-> g.in] /\ g.in \in BOOLEAN

GatheredTo(ls, i, g) ==
  /\ IsGathering(g)
  /\ g.done \in Seq(Seq(Nat)) /\ g.open \in Seq(Nat)
  /\ Column!FlattenSeq(g.done) \o g.open = Marked(ls, i)

OpenAt(ls, i, g) ==
  \E b \in 1 .. i : /\ InChunk(ls, b, i) /\ g.open = Span(b, i)
                    /\ Len(g.done) + 1 = Rank(ls, b) /\ Rank(ls, b) = Rank(ls, i)
                    /\ \A c \in Opened(ls, i) \ {b} : Closed(ls, g.done, c)
ShutAt(ls, i, g) ==
  /\ g.open = <<>> /\ Len(g.done) = Rank(ls, i) /\ (i = 0 \/ ls[i] = "O")
  /\ \A c \in Opened(ls, i) : Closed(ls, g.done, c)
RightAt(ls, i, g) == (g.in /\ OpenAt(ls, i, g)) \/ (~g.in /\ ShutAt(ls, i, g))

GoodLabels(ls) == ls \in Seq({"B", "I", "O"})

Gathers(g, w, l, h) ==
  /\ h = [open |-> h.open, done |-> h.done, in |-> h.in]
  /\ h.open = IF l = "O" THEN (IF g.in THEN <<>> ELSE g.open)
              ELSE IF l = "B" /\ g.in THEN <<w>> ELSE Append(g.open, w)
  /\ h.done = IF l # "I" /\ g.in THEN Append(g.done, g.open) ELSE g.done
  /\ h.in = (l = "B" \/ (l = "I" /\ g.in))

LEMMA GatherIs ==
  ASSUME NEW g, IsGathering(g), NEW w, NEW l \in {"B", "I", "O"}
  PROVE  Gathers(g, w, l, Column!Gather(g, w, l))
<1> DEFINE h == Column!Gather(g, w, l)
           F == {"open", "done", "in"}
           o == Append(g.open, w)
           d == Append(g.done, g.open)
           s == <<w>>
<1>1. h = IF l = "B" /\ g.in THEN [open |-> s, done |-> d, in |-> TRUE]
          ELSE IF l = "B" THEN [g EXCEPT !.open = o, !.in = TRUE]
          ELSE IF l = "I" THEN [g EXCEPT !.open = o]
          ELSE IF g.in THEN [open |-> <<>>, done |-> d, in |-> FALSE]
          ELSE g
  BY DEF Column!Gather
<1> HIDE DEF h, o, d, s
<1>0. g = [open |-> g.open, done |-> g.done, in |-> g.in] /\ g.in \in BOOLEAN
  BY DEF IsGathering
<1>2. DOMAIN g = F
  BY <1>0
<1>3. ASSUME l = "B" /\ g.in PROVE Gathers(g, w, l, h)
  <2>1. h = [open |-> s, done |-> d, in |-> TRUE]
    BY <1>1, <1>3
  <2>2. h.open = s /\ h.done = d /\ h.in = TRUE
    BY <2>1
  <2>3. h = [open |-> h.open, done |-> h.done, in |-> h.in]
    BY <2>1, <2>2
  <2> QED BY <1>3, <2>2, <2>3 DEF Gathers, d, s
<1>4. ASSUME l = "B" /\ ~g.in PROVE Gathers(g, w, l, h)
  <2>1. h = [g EXCEPT !.open = o, !.in = TRUE]
    BY <1>1, <1>4
  <2>2. h = [x \in F |-> h[x]]
    BY <1>2, <2>1
  <2>3. h["open"] = o /\ h["done"] = g["done"] /\ h["in"] = TRUE
    BY <1>2, <2>1
  <2>4. h.open = o /\ h.done = g.done /\ h.in = TRUE
    BY <2>3
  <2> DEFINE q == [open |-> h.open, done |-> h.done, in |-> h.in]
  <2>5. q = [x \in F |-> q[x]] /\ q["open"] = h["open"] /\ q["done"] = h["done"] /\ q["in"] = h["in"]
    OBVIOUS
  <2> HIDE DEF q
  <2>6. \A x \in F : h[x] = q[x]
    BY <2>5
  <2>7. h = q
    BY <2>2, <2>5, <2>6
  <2> QED BY <1>4, <2>4, <2>7 DEF Gathers, o, q
<1>5. ASSUME l = "I" PROVE Gathers(g, w, l, h)
  <2>1. h = [g EXCEPT !.open = o]
    BY <1>1, <1>5
  <2>2. h = [open |-> o, done |-> g.done, in |-> g.in]
    BY <1>0, <2>1
  <2>3. h.open = o /\ h.done = g.done /\ h.in = g.in
    BY <2>2
  <2>4. h = [open |-> h.open, done |-> h.done, in |-> h.in]
    BY <2>2, <2>3
  <2> QED BY <1>0, <1>5, <2>3, <2>4 DEF Gathers, o
<1>6. ASSUME l = "O" /\ g.in PROVE Gathers(g, w, l, h)
  <2>1. h = [open |-> <<>>, done |-> d, in |-> FALSE]
    BY <1>1, <1>6
  <2>2. h.open = <<>> /\ h.done = d /\ h.in = FALSE
    BY <2>1
  <2>3. h = [open |-> h.open, done |-> h.done, in |-> h.in]
    BY <2>1, <2>2
  <2> QED BY <1>6, <2>2, <2>3 DEF Gathers, d
<1>7. ASSUME l = "O" /\ ~g.in PROVE Gathers(g, w, l, h)
  <2>1. h = g
    BY <1>1, <1>7
  <2> QED BY <1>0, <1>7, <2>1 DEF Gathers
<1>8. Gathers(g, w, l, h)
  BY <1>0, <1>3, <1>4, <1>5, <1>6, <1>7
<1> QED BY <1>8 DEF h

LEMMA MarkedNext ==
  ASSUME NEW ls, GoodLabels(ls), NEW i \in 0 .. Len(ls) - 1
  PROVE  /\ Marked(ls, i) \in Seq(Nat)
         /\ Marked(ls, i + 1) = IF ls[i+1] = "O" THEN Marked(ls, i) ELSE Append(Marked(ls, i), i + 1)
<1> DEFINE ids == [j \in DOMAIN ls |-> j]
           P(k) == {j \in 1 .. k : ls[j] # "O"}
<1>1. Len(ls) \in Nat /\ i + 1 \in 1 .. Len(ls) /\ DOMAIN ls = 1 .. Len(ls)
  BY DEF GoodLabels
<1>2. /\ P(i) \subseteq 0 .. Len(ls) /\ i + 1 \in 0 .. Len(ls) /\ \A j \in P(i) : j < i + 1
      /\ \A j \in P(i) \cup {i + 1} : ids[j] \in Nat
      /\ ids[i+1] = i + 1
  BY <1>1
<1>3. P(i + 1) = IF ls[i+1] = "O" THEN P(i) ELSE P(i) \cup {i + 1}
  <2>1. 1 .. i + 1 = (1 .. i) \cup {i + 1}
    BY <1>1
  <2> QED BY <2>1
<1> DEFINE m == i + 1
           T == P(i)
<1>6. /\ T \subseteq 0 .. Len(ls) /\ m \in 0 .. Len(ls) /\ \A j \in T : j < m
      /\ \A j \in T \cup {m} : ids[j] \in Nat
  BY <1>2
<1> HIDE DEF ids, P, m, T
<1>4. /\ Column!Pick(ids, T) \in Seq(Nat)
      /\ Column!Pick(ids, T \cup {m}) = Append(Column!Pick(ids, T), ids[m])
  <2>1. PicksNext(Nat, ids, T, m)
    BY <1>1, <1>6, PickNext
  <2> QED BY <2>1 DEF PicksNext
<1>5. \A k : Marked(ls, k) = Column!Pick(ids, P(k))
  BY DEF Marked, ids, P
<1>7. ids[i+1] = i + 1 /\ m = i + 1 /\ T = P(i)
  BY <1>2 DEF m, T
<1>8. Marked(ls, i) = Column!Pick(ids, T) /\ Marked(ls, m) = Column!Pick(ids, P(m))
  BY <1>5, <1>7
<1>9. P(m) = IF ls[i+1] = "O" THEN T ELSE T \cup {m}
  BY <1>3, <1>7
<1>10. Marked(ls, m) = IF ls[i+1] = "O" THEN Marked(ls, i) ELSE Append(Marked(ls, i), m)
  <2>1. ids[m] = m
    BY <1>7
  <2> QED BY <1>4, <1>8, <1>9, <2>1
<1> QED BY <1>4, <1>7, <1>8, <1>10

LEMMA JoinAppend ==
  ASSUME NEW S, NEW a \in Seq(S), NEW b \in Seq(S), NEW x \in S
  PROVE  a \o Append(b, x) = Append(a \o b, x)
<1>1. a \o Append(b, x) = Append(a \o b, x)
  <2> DEFINE p == a \o Append(b, x)
             q == Append(a \o b, x)
  <2>1. p \in Seq(S) /\ Len(p) = Len(a) + Len(b) + 1
    OBVIOUS
  <2>2. q \in Seq(S) /\ Len(q) = Len(a) + Len(b) + 1
    OBVIOUS
  <2>3. \A m \in 1 .. Len(a) + Len(b) + 1 : p[m] = q[m]
    OBVIOUS
  <2> HIDE DEF p, q
  <2>4. p = q
    BY <2>1, <2>2, <2>3, SameWord
  <2> QED BY <2>4 DEF p, q
<1> QED BY <1>1

LEMMA GatheredNext ==
  ASSUME NEW ls, GoodLabels(ls), NEW i \in 0 .. Len(ls) - 1, NEW g, GatheredTo(ls, i, g)
  PROVE  GatheredTo(ls, i + 1, Column!Gather(g, i + 1, ls[i+1]))
<1> DEFINE w == i + 1
           l == ls[w]
           h == Column!Gather(g, w, l)
           flat == Column!FlattenSeq(g.done)
<1>1. /\ IsGathering(g) /\ g.in \in BOOLEAN
      /\ g.done \in Seq(Seq(Nat)) /\ g.open \in Seq(Nat)
      /\ flat \o g.open = Marked(ls, i)
  BY DEF GatheredTo, IsGathering
<1>2. l \in {"B", "I", "O"} /\ w \in Nat
  BY DEF GoodLabels
<1>3. /\ Marked(ls, i) \in Seq(Nat)
      /\ Marked(ls, w) = IF l = "O" THEN Marked(ls, i) ELSE Append(Marked(ls, i), w)
  BY MarkedNext
<1> HIDE DEF w, l
<1>4. /\ h = [open |-> h.open, done |-> h.done, in |-> h.in]
      /\ h.open = IF l = "O" THEN (IF g.in THEN <<>> ELSE g.open)
                  ELSE IF l = "B" /\ g.in THEN <<w>> ELSE Append(g.open, w)
      /\ h.done = IF l # "I" /\ g.in THEN Append(g.done, g.open) ELSE g.done
      /\ h.in = (l = "B" \/ (l = "I" /\ g.in))
  <2>1. Gathers(g, w, l, h)
    BY <1>1, <1>2, GatherIs
  <2> HIDE DEF h
  <2> QED BY <2>1 DEF Gathers
<1>5. /\ flat \in Seq(Nat) /\ Column!FlattenSeq(Append(g.done, g.open)) = flat \o g.open
  BY <1>1, FlatNext
<1>6. /\ flat \o Append(g.open, w) = Append(flat \o g.open, w)
      /\ (flat \o g.open) \o <<w>> = Append(flat \o g.open, w)
      /\ (flat \o g.open) \o <<>> = flat \o g.open
  <2>1. flat \o Append(g.open, w) = Append(flat \o g.open, w)
    <3> DEFINE b == g.open
    <3>1. b \in Seq(Nat)
      BY <1>1
    <3> HIDE DEF b
    <3>2. flat \o Append(b, w) = Append(flat \o b, w)
      BY <1>2, <1>5, <3>1, JoinAppend
    <3> QED BY <3>2 DEF b
  <2> DEFINE c == flat \o g.open
  <2>2. c \in Seq(Nat)
    BY <1>1, <1>3
  <2> HIDE DEF c
  <2>3. c \o <<w>> = Append(c, w) /\ c \o <<>> = c
    BY <1>2, <2>2
  <2> QED BY <2>1, <2>3 DEF c
<1>7. /\ <<w>> \in Seq(Nat) /\ <<>> \in Seq(Nat) /\ Append(g.open, w) \in Seq(Nat)
      /\ Append(g.done, g.open) \in Seq(Seq(Nat))
  BY <1>1, <1>2
<1> HIDE DEF h, flat
<1>8. Column!FlattenSeq(h.done) \o h.open = Marked(ls, w)
  <2>1. CASE l = "O" /\ g.in
    BY <1>1, <1>3, <1>4, <1>5, <1>6, <2>1
  <2>2. CASE l = "O" /\ ~g.in
    BY <1>1, <1>3, <1>4, <2>2 DEF flat
  <2>3. CASE l = "B" /\ g.in
    BY <1>1, <1>3, <1>4, <1>5, <1>6, <2>3
  <2>4. CASE l = "B" /\ ~g.in
    BY <1>1, <1>3, <1>4, <1>6, <2>4 DEF flat
  <2>5. CASE l = "I"
    BY <1>1, <1>3, <1>4, <1>6, <2>5 DEF flat
  <2> QED BY <1>2, <2>1, <2>2, <2>3, <2>4, <2>5
<1>9. h.done \in Seq(Seq(Nat)) /\ h.open \in Seq(Nat) /\ h.in \in BOOLEAN
  BY <1>1, <1>4, <1>7
<1>10. GatheredTo(ls, w, h)
  BY <1>4, <1>8, <1>9 DEF GatheredTo, IsGathering
<1> QED BY <1>10 DEF h, w, l

LEMMA OpenedNext ==
  ASSUME NEW ls, GoodLabels(ls), NEW i \in 0 .. Len(ls) - 1
  PROVE  /\ Rank(ls, i) \in Nat
         /\ Opened(ls, i + 1) = IF ls[i+1] = "B" THEN Opened(ls, i) \cup {i + 1} ELSE Opened(ls, i)
         /\ Rank(ls, i + 1) = IF ls[i+1] = "B" THEN Rank(ls, i) + 1 ELSE Rank(ls, i)
         /\ i + 1 \notin Opened(ls, i)
<1>1. i \in Nat /\ 1 .. i + 1 = (1 .. i) \cup {i + 1} /\ i + 1 \notin 1 .. i
  BY DEF GoodLabels
<1>2. Opened(ls, i + 1) = IF ls[i+1] = "B" THEN Opened(ls, i) \cup {i + 1} ELSE Opened(ls, i)
  BY <1>1 DEF Opened
<1>3. IsFiniteSet(Opened(ls, i)) /\ Rank(ls, i) \in Nat
  <2>1. IsFiniteSet(1 .. i) /\ Opened(ls, i) \subseteq 1 .. i
    BY <1>1, FS_Interval DEF Opened
  <2> QED BY <2>1, FS_Subset, FS_CardinalityType DEF Rank
<1>4. i + 1 \notin Opened(ls, i)
  BY <1>1 DEF Opened
<1>5. Cardinality(Opened(ls, i) \cup {i + 1}) = Cardinality(Opened(ls, i)) + 1
  BY <1>3, <1>4, FS_AddElement
<1> QED BY <1>2, <1>3, <1>4, <1>5 DEF Rank

LEMMA ClosedStays ==
  ASSUME NEW ls, NEW d \in Seq(Seq(Nat)), NEW x \in Seq(Nat), NEW c, Closed(ls, d, c)
  PROVE  Closed(ls, Append(d, x), c)
<1> DEFINE n == Rank(ls, c)
<1>1. n \in 1 .. Len(d)
  BY DEF Closed
<1> HIDE DEF n
<1>2. Append(d, x)[n] = d[n] /\ n \in 1 .. Len(Append(d, x))
  BY <1>1
<1> QED BY <1>2 DEF Closed, n

LEMMA ClosesOpen ==
  ASSUME NEW ls, GoodLabels(ls), NEW e \in 1 .. Len(ls), NEW b \in 1 .. e, InChunk(ls, b, e),
         e = Len(ls) \/ ls[e+1] # "I",
         NEW d \in Seq(Seq(Nat)), NEW x \in Seq(Nat), x = Span(b, e), Len(d) + 1 = Rank(ls, b)
  PROVE  Closed(ls, Append(d, x), b)
<1> DEFINE n == Len(d) + 1
<1>1. Append(d, x)[n] = x /\ n \in 1 .. Len(Append(d, x))
  OBVIOUS
<1>2. e \in b .. Len(ls)
  BY DEF GoodLabels
<1> QED BY <1>1, <1>2 DEF Closed

LEMMA SpanNext ==
  ASSUME NEW b \in Nat \ {0}
  PROVE  /\ Span(b, b) = <<b>>
         /\ \A e \in Nat : b <= e => Span(b, e) \in Seq(Nat) /\ Span(b, e) # <<>>
                                     /\ Append(Span(b, e), e + 1) = Span(b, e + 1)
<1>1. \A e \in Nat : b <= e => Span(b, e) \in Seq(Nat) /\ Len(Span(b, e)) = e - b + 1
  BY DEF Span
<1>2. Span(b, b) = <<b>>
  <2>1. Span(b, b) \in Seq(Nat) /\ Len(Span(b, b)) = 1 /\ Span(b, b)[1] = b
    BY <1>1 DEF Span
  <2>2. <<b>> \in Seq(Nat) /\ Len(<<b>>) = 1 /\ <<b>>[1] = b
    OBVIOUS
  <2>3. \A m \in 1 .. 1 : Span(b, b)[m] = <<b>>[m]
    BY <2>1, <2>2
  <2> QED BY <2>1, <2>2, <2>3, SameWord
<1>3. ASSUME NEW e \in Nat, b <= e
      PROVE  Span(b, e) # <<>> /\ Append(Span(b, e), e + 1) = Span(b, e + 1)
  <2> DEFINE s == Span(b, e)
             t == Span(b, e + 1)
             u == Append(s, e + 1)
  <2>1. s \in Seq(Nat) /\ Len(s) = e - b + 1 /\ \A m \in 1 .. e - b + 1 : s[m] = b + m - 1
    BY <1>1, <1>3 DEF Span
  <2>2. /\ t \in Seq(Nat) /\ Len(t) = e - b + 2 /\ \A m \in 1 .. e - b + 1 : t[m] = b + m - 1
        /\ t[e-b+2] = e + 1
    <3>1. e + 1 \in Nat /\ b <= e + 1 /\ (e + 1) - b + 1 = e - b + 2
      BY <1>3
    <3>2. t \in Seq(Nat) /\ Len(t) = e - b + 2
      BY <1>1, <3>1
    <3>3. t = [m \in 1 .. e - b + 2 |-> b + m - 1]
      BY <3>1 DEF Span
    <3> HIDE DEF t
    <3>4. e - b + 2 \in 1 .. e - b + 2 /\ b + (e - b + 2) - 1 = e + 1
      BY <1>3
    <3>5. t[e-b+2] = b + (e - b + 2) - 1
      BY <3>3, <3>4
    <3>6. \A m \in 1 .. e - b + 1 : t[m] = b + m - 1
      BY <3>3, <1>3
    <3> QED BY <3>2, <3>4, <3>5, <3>6
  <2> HIDE DEF s, t
  <2>3. /\ u \in Seq(Nat) /\ Len(u) = e - b + 2 /\ u[e-b+2] = e + 1
        /\ \A m \in 1 .. e - b + 1 : u[m] = s[m]
    BY <1>3, <2>1
  <2> HIDE DEF u
  <2>4. \A m \in 1 .. e - b + 2 : u[m] = t[m]
    <3> TAKE m \in 1 .. e - b + 2
    <3>1. m \in 1 .. e - b + 1 \/ m = e - b + 2
      BY <1>3
    <3> QED BY <2>1, <2>2, <2>3, <3>1
  <2>5. u = t
    BY <2>2, <2>3, <2>4, SameWord
  <2>6. s # <<>>
    BY <1>3, <2>1
  <2> QED BY <2>5, <2>6 DEF s, t, u
<1> QED BY <1>1, <1>2, <1>3

LEMMA RightNext ==
  ASSUME NEW ls, GoodLabels(ls), WellLabelled(ls), NEW i \in 0 .. Len(ls) - 1,
         NEW g, GatheredTo(ls, i, g), RightAt(ls, i, g)
  PROVE  RightAt(ls, i + 1, Column!Gather(g, i + 1, ls[i+1]))
<1> DEFINE w == i + 1
           l == ls[w]
           h == Column!Gather(g, w, l)
<1>1. IsGathering(g) /\ g.done \in Seq(Seq(Nat)) /\ g.open \in Seq(Nat) /\ g.in \in BOOLEAN
  BY DEF GatheredTo, IsGathering
<1>2. /\ l \in {"B", "I", "O"} /\ i \in Nat /\ w \in 1 .. Len(ls) /\ w = i + 1
      /\ l = ls[w] /\ l = ls[i+1] /\ w - 1 = i /\ Len(ls) \in Nat
      /\ 1 .. i \subseteq 1 .. w /\ w \in 1 .. w
  BY DEF GoodLabels
<1>3. /\ Rank(ls, i) \in Nat
      /\ Opened(ls, w) = IF l = "B" THEN Opened(ls, i) \cup {w} ELSE Opened(ls, i)
      /\ Rank(ls, w) = IF l = "B" THEN Rank(ls, i) + 1 ELSE Rank(ls, i)
      /\ w \notin Opened(ls, i)
  BY OpenedNext
<1>4. l = "I" => i # 0 /\ ls[i] # "O"
  <2>1. w \in DOMAIN ls
    BY <1>2 DEF GoodLabels
  <2> HIDE DEF w
  <2>2. ls[w] = "I" => w > 1 /\ ls[w-1] # "O"
    BY <2>1 DEF WellLabelled
  <2> QED BY <1>2, <2>2
<1> HIDE DEF w, l
<1>5. Gathers(g, w, l, h)
  BY <1>1, <1>2, GatherIs
<1> HIDE DEF h
<1>6. /\ h.open = IF l = "O" THEN (IF g.in THEN <<>> ELSE g.open)
                  ELSE IF l = "B" /\ g.in THEN <<w>> ELSE Append(g.open, w)
      /\ h.done = IF l # "I" /\ g.in THEN Append(g.done, g.open) ELSE g.done
      /\ h.in = (l = "B" \/ (l = "I" /\ g.in))
  BY <1>5 DEF Gathers
<1>7. ASSUME g.in, l # "I"
      PROVE  /\ Len(h.done) = Rank(ls, i)
             /\ \A c \in Opened(ls, i) : Closed(ls, h.done, c)
  <2>1. PICK b \in 1 .. i : /\ InChunk(ls, b, i) /\ g.open = Span(b, i)
                            /\ Len(g.done) + 1 = Rank(ls, b) /\ Rank(ls, b) = Rank(ls, i)
                            /\ \A c \in Opened(ls, i) \ {b} : Closed(ls, g.done, c)
    BY <1>7 DEF RightAt, OpenAt
  <2>2. h.done = Append(g.done, g.open)
    BY <1>6, <1>7
  <2>3. Len(h.done) = Rank(ls, i)
    BY <1>1, <2>1, <2>2
  <2>4. Closed(ls, h.done, b)
    <3>1. i \in 1 .. Len(ls) /\ (i = Len(ls) \/ ls[i+1] # "I")
      BY <1>2, <1>7
    <3> QED BY <1>1, <2>1, <2>2, <3>1, ClosesOpen
  <2>5. \A c \in Opened(ls, i) \ {b} : Closed(ls, h.done, c)
    BY <1>1, <2>1, <2>2, ClosedStays
  <2> QED BY <2>3, <2>4, <2>5
<1>8. ASSUME ~g.in, l # "I"
      PROVE  /\ Len(h.done) = Rank(ls, i) /\ g.open = <<>>
             /\ \A c \in Opened(ls, i) : Closed(ls, h.done, c)
  BY <1>6, <1>8 DEF RightAt, ShutAt
<1>9. CASE l = "B"
  <2>1. h.open = <<w>> /\ h.in
    <3>1. g.open = <<>> => Append(g.open, w) = <<w>>
      BY <1>2
    <3> QED BY <1>6, <1>8, <1>9, <3>1
  <2>2. InChunk(ls, w, w)
    BY <1>2, <1>9 DEF InChunk
  <2>3. <<w>> = Span(w, w)
    BY <1>2, SpanNext
  <2>4. Len(h.done) = Rank(ls, i) /\ \A c \in Opened(ls, i) : Closed(ls, h.done, c)
    BY <1>1, <1>7, <1>8, <1>9
  <2>5. Len(h.done) + 1 = Rank(ls, w) /\ Opened(ls, w) \ {w} = Opened(ls, i)
    BY <1>3, <1>9, <2>4
  <2>6. OpenAt(ls, w, h)
    BY <1>2, <2>1, <2>2, <2>3, <2>4, <2>5 DEF OpenAt
  <2> QED BY <2>1, <2>6 DEF RightAt, h, w, l
<1>10. CASE l = "I"
  <2>1. g.in /\ OpenAt(ls, i, g)
    BY <1>4, <1>10 DEF RightAt, ShutAt
  <2>2. PICK b \in 1 .. i : /\ InChunk(ls, b, i) /\ g.open = Span(b, i)
                            /\ Len(g.done) + 1 = Rank(ls, b) /\ Rank(ls, b) = Rank(ls, i)
                            /\ \A c \in Opened(ls, i) \ {b} : Closed(ls, g.done, c)
    BY <2>1 DEF OpenAt
  <2>3. h.in /\ h.done = g.done /\ h.open = Append(g.open, w)
    BY <1>6, <1>10, <2>1
  <2>4. InChunk(ls, b, w)
    <3>1. b <= w /\ \A k \in b + 1 .. w : k \in b + 1 .. i \/ k = w
      BY <1>2
    <3> QED BY <1>2, <1>10, <2>2, <3>1 DEF InChunk
  <2>5. h.open = Span(b, w)
    <3>1. b \in Nat \ {0} /\ b <= i
      BY <1>2
    <3>2. Append(Span(b, i), i + 1) = Span(b, i + 1)
      BY <1>2, <3>1, SpanNext
    <3> QED BY <1>2, <2>2, <2>3, <3>2
  <2>6. Rank(ls, w) = Rank(ls, i) /\ Opened(ls, w) = Opened(ls, i) /\ b \in 1 .. w
    BY <1>2, <1>3, <1>10
  <2>7. OpenAt(ls, w, h)
    BY <2>2, <2>3, <2>4, <2>5, <2>6 DEF OpenAt
  <2> QED BY <2>3, <2>7 DEF RightAt, h, w, l
<1>11. CASE l = "O"
  <2>1. ~h.in
    BY <1>6, <1>11
  <2>2. h.open = <<>>
    BY <1>6, <1>8, <1>11
  <2>3. Len(h.done) = Rank(ls, i) /\ \A c \in Opened(ls, i) : Closed(ls, h.done, c)
    BY <1>1, <1>7, <1>8, <1>11
  <2>4. Rank(ls, w) = Rank(ls, i) /\ Opened(ls, w) = Opened(ls, i) /\ ls[w] = "O"
    BY <1>2, <1>3, <1>11
  <2>5. ShutAt(ls, w, h)
    BY <2>2, <2>3, <2>4 DEF ShutAt
  <2> QED BY <2>1, <2>5 DEF RightAt, h, w, l
<1> QED BY <1>2, <1>9, <1>10, <1>11

LEMMA AddChunksIs ==
  ASSUME NEW ids, NEW ls, Len(ids) \in Nat
  PROVE  \E a : /\ a[0] = Column!Gathering
                /\ \A i \in 1 .. Len(ids) : a[i] = Column!Gather(a[i-1], ids[i], ls[i])
                /\ Column!AddChunks(ids, ls)
                     = LET g == a[Len(ids)]
                       IN  IF g.open = <<>> THEN g.done ELSE Append(g.done, g.open)
<1> DEFINE m == Len(ids)
           X == Column!Gathering
           Y(t, i) == Column!Gather(t, ids[i], ls[i])
           Is(g, k) == g = [i \in 0 .. k |-> IF i = 0 THEN X ELSE Y(g[i-1], i)]
           T == {k \in Nat : k <= m => \E g : Is(g, k)}
           a == CHOOSE g : Is(g, m)
<1>1. Column!AddChunks(ids, ls) = LET g == a[m]
                                  IN  IF g.open = <<>> THEN g.done ELSE Append(g.done, g.open)
  BY DEF Column!AddChunks
<1> HIDE DEF X, Y
<1>2. 0 \in T
  <2>1. Is([i \in 0 .. 0 |-> X], 0)
    OBVIOUS
  <2> QED BY <2>1
<1>3. ASSUME NEW k \in 0 .. m - 1, k \in T PROVE k + 1 \in T
  <2>1. PICK g : Is(g, k)
    BY <1>3
  <2> DEFINE h == [i \in 0 .. k + 1 |-> IF i = k + 1 THEN Y(g[k], k + 1) ELSE g[i]]
  <2>2. k \in Nat /\ k + 1 \in Nat
    OBVIOUS
  <2>3. \A i \in 0 .. k : h[i] = g[i]
    BY <2>2
  <2>4. ASSUME NEW i \in 0 .. k + 1 PROVE h[i] = IF i = 0 THEN X ELSE Y(h[i-1], i)
    <3>1. CASE i = k + 1
      <4>1. h[i] = Y(g[k], k + 1) /\ i - 1 = k /\ h[k] = g[k] /\ i # 0
        BY <2>2, <2>3, <3>1
      <4> QED BY <3>1, <4>1
    <3>2. CASE i # k + 1 /\ i # 0
      <4>1. i \in 0 .. k /\ i - 1 \in 0 .. k
        BY <2>2, <3>2
      <4>2. h[i] = g[i] /\ h[i-1] = g[i-1]
        BY <2>3, <4>1
      <4> QED BY <2>1, <3>2, <4>1, <4>2
    <3>3. CASE i = 0
      <4>1. 0 \in 0 .. k /\ h[0] = g[0]
        BY <2>2, <2>3
      <4> QED BY <2>1, <3>3, <4>1
    <3> QED BY <3>1, <3>2, <3>3
  <2> HIDE DEF Y
  <2>5. Is(h, k + 1)
    <3> DEFINE h2 == [i \in 0 .. k + 1 |-> IF i = 0 THEN X ELSE Y(h[i-1], i)]
    <3>1. \A i \in 0 .. k + 1 : h[i] = h2[i]
      BY <2>4
    <3>3. h = [i \in 0 .. k + 1 |-> h[i]] /\ h2 = [i \in 0 .. k + 1 |-> h2[i]]
      OBVIOUS
    <3> HIDE DEF h
    <3>4. h = h2
      BY <3>1, <3>3
    <3> QED BY <3>4
  <2> HIDE DEF h, Is
  <2> QED BY <2>2, <2>5
<1> HIDE DEF T
<1>4. m \in T
  <2>1. 0 .. m \subseteq T
    BY <1>2, <1>3, UpTo
  <2> QED BY <2>1
<1>5. \E g : Is(g, m)
  BY <1>4 DEF T
<1>6. Is(a, m)
  BY <1>5
<1> HIDE DEF a
<1>7. a[0] = X /\ \A i \in 1 .. m : a[i] = Y(a[i-1], i)
  BY <1>6
<1> QED BY <1>1, <1>7 DEF X, Y

(* The gathering after the last word, and what addChunks makes of it.      *)
LEMMA GatheredAll ==
  ASSUME NEW ls, GoodLabels(ls)
  PROVE  \E g : /\ GatheredTo(ls, Len(ls), g)
                /\ WellLabelled(ls) => RightAt(ls, Len(ls), g)
                /\ Chunked(ls) = IF g.open = <<>> THEN g.done ELSE Append(g.done, g.open)
<1> DEFINE ids == [i \in DOMAIN ls |-> i]
           n == Len(ls)
<1>1. n \in Nat /\ ids \in Seq(Nat) /\ Len(ids) = n /\ \A i \in 1 .. n : ids[i] = i
  BY DEF GoodLabels
<1>2. Chunked(ls) = Column!AddChunks(ids, ls)
  BY DEF Chunked
<1> HIDE DEF ids
<1>3. PICK a : /\ a[0] = Column!Gathering
               /\ \A i \in 1 .. Len(ids) : a[i] = Column!Gather(a[i-1], ids[i], ls[i])
               /\ Column!AddChunks(ids, ls)
                    = LET g == a[Len(ids)]
                      IN  IF g.open = <<>> THEN g.done ELSE Append(g.done, g.open)
  BY <1>1, AddChunksIs
<1> DEFINE T == {i \in 0 .. n : GatheredTo(ls, i, a[i]) /\ (WellLabelled(ls) => RightAt(ls, i, a[i]))}
<1>4. 0 \in T
  <2> DEFINE g == a[0]
  <2>1. g = [open |-> <<>>, done |-> <<>>, in |-> FALSE]
    BY <1>3 DEF Column!Gathering
  <2> HIDE DEF g
  <2>2. g.open = <<>> /\ g.done = <<>> /\ g.in = FALSE
    BY <2>1
  <2>3. IsGathering(g)
    BY <2>1, <2>2 DEF IsGathering
  <2>4. Opened(ls, 0) = {} /\ {j \in 1 .. 0 : ls[j] # "O"} = {}
    BY DEF Opened
  <2>5. Rank(ls, 0) = 0
    BY <2>4, FS_EmptySet DEF Rank
  <2>6. Marked(ls, 0) = <<>>
    <3>1. Marked(ls, 0) = Column!Pick([j \in DOMAIN ls |-> j], {})
      BY <2>4 DEF Marked
    <3>2. \A s : Column!Pick(s, {}) = [k \in 1 .. 0 |-> s[DA!Nth({}, k)]]
      BY SamePlaces, FS_EmptySet
    <3>3. \A s : Column!Pick(s, {}) = <<>>
      BY <3>2
    <3> QED BY <3>1, <3>3
  <2>7. Column!FlattenSeq(<<>>) = <<>>
    BY DEF Column!FlattenSeq
  <2>8. GatheredTo(ls, 0, g)
    <3>1. <<>> \in Seq(Seq(Nat)) /\ <<>> \in Seq(Nat) /\ <<>> \o <<>> = <<>>
      OBVIOUS
    <3> QED BY <2>2, <2>3, <2>6, <2>7, <3>1 DEF GatheredTo
  <2>9. RightAt(ls, 0, g)
    <3>1. Len(<<>>) = 0
      OBVIOUS
    <3> QED BY <2>2, <2>4, <2>5, <3>1 DEF RightAt, ShutAt
  <2> QED BY <1>1, <2>8, <2>9 DEF g
<1>5. ASSUME NEW i \in 0 .. n - 1, i \in T PROVE i + 1 \in T
  <2>1. i + 1 \in 1 .. n /\ (i + 1) - 1 = i /\ i + 1 \in 0 .. n
    BY <1>1
  <2>2. a[i+1] = Column!Gather(a[i], i + 1, ls[i+1])
    BY <1>1, <1>3, <2>1
  <2>3. GatheredTo(ls, i, a[i]) /\ (WellLabelled(ls) => RightAt(ls, i, a[i]))
    BY <1>5
  <2>4. GatheredTo(ls, i + 1, Column!Gather(a[i], i + 1, ls[i+1]))
    BY <2>3, GatheredNext
  <2>5. WellLabelled(ls) => RightAt(ls, i + 1, Column!Gather(a[i], i + 1, ls[i+1]))
    BY <2>3, RightNext
  <2> QED BY <2>1, <2>2, <2>4, <2>5
<1> HIDE DEF T
<1>6. 0 .. n \subseteq T
  BY <1>1, <1>4, <1>5, UpTo
<1>7. n \in T
  BY <1>1, <1>6
<1> DEFINE g == a[n]
<1>8. GatheredTo(ls, n, g) /\ (WellLabelled(ls) => RightAt(ls, n, g))
  BY <1>7 DEF T
<1>9. Chunked(ls) = IF g.open = <<>> THEN g.done ELSE Append(g.done, g.open)
  BY <1>1, <1>2, <1>3
<1> QED BY <1>8, <1>9

LEMMA EndIs ==
  ASSUME NEW ls, GoodLabels(ls), NEW b \in 1 .. Len(ls), NEW e \in b .. Len(ls), InChunk(ls, b, e),
         e = Len(ls) \/ ls[e+1] # "I"
  PROVE  Column!Max({j \in b .. Len(ls) : \A k \in b + 1 .. j : ls[k] = "I"}) = e
<1> DEFINE S == {j \in b .. Len(ls) : \A k \in b + 1 .. j : ls[k] = "I"}
<1>1. Len(ls) \in Nat /\ e \in Nat
  BY DEF GoodLabels
<1>2. e \in S
  BY DEF InChunk
<1>3. ASSUME NEW j \in S PROVE e >= j
  <2> SUFFICES ASSUME j > e PROVE FALSE
    BY <1>1
  <2>1. e + 1 \in b + 1 .. j /\ e # Len(ls)
    BY <1>1
  <2> QED BY <2>1
<1>4. S \subseteq Int
  BY <1>1
<1> HIDE DEF S
<1>5. \A x \in S : (\A y \in S : x >= y) => x = e
  BY <1>1, <1>2, <1>3, <1>4
<1>6. Column!Max(S) = e
  BY <1>2, <1>3, <1>5 DEF Column!Max
<1> QED BY <1>6 DEF S

(* Whatever the labels of a sentence, addChunks loses, repeats and moves   *)
(* no word labelled B or I; and if they are well labelled, its chunks are  *)
(* the words from each B to before the next B or O (Chunker.java           *)
(* addChunks).                                                             *)
THEOREM ChunksAlwaysExact == CasesSpec => []ChunksExact
<1> DEFINE LabelsKnown == When("labels") => case.input \in Labels
<1>1. CasesInit => LabelsKnown
  BY DEF CasesInit, Case, When
<1>2. LabelsKnown /\ [CasesNext]_case => LabelsKnown'
  BY DEF CasesNext, When
<1>3. LabelsKnown => ChunksExact
  <2> SUFFICES ASSUME LabelsKnown, When("labels") PROVE ChunksExact
    BY DEF ChunksExact
  <2> DEFINE ls == case.input
             n == Len(ls)
             end(i) == Command!Max({j \in i .. Len(ls) : \A k \in i + 1 .. j : ls[k] = "I"})
             starts == {i \in DOMAIN ls : ls[i] = "B"}
  <2>1. GoodLabels(ls)
    BY TaggingsAssumption DEF GoodLabels
  <2> HIDE DEF ls
  <2>2. n \in Nat /\ DOMAIN ls = 1 .. n
    BY <2>1 DEF GoodLabels
  <2>3. PICK g : /\ GatheredTo(ls, n, g)
                 /\ WellLabelled(ls) => RightAt(ls, n, g)
                 /\ Chunked(ls) = IF g.open = <<>> THEN g.done ELSE Append(g.done, g.open)
    BY <2>1, GatheredAll
  <2>4. /\ g.done \in Seq(Seq(Nat)) /\ g.open \in Seq(Nat) /\ g.in \in BOOLEAN
        /\ Column!FlattenSeq(g.done) \o g.open = Marked(ls, n)
    BY <2>3 DEF GatheredTo, IsGathering
  <2>5. Column!FlattenSeq(Chunked(ls)) = Marked(ls, n)
    <3>1. Column!FlattenSeq(g.done) \in Seq(Nat)
      BY <2>4, FlatNext
    <3>2. CASE g.open = <<>>
      <4>1. Column!FlattenSeq(g.done) \o <<>> = Column!FlattenSeq(g.done)
        BY <3>1
      <4> QED BY <2>3, <2>4, <3>2, <4>1
    <3>3. CASE g.open # <<>>
      <4>1. Column!FlattenSeq(Append(g.done, g.open)) = Column!FlattenSeq(g.done) \o g.open
        BY <2>4, FlatNext
      <4> QED BY <2>3, <2>4, <3>3, <4>1
    <3> QED BY <3>2, <3>3
  <2>6. Marked(ls, n) = Column!Pick([i \in DOMAIN ls |-> i], {i \in DOMAIN ls : ls[i] # "O"})
    BY <2>2 DEF Marked
  <2>7. starts = Opened(ls, n)
    BY <2>2 DEF Opened
  <2>8. ASSUME WellLabelled(ls)
        PROVE  /\ Len(Chunked(ls)) = Cardinality(starts)
               /\ \A i \in starts : Closed(ls, Chunked(ls), i)
    <3>1. CASE ~g.in
      <4>1. ShutAt(ls, n, g)
        BY <2>3, <2>8, <3>1 DEF RightAt
      <4>2. Chunked(ls) = g.done
        BY <2>3, <4>1 DEF ShutAt
      <4> QED BY <2>7, <4>1, <4>2 DEF ShutAt, Rank
    <3>2. CASE g.in
      <4>1. PICK b \in 1 .. n : /\ InChunk(ls, b, n) /\ g.open = Span(b, n)
                                /\ Len(g.done) + 1 = Rank(ls, b) /\ Rank(ls, b) = Rank(ls, n)
                                /\ \A c \in Opened(ls, n) \ {b} : Closed(ls, g.done, c)
        BY <2>3, <2>8, <3>2 DEF RightAt, OpenAt
      <4>2. g.open # <<>>
        <5>1. b \in Nat \ {0} /\ b <= n
          BY <2>2
        <5> QED BY <2>2, <4>1, <5>1, SpanNext
      <4>3. Chunked(ls) = Append(g.done, g.open)
        BY <2>3, <4>2
      <4>4. Closed(ls, Chunked(ls), b)
        <5>1. n \in 1 .. Len(ls) /\ b \in 1 .. n
          BY <2>2
        <5> QED BY <2>1, <2>4, <4>1, <4>3, <5>1, ClosesOpen
      <4>5. \A c \in Opened(ls, n) \ {b} : Closed(ls, Chunked(ls), c)
        BY <2>4, <4>1, <4>3, ClosedStays
      <4>6. Len(Chunked(ls)) = Rank(ls, n)
        BY <2>4, <4>1, <4>3
      <4> QED BY <2>7, <4>4, <4>5, <4>6 DEF Rank
    <3> QED BY <2>4, <3>1, <3>2
  <2>9. ASSUME WellLabelled(ls), NEW i \in starts
        PROVE  Chunked(ls)[Cardinality({j \in starts : j <= i})]
                 = [k \in 1 .. end(i) - i + 1 |-> i + k - 1]
    <3>1. i \in 1 .. n
      BY <2>2
    <3>2. {j \in starts : j <= i} = Opened(ls, i)
      <4>1. \A j : (j \in 1 .. n /\ j <= i) <=> j \in 1 .. i
        BY <2>2, <3>1
      <4> QED BY <2>2, <4>1 DEF Opened
    <3>3. Closed(ls, Chunked(ls), i)
      BY <2>8, <2>9
    <3>4. PICK e \in i .. n : /\ InChunk(ls, i, e) /\ (e = n \/ ls[e+1] # "I")
                              /\ Chunked(ls)[Rank(ls, i)] = Span(i, e)
      BY <3>3 DEF Closed
    <3>5. Column!Max({j \in i .. Len(ls) : \A k \in i + 1 .. j : ls[k] = "I"}) = e
      BY <2>1, <3>1, <3>4, EndIs
    <3>6. \A S : Command!Max(S) = Column!Max(S)
      BY DEF Command!Max, Column!Max
    <3>7. end(i) = e
      BY <3>5, <3>6
    <3> HIDE DEF end
    <3>8. Chunked(ls)[Cardinality({j \in starts : j <= i})] = Span(i, end(i))
      BY <3>2, <3>4, <3>7 DEF Rank
    <3> QED BY <3>8 DEF Span
  <2> QED BY <2>5, <2>6, <2>8, <2>9 DEF ChunksExact, ls
<1> QED BY <1>1, <1>2, <1>3, PTL DEF CasesSpec

-----------------------------------------------------------------------------
(* The extractor.  Row n of what it loads is line At(n) of the file.       *)
GoodFile(f) ==
  /\ f \in Seq({f[i] : i \in DOMAIN f})
  /\ \A i \in DOMAIN f : f[i].cols \in Nat

RowsOf(f)   == {i \in DOMAIN f : f[i].cols > 0}
Loaded(f)   == 1 .. Cardinality(RowsOf(f))
At(f, n)    == DA!Nth(RowsOf(f), n)
Place(f, i) == Cardinality(Through(RowsOf(f), i))

LEMMA FileIs ==
  ASSUME NEW f, GoodFile(f)
  PROVE  /\ Len(f) \in Nat /\ DOMAIN f = 1 .. Len(f)
         /\ RowsOf(f) \subseteq 1 .. Len(f) /\ RowsOf(f) \subseteq 0 .. Len(f)
         /\ \A i : RowAt(f, i) <=> i \in RowsOf(f)
         /\ Cardinality(RowsOf(f)) \in Nat
<1>1. Len(f) \in Nat /\ DOMAIN f = 1 .. Len(f)
  BY DEF GoodFile
<1>2. RowsOf(f) \subseteq 1 .. Len(f) /\ RowsOf(f) \subseteq 0 .. Len(f)
  BY <1>1 DEF RowsOf
<1>3. \A i : RowAt(f, i) <=> i \in RowsOf(f)
  BY DEF RowAt, RowsOf
<1>4. Cardinality(RowsOf(f)) \in Nat
  BY <1>1, <1>2, ThroughFinite
<1> QED BY <1>1, <1>2, <1>3, <1>4

LEMMA RowIs ==
  ASSUME NEW f, GoodFile(f), NEW n \in Loaded(f)
  PROVE  /\ At(f, n) \in RowsOf(f) /\ At(f, n) \in 1 .. Len(f) /\ RowAt(f, At(f, n))
         /\ Place(f, At(f, n)) = n
         /\ Column!LoadRows(f)[n] = f[At(f, n)]
<1>1. /\ Len(f) \in Nat /\ RowsOf(f) \subseteq 0 .. Len(f) /\ RowsOf(f) \subseteq 1 .. Len(f)
      /\ \A i : RowAt(f, i) <=> i \in RowsOf(f)
  BY FileIs
<1>2. At(f, n) \in RowsOf(f) /\ Place(f, At(f, n)) = n
  BY <1>1, NthIs DEF At, Place, Loaded
<1>3. Column!LoadRows(f) = [k \in Loaded(f) |-> f[At(f, k)]]
  BY SamePlaces DEF Column!LoadRows, RowsOf, At, Loaded
<1> QED BY <1>1, <1>2, <1>3

LEMMA RowsAre ==
  ASSUME NEW f, GoodFile(f)
  PROVE  /\ DOMAIN Column!LoadRows(f) = Loaded(f)
         /\ Len(Column!LoadRows(f)) = Cardinality(RowsOf(f))
<1>1. Column!LoadRows(f) = [k \in 1 .. Cardinality(RowsOf(f)) |-> f[At(f, k)]]
  BY SamePlaces DEF Column!LoadRows, RowsOf, At
<1>2. Cardinality(RowsOf(f)) \in Nat
  BY FileIs
<1> QED BY <1>1, <1>2 DEF Loaded

LEMMA PlaceIs ==
  ASSUME NEW f, GoodFile(f), NEW i, RowAt(f, i)
  PROVE  Place(f, i) \in Loaded(f) /\ At(f, Place(f, i)) = i
<1>1. Len(f) \in Nat /\ RowsOf(f) \subseteq 0 .. Len(f) /\ i \in RowsOf(f)
  BY FileIs
<1> QED BY <1>1, NthOnly DEF Place, At, Loaded

LEMMA AtGrows ==
  ASSUME NEW f, GoodFile(f), NEW n \in Loaded(f), NEW k \in Loaded(f), n < k
  PROVE  At(f, n) < At(f, k)
<1>1. Len(f) \in Nat /\ RowsOf(f) \subseteq 0 .. Len(f)
  BY FileIs
<1> QED BY <1>1, NthGrows DEF At, Loaded

(* The row after row n: the next line, if that is a row, and otherwise the *)
(* first line of a sentence.                                               *)
LEMMA NextRow ==
  ASSUME NEW f, GoodFile(f), NEW n \in Loaded(f)
  PROVE  /\ RowAt(f, At(f, n) + 1) => n + 1 \in Loaded(f) /\ At(f, n + 1) = At(f, n) + 1
         /\ ~RowAt(f, At(f, n) + 1) /\ n + 1 \in Loaded(f) => ~RowAt(f, At(f, n + 1) - 1)
         /\ n + 1 \notin Loaded(f) => \A j \in At(f, n) + 1 .. Len(f) : ~RowAt(f, j)
<1> DEFINE i == At(f, n)
           M == Cardinality(RowsOf(f))
<1>1. M \in Nat /\ Loaded(f) = 1 .. M /\ n \in 1 .. M
  BY FileIs DEF Loaded
<1>2. i \in 1 .. Len(f) /\ Len(f) \in Nat
  BY RowIs, FileIs
<1>3. ASSUME NEW j, RowAt(f, j), j > i
      PROVE  n + 1 \in Loaded(f) /\ At(f, n + 1) <= j
  <2> DEFINE k == Place(f, j)
  <2>1. k \in Loaded(f) /\ At(f, k) = j
    BY <1>3, PlaceIs
  <2>2. j \in Int
    BY <1>3, FileIs
  <2> HIDE DEF k
  <2>3. ~(k <= n)
    <3>1. k = n => j = i
      BY <2>1
    <3>2. k < n => j < i
      BY <2>1, AtGrows
    <3> HIDE DEF i
    <3>3. k \in Int /\ n \in Int /\ i \in Int
      BY <1>1, <1>2, <2>1
    <3> QED BY <1>3, <2>2, <3>1, <3>2, <3>3
  <2>4. n + 1 \in Loaded(f) /\ (k = n + 1 \/ n + 1 < k)
    BY <1>1, <2>1, <2>3
  <2>5. n + 1 < k => At(f, n + 1) < j
    BY <2>1, <2>4, AtGrows
  <2>6. At(f, n + 1) \in Int
    BY <1>2, <2>4, RowIs
  <2> QED BY <2>1, <2>2, <2>4, <2>5, <2>6
<1>4. n + 1 \in Loaded(f) => i < At(f, n + 1) /\ At(f, n + 1) \in Int
  <2>1. n < n + 1
    BY <1>1
  <2> QED BY <1>2, <2>1, AtGrows, RowIs
<1> HIDE DEF i
<1>5. RowAt(f, i + 1) => n + 1 \in Loaded(f) /\ At(f, n + 1) = i + 1
  <2>1. i + 1 > i
    BY <1>2
  <2>2. RowAt(f, i + 1) => n + 1 \in Loaded(f) /\ At(f, n + 1) <= i + 1
    BY <1>3, <2>1
  <2> QED BY <1>2, <1>4, <2>2
<1>6. ASSUME ~RowAt(f, i + 1), n + 1 \in Loaded(f), RowAt(f, At(f, n + 1) - 1) PROVE FALSE
  <2> DEFINE j == At(f, n + 1)
  <2>1. j \in Int /\ i < j /\ RowAt(f, j)
    BY <1>4, <1>6, RowIs
  <2> HIDE DEF j
  <2>2. j - 1 # i => j - 1 > i
    BY <1>2, <2>1
  <2>3. j - 1 # i => j <= j - 1
    BY <1>3, <1>6, <2>2 DEF j
  <2>4. j = i + 1
    BY <1>2, <2>1, <2>3
  <2> QED BY <1>6, <2>1, <2>4
<1>7. ASSUME n + 1 \notin Loaded(f), NEW j \in i + 1 .. Len(f), RowAt(f, j) PROVE FALSE
  <2>1. j > i
    BY <1>2
  <2> QED BY <1>3, <1>7, <2>1
<1> QED BY <1>5, <1>6, <1>7 DEF i

(* A run of rows that are I of a type is a run of lines.                   *)
Inside(f, n, m, t) == \A k \in n + 1 .. n + m : Column!LoadRows(f)[k].label = <<"I", t>>
InLine(f, n, m)    == \A d \in 0 .. m : At(f, n + d) = At(f, n) + d

LEMMA RunOfLines ==
  ASSUME NEW f, GoodFile(f), ~Stray(f), NEW n \in Loaded(f), NEW m \in Nat, n + m \in Loaded(f),
         NEW t, Inside(f, n, m, t)
  PROVE  InLine(f, n, m)
<1> DEFINE T == {d \in 0 .. m : At(f, n + d) = At(f, n) + d}
<1>0. n \in Nat /\ Loaded(f) = 1 .. Cardinality(RowsOf(f)) /\ Cardinality(RowsOf(f)) \in Nat
  BY FileIs DEF Loaded
<1>1. 0 \in T
  <2>1. At(f, n) \in Int
    BY FileIs, RowIs
  <2> QED BY <1>0, <2>1
<1>2. ASSUME NEW d \in 0 .. m - 1, d \in T PROVE d + 1 \in T
  <2> DEFINE k == n + d
  <2>1. k \in Loaded(f) /\ k + 1 \in Loaded(f) /\ k + 1 \in n + 1 .. n + m /\ n + (d + 1) = k + 1
    BY <1>0
  <2>2. At(f, k) = At(f, n) + d /\ At(f, n) \in Int
    BY <1>2, FileIs, RowIs
  <2>3. Column!LoadRows(f)[k+1].label = <<"I", t>> /\ Column!LoadRows(f)[k+1] = f[At(f, k + 1)]
    BY <2>1, RowIs DEF Inside
  <2> HIDE DEF k
  <2>4. RowAt(f, At(f, k) + 1)
    <3> SUFFICES ASSUME ~RowAt(f, At(f, k) + 1) PROVE FALSE
      OBVIOUS
    <3> DEFINE j == At(f, k + 1)
    <3>1. RowAt(f, j) /\ j \in DOMAIN f
      BY <2>1, RowIs DEF RowAt
    <3>2. ~RowAt(f, j - 1)
      BY <2>1, NextRow
    <3>3. f[j].label[1] = "I"
      BY <2>3
    <3> HIDE DEF j
    <3> QED BY <3>1, <3>2, <3>3 DEF Stray
  <2>5. At(f, k + 1) = At(f, k) + 1
    BY <2>1, <2>4, NextRow
  <2>6. At(f, n + (d + 1)) = At(f, n) + (d + 1)
    BY <2>1, <2>2, <2>5
  <2> QED BY <2>6
<1> HIDE DEF T
<1>3. 0 .. m \subseteq T
  BY <1>1, <1>2, UpTo
<1> QED BY <1>3 DEF T, InLine

LEMMA LastIs ==
  ASSUME NEW rows, Len(rows) \in Nat, NEW n \in 1 .. Len(rows), NEW t
  PROVE  LET L == Column!LastOf(rows, n, t)
         IN  /\ L \in n .. Len(rows) /\ \A k \in n + 1 .. L : rows[k].label = <<"I", t>>
             /\ L = Len(rows) \/ rows[L+1].label # <<"I", t>>
<1> DEFINE S == {j \in n .. Len(rows) : \A k \in n + 1 .. j : rows[k].label = <<"I", t>>}
           L == Column!LastOf(rows, n, t)
<1>1. S \subseteq 1 .. Len(rows) /\ n \in S
  OBVIOUS
<1>2. L = Command!Max(S)
  BY DEF Column!LastOf, Column!Max, Command!Max
<1>3. L \in S /\ \A y \in S : y <= L
  <2> HIDE DEF S, L
  <2> QED BY <1>1, <1>2, MaxIs
<1> HIDE DEF L
<1>4. ASSUME L # Len(rows), rows[L+1].label = <<"I", t>> PROVE FALSE
  <2>1. L + 1 \in n .. Len(rows)
    BY <1>3, <1>4
  <2>2. \A k \in n + 1 .. L + 1 : k \in n + 1 .. L \/ k = L + 1
    BY <1>3
  <2>3. L + 1 \in S
    BY <1>3, <1>4, <2>1, <2>2
  <2>4. L + 1 <= L
    BY <1>3, <2>3
  <2> QED BY <1>3, <2>4
<1> QED BY <1>3, <1>4 DEF L

EndOf(f, n, t) == At(f, n) + (Column!LastOf(Column!LoadRows(f), n, t) - n)

LEMMA EntityOf ==
  ASSUME NEW f, GoodFile(f), ~Stray(f), NEW t, NEW n \in Column!Begins(Column!LoadRows(f), t)
  PROVE  LET rows == Column!LoadRows(f)
             i == At(f, n)
             j == EndOf(f, n, t)
             L == Column!LastOf(rows, n, t)
         IN  /\ n \in Loaded(f) /\ i \in DOMAIN f /\ j \in DOMAIN f
             /\ EntityAt(f, i, j, t)
             /\ Column!WordsOf(rows, n, L) = Column!WordsOf(f, i, j)
             /\ ~InsideAtEnd(f) => L # Len(rows)
<1> DEFINE rows == Column!LoadRows(f)
           i == At(f, n)
           j == EndOf(f, n, t)
           L == Column!LastOf(rows, n, t)
           m == L - n
<1>1. DOMAIN rows = Loaded(f) /\ Len(rows) = Cardinality(RowsOf(f)) /\ Loaded(f) = 1 .. Len(rows)
      /\ Len(rows) \in Nat
  BY RowsAre, FileIs DEF Loaded
<1>2. n \in Loaded(f) /\ rows[n].label = <<"B", t>>
  BY <1>1 DEF Column!Begins
<1>3. /\ L \in n .. Len(rows) /\ \A k \in n + 1 .. L : rows[k].label = <<"I", t>>
      /\ L = Len(rows) \/ rows[L+1].label # <<"I", t>>
  BY <1>1, <1>2, LastIs
<1>4. m \in Nat /\ n + m = L /\ L \in Loaded(f)
  BY <1>1, <1>2, <1>3
<1>5. j = i + m
  BY DEF EndOf
<1> HIDE DEF L, m, j, rows
<1>6. \A d \in 0 .. m : At(f, n + d) = At(f, n) + d
  <2>1. Inside(f, n, m, t)
    BY <1>3, <1>4 DEF Inside, rows
  <2>2. n + m \in Loaded(f)
    BY <1>4
  <2>3. InLine(f, n, m)
    BY <1>2, <1>4, <2>1, <2>2, RunOfLines
  <2> QED BY <2>3 DEF InLine
<1>7. \A k \in Loaded(f) : /\ At(f, k) \in DOMAIN f /\ RowAt(f, At(f, k)) /\ At(f, k) \in Int
                           /\ rows[k] = f[At(f, k)]
  BY RowIs, FileIs DEF rows
<1>8. \A d \in 0 .. m : n + d \in Loaded(f) /\ At(f, n + d) = i + d
  BY <1>1, <1>2, <1>4, <1>6
<1> HIDE DEF i
<1>9. i \in DOMAIN f /\ i \in Int
  BY <1>2, <1>7 DEF i
<1>10. j \in DOMAIN f /\ At(f, L) = j
  <2>1. m \in 0 .. m
    BY <1>4
  <2> QED BY <1>4, <1>5, <1>7, <1>8, <2>1
<1>11. ASSUME NEW k \in i .. j
       PROVE  RowAt(f, k) /\ f[k].label = <<(IF k = i THEN "B" ELSE "I"), t>>
  <2>1. k - i \in 0 .. m /\ i + (k - i) = k
    BY <1>4, <1>5, <1>9
  <2>2. n + (k - i) \in Loaded(f) /\ At(f, n + (k - i)) = k
    BY <1>8, <2>1
  <2>3. RowAt(f, k) /\ rows[n + (k - i)] = f[k]
    BY <1>7, <2>2
  <2>4. CASE k = i
    <3>1. n + (k - i) = n
      BY <1>1, <1>2, <1>9, <2>4
    <3> QED BY <1>2, <2>3, <2>4, <3>1
  <2>5. CASE k # i
    <3>1. n + (k - i) \in n + 1 .. L
      BY <1>1, <1>2, <1>4, <1>9, <2>1, <2>5
    <3> QED BY <1>3, <2>3, <2>5, <3>1
  <2> QED BY <2>4, <2>5
<1>12. ~(RowAt(f, j + 1) /\ f[j+1].label = <<"I", t>>)
  <2> SUFFICES ASSUME RowAt(f, j + 1), f[j+1].label = <<"I", t>> PROVE FALSE
    OBVIOUS
  <2>1. L + 1 \in Loaded(f) /\ At(f, L + 1) = j + 1
    BY <1>4, <1>10, NextRow
  <2>2. rows[L+1] = f[j+1] /\ L # Len(rows)
    BY <1>1, <1>7, <2>1
  <2> QED BY <1>3, <2>2
<1>13. EntityAt(f, i, j, t)
  <2>1. i <= j
    BY <1>4, <1>5, <1>9
  <2> QED BY <1>11, <1>12, <2>1 DEF EntityAt
<1>14. Column!WordsOf(rows, n, L) = Column!WordsOf(f, i, j)
  <2>1. L - n + 1 = m + 1 /\ j - i + 1 = m + 1
    BY <1>1, <1>2, <1>4, <1>5, <1>9
  <2>2. \A k \in 1 .. m + 1 : rows[n + k - 1] = f[i + k - 1]
    <3> TAKE k \in 1 .. m + 1
    <3>1. k - 1 \in 0 .. m /\ n + (k - 1) = n + k - 1 /\ i + (k - 1) = i + k - 1
      BY <1>1, <1>2, <1>4, <1>9
    <3>2. n + (k - 1) \in Loaded(f) /\ At(f, n + (k - 1)) = i + (k - 1)
      BY <1>8, <3>1
    <3> QED BY <1>7, <3>1, <3>2
  <2> QED BY <2>1, <2>2 DEF Column!WordsOf
<1>15. ASSUME L = Len(rows), ~InsideAtEnd(f) PROVE FALSE
  <2>1. L + 1 \notin Loaded(f)
    BY <1>1, <1>15
  <2>2. \A k \in j + 1 .. Len(f) : ~RowAt(f, k)
    BY <1>4, <1>10, <2>1, NextRow
  <2>3. RowAt(f, j) /\ f[j].label = <<(IF j = i THEN "B" ELSE "I"), t>>
    <3>1. j \in i .. j
      BY <1>4, <1>5, <1>9
    <3> QED BY <1>11, <3>1
  <2>4. f[j].label[1] # "O"
    BY <2>3
  <2> QED BY <1>10, <1>15, <2>2, <2>3, <2>4 DEF InsideAtEnd
<1> QED BY <1>2, <1>9, <1>10, <1>13, <1>14, <1>15 DEF i, j, L, rows

LEMMA OneEnd ==
  ASSUME NEW f, NEW i \in Int, NEW t, NEW j \in Int, NEW k \in Int,
         EntityAt(f, i, j, t), EntityAt(f, i, k, t)
  PROVE  j = k
<1>1. ASSUME NEW a \in Int, NEW b \in Int, EntityAt(f, i, a, t), EntityAt(f, i, b, t), a < b
      PROVE  FALSE
  <2>1. a + 1 \in i .. b /\ a + 1 # i
    BY <1>1 DEF EntityAt
  <2> QED BY <1>1, <2>1 DEF EntityAt
<1>2. j < k \/ k < j \/ j = k
  OBVIOUS
<1> QED BY <1>1, <1>2

LEMMA BeginOf ==
  ASSUME NEW f, GoodFile(f), NEW t, NEW i \in DOMAIN f, NEW j \in DOMAIN f, EntityAt(f, i, j, t)
  PROVE  Place(f, i) \in Column!Begins(Column!LoadRows(f), t) /\ At(f, Place(f, i)) = i
<1>1. i \in i .. j
  BY FileIs DEF EntityAt
<1>2. RowAt(f, i) /\ f[i].label = <<"B", t>>
  BY <1>1 DEF EntityAt
<1>3. Place(f, i) \in Loaded(f) /\ At(f, Place(f, i)) = i
  BY <1>2, PlaceIs
<1>4. Column!LoadRows(f)[Place(f, i)] = f[i]
  BY <1>3, RowIs
<1> QED BY <1>2, <1>3, <1>4, RowsAre DEF Column!Begins

LEMMA SameNumber ==
  ASSUME NEW S, NEW T, IsFiniteSet(S), NEW b \in [S -> T],
         \A x, y \in S : b[x] = b[y] => x = y, \A y \in T : \E x \in S : b[x] = y
  PROVE  Cardinality(S) = Cardinality(T)
<1>1. b \in Bijection(S, T)
  BY DEF Bijection, Injection, Surjection, IsInjective
<1>2. ExistsBijection(S, T)
  BY <1>1 DEF ExistsBijection
<1> QED BY <1>2, FS_Bijection

(* Whatever file of readable rows is extracted, every entity of every      *)
(* sentence is counted as often as it occurs, if no sentence begins inside *)
(* an entity and the last word is none (NER_extractor.java load_data,      *)
(* printWordsToFile).                                                      *)
THEOREM EntitiesAlwaysListed == CasesSpec => []EntitiesListed
<1> DEFINE FileKnown == When("file") => case.input \in TaggedFiles
<1>1. CasesInit => FileKnown
  BY DEF CasesInit, Case, When
<1>2. FileKnown /\ [CasesNext]_case => FileKnown'
  BY DEF CasesNext, When
<1>3. FileKnown => EntitiesListed
  <2> SUFFICES ASSUME FileKnown, When("file") PROVE EntitiesListed
    BY DEF EntitiesListed
  <2> DEFINE f == case.input
             rows == Column!LoadRows(f)
  <2>1. GoodFile(f)
    BY TaggingsAssumption DEF GoodFile
  <2> HIDE DEF f
  <2>2. Column!LoadThrows(f) <=> ~ReadableRows(f)
    <3>1. \A i \in DOMAIN f : f[i].cols \in 1 .. 3 <=> ~(f[i].cols = 0 \/ f[i].cols >= 4)
      BY <2>1 DEF GoodFile
    <3> QED BY <3>1 DEF Column!LoadThrows, ReadableRows
  <2>3. ASSUME ~InsideAtEnd(f), ~Stray(f)
        PROVE  /\ ~Column!ListThrows(rows, Types)
               /\ \A t \in Types :
                    LET places == {e \in (DOMAIN f) \X (DOMAIN f) : EntityAt(f, e[1], e[2], t)}
                        words  == {Column!WordsOf(f, e[1], e[2]) : e \in places}
                    IN  Column!Counts(rows, t) =
                          [w \in words |->
                             Cardinality({e \in places : Column!WordsOf(f, e[1], e[2]) = w})]
    <3>1. ~Column!ListThrows(rows, Types)
      <4>1. \A t \in Types : \A n \in Column!Begins(rows, t) : Column!LastOf(rows, n, t) # Len(rows)
        BY <2>1, <2>3, EntityOf
      <4> QED BY <4>1 DEF Column!ListThrows
    <3>2. ASSUME NEW t \in Types
          PROVE  LET places == {e \in (DOMAIN f) \X (DOMAIN f) : EntityAt(f, e[1], e[2], t)}
                     words  == {Column!WordsOf(f, e[1], e[2]) : e \in places}
                 IN  Column!Counts(rows, t) =
                       [w \in words |->
                          Cardinality({e \in places : Column!WordsOf(f, e[1], e[2]) = w})]
      <4> DEFINE B == Column!Begins(rows, t)
                 of(n) == Column!WordsOf(rows, n, Column!LastOf(rows, n, t))
                 at(e) == Column!WordsOf(f, e[1], e[2])
                 to(n) == <<At(f, n), EndOf(f, n, t)>>
                 places == {e \in (DOMAIN f) \X (DOMAIN f) : EntityAt(f, e[1], e[2], t)}
      <4>1. ASSUME NEW n \in B PROVE n \in Loaded(f) /\ to(n) \in places /\ of(n) = at(to(n))
        BY <2>1, <2>3, EntityOf
      <4>2. ASSUME NEW e \in places PROVE \E n \in B : to(n) = e
        <5>1. e[1] \in DOMAIN f /\ e[2] \in DOMAIN f /\ EntityAt(f, e[1], e[2], t) /\ e = <<e[1], e[2]>>
          OBVIOUS
        <5>2. PICK n \in B : At(f, n) = e[1]
          BY <2>1, <5>1, BeginOf
        <5>3. EntityAt(f, e[1], EndOf(f, n, t), t) /\ EndOf(f, n, t) \in DOMAIN f
          BY <2>1, <2>3, <5>2, EntityOf
        <5>4. EndOf(f, n, t) = e[2]
          <6>1. DOMAIN f \subseteq Int
            BY <2>1, FileIs
          <6> QED BY <5>1, <5>3, <6>1, OneEnd
        <5> QED BY <5>1, <5>2, <5>4
      <4>3. ASSUME NEW n \in B, NEW k \in B, to(n) = to(k) PROVE n = k
        <5>1. At(f, n) = At(f, k) /\ n \in Loaded(f) /\ k \in Loaded(f)
          BY <4>1, <4>3
        <5>2. Place(f, At(f, n)) = n /\ Place(f, At(f, k)) = k
          BY <2>1, <5>1, RowIs
        <5> QED BY <5>1, <5>2
      <4>4. IsFiniteSet(B)
        <5>1. IsFiniteSet(Loaded(f))
          BY <2>1, FileIs, FS_Interval DEF Loaded
        <5>2. B \subseteq Loaded(f)
          BY <4>1
        <5> HIDE DEF B
        <5> QED BY <5>1, <5>2, FS_Subset
      <4>5. Column!Counts(rows, t) = [w \in {of(n) : n \in B} |-> Cardinality({n \in B : of(n) = w})]
        <5>1. \A S : Column!Cardinality(S) = Cardinality(S)
          BY DEF Column!Cardinality, Cardinality
        <5> QED BY <5>1 DEF Column!Counts
      <4> HIDE DEF B, of, at, to, places
      <4>6. {of(n) : n \in B} = {at(e) : e \in places}
        <5>1. \A n \in B : \E e \in places : of(n) = at(e)
          BY <4>1
        <5>2. \A e \in places : \E n \in B : of(n) = at(e)
          BY <4>1, <4>2
        <5> QED BY <5>1, <5>2
      <4>7. ASSUME NEW w
            PROVE  Cardinality({n \in B : of(n) = w}) = Cardinality({e \in places : at(e) = w})
        <5> DEFINE S == {n \in B : of(n) = w}
                   T == {e \in places : at(e) = w}
                   b == [n \in S |-> to(n)]
        <5>1. b \in [S -> T]
          BY <4>1
        <5>2. \A x, y \in S : b[x] = b[y] => x = y
          BY <4>3
        <5>3. ASSUME NEW e \in T PROVE \E n \in S : b[n] = e
          <6>1. PICK n \in B : to(n) = e
            BY <4>2
          <6>2. n \in S
            BY <4>1, <6>1
          <6> QED BY <6>1, <6>2
        <5>4. IsFiniteSet(S)
          BY <4>4, FS_Subset
        <5> HIDE DEF S, T, b
        <5>5. Cardinality(S) = Cardinality(T)
          BY <5>1, <5>2, <5>3, <5>4, SameNumber
        <5> QED BY <5>5 DEF S, T
      <4>8. Column!Counts(rows, t)
              = [w \in {at(e) : e \in places} |-> Cardinality({e \in places : at(e) = w})]
        BY <4>5, <4>6, <4>7
      <4> QED BY <4>8 DEF at, places
    <3> QED BY <3>1, <3>2
  <2> QED BY <2>2, <2>3 DEF EntitiesListed, f
<1> QED BY <1>1, <1>2, <1>3, PTL DEF CasesSpec
-----------------------------------------------------------------------------
(* The text of a model.                                                    *)
Spliced(S, a, b) ==
  /\ a \o b \in Seq(S) /\ Len(a \o b) = Len(a) + Len(b)
  /\ \A i \in 1 .. Len(a) : (a \o b)[i] = a[i]
  /\ \A i \in 1 .. Len(b) : (a \o b)[Len(a) + i] = b[i]

LEMMA SplicedIs ==
  ASSUME NEW S, NEW a \in Seq(S), NEW b \in Seq(S)
  PROVE  Spliced(S, a, b)
BY DEF Spliced

GoodModel(m) ==
  /\ m.y \in Seq({m.y[i] : i \in DOMAIN m.y}) /\ m.uni \in Seq({m.uni[i] : i \in DOMAIN m.uni})
  /\ m.bi \in Seq({m.bi[i] : i \in DOMAIN m.bi}) /\ m.dic \in Seq({m.dic[i] : i \in DOMAIN m.dic})
  /\ m.maxid \in Nat /\ DOMAIN m.alpha = 1 .. m.maxid
  /\ \A i \in DOMAIN m.alpha : m.alpha[i] \in 0 .. 3
  /\ \A i \in DOMAIN m.y : m.y[i].kind = "tag"
  /\ \A i \in DOMAIN m.uni : m.uni[i].kind = "U"
  /\ \A i \in DOMAIN m.bi : m.bi[i].kind = "B"
  /\ \A i \in DOMAIN m.dic :
       m.dic[i] = [kind |-> "key", id |-> m.dic[i].id,
                   key |-> [name |-> m.dic[i].key.name, spaced |-> m.dic[i].key.spaced]]
  /\ \A i \in DOMAIN m.dic : m.dic[i].key.spaced \in BOOLEAN
  /\ \A i, j \in DOMAIN m.dic : m.dic[i].key = m.dic[j].key => i = j

(* The lines of a model: the ends of its four sections, and what is where. *)
SecondEnd(m) == 6 + Len(m.y)
ThirdEnd(m)  == 7 + Len(m.y) + Len(m.uni) + Len(m.bi)
FourthEnd(m) == 8 + Len(m.y) + Len(m.uni) + Len(m.bi) + Len(m.dic)

HeadLaid(m, t) ==
  /\ t[1] = Model!HeadLine("version", Model!Version) /\ t[2] = Model!HeadLine("cost-factor", 1)
  /\ t[3] = Model!HeadLine("maxid", m.maxid) /\ t[4] = Model!HeadLine("xsize", m.xsize)

TextLaid(m, t) ==
  /\ Len(t) = FourthEnd(m) + m.maxid
  /\ HeadLaid(m, t)
  /\ t[5] = Model!Empty /\ t[SecondEnd(m)] = Model!Empty
  /\ t[ThirdEnd(m)] = Model!Empty /\ t[FourthEnd(m)] = Model!Empty
  /\ \A i \in 1 .. Len(m.y) : t[5 + i] = m.y[i]
  /\ \A i \in 1 .. Len(m.uni) : t[SecondEnd(m) + i] = m.uni[i]
  /\ \A i \in 1 .. Len(m.bi) : t[SecondEnd(m) + Len(m.uni) + i] = m.bi[i]
  /\ \A i \in 1 .. Len(m.dic) : t[ThirdEnd(m) + i] = m.dic[i]
  /\ \A i \in 1 .. m.maxid : t[FourthEnd(m) + i] = Model!Weight(Model!Decimals(m.alpha[i]))

LEMMA LengthsAre ==
  ASSUME NEW m, GoodModel(m)
  PROVE  /\ Len(m.y) \in Nat /\ Len(m.uni) \in Nat /\ Len(m.bi) \in Nat /\ Len(m.dic) \in Nat
         /\ m.maxid \in Nat
         /\ DOMAIN m.y = 1 .. Len(m.y) /\ DOMAIN m.uni = 1 .. Len(m.uni)
         /\ DOMAIN m.bi = 1 .. Len(m.bi) /\ DOMAIN m.dic = 1 .. Len(m.dic)
BY DEF GoodModel

LEMMA LinesAre ==
  ASSUME NEW S, NEW s \in Seq(S), Model!Empty \in S
  PROVE  /\ Model!Lines(s) \in Seq(S) /\ Len(Model!Lines(s)) = Len(s) + 1 /\ Len(s) \in Nat
         /\ \A i \in 1 .. Len(s) : Model!Lines(s)[i] = s[i]
         /\ Model!Lines(s)[Len(s) + 1] = Model!Empty
<1> DEFINE e == Model!Empty
<1>1. Model!Lines(s) = Append(s, e)
  BY DEF Model!Lines
<1> HIDE DEF e
<1>2. e \in S
  BY DEF e
<1> QED BY <1>1, <1>2 DEF e

LEMMA TextIs ==
  ASSUME NEW m, GoodModel(m)
  PROVE  TextLaid(m, Model!Text(m)) /\ \E R : Model!Text(m) \in Seq(R)
<1> DEFINE h1 == Model!HeadLine("version", Model!Version)
           h2 == Model!HeadLine("cost-factor", 1)
           h3 == Model!HeadLine("maxid", m.maxid)
           h4 == Model!HeadLine("xsize", m.xsize)
           H0 == <<h1, h2, h3, h4>>
           Y0 == m.y
           U0 == m.uni
           B0 == m.bi
           D0 == m.dic
           W(i) == Model!Weight(Model!Decimals(m.alpha[i]))
           W0 == [i \in 1 .. m.maxid |-> W(i)]
           e == Model!Empty
           R == {h1, h2, h3, h4, e} \cup {Y0[i] : i \in DOMAIN Y0} \cup {U0[i] : i \in DOMAIN U0}
                \cup {B0[i] : i \in DOMAIN B0} \cup {D0[i] : i \in DOMAIN D0}
                \cup {W(i) : i \in 1 .. m.maxid}
           H == Model!Lines(H0)
           Y == Model!Lines(Y0)
           T == Model!Lines(U0 \o B0)
           D == Model!Lines(D0)
           A == H \o Y
           B == A \o T
           C == B \o D
           F == C \o W0
<1>1. Model!Text(m) = F
  BY DEF Model!Text
<1>2. Y0 \in Seq(R) /\ U0 \in Seq(R) /\ B0 \in Seq(R) /\ D0 \in Seq(R)
  <2>1. /\ Y0 \in Seq({Y0[i] : i \in DOMAIN Y0}) /\ U0 \in Seq({U0[i] : i \in DOMAIN U0})
        /\ B0 \in Seq({B0[i] : i \in DOMAIN B0}) /\ D0 \in Seq({D0[i] : i \in DOMAIN D0})
    BY DEF GoodModel
  <2>2. /\ {Y0[i] : i \in DOMAIN Y0} \subseteq R /\ {U0[i] : i \in DOMAIN U0} \subseteq R
        /\ {B0[i] : i \in DOMAIN B0} \subseteq R /\ {D0[i] : i \in DOMAIN D0} \subseteq R
    OBVIOUS
  <2> HIDE DEF Y0, U0, B0, D0, R
  <2> QED BY <2>1, <2>2
<1>3. h1 \in R /\ h2 \in R /\ h3 \in R /\ h4 \in R /\ e \in R /\ \A i \in 1 .. m.maxid : W(i) \in R
  OBVIOUS
<1>4. Model!Empty \in R /\ m.maxid \in Nat
  BY <1>3 DEF GoodModel
<1> HIDE DEF R, h1, h2, h3, h4, W, e, Y0, U0, B0, D0
<1>5. /\ H0 \in Seq(R) /\ Len(H0) = 4
      /\ H0[1] = h1 /\ H0[2] = h2 /\ H0[3] = h3 /\ H0[4] = h4
  BY <1>3
<1>6. W0 \in Seq(R) /\ Len(W0) = m.maxid /\ \A i \in 1 .. m.maxid : W0[i] = W(i)
  BY <1>3, <1>4
<1> HIDE DEF H0, W0
<1> DEFINE ny == Len(Y0)
           nu == Len(U0)
           nb == Len(B0)
           nd == Len(D0)
<1>7. /\ H \in Seq(R) /\ Len(H) = 5 /\ \A i \in 1 .. 4 : H[i] = H0[i]
      /\ H[5] = e
  <2>1. /\ H \in Seq(R) /\ Len(H) = Len(H0) + 1
        /\ \A i \in 1 .. Len(H0) : H[i] = H0[i]
        /\ H[Len(H0) + 1] = e
    BY <1>4, <1>5, LinesAre DEF e
  <2> HIDE DEF H
  <2> QED BY <1>5, <2>1
<1>8. ny \in Nat /\ nu \in Nat /\ nb \in Nat /\ nd \in Nat
  BY <1>2
<1>9. /\ Y \in Seq(R) /\ Len(Y) = ny + 1 /\ \A i \in 1 .. ny : Y[i] = Y0[i]
      /\ Y[ny + 1] = e
  BY <1>2, <1>4, LinesAre DEF e
<1>10. /\ D \in Seq(R) /\ Len(D) = nd + 1 /\ \A i \in 1 .. nd : D[i] = D0[i]
       /\ D[nd + 1] = e
  BY <1>2, <1>4, LinesAre DEF e
<1>11. /\ T \in Seq(R) /\ Len(T) = nu + nb + 1 /\ T[nu + nb + 1] = e
       /\ \A i \in 1 .. nu : T[i] = U0[i]
       /\ \A i \in 1 .. nb : T[nu + i] = B0[i]
  <2> DEFINE t == U0 \o B0
  <2>1. /\ t \in Seq(R) /\ Len(t) = nu + nb
        /\ \A i \in 1 .. nu : t[i] = U0[i]
        /\ \A i \in 1 .. nb : t[nu + i] = B0[i]
    <3>1. Spliced(R, U0, B0)
      BY <1>2, SplicedIs
    <3> QED BY <3>1 DEF Spliced
  <2> HIDE DEF t
  <2>2. /\ Model!Lines(t) \in Seq(R) /\ Len(Model!Lines(t)) = Len(t) + 1
        /\ \A i \in 1 .. Len(t) : Model!Lines(t)[i] = t[i]
        /\ Model!Lines(t)[Len(t) + 1] = e
    BY <1>4, <2>1, LinesAre DEF e
  <2>3. T = Model!Lines(t)
    BY DEF t
  <2> HIDE DEF T, nu, nb
  <2>4. \A i \in 1 .. nu : i \in 1 .. nu + nb
    BY <1>8
  <2>5. \A i \in 1 .. nb : nu + i \in 1 .. nu + nb
    BY <1>8
  <2> QED BY <2>1, <2>2, <2>3, <2>4, <2>5
<1> HIDE DEF H, Y, T, D
<1>12. Spliced(R, H, Y)
  BY <1>7, <1>9, SplicedIs
<1> HIDE DEF ny, nu, nb, nd
<1>13. /\ A \in Seq(R) /\ Len(A) = 6 + ny
       /\ A[1] = h1 /\ A[2] = h2 /\ A[3] = h3 /\ A[4] = h4 /\ A[5] = e
       /\ \A i \in 1 .. ny : A[5 + i] = Y0[i]
       /\ A[6 + ny] = e
  <2>1. /\ A \in Seq(R) /\ Len(A) = Len(H) + Len(Y)
        /\ \A i \in 1 .. Len(H) : A[i] = H[i]
        /\ \A i \in 1 .. Len(Y) : A[Len(H) + i] = Y[i]
    BY <1>12 DEF Spliced
  <2> HIDE DEF A
  <2>2. /\ A \in Seq(R) /\ Len(A) = 6 + ny
        /\ \A i \in 1 .. 5 : A[i] = H[i]
        /\ \A i \in 1 .. ny + 1 : A[5 + i] = Y[i]
    BY <1>7, <1>8, <1>9, <2>1
  <2>3. A[6 + ny] = e
    <3>1. ny + 1 \in 1 .. ny + 1 /\ 5 + (ny + 1) = 6 + ny
      BY <1>8
    <3> QED BY <1>9, <2>2, <3>1
  <2>4. A[1] = h1 /\ A[2] = h2 /\ A[3] = h3 /\ A[4] = h4 /\ A[5] = e
    BY <1>5, <1>7, <2>2
  <2>5. \A i \in 1 .. ny : A[5 + i] = Y0[i]
    BY <1>8, <1>9, <2>2
  <2> QED BY <2>2, <2>3, <2>4, <2>5
<1>14. Spliced(R, A, T)
  BY <1>11, <1>13, SplicedIs
<1> HIDE DEF A
<1>15. /\ B \in Seq(R) /\ Len(B) = 7 + ny + nu + nb
       /\ \A i \in 1 .. 6 + ny : B[i] = A[i]
       /\ \A i \in 1 .. nu : B[6 + ny + i] = U0[i]
       /\ \A i \in 1 .. nb : B[6 + ny + nu + i] = B0[i]
       /\ B[7 + ny + nu + nb] = e
  <2>1. /\ B \in Seq(R) /\ Len(B) = Len(A) + Len(T)
        /\ \A i \in 1 .. Len(A) : B[i] = A[i]
        /\ \A i \in 1 .. Len(T) : B[Len(A) + i] = T[i]
    BY <1>14 DEF Spliced
  <2> HIDE DEF B
  <2>2. /\ B \in Seq(R) /\ Len(B) = 7 + ny + nu + nb
        /\ \A i \in 1 .. 6 + ny : B[i] = A[i]
        /\ \A i \in 1 .. nu + nb + 1 : B[6 + ny + i] = T[i]
    BY <1>8, <1>11, <1>13, <2>1
  <2>3. ASSUME NEW i \in 1 .. nu PROVE B[6 + ny + i] = U0[i]
    BY <1>8, <1>11, <2>2
  <2>4. ASSUME NEW i \in 1 .. nb PROVE B[6 + ny + nu + i] = B0[i]
    <3>1. nu + i \in 1 .. nu + nb + 1 /\ 6 + ny + (nu + i) = 6 + ny + nu + i
      BY <1>8
    <3> QED BY <1>11, <2>2, <3>1
  <2>5. B[7 + ny + nu + nb] = e
    <3>1. nu + nb + 1 \in 1 .. nu + nb + 1 /\ 6 + ny + (nu + nb + 1) = 7 + ny + nu + nb
      BY <1>8
    <3> QED BY <1>11, <2>2, <3>1
  <2> QED BY <2>2, <2>3, <2>4, <2>5
<1>16. Spliced(R, B, D)
  BY <1>10, <1>15, SplicedIs
<1> HIDE DEF B
<1>17. /\ C \in Seq(R) /\ Len(C) = 8 + ny + nu + nb + nd
       /\ \A i \in 1 .. 7 + ny + nu + nb : C[i] = B[i]
       /\ \A i \in 1 .. nd : C[7 + ny + nu + nb + i] = D0[i]
       /\ C[8 + ny + nu + nb + nd] = e
  <2>1. /\ C \in Seq(R) /\ Len(C) = Len(B) + Len(D)
        /\ \A i \in 1 .. Len(B) : C[i] = B[i]
        /\ \A i \in 1 .. Len(D) : C[Len(B) + i] = D[i]
    BY <1>16 DEF Spliced
  <2> HIDE DEF C
  <2>2. /\ C \in Seq(R) /\ Len(C) = 8 + ny + nu + nb + nd
        /\ \A i \in 1 .. 7 + ny + nu + nb : C[i] = B[i]
        /\ \A i \in 1 .. nd + 1 : C[7 + ny + nu + nb + i] = D[i]
    BY <1>8, <1>10, <1>15, <2>1
  <2>3. ASSUME NEW i \in 1 .. nd PROVE C[7 + ny + nu + nb + i] = D0[i]
    BY <1>8, <1>10, <2>2
  <2>4. C[8 + ny + nu + nb + nd] = e
    <3>1. nd + 1 \in 1 .. nd + 1 /\ 7 + ny + nu + nb + (nd + 1) = 8 + ny + nu + nb + nd
      BY <1>8
    <3> QED BY <1>10, <2>2, <3>1
  <2> QED BY <2>2, <2>3, <2>4
<1>18. Spliced(R, C, W0)
  BY <1>6, <1>17, SplicedIs
<1> HIDE DEF C
<1>19. /\ F \in Seq(R) /\ Len(F) = 8 + ny + nu + nb + nd + m.maxid
       /\ \A i \in 1 .. 8 + ny + nu + nb + nd : F[i] = C[i]
       /\ \A i \in 1 .. m.maxid : F[8 + ny + nu + nb + nd + i] = W(i)
  <2>1. /\ F \in Seq(R) /\ Len(F) = Len(C) + Len(W0)
        /\ \A i \in 1 .. Len(C) : F[i] = C[i]
        /\ \A i \in 1 .. Len(W0) : F[Len(C) + i] = W0[i]
    BY <1>18 DEF Spliced
  <2> HIDE DEF F
  <2> QED BY <1>6, <1>8, <1>17, <2>1
<1> HIDE DEF F
<1>20. \A i \in 1 .. 7 + ny + nu + nb : F[i] = B[i]
  <2>1. \A i \in 1 .. 7 + ny + nu + nb : i \in 1 .. 8 + ny + nu + nb + nd
    BY <1>8
  <2> QED BY <1>17, <1>19, <2>1
<1>21. \A i \in 1 .. 6 + ny : F[i] = A[i]
  <2>1. \A i \in 1 .. 6 + ny : i \in 1 .. 7 + ny + nu + nb
    BY <1>8
  <2> QED BY <1>15, <1>20, <2>1
<1>22. F[1] = h1 /\ F[2] = h2 /\ F[3] = h3 /\ F[4] = h4 /\ F[5] = e /\ F[6 + ny] = e
  <2>1. \A k \in {1, 2, 3, 4, 5, 6 + ny} : k \in 1 .. 6 + ny
    BY <1>8
  <2> QED BY <1>13, <1>21, <2>1
<1>23. \A i \in 1 .. ny : F[5 + i] = Y0[i]
  <2>1. \A i \in 1 .. ny : 5 + i \in 1 .. 6 + ny
    BY <1>8
  <2> QED BY <1>13, <1>21, <2>1
<1>24. \A i \in 1 .. nu : F[6 + ny + i] = U0[i]
  <2>1. \A i \in 1 .. nu : 6 + ny + i \in 1 .. 7 + ny + nu + nb
    BY <1>8
  <2> QED BY <1>15, <1>20, <2>1
<1>25. \A i \in 1 .. nb : F[6 + ny + nu + i] = B0[i]
  <2>1. \A i \in 1 .. nb : 6 + ny + nu + i \in 1 .. 7 + ny + nu + nb
    BY <1>8
  <2> QED BY <1>15, <1>20, <2>1
<1>26. F[7 + ny + nu + nb] = e
  <2>1. 7 + ny + nu + nb \in 1 .. 7 + ny + nu + nb
    BY <1>8
  <2> QED BY <1>15, <1>20, <2>1
<1>27. \A i \in 1 .. nd : F[7 + ny + nu + nb + i] = D0[i]
  <2>1. \A i \in 1 .. nd : 7 + ny + nu + nb + i \in 1 .. 8 + ny + nu + nb + nd
    BY <1>8
  <2> QED BY <1>17, <1>19, <2>1
<1>28. F[8 + ny + nu + nb + nd] = e
  <2>1. 8 + ny + nu + nb + nd \in 1 .. 8 + ny + nu + nb + nd
    BY <1>8
  <2> QED BY <1>17, <1>19, <2>1
<1>29. HeadLaid(m, F)
  BY <1>22 DEF HeadLaid, h1, h2, h3, h4
<1>30. TextLaid(m, F)
  BY <1>19, <1>22, <1>23, <1>24, <1>25, <1>26, <1>27, <1>28, <1>29
     DEF TextLaid, SecondEnd, ThirdEnd, FourthEnd, ny, nu, nb, nd, Y0, U0, B0, D0, W, e
<1> QED BY <1>1, <1>19, <1>30

(* A file of lines that begins with n lines of the text and has at most a  *)
(* part of another line behind them.                                       *)
BeginsAs(t, c, n) ==
  /\ Len(c) \in Nat /\ n \in 0 .. Len(t) /\ n <= Len(c) /\ \E S : c \in Seq(S)
  /\ \A i \in 1 .. n : c[i] = t[i]
  /\ \A i \in n + 1 .. Len(c) : c[i] # Model!Empty

LEMMA CutIs ==
  ASSUME NEW R, NEW t \in Seq(R), NEW n \in 0 .. Len(t), NEW b \in BOOLEAN
  PROVE  LET c == Model!Cut(t, n, b)
         IN  /\ BeginsAs(t, c, n)
             /\ Len(c) = IF b /\ n < Len(t) THEN n + 1 ELSE n
<1> DEFINE s == SubSeq(t, 1, n)
           x == Model!Broken(t[n + 1])
           c == Model!Cut(t, n, b)
           S == R \cup {x}
<1>1. x # Model!Empty
  <2> DEFINE e == Model!Empty
  <2>1. e = [kind |-> "empty"]
    BY DEF Model!Empty
  <2>2. x = [kind |-> "weight", value |-> 0] \/ x = [kind |-> "part"]
    BY DEF Model!Broken, Model!Weight
  <2> HIDE DEF x, e
  <2>3. x.kind # e.kind
    BY <2>1, <2>2
  <2> QED BY <2>3 DEF e
<1>2. Len(t) \in Nat
  OBVIOUS
<1> HIDE DEF x
<1>3. /\ s \in Seq(S) /\ Len(s) = n /\ \A i \in 1 .. n : s[i] = t[i]
  <2>1. \A i \in 1 .. n : i \in 1 .. Len(t)
    BY <1>2
  <2>2. t \in Seq(S)
    OBVIOUS
  <2> HIDE DEF S
  <2> QED BY <1>2, <2>1, <2>2
<1> HIDE DEF s
<1>4. CASE b /\ n < Len(t)
  <2>1. c = s \o <<x>>
    BY <1>4 DEF Model!Cut, s, x
  <2>2. <<x>> \in Seq(S) /\ Len(<<x>>) = 1 /\ <<x>>[1] = x
    OBVIOUS
  <2> DEFINE y == <<x>>
  <2> HIDE DEF c, S, y
  <2>3. Spliced(S, s, y)
    BY <1>3, <2>2, SplicedIs DEF y
  <2>4. /\ c \in Seq(S) /\ Len(c) = n + 1 /\ \A i \in 1 .. n : c[i] = s[i]
        /\ c[n + 1] = x
    <3>1. c = s \o y /\ Len(y) = 1 /\ y[1] = x
      BY <2>1, <2>2 DEF y
    <3>2. /\ c \in Seq(S) /\ Len(c) = Len(s) + Len(y)
          /\ \A i \in 1 .. Len(s) : c[i] = s[i]
          /\ \A i \in 1 .. Len(y) : c[Len(s) + i] = y[i]
      BY <2>3, <3>1 DEF Spliced
    <3> QED BY <1>3, <3>1, <3>2
  <2>5. \A i \in n + 1 .. Len(c) : i = n + 1
    BY <2>4
  <2>6. BeginsAs(t, c, n)
    <3>1. \A i \in n + 1 .. Len(c) : c[i] # Model!Empty
      BY <1>1, <2>4, <2>5
    <3>2. \E Q : c \in Seq(Q)
      BY <2>4
    <3>3. \A i \in 1 .. n : c[i] = t[i]
      BY <1>3, <2>4
    <3> QED BY <1>2, <2>4, <3>1, <3>2, <3>3 DEF BeginsAs
  <2> QED BY <1>4, <2>4, <2>6 DEF c
<1>5. CASE ~(b /\ n < Len(t))
  <2>1. c = s \o <<>>
    BY <1>5 DEF Model!Cut, s
  <2>2. s \o <<>> = s
    <3> HIDE DEF S
    <3> QED BY <1>3
  <2>3. c = s
    BY <2>1, <2>2
  <2> HIDE DEF c, S
  <2>4. (\E Q : c \in Seq(Q)) /\ Len(c) = n
    BY <1>3, <2>3
  <2>5. BeginsAs(t, c, n)
    <3>1. \A i \in n + 1 .. Len(c) : FALSE
      BY <2>4
    <3>2. \A i \in 1 .. n : c[i] = t[i]
      BY <1>3, <2>3
    <3> QED BY <1>2, <2>4, <3>1, <3>2 DEF BeginsAs
  <2> QED BY <1>5, <2>4, <2>5 DEF c
<1> QED BY <1>4, <1>5

LEMMA SelfBegins ==
  ASSUME NEW R, NEW t \in Seq(R)
  PROVE  BeginsAs(t, t, Len(t))
<1>1. \E Q : t \in Seq(Q)
  OBVIOUS
<1> QED BY <1>1 DEF BeginsAs

(* Where the empty lines of the text are.                                  *)
Ends(m) == {5, SecondEnd(m), ThirdEnd(m), FourthEnd(m)}

LEMMA EndsInOrder ==
  ASSUME NEW m, GoodModel(m)
  PROVE  /\ SecondEnd(m) \in Nat /\ ThirdEnd(m) \in Nat /\ FourthEnd(m) \in Nat
         /\ 5 < SecondEnd(m) /\ SecondEnd(m) < ThirdEnd(m) /\ ThirdEnd(m) < FourthEnd(m)
<1> DEFINE ny == Len(m.y)
           nu == Len(m.uni)
           nb == Len(m.bi)
           nd == Len(m.dic)
<1>1. ny \in Nat /\ nu \in Nat /\ nb \in Nat /\ nd \in Nat
  BY LengthsAre
<1>2. SecondEnd(m) = 6 + ny /\ ThirdEnd(m) = 7 + ny + nu + nb /\ FourthEnd(m) = 8 + ny + nu + nb + nd
  BY DEF SecondEnd, ThirdEnd, FourthEnd
<1> HIDE DEF ny, nu, nb, nd
<1> QED BY <1>1, <1>2

LEMMA EmptiesOfText ==
  ASSUME NEW m, GoodModel(m), NEW t, TextLaid(m, t), NEW i \in 1 .. Len(t)
  PROVE  t[i] = Model!Empty <=> i \in Ends(m)
<1> DEFINE e == Model!Empty
           ny == Len(m.y)
           nu == Len(m.uni)
           nb == Len(m.bi)
           nd == Len(m.dic)
<1>1. ny \in Nat /\ nu \in Nat /\ nb \in Nat /\ nd \in Nat /\ m.maxid \in Nat
  BY LengthsAre
<1>2. e.kind = "empty"
  BY DEF Model!Empty
<1>3. i \in Ends(m) => t[i] = e
  BY DEF TextLaid, Ends
<1>4. ASSUME i \notin Ends(m) PROVE t[i].kind # "empty"
  <2>1. /\ i # 5 /\ i # 6 + ny /\ i # 7 + ny + nu + nb /\ i # 8 + ny + nu + nb + nd
        /\ i \in 1 .. 8 + ny + nu + nb + nd + m.maxid
    BY <1>4 DEF Ends, SecondEnd, ThirdEnd, FourthEnd, TextLaid
  <2> HIDE DEF ny, nu, nb, nd
  <2>2. \/ i \in 1 .. 4 \/ i - 5 \in 1 .. ny \/ i - (6 + ny) \in 1 .. nu
        \/ i - (6 + ny + nu) \in 1 .. nb \/ i - (7 + ny + nu + nb) \in 1 .. nd
        \/ i - (8 + ny + nu + nb + nd) \in 1 .. m.maxid
    BY <1>1, <2>1
  <2>3. CASE i \in 1 .. 4
    <3>1. HeadLaid(m, t)
      BY DEF TextLaid
    <3>2. \A n, v : Model!HeadLine(n, v).kind = "head"
      BY DEF Model!HeadLine
    <3>3. i \in {1, 2, 3, 4}
      BY <2>3
    <3> QED BY <3>1, <3>2, <3>3 DEF HeadLaid
  <2>4. CASE i - 5 \in 1 .. ny
    <3> DEFINE k == i - 5
    <3>1. k \in 1 .. ny /\ 5 + k = i
      BY <2>1, <2>4
    <3> HIDE DEF k
    <3>2. t[i] = m.y[k]
      BY <3>1 DEF TextLaid, ny
    <3>3. m.y[k].kind = "tag"
      BY <3>1, LengthsAre DEF GoodModel, ny
    <3> QED BY <3>2, <3>3
  <2>5. CASE i - (6 + ny) \in 1 .. nu
    <3> DEFINE k == i - (6 + ny)
    <3>1. k \in 1 .. nu /\ 6 + ny + k = i
      BY <1>1, <2>1, <2>5
    <3> HIDE DEF k
    <3>2. t[i] = m.uni[k]
      BY <3>1 DEF TextLaid, ny, nu, SecondEnd
    <3>3. m.uni[k].kind = "U"
      BY <3>1, LengthsAre DEF GoodModel, nu
    <3> QED BY <3>2, <3>3
  <2>6. CASE i - (6 + ny + nu) \in 1 .. nb
    <3> DEFINE k == i - (6 + ny + nu)
    <3>1. k \in 1 .. nb /\ 6 + ny + nu + k = i
      BY <1>1, <2>1, <2>6
    <3> HIDE DEF k
    <3>2. t[i] = m.bi[k]
      BY <3>1 DEF TextLaid, ny, nu, nb, SecondEnd
    <3>3. m.bi[k].kind = "B"
      BY <3>1, LengthsAre DEF GoodModel, nb
    <3> QED BY <3>2, <3>3
  <2>7. CASE i - (7 + ny + nu + nb) \in 1 .. nd
    <3> DEFINE k == i - (7 + ny + nu + nb)
    <3>1. k \in 1 .. nd /\ 7 + ny + nu + nb + k = i
      BY <1>1, <2>1, <2>7
    <3> HIDE DEF k
    <3>2. t[i] = m.dic[k]
      BY <3>1 DEF TextLaid, ny, nu, nb, nd, ThirdEnd
    <3>3. m.dic[k].kind = "key"
      <4>1. k \in DOMAIN m.dic
        BY <3>1, LengthsAre DEF nd
      <4>2. m.dic[k] = [kind |-> "key", id |-> m.dic[k].id,
                        key |-> [name |-> m.dic[k].key.name, spaced |-> m.dic[k].key.spaced]]
        BY <4>1 DEF GoodModel
      <4> DEFINE x == m.dic[k]
      <4>3. \E u, v : x = [kind |-> "key", id |-> u, key |-> v]
        BY <4>2
      <4> HIDE DEF x
      <4>4. x.kind = "key"
        BY <4>3
      <4> QED BY <4>4 DEF x
    <3> QED BY <3>2, <3>3
  <2>8. CASE i - (8 + ny + nu + nb + nd) \in 1 .. m.maxid
    <3> DEFINE k == i - (8 + ny + nu + nb + nd)
    <3>1. k \in 1 .. m.maxid /\ 8 + ny + nu + nb + nd + k = i
      BY <1>1, <2>1, <2>8
    <3> HIDE DEF k
    <3>2. t[i] = Model!Weight(Model!Decimals(m.alpha[k]))
      BY <3>1 DEF TextLaid, ny, nu, nb, nd, FourthEnd
    <3>3. \A w : Model!Weight(w).kind = "weight"
      BY DEF Model!Weight
    <3> QED BY <3>2, <3>3
  <2> QED BY <2>2, <2>3, <2>4, <2>5, <2>6, <2>7, <2>8
<1> HIDE DEF e
<1>5. i \notin Ends(m) => t[i] # e
  BY <1>2, <1>4
<1> QED BY <1>3, <1>5 DEF e

LEMMA EmptiesAre ==
  ASSUME NEW m, GoodModel(m), NEW t, TextLaid(m, t), NEW c, NEW n, BeginsAs(t, c, n)
  PROVE  Model!Empties(c) = {i \in Ends(m) : i <= n}
<1>1. /\ Len(c) \in Nat /\ n \in 0 .. Len(t) /\ n <= Len(c)
      /\ \A i \in 1 .. n : c[i] = t[i]
      /\ \A i \in n + 1 .. Len(c) : c[i] # Model!Empty
  BY DEF BeginsAs
<1>2. Len(t) \in Nat /\ Ends(m) \subseteq 1 .. Len(t)
  <2>1. Len(t) = FourthEnd(m) + m.maxid
    BY DEF TextLaid
  <2>2. m.maxid \in Nat
    BY LengthsAre
  <2> QED BY <2>1, <2>2, EndsInOrder DEF Ends
<1>3. ASSUME NEW i, i \in Model!Empties(c) PROVE i \in Ends(m) /\ i <= n
  <2>1. i \in 1 .. Len(c) /\ c[i] = Model!Empty
    BY <1>3 DEF Model!Empties
  <2>2. i \in 1 .. n
    BY <1>1, <2>1
  <2>3. i \in 1 .. Len(t) /\ t[i] = Model!Empty
    BY <1>1, <1>2, <2>1, <2>2
  <2> QED BY <1>1, <2>2, <2>3, EmptiesOfText
<1>4. ASSUME NEW i \in Ends(m), i <= n PROVE i \in Model!Empties(c)
  <2>1. i \in 1 .. n /\ i \in 1 .. Len(t) /\ i \in 1 .. Len(c)
    BY <1>1, <1>2, <1>4
  <2>2. t[i] = Model!Empty
    BY <1>4, <2>1, EmptiesOfText
  <2> QED BY <1>1, <2>1, <2>2 DEF Model!Empties
<1> QED BY <1>3, <1>4

(* The four of them in order.                                              *)
LEMMA EndsAre ==
  ASSUME NEW m, GoodModel(m)
  PROVE  /\ Cardinality(Ends(m)) = 4 /\ IsFiniteSet(Ends(m))
         /\ DA!Nth(Ends(m), 1) = 5 /\ DA!Nth(Ends(m), 2) = SecondEnd(m)
         /\ DA!Nth(Ends(m), 3) = ThirdEnd(m) /\ DA!Nth(Ends(m), 4) = FourthEnd(m)
<1> DEFINE a == SecondEnd(m)
           b == ThirdEnd(m)
           d == FourthEnd(m)
           P0 == {}
           P1 == P0 \cup {5}
           P2 == P1 \cup {a}
           P3 == P2 \cup {b}
           P4 == P3 \cup {d}
<1>1. a \in Nat /\ b \in Nat /\ d \in Nat /\ 5 < a /\ a < b /\ b < d
  BY EndsInOrder
<1>2. P4 = Ends(m)
  BY DEF Ends
<1> HIDE DEF a, b, d
<1>3. /\ P0 \subseteq 0 .. d /\ P1 \subseteq 0 .. d /\ P2 \subseteq 0 .. d /\ P3 \subseteq 0 .. d
      /\ P4 \subseteq 0 .. d
      /\ 5 \in 0 .. d /\ a \in 0 .. d /\ b \in 0 .. d /\ d \in 0 .. d
  BY <1>1
<1>4. (\A j \in P0 : j < 5) /\ (\A j \in P1 : j < a) /\ (\A j \in P2 : j < b) /\ (\A j \in P3 : j < d)
  BY <1>1
<1>5. Cardinality(P0) = 0
  BY FS_EmptySet
<1>6. IsFiniteSet(P4)
  BY <1>1, <1>3, ThroughFinite
<1> HIDE DEF P0, P1, P2, P3, P4
<1>7. OneMore(P0, P0 \cup {5}, 5)
  BY <1>1, <1>3, <1>4, NthNext
<1>8. OneMore(P1, P1 \cup {a}, a)
  BY <1>1, <1>3, <1>4, NthNext
<1>9. OneMore(P2, P2 \cup {b}, b)
  BY <1>1, <1>3, <1>4, NthNext
<1>10. OneMore(P3, P3 \cup {d}, d)
  BY <1>1, <1>3, <1>4, NthNext
<1>11. Cardinality(P1) = 1 /\ DA!Nth(P1, 1) = 5
  <2>1. P0 \cup {5} = P1
    BY DEF P1
  <2> QED BY <1>5, <1>7, <2>1 DEF OneMore
<1>12. Cardinality(P2) = 2 /\ DA!Nth(P2, 1) = 5 /\ DA!Nth(P2, 2) = a
  <2>1. P1 \cup {a} = P2
    BY DEF P2
  <2>2. 1 \in 1 .. 1
    OBVIOUS
  <2> QED BY <1>8, <1>11, <2>1, <2>2 DEF OneMore
<1>13. Cardinality(P3) = 3 /\ DA!Nth(P3, 1) = 5 /\ DA!Nth(P3, 2) = a /\ DA!Nth(P3, 3) = b
  <2>1. P2 \cup {b} = P3
    BY DEF P3
  <2>2. 1 \in 1 .. 2 /\ 2 \in 1 .. 2
    OBVIOUS
  <2> QED BY <1>9, <1>12, <2>1, <2>2 DEF OneMore
<1>14. /\ Cardinality(P4) = 4 /\ DA!Nth(P4, 1) = 5 /\ DA!Nth(P4, 2) = a /\ DA!Nth(P4, 3) = b
       /\ DA!Nth(P4, 4) = d
  <2>1. P3 \cup {d} = P4
    BY DEF P4
  <2>2. 1 \in 1 .. 3 /\ 2 \in 1 .. 3 /\ 3 \in 1 .. 3
    OBVIOUS
  <2> QED BY <1>10, <1>13, <2>1, <2>2 DEF OneMore
<1> QED BY <1>2, <1>6, <1>14 DEF a, b, d

LEMMA ModelPlaces ==
  /\ \A S : Model!Cardinality(S) = Cardinality(S)
  /\ \A P, n : Model!Nth(P, n) = DA!Nth(P, n)
  /\ \A s, P : Model!Pick(s, P) = [n \in 1 .. Cardinality(P) |-> s[DA!Nth(P, n)]]
<1>1. \A S : Model!Cardinality(S) = Cardinality(S)
  BY DEF Model!Cardinality, Cardinality
<1>2. \A P, n : Model!Nth(P, n) = DA!Nth(P, n)
  BY <1>1, SameCount DEF Model!Nth, DA!Nth
<1>3. \A s, P : Model!Pick(s, P) = [n \in 1 .. Cardinality(P) |-> s[DA!Nth(P, n)]]
  BY <1>1, <1>2 DEF Model!Pick
<1> QED BY <1>1, <1>2, <1>3

LEMMA TooShort ==
  ASSUME NEW m, GoodModel(m), NEW t, TextLaid(m, t), NEW c, NEW n, BeginsAs(t, c, n),
         n < FourthEnd(m)
  PROVE  ~Model!Converts(c)
<1> DEFINE E == Model!Empties(c)
           P == Ends(m) \ {FourthEnd(m)}
<1>1. E = {i \in Ends(m) : i <= n}
  BY EmptiesAre
<1>2. n \in Int /\ FourthEnd(m) \in Int /\ ~(FourthEnd(m) <= n)
  BY EndsInOrder DEF BeginsAs
<1>3. E \subseteq P
  BY <1>1, <1>2
<1>4. IsFiniteSet(P) /\ Cardinality(P) = 3
  <2>1. FourthEnd(m) \in Ends(m) /\ IsFiniteSet(Ends(m)) /\ Cardinality(Ends(m)) = 4
    BY EndsAre DEF Ends
  <2>2. IsFiniteSet(P) /\ Cardinality(P) = Cardinality(Ends(m)) - 1
    BY <2>1, FS_RemoveElement
  <2> QED BY <2>1, <2>2
<1> HIDE DEF E, P
<1>5. IsFiniteSet(E) /\ Cardinality(E) <= Cardinality(P)
  BY <1>3, <1>4, FS_Subset
<1>6. Cardinality(E) \in Nat
  BY <1>5, FS_CardinalityType
<1>7. ~(Cardinality(E) >= 4)
  BY <1>4, <1>5, <1>6
<1> QED BY <1>7, ModelPlaces DEF Model!Converts, E

(* What is read of a text that has all four sections.                      *)
LEMMA SectionsAre ==
  ASSUME NEW m, GoodModel(m), NEW t, TextLaid(m, t), NEW c, NEW n, BeginsAs(t, c, n),
         FourthEnd(m) <= n
  PROVE  /\ Model!Cardinality(Model!Empties(c)) = 4
         /\ Model!EmptyAt(c, 1) = 5 /\ Model!EmptyAt(c, 2) = SecondEnd(m)
         /\ Model!EmptyAt(c, 3) = ThirdEnd(m) /\ Model!EmptyAt(c, 4) = FourthEnd(m)
<1>1. /\ 5 <= n /\ SecondEnd(m) <= n /\ ThirdEnd(m) <= n
  <2>1. n \in Int
    BY DEF BeginsAs
  <2> QED BY <2>1, EndsInOrder
<1>2. Model!Empties(c) = Ends(m)
  <2>1. \A i \in Ends(m) : i <= n
    BY <1>1 DEF Ends
  <2> QED BY <2>1, EmptiesAre
<1> QED BY <1>2, EndsAre, ModelPlaces DEF Model!EmptyAt

LEMMA OneNamed ==
  ASSUME NEW S, NEW i \in Int, S = {i}
  PROVE  Model!Max(S) = i
BY DEF Model!Max

LEMMA HeadIs ==
  ASSUME NEW m, GoodModel(m), NEW t, TextLaid(m, t), NEW c, NEW n, BeginsAs(t, c, n),
         FourthEnd(m) <= n
  PROVE  Model!HeadValue(c, "maxid") = m.maxid /\ Model!HeadValue(c, "xsize") = m.xsize
<1> DEFINE In(name) == {i \in 1 .. 4 : c[i].kind = "head" /\ c[i].name = name}
<1>1. Model!EmptyAt(c, 1) - 1 = 4
  BY SectionsAre
<1>2. \A name : Model!HeadValue(c, name) = IF In(name) = {} THEN 0 ELSE c[Model!Max(In(name))].value
  BY <1>1 DEF Model!HeadValue
<1>3. \A i \in 1 .. 4 : c[i] = t[i]
  <2>1. 4 <= n /\ n \in Int
    <3>1. n \in Int
      BY DEF BeginsAs
    <3> QED BY <3>1, EndsInOrder
  <2>2. \A i \in 1 .. 4 : i \in 1 .. n
    BY <2>1
  <2> QED BY <2>2 DEF BeginsAs
<1>4. HeadLaid(m, t)
  BY DEF TextLaid
<1>5. /\ c[1] = Model!HeadLine("version", Model!Version) /\ c[2] = Model!HeadLine("cost-factor", 1)
      /\ c[3] = Model!HeadLine("maxid", m.maxid) /\ c[4] = Model!HeadLine("xsize", m.xsize)
  BY <1>3, <1>4 DEF HeadLaid
<1>6. /\ \A i \in 1 .. 4 : c[i].kind = "head"
      /\ c[1].name = "version" /\ c[2].name = "cost-factor" /\ c[3].name = "maxid" /\ c[4].name = "xsize"
      /\ c[3].value = m.maxid /\ c[4].value = m.xsize
  <2>1. \A k, v : /\ Model!HeadLine(k, v).kind = "head" /\ Model!HeadLine(k, v).name = k
                  /\ Model!HeadLine(k, v).value = v
    BY DEF Model!HeadLine
  <2>2. 1 .. 4 = {1, 2, 3, 4}
    OBVIOUS
  <2> QED BY <1>5, <2>1, <2>2
<1>7. In("maxid") = {3} /\ In("xsize") = {4}
  <2>1. 1 .. 4 = {1, 2, 3, 4}
    OBVIOUS
  <2> QED BY <1>6, <2>1
<1> HIDE DEF In
<1>8. Model!Max(In("maxid")) = 3 /\ Model!Max(In("xsize")) = 4
  BY <1>7, OneNamed
<1> QED BY <1>2, <1>6, <1>7, <1>8

LEMMA SliceIs ==
  ASSUME NEW S, NEW c \in Seq(S), NEW a \in Nat, NEW b \in Nat, a <= b, b <= Len(c)
  PROVE  /\ SubSeq(c, a + 1, b) \in Seq(S) /\ Len(SubSeq(c, a + 1, b)) = b - a
         /\ \A i \in 1 .. b - a : SubSeq(c, a + 1, b)[i] = c[a + i]
<1>1. \A i \in a + 1 .. b : i \in 1 .. Len(c)
  OBVIOUS
<1>2. \A i \in 1 .. b - a : (a + 1) + i - 1 = a + i
  OBVIOUS
<1> QED BY <1>1, <1>2

LEMMA NumbersAre ==
  ASSUME NEW m, GoodModel(m), NEW t, TextLaid(m, t), NEW c, NEW n, BeginsAs(t, c, n),
         FourthEnd(m) <= n
  PROVE  /\ Len(Model!Numbers(c)) = Len(c) - FourthEnd(m)
         /\ \A i \in 1 .. Len(c) - FourthEnd(m) : Model!Numbers(c)[i] = c[FourthEnd(m) + i]
<1> DEFINE e == FourthEnd(m)
<1>1. Model!Numbers(c) = SubSeq(c, e + 1, Len(c))
  BY SectionsAre DEF Model!Numbers
<1>2. e \in Nat /\ Len(c) \in Nat /\ e <= Len(c) /\ \E S : c \in Seq(S)
  <2>1. n \in Int /\ n <= Len(c) /\ Len(c) \in Nat /\ \E S : c \in Seq(S)
    BY DEF BeginsAs
  <2> QED BY <2>1, EndsInOrder
<1> HIDE DEF e
<1>3. /\ Len(SubSeq(c, e + 1, Len(c))) = Len(c) - e
      /\ \A i \in 1 .. Len(c) - e : SubSeq(c, e + 1, Len(c))[i] = c[e + i]
  <2>1. PICK S : c \in Seq(S)
    BY <1>2
  <2> QED BY <1>2, <2>1, SliceIs
<1> QED BY <1>1, <1>3 DEF e

(* A text cut anywhere but inside its last number does not convert.        *)
CutRefusedIn(m, t) ==
  \A n \in 0 .. Len(t) : \A b \in BOOLEAN :
    Model!Converts(Model!Cut(t, n, b)) => n = Len(t) \/ (n = Len(t) - 1 /\ b)

LEMMA CutRefused ==
  ASSUME NEW m, GoodModel(m), NEW R, NEW t \in Seq(R), TextLaid(m, t)
  PROVE  CutRefusedIn(m, t)
<1> SUFFICES ASSUME NEW n \in 0 .. Len(t), NEW b \in BOOLEAN, Model!Converts(Model!Cut(t, n, b))
             PROVE  n = Len(t) \/ (n = Len(t) - 1 /\ b)
  BY DEF CutRefusedIn
<1> DEFINE c == Model!Cut(t, n, b)
<1>1. BeginsAs(t, c, n) /\ Len(c) = IF b /\ n < Len(t) THEN n + 1 ELSE n
  BY CutIs
<1>2. Model!Converts(c)
  OBVIOUS
<1>3. Len(t) = FourthEnd(m) + m.maxid
  BY DEF TextLaid
<1>4. FourthEnd(m) \in Nat /\ m.maxid \in Nat
  BY EndsInOrder, LengthsAre
<1> HIDE DEF c
<1>5. FourthEnd(m) <= n
  <2>1. ~(n < FourthEnd(m))
    BY <1>1, <1>2, TooShort
  <2> QED BY <1>4, <2>1
<1>6. Len(c) - FourthEnd(m) = m.maxid
  BY <1>1, <1>2, <1>5, HeadIs, NumbersAre DEF Model!Converts
<1>7. Len(c) \in Nat
  BY <1>1 DEF BeginsAs
<1> QED BY <1>1, <1>3, <1>4, <1>6, <1>7

(* The places of a run of numbers.                                         *)
LEMMA RunIs ==
  ASSUME NEW a \in Nat, NEW b \in Nat, a <= b
  PROVE  /\ Cardinality(a + 1 .. b) = b - a
         /\ \A k \in 1 .. b - a : DA!Nth(a + 1 .. b, k) = a + k
<1>1. \A d \in a .. b : Cardinality(a + 1 .. d) = d - a
  <2> TAKE d \in a .. b
  <2>1. Cardinality(a + 1 .. d) = IF a + 1 > d THEN 0 ELSE d - (a + 1) + 1
    BY FS_Interval
  <2> QED BY <2>1
<1>2. ASSUME NEW k \in 1 .. b - a PROVE DA!Nth(a + 1 .. b, k) = a + k
  <2> DEFINE T == a + 1 .. b
             c == a + k
  <2>1. c \in T /\ T \subseteq 0 .. b /\ c \in a .. b /\ c - a = k
    OBVIOUS
  <2>2. Through(T, c) = a + 1 .. c
    BY <2>1 DEF Through
  <2>3. Cardinality(Through(T, c)) = k
    BY <1>1, <2>1, <2>2
  <2> HIDE DEF T, c
  <2>4. DA!Nth(T, Cardinality(Through(T, c))) = c
    BY <2>1, NthOnly
  <2>5. DA!Nth(T, k) = c
    BY <2>3, <2>4
  <2> QED BY <2>5 DEF T, c
<1>3. b \in a .. b
  OBVIOUS
<1> QED BY <1>1, <1>2, <1>3

LiesIn(s, a, b, r) == Len(r) = b - a /\ \A k \in 1 .. b - a : s[a + k] = r[k]

LEMMA PicksRun ==
  ASSUME NEW s, NEW a \in Nat, NEW b \in Nat, a <= b, NEW P, P = a + 1 .. b,
         NEW S, NEW r \in Seq(S), LiesIn(s, a, b, r)
  PROVE  Model!Pick(s, P) = r
<1>0. Len(r) = b - a /\ \A k \in 1 .. b - a : s[a + k] = r[k]
  BY DEF LiesIn
<1>1. Model!Pick(s, P) = [n \in 1 .. b - a |-> s[DA!Nth(P, n)]]
  BY RunIs, ModelPlaces
<1>2. \A n \in 1 .. b - a : s[DA!Nth(P, n)] = r[n]
  BY <1>0, RunIs
<1>3. Model!Pick(s, P) = [n \in 1 .. b - a |-> r[n]]
  BY <1>1, <1>2
<1> QED BY <1>0, <1>3

(* A section is what was written, between two empty lines.                 *)
LEMMA SectionIs ==
  ASSUME NEW R, NEW t \in Seq(R), NEW a \in Nat, NEW b \in Nat, a <= b, b <= Len(t),
         NEW S, NEW r \in Seq(S), LiesIn(t, a, b, r)
  PROVE  SubSeq(t, a + 1, b) = r
<1> DEFINE s == SubSeq(t, a + 1, b)
<1>1. s \in Seq(R) /\ Len(s) = b - a /\ \A k \in 1 .. b - a : s[k] = t[a + k]
  BY SliceIs
<1> HIDE DEF s
<1>2. s \in Seq(R \cup S) /\ r \in Seq(R \cup S)
  <2>1. R \subseteq R \cup S /\ S \subseteq R \cup S
    OBVIOUS
  <2> QED BY <1>1, <2>1
<1>3. s = r
  <2>1. Len(r) = b - a /\ \A k \in 1 .. b - a : t[a + k] = r[k]
    BY DEF LiesIn
  <2>2. Len(s) = Len(r) /\ \A k \in 1 .. Len(s) : s[k] = r[k]
    BY <1>1, <2>1
  <2> QED BY <1>2, <2>2, SameWord
<1> QED BY <1>3 DEF s

LEMMA SectionAt ==
  ASSUME NEW R, NEW t \in Seq(R), NEW a \in Nat, NEW b \in Nat, a + 1 <= b, b <= Len(t),
         NEW k \in {2, 3, 4}, Model!EmptyAt(t, k - 1) = a, Model!EmptyAt(t, k) = b,
         NEW S, NEW r \in Seq(S), LiesIn(t, a, b - 1, r)
  PROVE  Model!Section(t, k) = r
<1>1. Model!Section(t, k) = SubSeq(t, a + 1, b - 1)
  BY DEF Model!Section
<1>2. b - 1 \in Nat /\ a <= b - 1 /\ b - 1 <= Len(t)
  OBVIOUS
<1> QED BY <1>1, <1>2, SectionIs

LEMMA TemplatesSplit ==
  ASSUME NEW m, GoodModel(m), NEW s, Len(s) = Len(m.uni) + Len(m.bi),
         \A i \in 1 .. Len(m.uni) : s[i] = m.uni[i],
         \A i \in 1 .. Len(m.bi) : s[Len(m.uni) + i] = m.bi[i]
  PROVE  Model!OfKind(s, "U") = m.uni /\ Model!OfKind(s, "B") = m.bi
<1> DEFINE nu == Len(m.uni)
           nb == Len(m.bi)
           U == {i \in 1 .. Len(s) : s[i].kind = "U"}
           B == {i \in 1 .. Len(s) : s[i].kind = "B"}
<1>1. nu \in Nat /\ nb \in Nat
  BY LengthsAre
<1>2. \A i \in 1 .. nu : s[i].kind = "U"
  BY LengthsAre DEF GoodModel
<1>3. \A i \in 1 .. nb : s[nu + i].kind = "B"
  <2>1. \A i \in 1 .. nb : s[nu + i] = m.bi[i]
    OBVIOUS
  <2>2. \A i \in 1 .. nb : m.bi[i].kind = "B"
    BY LengthsAre DEF GoodModel
  <2> HIDE DEF nu, nb
  <2> QED BY <2>1, <2>2
<1>4. \A i \in 1 .. nu : s[0 + i] = m.uni[i]
  <2> TAKE i \in 1 .. nu
  <2>1. 0 + i = i
    BY <1>1
  <2>2. s[i] = m.uni[i]
    OBVIOUS
  <2> QED BY <2>1, <2>2
<1>5. \A i \in 1 .. nb : s[nu + i] = m.bi[i]
  OBVIOUS
<1>6. Len(s) = nu + nb
  OBVIOUS
<1>a. m.uni \in Seq({m.uni[i] : i \in DOMAIN m.uni}) /\ m.bi \in Seq({m.bi[i] : i \in DOMAIN m.bi})
  BY DEF GoodModel
<1>b. Len(m.uni) = nu /\ Len(m.bi) = nb
  OBVIOUS
<1> HIDE DEF nu, nb
<1>7. \A i \in 1 .. nu + nb : i \in 1 .. nu \/ (i \in nu + 1 .. nu + nb /\ s[i].kind = "B")
  <2> TAKE i \in 1 .. nu + nb
  <2> DEFINE k == i - nu
  <2>1. i \in 1 .. nu \/ (k \in 1 .. nb /\ nu + k = i /\ i \in nu + 1 .. nu + nb)
    BY <1>1
  <2> HIDE DEF k
  <2>2. CASE k \in 1 .. nb /\ nu + k = i /\ i \in nu + 1 .. nu + nb
    <3>1. s[nu + k].kind = "B"
      BY <1>3, <2>2
    <3> QED BY <2>2, <3>1
  <2> QED BY <2>1, <2>2
<1>8. U = 0 + 1 .. nu
  <2>1. \A i \in 1 .. nu : i \in 1 .. nu + nb
    BY <1>1
  <2>2. \A i \in 1 .. nu + nb : s[i].kind = "U" <=> i \in 1 .. nu
    BY <1>2, <1>7
  <2>3. 0 + 1 = 1
    OBVIOUS
  <2> QED BY <1>6, <2>1, <2>2, <2>3
<1>9. B = nu + 1 .. nu + nb
  <2>1. \A i \in nu + 1 .. nu + nb : i \in 1 .. nu + nb /\ i \notin 1 .. nu
    BY <1>1
  <2>2. \A i \in 1 .. nu + nb : s[i].kind = "B" <=> i \in nu + 1 .. nu + nb
    BY <1>2, <1>7, <2>1
  <2> QED BY <1>6, <2>1, <2>2
<1> HIDE DEF U, B
<1>10. Model!Pick(s, U) = m.uni
  <2>1. nu - 0 = nu /\ 0 <= nu /\ 0 \in Nat
    BY <1>1
  <2>2. Len(m.uni) = nu - 0 /\ \A k \in 1 .. nu - 0 : s[0 + k] = m.uni[k]
    BY <1>4, <1>b, <2>1
  <2>3. LiesIn(s, 0, nu, m.uni)
    BY <2>2 DEF LiesIn
  <2> QED BY <1>1, <1>8, <1>a, <2>1, <2>3, PicksRun
<1>11. Model!Pick(s, B) = m.bi
  <2>1. (nu + nb) - nu = nb /\ nu <= nu + nb /\ nu + nb \in Nat
    BY <1>1
  <2>2. Len(m.bi) = (nu + nb) - nu /\ \A k \in 1 .. (nu + nb) - nu : s[nu + k] = m.bi[k]
    BY <1>5, <1>b, <2>1
  <2>3. LiesIn(s, nu, nu + nb, m.bi)
    BY <2>2 DEF LiesIn
  <2> QED BY <1>1, <1>9, <1>a, <2>1, <2>3, PicksRun
<1> QED BY <1>10, <1>11 DEF Model!OfKind, U, B

(* No key changes when none has a space.                                   *)
LEMMA KeysStay ==
  ASSUME NEW m, GoodModel(m), \A i \in DOMAIN m.dic : ~m.dic[i].key.spaced
  PROVE  Model!ReadKeys(m.dic) = m.dic
<1> DEFINE d == m.dic
           n == Len(d)
           entry(i) == [d[i] EXCEPT !.key = Model!UpToSpace(@)]
           cut == [i \in 1 .. n |-> entry(i)]
           P == {i \in 1 .. n : \A j \in 1 .. i - 1 : cut[j].key # cut[i].key}
<1>1. n \in Nat /\ DOMAIN d = 1 .. n /\ d \in Seq({d[i] : i \in DOMAIN d})
  BY LengthsAre DEF GoodModel
<1>2. ASSUME NEW i \in 1 .. n PROVE entry(i) = d[i]
  <2> DEFINE x == d[i]
             k == x.key
             a == x.id
             b == k.name
  <2>1. x = [kind |-> "key", id |-> a, key |-> [name |-> b, spaced |-> k.spaced]] /\ k.spaced = FALSE
    BY <1>1 DEF GoodModel
  <2>2. x = [kind |-> "key", id |-> a, key |-> [name |-> b, spaced |-> FALSE]]
    BY <2>1
  <2> HIDE DEF x, a, b
  <2>3. k = [name |-> b, spaced |-> FALSE]
    BY <2>2
  <2>4. Model!UpToSpace(k) = k
    <3>1. Model!UpToSpace(k) = [k EXCEPT !.spaced = FALSE]
      BY DEF Model!UpToSpace
    <3> HIDE DEF k
    <3> QED BY <2>3, <3>1
  <2>5. [x EXCEPT !.key = Model!UpToSpace(@)] = [x EXCEPT !.key = k]
    BY <2>4
  <2> HIDE DEF k
  <2>6. [x EXCEPT !.key = k] = x
    BY <2>2 DEF k
  <2> QED BY <2>5, <2>6 DEF x, k
<1> HIDE DEF entry
<1>3. \A i \in 1 .. n : cut[i] = d[i]
  BY <1>2
<1>4. \A i, j \in 1 .. n : d[i].key = d[j].key => i = j
  BY <1>1 DEF GoodModel
<1>5. Model!ReadKeys(d) = Model!Pick(cut, P)
  BY DEF Model!ReadKeys, entry
<1> HIDE DEF cut, d, n
<1>6. P = 0 + 1 .. n
  <2>1. ASSUME NEW i \in 1 .. n, NEW j \in 1 .. i - 1 PROVE cut[j].key # cut[i].key
    <3>1. j \in 1 .. n /\ j # i
      BY <1>1
    <3> QED BY <1>3, <1>4, <3>1
  <2> QED BY <1>1, <2>1
<1> HIDE DEF P
<1>7. Len(d) = n - 0 /\ 0 <= n /\ 0 \in Nat /\ \A k \in 1 .. n - 0 : cut[0 + k] = d[k]
  BY <1>1, <1>3 DEF n
<1>8. Model!Pick(cut, P) = d
  <2>1. 0 + 1 .. n = 0 + 1 .. n /\ n \in Nat /\ d \in Seq({d[i] : i \in DOMAIN d})
    BY <1>1 DEF n
  <2> HIDE DEF n
  <2>2. LiesIn(cut, 0, n, d)
    BY <1>7 DEF LiesIn
  <2> QED BY <1>6, <1>7, <2>1, <2>2, PicksRun
<1> QED BY <1>5, <1>8 DEF d

(* What convert makes of the whole text.                                   *)
LEMMA FromTextIs ==
  ASSUME NEW m, GoodModel(m), NEW R, NEW t \in Seq(R), TextLaid(m, t),
         \A i \in DOMAIN m.dic : ~m.dic[i].key.spaced
  PROVE  LET r == Model!FromText(t)
         IN  /\ r.y = m.y /\ r.uni = m.uni /\ r.bi = m.bi /\ r.dic = m.dic
             /\ r.maxid = m.maxid /\ r.xsize = m.xsize
             /\ \A i \in 1 .. m.maxid : r.alpha[i] = Model!Decimals(m.alpha[i])
<1> DEFINE ny == Len(m.y)
           nu == Len(m.uni)
           nb == Len(m.bi)
           nd == Len(m.dic)
           a == SecondEnd(m)
           b == ThirdEnd(m)
           d == FourthEnd(m)
           n == Len(t)
<1>1. ny \in Nat /\ nu \in Nat /\ nb \in Nat /\ nd \in Nat /\ m.maxid \in Nat
  BY LengthsAre
<1>2. a = 6 + ny /\ b = 7 + ny + nu + nb /\ d = 8 + ny + nu + nb + nd
  BY DEF SecondEnd, ThirdEnd, FourthEnd
<1>3. n = d + m.maxid
  BY DEF TextLaid
<1>4. BeginsAs(t, t, n)
  BY SelfBegins
<1> HIDE DEF ny, nu, nb, nd, a, b, d, n
<1>5. /\ a \in Nat /\ b \in Nat /\ d \in Nat /\ n \in Nat
      /\ 5 + 1 <= a /\ a + 1 <= b /\ b + 1 <= d /\ d <= n /\ a <= n /\ b <= n
  BY <1>1, <1>2, <1>3
<1>6. /\ Model!EmptyAt(t, 1) = 5 /\ Model!EmptyAt(t, 2) = a
      /\ Model!EmptyAt(t, 3) = b /\ Model!EmptyAt(t, 4) = d
  BY <1>4, <1>5, SectionsAre DEF a, b, d
<1>7. Model!HeadValue(t, "maxid") = m.maxid /\ Model!HeadValue(t, "xsize") = m.xsize
  BY <1>4, <1>5, HeadIs DEF d
<1>8. Len(Model!Numbers(t)) = m.maxid /\ \A i \in 1 .. m.maxid : Model!Numbers(t)[i] = t[d + i]
  <2>1. Len(t) - d = m.maxid
    BY <1>1, <1>3, <1>5 DEF n
  <2> QED BY <1>4, <1>5, <2>1, NumbersAre DEF d
<1>9. /\ \A i \in 1 .. ny : t[5 + i] = m.y[i]
      /\ \A i \in 1 .. nu : t[a + i] = m.uni[i]
      /\ \A i \in 1 .. nb : t[a + nu + i] = m.bi[i]
      /\ \A i \in 1 .. nd : t[b + i] = m.dic[i]
      /\ \A i \in 1 .. m.maxid : t[d + i] = Model!Weight(Model!Decimals(m.alpha[i]))
  BY DEF TextLaid, ny, nu, nb, nd, a, b, d
<1>10. m.y \in Seq({m.y[i] : i \in DOMAIN m.y}) /\ m.dic \in Seq({m.dic[i] : i \in DOMAIN m.dic})
  BY DEF GoodModel
<1>11. Model!Section(t, 2) = m.y
  <2>1. Len(m.y) = a - 1 - 5 /\ a - 1 - 5 = ny
    BY <1>1, <1>2 DEF ny
  <2>2. LiesIn(t, 5, a - 1, m.y)
    BY <1>9, <2>1 DEF LiesIn
  <2>3. 5 \in Nat /\ 2 \in {2, 3, 4} /\ 2 - 1 = 1 /\ a <= Len(t)
    BY <1>5 DEF n
  <2> QED BY <1>5, <1>6, <1>10, <2>2, <2>3, SectionAt
<1>12. Model!Section(t, 4) = m.dic
  <2>1. Len(m.dic) = d - 1 - b /\ d - 1 - b = nd
    <3>1. d - 1 - b = nd
      BY <1>1, <1>2
    <3>2. Len(m.dic) = nd
      BY DEF nd
    <3> QED BY <3>1, <3>2
  <2>2. LiesIn(t, b, d - 1, m.dic)
    BY <1>9, <2>1 DEF LiesIn
  <2>3. 4 \in {2, 3, 4} /\ 4 - 1 = 3 /\ d <= Len(t)
    BY <1>5 DEF n
  <2> QED BY <1>5, <1>6, <1>10, <2>2, <2>3, SectionAt
<1>13. Model!OfKind(Model!Section(t, 3), "U") = m.uni /\ Model!OfKind(Model!Section(t, 3), "B") = m.bi
  <2> DEFINE s == Model!Section(t, 3)
  <2>1. s = SubSeq(t, a + 1, b - 1)
    <3>1. 3 # 1 /\ 3 - 1 = 2
      OBVIOUS
    <3> QED BY <1>6, <3>1 DEF Model!Section
  <2>2. b - 1 \in Nat /\ a <= b - 1 /\ b - 1 <= Len(t) /\ b - 1 - a = nu + nb
    BY <1>1, <1>2, <1>5 DEF n
  <2> HIDE DEF s
  <2>3. Len(s) = nu + nb /\ \A i \in 1 .. nu + nb : s[i] = t[a + i]
    BY <1>5, <2>1, <2>2, SliceIs
  <2>4. \A i \in 1 .. nu : s[i] = m.uni[i]
    <3>1. \A i \in 1 .. nu : i \in 1 .. nu + nb
      BY <1>1
    <3> QED BY <1>9, <2>3, <3>1
  <2>5. \A i \in 1 .. nb : s[nu + i] = m.bi[i]
    <3>1. \A i \in 1 .. nb : nu + i \in 1 .. nu + nb /\ a + (nu + i) = a + nu + i
      BY <1>1, <1>5
    <3> QED BY <1>9, <2>3, <3>1
  <2>6. Model!OfKind(s, "U") = m.uni /\ Model!OfKind(s, "B") = m.bi
    BY <2>3, <2>4, <2>5, TemplatesSplit DEF nu, nb
  <2> QED BY <2>6 DEF s
<1>14. Model!ReadKeys(Model!Section(t, 4)) = m.dic
  BY <1>12, KeysStay
<1>15. \A i \in 1 .. m.maxid : Model!Numbers(t)[i].value = Model!Decimals(m.alpha[i])
  <2>1. \A w : Model!Weight(w).value = w
    BY DEF Model!Weight
  <2> QED BY <1>8, <1>9, <2>1
<1> DEFINE N == Model!Numbers(t)
           r == Model!FromText(t)
           al == [i \in 1 .. Len(N) |-> N[i].value]
<1>16. /\ r.y = Model!Section(t, 2)
       /\ r.uni = Model!OfKind(Model!Section(t, 3), "U")
       /\ r.bi = Model!OfKind(Model!Section(t, 3), "B")
       /\ r.dic = Model!ReadKeys(Model!Section(t, 4))
       /\ r.maxid = Model!HeadValue(t, "maxid") /\ r.xsize = Model!HeadValue(t, "xsize")
       /\ r.alpha = al
  BY DEF Model!FromText
<1> HIDE DEF r
<1>17. \A i \in 1 .. m.maxid : al[i] = Model!Decimals(m.alpha[i])
  BY <1>8, <1>15
<1> HIDE DEF al
<1>18. \A i \in 1 .. m.maxid : r.alpha[i] = Model!Decimals(m.alpha[i])
  BY <1>16, <1>17
<1> QED BY <1>7, <1>11, <1>13, <1>14, <1>16, <1>18 DEF r

LEMMA SameBinary ==
  ASSUME NEW m, NEW r, r.y = m.y, r.uni = m.uni, r.bi = m.bi, r.dic = m.dic,
         r.maxid = m.maxid, r.xsize = m.xsize,
         \A i \in 1 .. m.maxid : Model!Float(r.alpha[i]) = Model!Float(m.alpha[i])
  PROVE  Model!Binary(r) = Model!Binary(m)
<1>1. Model!Padded(r) = Model!Padded(m) /\ Model!Header(r) = Model!Header(m)
  BY DEF Model!Padded, Model!Header
<1>2. Model!Weights(r) = Model!Weights(m)
  BY DEF Model!Weights
<1> QED BY <1>1, <1>2 DEF Model!Binary

LEMMA WholeConverts ==
  ASSUME NEW m, GoodModel(m), NEW R, NEW t \in Seq(R), TextLaid(m, t), m.maxid > 0, m.xsize > 0
  PROVE  Model!Converts(t)
<1>1. BeginsAs(t, t, Len(t))
  BY SelfBegins
<1>2. Len(t) = FourthEnd(m) + m.maxid
  BY DEF TextLaid
<1>3. FourthEnd(m) \in Nat /\ m.maxid \in Nat /\ Len(t) \in Nat
  BY LengthsAre, EndsInOrder
<1>4. FourthEnd(m) <= Len(t) /\ Len(t) - FourthEnd(m) = m.maxid
  BY <1>2, <1>3
<1>5. Model!Cardinality(Model!Empties(t)) = 4
  BY <1>1, <1>4, SectionsAre
<1>6. Model!HeadValue(t, "maxid") = m.maxid /\ Model!HeadValue(t, "xsize") = m.xsize
  BY <1>1, <1>4, HeadIs
<1>7. Len(Model!Numbers(t)) = m.maxid
  BY <1>1, <1>4, NumbersAre
<1> QED BY <1>5, <1>6, <1>7 DEF Model!Converts

(* Whatever the model, its text converts to its binary if no key has a     *)
(* space and no weight is below the decimals of a text; and no part of the *)
(* text converts but one that breaks off inside its last number            *)
(* (feature_index.cpp save, convert).                                      *)
THEOREM TextAlwaysAgrees == CasesSpec => []TextAgrees
<1> DEFINE ModelKnown == When("model") => case.input \in Models
<1>1. CasesInit => ModelKnown
  BY DEF CasesInit, Case, When
<1>2. ModelKnown /\ [CasesNext]_case => ModelKnown'
  BY DEF CasesNext, When
<1>3. ModelKnown => TextAgrees
  <2> SUFFICES ASSUME ModelKnown, When("model") PROVE TextAgrees
    BY DEF TextAgrees
  <2> DEFINE m == case.input
             t == Model!Text(m)
  <2>1. GoodModel(m)
    BY ModelsAssumption DEF GoodModel
  <2> HIDE DEF m, t
  <2>2. TextLaid(m, t) /\ \E R : t \in Seq(R)
    BY <2>1, TextIs DEF t
  <2>3. PICK R : t \in Seq(R)
    BY <2>2
  <2>4. CutRefusedIn(m, t)
    BY <2>1, <2>2, <2>3, CutRefused
  <2>5. ASSUME m.maxid > 0, m.xsize > 0, \A i \in DOMAIN m.dic : ~m.dic[i].key.spaced,
               \A i \in DOMAIN m.alpha : m.alpha[i] # 1
        PROVE  Model!Converts(t) /\ Model!Binary(Model!FromText(t)) = Model!Binary(m)
    <3> DEFINE r == Model!FromText(t)
    <3>1. Model!Converts(t)
      BY <2>1, <2>2, <2>3, <2>5, WholeConverts
    <3>2. /\ r.y = m.y /\ r.uni = m.uni /\ r.bi = m.bi /\ r.dic = m.dic
          /\ r.maxid = m.maxid /\ r.xsize = m.xsize
          /\ \A i \in 1 .. m.maxid : r.alpha[i] = Model!Decimals(m.alpha[i])
      BY <2>1, <2>2, <2>3, <2>5, FromTextIs
    <3> HIDE DEF r
    <3>3. \A i \in 1 .. m.maxid : Model!Float(r.alpha[i]) = Model!Float(m.alpha[i])
      <4>1. \A i \in 1 .. m.maxid : m.alpha[i] # 1
        BY <2>1, <2>5 DEF GoodModel
      <4>2. \A w : w # 1 => Model!Decimals(w) = w
        BY DEF Model!Decimals
      <4> QED BY <3>2, <4>1, <4>2
    <3>4. Model!Binary(r) = Model!Binary(m)
      BY <3>2, <3>3, SameBinary
    <3> QED BY <3>1, <3>4 DEF r
  <2> QED BY <2>4, <2>5 DEF TextAgrees, CutRefusedIn, t, m
<1> QED BY <1>1, <1>2, <1>3, PTL DEF CasesSpec
-----------------------------------------------------------------------------
(* Calls from a script.  A call is described at once for the four          *)
(* languages: what an argument may become, the stubs that take the call,   *)
(* and what the one that is entered hands to C++.                          *)
Converts(lang, type, v) ==
  CASE lang = "Python" -> Python!Convert(type, v)
    [] lang = "Perl"   -> Perl!Convert(type, v)
    [] lang = "Ruby"   -> Ruby!Convert(type, v)
    [] lang = "Java"   -> Java!Convert(type, v)

StubsOf(c) ==
  {s \in Python!Declared : s.name = c.name /\ Len(c.argv) = Len(s.args) + 1
                             /\ (c.lang = "Ruby" => s.class = c.argv[1].is)}

Accepting(c) ==
  {s \in StubsOf(c) :
     \A i \in 1 .. Len(c.argv) : Converts(c.lang, TypeOf(s, i), c.argv[i]) # {}}

Entered(c, s) ==
  Python!Native(c.name,
    [i \in 1 .. Len(c.argv) |-> CHOOSE a \in Converts(c.lang, TypeOf(s, i), c.argv[i]) : TRUE])

(* A stub lies in a table, by its three fields.                            *)
Shaped(s) == s = [class |-> s.class, name |-> s.name, args |-> s.args]

Tabled(s, class, names, args) ==
  Shaped(s) /\ s.class = class /\ s.name \in names /\ s.args = args

StubListed(s) ==
  \/ Tabled(s, "Model", {"getTemplate", "createTagger", "what"}, <<>>)
  \/ Tabled(s, "Tagger", {"vlevel", "cost_factor", "nbest", "size", "xsize", "dsize", "ysize",
                          "prob", "Z", "parse", "empty", "clear", "next", "what"}, <<>>)
  \/ Tabled(s, "Tagger", {"set_model"}, <<"Model&">>)
  \/ Tabled(s, "Tagger", {"set_vlevel"}, <<"unsigned int">>)
  \/ Tabled(s, "Tagger", {"set_cost_factor"}, <<"float">>)
  \/ Tabled(s, "Tagger", {"add", "parse"}, <<"text">>)
  \/ Tabled(s, "Tagger", {"set_nbest", "result", "answer", "y", "y2", "yname", "prob"},
            <<"size_t">>)
  \/ Tabled(s, "Tagger", {"x", "prob", "penalty", "alpha", "beta", "emission_cost", "best_cost"},
            <<"size_t", "size_t">>)
  \/ Tabled(s, "Tagger", {"set_penalty"}, <<"size_t", "size_t", "double">>)
  \/ Tabled(s, "Tagger", {"next_transition_cost", "prev_transition_cost"},
            <<"size_t", "size_t", "size_t">>)

LEMMA TabledIs ==
  ASSUME NEW s, NEW class, NEW names, NEW args
  PROVE  /\ s \in Python!Stubs(class, names, args) <=> Tabled(s, class, names, args)
         /\ s \in Perl!Stubs(class, names, args) <=> Tabled(s, class, names, args)
         /\ s \in Ruby!Stubs(class, names, args) <=> Tabled(s, class, names, args)
         /\ s \in Java!Stubs(class, names, args) <=> Tabled(s, class, names, args)
<1>1. s \in {[class |-> class, name |-> n, args |-> args] : n \in names}
        <=> Tabled(s, class, names, args)
  BY DEF Tabled, Shaped
<1> QED BY <1>1 DEF Python!Stubs, Perl!Stubs, Ruby!Stubs, Java!Stubs

LEMMA DeclaredIs ==
  ASSUME NEW s
  PROVE  s \in Python!Declared <=> StubListed(s)
<1>1. s \in Python!DeclaredModel <=>
        Tabled(s, "Model", {"getTemplate", "createTagger", "what"}, <<>>)
  BY TabledIs DEF Python!DeclaredModel
<1>2. s \in Python!DeclaredSettings <=>
        \/ Tabled(s, "Tagger", {"set_model"}, <<"Model&">>)
        \/ Tabled(s, "Tagger", {"set_vlevel"}, <<"unsigned int">>)
        \/ Tabled(s, "Tagger", {"set_cost_factor"}, <<"float">>)
        \/ Tabled(s, "Tagger", {"set_nbest"}, <<"size_t">>)
        \/ Tabled(s, "Tagger", {"vlevel", "cost_factor", "nbest"}, <<>>)
  BY TabledIs DEF Python!DeclaredSettings, Python!size
<1>3. s \in Python!DeclaredReaders <=>
        \/ Tabled(s, "Tagger", {"add"}, <<"text">>)
        \/ Tabled(s, "Tagger", {"size", "xsize", "dsize", "ysize", "prob"}, <<>>)
        \/ Tabled(s, "Tagger", {"result", "answer", "y", "y2", "yname", "prob"}, <<"size_t">>)
        \/ Tabled(s, "Tagger", {"x", "prob"}, <<"size_t", "size_t">>)
  BY TabledIs DEF Python!DeclaredReaders, Python!size
<1>4. s \in Python!DeclaredCosts <=>
        \/ Tabled(s, "Tagger", {"set_penalty"}, <<"size_t", "size_t", "double">>)
        \/ Tabled(s, "Tagger", {"penalty", "alpha", "beta", "emission_cost", "best_cost"},
                  <<"size_t", "size_t">>)
        \/ Tabled(s, "Tagger", {"next_transition_cost", "prev_transition_cost"},
                  <<"size_t", "size_t", "size_t">>)
  BY TabledIs DEF Python!DeclaredCosts, Python!size
<1>5. s \in Python!DeclaredSearch <=>
        \/ Tabled(s, "Tagger", {"Z", "parse", "empty", "clear", "next", "what"}, <<>>)
        \/ Tabled(s, "Tagger", {"parse"}, <<"text">>)
  BY TabledIs DEF Python!DeclaredSearch
<1>6. s \in Python!Declared <=>
        \/ s \in Python!DeclaredModel \/ s \in Python!DeclaredSettings
        \/ s \in Python!DeclaredReaders \/ s \in Python!DeclaredCosts
        \/ s \in Python!DeclaredSearch
  BY DEF Python!Declared
<1> QED BY <1>1, <1>2, <1>3, <1>4, <1>5, <1>6 DEF StubListed, Tabled

LEMMA PythonTableIs ==
  ASSUME NEW s
  PROVE  s \in Python!Table <=> StubListed(s)
<1>1. s \in Python!ModelStubs <=>
        Tabled(s, "Model", {"getTemplate", "createTagger", "what"}, <<>>)
  BY TabledIs DEF Python!ModelStubs
<1>2. s \in Python!AttachStub \cup Python!LevelStubs \cup Python!FactorStubs \cup Python!NbestStubs <=>
        \/ Tabled(s, "Tagger", {"set_model"}, <<"Model&">>)
        \/ Tabled(s, "Tagger", {"set_vlevel"}, <<"unsigned int">>)
        \/ Tabled(s, "Tagger", {"vlevel"}, <<>>)
        \/ Tabled(s, "Tagger", {"set_cost_factor"}, <<"float">>)
        \/ Tabled(s, "Tagger", {"cost_factor"}, <<>>)
        \/ Tabled(s, "Tagger", {"set_nbest"}, <<"size_t">>)
        \/ Tabled(s, "Tagger", {"nbest"}, <<>>)
  BY TabledIs
  DEF Python!AttachStub, Python!LevelStubs, Python!FactorStubs, Python!NbestStubs, Python!size
<1>3. s \in Python!AddStub \cup Python!SizeStubs \cup Python!TagStubs \cup Python!NameStubs
           \cup Python!ColumnStubs <=>
        \/ Tabled(s, "Tagger", {"add"}, <<"text">>)
        \/ Tabled(s, "Tagger", {"size", "xsize", "dsize"}, <<>>)
        \/ Tabled(s, "Tagger", {"result", "answer", "y"}, <<"size_t">>)
        \/ Tabled(s, "Tagger", {"y2", "yname"}, <<"size_t">>)
        \/ Tabled(s, "Tagger", {"x"}, <<"size_t", "size_t">>)
        \/ Tabled(s, "Tagger", {"ysize"}, <<>>)
  BY TabledIs
  DEF Python!AddStub, Python!SizeStubs, Python!TagStubs, Python!NameStubs, Python!ColumnStubs,
                  Python!size
<1>4. s \in Python!ProbStubs <=>
        \/ Tabled(s, "Tagger", {"prob"}, <<>>)
        \/ Tabled(s, "Tagger", {"prob"}, <<"size_t">>)
        \/ Tabled(s, "Tagger", {"prob"}, <<"size_t", "size_t">>)
  BY TabledIs DEF Python!ProbStubs, Python!size
<1>5. s \in Python!PenaltyStubs \cup Python!MarginStubs \cup Python!EmissionStub
           \cup Python!TransitionStubs <=>
        \/ Tabled(s, "Tagger", {"set_penalty"}, <<"size_t", "size_t", "double">>)
        \/ Tabled(s, "Tagger", {"penalty"}, <<"size_t", "size_t">>)
        \/ Tabled(s, "Tagger", {"alpha", "beta"}, <<"size_t", "size_t">>)
        \/ Tabled(s, "Tagger", {"emission_cost"}, <<"size_t", "size_t">>)
        \/ Tabled(s, "Tagger", {"next_transition_cost", "prev_transition_cost"},
                  <<"size_t", "size_t", "size_t">>)
  BY TabledIs DEF Python!PenaltyStubs, Python!MarginStubs, Python!EmissionStub, Python!TransitionStubs,
                  Python!size
<1>6. s \in Python!BestStubs \cup Python!SearchStubs \cup Python!ParseStub \cup Python!WhatStub <=>
        \/ Tabled(s, "Tagger", {"best_cost"}, <<"size_t", "size_t">>)
        \/ Tabled(s, "Tagger", {"Z"}, <<>>)
        \/ Tabled(s, "Tagger", {"parse", "empty", "clear", "next"}, <<>>)
        \/ Tabled(s, "Tagger", {"parse"}, <<"text">>)
        \/ Tabled(s, "Tagger", {"what"}, <<>>)
  BY TabledIs DEF Python!BestStubs, Python!SearchStubs, Python!ParseStub, Python!WhatStub, Python!size
<1>7. s \in Python!Table <=>
        \/ s \in Python!ModelStubs
        \/ s \in Python!AttachStub \cup Python!LevelStubs \cup Python!FactorStubs \cup Python!NbestStubs
        \/ s \in Python!AddStub \cup Python!SizeStubs \cup Python!TagStubs \cup Python!NameStubs
                  \cup Python!ColumnStubs
        \/ s \in Python!ProbStubs
        \/ s \in Python!PenaltyStubs \cup Python!MarginStubs \cup Python!EmissionStub
                  \cup Python!TransitionStubs
        \/ s \in Python!BestStubs \cup Python!SearchStubs \cup Python!ParseStub \cup Python!WhatStub
  BY DEF Python!Table
<1> QED BY <1>1, <1>2, <1>3, <1>4, <1>5, <1>6, <1>7 DEF StubListed, Tabled

LEMMA PerlTableIs ==
  ASSUME NEW s
  PROVE  s \in Perl!Table <=> StubListed(s)
<1>1. s \in Perl!ModelStubs <=>
        Tabled(s, "Model", {"getTemplate", "createTagger", "what"}, <<>>)
  BY TabledIs DEF Perl!ModelStubs
<1>2. s \in Perl!AttachStub \cup Perl!LevelStubs \cup Perl!FactorStubs \cup Perl!NbestStubs <=>
        \/ Tabled(s, "Tagger", {"set_model"}, <<"Model&">>)
        \/ Tabled(s, "Tagger", {"set_vlevel"}, <<"unsigned int">>)
        \/ Tabled(s, "Tagger", {"vlevel"}, <<>>)
        \/ Tabled(s, "Tagger", {"set_cost_factor"}, <<"float">>)
        \/ Tabled(s, "Tagger", {"cost_factor"}, <<>>)
        \/ Tabled(s, "Tagger", {"set_nbest"}, <<"size_t">>)
        \/ Tabled(s, "Tagger", {"nbest"}, <<>>)
  BY TabledIs DEF Perl!AttachStub, Perl!LevelStubs, Perl!FactorStubs, Perl!NbestStubs, Perl!size
<1>3. s \in Perl!AddStub \cup Perl!SizeStubs \cup Perl!TagStubs \cup Perl!NameStubs
           \cup Perl!ColumnStubs <=>
        \/ Tabled(s, "Tagger", {"add"}, <<"text">>)
        \/ Tabled(s, "Tagger", {"size", "xsize", "dsize"}, <<>>)
        \/ Tabled(s, "Tagger", {"result", "answer", "y"}, <<"size_t">>)
        \/ Tabled(s, "Tagger", {"y2", "yname"}, <<"size_t">>)
        \/ Tabled(s, "Tagger", {"x"}, <<"size_t", "size_t">>)
        \/ Tabled(s, "Tagger", {"ysize"}, <<>>)
  BY TabledIs DEF Perl!AddStub, Perl!SizeStubs, Perl!TagStubs, Perl!NameStubs, Perl!ColumnStubs,
                  Perl!size
<1>4. s \in Perl!ProbStubs <=>
        \/ Tabled(s, "Tagger", {"prob"}, <<>>)
        \/ Tabled(s, "Tagger", {"prob"}, <<"size_t">>)
        \/ Tabled(s, "Tagger", {"prob"}, <<"size_t", "size_t">>)
  BY TabledIs DEF Perl!ProbStubs, Perl!size
<1>5. s \in Perl!PenaltyStubs \cup Perl!MarginStubs \cup Perl!EmissionStub
           \cup Perl!TransitionStubs <=>
        \/ Tabled(s, "Tagger", {"set_penalty"}, <<"size_t", "size_t", "double">>)
        \/ Tabled(s, "Tagger", {"penalty"}, <<"size_t", "size_t">>)
        \/ Tabled(s, "Tagger", {"alpha", "beta"}, <<"size_t", "size_t">>)
        \/ Tabled(s, "Tagger", {"emission_cost"}, <<"size_t", "size_t">>)
        \/ Tabled(s, "Tagger", {"next_transition_cost", "prev_transition_cost"},
                  <<"size_t", "size_t", "size_t">>)
  BY TabledIs DEF Perl!PenaltyStubs, Perl!MarginStubs, Perl!EmissionStub, Perl!TransitionStubs,
                  Perl!size
<1>6. s \in Perl!BestStubs \cup Perl!SearchStubs \cup Perl!ParseStub \cup Perl!WhatStub <=>
        \/ Tabled(s, "Tagger", {"best_cost"}, <<"size_t", "size_t">>)
        \/ Tabled(s, "Tagger", {"Z"}, <<>>)
        \/ Tabled(s, "Tagger", {"parse", "empty", "clear", "next"}, <<>>)
        \/ Tabled(s, "Tagger", {"parse"}, <<"text">>)
        \/ Tabled(s, "Tagger", {"what"}, <<>>)
  BY TabledIs DEF Perl!BestStubs, Perl!SearchStubs, Perl!ParseStub, Perl!WhatStub, Perl!size
<1>7. s \in Perl!Table <=>
        \/ s \in Perl!ModelStubs
        \/ s \in Perl!AttachStub \cup Perl!LevelStubs \cup Perl!FactorStubs \cup Perl!NbestStubs
        \/ s \in Perl!AddStub \cup Perl!SizeStubs \cup Perl!TagStubs \cup Perl!NameStubs
                  \cup Perl!ColumnStubs
        \/ s \in Perl!ProbStubs
        \/ s \in Perl!PenaltyStubs \cup Perl!MarginStubs \cup Perl!EmissionStub
                  \cup Perl!TransitionStubs
        \/ s \in Perl!BestStubs \cup Perl!SearchStubs \cup Perl!ParseStub \cup Perl!WhatStub
  BY DEF Perl!Table
<1> QED BY <1>1, <1>2, <1>3, <1>4, <1>5, <1>6, <1>7 DEF StubListed, Tabled

LEMMA RubyTableIs ==
  ASSUME NEW s
  PROVE  s \in Ruby!Table <=> StubListed(s)
<1>1. s \in Ruby!ModelStubs <=>
        Tabled(s, "Model", {"getTemplate", "createTagger", "what"}, <<>>)
  BY TabledIs DEF Ruby!ModelStubs
<1>2. s \in Ruby!AttachStub \cup Ruby!LevelStubs \cup Ruby!FactorStubs \cup Ruby!NbestStubs <=>
        \/ Tabled(s, "Tagger", {"set_model"}, <<"Model&">>)
        \/ Tabled(s, "Tagger", {"set_vlevel"}, <<"unsigned int">>)
        \/ Tabled(s, "Tagger", {"vlevel"}, <<>>)
        \/ Tabled(s, "Tagger", {"set_cost_factor"}, <<"float">>)
        \/ Tabled(s, "Tagger", {"cost_factor"}, <<>>)
        \/ Tabled(s, "Tagger", {"set_nbest"}, <<"size_t">>)
        \/ Tabled(s, "Tagger", {"nbest"}, <<>>)
  BY TabledIs DEF Ruby!AttachStub, Ruby!LevelStubs, Ruby!FactorStubs, Ruby!NbestStubs, Ruby!size
<1>3. s \in Ruby!AddStub \cup Ruby!SizeStubs \cup Ruby!TagStubs \cup Ruby!NameStubs
           \cup Ruby!ColumnStubs <=>
        \/ Tabled(s, "Tagger", {"add"}, <<"text">>)
        \/ Tabled(s, "Tagger", {"size", "xsize", "dsize"}, <<>>)
        \/ Tabled(s, "Tagger", {"result", "answer", "y"}, <<"size_t">>)
        \/ Tabled(s, "Tagger", {"y2", "yname"}, <<"size_t">>)
        \/ Tabled(s, "Tagger", {"x"}, <<"size_t", "size_t">>)
        \/ Tabled(s, "Tagger", {"ysize"}, <<>>)
  BY TabledIs DEF Ruby!AddStub, Ruby!SizeStubs, Ruby!TagStubs, Ruby!NameStubs, Ruby!ColumnStubs,
                  Ruby!size
<1>4. s \in Ruby!ProbStubs <=>
        \/ Tabled(s, "Tagger", {"prob"}, <<>>)
        \/ Tabled(s, "Tagger", {"prob"}, <<"size_t">>)
        \/ Tabled(s, "Tagger", {"prob"}, <<"size_t", "size_t">>)
  BY TabledIs DEF Ruby!ProbStubs, Ruby!size
<1>5. s \in Ruby!PenaltyStubs \cup Ruby!MarginStubs \cup Ruby!EmissionStub
           \cup Ruby!TransitionStubs <=>
        \/ Tabled(s, "Tagger", {"set_penalty"}, <<"size_t", "size_t", "double">>)
        \/ Tabled(s, "Tagger", {"penalty"}, <<"size_t", "size_t">>)
        \/ Tabled(s, "Tagger", {"alpha", "beta"}, <<"size_t", "size_t">>)
        \/ Tabled(s, "Tagger", {"emission_cost"}, <<"size_t", "size_t">>)
        \/ Tabled(s, "Tagger", {"next_transition_cost", "prev_transition_cost"},
                  <<"size_t", "size_t", "size_t">>)
  BY TabledIs DEF Ruby!PenaltyStubs, Ruby!MarginStubs, Ruby!EmissionStub, Ruby!TransitionStubs,
                  Ruby!size
<1>6. s \in Ruby!BestStubs \cup Ruby!SearchStubs \cup Ruby!ParseStub \cup Ruby!WhatStub <=>
        \/ Tabled(s, "Tagger", {"best_cost"}, <<"size_t", "size_t">>)
        \/ Tabled(s, "Tagger", {"Z"}, <<>>)
        \/ Tabled(s, "Tagger", {"parse", "empty", "clear", "next"}, <<>>)
        \/ Tabled(s, "Tagger", {"parse"}, <<"text">>)
        \/ Tabled(s, "Tagger", {"what"}, <<>>)
  BY TabledIs DEF Ruby!BestStubs, Ruby!SearchStubs, Ruby!ParseStub, Ruby!WhatStub, Ruby!size
<1>7. s \in Ruby!Table <=>
        \/ s \in Ruby!ModelStubs
        \/ s \in Ruby!AttachStub \cup Ruby!LevelStubs \cup Ruby!FactorStubs \cup Ruby!NbestStubs
        \/ s \in Ruby!AddStub \cup Ruby!SizeStubs \cup Ruby!TagStubs \cup Ruby!NameStubs
                  \cup Ruby!ColumnStubs
        \/ s \in Ruby!ProbStubs
        \/ s \in Ruby!PenaltyStubs \cup Ruby!MarginStubs \cup Ruby!EmissionStub
                  \cup Ruby!TransitionStubs
        \/ s \in Ruby!BestStubs \cup Ruby!SearchStubs \cup Ruby!ParseStub \cup Ruby!WhatStub
  BY DEF Ruby!Table
<1> QED BY <1>1, <1>2, <1>3, <1>4, <1>5, <1>6, <1>7 DEF StubListed, Tabled

LEMMA JavaTableIs ==
  ASSUME NEW s
  PROVE  s \in Java!Table <=> StubListed(s)
<1>1. s \in Java!ModelStubs <=>
        Tabled(s, "Model", {"getTemplate", "createTagger", "what"}, <<>>)
  BY TabledIs DEF Java!ModelStubs
<1>2. s \in Java!AttachStub \cup Java!LevelStubs \cup Java!FactorStubs \cup Java!NbestStubs <=>
        \/ Tabled(s, "Tagger", {"set_model"}, <<"Model&">>)
        \/ Tabled(s, "Tagger", {"set_vlevel"}, <<"unsigned int">>)
        \/ Tabled(s, "Tagger", {"vlevel"}, <<>>)
        \/ Tabled(s, "Tagger", {"set_cost_factor"}, <<"float">>)
        \/ Tabled(s, "Tagger", {"cost_factor"}, <<>>)
        \/ Tabled(s, "Tagger", {"set_nbest"}, <<"size_t">>)
        \/ Tabled(s, "Tagger", {"nbest"}, <<>>)
  BY TabledIs DEF Java!AttachStub, Java!LevelStubs, Java!FactorStubs, Java!NbestStubs, Java!size
<1>3. s \in Java!AddStub \cup Java!SizeStubs \cup Java!TagStubs \cup Java!NameStubs
           \cup Java!ColumnStubs <=>
        \/ Tabled(s, "Tagger", {"add"}, <<"text">>)
        \/ Tabled(s, "Tagger", {"size", "xsize", "dsize"}, <<>>)
        \/ Tabled(s, "Tagger", {"result", "answer", "y"}, <<"size_t">>)
        \/ Tabled(s, "Tagger", {"y2", "yname"}, <<"size_t">>)
        \/ Tabled(s, "Tagger", {"x"}, <<"size_t", "size_t">>)
        \/ Tabled(s, "Tagger", {"ysize"}, <<>>)
  BY TabledIs DEF Java!AddStub, Java!SizeStubs, Java!TagStubs, Java!NameStubs, Java!ColumnStubs,
                  Java!size
<1>4. s \in Java!ProbStubs <=>
        \/ Tabled(s, "Tagger", {"prob"}, <<>>)
        \/ Tabled(s, "Tagger", {"prob"}, <<"size_t">>)
        \/ Tabled(s, "Tagger", {"prob"}, <<"size_t", "size_t">>)
  BY TabledIs DEF Java!ProbStubs, Java!size
<1>5. s \in Java!PenaltyStubs \cup Java!MarginStubs \cup Java!EmissionStub
           \cup Java!TransitionStubs <=>
        \/ Tabled(s, "Tagger", {"set_penalty"}, <<"size_t", "size_t", "double">>)
        \/ Tabled(s, "Tagger", {"penalty"}, <<"size_t", "size_t">>)
        \/ Tabled(s, "Tagger", {"alpha", "beta"}, <<"size_t", "size_t">>)
        \/ Tabled(s, "Tagger", {"emission_cost"}, <<"size_t", "size_t">>)
        \/ Tabled(s, "Tagger", {"next_transition_cost", "prev_transition_cost"},
                  <<"size_t", "size_t", "size_t">>)
  BY TabledIs DEF Java!PenaltyStubs, Java!MarginStubs, Java!EmissionStub, Java!TransitionStubs,
                  Java!size
<1>6. s \in Java!BestStubs \cup Java!SearchStubs \cup Java!ParseStub \cup Java!WhatStub <=>
        \/ Tabled(s, "Tagger", {"best_cost"}, <<"size_t", "size_t">>)
        \/ Tabled(s, "Tagger", {"Z"}, <<>>)
        \/ Tabled(s, "Tagger", {"parse", "empty", "clear", "next"}, <<>>)
        \/ Tabled(s, "Tagger", {"parse"}, <<"text">>)
        \/ Tabled(s, "Tagger", {"what"}, <<>>)
  BY TabledIs DEF Java!BestStubs, Java!SearchStubs, Java!ParseStub, Java!WhatStub, Java!size
<1>7. s \in Java!Table <=>
        \/ s \in Java!ModelStubs
        \/ s \in Java!AttachStub \cup Java!LevelStubs \cup Java!FactorStubs \cup Java!NbestStubs
        \/ s \in Java!AddStub \cup Java!SizeStubs \cup Java!TagStubs \cup Java!NameStubs
                  \cup Java!ColumnStubs
        \/ s \in Java!ProbStubs
        \/ s \in Java!PenaltyStubs \cup Java!MarginStubs \cup Java!EmissionStub
                  \cup Java!TransitionStubs
        \/ s \in Java!BestStubs \cup Java!SearchStubs \cup Java!ParseStub \cup Java!WhatStub
  BY DEF Java!Table
<1> QED BY <1>1, <1>2, <1>3, <1>4, <1>5, <1>6, <1>7 DEF StubListed, Tabled

(* The arguments of a stub follow from its name and their number.          *)
ArgsOf(name, k) ==
  IF k = 0 THEN <<>>
  ELSE IF k = 1
       THEN IF name = "set_model" THEN <<"Model&">>
            ELSE IF name = "set_vlevel" THEN <<"unsigned int">>
            ELSE IF name = "set_cost_factor" THEN <<"float">>
            ELSE IF name \in {"add", "parse"} THEN <<"text">> ELSE <<"size_t">>
  ELSE IF k = 2 THEN <<"size_t", "size_t">>
  ELSE IF name = "set_penalty" THEN <<"size_t", "size_t", "double">>
       ELSE <<"size_t", "size_t", "size_t">>

ArgTypes == {"size_t", "unsigned int", "float", "double", "text", "Model&"}
Classes == {"Model", "Tagger"}

LEMMA OneArgument ==
  ASSUME NEW S, NEW type \in S
  PROVE  <<type>> \in Seq(S) /\ Len(<<type>>) = 1
OBVIOUS

LEMMA ArgsAre ==
  ASSUME NEW s \in Python!Declared
  PROVE  /\ Len(s.args) \in 0 .. 3
         /\ s.args = ArgsOf(s.name, Len(s.args))
         /\ s.class \in Classes
         /\ s.args \in Seq(ArgTypes)
<1> DEFINE A == s.args
           N == s.name
<1>1. StubListed(s)
  BY DeclaredIs
<1>2. s.class \in Classes
  BY <1>1 DEF StubListed, Tabled, Classes
<1>3. \A type \in ArgTypes : A = <<type>> => Len(A) = 1 /\ A \in Seq(ArgTypes)
  BY OneArgument
<1>4. CASE A = <<>>
  BY <1>2, <1>4 DEF ArgsOf
<1>5. CASE N = "set_model" /\ A = <<"Model&">>
  BY <1>2, <1>5, <1>3 DEF ArgsOf, ArgTypes
<1>6. CASE N = "set_vlevel" /\ A = <<"unsigned int">>
  <2>1. N # "set_model"
    BY <1>6
  <2>2. ArgsOf("set_vlevel", 1) = <<"unsigned int">>
    <3>1. "set_vlevel" # "set_model" /\ 1 # 0
      OBVIOUS
    <3> QED BY <3>1, Zenon DEF ArgsOf
  <2>3. Len(A) = 1 /\ A \in Seq(ArgTypes)
    BY <1>3, <1>6 DEF ArgTypes
  <2>4. A = ArgsOf(N, Len(A))
    BY <1>6, <2>2, <2>3, Zenon
  <2>5. Len(A) \in 0 .. 3
    BY <2>3
  <2> QED BY <1>2, <2>3, <2>4, <2>5
<1>7. CASE N = "set_cost_factor" /\ A = <<"float">>
  BY <1>2, <1>3, <1>7 DEF ArgsOf, ArgTypes
<1>8. CASE N \in {"add", "parse"} /\ A = <<"text">>
  <2>1. N # "set_model" /\ N # "set_vlevel" /\ N # "set_cost_factor"
    BY <1>8
  <2>2. ArgsOf(N, 1) = <<"text">>
    BY <1>8, <2>1 DEF ArgsOf
  <2>3. Len(A) = 1 /\ A \in Seq(ArgTypes)
    BY <1>3, <1>8 DEF ArgTypes
  <2> QED BY <1>2, <1>8, <2>2, <2>3
<1>9. CASE /\ N \in {"set_nbest", "result", "answer", "y", "y2", "yname", "prob"}
           /\ A = <<"size_t">>
  <2>1. N # "set_model" /\ N # "set_vlevel" /\ N # "set_cost_factor" /\ N \notin {"add", "parse"}
    BY <1>9
  <2>2. ArgsOf(N, 1) = <<"size_t">>
    BY <2>1 DEF ArgsOf
  <2>3. Len(A) = 1 /\ A \in Seq(ArgTypes)
    BY <1>3, <1>9 DEF ArgTypes
  <2> QED BY <1>2, <1>9, <2>2, <2>3
<1>10. CASE A = <<"size_t", "size_t">>
  BY <1>2, <1>10 DEF ArgsOf, ArgTypes
<1>11. CASE N = "set_penalty" /\ A = <<"size_t", "size_t", "double">>
  BY <1>2, <1>11 DEF ArgsOf, ArgTypes
<1>12. CASE N # "set_penalty" /\ A = <<"size_t", "size_t", "size_t">>
  BY <1>2, <1>12 DEF ArgsOf, ArgTypes
<1> QED
  BY <1>1, <1>4, <1>5, <1>6, <1>7, <1>8, <1>9, <1>10, <1>11, <1>12 DEF StubListed, Tabled

LEMMA SameArguments ==
  ASSUME NEW c, NEW s \in StubsOf(c), NEW t \in StubsOf(c)
  PROVE  s.args = t.args
<1>1. s \in Python!Declared /\ t \in Python!Declared /\ s.name = t.name
  BY DEF StubsOf
<1>2. Len(s.args) \in Nat /\ Len(t.args) \in Nat
  BY <1>1, ArgsAre
<1>3. Len(s.args) + 1 = Len(t.args) + 1
  BY DEF StubsOf
<1>4. Len(s.args) = Len(t.args)
  BY <1>2, <1>3
<1> QED BY <1>1, <1>4, ArgsAre

(* Types a stub asks for: of the receiver a class, of the rest another.    *)
LEMMA TypesAre ==
  ASSUME NEW c, NEW s \in StubsOf(c), Len(c.argv) \in Nat, NEW i \in 1 .. Len(c.argv)
  PROVE  /\ i = 1 => TypeOf(s, i) \in Classes
         /\ i # 1 => TypeOf(s, i) \in ArgTypes
<1>1. s \in Python!Declared /\ Len(c.argv) = Len(s.args) + 1
  BY DEF StubsOf
<1>2. s.class \in Classes /\ s.args \in Seq(ArgTypes)
  BY <1>1, ArgsAre
<1>3. CASE i = 1
  BY <1>2, <1>3 DEF TypeOf
<1>4. CASE i # 1
  <2>1. i - 1 \in 1 .. Len(s.args)
    BY <1>1, <1>2, <1>4
  <2>2. s.args[i - 1] \in ArgTypes
    BY <1>2, <2>1
  <2> QED BY <1>4, <2>2 DEF TypeOf
<1> QED BY <1>3, <1>4

(* What a call comes to: the stub of each wrapper that accepts it.        *)
LEMMA PythonCalled ==
  ASSUME NEW c, c.lang = "Python"
  PROVE  /\ Accepting(c) = {} => Called(c) = Python!Refused
         /\ Accepting(c) # {} => \E s \in Accepting(c) : Called(c) = Entered(c, s)
<1> DEFINE F == {s \in Python!Table : /\ s.name = c.name
                    /\ Len(c.argv) = Len(s.args) + 1
                    /\ \A i \in 1 .. Len(c.argv) :
                         Python!Converted(Python!Convert, s, c.argv)[i] # {}}
           G(s) == Python!Native(c.name, [i \in 1 .. Len(c.argv) |->
                     CHOOSE a \in Python!Converted(Python!Convert, s, c.argv)[i] : TRUE])
<1>1. Called(c) = IF F = {} THEN Python!Refused
                  ELSE G(CHOOSE s \in F : TRUE)
  BY DEF Called, Python!Call, Python!Invoke
<1>2. ASSUME NEW s, NEW i \in 1 .. Len(c.argv)
      PROVE  Python!Converted(Python!Convert, s, c.argv)[i]
               = Converts(c.lang, TypeOf(s, i), c.argv[i])
  BY DEF Python!Converted, Converts, TypeOf
<1>3. F = Accepting(c)
  BY <1>2, PythonTableIs, DeclaredIs DEF Accepting, StubsOf
<1>4. ASSUME NEW s PROVE G(s) = Entered(c, s)
  <2> DEFINE X(i) == Python!Converted(Python!Convert, s, c.argv)[i]
             Y(i) == Converts(c.lang, TypeOf(s, i), c.argv[i])
  <2>1. ASSUME NEW i \in 1 .. Len(c.argv)
        PROVE  (CHOOSE a \in X(i) : TRUE) = (CHOOSE a \in Y(i) : TRUE)
    <3>1. X(i) = Y(i)
      BY <1>2
    <3> HIDE DEF X, Y
    <3> QED BY <3>1
  <2>2. [i \in 1 .. Len(c.argv) |-> CHOOSE a \in X(i) : TRUE]
          = [i \in 1 .. Len(c.argv) |-> CHOOSE a \in Y(i) : TRUE]
    <3> HIDE DEF X, Y
    <3> QED BY <2>1
  <2> QED BY <2>2 DEF Entered
<1> HIDE DEF F, G
<1>5. CASE F # {}
  <2>1. (CHOOSE s \in F : TRUE) \in F
    BY <1>5
  <2> QED BY <1>1, <1>3, <1>4, <1>5, <2>1
<1> QED BY <1>1, <1>3, <1>5

LEMMA PerlCalled ==
  ASSUME NEW c, c.lang = "Perl"
  PROVE  /\ Accepting(c) = {} => Called(c) = Python!Refused
         /\ Accepting(c) # {} => \E s \in Accepting(c) : Called(c) = Entered(c, s)
<1> DEFINE F == {s \in Perl!Table : /\ s.name = c.name
                    /\ Len(c.argv) = Len(s.args) + 1
                    /\ \A i \in 1 .. Len(c.argv) :
                         Perl!Converted(Perl!Convert, s, c.argv)[i] # {}}
           G(s) == Python!Native(c.name, [i \in 1 .. Len(c.argv) |->
                     CHOOSE a \in Perl!Converted(Perl!Convert, s, c.argv)[i] : TRUE])
<1>1. Called(c) = IF F = {} THEN Python!Refused
                  ELSE G(CHOOSE s \in F : TRUE)
  BY DEF Called, Perl!Call, Perl!Invoke, Perl!Refused, Python!Refused,
         Perl!Native, Python!Native
<1>2. ASSUME NEW s, NEW i \in 1 .. Len(c.argv)
      PROVE  Perl!Converted(Perl!Convert, s, c.argv)[i]
               = Converts(c.lang, TypeOf(s, i), c.argv[i])
  BY DEF Perl!Converted, Converts, TypeOf
<1>3. F = Accepting(c)
  BY <1>2, PerlTableIs, DeclaredIs DEF Accepting, StubsOf
<1>4. ASSUME NEW s PROVE G(s) = Entered(c, s)
  <2> DEFINE X(i) == Perl!Converted(Perl!Convert, s, c.argv)[i]
             Y(i) == Converts(c.lang, TypeOf(s, i), c.argv[i])
  <2>1. ASSUME NEW i \in 1 .. Len(c.argv)
        PROVE  (CHOOSE a \in X(i) : TRUE) = (CHOOSE a \in Y(i) : TRUE)
    <3>1. X(i) = Y(i)
      BY <1>2
    <3> HIDE DEF X, Y
    <3> QED BY <3>1
  <2>2. [i \in 1 .. Len(c.argv) |-> CHOOSE a \in X(i) : TRUE]
          = [i \in 1 .. Len(c.argv) |-> CHOOSE a \in Y(i) : TRUE]
    <3> HIDE DEF X, Y
    <3> QED BY <2>1
  <2> QED BY <2>2 DEF Entered
<1> HIDE DEF F, G
<1>5. CASE F # {}
  <2>1. (CHOOSE s \in F : TRUE) \in F
    BY <1>5
  <2> QED BY <1>1, <1>3, <1>4, <1>5, <2>1
<1> QED BY <1>1, <1>3, <1>5

LEMMA RubyCalled ==
  ASSUME NEW c, c.lang = "Ruby"
  PROVE  /\ Accepting(c) = {} => Called(c) = Python!Refused
         /\ Accepting(c) # {} => \E s \in Accepting(c) : Called(c) = Entered(c, s)
<1> DEFINE F == {s \in {t \in Ruby!Table : t.class = c.argv[1].is} : /\ s.name = c.name
                    /\ Len(c.argv) = Len(s.args) + 1
                    /\ \A i \in 1 .. Len(c.argv) :
                         Ruby!Converted(Ruby!Convert, s, c.argv)[i] # {}}
           G(s) == Python!Native(c.name, [i \in 1 .. Len(c.argv) |->
                     CHOOSE a \in Ruby!Converted(Ruby!Convert, s, c.argv)[i] : TRUE])
<1>1. Called(c) = IF F = {} THEN Python!Refused
                  ELSE G(CHOOSE s \in F : TRUE)
  BY DEF Called, Ruby!Call, Ruby!Invoke, Ruby!Refused, Python!Refused,
         Ruby!Native, Python!Native
<1>2. ASSUME NEW s, NEW i \in 1 .. Len(c.argv)
      PROVE  Ruby!Converted(Ruby!Convert, s, c.argv)[i]
               = Converts(c.lang, TypeOf(s, i), c.argv[i])
  BY DEF Ruby!Converted, Converts, TypeOf
<1>3. F = Accepting(c)
  BY <1>2, RubyTableIs, DeclaredIs DEF Accepting, StubsOf
<1>4. ASSUME NEW s PROVE G(s) = Entered(c, s)
  <2> DEFINE X(i) == Ruby!Converted(Ruby!Convert, s, c.argv)[i]
             Y(i) == Converts(c.lang, TypeOf(s, i), c.argv[i])
  <2>1. ASSUME NEW i \in 1 .. Len(c.argv)
        PROVE  (CHOOSE a \in X(i) : TRUE) = (CHOOSE a \in Y(i) : TRUE)
    <3>1. X(i) = Y(i)
      BY <1>2
    <3> HIDE DEF X, Y
    <3> QED BY <3>1
  <2>2. [i \in 1 .. Len(c.argv) |-> CHOOSE a \in X(i) : TRUE]
          = [i \in 1 .. Len(c.argv) |-> CHOOSE a \in Y(i) : TRUE]
    <3> HIDE DEF X, Y
    <3> QED BY <2>1
  <2> QED BY <2>2 DEF Entered
<1> HIDE DEF F, G
<1>5. CASE F # {}
  <2>1. (CHOOSE s \in F : TRUE) \in F
    BY <1>5
  <2> QED BY <1>1, <1>3, <1>4, <1>5, <2>1
<1> QED BY <1>1, <1>3, <1>5

LEMMA JavaCalled ==
  ASSUME NEW c, c.lang = "Java"
  PROVE  /\ Accepting(c) = {} => Called(c) = Python!Refused
         /\ Accepting(c) # {} => \E s \in Accepting(c) : Called(c) = Entered(c, s)
<1> DEFINE F == {s \in Java!Table : /\ s.name = c.name
                    /\ Len(c.argv) = Len(s.args) + 1
                    /\ \A i \in 1 .. Len(c.argv) :
                         Java!Converted(Java!Convert, s, c.argv)[i] # {}}
           G(s) == Python!Native(c.name, [i \in 1 .. Len(c.argv) |->
                     CHOOSE a \in Java!Converted(Java!Convert, s, c.argv)[i] : TRUE])
<1>1. Called(c) = IF F = {} THEN Python!Refused
                  ELSE G(CHOOSE s \in F : TRUE)
  BY DEF Called, Java!Call, Java!Invoke, Java!Refused, Python!Refused,
         Java!Native, Python!Native
<1>2. ASSUME NEW s, NEW i \in 1 .. Len(c.argv)
      PROVE  Java!Converted(Java!Convert, s, c.argv)[i]
               = Converts(c.lang, TypeOf(s, i), c.argv[i])
  BY DEF Java!Converted, Converts, TypeOf
<1>3. F = Accepting(c)
  BY <1>2, JavaTableIs, DeclaredIs DEF Accepting, StubsOf
<1>4. ASSUME NEW s PROVE G(s) = Entered(c, s)
  <2> DEFINE X(i) == Java!Converted(Java!Convert, s, c.argv)[i]
             Y(i) == Converts(c.lang, TypeOf(s, i), c.argv[i])
  <2>1. ASSUME NEW i \in 1 .. Len(c.argv)
        PROVE  (CHOOSE a \in X(i) : TRUE) = (CHOOSE a \in Y(i) : TRUE)
    <3>1. X(i) = Y(i)
      BY <1>2
    <3> HIDE DEF X, Y
    <3> QED BY <3>1
  <2>2. [i \in 1 .. Len(c.argv) |-> CHOOSE a \in X(i) : TRUE]
          = [i \in 1 .. Len(c.argv) |-> CHOOSE a \in Y(i) : TRUE]
    <3> HIDE DEF X, Y
    <3> QED BY <2>1
  <2> QED BY <2>2 DEF Entered
<1> HIDE DEF F, G
<1>5. CASE F # {}
  <2>1. (CHOOSE s \in F : TRUE) \in F
    BY <1>5
  <2> QED BY <1>1, <1>3, <1>4, <1>5, <2>1
<1> QED BY <1>1, <1>3, <1>5

LEMMA CalledIs ==
  ASSUME NEW c, c.lang \in {"Python", "Perl", "Ruby", "Java"}
  PROVE  /\ Accepting(c) = {} => Called(c) = Python!Refused
         /\ Accepting(c) # {} => \E s \in Accepting(c) : Called(c) = Entered(c, s)
BY PythonCalled, PerlCalled, RubyCalled, JavaCalled

(* The widths: an integer of n + 1 bits has twice as many values as one of *)
(* n.  A number has as many bits as the set of its subsets has members.    *)
LEMMA PowerDoubles ==
  ASSUME NEW n \in Nat
  PROVE  /\ 2 ^ n \in Nat /\ 2 ^ n >= 1
         /\ 2 ^ (n + 1) = 2 * (2 ^ n)
<1> DEFINE A == SUBSET (1 .. n)
           C == SUBSET (1 .. n + 1)
           f == [X \in A |-> X \cup {n + 1}]
           B == {f[X] : X \in A}
<1>1. IsFiniteSet(1 .. n) /\ Cardinality(1 .. n) = n
  BY FS_Interval
<1>2. IsFiniteSet(1 .. n + 1) /\ Cardinality(1 .. n + 1) = n + 1
  BY FS_Interval
<1>3. IsFiniteSet(A) /\ Cardinality(A) = 2 ^ n /\ Cardinality(C) = 2 ^ (n + 1)
  BY <1>1, <1>2, FS_SUBSET, Zenon
<1>4. C = A \cup B
  <2>1. A \subseteq C
    OBVIOUS
  <2>2. \A X \in A : f[X] \in C
    OBVIOUS
  <2>3. ASSUME NEW X \in C PROVE X \in A \cup B
    <3>1. CASE n + 1 \in X
      <4>1. X \ {n + 1} \in A
        OBVIOUS
      <4>2. f[X \ {n + 1}] = X
        BY <3>1, <4>1
      <4> QED BY <4>1, <4>2
    <3>2. CASE n + 1 \notin X
      <4>1. X \in A
        BY <3>2
      <4> QED BY <4>1
    <3> QED BY <3>1, <3>2
  <2> HIDE DEF A, C, f
  <2>4. B \subseteq C
    BY <2>2
  <2> HIDE DEF B
  <2> QED BY <2>1, <2>3, <2>4
<1>5. A \cap B = {}
  <2>1. ASSUME NEW X \in A PROVE n + 1 \notin X
    OBVIOUS
  <2>2. ASSUME NEW X \in B PROVE n + 1 \in X
    OBVIOUS
  <2> QED BY <2>1, <2>2
<1>6. f \in Bijection(A, B)
  <2>1. ASSUME NEW X \in A, NEW Y \in A, f[X] = f[Y] PROVE X = Y
    <3>1. n + 1 \notin X /\ n + 1 \notin Y
      OBVIOUS
    <3>2. X \cup {n + 1} = Y \cup {n + 1}
      BY <2>1
    <3> QED BY <3>1, <3>2
  <2>2. f \in [A -> B]
    OBVIOUS
  <2>3. \A Y \in B : \E X \in A : f[X] = Y
    OBVIOUS
  <2> HIDE DEF f, B
  <2> QED BY <2>1, <2>2, <2>3 DEF Bijection, Injection, Surjection, IsInjective
<1>7. IsFiniteSet(B) /\ Cardinality(B) = Cardinality(A)
  <2>1. ExistsBijection(A, B)
    BY <1>6 DEF ExistsBijection
  <2> QED BY <1>3, <2>1, FS_Bijection
<1>8. Cardinality(C) = Cardinality(A) + Cardinality(B)
  <2> HIDE DEF A, B, C
  <2>1. Cardinality(A \cup B) = Cardinality(A) + Cardinality(B) - Cardinality(A \cap B)
    BY <1>3, <1>7, FS_Union
  <2>2. Cardinality(A) \in Nat /\ Cardinality(B) \in Nat /\ Cardinality(A \cap B) = 0
    BY <1>3, <1>5, <1>7, FS_CardinalityType, FS_EmptySet
  <2> QED BY <1>4, <2>1, <2>2
<1>9. 2 ^ n \in Nat /\ 2 ^ n # 0
  <2>1. {} \in A
    OBVIOUS
  <2> HIDE DEF A
  <2> QED BY <1>3, <2>1, FS_CardinalityType, FS_EmptySet
<1> HIDE DEF A, B, C
<1>10. 2 ^ (n + 1) = (2 ^ n) + (2 ^ n)
  BY <1>3, <1>7, <1>8, Zenon
<1> QED BY <1>9, <1>10

LEMMA PowersGrow ==
  ASSUME NEW u \in Nat, NEW k \in Nat
  PROVE  2 ^ u <= 2 ^ (u + k)
<1> DEFINE T == {j \in Nat : 2 ^ u <= 2 ^ (u + j)}
<1>1. 0 \in T
  BY PowerDoubles
<1>2. ASSUME NEW i \in 0 .. k - 1, i \in T PROVE i + 1 \in T
  <2>1. u + i \in Nat /\ (u + i) + 1 = u + (i + 1)
    OBVIOUS
  <2>2. 2 ^ (u + (i + 1)) = 2 * (2 ^ (u + i)) /\ 2 ^ (u + i) \in Nat /\ 2 ^ u \in Nat
    BY <2>1, PowerDoubles
  <2> QED BY <1>2, <2>2
<1> HIDE DEF T
<1>3. 0 .. k \subseteq T
  BY <1>1, <1>2, UpTo
<1> QED BY <1>3 DEF T

LEMMA WidthsAre ==
  ASSUME CallsAssumption
  PROVE  /\ Python!LongMax \in Nat /\ Python!LongMin = - Python!LongMax - 1
         /\ Python!ULongMax = 2 * Python!LongMax + 1
         /\ Python!UIntMax \in 0 .. Python!LongMax
         /\ MaxFloat \in Nat
<1> DEFINE L == 2 ^ (SizeBits - 1)
           I == 2 ^ UnsignedBits
<1>1. SizeBits - 1 \in Nat /\ UnsignedBits \in Nat /\ MaxFloat \in Nat
      /\ (SizeBits - 1) + 1 = SizeBits /\ (SizeBits - 1) - UnsignedBits \in Nat
      /\ UnsignedBits + ((SizeBits - 1) - UnsignedBits) = SizeBits - 1
  BY DEF CallsAssumption
<1>2. L \in Nat /\ L >= 1 /\ 2 ^ SizeBits = 2 * L
  BY <1>1, PowerDoubles
<1>3. I \in Nat /\ I >= 1
  BY <1>1, PowerDoubles
<1>4. I <= L
  BY <1>1, PowersGrow
<1>5. Python!LongMax = L - 1 /\ Python!LongMin = - L /\ Python!ULongMax = (2 ^ SizeBits) - 1
      /\ Python!UIntMax = I - 1
  BY DEF Python!LongMax, Python!LongMin, Python!ULongMax, Python!UIntMax
<1> HIDE DEF L, I
<1> QED BY <1>1, <1>2, <1>3, <1>4, <1>5

LEMMA SameWidths ==
  /\ Perl!LongMax = Python!LongMax /\ Perl!LongMin = Python!LongMin
  /\ Perl!ULongMax = Python!ULongMax /\ Perl!UIntMax = Python!UIntMax
  /\ Ruby!LongMax = Python!LongMax /\ Ruby!LongMin = Python!LongMin
  /\ Ruby!ULongMax = Python!ULongMax /\ Ruby!UIntMax = Python!UIntMax
  /\ Java!LongMax = Python!LongMax /\ Java!LongMin = Python!LongMin
  /\ Java!ULongMax = Python!ULongMax /\ Java!UIntMax = Python!UIntMax
BY DEF Python!LongMax, Python!LongMin, Python!ULongMax, Python!UIntMax,
       Perl!LongMax, Perl!LongMin, Perl!ULongMax, Perl!UIntMax,
       Ruby!LongMax, Ruby!LongMin, Ruby!ULongMax, Ruby!UIntMax,
       Java!LongMax, Java!LongMin, Java!ULongMax, Java!UIntMax

(* Numbers that a remainder leaves alone, or takes up once.                *)
LEMMA RemainderIs ==
  ASSUME NEW M \in Nat \ {0}, NEW n \in Int
  PROVE  /\ n \in 0 .. M - 1 => n % M = n
         /\ n \in - M .. -1 => n % M = n + M
<1>1. n = M * (n \div M) + (n % M) /\ n \div M \in Int /\ n % M \in 0 .. M - 1
  OBVIOUS
<1> DEFINE q == n \div M
           r == n % M
<1>2. \A k \in Int : (k >= 1 => M * k >= M) /\ (k <= -2 => M * k <= - (2 * M))
                       /\ (k = -1 => M * k = - M) /\ (k = 0 => M * k = 0)
                       /\ (k <= -1 => M * k <= - M) /\ M * k \in Int
  OBVIOUS
<1>3. q \in Int /\ r \in 0 .. M - 1 /\ n = M * q + r
  BY <1>1
<1> HIDE DEF q, r
<1>4. ASSUME n \in 0 .. M - 1 PROVE r = n
  <2>1. ~ (q >= 1) /\ ~ (q <= -1)
    BY <1>2, <1>3, <1>4
  <2>2. q = 0
    BY <1>3, <2>1
  <2> QED BY <1>2, <1>3, <2>2
<1>5. ASSUME n \in - M .. -1 PROVE r = n + M
  <2>1. ~ (q >= 1) /\ ~ (q <= -2) /\ q # 0
    BY <1>2, <1>3, <1>5
  <2>2. q = -1
    BY <1>3, <2>1
  <2> QED BY <1>2, <1>3, <2>2
<1> QED BY <1>4, <1>5 DEF r

Kinds == {"int", "real", "numeral", "padded", "blank", "text", "nil", "Model", "Tagger"}

(* A value a script can pass, and where.                                   *)
GoodValue(lang, v) ==
  /\ v.is \in Kinds /\ v.n \in Int
  /\ lang = "Perl" /\ v.is \in Classes => v.n # 0

(* The wrapper does to a value what it says.                               *)
Straight(lang, type, v) ==
  Converts(lang, type, v) = IF Fits(type, v) THEN {Meant(type, v)} ELSE {}

LEMMA PythonStraight ==
  ASSUME CallsAssumption, NEW v, GoodValue("Python", v), NEW type \in ArgTypes \cup Classes,
         ~Bent("Python", type, v), type \in Classes => v.is # "nil"
  PROVE  Straight("Python", type, v)
<1> DEFINE U == Python!ULongMax
           I == Python!UIntMax
           X == Python!LongMax
           N == Python!LongMin
<1>1. /\ X \in Nat /\ N = - X - 1 /\ U = 2 * X + 1 /\ I \in 0 .. X /\ MaxFloat \in Nat
  BY WidthsAre
<1>2. v.n \in Int /\ v.is \in Kinds
  BY DEF GoodValue
<1>3. /\ Python!LongMax = X /\ Python!LongMin = N /\ Python!ULongMax = U /\ Python!UIntMax = I
  BY SameWidths
<1> HIDE DEF U, I, X, N
<1>4. Python!Convert(type, v) = IF Fits(type, v) THEN {Meant(type, v)} ELSE {}
  <2>1. CASE type = "size_t"
    BY <1>1, <1>2, <1>3, <2>1
    DEF Python!Convert, Python!size, Fits, Meant,
        Python!AsUnsignedLong, U
  <2>2. CASE type = "unsigned int"
    <3>1. Python!Convert(type, v) = Python!AsUnsignedInt(v)
      BY <2>2, Zenon DEF Python!Convert, Python!size
    <3>2. Fits(type, v) <=> v.is = "int" /\ v.n \in 0 .. I
      BY <2>2, Zenon DEF Fits, I
    <3>3. Meant(type, v) = v.n
      BY <2>2, Zenon DEF Meant
    <3>5. Python!AsUnsignedInt(v) = IF v.is = "int" /\ v.n \in 0 .. I THEN {v.n} ELSE {}
      <4>1. CASE v.is = "int" /\ v.n \in 0 .. I
        BY <1>1, <1>2, <1>3, <4>1 DEF Python!AsUnsignedInt, Python!AsUnsignedLong
      <4>2. CASE v.is = "int" /\ v.n \notin 0 .. I
        BY <1>1, <1>2, <1>3, <4>2 DEF Python!AsUnsignedInt, Python!AsUnsignedLong
      <4>3. CASE v.is # "int"
        BY <1>1, <1>2, <1>3, <4>3 DEF Python!AsUnsignedInt, Python!AsUnsignedLong, Kinds
      <4> QED BY <4>1, <4>2, <4>3
    <3> QED BY <3>1, <3>2, <3>3, <3>5
  <2>3. CASE type = "float"
    BY <1>1, <1>2, <2>3
    DEF Python!Convert, Python!size, Fits, Meant,
        Python!AsFloat, Python!AsDouble
  <2>4. CASE type = "double"
    BY <1>2, <2>4
    DEF Python!Convert, Python!size, Fits, Meant,
        Python!AsDouble
  <2>5. CASE type = "text"
    BY <1>2, <2>5
    DEF Python!Convert, Python!size, Fits, Meant,
        Python!AsCharPtr, Python!IsString, Bent, Kinds
  <2>6. CASE type = "Model&"
    BY <1>2, <2>6
    DEF Python!Convert, Python!size, Fits, Meant,
        Python!ConvertPtr
  <2>7. CASE type = "Model"
    BY <1>2, <2>7
    DEF Python!Convert, Python!size, Fits, Meant,
        Python!ConvertPtr, GoodValue, Bent, Classes
  <2>8. CASE type = "Tagger"
    BY <1>2, <2>8
    DEF Python!Convert, Python!size, Fits, Meant,
        Python!ConvertPtr, GoodValue, Bent, Classes
  <2> QED BY <2>1, <2>2, <2>3, <2>4, <2>5, <2>6, <2>7, <2>8 DEF ArgTypes, Classes
<1> QED BY <1>4 DEF Straight, Converts

LEMMA PerlStraight ==
  ASSUME CallsAssumption, NEW v, GoodValue("Perl", v), NEW type \in ArgTypes \cup Classes,
         ~Bent("Perl", type, v), type \in Classes => v.is # "nil"
  PROVE  Straight("Perl", type, v)
<1> DEFINE U == Python!ULongMax
           I == Python!UIntMax
           X == Python!LongMax
           N == Python!LongMin
<1>1. /\ X \in Nat /\ N = - X - 1 /\ U = 2 * X + 1 /\ I \in 0 .. X /\ MaxFloat \in Nat
  BY WidthsAre
<1>2. v.n \in Int /\ v.is \in Kinds
  BY DEF GoodValue
<1>3. /\ Perl!LongMax = X /\ Perl!LongMin = N /\ Perl!ULongMax = U /\ Perl!UIntMax = I
  BY SameWidths
<1> HIDE DEF U, I, X, N
<1>4. Perl!Convert(type, v) = IF Fits(type, v) THEN {Meant(type, v)} ELSE {}
  <2>1. CASE type = "size_t"
    BY <1>1, <1>2, <1>3, <2>1
    DEF Perl!Convert, Perl!size, Fits, Meant,
        Perl!AsUnsignedLong, Bent, IsNumber, Kinds, U
  <2>2. CASE type = "unsigned int"
    <3>1. Perl!Convert(type, v) = Perl!AsUnsignedInt(v)
      BY <2>2, Zenon DEF Perl!Convert, Perl!size
    <3>2. Fits(type, v) <=> v.is = "int" /\ v.n \in 0 .. I
      BY <2>2, Zenon DEF Fits, I
    <3>3. Meant(type, v) = v.n
      BY <2>2, Zenon DEF Meant
    <3>4. ~(v.is \in {"nil", "blank", "numeral", "padded"}) /\ ~(v.is = "real" /\ v.n % 2 = 0)
      BY <2>2 DEF Bent, IsNumber
    <3>5. Perl!AsUnsignedInt(v) = IF v.is = "int" /\ v.n \in 0 .. I THEN {v.n} ELSE {}
      <4>1. CASE v.is = "int" /\ v.n \in 0 .. I
        BY <1>1, <1>2, <1>3, <3>4, <4>1, RemainderIs
        DEF Perl!AsUnsignedInt, Perl!AsUnsignedLong, Perl!Strtoul
      <4>2. CASE v.is = "int" /\ v.n \notin 0 .. I
        BY <1>1, <1>2, <1>3, <3>4, <4>2 DEF Perl!AsUnsignedInt, Perl!AsUnsignedLong, Perl!Strtoul
      <4>3. CASE v.is # "int"
        BY <1>1, <1>2, <1>3, <3>4, <4>3 DEF Perl!AsUnsignedInt, Perl!AsUnsignedLong, Perl!Strtoul, Kinds
      <4> QED BY <4>1, <4>2, <4>3
    <3> QED BY <3>1, <3>2, <3>3, <3>5
  <2>3. CASE type = "float"
    BY <1>1, <1>2, <2>3
    DEF Perl!Convert, Perl!size, Fits, Meant,
        Perl!AsFloat, Perl!AsDouble, Bent, IsNumber, Kinds
  <2>4. CASE type = "double"
    BY <1>2, <2>4
    DEF Perl!Convert, Perl!size, Fits, Meant,
        Perl!AsDouble, Bent, IsNumber, Kinds
  <2>5. CASE type = "text"
    BY <1>2, <2>5
    DEF Perl!Convert, Perl!size, Fits, Meant,
        Perl!AsCharPtr, Perl!IsString, Python!IsString, Bent, Kinds
  <2>6. CASE type = "Model&"
    BY <1>2, <2>6
    DEF Perl!Convert, Perl!size, Fits, Meant,
        Perl!ConvertPtr, GoodValue, Classes
  <2>7. CASE type = "Model"
    BY <1>2, <2>7
    DEF Perl!Convert, Perl!size, Fits, Meant,
        Perl!ConvertPtr, GoodValue, Bent, Classes
  <2>8. CASE type = "Tagger"
    BY <1>2, <2>8
    DEF Perl!Convert, Perl!size, Fits, Meant,
        Perl!ConvertPtr, GoodValue, Bent, Classes
  <2> QED BY <2>1, <2>2, <2>3, <2>4, <2>5, <2>6, <2>7, <2>8 DEF ArgTypes, Classes
<1> QED BY <1>4 DEF Straight, Converts

LEMMA RubyStraight ==
  ASSUME CallsAssumption, NEW v, GoodValue("Ruby", v), NEW type \in ArgTypes \cup Classes,
         ~Bent("Ruby", type, v), type \in Classes => v.is # "nil"
  PROVE  Straight("Ruby", type, v)
<1> DEFINE U == Python!ULongMax
           I == Python!UIntMax
           X == Python!LongMax
           N == Python!LongMin
<1>1. /\ X \in Nat /\ N = - X - 1 /\ U = 2 * X + 1 /\ I \in 0 .. X /\ MaxFloat \in Nat
  BY WidthsAre
<1>2. v.n \in Int /\ v.is \in Kinds
  BY DEF GoodValue
<1>3. /\ Ruby!LongMax = X /\ Ruby!LongMin = N /\ Ruby!ULongMax = U /\ Ruby!UIntMax = I
  BY SameWidths
<1> HIDE DEF U, I, X, N
<1>4. Ruby!Convert(type, v) = IF Fits(type, v) THEN {Meant(type, v)} ELSE {}
  <2>1. CASE type = "size_t"
    <3>1. Ruby!Convert(type, v) = Ruby!AsUnsignedLong(v)
      BY <2>1 DEF Ruby!Convert, Ruby!size
    <3>2. Fits(type, v) <=> v.is = "int" /\ v.n \in 0 .. U
      BY <2>1 DEF Fits, U
    <3>3. Meant(type, v) = v.n
      BY <2>1 DEF Meant
    <3>4. v.is = "int" => v.n >= 0
      BY <1>2, <2>1 DEF Bent, IsNumber
    <3>5. Ruby!AsUnsignedLong(v) = IF v.is = "int" /\ v.n \in 0 .. U THEN {v.n} ELSE {}
      <4>1. CASE v.is = "int" /\ v.n \in 0 .. U
        <5>1. U + 1 \in Nat \ {0} /\ v.n \in 0 .. (U + 1) - 1 /\ v.n \in N .. U
          BY <1>1, <4>1
        <5>2. v.n % (U + 1) = v.n
          BY <1>2, <5>1, RemainderIs
        <5> QED BY <1>3, <4>1, <5>1, <5>2 DEF Ruby!AsUnsignedLong
      <4>2. CASE v.is = "int" /\ v.n \notin 0 .. U
        BY <1>1, <1>2, <1>3, <3>4, <4>2, RemainderIs DEF Ruby!AsUnsignedInt, Ruby!AsUnsignedLong
      <4>3. CASE v.is # "int"
        BY <1>1, <1>2, <1>3, <3>4, <4>3 DEF Ruby!AsUnsignedInt, Ruby!AsUnsignedLong, Kinds
      <4> QED BY <4>1, <4>2, <4>3
    <3> QED BY <3>1, <3>2, <3>3, <3>5
  <2>2. CASE type = "unsigned int"
    <3>1. Ruby!Convert(type, v) = Ruby!AsUnsignedInt(v)
      BY <2>2, Zenon DEF Ruby!Convert, Ruby!size
    <3>2. Fits(type, v) <=> v.is = "int" /\ v.n \in 0 .. I
      BY <2>2, Zenon DEF Fits, I
    <3>3. Meant(type, v) = v.n
      BY <2>2, Zenon DEF Meant
    <3>5. Ruby!AsUnsignedInt(v) = IF v.is = "int" /\ v.n \in 0 .. I THEN {v.n} ELSE {}
      <4>1. CASE v.is = "int" /\ v.n \in 0 .. I
        BY <1>1, <1>2, <1>3, <4>1, RemainderIs DEF Ruby!AsUnsignedInt, Ruby!AsUnsignedLong
      <4>2. CASE v.is = "int" /\ v.n \notin 0 .. I
        <5>1. ASSUME v.n \in N .. U PROVE ~(v.n % (U + 1) <= I)
          <6>1. U + 1 \in Nat \ {0} /\ U + 1 = 2 * X + 2
            BY <1>1
          <6>2. CASE v.n \in 0 .. (U + 1) - 1
            <7>1. v.n % (U + 1) = v.n
              BY <1>2, <6>1, <6>2, RemainderIs
            <7>2. v.n > I
              BY <1>1, <1>2, <4>2, <6>2
            <7> QED BY <1>1, <1>2, <7>1, <7>2
          <6>3. CASE v.n \in - (U + 1) .. -1
            <7>1. v.n % (U + 1) = v.n + (U + 1)
              BY <1>2, <6>1, <6>3, RemainderIs
            <7>2. v.n + (U + 1) > I
              BY <1>1, <1>2, <5>1
            <7> QED BY <1>1, <1>2, <7>1, <7>2
          <6> QED BY <1>1, <1>2, <5>1, <6>2, <6>3
        <5>2. \A n \in Ruby!AsUnsignedLong(v) : ~(n <= I)
          BY <1>3, <5>1 DEF Ruby!AsUnsignedLong
        <5> QED BY <1>3, <4>2, <5>2 DEF Ruby!AsUnsignedInt
      <4>3. CASE v.is # "int"
        BY <1>1, <1>2, <1>3, <4>3 DEF Ruby!AsUnsignedInt, Ruby!AsUnsignedLong, Kinds
      <4> QED BY <4>1, <4>2, <4>3
    <3> QED BY <3>1, <3>2, <3>3, <3>5
  <2>3. CASE type = "float"
    BY <1>1, <1>2, <2>3
    DEF Ruby!Convert, Ruby!size, Fits, Meant,
        Ruby!AsFloat, Ruby!AsDouble
  <2>4. CASE type = "double"
    BY <1>2, <2>4
    DEF Ruby!Convert, Ruby!size, Fits, Meant,
        Ruby!AsDouble
  <2>5. CASE type = "text"
    BY <1>2, <2>5
    DEF Ruby!Convert, Ruby!size, Fits, Meant,
        Ruby!AsCharPtr, Ruby!IsString, Python!IsString, Bent, Kinds
  <2>6. CASE type = "Model&"
    BY <1>2, <2>6
    DEF Ruby!Convert, Ruby!size, Fits, Meant,
        Ruby!ConvertPtr
  <2>7. CASE type = "Model"
    BY <1>2, <2>7
    DEF Ruby!Convert, Ruby!size, Fits, Meant,
        Ruby!ConvertPtr, GoodValue, Bent, Classes
  <2>8. CASE type = "Tagger"
    BY <1>2, <2>8
    DEF Ruby!Convert, Ruby!size, Fits, Meant,
        Ruby!ConvertPtr, GoodValue, Bent, Classes
  <2> QED BY <2>1, <2>2, <2>3, <2>4, <2>5, <2>6, <2>7, <2>8 DEF ArgTypes, Classes
<1> QED BY <1>4 DEF Straight, Converts

LEMMA JavaStraight ==
  ASSUME CallsAssumption, NEW v, GoodValue("Java", v), NEW type \in ArgTypes \cup Classes,
         ~Bent("Java", type, v), type \in Classes => v.is # "nil"
  PROVE  Straight("Java", type, v)
<1> DEFINE U == Python!ULongMax
           I == Python!UIntMax
           X == Python!LongMax
           N == Python!LongMin
<1>1. /\ X \in Nat /\ N = - X - 1 /\ U = 2 * X + 1 /\ I \in 0 .. X /\ MaxFloat \in Nat
  BY WidthsAre
<1>2. v.n \in Int /\ v.is \in Kinds
  BY DEF GoodValue
<1>3. /\ Java!LongMax = X /\ Java!LongMin = N /\ Java!ULongMax = U /\ Java!UIntMax = I
  BY SameWidths
<1> HIDE DEF U, I, X, N
<1>4. Java!Convert(type, v) = IF Fits(type, v) THEN {Meant(type, v)} ELSE {}
  <2>1. CASE type = "size_t"
    <3>1. Java!Convert(type, v) = Java!AsSize(v)
      BY <2>1 DEF Java!Convert, Java!size
    <3>2. Fits(type, v) <=> v.is = "int" /\ v.n \in 0 .. U
      BY <2>1 DEF Fits, U
    <3>3. Meant(type, v) = v.n
      BY <2>1 DEF Meant
    <3>4. v.is = "int" => v.n \in 0 .. X
      BY <1>1, <1>2, <2>1 DEF Bent, IsNumber, X, N
    <3>5. Java!AsSize(v) = IF v.is = "int" /\ v.n \in 0 .. U THEN {v.n} ELSE {}
      <4>1. CASE v.is = "int" /\ v.n \in 0 .. U
        <5>1. U + 1 \in Nat \ {0} /\ v.n \in 0 .. (U + 1) - 1 /\ v.n \in N .. X
          BY <1>1, <3>4, <4>1
        <5>2. v.n % (U + 1) = v.n
          BY <1>2, <5>1, RemainderIs
        <5>3. Java!Long(v) = {v.n}
          BY <1>3, <4>1, <5>1 DEF Java!Long
        <5> QED BY <1>3, <4>1, <5>2, <5>3 DEF Java!AsSize
      <4>2. CASE v.is = "int" /\ v.n \notin 0 .. U
        BY <1>1, <1>2, <1>3, <3>4, <4>2, RemainderIs DEF Java!AsUnsignedInt, Java!AsSize, Java!Long
      <4>3. CASE v.is # "int"
        BY <1>1, <1>2, <1>3, <3>4, <4>3 DEF Java!AsUnsignedInt, Java!AsSize, Java!Long, Kinds
      <4> QED BY <4>1, <4>2, <4>3
    <3> QED BY <3>1, <3>2, <3>3, <3>5
  <2>2. CASE type = "unsigned int"
    <3>1. Java!Convert(type, v) = Java!AsUnsignedInt(v)
      BY <2>2, Zenon DEF Java!Convert, Java!size
    <3>2. Fits(type, v) <=> v.is = "int" /\ v.n \in 0 .. I
      BY <2>2, Zenon DEF Fits, I
    <3>3. Meant(type, v) = v.n
      BY <2>2, Zenon DEF Meant
    <3>4. v.is = "int" => v.n \in 0 .. I
      BY <2>2 DEF Bent, IsNumber, I
    <3>5. Java!AsUnsignedInt(v) = IF v.is = "int" /\ v.n \in 0 .. I THEN {v.n} ELSE {}
      <4>1. CASE v.is = "int" /\ v.n \in 0 .. I
        <5>1. I + 1 \in Nat \ {0} /\ v.n \in 0 .. (I + 1) - 1 /\ v.n \in N .. X
          BY <1>1, <4>1
        <5>2. v.n % (I + 1) = v.n
          BY <1>2, <5>1, RemainderIs
        <5>3. Java!Long(v) = {v.n}
          BY <1>3, <4>1, <5>1 DEF Java!Long
        <5> QED BY <1>3, <4>1, <5>2, <5>3 DEF Java!AsUnsignedInt
      <4>2. CASE v.is = "int" /\ v.n \notin 0 .. I
        BY <1>1, <1>2, <1>3, <3>4, <4>2, RemainderIs DEF Java!AsUnsignedInt, Java!AsSize, Java!Long
      <4>3. CASE v.is # "int"
        BY <1>1, <1>2, <1>3, <3>4, <4>3 DEF Java!AsUnsignedInt, Java!AsSize, Java!Long, Kinds
      <4> QED BY <4>1, <4>2, <4>3
    <3> QED BY <3>1, <3>2, <3>3, <3>5
  <2>3. CASE type = "float"
    BY <1>1, <1>2, <1>3, <2>3
    DEF Java!Convert, Java!size, Fits, Meant,
        Java!AsFloat, Java!AsDouble, Java!Long, Bent, IsNumber, X, N
  <2>4. CASE type = "double"
    BY <1>1, <1>2, <1>3, <2>4
    DEF Java!Convert, Java!size, Fits, Meant,
        Java!AsDouble, Java!Long, Bent, IsNumber, X, N
  <2>5. CASE type = "text"
    BY <1>2, <2>5
    DEF Java!Convert, Java!size, Fits, Meant,
        Java!AsCharPtr, Java!IsString, Python!IsString, Bent, Kinds
  <2>6. CASE type = "Model&"
    BY <1>2, <2>6
    DEF Java!Convert, Java!size, Fits, Meant,
        Java!GetCPtr
  <2>7. CASE type = "Model"
    BY <1>2, <2>7
    DEF Java!Convert, Java!size, Fits, Meant,
        Java!Self, GoodValue, Bent, Classes
  <2>8. CASE type = "Tagger"
    BY <1>2, <2>8
    DEF Java!Convert, Java!size, Fits, Meant,
        Java!Self, GoodValue, Bent, Classes
  <2> QED BY <2>1, <2>2, <2>3, <2>4, <2>5, <2>6, <2>7, <2>8 DEF ArgTypes, Classes
<1> QED BY <1>4 DEF Straight, Converts

(* A null pointer comes of nil, and in Java of a receiver besides.         *)
LEMMA NullIs ==
  ASSUME NEW lang \in {"Python", "Perl", "Ruby", "Java"}, NEW v, GoodValue(lang, v),
         NEW type \in {"text", "Model&"} \cup Classes, 0 \in Converts(lang, type, v)
  PROVE  v.is = "nil" \/ (lang = "Java" /\ type \in Classes)
<1>1. v.n \in Int /\ v.is \in Kinds
  BY DEF GoodValue
<1> SUFFICES ASSUME v.is # "nil", ~(lang = "Java" /\ type \in Classes) PROVE FALSE
  OBVIOUS
<1>2. CASE lang = "Python"
  <2>1. 0 \in Python!Convert(type, v)
    BY <1>2 DEF Converts
  <2>2. CASE type = "text"
    <3>1. 0 \in Python!AsCharPtr(v)
      BY <2>1, <2>2 DEF Python!Convert, Python!size
    <3> QED BY <3>1 DEF Python!AsCharPtr
  <2>3. CASE type = "Model&"
    <3>1. 0 \in Python!ConvertPtr("Model", v) \ {0}
      BY <2>1, <2>3 DEF Python!Convert, Python!size
    <3> QED BY <3>1
  <2>4. CASE type \in Classes
    <3>1. 0 \in Python!ConvertPtr(type, v)
      BY <2>1, <2>4 DEF Python!Convert, Python!size, Classes
    <3>2. v.is = type /\ v.n = 0
      BY <3>1 DEF Python!ConvertPtr
    <3> QED BY <2>4, <3>1, <3>2 DEF Python!ConvertPtr
  <2> QED BY <2>2, <2>3, <2>4
<1>3. CASE lang = "Perl"
  <2>1. 0 \in Perl!Convert(type, v)
    BY <1>3 DEF Converts
  <2>2. CASE type = "text"
    <3>1. 0 \in Perl!AsCharPtr(v)
      BY <2>1, <2>2 DEF Perl!Convert, Perl!size
    <3> QED BY <3>1 DEF Perl!AsCharPtr
  <2>3. CASE type = "Model&"
    <3>1. 0 \in Perl!ConvertPtr("Model", v) \ {0}
      BY <2>1, <2>3 DEF Perl!Convert, Perl!size
    <3> QED BY <3>1
  <2>4. CASE type \in Classes
    <3>1. 0 \in Perl!ConvertPtr(type, v)
      BY <2>1, <2>4 DEF Perl!Convert, Perl!size, Classes
    <3>2. v.is = type /\ v.n = 0
      BY <3>1 DEF Perl!ConvertPtr
    <3> QED BY <1>3, <2>4, <3>1, <3>2 DEF Perl!ConvertPtr, GoodValue, Classes
  <2> QED BY <2>2, <2>3, <2>4
<1>4. CASE lang = "Ruby"
  <2>1. 0 \in Ruby!Convert(type, v)
    BY <1>4 DEF Converts
  <2>2. CASE type = "text"
    <3>1. 0 \in Ruby!AsCharPtr(v)
      BY <2>1, <2>2 DEF Ruby!Convert, Ruby!size
    <3> QED BY <3>1 DEF Ruby!AsCharPtr
  <2>3. CASE type = "Model&"
    <3>1. 0 \in Ruby!ConvertPtr("Model", v) \ {0}
      BY <2>1, <2>3 DEF Ruby!Convert, Ruby!size
    <3> QED BY <3>1
  <2>4. CASE type \in Classes
    <3>1. 0 \in Ruby!ConvertPtr(type, v)
      BY <2>1, <2>4 DEF Ruby!Convert, Ruby!size, Classes
    <3>2. v.is = type /\ v.n = 0
      BY <3>1 DEF Ruby!ConvertPtr
    <3> QED BY <2>4, <3>1, <3>2 DEF Ruby!ConvertPtr
  <2> QED BY <2>2, <2>3, <2>4
<1>5. CASE lang = "Java"
  <2>1. 0 \in Java!Convert(type, v)
    BY <1>5 DEF Converts
  <2>2. CASE type = "text"
    <3>1. 0 \in Java!AsCharPtr(v)
      BY <2>1, <2>2 DEF Java!Convert, Java!size
    <3> QED BY <3>1 DEF Java!AsCharPtr
  <2>3. CASE type = "Model&"
    <3>1. 0 \in Java!GetCPtr("Model", v) \ {0}
      BY <2>1, <2>3 DEF Java!Convert, Java!size
    <3> QED BY <3>1
  <2> QED BY <1>5, <2>2, <2>3
<1> QED BY <1>2, <1>3, <1>4, <1>5

GoodCall(c) ==
  /\ c.lang \in {"Python", "Perl", "Ruby", "Java"}
  /\ Len(c.argv) \in Nat /\ Len(c.argv) >= 1 /\ DOMAIN c.argv = 1 .. Len(c.argv)
  /\ \A i \in 1 .. Len(c.argv) : GoodValue(c.lang, c.argv[i])
  /\ c.lang \in {"Ruby", "Java"} => c.argv[1].is # "nil"

(* No stub of a call bends an argument.                                    *)
StraightCall(c) ==
  \A s \in StubsOf(c) : \A i \in DOMAIN c.argv : ~Bent(c.lang, TypeOf(s, i), c.argv[i])

Right(c, s) == \A i \in DOMAIN c.argv : Fits(TypeOf(s, i), c.argv[i])

LEMMA StraightIs ==
  ASSUME CallsAssumption, NEW c, GoodCall(c), StraightCall(c), NEW s \in StubsOf(c),
         NEW i \in 1 .. Len(c.argv)
  PROVE  Straight(c.lang, TypeOf(s, i), c.argv[i])
<1> DEFINE type == TypeOf(s, i)
           v == c.argv[i]
<1>1. /\ c.lang \in {"Python", "Perl", "Ruby", "Java"} /\ GoodValue(c.lang, v)
      /\ ~Bent(c.lang, type, v)
  BY DEF GoodCall, StraightCall
<1>2. (i = 1 => type \in Classes) /\ (i # 1 => type \in ArgTypes)
  BY TypesAre DEF GoodCall
<1>3. c.lang \in {"Ruby", "Java"} /\ i = 1 => v.is # "nil"
  BY DEF GoodCall
<1> HIDE DEF type, v
<1>4. type \in Classes => v.is # "nil"
  <2>1. CASE c.lang \in {"Python", "Perl"}
    BY <1>1, <2>1 DEF Bent, Classes
  <2>2. CASE c.lang \in {"Ruby", "Java"}
    <3>1. type \in Classes => i = 1
      BY <1>2 DEF Classes, ArgTypes
    <3> QED BY <1>3, <2>2, <3>1
  <2> QED BY <1>1, <2>1, <2>2
<1>5. type \in ArgTypes \cup Classes
  BY <1>2
<1>6. Straight(c.lang, type, v)
  BY <1>1, <1>4, <1>5, PythonStraight, PerlStraight, RubyStraight, JavaStraight
<1> QED BY <1>6 DEF type, v

LEMMA AcceptingIs ==
  ASSUME CallsAssumption, NEW c, GoodCall(c), StraightCall(c), NEW s \in StubsOf(c)
  PROVE  /\ s \in Accepting(c) <=> Right(c, s)
         /\ Right(c, s) => Entered(c, s) =
              Python!Native(c.name, [i \in DOMAIN c.argv |-> Meant(TypeOf(s, i), c.argv[i])])
<1>1. \A i \in 1 .. Len(c.argv) : Straight(c.lang, TypeOf(s, i), c.argv[i])
  BY StraightIs
<1>2. DOMAIN c.argv = 1 .. Len(c.argv)
  BY DEF GoodCall
<1>3. \A i \in 1 .. Len(c.argv) :
        Converts(c.lang, TypeOf(s, i), c.argv[i]) # {} <=> Fits(TypeOf(s, i), c.argv[i])
  BY <1>1 DEF Straight
<1>4. s \in Accepting(c) <=> Right(c, s)
  BY <1>2, <1>3 DEF Accepting, Right
<1>5. ASSUME Right(c, s)
      PROVE  Entered(c, s) =
              Python!Native(c.name, [i \in DOMAIN c.argv |-> Meant(TypeOf(s, i), c.argv[i])])
  <2> DEFINE X(i) == Converts(c.lang, TypeOf(s, i), c.argv[i])
             M(i) == Meant(TypeOf(s, i), c.argv[i])
  <2>1. ASSUME NEW i \in 1 .. Len(c.argv) PROVE (CHOOSE a \in X(i) : TRUE) = M(i)
    <3>1. X(i) = {M(i)}
      BY <1>1, <1>2, <1>5 DEF Straight, Right
    <3> HIDE DEF X, M
    <3> QED BY <3>1
  <2>2. [i \in 1 .. Len(c.argv) |-> CHOOSE a \in X(i) : TRUE] = [i \in DOMAIN c.argv |-> M(i)]
    <3> HIDE DEF X, M
    <3> QED BY <1>2, <2>1
  <2> QED BY <2>2 DEF Entered
<1> QED BY <1>4, <1>5

LEMMA OneRight ==
  ASSUME NEW c, GoodCall(c), NEW s \in StubsOf(c), NEW t \in StubsOf(c), Right(c, s), Right(c, t)
  PROVE  s = t
<1>1. s.args = t.args /\ s.name = t.name
  BY SameArguments DEF StubsOf
<1>2. s \in Python!Declared /\ t \in Python!Declared
  BY DEF StubsOf
<1>3. Shaped(s) /\ Shaped(t)
  BY <1>2, DeclaredIs DEF StubListed, Tabled
<1>4. ASSUME NEW u \in StubsOf(c), Right(c, u) PROVE u.class = c.argv[1].is
  <2>1. 1 \in DOMAIN c.argv
    BY DEF GoodCall
  <2>2. Fits(u.class, c.argv[1])
    BY <1>4, <2>1 DEF Right, TypeOf
  <2>3. u.class \in Classes
    BY ArgsAre DEF StubsOf
  <2>4. CASE u.class = "Model"
    BY <2>2, <2>4 DEF Fits
  <2>5. CASE u.class = "Tagger"
    BY <2>2, <2>5 DEF Fits
  <2> QED BY <2>3, <2>4, <2>5 DEF Classes
<1>5. s.class = t.class
  BY <1>4
<1> QED BY <1>1, <1>3, <1>5 DEF Shaped

LEMMA DeclaredCall ==
  ASSUME CallsAssumption, NEW c, GoodCall(c), StraightCall(c)
  PROVE  IF \E s \in StubsOf(c) : Right(c, s)
         THEN LET s == CHOOSE s \in StubsOf(c) : Right(c, s)
              IN  Called(c) = Python!Native(c.name,
                                [i \in DOMAIN c.argv |-> Meant(TypeOf(s, i), c.argv[i])])
         ELSE Called(c) = Python!Refused
<1>0. c.lang \in {"Python", "Perl", "Ruby", "Java"}
  BY DEF GoodCall
<1>1. CASE \E s \in StubsOf(c) : Right(c, s)
  <2> DEFINE r == CHOOSE s \in StubsOf(c) : Right(c, s)
  <2>1. r \in StubsOf(c) /\ Right(c, r)
    BY <1>1
  <2> HIDE DEF r
  <2>2. r \in Accepting(c)
    BY <2>1, AcceptingIs
  <2>3. PICK s \in Accepting(c) : Called(c) = Entered(c, s)
    BY <1>0, <2>2, CalledIs
  <2>4. s \in StubsOf(c)
    BY DEF Accepting
  <2>5. Right(c, s)
    BY <2>4, AcceptingIs
  <2>6. s = r
    BY <2>1, <2>4, <2>5, OneRight
  <2>7. Called(c) = Python!Native(c.name, [i \in DOMAIN c.argv |-> Meant(TypeOf(r, i), c.argv[i])])
    BY <2>1, <2>3, <2>6, AcceptingIs
  <2> QED BY <1>1, <2>7 DEF r
<1>2. CASE ~ \E s \in StubsOf(c) : Right(c, s)
  <2>1. Accepting(c) \subseteq StubsOf(c)
    BY DEF Accepting
  <2>2. Accepting(c) = {}
    BY <1>2, <2>1, AcceptingIs
  <2>3. Called(c) = Python!Refused
    BY <1>0, <2>2, CalledIs
  <2> QED BY <1>2, <2>3
<1> QED BY <1>1, <1>2

LEMMA NullCall ==
  ASSUME NEW c, GoodCall(c), Called(c).kind = "native",
         NEW s \in StubsOf(c), NEW i \in DOMAIN c.argv,
         ~IsNumber(TypeOf(s, i)), Called(c).args[i] = 0
  PROVE  c.argv[i].is = "nil" \/ (c.lang = "Java" /\ i = 1)
<1>0. /\ c.lang \in {"Python", "Perl", "Ruby", "Java"} /\ Len(c.argv) \in Nat
      /\ i \in 1 .. Len(c.argv) /\ GoodValue(c.lang, c.argv[i])
  BY DEF GoodCall
<1>1. Accepting(c) # {}
  <2>1. Accepting(c) = {} => Called(c) = Python!Refused
    BY <1>0, CalledIs
  <2>2. Python!Refused.kind = "refused"
    BY DEF Python!Refused
  <2>3. Called(c) # Python!Refused
    BY <2>2
  <2> QED BY <2>1, <2>3
<1>2. PICK t \in Accepting(c) : Called(c) = Entered(c, t)
  BY <1>0, <1>1, CalledIs
<1>3. t \in StubsOf(c)
  BY DEF Accepting
<1> DEFINE X == Converts(c.lang, TypeOf(t, i), c.argv[i])
<1>4. 0 \in X
  <2>1. X # {}
    BY <1>0 DEF Accepting
  <2>2. Called(c).args[i] = CHOOSE a \in X : TRUE
    BY <1>0, <1>2 DEF Entered, Python!Native
  <2> HIDE DEF X
  <2> QED BY <2>1, <2>2
<1>5. CASE i = 1
  <2>1. TypeOf(t, i) \in Classes
    BY <1>0, <1>3, <1>5, TypesAre
  <2> QED BY <1>0, <1>4, <1>5, <2>1, NullIs
<1>6. CASE i # 1
  <2>1. TypeOf(t, i) \in ArgTypes
    BY <1>0, <1>3, <1>6, TypesAre
  <2>2. TypeOf(t, i) = TypeOf(s, i)
    BY <1>3, <1>6, SameArguments DEF TypeOf
  <2>3. TypeOf(t, i) \in {"text", "Model&"}
    BY <2>1, <2>2 DEF IsNumber, ArgTypes
  <2>4. TypeOf(t, i) \notin Classes
    BY <2>3 DEF Classes
  <2> QED BY <1>0, <1>4, <2>3, <2>4, NullIs
<1> QED BY <1>5, <1>6

CallKnown == When("call") => case.input \in Calls

(* Whatever the widths of the types and the call, it enters the function   *)
(* the class declares with the very values of the script or is refused,    *)
(* and no null pointer comes from anything but nil or a receiver of Java   *)
(* (the stubs of the four wrappers).                                       *)
THEOREM CallsAlwaysAsDeclared == CasesSpec => []CallsAsDeclared
<1>1. CasesInit => CallKnown
  BY DEF CasesInit, Case, CallKnown, When
<1>2. CallKnown /\ [CasesNext]_case => CallKnown'
  BY DEF CallKnown, When, CasesNext
<1>3. CallKnown => CallsAsDeclared
  <2> SUFFICES ASSUME CallKnown, When("call") PROVE CallsAsDeclared
    BY DEF CallsAsDeclared
  <2> DEFINE c == case.input
  <2>1. c \in Calls
    BY DEF CallKnown
  <2> HIDE DEF c
  <2>2. GoodCall(c)
    <3>1. /\ c.lang \in {"Python", "Perl", "Ruby", "Java"}
          /\ c.argv \in Seq({c.argv[i] : i \in DOMAIN c.argv}) /\ c.argv # <<>>
          /\ c.lang \in {"Ruby", "Java"} => c.argv[1].is # "nil"
      BY <2>1, CallsAssumption DEF CallsAssumption
    <3>2. \A i \in DOMAIN c.argv : GoodValue(c.lang, c.argv[i])
      BY <2>1, CallsAssumption DEF CallsAssumption, GoodValue, Kinds, Classes
    <3> DEFINE R == {c.argv[i] : i \in DOMAIN c.argv}
    <3>3. c.argv \in Seq(R)
      BY <3>1
    <3> HIDE DEF R
    <3>4. Len(c.argv) \in Nat /\ DOMAIN c.argv = 1 .. Len(c.argv) /\ Len(c.argv) # 0
      BY <3>1, <3>3
    <3> QED BY <3>1, <3>2, <3>4 DEF GoodCall
  <2>3. StraightCall(c) =>
          IF \E s \in StubsOf(c) : Right(c, s)
          THEN LET s == CHOOSE s \in StubsOf(c) : Right(c, s)
               IN  Called(c) = Python!Native(c.name,
                                 [i \in DOMAIN c.argv |-> Meant(TypeOf(s, i), c.argv[i])])
          ELSE Called(c) = Python!Refused
    BY <2>2, DeclaredCall, CallsAssumption
  <2>4. Called(c).kind = "native" =>
          \A s \in StubsOf(c) : \A i \in DOMAIN c.argv :
            ~IsNumber(TypeOf(s, i)) /\ Called(c).args[i] = 0
            => c.argv[i].is = "nil" \/ (c.lang = "Java" /\ i = 1)
    BY <2>2, NullCall
  <2> QED BY <2>3, <2>4 DEF CallsAsDeclared, StubsOf, StraightCall, Right, c
<1> QED BY <1>1, <1>2, <1>3, PTL DEF CasesSpec
=============================================================================
