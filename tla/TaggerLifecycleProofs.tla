------------------------ MODULE TaggerLifecycleProofs ------------------------
(* TaggerLifecycle for every client, whatever liberties it takes, and      *)
(* whatever the models, the lines and the length of the sentences.         *)
EXTENDS TaggerLifecycle, TLAPS

(* A lattice is known by what it was built from.                           *)
LEMMA Lattices ==
  ASSUME NEW s, NEW i, NEW p
  PROVE  /\ Lat(s, i, p).x = s /\ Lat(s, i, p).index = i
         /\ Lat(s, i, p) # NoLattice /\ Drained # NoLattice
<1>1. Lat(s, i, p).kind = "lattice" /\ NoLattice.kind = "none" /\ Drained.kind = "drained"
  BY DEF Lat, NoLattice, Drained
<1>2. Lat(s, i, p).x = s /\ Lat(s, i, p).index = i
  BY DEF Lat
<1> QED BY <1>1, <1>2

(* Which faults a liberty can bring about.                                 *)
LEMMA Earned ==
  /\ May("dirty") => \A f \in Faults : takes \cap Earns(f) # {}
  /\ May("closed") => \A f \in {"memory", "penalty", "agenda"} : takes \cap Earns(f) # {}
  /\ May("penalty") => takes \cap Earns("penalty") # {}
  /\ May("unparsed") => \A f \in {"nodes", "agenda"} : takes \cap Earns(f) # {}
  /\ May("options") \/ May("empty") => takes \cap Earns("agenda") # {}
<1>1. /\ Earns("memory") = {"closed", "dirty"}
      /\ Earns("rows") = {"dirty"} /\ Earns("labels") = {"dirty"}
      /\ Earns("penalty") = {"penalty", "dirty", "closed"}
      /\ Earns("nodes") = {"unparsed", "dirty"}
      /\ Earns("agenda") = {"closed", "dirty", "empty", "options", "unparsed"}
  BY DEF Earns
<1> QED BY <1>1 DEF May, Faults

(* A call on which the code goes wrong changes nothing else.               *)
LEMMA StopsKeeps ==
  ASSUME IInv, NEW f, Stops(f), f \in Faults, takes \cap Earns(f) # {}
  PROVE  IInv'
<1>1. fault' = f /\ UNCHANGED <<takes, stage, taggerVars>>
  BY DEF Stops
<1>2. TypeOK'
  BY <1>1 DEF IInv, TypeOK, Working, taggerVars, modelVars, optionVars, contextVars
<1>3. Held' /\ Context' /\ Penalty' /\ Parsed'
  BY <1>1 DEF IInv, Held, Context, Penalty, Parsed, Working, May, taggerVars, modelVars,
         optionVars, contextVars, answerVars
<1>4. UndefinedEarned'
  BY <1>1 DEF UndefinedEarned
<1>5. AnswerCurrent' /\ OwnedOnce'
  BY <1>1 DEF IInv, AnswerCurrent, OwnedOnce, May, taggerVars, modelVars, optionVars,
         contextVars, answerVars
<1> QED BY <1>2, <1>3, <1>4, <1>5 DEF IInv

(* close() and ~TaggerImpl.                                                *)
LEMMA CloseKeeps ==
  ASSUME IInv, Close \/ Delete
  PROVE  IInv'
<1>0. /\ stage' \in {"closed", "deleted"} /\ UNCHANGED <<takes, fault>> /\ alloc' = FALSE
      /\ DropIndex /\ DropMemory /\ UNCHANGED <<mode, ysize, nbest, vlevel>>
  BY DEF Close, Delete, Goes, optionVars
<1>1. TypeOK'
  <2>1. owned \in Int /\ index \in Model \cup {Own, None}
    BY DEF IInv, TypeOK
  <2>2. owned' \in Int /\ index' \in Model \cup {Own, None}
    BY <1>0, <2>1 DEF DropIndex
  <2> QED BY <1>0, <2>2 DEF IInv, TypeOK, Working, DropMemory
<1>2. Held' /\ Context' /\ Penalty' /\ Parsed'
  BY <1>0 DEF IInv, Held, Context, Penalty, Parsed, Working, May, DropIndex, DropMemory
<1>3. UndefinedEarned' /\ AnswerCurrent'
  BY <1>0 DEF IInv, UndefinedEarned, AnswerCurrent
<1>4. OwnedOnce'
  <2>1. owned \in Int /\ mode \in {"TEST", "SHARED"} /\ (mode = "TEST" => index \in {Own, None})
    BY DEF IInv, TypeOK, Held
  <2> QED BY <1>0, <2>1 DEF IInv, OwnedOnce, May, DropIndex, Own, None
<1> QED BY <1>1, <1>2, <1>3, <1>4 DEF IInv

(* open(param).                                                            *)
LEMMA OpenKeeps ==
  ASSUME IInv, NEW n \in 0..1, NEW v \in 0..1, Open(n, v) \/ OpenFails(n, v)
  PROVE  IInv'
<1>0. /\ stage' \in {"closed", "dirty"} /\ UNCHANGED <<takes, fault, mode>>
      /\ DropMemory /\ nbest' = n /\ vlevel' = v /\ MayOpen
  BY DEF Open, OpenFails, Goes
<1>1. TypeOK'
  <2>1. owned \in Int
    BY DEF IInv, TypeOK
  <2>2. owned' \in Int /\ index' \in {Own, None}
    BY <2>1 DEF Open, OpenFails
  <2>4. alloc' \in BOOLEAN
    BY DEF Open, OpenFails
  <2>3. ysize' \in Nat
    BY LifecycleAssumption DEF IInv, TypeOK, Open, OpenFails
  <2> QED BY <1>0, <2>2, <2>3, <2>4 DEF IInv, TypeOK, Working, DropMemory
<1>2. Held'
  BY <1>0 DEF IInv, Held, May, Open, OpenFails, Goes, MayOpen, DropMemory, Own, None
<1>3. Context' /\ Penalty' /\ Parsed'
  BY <1>0 DEF IInv, Context, Penalty, Parsed, Working, May, DropMemory
<1>4. UndefinedEarned' /\ AnswerCurrent'
  BY <1>0 DEF IInv, UndefinedEarned, AnswerCurrent
<1>5. OwnedOnce'
  <2>1. owned \in Int /\ mode \in {"TEST", "SHARED"} /\ stage' # "deleted"
    BY <1>0 DEF IInv, TypeOK
  <2>2. CASE mode = "TEST"
    <3>1. \/ index \in {Own, None} /\ owned = (IF index = Own THEN 1 ELSE 0)
          \/ May("reopen")
      BY <2>1, <2>2 DEF IInv, Held, OwnedOnce
    <3> QED BY <1>0, <2>1, <2>2, <3>1 DEF IInv, Held, OwnedOnce, May, Open, OpenFails, Own, None
  <2>3. CASE mode = "SHARED"
    BY <1>0, <2>1, <2>3 DEF IInv, OwnedOnce, May, MayOpen, Open, OpenFails
  <2> QED BY <2>1, <2>2, <2>3
<1> QED BY <1>1, <1>2, <1>3, <1>4, <1>5 DEF IInv

LEMMA SetModelKeeps ==
  ASSUME IInv, NEW m \in Model, NEW n \in 0..1, NEW v \in 0..1, SetModel(m, n, v)
  PROVE  IInv'
<1>0. /\ Usable /\ m # Own /\ m # None /\ stage' = "dirty" /\ UNCHANGED <<takes, fault>>
      /\ mode' = "SHARED" /\ index' = m /\ ysize' = Size(m)
      /\ UNCHANGED <<alloc, contextVars, penalty, answerVars>>
  BY LifecycleAssumption DEF SetModel, Goes
<1>1. TypeOK'
  BY <1>0, LifecycleAssumption DEF IInv, TypeOK, Working, SetModel, contextVars
<1>2. Held'
  BY <1>0 DEF IInv, Held, May, Usable, Alive, contextVars
<1>3. Context' /\ Penalty' /\ Parsed'
  BY <1>0 DEF IInv, Context, Penalty, Parsed, Working, contextVars
<1>4. UndefinedEarned' /\ AnswerCurrent'
  BY <1>0 DEF IInv, UndefinedEarned, AnswerCurrent
<1>5. OwnedOnce'
  BY <1>0 DEF IInv, TypeOK, OwnedOnce, May, SetModel, Own
<1> QED BY <1>1, <1>2, <1>3, <1>4, <1>5 DEF IInv

LEMMA SetOptionsKeeps ==
  ASSUME IInv, NEW n \in 0..1, NEW v \in 0..1, SetOptions(n, v)
  PROVE  IInv'
<1>0. /\ stage' = (IF stage \in {"parsed", "changed"} THEN "retuned" ELSE stage)
      /\ UNCHANGED <<takes, fault, modelVars, contextVars, penalty, answerVars>>
      /\ nbest' = n /\ vlevel' = v
  BY DEF SetOptions, Goes
<1>1. TypeOK'
  BY <1>0 DEF IInv, TypeOK, Working, modelVars, contextVars
<1>2. Held' /\ Context' /\ Penalty' /\ Parsed'
  BY <1>0 DEF IInv, Held, Context, Penalty, Parsed, Working, May, modelVars, contextVars, answerVars
<1>3. UndefinedEarned' /\ AnswerCurrent'
  BY <1>0 DEF IInv, UndefinedEarned, AnswerCurrent
<1>4. OwnedOnce'
  BY <1>0 DEF IInv, OwnedOnce, May, modelVars
<1> QED BY <1>1, <1>2, <1>3, <1>4 DEF IInv

(* clear, add and read use the allocator and the model.                    *)
LEMMA MemoryEarned ==
  ASSUME IInv, Usable, ~alloc \/ index = None
  PROVE  "memory" \in Faults /\ takes \cap Earns("memory") # {}
BY Earned DEF IInv, Held, Usable, Alive, Faults

LEMMA ClearKeeps ==
  ASSUME IInv, Clear
  PROVE  IInv'
<1>1. CASE Stops("memory")
  <2>1. ~alloc \/ alloc
    OBVIOUS
  <2>2. CASE ~alloc
    BY <1>1, <2>2, MemoryEarned, StopsKeeps DEF Clear
  <2>3. CASE alloc
    BY <2>3, <1>1 DEF Clear, Stops, Goes, IInv, UndefinedEarned, Usable, Alive
  <2> QED BY <2>2, <2>3
<1>2. CASE ~Stops("memory")
  <2>0. /\ alloc /\ stage' = "context" /\ UNCHANGED <<takes, fault>>
        /\ x' = <<>> /\ rows' = <<>> /\ live' = TRUE
        /\ lattice' = NoLattice /\ result' = NoLattice
        /\ UNCHANGED <<modelVars, optionVars, penalty, agenda>>
        /\ Usable /\ NextSentence
    BY <1>2 DEF Clear, Stops, Goes
  <2>1. TypeOK'
    <3>1. x' \in Sentence /\ rows' \in Seq(Nat) /\ Len(rows') = Len(x')
      BY <2>0 DEF Sentence
    <3> QED BY <2>0, <3>1 DEF IInv, TypeOK, Working, modelVars, optionVars
  <2>2. Held'
    BY <2>0 DEF IInv, Held, Usable, Alive, May, modelVars
  <2>3. Context' /\ Parsed'
    BY <2>0 DEF Context, Parsed
  <2>4. Penalty'
    BY <2>0 DEF IInv, Penalty, NextSentence, NoPenalty, May
  <2>5. UndefinedEarned' /\ AnswerCurrent' /\ OwnedOnce'
    BY <2>0 DEF IInv, UndefinedEarned, AnswerCurrent, OwnedOnce, May, modelVars, Usable, Alive
  <2> QED BY <2>1, <2>2, <2>3, <2>4, <2>5 DEF IInv
<1> QED BY <1>1, <1>2

LEMMA AddKeeps ==
  ASSUME IInv, NEW t \in Token, Add(t)
  PROVE  IInv'
<1>1. CASE Stops("memory")
  <2>1. Usable /\ (~alloc \/ index = None)
    BY <1>1 DEF Add, Holding, Stops, Goes, Usable, Alive
  <2> QED BY <1>1, <2>1, MemoryEarned, StopsKeeps
<1>2. CASE ~Stops("memory")
  <2>0. /\ Holding /\ NextSentence /\ alloc /\ index # None
        /\ stage' = (IF stage = "dirty" THEN "dirty" ELSE "context")
        /\ UNCHANGED <<takes, fault, modelVars, optionVars, live, penalty, answerVars>>
        /\ x' = Append(x, t) /\ rows' = Append(rows, ysize)
    BY <1>2 DEF Add, Stops, Goes
  <2>1. /\ x \in Seq(Token) /\ rows \in Seq(Nat) /\ Len(rows) = Len(x) /\ ysize \in Nat
        /\ ysize' = ysize /\ live' = live /\ lattice' = lattice /\ result' = result
        /\ index' = index /\ takes' = takes
    BY <2>0 DEF IInv, TypeOK, Sentence, modelVars, answerVars
  <2>2. x' \in Seq(Token) /\ rows' \in Seq(Nat) /\ Len(rows') = Len(x')
    BY <2>0, <2>1
  <2>3. stage # "closed"
    BY <2>0 DEF IInv, Held
  <2>4. TypeOK'
    BY <2>0, <2>2 DEF IInv, TypeOK, Working, Sentence, modelVars, optionVars
  <2>5. Held'
    BY <2>0, <2>3 DEF IInv, Held, Holding, Usable, Alive, May, modelVars
  <2>6. Context'
    <3>1. SUFFICES ASSUME Working', ~May("dirty")'
                   PROVE  /\ live' /\ \A k \in DOMAIN x' : rows'[k] = ysize'
                          /\ \A l \in {lattice', result'} : l # NoLattice => l.index = index'
      BY DEF Context
    <3>2. Working /\ ~May("dirty")
      BY <2>0, <2>3, <3>1 DEF IInv, TypeOK, Holding, Usable, Alive, Working, May
    <3>3. /\ live /\ \A k \in 1..Len(x) : rows[k] = ysize
          /\ \A l \in {lattice, result} : l # NoLattice => l.index = index
      BY <2>1, <3>2 DEF IInv, Context
    <3>4. \A k \in 1..Len(x') : rows'[k] = ysize
      BY <2>0, <2>1, <3>3
    <3>5. DOMAIN x' = 1..Len(x')
      BY <2>2
    <3> QED BY <2>1, <3>3, <3>4, <3>5
  <2>7. Penalty'
    BY <2>0 DEF IInv, Penalty, NextSentence, NoPenalty, May
  <2>8. Parsed' /\ UndefinedEarned' /\ AnswerCurrent' /\ OwnedOnce'
    BY <2>0, <2>3 DEF IInv, Parsed, UndefinedEarned, AnswerCurrent, OwnedOnce, May, modelVars,
           Holding, Usable, Alive
  <2> QED BY <2>4, <2>5, <2>6, <2>7, <2>8 DEF IInv
<1> QED BY <1>1, <1>2

(* set_penalty: without the liberties "penalty", "dirty" and "closed" the  *)
(* penalties are none or those of the sentence at hand.                    *)
LEMMA SetPenaltyKeeps ==
  ASSUME IInv, NEW i \in 1..MaxLen, SetPenalty(i)
  PROVE  IInv'
<1> DEFINE p == IF penalty.len = 0
                THEN [len |-> Len(rows), y |-> ysize, of |-> {x}]
                ELSE [penalty EXCEPT !.of = penalty.of \cup {x}]
<1>0. /\ Holding /\ i \in 1..Len(x) /\ x \in Sentence /\ Len(x) \in Nat
      /\ Len(rows) = Len(x) /\ ysize \in Nat
      /\ penalty \in [len : Nat, y : Nat, of : SUBSET Sentence]
  BY DEF IInv, TypeOK, Sentence, SetPenalty
<1>1. /\ p \in [len : Nat, y : Nat, of : SUBSET Sentence]
      /\ p.len # 0
      /\ p.len = IF penalty.len = 0 THEN Len(x) ELSE penalty.len
      /\ p.y = IF penalty.len = 0 THEN ysize ELSE penalty.y
  <2>1. CASE penalty.len = 0
    BY <1>0, <2>1
  <2>2. CASE penalty.len # 0
    BY <1>0, <2>2
  <2> QED BY <2>1, <2>2
<1> HIDE DEF p
<1>2. CASE Stops("penalty")
  <2>1. ~(i <= p.len /\ ysize <= p.y)
    BY <1>2 DEF SetPenalty, Stops, Goes, Holding, Usable, Alive, p
  <2>2. takes \cap Earns("penalty") # {}
    <3>1. CASE May("penalty") \/ May("dirty") \/ May("closed")
      BY <3>1, Earned DEF Faults
    <3>2. CASE ~May("penalty") /\ ~May("dirty") /\ ~May("closed")
      <4>1. Working /\ takes \cap {"penalty", "dirty", "closed"} = {}
        BY <1>0, <3>2 DEF IInv, TypeOK, Holding, Usable, Alive, Working, May
      <4>2. penalty.len > 0 => penalty.len = Len(x) /\ penalty.y = ysize
        BY <4>1 DEF IInv, Penalty
      <4>3. p.len = Len(x) /\ p.y = ysize
        BY <1>0, <1>1, <4>2
      <4> QED BY <1>0, <2>1, <4>3
    <3> QED BY <3>1, <3>2
  <2> QED BY <1>2, <2>2, StopsKeeps DEF Faults
<1>3. CASE ~Stops("penalty")
  <2>0. /\ stage' = (IF stage = "parsed" THEN "changed" ELSE stage) /\ penalty' = p
        /\ UNCHANGED <<takes, fault, modelVars, optionVars, contextVars, answerVars>>
    BY <1>3 DEF SetPenalty, Stops, Goes, p
  <2>1. TypeOK'
    BY <1>1, <2>0 DEF IInv, TypeOK, Working, modelVars, optionVars, contextVars
  <2>2. Held' /\ Context' /\ Parsed'
    BY <2>0 DEF IInv, Held, Context, Parsed, Working, May, modelVars, optionVars, contextVars, answerVars
  <2>3. Penalty'
    <3>1. penalty.len > 0 /\ Working /\ takes \cap {"penalty", "dirty", "closed"} = {}
          => penalty.len = Len(x) /\ penalty.y = ysize
      BY DEF IInv, Penalty
    <3>2. x' = x /\ ysize' = ysize /\ takes' = takes /\ (Working' => Working)
      BY <2>0 DEF modelVars, contextVars, Working
    <3> QED BY <1>0, <1>1, <2>0, <3>1, <3>2 DEF Penalty
  <2>4. UndefinedEarned' /\ AnswerCurrent' /\ OwnedOnce'
    BY <2>0 DEF IInv, UndefinedEarned, AnswerCurrent, OwnedOnce, May, modelVars, optionVars,
           contextVars, answerVars
  <2> QED BY <2>1, <2>2, <2>3, <2>4 DEF IInv
<1> QED BY <1>2, <1>3

(* What parse() can go wrong on, with rows of the tags of the model held   *)
(* unless the client is "dirty".                                           *)
LEMMA ParseFaultEarned ==
  ASSUME IInv, Usable, NEW s, NEW width, NEW fresh,
         ~May("dirty") /\ stage # "closed" =>
           fresh /\ \A k \in DOMAIN s : width[k] = ysize,
         takes \cap {"penalty", "dirty", "closed"} = {} =>
           penalty.len = 0 \/ (penalty.len = Len(s) /\ penalty.y = ysize),
         ParseFault(s, width, fresh) # "none"
  PROVE  /\ ParseFault(s, width, fresh) \in Faults
         /\ takes \cap Earns(ParseFault(s, width, fresh)) # {}
<1>1. ParseFault(s, width, fresh) \in Faults
  BY DEF ParseFault, Faults
<1>2. CASE May("dirty")
  BY <1>1, <1>2, Earned
<1>3. CASE ~May("dirty") /\ stage = "closed"
  <2>1. ~alloc /\ May("closed")
    BY <1>3 DEF IInv, Held, Usable
  <2>2. ParseFault(s, width, fresh) = "memory"
    BY <2>1 DEF ParseFault
  <2> QED BY <1>1, <2>1, <2>2, Earned
<1>4. CASE ~May("dirty") /\ stage # "closed"
  <2>1. /\ index # None /\ ysize = Size(index) /\ (~May("closed") => alloc)
        /\ ysize \in Nat /\ penalty.len \in Nat
    BY <1>4 DEF IInv, TypeOK, Held, Usable, Alive
  <2>2. fresh /\ \A k \in DOMAIN s : ~(width[k] < Size(index)) /\ ~(width[k] < ysize)
    BY <1>4, <2>1
  <2>3. CASE ~alloc
    BY <1>1, <2>1, <2>3, Earned DEF ParseFault
  <2>4. CASE alloc
    <3>1. /\ ParseFault(s, width, fresh) = "penalty"
          /\ penalty.len > 0 /\ (penalty.len < Len(s) \/ penalty.y < ysize)
      BY <2>1, <2>2, <2>4 DEF ParseFault
    <3>2. ~(penalty.len = 0 \/ (penalty.len = Len(s) /\ penalty.y = ysize))
      BY <2>1, <3>1
    <3>3. May("penalty") \/ May("dirty") \/ May("closed")
      BY <3>2 DEF May
    <3> QED BY <1>1, <3>1, <3>3, Earned
  <2> QED BY <2>3, <2>4
<1> QED BY <1>2, <1>3, <1>4

(* parse() is not reached by a closed tagger, which has no allocator.      *)
LEMMA Allocated ==
  ASSUME IInv, Holding, alloc
  PROVE  stage # "closed" /\ (~May("dirty") => Working)
BY DEF IInv, TypeOK, Held, Holding, Usable, Alive, Working

LEMMA ParseKeeps ==
  ASSUME IInv, Parse
  PROVE  IInv'
<1> DEFINE f == ParseFault(x, rows, live)
           l == Lat(x, index, penalty.of)
<1>0. Holding /\ Usable /\ fault = "none"
  BY DEF Parse, Holding, Usable, Alive
<1>1. CASE f # "none"
  <2>1. Stops(f)
    BY <1>1 DEF Parse, Goes
  <2>2. ~May("dirty") /\ stage # "closed" => live /\ \A k \in DOMAIN x : rows[k] = ysize
    BY <1>0 DEF IInv, TypeOK, Context, Working, Holding, Usable, Alive
  <2>3. takes \cap {"penalty", "dirty", "closed"} = {} =>
          penalty.len = 0 \/ (penalty.len = Len(x) /\ penalty.y = ysize)
    <3>1. SUFFICES ASSUME takes \cap {"penalty", "dirty", "closed"} = {}, penalty.len # 0
                   PROVE  penalty.len = Len(x) /\ penalty.y = ysize
      OBVIOUS
    <3>2. ~May("dirty") /\ ~May("closed")
      BY <3>1 DEF May
    <3>3. Working /\ penalty.len > 0
      BY <1>0, <3>1, <3>2 DEF IInv, TypeOK, Working, Holding, Usable, Alive
    <3> QED BY <3>1, <3>3 DEF IInv, Penalty
  <2>4. f \in Faults /\ takes \cap Earns(f) # {}
    BY <1>0, <1>1, <2>2, <2>3, ParseFaultEarned
  <2> QED BY <2>1, <2>4, StopsKeeps
<1>2. CASE f = "none"
  <2>0. /\ stage' = "parsed" /\ UNCHANGED <<takes, fault>> /\ Answer(x) /\ MayParse(x)
        /\ UNCHANGED <<modelVars, optionVars, contextVars, penalty>>
    BY <1>2 DEF Parse, Stops, Goes
  <2>1. alloc /\ stage # "closed" /\ (~May("dirty") => Working)
    BY <1>0, <1>2, Allocated DEF ParseFault
  <2>2. TypeOK'
    BY <2>0 DEF IInv, TypeOK, Working, modelVars, optionVars, contextVars
  <2>3. Held'
    BY <1>0, <2>0, <2>1 DEF IInv, Held, Usable, Alive, May, modelVars, contextVars
  <2>4. UNCHANGED <<x, rows, live, index, ysize, penalty, nbest, vlevel, takes, mode, owned>>
    BY <2>0 DEF modelVars, optionVars, contextVars
  <2>5. \/ x = <<>> /\ UNCHANGED <<lattice, result>>
        \/ lattice' = l /\ result' = l /\ (nbest > 0 => agenda' = l)
    BY <2>0 DEF Answer, answerVars
  <2>6. Context'
    BY <2>1, <2>4, <2>5, Lattices DEF IInv, Context, May
  <2>7. Penalty'
    <3>1. takes \cap {"penalty", "dirty", "closed"} = {} => ~May("dirty")
      BY DEF May
    <3> QED BY <2>1, <2>4, <3>1 DEF IInv, Penalty
  <2>8. Parsed'
    <3>1. x = <<>> => May("empty")
      BY <2>0 DEF MayParse
    <3> QED BY <2>4, <2>5, <3>1, Lattices DEF Parsed, May, Answer
  <2>9. AnswerCurrent'
    BY <2>0, <2>4 DEF Answer, AnswerCurrent
  <2>10. UndefinedEarned' /\ OwnedOnce'
    BY <2>0, <2>4 DEF IInv, UndefinedEarned, OwnedOnce, May
  <2> QED BY <2>2, <2>3, <2>6, <2>7, <2>8, <2>9, <2>10 DEF IInv
<1> QED BY <1>1, <1>2

LEMMA ParseFailsKeeps ==
  ASSUME IInv, ParseFails
  PROVE  IInv'
<1>0. /\ Holding /\ alloc /\ stage' = (IF stage = "dirty" THEN "dirty" ELSE "context")
      /\ UNCHANGED <<takes, fault, taggerVars>>
  BY DEF ParseFails, ParseFault, Goes
<1>1. /\ stage # "closed" /\ stage # "deleted"
      /\ (Working' => Working) /\ (stage = "dirty" => May("dirty"))
  BY <1>0, Allocated DEF IInv, TypeOK, Working, Holding, Usable, Alive
<1>2. UNCHANGED <<takes, fault, modelVars, optionVars, contextVars, penalty, answerVars>>
  BY <1>0 DEF taggerVars
<1>3. TypeOK'
  BY <1>0, <1>2 DEF IInv, TypeOK, Working, modelVars, optionVars, contextVars
<1>4. Held' /\ Penalty' /\ Context'
  BY <1>0, <1>1, <1>2 DEF IInv, Held, Penalty, Context, May, modelVars, contextVars, answerVars
<1>5. Parsed' /\ UndefinedEarned' /\ AnswerCurrent' /\ OwnedOnce'
  BY <1>0, <1>1, <1>2 DEF IInv, Parsed, UndefinedEarned, AnswerCurrent, OwnedOnce, May, modelVars
<1> QED BY <1>3, <1>4, <1>5 DEF IInv

(* What the stages that can be read know of the answer.                    *)
LEMMA Reading ==
  ASSUME IInv, Readable, ~May("dirty")
  PROVE  /\ stage = "closed" => May("closed") /\ ~alloc /\ (live => x = <<>>)
         /\ stage # "closed" => Working /\ live /\ index # None /\ ysize = Size(index)
         /\ stage \in {"parsed", "changed", "retuned"} \/ May("unparsed") \/ May("closed")
BY DEF IInv, TypeOK, Held, Context, Readable, Holding, Usable, Alive, Working

(* next() on an agenda of another lattice, or on none.                     *)
LEMMA DrawFaultEarned ==
  ASSUME IInv, Readable, nbest > 0 \/ May("options"), DrawFault # "none"
  PROVE  DrawFault \in Faults /\ takes \cap Earns(DrawFault) # {}
<1>1. DrawFault = "agenda" /\ "agenda" \in Faults /\ agenda \notin {Drained, lattice}
  BY DEF DrawFault, Faults
<1>2. CASE May("dirty") \/ May("closed") \/ May("unparsed") \/ May("options") \/ May("empty")
  BY <1>1, <1>2, Earned
<1>3. CASE /\ ~May("dirty") /\ ~May("closed") /\ ~May("unparsed")
           /\ ~May("options") /\ ~May("empty")
  <2>1. stage \in {"parsed", "changed"} /\ nbest > 0
    BY <1>3, Reading DEF Readable
  <2> QED BY <1>1, <1>3, <2>1 DEF IInv, Parsed
<1> QED BY <1>2, <1>3

(* Printing the labels of a lattice of the model held.                     *)
LEMMA PrintFaultEarned ==
  ASSUME IInv, Readable, NEW l, l \in {lattice, result}, PrintFault(l) # "none"
  PROVE  PrintFault(l) \in Faults /\ takes \cap Earns(PrintFault(l)) # {}
<1>1. PrintFault(l) \in Faults
  BY DEF PrintFault, Faults
<1>2. CASE May("dirty")
  BY <1>1, <1>2, Earned
<1>3. CASE ~May("dirty") /\ stage = "closed"
  <2>1. PrintFault(l) = "memory" /\ May("closed")
    BY <1>3, Reading DEF PrintFault
  <2> QED BY <1>1, <2>1, Earned
<1>4. CASE ~May("dirty") /\ stage # "closed"
  <2>1. /\ Working /\ live /\ index # None /\ ysize = Size(index) /\ ysize \in Nat
        /\ \A k \in DOMAIN x : rows[k] = ysize
        /\ l # NoLattice => l.index = index
        /\ lattice # NoLattice => lattice.index = index
        /\ x \in Seq(Token) /\ rows \in Seq(Nat) /\ Len(rows) = Len(x)
    BY <1>4, Reading DEF IInv, TypeOK, Context, Sentence
  <2>2. \A k \in DOMAIN rows : ~(rows[k] < ysize)
    <3>1. DOMAIN rows = DOMAIN x
      BY <2>1
    <3> QED BY <2>1, <3>1
  <2>3. l # NoLattice => ~(Size(l.index) > Size(index))
    BY <2>1
  <2>4. PrintFault(l) = "nodes" /\ x # <<>>
        /\ (lattice = NoLattice \/ Len(lattice.x) < Len(x) \/ Size(lattice.index) < ysize)
    BY <2>1, <2>2, <2>3 DEF PrintFault
  <2>5. CASE May("unparsed")
    BY <1>1, <2>4, <2>5, Earned
  <2>6. CASE ~May("unparsed")
    <3>1. stage \in {"parsed", "changed", "retuned"}
      BY <2>1, <2>6 DEF Working, Readable
    <3>2. lattice # NoLattice /\ lattice.x = x
      BY <1>4, <2>4, <3>1 DEF IInv, Parsed
    <3>3. Len(lattice.x) = Len(x) /\ Size(lattice.index) = ysize /\ Len(x) \in Nat
      BY <2>1, <3>2
    <3> QED BY <2>1, <2>4, <3>2, <3>3
  <2> QED BY <2>5, <2>6
<1> QED BY <1>2, <1>3, <1>4

(* A labelling drawn from the agenda is one of the lattice held.           *)
LEMMA DrawKeeps ==
  ASSUME IInv, UNCHANGED <<takes, stage, fault>>,
         \/ DrawFault = "none" /\ Draw
         \/ UNCHANGED <<result, agenda>>,
         UNCHANGED <<modelVars, optionVars, contextVars, penalty, lattice, z>>
  PROVE  IInv'
<1>1. /\ result' = result \/ result' = lattice
      /\ agenda' = agenda \/ (agenda' \in {lattice, Drained} /\ result' = lattice)
  BY DEF DrawFault, Draw
<1>2. TypeOK'
  BY DEF IInv, TypeOK, Working, modelVars, optionVars, contextVars
<1>3. UNCHANGED <<x, index, penalty, nbest, vlevel, lattice, z, takes, stage>>
  BY DEF modelVars, optionVars, contextVars
<1>4. Held' /\ Penalty' /\ UndefinedEarned' /\ OwnedOnce'
  BY DEF IInv, Held, Penalty, UndefinedEarned, OwnedOnce, Working, May, modelVars, contextVars
<1>5. Context'
  BY <1>1 DEF IInv, Context, Working, May, modelVars, contextVars
<1>6. Parsed' /\ AnswerCurrent'
  BY <1>1, <1>3 DEF IInv, Parsed, AnswerCurrent, May
<1> QED BY <1>2, <1>4, <1>5, <1>6 DEF IInv

LEMMA NextBestKeeps ==
  ASSUME IInv, NextBest
  PROVE  IInv'
<1>1. CASE DrawFault = "none"
  <2>1. /\ UNCHANGED <<takes, stage, fault>> /\ Draw
        /\ UNCHANGED <<modelVars, optionVars, contextVars, penalty, lattice, z>>
    BY <1>1 DEF NextBest, Stops, Goes
  <2> QED BY <1>1, <2>1, DrawKeeps
<1>2. CASE DrawFault # "none"
  <2>1. Stops(DrawFault) /\ Readable /\ (nbest > 0 \/ May("options"))
    BY <1>2 DEF NextBest, Goes
  <2> QED BY <1>2, <2>1, DrawFaultEarned, StopsKeeps
<1> QED BY <1>1, <1>2

LEMMA ToStringKeeps ==
  ASSUME IInv, ToString
  PROVE  IInv'
<1>0. Readable /\ nbest \in 0..1
  BY DEF ToString, IInv, TypeOK
<1>1. CASE ToStringFault = "none"
  <2>1. /\ UNCHANGED <<takes, stage, fault>>
        /\ IF nbest > 0 THEN Draw ELSE UNCHANGED <<result, agenda>>
        /\ UNCHANGED <<modelVars, optionVars, contextVars, penalty, lattice, z>>
    BY <1>1 DEF ToString, Stops, Goes
  <2>2. nbest > 0 => DrawFault = "none"
    BY <1>0, <1>1 DEF ToStringFault
  <2> QED BY <2>1, <2>2, DrawKeeps
<1>2. CASE ToStringFault # "none"
  <2>1. Stops(ToStringFault)
    BY <1>2 DEF ToString, Goes
  <2>2. ToStringFault \in Faults /\ takes \cap Earns(ToStringFault) # {}
    <3>1. CASE nbest = 0
      BY <1>0, <1>2, <3>1, PrintFaultEarned DEF ToStringFault
    <3>2. CASE nbest > 0 /\ DrawFault # "none"
      BY <1>0, <1>2, <3>2, DrawFaultEarned DEF ToStringFault
    <3>3. CASE nbest > 0 /\ DrawFault = "none"
      <4>1. ToStringFault = PrintFault(agenda) /\ agenda = lattice
        BY <1>0, <1>2, <3>3 DEF ToStringFault, DrawFault
      <4> QED BY <1>0, <1>2, <4>1, PrintFaultEarned
    <3> QED BY <1>0, <3>1, <3>2, <3>3
  <2> QED BY <2>1, <2>2, StopsKeeps
<1> QED BY <1>1, <1>2

LEMMA Texts ==
  ASSUME NEW s \in Text, ysize \in Nat, NEW width, width = [k \in DOMAIN s |-> ysize]
  PROVE  /\ s \in Seq(Token) /\ width \in Seq(Nat) /\ Len(width) = Len(s)
         /\ \A k \in DOMAIN s : width[k] = ysize
<1>1. PICK n \in Nat : s \in [1..n -> Token]
  BY LifecycleAssumption DEF Text
<1>2. s \in Seq(Token) /\ Len(s) = n /\ DOMAIN s = 1..n
  BY <1>1
<1>3. width \in [1..n -> Nat]
  BY <1>2
<1>4. width \in Seq(Nat) /\ Len(width) = n
  BY <1>3
<1> QED BY <1>2, <1>4

(* parse(str): what it can go wrong on.                                    *)
LEMMA TextFaultEarned ==
  ASSUME IInv, Usable, NextSentence, NEW s \in Text, MayParse(s), NEW width,
         width = [k \in DOMAIN s |-> ysize], TextFault(s, width) # "none"
  PROVE  /\ TextFault(s, width) \in Faults
         /\ takes \cap Earns(TextFault(s, width)) # {}
<1>1. CASE ParseFault(s, width, TRUE) # "none"
  <2>1. \A k \in DOMAIN s : width[k] = ysize
    OBVIOUS
  <2>2. takes \cap {"penalty", "dirty", "closed"} = {} => penalty.len = 0
    BY DEF NextSentence, NoPenalty, May
  <2> QED BY <1>1, <2>1, <2>2, ParseFaultEarned DEF TextFault
<1>2. CASE ParseFault(s, width, TRUE) = "none"
  <2>1. TextFault(s, width) = "agenda" /\ s = <<>>
    BY <1>2 DEF TextFault
  <2> QED BY <2>1, Earned DEF MayParse, Faults
<1> QED BY <1>1, <1>2

LEMMA ParseTextKeeps ==
  ASSUME IInv, NEW s \in Text, ParseText(s)
  PROVE  IInv'
<1> DEFINE width == [k \in DOMAIN s |-> ysize]
           f == TextFault(s, width)
           l == IF s = <<>> THEN NoLattice ELSE Lat(s, index, penalty.of)
<1>0. Usable /\ NextSentence /\ MayParse(s) /\ ysize \in Nat
  BY DEF ParseText, IInv, TypeOK
<1>1. CASE f # "none"
  <2>1. Stops(f)
    BY <1>1 DEF ParseText, Goes
  <2> QED BY <1>0, <1>1, <2>1, TextFaultEarned, StopsKeeps
<1>2. CASE f = "none"
  <2>0. /\ stage' = "parsed" /\ UNCHANGED <<takes, fault>>
        /\ x' = s /\ rows' = width /\ live' = TRUE
        /\ lattice' = l /\ result' = l
        /\ z' = IF nbest + vlevel > 0 THEN l ELSE NoLattice
        /\ agenda' \in IF nbest > 0 /\ s # <<>> THEN {l, Drained} ELSE {agenda}
        /\ UNCHANGED <<modelVars, optionVars, penalty>>
    BY <1>2 DEF ParseText, Stops, Goes
  <2>1. /\ s \in Seq(Token) /\ width \in Seq(Nat) /\ Len(width) = Len(s)
        /\ \A k \in DOMAIN s : width[k] = ysize
    BY <1>0, Texts
  <2>2. alloc
    BY <1>2 DEF TextFault, ParseFault
  <2>3. stage # "closed" /\ stage # "deleted"
    BY <1>0, <2>2 DEF IInv, Held, Usable, Alive
  <2>4. TypeOK'
    BY <2>0, <2>1 DEF IInv, TypeOK, Working, Sentence, modelVars, optionVars
  <2>5. Held'
    BY <2>0, <2>3 DEF IInv, Held, May, modelVars
  <2>6. UNCHANGED <<index, ysize, penalty, nbest, vlevel, takes>>
    BY <2>0 DEF modelVars, optionVars
  <2>7. Context'
    <3>1. \A k \in DOMAIN x' : rows'[k] = ysize'
      BY <2>0, <2>1, <2>6
    <3>2. lattice' # NoLattice => lattice'.index = index' /\ result' = lattice'
      BY <2>0, <2>6, Lattices
    <3> QED BY <2>0, <3>1, <3>2 DEF Context
  <2>8. Penalty'
    BY <1>0, <2>6 DEF IInv, Penalty, NextSentence, NoPenalty, May
  <2>9. Parsed'
    BY <1>0, <2>0, <2>6, Lattices DEF Parsed, MayParse, May
  <2>10. AnswerCurrent'
    BY <2>0, <2>6 DEF AnswerCurrent
  <2>11. UndefinedEarned' /\ OwnedOnce'
    BY <2>0 DEF IInv, UndefinedEarned, OwnedOnce, May, modelVars
  <2> QED BY <2>4, <2>5, <2>7, <2>8, <2>9, <2>10, <2>11 DEF IInv
<1> QED BY <1>1, <1>2

LEMMA ParseTextFailsKeeps ==
  ASSUME IInv, NEW s \in Text, ParseTextFails(s)
  PROVE  IInv'
<1>0. Usable /\ NextSentence /\ ysize \in Nat
  BY DEF ParseTextFails, IInv, TypeOK
<1>1. CASE ~(alloc /\ index # None)
  <2>1. Stops("memory")
    BY <1>1 DEF ParseTextFails, Goes
  <2> QED BY <1>0, <1>1, <2>1, MemoryEarned, StopsKeeps
<1>2. CASE alloc /\ index # None
  <2>0. /\ stage' = "context" /\ UNCHANGED <<takes, fault>>
        /\ x' = s /\ rows' = [k \in DOMAIN s |-> ysize] /\ live' = TRUE
        /\ lattice' = NoLattice /\ result' = NoLattice
        /\ UNCHANGED <<modelVars, optionVars, penalty>>
    BY <1>2 DEF ParseTextFails, Stops, Goes
  <2>1. /\ s \in Seq(Token) /\ rows' \in Seq(Nat) /\ Len(rows') = Len(s)
        /\ \A k \in DOMAIN s : rows'[k] = ysize
    BY <1>0, <2>0, Texts
  <2>2. stage # "closed" /\ stage # "deleted"
    BY <1>0, <1>2 DEF IInv, Held, Usable, Alive
  <2>3. TypeOK'
    BY <2>0, <2>1 DEF IInv, TypeOK, Working, Sentence, modelVars, optionVars
  <2>4. Held'
    BY <2>0, <2>2 DEF IInv, Held, May, modelVars
  <2>5. Context' /\ Parsed'
    BY <2>0, <2>1 DEF Context, Parsed, modelVars
  <2>6. Penalty'
    BY <1>0, <2>0 DEF IInv, Penalty, NextSentence, NoPenalty, May
  <2>7. UndefinedEarned' /\ AnswerCurrent' /\ OwnedOnce'
    BY <2>0 DEF IInv, UndefinedEarned, AnswerCurrent, OwnedOnce, May, modelVars
  <2> QED BY <2>3, <2>4, <2>5, <2>6, <2>7 DEF IInv
<1> QED BY <1>1, <1>2

LEMMA StutterKeeps ==
  ASSUME IInv, UNCHANGED vars
  PROVE  IInv'
<1>1. UNCHANGED <<takes, stage, fault, modelVars, optionVars, contextVars, penalty, answerVars>>
  BY DEF vars, taggerVars
<1>2. TypeOK' /\ Held' /\ Context' /\ Penalty' /\ Parsed'
  BY <1>1 DEF IInv, modelVars, optionVars, contextVars, answerVars, TypeOK, Held, Context,
         Penalty, Parsed, Working, May
<1>3. UndefinedEarned' /\ AnswerCurrent' /\ OwnedOnce'
  BY <1>1 DEF IInv, modelVars, optionVars, contextVars, answerVars, UndefinedEarned,
         AnswerCurrent, OwnedOnce, May
<1> QED BY <1>2, <1>3 DEF IInv

LEMMA InitKeeps ==
  ASSUME Init
  PROVE  IInv
<1>1. TypeOK
  <2>1. index \in Model \cup {Own} /\ mode \in {"TEST", "SHARED"} /\ owned \in Int
        /\ stage = "context"
    BY DEF Init
  <2>2. ysize \in Nat
    BY <2>1, LifecycleAssumption DEF Init
  <2>3. penalty \in [len : Nat, y : Nat, of : SUBSET Sentence]
    BY DEF Init, NoPenalty
  <2>4. x \in Sentence /\ rows \in Seq(Nat) /\ Len(rows) = Len(x)
    BY DEF Init, Sentence
  <2> QED BY <2>1, <2>2, <2>3, <2>4 DEF Init, TypeOK, Working
<1>2. Held /\ Parsed /\ Penalty /\ OwnedOnce /\ UndefinedEarned /\ AnswerCurrent
  BY LifecycleAssumption DEF Init, Held, Parsed, Penalty, OwnedOnce, UndefinedEarned,
     AnswerCurrent, Own, None, NoPenalty
<1>3. Context
  BY DEF Init, Context
<1> QED BY <1>1, <1>2, <1>3 DEF IInv

(* The inductive invariant, for every client: what is worked on has the    *)
(* tags of the model held unless the client goes on dirty, the penalties   *)
(* are none or those of the sentence at hand unless it goes on with them,  *)
(* and what can be read is of that sentence unless it reads unparsed       *)
(* (tagger.cpp 118-148, 216-298, 358-390, 467-477).                        *)
THEOREM Inductive == Spec => []IInv
<1>1. Init => IInv
  BY InitKeeps
<1>2. ASSUME IInv, [Next]_vars PROVE IInv'
  <2>1. CASE Close \/ Delete
    BY <1>2, <2>1, CloseKeeps
  <2>2. CASE Clear
    BY <1>2, <2>2, ClearKeeps
  <2>3. CASE Parse \/ ParseFails
    BY <1>2, <2>3, ParseKeeps, ParseFailsKeeps
  <2>4. CASE NextBest
    BY <1>2, <2>4, NextBestKeeps
  <2>5. CASE ToString \/ ParseIntoBuffer
    BY <1>2, <2>5, ToStringKeeps DEF ParseIntoBuffer
  <2>6. CASE \E n, v \in 0..1 : Open(n, v) \/ OpenFails(n, v) \/ SetOptions(n, v)
    BY <1>2, <2>6, OpenKeeps, SetOptionsKeeps
  <2>7. CASE \E n, v \in 0..1, m \in Model : SetModel(m, n, v)
    BY <1>2, <2>7, SetModelKeeps
  <2>8. CASE \E t \in Token : Add(t)
    BY <1>2, <2>8, AddKeeps
  <2>9. CASE \E i \in 1..MaxLen : SetPenalty(i)
    BY <1>2, <2>9, SetPenaltyKeeps
  <2>10. CASE \E s \in Text : ParseText(s) \/ ParseTextFails(s)
    BY <1>2, <2>10, ParseTextKeeps, ParseTextFailsKeeps
  <2>11. CASE UNCHANGED vars
    BY <1>2, <2>11, StutterKeeps
  <2> QED BY <1>2, <2>1, <2>2, <2>3, <2>4, <2>5, <2>6, <2>7, <2>8, <2>9, <2>10, <2>11
          DEF Next, Over
<1> QED BY <1>1, <1>2, PTL DEF Spec

(* Whatever a client does, the code leaves its vectors or uses a null or   *)
(* freed pointer only after a liberty that can bring that about            *)
(* (tagger.cpp 216-504, 666-771).                                          *)
THEOREM UndefinedAlwaysEarned == Spec => []UndefinedEarned
<1>1. IInv => UndefinedEarned
  BY DEF IInv
<1> QED BY <1>1, Inductive, PTL

(* After a parse labels, normaliser and agenda belong to the sentence held,*)
(* with its model and its penalties (tagger.cpp 403-455, 666-683), and so  *)
(* they do for the clients that take liberties.                            *)
THEOREM AnswersCurrent == Spec => []AnswerCurrent
<1>1. IInv => AnswerCurrent
  BY DEF IInv
<1> QED BY <1>1, Inductive, PTL

(* A model the tagger opened is deleted once at most, and exactly once by  *)
(* a client that does not open one over a shared one (lines 216-298).      *)
THEOREM AlwaysOwnedOnce == Spec => []OwnedOnce
<1>1. IInv => OwnedOnce
  BY DEF IInv
<1> QED BY <1>1, Inductive, PTL
=============================================================================
