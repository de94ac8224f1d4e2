--------------------------- MODULE BindingsProofs ---------------------------
(***************************************************************************)
(* For every number of handles, objects and threads, every language and    *)
(* every script: nothing is freed twice, nothing leaks, and a call finds   *)
(* no living object only by a fault of the script.                         *)
(***************************************************************************)
EXTENDS Bindings, TLAPS

Mem == [ptr : Nat, own : BOOLEAN]

(* The values "this" has: one object, two in Python, none before the       *)
(* constructor and after the end, which Perl's handles do not know.        *)
Proper(l, this) ==
  /\ this \in Seq(Mem) /\ Len(this) \in 0 .. 2
  /\ Len(this) = 2 => l = "Python"
  /\ l = "Perl" => this # <<>>

LEMMA Kinds == Languages \subseteq {"Python", "Perl", "Ruby", "Java"}
  BY BindingsAssumption DEF BindingsAssumption

LEMMA One ==
  ASSUME NEW p \in Nat, NEW own \in BOOLEAN
  PROVE  LET s == <<[ptr |-> p, own |-> own]>> IN
         /\ s \in Seq(Mem) /\ Len(s) = 1 /\ DOMAIN s = {1} /\ s # <<>>
         /\ s[1].ptr = p /\ s[1].own = own
  BY DEF Mem

LEMMA Two ==
  ASSUME NEW m \in Mem, NEW p \in Nat
  PROVE  LET s == <<m, [ptr |-> p, own |-> TRUE]>> IN
         /\ s \in Seq(Mem) /\ Len(s) = 2 /\ DOMAIN s = {1, 2} /\ s # <<>>
         /\ s[1] = m /\ s[2].ptr = p /\ s[2].own = TRUE
<1> DEFINE n == [ptr |-> p, own |-> TRUE]
<1>1. n \in Mem /\ n.ptr = p /\ n.own = TRUE
  BY DEF Mem
<1> HIDE DEF n
<1>2. LET s == <<m, n>> IN /\ s \in Seq(Mem) /\ Len(s) = 2 /\ DOMAIN s = {1, 2} /\ s # <<>>
                           /\ s[1] = m /\ s[2] = n
  BY <1>1
<1> QED BY <1>1, <1>2 DEF n

LEMMA FirstMem ==
  ASSUME NEW s \in Seq(Mem), s # <<>>
  PROVE  1 \in DOMAIN s /\ s[1] \in Mem /\ s[1].ptr \in Nat /\ s[1].own \in BOOLEAN
<1>1. 1 \in DOMAIN s /\ s[1] \in Mem
  OBVIOUS
<1> QED BY <1>1 DEF Mem

LEMMA TargetIs ==
  ASSUME lang \in Languages, NEW this, Proper(lang, this)
  PROVE  Target(this) = IF this = <<>> THEN 0 ELSE this[1].ptr
  BY Kinds DEF Proper, Target, Python!Target, Perl!Target, Ruby!Target, Java!Target

LEMMA DestroyedIs ==
  ASSUME lang \in Languages, NEW this, Proper(lang, this)
  PROVE  Destroyed(this) = Owned(this)
<1>1. CASE lang = "Python"
  BY <1>1 DEF Destroyed, Python!Destroyed, Owned
<1>2. CASE lang # "Python"
  <2>1. this = <<>> \/ (Len(this) = 1 /\ DOMAIN this = {1} /\ this # <<>>)
    BY <1>2 DEF Proper
  <2>2. Destroyed(this) = IF this # <<>> /\ this[1].own THEN {this[1].ptr} ELSE {}
    BY <1>2, Kinds DEF Proper, Destroyed, Perl!Destroyed, Ruby!Destroyed, Java!Destroyed
  <2>3. Owned(this) = IF this # <<>> /\ this[1].own THEN {this[1].ptr} ELSE {}
    BY <2>1 DEF Owned
  <2> QED BY <2>2, <2>3
<1> QED BY <1>1, <1>2

(* What a constructor leaves in its handle.                                *)
LEMMA ConstructedIs ==
  ASSUME lang \in Languages, NEW this, this = <<>> \/ Proper(lang, this), NEW p \in Nat,
         this # <<>> => lang \in {"Python", "Ruby"}
  PROVE  /\ this = <<>> => Constructed(this, p) = <<[ptr |-> p, own |-> TRUE]>>
         /\ this # <<>> /\ lang = "Python" =>
              Constructed(this, p) = <<this[1], [ptr |-> p, own |-> TRUE]>>
         /\ this # <<>> /\ lang = "Ruby" =>
              Constructed(this, p) = <<[ptr |-> p, own |-> this[1].own]>>
  BY Kinds DEF Constructed, Python!Constructed, Python!Held, Perl!Made, Perl!Held,
     Ruby!Initialized, Ruby!Held, Java!Made, Java!Held
-----------------------------------------------------------------------------
(* Objects and indexes: a new one, a loan, set_model, and a deletion.      *)
NativeType == [class : {"Model", "Tagger"}, mode : {"MODEL", "TEST", "TEST_SHARED"},
               index : Nat, frees : Nat, for : Nat, lent : BOOLEAN]

(* The objects there were are there, made for whom they were.              *)
Grows ==
  /\ natives' \in Seq(NativeType) /\ indexes' \in Seq(Nat) /\ Len(natives) <= Len(natives')
  /\ \A p \in DOMAIN natives : /\ p \in DOMAIN natives'
                               /\ natives'[p].for = natives[p].for
                               /\ natives'[p].class = natives[p].class
                               /\ natives'[p].lent = natives[p].lent

Alike(p) == natives'[p].frees = natives[p].frees /\ natives'[p].mode = natives[p].mode
            /\ natives'[p].index = natives[p].index

LEMMA Types ==
  ASSUME TypeOK
  PROVE  /\ natives \in Seq(NativeType) /\ indexes \in Seq(Nat)
         /\ \A p \in DOMAIN natives : natives[p] \in NativeType
         /\ \A i \in DOMAIN indexes : indexes[i] \in Nat
<1>1. natives \in Seq(NativeType) /\ indexes \in Seq(Nat)
  BY DEF TypeOK, NativeType
<1> QED BY <1>1

LEMMA Appended ==
  ASSUME TypeOK, NEW n \in NativeType, natives' = Append(natives, n)
  PROVE  /\ natives' \in Seq(NativeType) /\ Len(natives') = Len(natives) + 1
         /\ DOMAIN natives' = DOMAIN natives \cup {Len(natives) + 1}
         /\ Len(natives) + 1 \notin DOMAIN natives /\ Len(natives) + 1 \in Nat
         /\ \A p \in DOMAIN natives : natives'[p] = natives[p]
         /\ natives'[Len(natives) + 1] = n
<1>1. natives \in Seq(NativeType)
  BY Types
<1> QED BY <1>1

LEMMA OpenedKeeps ==
  ASSUME TypeOK, IndexesOwned, UNCHANGED <<lang, takes>>,
         NEW class \in {"Model", "Tagger"}, NEW for \in Nat, Opened(class, for)
  PROVE  LET p == Len(natives) + 1 IN
         /\ IndexesOwned' /\ Grows
         /\ DOMAIN natives' = DOMAIN natives \cup {p} /\ p \notin DOMAIN natives
         /\ \A q \in DOMAIN natives : Alike(q)
         /\ natives'[p].for = for /\ natives'[p].class = class /\ natives'[p].frees = 0
         /\ natives'[p].mode # "TEST_SHARED" /\ natives'[p].lent = FALSE
<1> DEFINE p == Len(natives) + 1
           i == Len(indexes) + 1
           n == Object(class, IF class = "Model" THEN "MODEL" ELSE "TEST", i, for, FALSE)
<1>1. /\ n \in NativeType /\ n.index = i /\ n.for = for /\ n.class = class /\ n.frees = 0
      /\ n.mode # "TEST_SHARED" /\ n.lent = FALSE
      /\ n.mode = "MODEL" <=> class = "Model"
  BY Types DEF Object, NativeType
<1>2. natives' = Append(natives, n) /\ indexes' = Append(indexes, 0)
  BY DEF Opened
<1> HIDE DEF n
<1>3. /\ natives' \in Seq(NativeType) /\ Len(natives') = Len(natives) + 1
      /\ DOMAIN natives' = DOMAIN natives \cup {p} /\ p \notin DOMAIN natives
      /\ \A q \in DOMAIN natives : natives'[q] = natives[q]
      /\ natives'[p] = n
  BY <1>1, <1>2, Appended
<1>4. /\ indexes' \in Seq(Nat) /\ DOMAIN indexes' = DOMAIN indexes \cup {i}
      /\ i \notin DOMAIN indexes /\ indexes'[i] = 0
      /\ \A j \in DOMAIN indexes : indexes'[j] = indexes[j]
  BY <1>2, Types
<1> HIDE DEF p, i
<1>5. Grows
  BY <1>3, <1>4, Types DEF Grows
<1>6. \A q \in DOMAIN natives : Alike(q)
  BY <1>3 DEF Alike
<1>7. IndexesOwned'
  <2> USE DEF IndexesOwned, Owns, Raw
  <2>1. \A q \in DOMAIN natives' :
          /\ natives'[q].index \in DOMAIN indexes'
          /\ natives'[q].mode = "MODEL" <=> natives'[q].class = "Model"
          /\ natives'[q].mode # "TEST_SHARED" => indexes'[natives'[q].index] = natives'[q].frees
          /\ ~Raw' => natives'[q].frees <= 1
    BY <1>1, <1>3, <1>4
  <2>2. \A q, r \in DOMAIN natives' : \A j \in DOMAIN indexes' :
          Owns(q, j)' /\ Owns(r, j)' => q = r
    BY <1>1, <1>3, <1>4
  <2>3. \A j \in DOMAIN indexes' : indexes'[j] = 1 \/ \E q \in DOMAIN natives' : Owns(q, j)'
    BY <1>1, <1>3, <1>4
  <2> QED BY <2>1, <2>2, <2>3
<1> QED BY <1>1, <1>3, <1>5, <1>6, <1>7 DEF p

(* Objects that are freed once more, and their indexes with them.          *)
LEMMA FreeKeeps ==
  ASSUME TypeOK, IndexesOwned, UNCHANGED <<lang, takes>>,
         NEW ptrs \in SUBSET DOMAIN natives, Free(ptrs),
         ~Raw => \A p \in ptrs : Living(p)
  PROVE  /\ IndexesOwned' /\ Grows /\ DOMAIN natives' = DOMAIN natives
         /\ \A p \in DOMAIN natives \ ptrs : Alike(p)
         /\ \A p \in ptrs : natives'[p].frees > 0
         /\ \A p \in DOMAIN natives : natives'[p].mode = natives[p].mode
                                      /\ natives'[p].index = natives[p].index
         /\ DOMAIN indexes' = DOMAIN indexes
         /\ \A i \in DOMAIN indexes : indexes'[i] # indexes[i] =>
              \E p \in ptrs : Owns(p, i)
         /\ ~Raw => faults' = faults
<1> DEFINE closed == UNION {Closes(natives[p]) : p \in ptrs}
<1>1. \A i : i \in closed <=> \E p \in ptrs : Owns(p, i)
  BY DEF Closes, Owns
<1>2. /\ natives' = [p \in DOMAIN natives |->
                      IF p \in ptrs THEN [natives[p] EXCEPT !.frees = @ + 1] ELSE natives[p]]
      /\ indexes' = [i \in DOMAIN indexes |-> IF i \in closed THEN indexes[i] + 1 ELSE indexes[i]]
      /\ faults' = IF \A p \in ptrs : Living(p) THEN faults ELSE {"dead"}
  BY DEF Free
<1> HIDE DEF closed
<1>3. \A n \in NativeType : LET m == [n EXCEPT !.frees = @ + 1] IN
        /\ m \in NativeType /\ m.frees = n.frees + 1 /\ m.mode = n.mode /\ m.index = n.index
        /\ m.for = n.for /\ m.class = n.class /\ m.lent = n.lent /\ n.frees \in Nat
  BY DEF NativeType
<1>4. \A p \in DOMAIN natives :
        /\ natives'[p] \in NativeType /\ natives[p].frees \in Nat
        /\ natives'[p].frees = IF p \in ptrs THEN natives[p].frees + 1 ELSE natives[p].frees
        /\ natives'[p].mode = natives[p].mode /\ natives'[p].index = natives[p].index
        /\ natives'[p].for = natives[p].for /\ natives'[p].class = natives[p].class
        /\ natives'[p].lent = natives[p].lent
  BY <1>2, <1>3, Types
<1>5. DOMAIN natives' = DOMAIN natives /\ natives' \in Seq(NativeType) /\ Len(natives') = Len(natives)
  <2>1. DOMAIN natives' = 1 .. Len(natives) /\ DOMAIN natives = 1 .. Len(natives)
        /\ Len(natives) \in Nat
    BY <1>2, Types
  <2>2. natives' \in [1 .. Len(natives) -> NativeType]
    BY <1>2, <1>4, <2>1
  <2> QED BY <2>1, <2>2
<1>6. DOMAIN indexes' = DOMAIN indexes /\ indexes' \in Seq(Nat)
      /\ \A i \in DOMAIN indexes :
           indexes'[i] = IF i \in closed THEN indexes[i] + 1 ELSE indexes[i]
  <2>1. DOMAIN indexes' = 1 .. Len(indexes) /\ DOMAIN indexes = 1 .. Len(indexes)
        /\ Len(indexes) \in Nat
    BY <1>2, Types
  <2>2. indexes' \in [1 .. Len(indexes) -> Nat]
    BY <1>2, <2>1, Types
  <2> QED BY <1>2, <2>1, <2>2
<1>7. Grows
  BY <1>4, <1>5, <1>6, Types DEF Grows
<1>8. IndexesOwned'
  <2> USE DEF IndexesOwned, Owns
  <2>1. ASSUME NEW p \in DOMAIN natives'
        PROVE  /\ natives'[p].index \in DOMAIN indexes'
               /\ natives'[p].mode = "MODEL" <=> natives'[p].class = "Model"
    BY <1>4, <1>5, <1>6
  <2>2. ASSUME NEW p \in DOMAIN natives', natives'[p].mode # "TEST_SHARED"
        PROVE  indexes'[natives'[p].index] = natives'[p].frees
    <3>1. Owns(p, natives[p].index) /\ natives[p].index \in DOMAIN indexes
          /\ indexes[natives[p].index] = natives[p].frees
      BY <1>4, <1>5, <2>2
    <3>2. natives[p].index \in closed <=> p \in ptrs
      BY <1>1, <1>5, <3>1
    <3> QED BY <1>4, <1>5, <1>6, <3>1, <3>2
  <2>3. ASSUME NEW p \in DOMAIN natives', ~Raw' PROVE natives'[p].frees <= 1
    BY <1>4, <1>5, <2>3 DEF Raw, Living
  <2>4. \A p, q \in DOMAIN natives' : \A i \in DOMAIN indexes' :
          Owns(p, i)' /\ Owns(q, i)' => p = q
    BY <1>4, <1>5, <1>6
  <2>5. ASSUME NEW i \in DOMAIN indexes'
        PROVE  indexes'[i] = 1 \/ \E p \in DOMAIN natives' : Owns(p, i)'
    <3>1. CASE i \in closed
      BY <1>1, <1>4, <1>5, <3>1
    <3>2. CASE i \notin closed
      <4>1. indexes'[i] = indexes[i] /\ i \in DOMAIN indexes
        BY <1>6, <3>2
      <4>2. CASE \E p \in DOMAIN natives : Owns(p, i)
        <5> PICK p \in DOMAIN natives : Owns(p, i)
          BY <4>2
        <5>1. p \in DOMAIN natives' /\ Owns(p, i)'
          BY <1>4, <1>5
        <5> QED BY <5>1
      <4> QED BY <4>1, <4>2
    <3> QED BY <3>1, <3>2
  <2> QED BY <2>1, <2>2, <2>3, <2>4, <2>5
<1>9. \A p \in DOMAIN natives \ ptrs : Alike(p)
  BY <1>4 DEF Alike
<1>10. ~Raw => faults' = faults
  BY <1>2
<1> QED BY <1>1, <1>4, <1>5, <1>6, <1>7, <1>8, <1>9, <1>10

(* set_model: an index of its own is deleted, the model's shared.          *)
LEMMA SetModelKeeps ==
  ASSUME TypeOK, IndexesOwned, UNCHANGED <<lang, takes>>,
         NEW p \in DOMAIN natives, NEW q \in DOMAIN natives, SetModel(p, q),
         natives[p].class = "Tagger", natives[p].frees = 0
  PROVE  /\ IndexesOwned' /\ Grows /\ DOMAIN natives' = DOMAIN natives
         /\ \A r \in DOMAIN natives \ {p} : Alike(r)
         /\ natives'[p].frees = 0 /\ natives'[p].mode = "TEST_SHARED"
         /\ natives'[p].index = natives[q].index
<1>1. /\ natives' = [natives EXCEPT ![p] = [natives[p] EXCEPT !.mode = "TEST_SHARED",
                                                             !.index = natives[q].index]]
      /\ indexes' = [i \in DOMAIN indexes |->
                       IF i \in Closes(natives[p]) THEN indexes[i] + 1 ELSE indexes[i]]
  BY Types DEF SetModel
<1>2. \A n \in NativeType, i \in Nat :
        LET m == [n EXCEPT !.mode = "TEST_SHARED", !.index = i] IN
        /\ m \in NativeType /\ m.frees = n.frees /\ m.mode = "TEST_SHARED" /\ m.index = i
        /\ m.for = n.for /\ m.class = n.class /\ m.lent = n.lent
  BY DEF NativeType
<1>3. natives[q].index \in Nat
  BY Types DEF NativeType
<1>4. /\ natives' \in Seq(NativeType) /\ Len(natives') = Len(natives)
      /\ DOMAIN natives' = DOMAIN natives
      /\ \A r \in DOMAIN natives \ {p} : natives'[r] = natives[r]
      /\ natives'[p].frees = 0 /\ natives'[p].mode = "TEST_SHARED"
      /\ natives'[p].index = natives[q].index /\ natives'[p].for = natives[p].for
      /\ natives'[p].class = "Tagger" /\ natives'[p].lent = natives[p].lent
  <2> DEFINE o == [natives[p] EXCEPT !.mode = "TEST_SHARED", !.index = natives[q].index]
  <2>1. natives[p] \in NativeType
    BY Types
  <2>2. /\ o \in NativeType /\ o.frees = natives[p].frees /\ o.mode = "TEST_SHARED"
        /\ o.index = natives[q].index /\ o.for = natives[p].for
        /\ o.class = natives[p].class /\ o.lent = natives[p].lent
    BY <1>2, <1>3, <2>1
  <2>3. natives' = [natives EXCEPT ![p] = o]
    BY <1>1
  <2> HIDE DEF o
  <2>4. /\ natives' \in Seq(NativeType) /\ Len(natives') = Len(natives)
        /\ DOMAIN natives' = DOMAIN natives /\ natives'[p] = o
        /\ \A r \in DOMAIN natives \ {p} : natives'[r] = natives[r]
    BY <2>2, <2>3, Types
  <2> QED BY <2>2, <2>4
<1>5. \A i : i \in Closes(natives[p]) <=> Owns(p, i)
  BY DEF Closes, Owns
<1>6. DOMAIN indexes' = DOMAIN indexes /\ indexes' \in Seq(Nat)
      /\ \A i \in DOMAIN indexes :
           indexes'[i] = IF Owns(p, i) THEN indexes[i] + 1 ELSE indexes[i]
  <2>1. DOMAIN indexes' = 1 .. Len(indexes) /\ DOMAIN indexes = 1 .. Len(indexes)
        /\ Len(indexes) \in Nat
    BY <1>1, Types
  <2>2. indexes' \in [1 .. Len(indexes) -> Nat]
    BY <1>1, <2>1, Types
  <2> QED BY <1>1, <1>5, <2>1, <2>2
<1>7. Grows
  BY <1>4, <1>6, Types DEF Grows
<1>8. \A r \in DOMAIN natives \ {p} : Alike(r)
  BY <1>4 DEF Alike
<1>9. IndexesOwned'
  <2> USE DEF IndexesOwned, Owns
  <2>1. ASSUME NEW r \in DOMAIN natives'
        PROVE  /\ natives'[r].index \in DOMAIN indexes'
               /\ natives'[r].mode = "MODEL" <=> natives'[r].class = "Model"
               /\ natives'[r].mode # "TEST_SHARED" => indexes'[natives'[r].index] = natives'[r].frees
               /\ ~Raw' => natives'[r].frees <= 1
    BY <1>4, <1>6 DEF Raw
  <2>2. \A r, s \in DOMAIN natives' : \A i \in DOMAIN indexes' :
          Owns(r, i)' /\ Owns(s, i)' => r = s
    BY <1>4, <1>6
  <2>3. ASSUME NEW i \in DOMAIN indexes'
        PROVE  indexes'[i] = 1 \/ \E r \in DOMAIN natives' : Owns(r, i)'
    <3>1. CASE Owns(p, i)
      BY <1>6, <3>1
    <3>2. CASE ~Owns(p, i)
      <4>1. indexes'[i] = indexes[i] /\ i \in DOMAIN indexes
        BY <1>6, <3>2
      <4>2. CASE \E r \in DOMAIN natives : Owns(r, i)
        <5> PICK r \in DOMAIN natives : Owns(r, i)
          BY <4>2
        <5>1. r \in DOMAIN natives' /\ Owns(r, i)'
          BY <1>4, <3>2
        <5> QED BY <5>1
      <4> QED BY <4>1, <4>2
    <3> QED BY <3>1, <3>2
  <2> QED BY <2>1, <2>2, <2>3
<1> QED BY <1>4, <1>7, <1>8, <1>9

(* createTagger: one more object shares the index of the model.            *)
LEMMA CreateTaggerKeeps ==
  ASSUME TypeOK, IndexesOwned, UNCHANGED <<lang, takes>>,
         NEW p \in DOMAIN natives, CreateTagger(p)
  PROVE  LET n == Len(natives) + 1 IN
         /\ IndexesOwned' /\ Grows
         /\ DOMAIN natives' = DOMAIN natives \cup {n} /\ n \notin DOMAIN natives
         /\ \A q \in DOMAIN natives : Alike(q)
         /\ natives'[n].for = Len(handles) + 1 /\ natives'[n].class = "Tagger"
         /\ natives'[n].frees = 0 /\ natives'[n].mode = "TEST_SHARED" /\ natives'[n].lent = TRUE
         /\ natives'[n].index = natives[p].index
<1> DEFINE n == Len(natives) + 1
           o == Object("Tagger", "TEST_SHARED", natives[p].index, Len(handles) + 1, TRUE)
<1>1. Len(handles) \in Nat /\ natives[p].index \in Nat
  BY Types DEF TypeOK, NativeType
<1>2. /\ o \in NativeType /\ o.index = natives[p].index /\ o.for = Len(handles) + 1
      /\ o.class = "Tagger" /\ o.frees = 0 /\ o.mode = "TEST_SHARED" /\ o.lent = TRUE
  BY <1>1 DEF Object, NativeType
<1>3. natives' = Append(natives, o) /\ indexes' = indexes
  BY DEF CreateTagger
<1> HIDE DEF o
<1>4. /\ natives' \in Seq(NativeType) /\ Len(natives') = Len(natives) + 1
      /\ DOMAIN natives' = DOMAIN natives \cup {n} /\ n \notin DOMAIN natives
      /\ \A q \in DOMAIN natives : natives'[q] = natives[q]
      /\ natives'[n] = o
  BY <1>2, <1>3, Appended
<1> HIDE DEF n
<1>5. Grows
  BY <1>3, <1>4, Types DEF Grows
<1>6. \A q \in DOMAIN natives : Alike(q)
  BY <1>4 DEF Alike
<1>7. IndexesOwned'
  <2> USE DEF IndexesOwned, Owns, Raw
  <2>1. \A q \in DOMAIN natives' :
          /\ natives'[q].index \in DOMAIN indexes'
          /\ natives'[q].mode = "MODEL" <=> natives'[q].class = "Model"
          /\ natives'[q].mode # "TEST_SHARED" => indexes'[natives'[q].index] = natives'[q].frees
          /\ ~Raw' => natives'[q].frees <= 1
    BY <1>2, <1>3, <1>4
  <2>2. \A q, r \in DOMAIN natives' : \A j \in DOMAIN indexes' :
          Owns(q, j)' /\ Owns(r, j)' => q = r
    BY <1>2, <1>3, <1>4
  <2>3. \A j \in DOMAIN indexes' : indexes'[j] = 1 \/ \E q \in DOMAIN natives' : Owns(q, j)'
    BY <1>3, <1>4
  <2> QED BY <2>1, <2>2, <2>3
<1> QED BY <1>2, <1>4, <1>5, <1>6, <1>7 DEF n
-----------------------------------------------------------------------------
(* Handles.                                                                *)
HandleType == [class : {"Model", "Tagger"}, this : Seq(Mem),
               state : {"held", "dropped", "gone"}, deleted : BOOLEAN]

RunType == [op : Ops \cup {"idle", "delete"}, on : Nat, with : Nat, ptr : Nat, arg : Nat]

LEMMA HandleTypes ==
  ASSUME TypeOK
  PROVE  /\ handles \in Seq(HandleType) /\ Len(handles) \in Nat
         /\ DOMAIN handles = 1 .. Len(handles)
         /\ \A h \in DOMAIN handles : handles[h] \in HandleType
         /\ running \in [Threads -> RunType]
<1>1. handles \in Seq(HandleType)
  BY DEF TypeOK, HandleType, Mem
<1>2. running \in [Threads -> RunType]
  BY DEF TypeOK, RunType
<1> QED BY <1>1, <1>2

(* What a handle that is not gone reaches and frees.                       *)
LEMMA Reached ==
  ASSUME TypeOK, HeldOnce, NEW h \in DOMAIN handles, handles[h].state # "gone"
  PROVE  /\ Proper(lang, handles[h].this)
         /\ TargetOf(h) = First(h) /\ Destroyed(handles[h].this) = Owned(handles[h].this)
         /\ handles[h].this # <<>> =>
              /\ 1 \in DOMAIN handles[h].this /\ First(h) = handles[h].this[1].ptr
              /\ First(h) \in DOMAIN natives /\ First(h) # 0
              /\ natives[First(h)].for = h /\ natives[First(h)].class = handles[h].class
         /\ \A p \in Owned(handles[h].this) :
              /\ p \in DOMAIN natives /\ natives[p].for = h
              /\ ~Raw => natives[p].frees = 0
<1> DEFINE this == handles[h].this
<1>1. this \in Seq(Mem) /\ Holds(h)
  BY HandleTypes DEF HandleType, HeldOnce
<1>2. Proper(lang, this)
  BY <1>1 DEF Holds, Proper
<1>3. TargetOf(h) = First(h) /\ Destroyed(this) = Owned(this)
  BY <1>2, TargetIs, DestroyedIs DEF TypeOK, TargetOf, First
<1>4. this # <<>> => 1 \in DOMAIN this
  BY <1>1
<1>5. \A p \in DOMAIN natives : p # 0
  BY Types
<1>6. this # <<>> =>
        /\ 1 \in DOMAIN this /\ First(h) = this[1].ptr
        /\ First(h) \in DOMAIN natives /\ First(h) # 0
        /\ natives[First(h)].for = h /\ natives[First(h)].class = handles[h].class
  BY <1>1, <1>4, <1>5 DEF Holds, First
<1>7. ASSUME NEW p \in Owned(this)
      PROVE  /\ p \in DOMAIN natives /\ natives[p].for = h
             /\ ~Raw => natives[p].frees = 0
  <2> PICK i \in DOMAIN this : this[i].own /\ p = this[i].ptr
    BY DEF Owned
  <2> QED BY <1>1 DEF Holds
<1> QED BY <1>2, <1>3, <1>6, <1>7

(* A handle that stays as it is.                                           *)
LEMMA HoldsOn ==
  ASSUME Grows, UNCHANGED <<lang, takes>>, NEW h \in DOMAIN handles, Holds(h),
         handles'[h].this = handles[h].this, handles'[h].class = handles[h].class,
         handles'[h].deleted = handles[h].deleted,
         handles'[h].state = "gone" <=> handles[h].state = "gone",
         \A p \in DOMAIN natives : natives[p].for = h => natives'[p].frees = natives[p].frees
  PROVE  Holds(h)'
  BY DEF Holds, Grows, Raw

(* Changes of handle h alone, and a handle more.                           *)
Only(h) == /\ handles' \in Seq(HandleType) /\ DOMAIN handles' = DOMAIN handles
           /\ \A g \in DOMAIN handles \ {h} : handles'[g] = handles[g]
           /\ handles'[h].class = handles[h].class

Added(r) == /\ handles' \in Seq(HandleType)
            /\ DOMAIN handles' = DOMAIN handles \cup {Len(handles) + 1}
            /\ Len(handles) + 1 \notin DOMAIN handles
            /\ \A g \in DOMAIN handles : handles'[g] = handles[g]
            /\ handles'[Len(handles) + 1] = r

LEMMA Changed ==
  ASSUME TypeOK, NEW h \in DOMAIN handles, NEW r \in HandleType, r.class = handles[h].class,
         handles' = [handles EXCEPT ![h] = r]
  PROVE  Only(h) /\ handles'[h] = r
<1>1. handles \in Seq(HandleType)
  BY HandleTypes
<1> QED BY <1>1 DEF Only

LEMMA AppendedHandle ==
  ASSUME TypeOK, NEW r \in HandleType, handles' = Append(handles, r)
  PROVE  Added(r)
<1>1. handles \in Seq(HandleType)
  BY HandleTypes
<1> QED BY <1>1 DEF Added

LEMMA OthersHold ==
  ASSUME TypeOK, HeldOnce, Grows, UNCHANGED <<lang, takes>>, NEW h,
         \A g \in DOMAIN handles \ {h} : handles'[g] = handles[g],
         \A p \in DOMAIN natives : natives[p].for # h => natives'[p].frees = natives[p].frees
  PROVE  \A g \in DOMAIN handles \ {h} : Holds(g)'
<1> SUFFICES ASSUME NEW g \in DOMAIN handles \ {h} PROVE Holds(g)'
  OBVIOUS
<1>1. Holds(g) /\ handles'[g] = handles[g]
  BY DEF HeldOnce
<1>2. \A p \in DOMAIN natives : natives[p].for = g => natives'[p].frees = natives[p].frees
  OBVIOUS
<1> QED BY <1>1, <1>2, HoldsOn
-----------------------------------------------------------------------------
(* Threads.                                                                *)
Calmer == /\ running' \in [Threads -> RunType]
          /\ \A u \in Threads : running'[u] = running[u] \/ running'[u] = Idle

(* What handle h must still be while a thread is inside.                   *)
Steady(h) == /\ h \in DOMAIN handles' /\ handles'[h].class = handles[h].class
             /\ handles'[h].state # "gone"

LEMMA InsideOn ==
  ASSUME TypeOK, Entered, Grows, Calmer, UNCHANGED <<lang, takes>>,
         \A t \in Threads, h \in DOMAIN handles :
           running[t].op # "idle" /\ h \in {running[t].on, running[t].with} => Steady(h),
         \A t \in Threads, h \in DOMAIN handles :
           (/\ running'[t] = running[t] /\ running[t].op # "idle"
            /\ h \in {running[t].on, running[t].with})
             => handles'[h].this = handles[h].this \/ (Races /\ running[t].op \in Ops),
         DOMAIN handles \subseteq DOMAIN handles',
         \A t \in Threads, h \in DOMAIN handles :
           ~Races /\ "drops" \notin takes /\ Attaching(t, h) => Held(h)',
         \A t \in Threads, h \in DOMAIN handles' : Attaching(t, h) => h \in DOMAIN handles
  PROVE  Entered'
<1> SUFFICES ASSUME NEW t \in Threads PROVE Inside(t)'
  BY DEF Entered
<1>0. Inside(t) /\ running[t] \in RunType
  BY HandleTypes DEF Entered
<1>1. CASE running'[t] = Idle
  BY <1>1 DEF Inside, Idle, Ops, Attaching
<1>2. CASE running'[t] = running[t] /\ running[t].op # "idle"
  <2> DEFINE r == running[t]
  <2>1. r.on \in DOMAIN handles /\ Steady(r.on) /\ lang = "Java" /\ r.op # "idle"
    BY <1>0, <1>2 DEF Inside
  <2>2. r.op = "set_model" => r.with \in DOMAIN handles /\ Steady(r.with)
    BY <1>0, <1>2 DEF Inside
  <2>3. \A h : Busy("delete", h)' => Busy("delete", h)
    BY DEF Busy, Calmer, Idle
  <2>4. /\ r.on \in DOMAIN handles' /\ handles'[r.on].state # "gone"
        /\ r.op = "set_model" =>
             /\ r.with \in DOMAIN handles' /\ handles'[r.with].state # "gone"
             /\ handles'[r.on].class = "Tagger" /\ handles'[r.with].class = "Model"
             /\ r.arg \in DOMAIN natives' /\ natives'[r.arg].class = "Model"
        /\ r.op # "set_model" => r.with = 0
        /\ r.op = "createTagger" => handles'[r.on].class = "Model"
    BY <1>0, <2>1, <2>2 DEF Inside, Steady, Grows
  <2>5. r.op \in Ops => IF r.ptr = 0 THEN "reuses" \in takes'
                        ELSE r.ptr \in DOMAIN natives' /\ natives'[r.ptr].class = handles'[r.on].class
    BY <1>0, <2>1 DEF Inside, Steady, Grows
  <2>6. ~(Races /\ r.op \in Ops) =>
          /\ handles'[r.on].this = handles[r.on].this
          /\ First(r.on)' = First(r.on)
          /\ r.op = "set_model" => First(r.with)' = First(r.with)
    BY <1>2, <2>1, <2>2 DEF First
  <2>7. r.op \in Ops /\ ~Races' =>
          /\ r.ptr = First(r.on)' /\ (r.op = "set_model" => r.arg = First(r.with)')
          /\ ~Busy("delete", r.on)' /\ ~Busy("delete", r.with)'
    BY <1>0, <1>2, <2>3, <2>6 DEF Inside, Races, Ops
  <2>8. r.op = "delete" =>
          /\ r.ptr = IF Owned(handles'[r.on].this) = {} THEN 0 ELSE First(r.on)'
          /\ \A u \in Threads : running'[u].op = "delete" /\ running'[u].on = r.on => u = t
    BY <1>0, <1>2, <2>1, <2>6 DEF Inside, Calmer, Idle, Ops
  <2>9. ~Races' /\ "drops" \notin takes' =>
          \A h \in DOMAIN handles' : Attaching(t, h)' => Held(h)'
    BY <1>2 DEF Attaching, Races
  <2> QED
    BY <1>2, <2>1, <2>4, <2>5, <2>7, <2>8, <2>9 DEF Inside
<1>3. CASE running'[t] = running[t] /\ running[t].op = "idle"
  <2>1. running'[t] = Idle
    BY <1>0, <1>3 DEF Inside
  <2> QED BY <1>1, <2>1
<1> QED BY <1>1, <1>2, <1>3 DEF Calmer

(* Only Java has threads.                                                  *)
LEMMA NoThreads ==
  ASSUME TypeOK, Entered, lang # "Java"
  PROVE  /\ \A t \in Threads : running[t] = Idle
         /\ \A h \in DOMAIN handles : ~InUse(h)
         /\ \A op, h : ~(op # "idle" /\ Busy(op, h))
<1>1. \A t \in Threads : running[t] = Idle
  BY DEF Entered, Inside
<1>2. \A h \in DOMAIN handles : h # 0
  BY HandleTypes
<1> QED BY <1>1, <1>2 DEF InUse, Busy, Idle

LEMMA StillIdle ==
  ASSUME TypeOK, Entered, lang # "Java", UNCHANGED <<lang, takes, running>>
  PROVE  Entered'
<1>1. \A t \in Threads : running'[t] = Idle
  BY NoThreads
<1> QED BY <1>1 DEF Entered, Inside, Idle, Ops, Attaching
-----------------------------------------------------------------------------
(* Leaks.                                                                  *)
LEMMA LostForGood ==
  ASSUME TypeOK, Grows, UNCHANGED <<lang, takes>>, NEW p \in DOMAIN natives, Lost(p)
  PROVE  Lost(p)'
<1>1. DOMAIN natives = 1 .. Len(natives) /\ DOMAIN natives' = 1 .. Len(natives')
      /\ Len(natives) \in Nat /\ Len(natives') \in Nat /\ Len(natives) <= Len(natives')
      /\ \A q \in DOMAIN natives : /\ natives'[q].for = natives[q].for
                                   /\ natives'[q].lent = natives[q].lent
  BY Types DEF Grows
<1> DEFINE same(q) == natives[q].for = natives[p].for
           same2(q) == natives'[q].for = natives'[p].for
<1>2. \A q \in DOMAIN natives : same(q) => same2(q)
  BY <1>1
<1>3. \A q \in 1 .. p - 1 : q \in DOMAIN natives
  BY <1>1
<1>4. \A q \in p + 1 .. Len(natives) : q \in DOMAIN natives /\ q \in p + 1 .. Len(natives')
  BY <1>1
<1>5. {q \in 1 .. p - 1 : same(q)} # {} => {q \in 1 .. p - 1 : same2(q)} # {}
  BY <1>2, <1>3
<1>6. {q \in p + 1 .. Len(natives) : same(q)} # {} => {q \in p + 1 .. Len(natives') : same2(q)} # {}
  BY <1>2, <1>4
<1>7. (\E q \in {x \in 1 .. p - 1 : same(x)} : natives[q].lent) =>
        (\E q \in {x \in 1 .. p - 1 : same2(x)} : natives'[q].lent)
  BY <1>1, <1>2, <1>3
<1> QED BY <1>5, <1>6, <1>7 DEF Lost

(* An object goes on being accounted for as long as its handle has it.     *)
LEMMA AccountedOn ==
  ASSUME TypeOK, HeldOnce, Accounted, Grows, UNCHANGED <<lang, takes>>,
         NEW p \in DOMAIN natives, natives'[p].frees = 0 => natives[p].frees = 0,
         Living(p)',
         \A h \in DOMAIN handles :
           (/\ handles[h].state # "gone" /\ p \in Owned(handles[h].this)) =>
              \/ "owns" \in takes \/ Lost(p)'
              \/ \E g \in DOMAIN handles' : handles'[g].state # "gone" /\ p \in Owned(handles'[g].this)
  PROVE  \/ natives'[p].lent \/ "owns" \in takes' \/ Lost(p)'
         \/ \E h \in DOMAIN handles' : handles'[h].state # "gone" /\ p \in Owned(handles'[h].this)
<1>1. Living(p)
  BY DEF Living
<1>2. natives[p].lent => natives'[p].lent
  BY DEF Grows
<1> QED BY <1>1, <1>2, LostForGood DEF Accounted
-----------------------------------------------------------------------------
(* Models in use.                                                          *)
LEMMA KeeperNeeded ==
  ASSUME TypeOK, HeldOnce, Entered, NEW g \in DOMAIN handles, Shares(g),
         NEW k \in DOMAIN handles, Keeper(k, natives[handles[g].this[1].ptr].index)
  PROVE  Needed(k)
<1>1. handles[g].state # "gone"
  <2>1. \A t \in Threads : g \in {running[t].on, running[t].with} => handles[g].state # "gone"
    <3> SUFFICES ASSUME NEW t \in Threads, g \in {running[t].on, running[t].with}
                 PROVE  handles[g].state # "gone"
      OBVIOUS
    <3>1. Inside(t) /\ g # 0
      BY HandleTypes DEF Entered
    <3> QED BY <3>1 DEF Inside, Idle
  <2> QED BY <2>1 DEF Shares, Held, InUse
<1>2. handles[k].state # "gone"
  BY DEF Keeper, Held
<1>3. TargetOf(g) = handles[g].this[1].ptr /\ TargetOf(g) # 0
  BY <1>1, Reached DEF Shares
<1>4. TargetOf(k) = handles[k].this[1].ptr /\ TargetOf(k) # 0
  BY <1>2, Reached DEF Keeper
<1>5. Living(TargetOf(g)) /\ Living(TargetOf(k))
  BY <1>3, <1>4 DEF Living, Shares, Keeper
<1> QED BY <1>3, <1>4, <1>5 DEF Needed, Shares, Keeper
-----------------------------------------------------------------------------
(* Steps that touch one handle, or add one.                                *)
TypesNext == /\ lang' = lang /\ takes' = takes /\ Grows /\ handles' \in Seq(HandleType)
             /\ running' \in [Threads -> RunType] /\ faults' \subseteq {"null", "dead", "orphan"}

LEMMA TypesKept ==
  ASSUME TypeOK, TypesNext PROVE TypeOK'
  BY DEF TypeOK, TypesNext, Grows, NativeType, HandleType, RunType, Mem

(* What a step on handle h leaves of all others.                           *)
Apart(h) ==
  /\ DOMAIN handles \subseteq DOMAIN handles' /\ DOMAIN handles' \subseteq DOMAIN handles \cup {h}
  /\ \A g \in DOMAIN handles \ {h} : handles'[g] = handles[g]
  /\ \A p \in DOMAIN natives :
       /\ natives[p].for # h => natives'[p].frees = natives[p].frees
       /\ natives'[p].frees = 0 => natives[p].frees = 0
       /\ natives[p].class = "Model" => natives'[p].index = natives[p].index

(* What a step on handle h makes of the objects that were its own.         *)
Accounts(h) ==
  \A p \in DOMAIN natives' :
    (/\ natives'[p].frees = 0
     /\ p \notin DOMAIN natives \/ (/\ h \in DOMAIN handles /\ handles[h].state # "gone"
                                    /\ p \in Owned(handles[h].this)))
      => \/ natives'[p].lent \/ "owns" \in takes' \/ Lost(p)'
         \/ /\ h \in DOMAIN handles' /\ handles'[h].state # "gone"
            /\ p \in Owned(handles'[h].this)

(* What it must do when h is a model in use, or a tagger that uses one.    *)
StaysKeeper(h) ==
  (/\ h \in DOMAIN handles /\ Needed(h) /\ handles[h].class = "Model" /\ Held(h)
   /\ handles[h].this # <<>> /\ ~Busy("delete", h)
   /\ natives[handles[h].this[1].ptr].frees = 0)
    => /\ Held(h)' /\ handles'[h].class = "Model" /\ handles'[h].this # <<>>
       /\ handles'[h].this[1].ptr = handles[h].this[1].ptr
       /\ natives'[handles[h].this[1].ptr].frees = 0 /\ ~Busy("delete", h)'

SharesAsBefore(g) == /\ g \in DOMAIN handles /\ Shares(g)
                     /\ natives'[handles'[g].this[1].ptr].index = natives[handles[g].this[1].ptr].index

FindsKeeper(g) == \E k \in DOMAIN handles' : Keeper(k, natives[handles[g].this[1].ptr].index)'

LEMMA StepOn ==
  ASSUME TypeOK, HeldOnce, Entered, Accounted, ModelsKept, TypesNext, NEW h, Apart(h),
         h \in DOMAIN handles' => Holds(h)', Accounts(h),
         \A u : u # h /\ Busy("delete", u)' => Busy("delete", u),
         ~Races /\ "drops" \notin takes => StaysKeeper(h),
         ~Races /\ "drops" \notin takes =>
           \A g \in DOMAIN handles' : Shares(g)' => SharesAsBefore(g) \/ FindsKeeper(g)
  PROVE  HeldOnce' /\ Accounted' /\ ModelsKept'
<1>1. HeldOnce'
  <2>1. \A g \in DOMAIN handles \ {h} : Holds(g)'
    BY OthersHold DEF Apart, TypesNext
  <2> QED BY <2>1 DEF HeldOnce, Apart
<1>2. Accounted'
  <2> SUFFICES ASSUME NEW p \in DOMAIN natives', natives'[p].frees = 0, p # 0
               PROVE  \/ natives'[p].lent \/ "owns" \in takes' \/ Lost(p)'
                      \/ \E g \in DOMAIN handles' :
                           handles'[g].state # "gone" /\ p \in Owned(handles'[g].this)
    BY DEF Accounted, Living
  <2>1. CASE p \notin DOMAIN natives
    BY <2>1 DEF Accounts
  <2>2. CASE p \in DOMAIN natives
    <3>1. \A g \in DOMAIN handles :
            (/\ handles[g].state # "gone" /\ p \in Owned(handles[g].this)) =>
              \/ natives'[p].lent \/ "owns" \in takes \/ Lost(p)'
              \/ \E k \in DOMAIN handles' : handles'[k].state # "gone" /\ p \in Owned(handles'[k].this)
      <4> TAKE g \in DOMAIN handles
      <4>1. CASE g = h
        BY <4>1 DEF Accounts, TypesNext
      <4>2. CASE g # h
        BY <4>2 DEF Apart
      <4> QED BY <4>1, <4>2
    <3>2. CASE natives'[p].lent
      BY <3>2
    <3>3. CASE ~natives'[p].lent
      <4>1. natives'[p].frees = 0 => natives[p].frees = 0
        BY <2>2 DEF Apart
      <4>2. Living(p)'
        BY DEF Living
      <4> QED BY <2>2, <3>1, <3>3, <4>1, <4>2, AccountedOn DEF TypesNext
    <3> QED BY <3>2, <3>3
  <2> QED BY <2>1, <2>2
<1>3. ModelsKept'
  <2> SUFFICES ASSUME ~Races, "drops" \notin takes, NEW g \in DOMAIN handles', Shares(g)'
               PROVE  FindsKeeper(g)
    BY DEF ModelsKept, TypesNext, Races, FindsKeeper
  <2>1. CASE SharesAsBefore(g)
    <3>1. PICK k \in DOMAIN handles : Keeper(k, natives[handles[g].this[1].ptr].index)
      BY <2>1 DEF ModelsKept, SharesAsBefore
    <3>2. Needed(k)
      BY <2>1, <3>1, KeeperNeeded DEF SharesAsBefore
    <3> DEFINE p == handles[k].this[1].ptr
    <3>3. p \in DOMAIN natives /\ natives[p].for = k /\ natives[p].class = "Model"
      BY <3>1, Reached DEF Keeper, Held
    <3>4. /\ Held(k)' /\ handles'[k].class = "Model" /\ handles'[k].this # <<>>
          /\ handles'[k].this[1].ptr = p /\ natives'[p].frees = 0 /\ ~Busy("delete", k)'
      <4>1. CASE k = h
        BY <3>1, <3>2, <4>1 DEF StaysKeeper, Keeper
      <4>2. CASE k # h
        <5>1. handles'[k] = handles[k] /\ natives'[p].frees = natives[p].frees
          BY <3>3, <4>2 DEF Apart
        <5>2. ~Busy("delete", k) /\ ~Busy("delete", k)'
          BY <3>1, <4>2 DEF Keeper
        <5> QED BY <3>1, <5>1, <5>2 DEF Keeper, Held
      <4> QED BY <4>1, <4>2
    <3>5. natives'[p].index = natives[p].index
      BY <3>3 DEF Apart
    <3>6. Keeper(k, natives[handles[g].this[1].ptr].index)'
      BY <2>1, <3>1, <3>4, <3>5 DEF Keeper, SharesAsBefore
    <3> QED BY <3>6 DEF FindsKeeper, Apart
  <2>2. CASE FindsKeeper(g)
    BY <2>2
  <2> QED BY <2>1, <2>2
<1> QED BY <1>1, <1>2, <1>3

(* A tagger that was and is in use, with the same object.                  *)
LEMMA SharesBack ==
  ASSUME NEW g \in DOMAIN handles, Shares(g)', handles'[g] = handles[g],
         InUse(g)' => Held(g) \/ InUse(g),
         LET p == handles[g].this[1].ptr IN
           natives'[p].mode = natives[p].mode /\ natives'[p].index = natives[p].index
           /\ (natives'[p].frees = 0 => natives[p].frees = 0)
  PROVE  SharesAsBefore(g)
  BY DEF Shares, SharesAsBefore, Held

LEMMA FaultsSame ==
  ASSUME FaultsEarned, UNCHANGED <<lang, takes, faults>> PROVE FaultsEarned'
  BY DEF FaultsEarned
-----------------------------------------------------------------------------
(* The steps, one by one.                                                  *)

(* Threads that go on, and handles that stay as they are or are more.      *)
LEMMA EnteredOn ==
  ASSUME TypeOK, Entered, Grows, Calmer, UNCHANGED <<lang, takes>>,
         \A g \in DOMAIN handles : g \in DOMAIN handles' /\ handles'[g] = handles[g]
  PROVE  Entered'
<1>1. \A t \in Threads : Inside(t)
  BY DEF Entered
<1>2. ASSUME NEW t \in Threads, NEW g \in DOMAIN handles, running[t].op # "idle",
             g \in {running[t].on, running[t].with}
      PROVE  Steady(g)
  <2>1. g # 0
    BY HandleTypes
  <2> QED BY <1>1, <1>2, <2>1 DEF Inside, Steady
<1>3. ASSUME NEW t \in Threads, NEW g \in DOMAIN handles, ~Races, "drops" \notin takes, Attaching(t, g)
      PROVE  Held(g)'
  <2>1. Held(g)
    BY <1>1, <1>3 DEF Inside
  <2> QED BY <2>1 DEF Held
<1>4. \A t \in Threads, g \in DOMAIN handles' : Attaching(t, g) => g \in DOMAIN handles
  BY <1>1 DEF Inside, Attaching
<1> QED BY <1>2, <1>3, <1>4, InsideOn

LEMMA StillRunning ==
  ASSUME TypeOK, UNCHANGED running PROVE Calmer
  BY HandleTypes DEF Calmer

LEMMA CalmerIs ==
  ASSUME TypeOK, Calmer
  PROVE  /\ \A u : Busy("delete", u)' => Busy("delete", u)
         /\ \A g \in DOMAIN handles : InUse(g)' => InUse(g)
<1>1. \A g \in DOMAIN handles : g # 0
  BY HandleTypes
<1> QED BY <1>1 DEF Calmer, Busy, InUse, Idle

(* The handles of new objects are not in use yet.                          *)
LEMMA NewStep ==
  ASSUME IInv, NEW class \in {"Model", "Tagger"}, New(class)
  PROVE  IInv'
<1> USE DEF IInv
<1>0. PICK h \in Nat, p \in Nat : h = Len(handles) + 1 /\ p = Len(natives) + 1
  BY HandleTypes, Types
<1> DEFINE this == <<[ptr |-> p, own |-> TRUE]>>
           r == [class |-> class, this |-> this, state |-> "held", deleted |-> FALSE]
<1>2. /\ this \in Seq(Mem) /\ Len(this) = 1 /\ DOMAIN this = {1} /\ this # <<>>
      /\ this[1].ptr = p /\ this[1].own = TRUE
  BY One
<1>3. Constructed(<<>>, p) = this
  BY ConstructedIs DEF TypeOK
<1>4. /\ Opened(class, h) /\ handles' = Append(handles, r)
      /\ UNCHANGED <<lang, takes, running, faults>>
  BY <1>0, <1>3 DEF New
<1> HIDE DEF this
<1>5. r \in HandleType /\ r.this = this /\ r.state = "held" /\ r.class = class /\ r.deleted = FALSE
  BY <1>2 DEF HandleType
<1> HIDE DEF r
<1>6. Added(r)
  BY <1>4, <1>5, AppendedHandle
<1>7. /\ IndexesOwned' /\ Grows
      /\ DOMAIN natives' = DOMAIN natives \cup {p} /\ p \notin DOMAIN natives
      /\ \A q \in DOMAIN natives : Alike(q)
      /\ natives'[p].for = h /\ natives'[p].class = class /\ natives'[p].frees = 0
      /\ natives'[p].mode # "TEST_SHARED"
  BY <1>0, <1>4, OpenedKeeps
<1>8. /\ handles' \in Seq(HandleType) /\ DOMAIN handles' = DOMAIN handles \cup {h}
      /\ h \notin DOMAIN handles /\ handles'[h] = r
      /\ \A g \in DOMAIN handles : g \in DOMAIN handles' /\ handles'[g] = handles[g]
  BY <1>0, <1>6 DEF Added
<1>9. TypesNext
  BY <1>4, <1>7, <1>8, HandleTypes DEF TypesNext, TypeOK
<1>10. Apart(h)
  BY <1>7, <1>8 DEF Apart, Alike
<1>11. Holds(h)'
  BY <1>2, <1>5, <1>7, <1>8 DEF Holds
<1>12. Accounts(h)
  BY <1>2, <1>5, <1>7, <1>8 DEF Accounts, Owned
<1>13. Calmer
  BY <1>4, StillRunning
<1>14. StaysKeeper(h)
  BY <1>8 DEF StaysKeeper
<1>15. ASSUME NEW g \in DOMAIN handles', Shares(g)' PROVE SharesAsBefore(g)
  <2>1. g # h
    BY <1>2, <1>5, <1>7, <1>8, <1>15 DEF Shares
  <2>2. g \in DOMAIN handles /\ handles'[g] = handles[g] /\ handles[g].this # <<>>
    BY <1>8, <1>15, <2>1 DEF Shares
  <2>3. Holds(g) /\ 1 \in DOMAIN handles[g].this
    BY <2>2, HandleTypes DEF HeldOnce, HandleType
  <2>4. Alike(handles[g].this[1].ptr)
    BY <1>7, <2>3 DEF Holds
  <2> QED BY <1>13, <1>15, <2>2, <2>4, SharesBack, CalmerIs DEF Alike
<1>16. TypeOK' /\ HeldOnce' /\ Accounted' /\ ModelsKept'
  BY <1>9, <1>10, <1>11, <1>12, <1>13, <1>14, <1>15, StepOn, TypesKept, CalmerIs
<1>17. Entered'
  BY <1>4, <1>7, <1>8, <1>13, EnteredOn
<1> QED BY <1>4, <1>7, <1>16, <1>17, FaultsSame

LEMMA Untouched ==
  ASSUME TypeOK, IndexesOwned, UNCHANGED <<lang, takes, natives, indexes>>
  PROVE  IndexesOwned' /\ Grows /\ \A p \in DOMAIN natives : Alike(p)
<1>1. Grows /\ \A p \in DOMAIN natives : Alike(p)
  BY Types DEF Grows, Alike
<1>2. IndexesOwned'
  BY DEF IndexesOwned, Owns, Raw
<1> QED BY <1>1, <1>2

LEMMA UnbornStep ==
  ASSUME IInv, NEW class \in {"Model", "Tagger"}, Unborn(class)
  PROVE  IInv'
<1> DEFINE r == [class |-> class, this |-> <<>>, state |-> "held", deleted |-> FALSE]
<1> USE DEF IInv
<1>0. PICK h \in Nat : h = Len(handles) + 1
  BY HandleTypes
<1>1. /\ handles' = Append(handles, r) /\ lang \in {"Python", "Ruby"}
      /\ UNCHANGED <<lang, takes, natives, indexes, running, faults>>
  BY DEF Unborn
<1>2. r \in HandleType /\ r.this = <<>> /\ r.state = "held" /\ r.class = class /\ r.deleted = FALSE
  BY DEF HandleType
<1> HIDE DEF r
<1>3. Added(r)
  BY <1>1, <1>2, AppendedHandle
<1>4. IndexesOwned' /\ Grows /\ \A p \in DOMAIN natives : Alike(p)
  BY <1>1, Untouched
<1>5. /\ handles' \in Seq(HandleType) /\ DOMAIN handles' = DOMAIN handles \cup {h}
      /\ h \notin DOMAIN handles /\ handles'[h] = r
      /\ \A g \in DOMAIN handles : g \in DOMAIN handles' /\ handles'[g] = handles[g]
  BY <1>0, <1>3 DEF Added
<1>6. TypesNext
  BY <1>1, <1>4, <1>5, HandleTypes DEF TypesNext, TypeOK
<1>7. Apart(h)
  BY <1>1, <1>5 DEF Apart
<1>8. Holds(h)'
  BY <1>1, <1>2, <1>5 DEF Holds
<1>9. Accounts(h)
  BY <1>1, <1>5 DEF Accounts
<1>10. Calmer
  BY <1>1, StillRunning
<1>11. StaysKeeper(h)
  BY <1>5 DEF StaysKeeper
<1>12. ASSUME NEW g \in DOMAIN handles', Shares(g)' PROVE SharesAsBefore(g)
  <2>1. g \in DOMAIN handles /\ handles'[g] = handles[g]
    BY <1>2, <1>5, <1>12 DEF Shares
  <2> QED BY <1>1, <1>10, <1>12, <2>1, SharesBack, CalmerIs
<1>13. TypeOK' /\ HeldOnce' /\ Accounted' /\ ModelsKept'
  BY <1>6, <1>7, <1>8, <1>9, <1>10, <1>11, <1>12, StepOn, TypesKept, CalmerIs
<1>14. Entered'
  BY <1>1, <1>4, <1>5, <1>10, EnteredOn
<1> QED BY <1>1, <1>4, <1>13, <1>14, FaultsSame

(* An object that a second call of its constructor leaves to nobody.       *)
LEMMA LostNow ==
  ASSUME Grows, NEW p \in DOMAIN natives', "again" \in takes',
         NEW q \in DOMAIN natives', natives'[q].for = natives'[p].for,
         NEW s \in DOMAIN natives', natives'[s].for = natives'[p].for,
         \/ lang' = "Python" /\ q < p /\ p < s
         \/ lang' = "Ruby" /\ p < s
         \/ lang' = "Ruby" /\ q < p /\ natives'[q].lent
  PROVE  Lost(p)'
<1>1. DOMAIN natives' = 1 .. Len(natives') /\ Len(natives') \in Nat
  BY DEF Grows
<1>2. q < p => q \in {x \in 1 .. p - 1 : natives'[x].for = natives'[p].for}
  BY <1>1
<1>3. p < s => s \in {x \in p + 1 .. Len(natives') : natives'[x].for = natives'[p].for}
  BY <1>1
<1> QED BY <1>2, <1>3 DEF Lost

LEMMA ConstructStep ==
  ASSUME IInv, NEW h \in DOMAIN handles, Construct(h)
  PROVE  IInv'
<1> USE DEF IInv
<1>0. PICK p \in Nat : p = Len(natives) + 1
  BY Types
<1> DEFINE this == handles[h].this
           made == Constructed(this, p)
           r == [handles[h] EXCEPT !.this = made]
<1>1. /\ lang \in {"Python", "Ruby"} /\ handles[h].state = "held"
      /\ this = <<>> \/ "again" \in takes
      /\ Needed(h) => "drops" \in takes
      /\ Opened(handles[h].class, h) /\ handles' = [handles EXCEPT ![h].this = made]
      /\ UNCHANGED <<lang, takes, running, faults>>
  BY <1>0 DEF Construct, Held
<1>2. handles[h] \in HandleType /\ h \in Nat
  BY HandleTypes
<1>3. this \in Seq(Mem) /\ handles[h].class \in {"Model", "Tagger"} /\ Holds(h) /\ Proper(lang, this)
  BY <1>1, <1>2, Reached DEF HandleType, HeldOnce
<1>4. this # <<>> => /\ 1 \in DOMAIN this /\ this[1] \in Mem /\ this[1].ptr \in DOMAIN natives
                     /\ natives[this[1].ptr].for = h /\ this[1].ptr \in Nat
  BY <1>1, <1>3, FirstMem DEF Holds
<1>5. /\ IndexesOwned' /\ Grows
      /\ DOMAIN natives' = DOMAIN natives \cup {p} /\ p \notin DOMAIN natives
      /\ \A q \in DOMAIN natives : Alike(q)
      /\ natives'[p].for = h /\ natives'[p].class = handles[h].class /\ natives'[p].frees = 0
      /\ natives'[p].mode # "TEST_SHARED"
  BY <1>0, <1>1, <1>2, <1>3, OpenedKeeps
<1>6. \A q \in DOMAIN natives : q \in Nat /\ q < p
  BY <1>0, Types
<1>7. this = <<>> => made = <<[ptr |-> p, own |-> TRUE]>>
  BY <1>1, <1>3, ConstructedIs DEF TypeOK
<1>8. this # <<>> /\ lang = "Python" => made = <<this[1], [ptr |-> p, own |-> TRUE]>>
  BY <1>1, <1>3, ConstructedIs DEF TypeOK
<1>9. this # <<>> /\ lang = "Ruby" => made = <<[ptr |-> p, own |-> this[1].own]>>
  BY <1>1, <1>3, ConstructedIs DEF TypeOK
<1> HIDE DEF made
<1>10. this = <<>> => /\ made \in Seq(Mem) /\ Len(made) = 1 /\ DOMAIN made = {1} /\ made # <<>>
                      /\ made[1].ptr = p /\ made[1].own = TRUE
  <2> HAVE this = <<>>
  <2>1. made = <<[ptr |-> p, own |-> TRUE]>>
    BY <1>7
  <2> QED BY <2>1, One
<1>11. this # <<>> /\ lang = "Python" =>
         /\ made \in Seq(Mem) /\ Len(made) = 2 /\ DOMAIN made = {1, 2} /\ made # <<>>
         /\ made[1] = this[1] /\ made[2].ptr = p /\ made[2].own = TRUE
  <2> HAVE this # <<>> /\ lang = "Python"
  <2>1. made = <<this[1], [ptr |-> p, own |-> TRUE]>> /\ this[1] \in Mem
    BY <1>4, <1>8
  <2> QED BY <2>1, Two
<1>12. this # <<>> /\ lang = "Ruby" =>
         /\ made \in Seq(Mem) /\ Len(made) = 1 /\ DOMAIN made = {1} /\ made # <<>>
         /\ made[1].ptr = p /\ made[1].own = this[1].own
  <2> HAVE this # <<>> /\ lang = "Ruby"
  <2>1. made = <<[ptr |-> p, own |-> this[1].own]>> /\ this[1].own \in BOOLEAN
    BY <1>3, <1>9, FirstMem
  <2> QED BY <2>1, One
<1>13. /\ r \in HandleType /\ r.this = made /\ r.state = "held" /\ r.class = handles[h].class
       /\ r.deleted = handles[h].deleted
  BY <1>1, <1>2, <1>10, <1>11, <1>12 DEF HandleType
<1>14. handles' = [handles EXCEPT ![h] = r]
  BY <1>1
<1> HIDE DEF r
<1>15. Only(h) /\ handles'[h] = r
  BY <1>13, <1>14, Changed
<1>16. TypesNext
  BY <1>1, <1>5, <1>15, HandleTypes DEF TypesNext, TypeOK, Only
<1>17. Apart(h)
  BY <1>5, <1>15 DEF Apart, Alike, Only
<1>18. Holds(h)'
  <2>1. Len(made) \in 0 .. 2 /\ (Len(made) = 2 => lang = "Python" /\ made[1].ptr < made[2].ptr)
    BY <1>1, <1>4, <1>6, <1>10, <1>11, <1>12
  <2>2. natives'[p].for = h /\ natives'[p].class = r.class /\ p \in DOMAIN natives'
        /\ natives'[p].frees = 0
    BY <1>5, <1>13
  <2>3. ASSUME NEW i \in DOMAIN made
        PROVE  /\ made[i].ptr \in DOMAIN natives' /\ natives'[made[i].ptr].for = h
               /\ natives'[made[i].ptr].class = r.class
               /\ ~Raw => natives'[made[i].ptr].frees = 0 \/ (i = 1 /\ r.deleted /\ ~made[i].own)
    <3>1. CASE made[i].ptr = p
      BY <2>2, <3>1
    <3>2. CASE made[i].ptr # p
      <4>1. this # <<>> /\ lang = "Python" /\ i = 1 /\ made[i] = this[1]
        BY <1>1, <1>10, <1>11, <1>12, <3>2
      <4>2. /\ natives[this[1].ptr].class = handles[h].class
            /\ ~Raw => natives[this[1].ptr].frees = 0 \/ (handles[h].deleted /\ ~this[1].own)
        BY <1>3, <1>4, <4>1 DEF Holds
      <4>3. /\ this[1].ptr \in DOMAIN natives' /\ natives'[this[1].ptr].for = h
            /\ natives'[this[1].ptr].class = natives[this[1].ptr].class
            /\ natives'[this[1].ptr].frees = natives[this[1].ptr].frees
        BY <1>4, <1>5, <4>1 DEF Grows, Alike
      <4> QED BY <1>13, <4>1, <4>2, <4>3
    <3> QED BY <3>1, <3>2
  <2>4. r.deleted => lang # "Ruby" /\ (lang = "Python" => made # <<>>)
    BY <1>1, <1>3, <1>10, <1>11, <1>13 DEF Holds
  <2>5. lang = "Ruby" /\ made # <<>> =>
          made[1].own \/ \E q \in DOMAIN natives' : natives'[q].for = h /\ natives'[q].lent
    <3>1. CASE lang = "Ruby" /\ this # <<>> /\ ~this[1].own
      <4>1. PICK q \in DOMAIN natives : natives[q].for = h /\ natives[q].lent
        BY <1>3, <3>1 DEF Holds
      <4> QED BY <1>5, <4>1 DEF Grows
    <3> QED BY <1>10, <1>12, <3>1
  <2> QED BY <1>1, <1>13, <1>15, <2>1, <2>3, <2>4, <2>5 DEF Holds, Raw
<1>19. Accounts(h)
  <2> SUFFICES ASSUME NEW q \in DOMAIN natives', q \notin DOMAIN natives \/ q \in Owned(this)
               PROVE  Lost(q)' \/ q \in Owned(made)
    BY <1>13, <1>15, HandleTypes DEF Accounts, Only
  <2>1. CASE q = p
    <3>1. CASE lang = "Ruby" /\ this # <<>> /\ ~this[1].own
      <4>1. PICK s \in DOMAIN natives : natives[s].for = h /\ natives[s].lent
        BY <1>3, <3>1 DEF Holds
      <4>2. /\ s \in DOMAIN natives' /\ natives'[s].for = natives'[p].for /\ natives'[s].lent
            /\ s < p /\ "again" \in takes' /\ lang' = "Ruby"
        BY <1>1, <1>5, <1>6, <3>1, <4>1 DEF Grows
      <4> QED BY <1>5, <2>1, <4>2, LostNow
    <3>2. CASE ~(lang = "Ruby" /\ this # <<>> /\ ~this[1].own)
      BY <1>1, <1>10, <1>11, <1>12, <2>1, <3>2 DEF Owned
    <3> QED BY <3>1, <3>2
  <2>2. CASE q # p
    <3>1. q \in Owned(this) /\ q \in DOMAIN natives /\ q < p
      BY <1>5, <1>6, <2>2
    <3>2. PICK i \in DOMAIN this : this[i].own /\ q = this[i].ptr
      BY <3>1 DEF Owned
    <3>3. this # <<>> /\ "again" \in takes'
      BY <1>1, <3>2
    <3>4. natives'[q].for = h /\ natives'[p].for = h
      BY <1>3, <1>5, <3>2 DEF Holds, Grows
    <3>5. CASE lang = "Ruby"
      BY <1>1, <1>5, <3>1, <3>3, <3>4, <3>5, LostNow
    <3>6. CASE lang = "Python" /\ i = 1
      BY <1>11, <3>2, <3>3, <3>6 DEF Owned
    <3>7. CASE lang = "Python" /\ i # 1
      <4>1. Len(this) = 2 /\ i = 2
        BY <1>3, <3>2, <3>7 DEF Holds
      <4>2. this[1].ptr < q /\ this[1].ptr \in DOMAIN natives' /\ natives'[this[1].ptr].for = h
        BY <1>3, <1>4, <1>5, <3>2, <3>3, <4>1 DEF Holds, Grows
      <4> QED BY <1>1, <1>5, <3>1, <3>3, <3>4, <3>7, <4>2, LostNow
    <3> QED BY <1>1, <3>5, <3>6, <3>7
  <2> QED BY <1>5, <2>1, <2>2
<1>20. Calmer
  BY <1>1, StillRunning
<1>21. "drops" \notin takes => StaysKeeper(h)
  BY <1>1 DEF StaysKeeper
<1>22. ASSUME NEW g \in DOMAIN handles', Shares(g)' PROVE SharesAsBefore(g)
  <2>1. g \in DOMAIN handles
    BY <1>15 DEF Only
  <2>2. CASE g # h
    <3>1. handles'[g] = handles[g] /\ handles[g].this # <<>>
      BY <1>15, <1>22, <2>1, <2>2 DEF Only, Shares
    <3>2. Holds(g) /\ 1 \in DOMAIN handles[g].this
      BY <2>1, <3>1, HandleTypes DEF HeldOnce, HandleType
    <3>3. Alike(handles[g].this[1].ptr)
      BY <1>5, <3>2 DEF Holds
    <3> QED BY <1>20, <1>22, <2>1, <3>1, <3>3, SharesBack, CalmerIs DEF Alike
  <2>3. CASE g = h
    <3>1. made[1].ptr # p
      BY <1>5, <1>13, <1>15, <1>22, <2>3 DEF Shares
    <3>2. this # <<>> /\ made[1] = this[1]
      BY <1>1, <1>10, <1>11, <1>12, <3>1
    <3>3. Alike(this[1].ptr)
      BY <1>4, <1>5, <3>2
    <3>4. handles'[h].this[1].ptr = this[1].ptr
      BY <1>13, <1>15, <3>2
    <3>5. handles[h].class = "Tagger"
      BY <1>13, <1>15, <1>22, <2>3 DEF Shares
    <3> QED BY <1>1, <1>22, <2>3, <3>2, <3>3, <3>4, <3>5 DEF Shares, SharesAsBefore, Alike, Held
  <2> QED BY <2>2, <2>3
<1>23. TypeOK' /\ HeldOnce' /\ Accounted' /\ ModelsKept'
  BY <1>16, <1>17, <1>18, <1>19, <1>20, <1>21, <1>22, StepOn, TypesKept, CalmerIs
<1>24. Entered'
  BY <1>1, StillIdle
<1> QED BY <1>1, <1>5, <1>23, <1>24, FaultsSame

LEMMA DropStep ==
  ASSUME IInv, NEW h \in DOMAIN handles, Drop(h)
  PROVE  IInv'
<1> DEFINE r == [handles[h] EXCEPT !.state = "dropped"]
<1> USE DEF IInv
<1>1. /\ handles[h].state = "held"
      /\ Needed(h) => "drops" \in takes
      /\ handles' = [handles EXCEPT ![h].state = "dropped"]
      /\ UNCHANGED <<lang, takes, natives, indexes, running, faults>>
  BY DEF Drop, Held
<1>2. handles[h] \in HandleType /\ Holds(h)
  BY HandleTypes DEF HeldOnce
<1>3. /\ r \in HandleType /\ r.this = handles[h].this /\ r.state = "dropped"
      /\ r.class = handles[h].class /\ r.deleted = handles[h].deleted
  BY <1>2 DEF HandleType
<1>4. handles' = [handles EXCEPT ![h] = r]
  BY <1>1
<1> HIDE DEF r
<1>5. Only(h) /\ handles'[h] = r
  BY <1>3, <1>4, Changed
<1>6. IndexesOwned' /\ Grows /\ \A p \in DOMAIN natives : Alike(p)
  BY <1>1, Untouched
<1>7. TypesNext
  BY <1>1, <1>5, <1>6, HandleTypes DEF TypesNext, TypeOK, Only
<1>8. Apart(h)
  BY <1>1, <1>5 DEF Apart, Only
<1>9. Holds(h)'
  <2>1. \A p \in DOMAIN natives : natives'[p].frees = natives[p].frees
    BY <1>6 DEF Alike
  <2>2. handles'[h].state = "gone" <=> handles[h].state = "gone"
    BY <1>1, <1>3, <1>5
  <2> QED BY <1>1, <1>2, <1>3, <1>5, <1>6, <2>1, <2>2, HoldsOn
<1>10. Accounts(h)
  BY <1>1, <1>3, <1>5 DEF Accounts, Only
<1>11. Calmer
  BY <1>1, StillRunning
<1>12. "drops" \notin takes => StaysKeeper(h)
  <2>1. Needed(h) => "drops" \in takes
    BY <1>1
  <2> QED BY <2>1 DEF StaysKeeper
<1>13. ASSUME NEW g \in DOMAIN handles', Shares(g)' PROVE SharesAsBefore(g)
  <2>1. g \in DOMAIN handles /\ handles'[g].this = handles[g].this
        /\ handles'[g].class = handles[g].class /\ (Held(g)' => Held(g))
    BY <1>1, <1>3, <1>5 DEF Only, Held
  <2>2. InUse(g)' => InUse(g)
    BY <1>11, <2>1, CalmerIs
  <2> QED BY <1>1, <1>13, <2>1, <2>2 DEF Shares, SharesAsBefore
<1>14. TypeOK' /\ HeldOnce' /\ Accounted' /\ ModelsKept'
  BY <1>7, <1>8, <1>9, <1>10, <1>11, <1>12, <1>13, StepOn, TypesKept, CalmerIs
<1>15. Entered'
  <2>1. \A t \in Threads : Inside(t)
    BY DEF Entered
  <2>2. ASSUME NEW t \in Threads, NEW g \in DOMAIN handles, running[t].op # "idle",
               g \in {running[t].on, running[t].with}
        PROVE  Steady(g) /\ handles'[g].this = handles[g].this
    <3>1. handles[g].state # "gone"
      BY <2>1, <2>2, HandleTypes DEF Inside
    <3> QED BY <1>3, <1>5, <3>1 DEF Only, Steady
  <2>3. ASSUME NEW t \in Threads, NEW g \in DOMAIN handles, ~Races, "drops" \notin takes, Attaching(t, g)
        PROVE  Held(g)'
    <3>1. Held(g) /\ handles[g].class = "Model"
      BY <2>1, <2>3 DEF Inside, Attaching
    <3>2. Needed(g)
      BY <2>3, <3>1 DEF Needed, Attaching
    <3> QED BY <1>1, <1>5, <2>3, <3>1, <3>2 DEF Only, Held
  <2>4. DOMAIN handles' = DOMAIN handles
    BY <1>5 DEF Only
  <2> QED BY <1>1, <1>6, <1>11, <2>2, <2>3, <2>4, InsideOn
<1> QED BY <1>1, <1>6, <1>14, <1>15, FaultsSame

(* What Python and Perl make of a handle whose ownership changes.          *)
Reowned(this, that, own) ==
  /\ that \in Seq(Mem) /\ Len(that) = Len(this) /\ DOMAIN that = DOMAIN this /\ that # <<>>
  /\ that[1].ptr = this[1].ptr /\ that[1].own = own
  /\ \A i \in DOMAIN this : i # 1 => that[i] = this[i]

LEMMA OwningIs ==
  ASSUME NEW this, Proper("Python", this), this # <<>>, NEW own \in BOOLEAN
  PROVE  Reowned(this, Python!Owning(this, own), own)
<1> DEFINE m == [ptr |-> this[1].ptr, own |-> own]
<1>1. this \in Seq(Mem) /\ this[1].ptr \in Nat /\ Len(this) \in 1 .. 2 /\ DOMAIN this = 1 .. Len(this)
  BY FirstMem DEF Proper
<1>2. m \in Mem /\ m.ptr = this[1].ptr /\ m.own = own
  BY <1>1 DEF Mem
<1>3. Python!Owning(this, own) = <<m>> \o Tail(this)
  BY DEF Python!Owning, Python!Held
<1> HIDE DEF m
<1>4. LET that == <<m>> \o Tail(this) IN
      /\ that \in Seq(Mem) /\ Len(that) = Len(this) /\ DOMAIN that = DOMAIN this /\ that # <<>>
      /\ that[1] = m /\ \A i \in DOMAIN this : i # 1 => that[i] = this[i]
  BY <1>1, <1>2
<1> QED BY <1>2, <1>3, <1>4 DEF Reowned

LEMMA PerlOwningIs ==
  ASSUME NEW this, Proper("Perl", this)
  PROVE  Reowned(this, Perl!Disowned(this), FALSE) /\ Reowned(this, Perl!Acquired(this), TRUE)
<1>1. this \in Seq(Mem) /\ Len(this) = 1 /\ DOMAIN this = {1} /\ this[1].ptr \in Nat
  BY FirstMem DEF Proper
<1>2. ASSUME NEW own \in BOOLEAN
      PROVE  Reowned(this, <<[ptr |-> this[1].ptr, own |-> own]>>, own)
  <2> DEFINE that == <<[ptr |-> this[1].ptr, own |-> own]>>
  <2>1. /\ that \in Seq(Mem) /\ Len(that) = 1 /\ DOMAIN that = {1} /\ that # <<>>
        /\ that[1].ptr = this[1].ptr /\ that[1].own = own
    BY <1>1, One
  <2> HIDE DEF that
  <2>2. Reowned(this, that, own)
    BY <1>1, <2>1 DEF Reowned
  <2> QED BY <2>2 DEF that
<1> QED
  BY <1>2 DEF Perl!Disowned, Perl!Acquired, Perl!Held

(* What a script may use: an object of its own that lives, unless it goes  *)
(* on with one it deleted.                                                 *)
LEMMA Usable ==
  ASSUME TypeOK, HeldOnce, NEW h \in DOMAIN handles, MayUse(h)
  PROVE  /\ handles[h].state = "held" /\ TargetOf(h) = First(h)
         /\ First(h) = 0 => lang = "Java" /\ "reuses" \in takes
         /\ First(h) # 0 =>
              /\ handles[h].this # <<>> /\ First(h) = handles[h].this[1].ptr
              /\ First(h) \in DOMAIN natives /\ natives[First(h)].for = h
              /\ natives[First(h)].class = handles[h].class
              /\ ~Raw => natives[First(h)].frees = 0
<1>1. handles[h].state = "held"
  BY DEF MayUse, Held
<1>2. Holds(h) /\ handles[h].deleted \in BOOLEAN
  BY HandleTypes DEF HeldOnce, HandleType
<1>3. TargetOf(h) = First(h) /\ (handles[h].this = <<>> => First(h) = 0)
  BY <1>1, Reached DEF First
<1>4. handles[h].this # <<>> =>
        /\ 1 \in DOMAIN handles[h].this /\ First(h) = handles[h].this[1].ptr
        /\ First(h) \in DOMAIN natives /\ First(h) # 0
        /\ natives[First(h)].for = h /\ natives[First(h)].class = handles[h].class
  BY <1>1, Reached
<1>5. handles[h].deleted => "reuses" \in takes
  BY DEF MayUse
<1>6. ~handles[h].deleted => First(h) # 0
  BY <1>3 DEF MayUse
<1>7. lang \in {"Python", "Perl", "Ruby", "Java"}
  BY Kinds DEF TypeOK
<1>8. First(h) = 0 => lang = "Java" /\ "reuses" \in takes
  BY <1>1, <1>2, <1>4, <1>5, <1>6, <1>7 DEF Holds
<1>9. ASSUME First(h) # 0, ~Raw PROVE natives[First(h)].frees = 0
  <2>1. handles[h].this # <<>>
    BY <1>3, <1>9
  <2>2. ~handles[h].deleted
    BY <1>2, <1>5, <1>7, <1>9, <2>1 DEF Holds, Raw
  <2> QED BY <1>2, <1>4, <1>9, <2>1, <2>2 DEF Holds
<1> QED BY <1>1, <1>3, <1>4, <1>8, <1>9

LEMMA FreeFaults ==
  ASSUME FaultsEarned, TypeOK, UNCHANGED <<lang, takes>>, NEW ptrs, Free(ptrs),
         ~Raw => faults' = faults
  PROVE  FaultsEarned' /\ faults' \subseteq {"null", "dead", "orphan"}
<1>1. faults' = faults \/ faults' = {"dead"}
  BY DEF Free
<1>2. CASE faults' = faults
  BY <1>2 DEF FaultsEarned, TypeOK
<1>3. CASE faults' = {"dead"} /\ Raw
  BY <1>3 DEF FaultsEarned, Raw
<1> QED BY <1>1, <1>2, <1>3

(* Of the other handles nothing changes that a tagger in use depends on.   *)
LEMMA OthersShare ==
  ASSUME TypeOK, HeldOnce, Calmer, NEW h, Apart(h),
         \A p \in DOMAIN natives : natives'[p].mode = natives[p].mode
                                   /\ natives'[p].index = natives[p].index,
         NEW g \in DOMAIN handles, g # h, Shares(g)'
  PROVE  SharesAsBefore(g)
<1>1. handles'[g] = handles[g] /\ handles[g].this # <<>>
  BY DEF Apart, Shares
<1>2. Holds(g) /\ 1 \in DOMAIN handles[g].this
  BY <1>1, HandleTypes DEF HeldOnce, HandleType
<1>3. handles[g].this[1].ptr \in DOMAIN natives
  BY <1>2 DEF Holds
<1>4. InUse(g)' => InUse(g)
  BY CalmerIs
<1> QED BY <1>1, <1>3, <1>4, SharesBack DEF Apart

LEMMA DeleteStep ==
  ASSUME IInv, NEW h \in DOMAIN handles, Delete(h)
  PROVE  IInv'
<1> DEFINE this == handles[h].this
           that == IF lang = "Python" THEN Python!Deleted(this) ELSE Perl!Deleted(this)
           p == First(h)
           r == [handles[h] EXCEPT !.this = that, !.deleted = TRUE]
<1> USE DEF IInv
<1>1. /\ lang \in {"Python", "Perl"} /\ MayUse(h)
      /\ Needed(h) => "drops" \in takes
      /\ Free({TargetOf(h)})
      /\ handles' = [handles EXCEPT ![h].this = that, ![h].deleted = TRUE]
      /\ UNCHANGED <<lang, takes, running>>
  BY DEF Delete
<1>2. /\ handles[h].state = "held" /\ TargetOf(h) = p
      /\ this # <<>> /\ p = this[1].ptr /\ p \in DOMAIN natives /\ natives[p].for = h
      /\ ~Raw => natives[p].frees = 0
  BY <1>1, Usable
<1>3. Proper(lang, this) /\ Holds(h) /\ handles[h] \in HandleType
  BY <1>2, Reached, HandleTypes DEF HeldOnce
<1>4. Reowned(this, that, FALSE)
  BY <1>1, <1>2, <1>3, OwningIs, PerlOwningIs DEF Python!Deleted, Perl!Deleted
<1> HIDE DEF that
<1>5. /\ IndexesOwned' /\ Grows /\ DOMAIN natives' = DOMAIN natives
      /\ \A q \in DOMAIN natives \ {p} : Alike(q)
      /\ natives'[p].frees > 0
      /\ \A q \in DOMAIN natives : natives'[q].mode = natives[q].mode
                                   /\ natives'[q].index = natives[q].index
      /\ ~Raw => faults' = faults
  <2>1. {p} \in SUBSET DOMAIN natives /\ Free({p})
    BY <1>1, <1>2
  <2>2. ~Raw => \A q \in {p} : Living(q)
    BY <1>2, Types DEF Living
  <2> QED BY <1>1, <2>1, <2>2, FreeKeeps
<1>6. /\ r \in HandleType /\ r.this = that /\ r.state = "held" /\ r.class = handles[h].class
      /\ r.deleted = TRUE
  BY <1>2, <1>3, <1>4 DEF HandleType, Reowned
<1>7. handles' = [handles EXCEPT ![h] = r]
  BY <1>1
<1> HIDE DEF r
<1>8. Only(h) /\ handles'[h] = r
  BY <1>6, <1>7, Changed
<1>9. TypesNext /\ FaultsEarned'
  BY <1>1, <1>5, <1>8, HandleTypes, FreeFaults DEF TypesNext, TypeOK, Only
<1>10. Apart(h)
  <2>1. natives'[p].frees # 0
    BY <1>5
  <2> QED BY <1>2, <1>5, <1>8, <2>1 DEF Apart, Alike, Only
<1>11. Holds(h)'
  <2>1. ASSUME NEW i \in DOMAIN that
        PROVE  /\ that[i].ptr \in DOMAIN natives' /\ natives'[that[i].ptr].for = h
               /\ natives'[that[i].ptr].class = r.class
               /\ ~Raw => natives'[that[i].ptr].frees = 0 \/ (i = 1 /\ ~that[i].own)
    <3>1. i \in DOMAIN this /\ that[i].ptr = this[i].ptr /\ (i = 1 => that[i].own = FALSE)
          /\ this[i].ptr \in DOMAIN natives
      BY <1>3, <1>4, <2>1 DEF Reowned, Holds
    <3>2. i # 1 => Alike(this[i].ptr) /\ (~Raw => natives[this[i].ptr].frees = 0)
      <4> HAVE i # 1
      <4>1. this[1].ptr < this[2].ptr /\ i = 2
        BY <1>3, <3>1 DEF Holds, Proper
      <4>2. this[i].ptr # p
        BY <1>2, <1>3, <3>1, <4>1, Types DEF Holds
      <4> QED BY <1>3, <1>5, <3>1, <4>2 DEF Holds
    <3> QED BY <1>3, <1>5, <1>6, <3>1, <3>2 DEF Holds, Grows, Alike
  <2>2. Len(that) \in 0 .. 2 /\ (Len(that) = 2 => lang = "Python" /\ that[1].ptr < that[2].ptr)
    BY <1>3, <1>4 DEF Reowned, Holds, Proper
  <2> QED BY <1>1, <1>4, <1>6, <1>8, <2>1, <2>2 DEF Holds, Raw, Reowned
<1>12. Accounts(h)
  <2> SUFFICES ASSUME NEW q \in Owned(this), natives'[q].frees = 0 PROVE q \in Owned(that)
    BY <1>5, <1>6, <1>8 DEF Accounts, Only
  <2>1. PICK i \in DOMAIN this : this[i].own /\ q = this[i].ptr
    BY DEF Owned
  <2>2. i # 1
    BY <1>2, <1>5, <2>1
  <2> QED BY <1>4, <2>1, <2>2 DEF Owned, Reowned
<1>13. Calmer
  BY <1>1, StillRunning
<1>14. "drops" \notin takes => StaysKeeper(h)
  <2>1. Needed(h) => "drops" \in takes
    BY <1>1
  <2> QED BY <2>1 DEF StaysKeeper
<1>15. ASSUME NEW g \in DOMAIN handles', Shares(g)' PROVE SharesAsBefore(g)
  <2>1. g \in DOMAIN handles /\ g # h
    BY <1>2, <1>4, <1>5, <1>6, <1>8, <1>15 DEF Only, Shares, Reowned
  <2> QED BY <1>5, <1>10, <1>13, <1>15, <2>1, OthersShare
<1>16. TypeOK' /\ HeldOnce' /\ Accounted' /\ ModelsKept'
  BY <1>9, <1>10, <1>11, <1>12, <1>13, <1>14, <1>15, StepOn, TypesKept, CalmerIs
<1>17. Entered'
  BY <1>1, StillIdle
<1> QED BY <1>5, <1>9, <1>16, <1>17

LEMMA OwnStep ==
  ASSUME IInv, NEW h \in DOMAIN handles, NEW own \in BOOLEAN, Own(h, own)
  PROVE  IInv'
<1> DEFINE this == handles[h].this
           that == CASE lang = "Python" -> Python!Owning(this, own)
                     [] lang = "Perl" /\ own -> Perl!Acquired(this)
                     [] lang = "Perl" /\ ~own -> Perl!Disowned(this)
           p == First(h)
           r == [handles[h] EXCEPT !.this = that]
<1> USE DEF IInv
<1>1. /\ lang \in {"Python", "Perl"} /\ MayUse(h) /\ "owns" \in takes
      /\ handles' = [handles EXCEPT ![h].this = that]
      /\ UNCHANGED <<lang, takes, natives, indexes, running, faults>>
  BY DEF Own
<1>2. /\ handles[h].state = "held"
      /\ this # <<>> /\ p = this[1].ptr /\ p \in DOMAIN natives
      /\ ~Raw => natives[p].frees = 0
  BY <1>1, Usable
<1>3. Proper(lang, this) /\ Holds(h) /\ handles[h] \in HandleType
  BY <1>2, Reached, HandleTypes DEF HeldOnce
<1>4. Reowned(this, that, own)
  BY <1>1, <1>2, <1>3, OwningIs, PerlOwningIs
<1> HIDE DEF that
<1>5. IndexesOwned' /\ Grows /\ \A q \in DOMAIN natives : Alike(q)
  BY <1>1, Untouched
<1>6. /\ r \in HandleType /\ r.this = that /\ r.state = "held" /\ r.class = handles[h].class
      /\ r.deleted = handles[h].deleted
  BY <1>2, <1>3, <1>4 DEF HandleType, Reowned
<1>7. handles' = [handles EXCEPT ![h] = r]
  BY <1>1
<1> HIDE DEF r
<1>8. Only(h) /\ handles'[h] = r
  BY <1>6, <1>7, Changed
<1>9. TypesNext
  BY <1>1, <1>5, <1>8, HandleTypes DEF TypesNext, TypeOK, Only
<1>10. Apart(h)
  BY <1>1, <1>8 DEF Apart, Only
<1>11. Holds(h)'
  <2>1. ASSUME NEW i \in DOMAIN that
        PROVE  /\ that[i].ptr \in DOMAIN natives /\ natives[that[i].ptr].for = h
               /\ natives[that[i].ptr].class = r.class
               /\ ~Raw => natives[that[i].ptr].frees = 0
    <3>1. i \in DOMAIN this /\ that[i].ptr = this[i].ptr
      BY <1>4, <2>1 DEF Reowned
    <3> QED BY <1>2, <1>3, <1>6, <3>1 DEF Holds
  <2>2. Len(that) \in 0 .. 2 /\ (Len(that) = 2 => lang = "Python" /\ that[1].ptr < that[2].ptr)
    BY <1>3, <1>4 DEF Reowned, Holds, Proper
  <2> QED BY <1>1, <1>4, <1>6, <1>8, <2>1, <2>2 DEF Holds, Raw, Reowned
<1>12. Accounts(h)
  BY <1>1 DEF Accounts
<1>13. Calmer
  BY <1>1, StillRunning
<1>14. StaysKeeper(h)
  <2>1. that # <<>> /\ that[1].ptr = this[1].ptr
    BY <1>4 DEF Reowned
  <2>2. ~Busy("delete", h)'
    BY <1>1, <1>13, NoThreads, CalmerIs
  <2> QED BY <1>1, <1>2, <1>6, <1>8, <2>1, <2>2 DEF StaysKeeper, Held
<1>15. ASSUME NEW g \in DOMAIN handles', Shares(g)' PROVE SharesAsBefore(g)
  <2>1. g \in DOMAIN handles
    BY <1>8 DEF Only
  <2>2. CASE g # h
    BY <1>1, <1>10, <1>13, <1>15, <2>1, <2>2, OthersShare
  <2>3. CASE g = h
    <3>1. that[1].ptr = this[1].ptr
      BY <1>4 DEF Reowned
    <3> QED BY <1>1, <1>2, <1>6, <1>8, <1>15, <2>3, <3>1 DEF Shares, SharesAsBefore, Held
  <2> QED BY <2>2, <2>3
<1>16. TypeOK' /\ HeldOnce' /\ Accounted' /\ ModelsKept'
  BY <1>9, <1>10, <1>11, <1>12, <1>13, <1>14, <1>15, StepOn, TypesKept, CalmerIs
<1>17. Entered'
  BY <1>1, StillIdle
<1> QED BY <1>1, <1>5, <1>16, <1>17, FaultsSame

(* A handle that gives up what it holds, when all it owns is freed.        *)
LEMMA EmptiedHandle ==
  ASSUME IInv, NEW h \in DOMAIN handles, handles[h].state # "gone",
         NEW r \in HandleType, r.class = handles[h].class, r.this = <<>>,
         handles' = [handles EXCEPT ![h] = r],
         lang = "Java" \/ r.state = "gone", r.deleted => lang # "Ruby",
         Free(Owned(handles[h].this)), UNCHANGED <<lang, takes>>, Calmer,
         ~Held(h) \/ Busy("delete", h)
  PROVE  /\ TypeOK' /\ IndexesOwned' /\ HeldOnce' /\ Accounted' /\ ModelsKept' /\ FaultsEarned'
         /\ Grows /\ Only(h) /\ handles'[h] = r
<1> DEFINE ptrs == Owned(handles[h].this)
<1> USE DEF IInv
<1>1. /\ ptrs \in SUBSET DOMAIN natives /\ \A p \in ptrs : natives[p].for = h
      /\ ~Raw => \A p \in ptrs : Living(p)
  <2>1. \A p \in ptrs : /\ p \in DOMAIN natives /\ natives[p].for = h
                        /\ ~Raw => natives[p].frees = 0
    BY Reached
  <2>2. \A p \in DOMAIN natives : p # 0
    BY Types
  <2> QED BY <2>1, <2>2 DEF Living
<1>2. /\ IndexesOwned' /\ Grows /\ DOMAIN natives' = DOMAIN natives
      /\ \A p \in DOMAIN natives \ ptrs : Alike(p)
      /\ \A p \in ptrs : natives'[p].frees > 0
      /\ \A p \in DOMAIN natives : natives'[p].mode = natives[p].mode
                                   /\ natives'[p].index = natives[p].index
      /\ ~Raw => faults' = faults
  BY <1>1, FreeKeeps
<1>3. Only(h) /\ handles'[h] = r
  BY Changed
<1>4. TypesNext /\ FaultsEarned'
  BY <1>2, <1>3, FreeFaults DEF TypesNext, Only, Calmer
<1> HIDE DEF ptrs
<1>5. \A p \in ptrs : natives'[p].frees # 0
  BY <1>2
<1>6. Apart(h)
  BY <1>1, <1>2, <1>3, <1>5 DEF Apart, Alike, Only
<1>7. Holds(h)'
  <2>1. lang = "Java" \/ handles'[h].state = "gone"
    BY <1>3
  <2>2. handles'[h].this = <<>> /\ Len(<<>>) = 0 /\ DOMAIN <<>> = {}
    BY <1>3
  <2>3. handles'[h].deleted => lang # "Ruby"
    BY <1>3
  <2> QED BY <2>1, <2>2, <2>3 DEF Holds
<1>8. Accounts(h)
  BY <1>2, <1>5 DEF Accounts, ptrs
<1>9. StaysKeeper(h)
  BY DEF StaysKeeper
<1>10. ASSUME NEW g \in DOMAIN handles', Shares(g)' PROVE SharesAsBefore(g)
  <2>1. g \in DOMAIN handles /\ g # h
    BY <1>3, <1>10 DEF Only, Shares
  <2> QED BY <1>2, <1>6, <1>10, <2>1, OthersShare
<1>11. TypeOK' /\ HeldOnce' /\ Accounted' /\ ModelsKept'
  BY <1>4, <1>6, <1>7, <1>8, <1>9, <1>10, StepOn, TypesKept, CalmerIs
<1> QED BY <1>2, <1>3, <1>4, <1>11

LEMMA CollectStep ==
  ASSUME IInv, NEW h \in DOMAIN handles, Collect(h)
  PROVE  IInv'
<1> DEFINE r == [handles[h] EXCEPT !.this = <<>>, !.state = "gone"]
<1> USE DEF IInv
<1>1. /\ handles[h].state = "dropped" /\ ~InUse(h)
      /\ Free(Destroyed(handles[h].this))
      /\ handles' = [handles EXCEPT ![h].this = <<>>, ![h].state = "gone"]
      /\ UNCHANGED <<lang, takes, running>>
  BY DEF Collect, Unreachable
<1>2. Free(Owned(handles[h].this))
  BY <1>1, Reached
<1>3. handles[h] \in HandleType /\ Holds(h)
  BY HandleTypes DEF HeldOnce
<1>4. /\ r \in HandleType /\ r.this = <<>> /\ r.state = "gone" /\ r.class = handles[h].class
      /\ r.deleted = handles[h].deleted
  <2>1. <<>> \in Seq(Mem)
    OBVIOUS
  <2> QED BY <1>3, <2>1 DEF HandleType
<1>5. handles' = [handles EXCEPT ![h] = r]
  BY <1>1
<1> HIDE DEF r
<1>6. Calmer /\ ~Held(h) /\ (r.deleted => lang # "Ruby")
  BY <1>1, <1>3, <1>4, StillRunning DEF Held, Holds
<1>7. /\ TypeOK' /\ IndexesOwned' /\ HeldOnce' /\ Accounted' /\ ModelsKept' /\ FaultsEarned'
      /\ Grows /\ Only(h) /\ handles'[h] = r
  BY <1>1, <1>2, <1>4, <1>5, <1>6, EmptiedHandle
<1>8. Entered'
  <2>1. \A t \in Threads : Inside(t)
    BY DEF Entered
  <2>2. ASSUME NEW t \in Threads, NEW g \in DOMAIN handles, running[t].op # "idle",
               g \in {running[t].on, running[t].with}
        PROVE  Steady(g) /\ handles'[g].this = handles[g].this
    <3>1. handles[g].state # "gone" /\ g # h
      BY <1>1, <2>1, <2>2, HandleTypes DEF Inside, InUse
    <3> QED BY <1>7, <3>1 DEF Only, Steady
  <2>3. ASSUME NEW t \in Threads, NEW g \in DOMAIN handles, ~Races, "drops" \notin takes, Attaching(t, g)
        PROVE  Held(g)'
    <3>1. Held(g) /\ g # h
      BY <1>1, <2>1, <2>3 DEF Inside, Attaching, InUse
    <3> QED BY <1>7, <3>1 DEF Only, Held
  <2>4. DOMAIN handles' = DOMAIN handles
    BY <1>7 DEF Only
  <2> QED BY <1>1, <1>6, <1>7, <2>2, <2>3, <2>4, InsideOn
<1> QED BY <1>7, <1>8

LEMMA DeleteLeaveStep ==
  ASSUME IInv, NEW t \in Threads, DeleteLeave(t)
  PROVE  IInv'
<1> DEFINE h == running[t].on
           r == [handles[h] EXCEPT !.this = <<>>, !.deleted = TRUE]
<1> USE DEF IInv
<1>1. /\ running[t].op = "delete" /\ Free({running[t].ptr} \ {0})
      /\ handles' = [handles EXCEPT ![h].this = Java!Deleted(@), ![h].deleted = TRUE]
      /\ running' = [running EXCEPT ![t] = Idle] /\ UNCHANGED <<lang, takes>>
  BY DEF DeleteLeave
<1>2. /\ lang = "Java" /\ h \in DOMAIN handles /\ handles[h].state # "gone"
      /\ running[t].ptr = IF Owned(handles[h].this) = {} THEN 0 ELSE First(h)
      /\ \A u \in Threads : running[u].op = "delete" /\ running[u].on = h => u = t
  BY <1>1 DEF Entered, Inside
<1>3. handles[h] \in HandleType /\ Holds(h)
  BY <1>2, HandleTypes DEF HeldOnce
<1>4. {running[t].ptr} \ {0} = Owned(handles[h].this)
  <2>1. Owned(handles[h].this) = {} \/ (Owned(handles[h].this) = {First(h)} /\ First(h) # 0)
    <3>1. handles[h].this = <<>> \/ DOMAIN handles[h].this = {1}
      BY <1>2, <1>3 DEF Holds, HandleType
    <3>2. handles[h].this # <<>> => First(h) = handles[h].this[1].ptr /\ First(h) # 0
      BY <1>2, Reached
    <3> QED BY <3>1, <3>2 DEF Owned
  <2> QED BY <1>2, <2>1
<1>5. /\ r \in HandleType /\ r.this = <<>> /\ r.state = handles[h].state
      /\ r.class = handles[h].class /\ r.deleted = TRUE
  <2>1. <<>> \in Seq(Mem)
    OBVIOUS
  <2> QED BY <1>3, <2>1 DEF HandleType
<1>6. handles' = [handles EXCEPT ![h] = r]
  BY <1>1 DEF Java!Deleted
<1> HIDE DEF r
<1>7. Calmer /\ Busy("delete", h)
  <2>1. Idle \in RunType
    BY DEF Idle, RunType
  <2> QED BY <1>1, <2>1, HandleTypes DEF Calmer, Busy
<1>8. /\ TypeOK' /\ IndexesOwned' /\ HeldOnce' /\ Accounted' /\ ModelsKept' /\ FaultsEarned'
      /\ Grows /\ Only(h) /\ handles'[h] = r
  BY <1>1, <1>2, <1>4, <1>5, <1>6, <1>7, EmptiedHandle
<1>9. Entered'
  <2>1. \A u \in Threads : Inside(u)
    BY DEF Entered
  <2>2. \A g \in DOMAIN handles : handles'[g].state = handles[g].state
    BY <1>5, <1>8 DEF Only
  <2>3. ASSUME NEW u \in Threads, NEW g \in DOMAIN handles, running[u].op # "idle",
               g \in {running[u].on, running[u].with}
        PROVE  Steady(g)
    <3>1. handles[g].state # "gone"
      BY <2>1, <2>3, HandleTypes DEF Inside
    <3> QED BY <1>5, <1>8, <2>2, <3>1 DEF Only, Steady
  <2>4. ASSUME NEW u \in Threads, NEW g \in DOMAIN handles, running'[u] = running[u],
               running[u].op # "idle", g \in {running[u].on, running[u].with}
        PROVE  handles'[g].this = handles[g].this \/ (Races /\ running[u].op \in Ops)
    <3>1. CASE g # h
      BY <1>8, <3>1 DEF Only
    <3>2. CASE g = h
      <4>1. u # t
        BY <1>1, <2>4, HandleTypes DEF Idle
      <4>2. running[u].op \in Ops
        <5>1. running[u].op = "delete" => running[u].on = h
          BY <2>1, <2>4, <3>2, HandleTypes DEF Inside
        <5> QED BY <1>2, <2>4, <4>1, <5>1, HandleTypes DEF RunType
      <4>3. Races
        BY <1>7, <2>1, <2>4, <3>2, <4>2 DEF Inside
      <4> QED BY <4>2, <4>3
    <3> QED BY <3>1, <3>2
  <2>5. ASSUME NEW u \in Threads, NEW g \in DOMAIN handles, ~Races, "drops" \notin takes, Attaching(u, g)
        PROVE  Held(g)'
    BY <2>1, <2>2, <2>5 DEF Inside, Held
  <2>6. DOMAIN handles' = DOMAIN handles
    BY <1>8 DEF Only
  <2> QED BY <1>1, <1>7, <1>8, <2>3, <2>4, <2>5, <2>6, InsideOn
<1> QED BY <1>8, <1>9

(* A method of Java enters with what its handles hold now.                 *)
LEMMA EnterStep ==
  ASSUME IInv, NEW t \in Threads, NEW h \in DOMAIN handles, NEW op \in Ops,
         NEW g \in 0 .. Len(handles), Enter(t, op, h, g)
  PROVE  IInv'
<1> DEFINE n == [op |-> op, on |-> h, with |-> g, ptr |-> TargetOf(h),
                 arg |-> IF g = 0 THEN 0 ELSE TargetOf(g)]
<1> USE DEF IInv
<1>1. /\ lang = "Java" /\ running[t] = Idle /\ MayCall(op, h, g)
      /\ Busy("delete", h) => "races" \in takes
      /\ g # 0 /\ Busy("delete", g) => "races" \in takes
      /\ running' = [running EXCEPT ![t] = n]
      /\ UNCHANGED <<lang, takes, natives, indexes, handles, faults>>
  BY DEF Enter
<1>2. /\ MayUse(h) /\ h # 0
      /\ g = 0 <=> op # "set_model"
      /\ op = "createTagger" => handles[h].class = "Model"
      /\ g # 0 => /\ g \in DOMAIN handles /\ MayUse(g) /\ TargetOf(g) # 0
                  /\ handles[h].class = "Tagger" /\ handles[g].class = "Model"
  <2>1. MayUse(h) /\ h # 0 /\ (g # 0 => g \in DOMAIN handles)
    BY <1>1, HandleTypes DEF MayCall
  <2>2. op = "read" \/ op = "createTagger" \/ op = "set_model"
    BY DEF Ops
  <2>3. op = "read" => g = 0
    BY <1>1 DEF MayCall
  <2>4. op = "createTagger" => g = 0 /\ handles[h].class = "Model"
    BY <1>1 DEF MayCall
  <2>5. op = "set_model" => /\ g # 0 /\ MayUse(g) /\ TargetOf(g) # 0
                            /\ handles[h].class = "Tagger" /\ handles[g].class = "Model"
    BY <1>1 DEF MayCall
  <2> QED BY <2>1, <2>2, <2>3, <2>4, <2>5
<1>3. /\ Held(h) /\ handles[h].state # "gone" /\ TargetOf(h) = First(h) /\ First(h) \in Nat
      /\ IF First(h) = 0 THEN "reuses" \in takes
         ELSE First(h) \in DOMAIN natives /\ natives[First(h)].class = handles[h].class
  BY <1>2, Usable, Types DEF Held
<1>4. g # 0 => /\ Held(g) /\ handles[g].state # "gone" /\ TargetOf(g) = First(g)
               /\ First(g) \in DOMAIN natives /\ natives[First(g)].class = "Model"
               /\ First(g) \in Nat
  BY <1>2, Usable, Types DEF Held
<1>5. /\ n \in RunType /\ n.op = op /\ n.on = h /\ n.with = g /\ n.ptr = First(h)
      /\ n.arg = IF g = 0 THEN 0 ELSE First(g)
  BY <1>2, <1>3, <1>4, HandleTypes DEF RunType
<1> HIDE DEF n
<1>6. /\ running' \in [Threads -> RunType] /\ running'[t] = n
      /\ \A u \in Threads \ {t} : running'[u] = running[u]
  BY <1>1, <1>5, HandleTypes
<1>7. \A u : Busy("delete", u)' <=> Busy("delete", u)
  BY <1>1, <1>5, <1>6 DEF Busy, Idle, Ops
<1>8. IndexesOwned' /\ Grows
  BY <1>1, Untouched
<1>9. TypesNext
  BY <1>1, <1>6, <1>8, HandleTypes DEF TypesNext, TypeOK
<1>10. 0 \notin DOMAIN handles
  BY HandleTypes
<1>11. Apart(0) /\ Accounts(0) /\ StaysKeeper(0) /\ 0 \notin DOMAIN handles'
  BY <1>1, <1>10 DEF Apart, Accounts, StaysKeeper
<1>12. ASSUME NEW k \in DOMAIN handles', Shares(k)' PROVE SharesAsBefore(k)
  <2>1. k \in DOMAIN handles /\ k # 0
    BY <1>1, <1>10
  <2>2. InUse(k)' => Held(k) \/ InUse(k)
    BY <1>3, <1>4, <1>5, <1>6, <2>1 DEF InUse
  <2> QED BY <1>1, <1>12, <2>1, <2>2, SharesBack
<1>13. TypeOK' /\ HeldOnce' /\ Accounted' /\ ModelsKept'
  BY <1>7, <1>9, <1>11, <1>12, StepOn, TypesKept
<1>14. Entered'
  <2>1. ASSUME NEW u \in Threads, u # t PROVE Inside(u)'
    <3>1. Inside(u) /\ running'[u] = running[u]
      BY <1>6, <2>1 DEF Entered
    <3>2. running[u].op = "delete" =>
            \A v \in Threads : running'[v].op = "delete" /\ running'[v].on = running[u].on => v = u
      BY <1>5, <1>6, <3>1 DEF Inside, Ops
    <3>3. /\ Races' = Races /\ (\A k : Held(k)' = Held(k)) /\ (\A k : Attaching(u, k)' = Attaching(u, k))
          /\ (\A k : First(k)' = First(k))
      BY <1>1, <3>1 DEF Races, Held, Attaching, First
    <3> QED BY <1>1, <1>7, <3>1, <3>2, <3>3 DEF Inside
  <2>2. Inside(t)'
    <3>1. ~Races' => ~Busy("delete", h)' /\ ~Busy("delete", g)'
      <4>1. ~Busy("delete", 0)
        BY <1>10 DEF Busy, Entered, Inside
      <4> QED BY <1>1, <1>7, <4>1 DEF Races
    <3>2. \A k \in DOMAIN handles' : Attaching(t, k)' => Held(k)'
      BY <1>1, <1>3, <1>4, <1>5, <1>6, <1>10 DEF Attaching, Held
    <3>3. First(h)' = First(h) /\ First(g)' = First(g)
      BY <1>1 DEF First
    <3>4. op # "idle" /\ op # "delete"
      BY DEF Ops
    <3> QED BY <1>1, <1>2, <1>3, <1>4, <1>5, <1>6, <3>1, <3>2, <3>3, <3>4 DEF Inside
  <2> QED BY <2>1, <2>2 DEF Entered
<1> QED BY <1>1, <1>8, <1>13, <1>14, FaultsSame

(* delete() of Java gets the lock of its object.                           *)
LEMMA DeleteEnterStep ==
  ASSUME IInv, NEW t \in Threads, NEW h \in DOMAIN handles, DeleteEnter(t, h)
  PROVE  IInv'
<1> DEFINE n == [op |-> "delete", on |-> h, with |-> 0,
                 ptr |-> IF Java!Destroyed(handles[h].this) = {} THEN 0 ELSE TargetOf(h), arg |-> 0]
<1> USE DEF IInv
<1>1. /\ lang = "Java" /\ running[t] = Idle /\ Held(h) /\ ~Busy("delete", h)
      /\ Needed(h) => "drops" \in takes
      /\ InUse(h) => "races" \in takes
      /\ running' = [running EXCEPT ![t] = n]
      /\ UNCHANGED <<lang, takes, natives, indexes, handles, faults>>
  BY DEF DeleteEnter, LockFree
<1>2. handles[h].state # "gone" /\ h # 0 /\ h \in Nat /\ 0 \notin DOMAIN handles
  BY <1>1, HandleTypes DEF Held
<1>3. Java!Destroyed(handles[h].this) = Owned(handles[h].this) /\ TargetOf(h) = First(h)
  BY <1>1, <1>2, Reached DEF Destroyed
<1>4. First(h) \in Nat
  BY <1>2, Reached, Types DEF First
<1>5. /\ n \in RunType /\ n.op = "delete" /\ n.on = h /\ n.with = 0
      /\ n.ptr = IF Owned(handles[h].this) = {} THEN 0 ELSE First(h)
  BY <1>2, <1>3, <1>4 DEF RunType
<1> HIDE DEF n
<1>6. /\ running' \in [Threads -> RunType] /\ running'[t] = n
      /\ \A u \in Threads \ {t} : running'[u] = running[u]
  BY <1>1, <1>5, HandleTypes
<1>7. \A u : u # h /\ Busy("delete", u)' => Busy("delete", u)
  BY <1>5, <1>6 DEF Busy
<1>8. IndexesOwned' /\ Grows /\ \A p \in DOMAIN natives : Alike(p)
  BY <1>1, Untouched
<1>9. TypesNext
  BY <1>1, <1>6, <1>8, HandleTypes DEF TypesNext, TypeOK
<1>10. Apart(h) /\ Accounts(h)
  BY <1>1 DEF Apart, Accounts
<1>11. Holds(h)'
  <2>1. \A p \in DOMAIN natives : natives'[p].frees = natives[p].frees
    BY <1>1
  <2> QED BY <1>1, <1>8, <2>1, HoldsOn DEF HeldOnce
<1>12. "drops" \notin takes => StaysKeeper(h)
  <2>1. Needed(h) => "drops" \in takes
    BY <1>1
  <2> QED BY <2>1 DEF StaysKeeper
<1>13. ASSUME NEW k \in DOMAIN handles', Shares(k)' PROVE SharesAsBefore(k)
  <2>1. k \in DOMAIN handles /\ k # 0
    BY <1>1, <1>2
  <2>2. InUse(k)' => Held(k) \/ InUse(k)
    BY <1>1, <1>5, <1>6, <2>1 DEF InUse
  <2> QED BY <1>1, <1>13, <2>1, <2>2, SharesBack
<1>14. TypeOK' /\ HeldOnce' /\ Accounted' /\ ModelsKept'
  BY <1>7, <1>9, <1>10, <1>11, <1>12, <1>13, StepOn, TypesKept
<1>15. Entered'
  <2>1. ASSUME NEW u \in Threads, u # t PROVE Inside(u)'
    <3>1. Inside(u) /\ running'[u] = running[u]
      BY <1>6, <2>1 DEF Entered
    <3>2. running[u].op = "delete" =>
            \A v \in Threads : running'[v].op = "delete" /\ running'[v].on = running[u].on => v = u
      BY <1>1, <1>5, <1>6, <3>1 DEF Inside, Busy
    <3>3. /\ Races' = Races /\ (\A k : Held(k)' = Held(k)) /\ (\A k : Attaching(u, k)' = Attaching(u, k))
          /\ (\A k : First(k)' = First(k))
      BY <1>1, <3>1 DEF Races, Held, Attaching, First
    <3>4. ~Races => h \notin {running[u].on, running[u].with}
      BY <1>1 DEF InUse, Races
    <3>5. running[u].op \in Ops /\ ~Races =>
            ~Busy("delete", running[u].on)' /\ ~Busy("delete", running[u].with)'
      BY <1>7, <3>1, <3>4 DEF Inside
    <3> QED BY <1>1, <3>1, <3>2, <3>3, <3>5 DEF Inside
  <2>2. Inside(t)'
    <3>1. \A v \in Threads : running'[v].op = "delete" /\ running'[v].on = h => v = t
      BY <1>1, <1>6 DEF Busy
    <3>2. \A k : ~Attaching(t, k)'
      BY <1>5, <1>6 DEF Attaching
    <3>3. First(h)' = First(h)
      BY <1>1 DEF First
    <3>4. "delete" \notin Ops
      BY DEF Ops
    <3> QED BY <1>1, <1>2, <1>5, <1>6, <3>1, <3>2, <3>3, <3>4 DEF Inside
  <2> QED BY <2>1, <2>2 DEF Entered
<1> QED BY <1>1, <1>8, <1>14, <1>15, FaultsSame

(* What a call may count on: the object its handle reaches lives, unless   *)
(* the script is at fault.                                                 *)
Serves(k, x) ==
  /\ k \in DOMAIN handles /\ handles[k].state # "gone" /\ x \in Nat
  /\ x = 0 => lang = "Java" /\ "reuses" \in takes
  /\ x # 0 => x \in DOMAIN natives /\ natives[x].class = handles[k].class
  /\ ~Races => x = First(k) /\ (Held(k) \/ InUse(k)) /\ (x # 0 /\ ~Raw => natives[x].frees = 0)

LEMMA MissingIs ==
  ASSUME NEW op, NEW x
  PROVE  /\ x = 0 => Missing(op, x) = {"null"}
         /\ x # 0 /\ ~Living(x) => Missing(op, x) = {"dead"}
         /\ x # 0 /\ Living(x) =>
              Missing(op, x) = IF op # "set_model" /\ indexes[natives[x].index] > 0
                               THEN {"orphan"} ELSE {}
  BY DEF Missing

LEMMA Earned ==
  ASSUME IInv, NEW op, NEW k, NEW x, Serves(k, x)
  PROVE  LET found == Missing(op, x) IN
         /\ found \subseteq {"null", "dead", "orphan"}
         /\ "null" \in found => lang = "Java" /\ "reuses" \in takes
         /\ "dead" \in found => Raw \/ Races
         /\ "orphan" \in found => "drops" \in takes \/ Races
<1> USE DEF IInv
<1>1. k \in DOMAIN handles /\ handles[k].state # "gone" /\ x \in Nat
  BY DEF Serves
<1>2. CASE x = 0
  BY <1>2, MissingIs DEF Serves
<1>3. CASE x # 0 /\ ~Living(x)
  BY <1>3, MissingIs DEF Serves, Living
<1>4. CASE x # 0 /\ Living(x)
  <2>1. SUFFICES ASSUME indexes[natives[x].index] > 0, "drops" \notin takes, ~Races PROVE FALSE
    BY <1>4, MissingIs
  <2>2. /\ x \in DOMAIN natives /\ natives[x].class = handles[k].class /\ natives[x].frees = 0
        /\ x = First(k) /\ (Held(k) \/ InUse(k))
    BY <1>4, <2>1 DEF Serves, Living
  <2>3. handles[k].this # <<>> /\ x = handles[k].this[1].ptr
    BY <1>4, <2>2 DEF First
  <2>4. natives[x] \in NativeType
    BY <2>2, Types
  <2>5. natives[x].mode = "TEST_SHARED"
    BY <2>1, <2>2 DEF IndexesOwned
  <2>6. handles[k].class = "Tagger"
    BY <2>2, <2>4, <2>5 DEF IndexesOwned, NativeType
  <2>7. Shares(k)
    BY <2>2, <2>3, <2>5, <2>6 DEF Shares
  <2>8. PICK j \in DOMAIN handles : Keeper(j, natives[x].index)
    BY <1>1, <2>1, <2>3, <2>7 DEF ModelsKept
  <2> DEFINE y == handles[j].this[1].ptr
  <2>9. y \in DOMAIN natives /\ natives[y].class = "Model"
    BY <2>8, Reached DEF Keeper, Held
  <2>10. natives[y].mode = "MODEL" /\ natives[y].frees = 0 /\ natives[y].index = natives[x].index
    BY <2>8, <2>9 DEF Keeper, IndexesOwned
  <2> QED BY <2>1, <2>9, <2>10 DEF IndexesOwned
<1> QED BY <1>2, <1>3, <1>4

(* What a model must be that lends its index.                              *)
Lends(k) == ~Races /\ "drops" \notin takes => Held(k) /\ ~Busy("delete", k)

(* What a call leaves that found what it needed.                           *)
Served ==
  /\ TypeOK' /\ IndexesOwned' /\ HeldOnce' /\ Accounted' /\ ModelsKept' /\ Grows
  /\ \A k \in DOMAIN handles : k \in DOMAIN handles' /\ handles'[k] = handles[k]

LEMMA ReadPart ==
  ASSUME IInv, UNCHANGED <<lang, takes, natives, indexes, handles>>, Calmer,
         faults' \subseteq {"null", "dead", "orphan"}
  PROVE  Served
<1> USE DEF IInv
<1>1. IndexesOwned' /\ Grows
  BY Untouched
<1>2. TypesNext
  BY <1>1, HandleTypes DEF TypesNext, Calmer
<1>3. 0 \notin DOMAIN handles /\ 0 \notin DOMAIN handles'
  BY HandleTypes
<1>4. Apart(0) /\ Accounts(0) /\ StaysKeeper(0)
  BY <1>3 DEF Apart, Accounts, StaysKeeper
<1>5. ASSUME NEW k \in DOMAIN handles', Shares(k)' PROVE SharesAsBefore(k)
  BY <1>5, CalmerIs, SharesBack
<1>6. TypeOK' /\ HeldOnce' /\ Accounted' /\ ModelsKept'
  BY <1>2, <1>3, <1>4, <1>5, CalmerIs, StepOn, TypesKept
<1> QED BY <1>1, <1>6 DEF Served

LEMMA SetModelPart ==
  ASSUME IInv, UNCHANGED <<lang, takes, handles, faults>>, Calmer,
         NEW h, NEW p, Serves(h, p), p # 0, natives[p].frees = 0, handles[h].class = "Tagger",
         NEW g, NEW q, Serves(g, q), q # 0, natives[q].frees = 0, handles[g].class = "Model",
         Lends(g), SetModel(p, q)
  PROVE  Served
<1> USE DEF IInv
<1>1. /\ p \in DOMAIN natives /\ natives[p].class = "Tagger"
      /\ q \in DOMAIN natives /\ natives[q].class = "Model" /\ p # q
      /\ g \in DOMAIN handles
  BY DEF Serves
<1>2. /\ IndexesOwned' /\ Grows /\ DOMAIN natives' = DOMAIN natives
      /\ \A r \in DOMAIN natives \ {p} : Alike(r)
      /\ natives'[p].frees = 0 /\ natives'[p].mode = "TEST_SHARED"
      /\ natives'[p].index = natives[q].index
  BY <1>1, SetModelKeeps
<1>3. TypesNext
  BY <1>2, HandleTypes DEF TypesNext, Calmer, TypeOK
<1>4. 0 \notin DOMAIN handles /\ 0 \notin DOMAIN handles'
  BY HandleTypes
<1>5. Apart(0)
  BY <1>1, <1>2 DEF Apart, Alike
<1>6. Accounts(0) /\ StaysKeeper(0)
  BY <1>2, <1>4 DEF Accounts, StaysKeeper
<1>7. ASSUME NEW k \in DOMAIN handles', Shares(k)', ~Races, "drops" \notin takes
      PROVE  SharesAsBefore(k) \/ FindsKeeper(k)
  <2> DEFINE x == handles[k].this[1].ptr
  <2>1. k \in DOMAIN handles /\ handles[k].this # <<>> /\ Holds(k) /\ 1 \in DOMAIN handles[k].this
    BY <1>7, HandleTypes DEF Shares, HeldOnce, HandleType
  <2>2. x \in DOMAIN natives
    BY <2>1 DEF Holds
  <2>3. CASE x # p
    BY <1>2, <1>7, <2>1, <2>2, <2>3, CalmerIs, SharesBack DEF Alike
  <2>4. CASE x = p
    <3>1. handles[g].this # <<>> /\ q = handles[g].this[1].ptr /\ Held(g) /\ ~Busy("delete", g)
      BY <1>7 DEF Serves, First, Lends
    <3>2. Alike(q)
      BY <1>1, <1>2
    <3>3. /\ handles'[g] = handles[g] /\ handles'[k] = handles[k] /\ natives'[q].frees = 0
          /\ natives'[q].index = natives'[p].index /\ ~Busy("delete", g)'
      BY <1>2, <3>1, <3>2, CalmerIs DEF Alike
    <3>4. Keeper(g, natives[handles[k].this[1].ptr].index)'
      BY <2>4, <3>1, <3>3 DEF Keeper, Held
    <3> QED BY <1>1, <3>4 DEF FindsKeeper
  <2> QED BY <2>3, <2>4
<1>8. TypeOK' /\ HeldOnce' /\ Accounted' /\ ModelsKept'
  BY <1>3, <1>4, <1>5, <1>6, <1>7, CalmerIs, StepOn, TypesKept
<1> QED BY <1>2, <1>8 DEF Served

LEMMA CreateTaggerPart ==
  ASSUME IInv, UNCHANGED <<lang, takes, faults>>, Calmer,
         NEW h, NEW p, Serves(h, p), p # 0, natives[p].frees = 0, handles[h].class = "Model",
         Lends(h), CreateTagger(p)
  PROVE  Served
<1> USE DEF IInv
<1>0. PICK k \in Nat, n \in Nat : k = Len(handles) + 1 /\ n = Len(natives) + 1
  BY HandleTypes, Types
<1> DEFINE this == <<[ptr |-> n, own |-> FALSE]>>
           r == [class |-> "Tagger", this |-> this, state |-> "held", deleted |-> FALSE]
<1>1. /\ this \in Seq(Mem) /\ Len(this) = 1 /\ DOMAIN this = {1} /\ this # <<>>
      /\ this[1].ptr = n /\ this[1].own = FALSE
  BY One
<1>2. handles' = Append(handles, r)
  BY <1>0 DEF CreateTagger, Borrowed, Python!Borrowed, Python!Held
<1> HIDE DEF this
<1>3. r \in HandleType /\ r.this = this /\ r.state = "held" /\ r.class = "Tagger" /\ r.deleted = FALSE
  BY <1>1 DEF HandleType
<1> HIDE DEF r
<1>4. Added(r)
  BY <1>2, <1>3, AppendedHandle
<1>5. /\ p \in DOMAIN natives /\ natives[p].class = "Model" /\ h \in DOMAIN handles
  BY DEF Serves
<1>6. /\ IndexesOwned' /\ Grows
      /\ DOMAIN natives' = DOMAIN natives \cup {n} /\ n \notin DOMAIN natives
      /\ \A q \in DOMAIN natives : Alike(q)
      /\ natives'[n].for = k /\ natives'[n].class = "Tagger"
      /\ natives'[n].frees = 0 /\ natives'[n].mode = "TEST_SHARED" /\ natives'[n].lent = TRUE
      /\ natives'[n].index = natives[p].index
  BY <1>0, <1>5, CreateTaggerKeeps
<1>7. /\ handles' \in Seq(HandleType) /\ DOMAIN handles' = DOMAIN handles \cup {k}
      /\ k \notin DOMAIN handles /\ handles'[k] = r
      /\ \A g \in DOMAIN handles : g \in DOMAIN handles' /\ handles'[g] = handles[g]
  BY <1>0, <1>4 DEF Added
<1>8. TypesNext
  BY <1>6, <1>7, HandleTypes DEF TypesNext, TypeOK, Calmer
<1>9. Apart(k)
  BY <1>6, <1>7 DEF Apart, Alike
<1>10. Holds(k)'
  BY <1>1, <1>3, <1>6, <1>7 DEF Holds
<1>11. Accounts(k) /\ StaysKeeper(k)
  BY <1>6, <1>7 DEF Accounts, StaysKeeper
<1>12. ASSUME NEW g \in DOMAIN handles', Shares(g)', ~Races, "drops" \notin takes
       PROVE  SharesAsBefore(g) \/ FindsKeeper(g)
  <2>1. CASE g = k
    <3>1. handles[h].this # <<>> /\ p = handles[h].this[1].ptr /\ Held(h) /\ ~Busy("delete", h)
      BY <1>12 DEF Serves, First, Lends
    <3>2. Alike(p)
      BY <1>5, <1>6
    <3>3. /\ handles'[h] = handles[h] /\ natives'[p].frees = 0
          /\ natives'[p].index = natives'[n].index /\ ~Busy("delete", h)'
      BY <1>5, <1>6, <1>7, <3>1, <3>2, CalmerIs DEF Alike
    <3>4. Keeper(h, natives[handles[g].this[1].ptr].index)'
      BY <1>1, <1>3, <1>7, <2>1, <3>1, <3>3 DEF Keeper, Held
    <3> QED BY <1>5, <1>7, <3>4 DEF FindsKeeper
  <2>2. CASE g # k
    <3>1. g \in DOMAIN handles /\ handles'[g] = handles[g] /\ handles[g].this # <<>>
      BY <1>7, <1>12, <2>2 DEF Shares
    <3>2. Holds(g) /\ 1 \in DOMAIN handles[g].this
      BY <3>1, HandleTypes DEF HeldOnce, HandleType
    <3>3. Alike(handles[g].this[1].ptr)
      BY <1>6, <3>2 DEF Holds
    <3> QED BY <1>12, <3>1, <3>3, CalmerIs, SharesBack DEF Alike
  <2> QED BY <2>1, <2>2
<1>13. TypeOK' /\ HeldOnce' /\ Accounted' /\ ModelsKept'
  BY <1>8, <1>9, <1>10, <1>11, <1>12, CalmerIs, StepOn, TypesKept
<1> QED BY <1>6, <1>7, <1>13 DEF Served

LEMMA PerformPart ==
  ASSUME IInv, UNCHANGED <<lang, takes>>, Calmer, NEW op \in Ops,
         NEW h, NEW p, Serves(h, p), NEW g, NEW q, Perform(op, p, q),
         op = "createTagger" => handles[h].class = "Model" /\ Lends(h),
         op = "set_model" => /\ Serves(g, q) /\ q # 0 /\ handles[h].class = "Tagger"
                             /\ handles[g].class = "Model" /\ Lends(g)
  PROVE  Served /\ FaultsEarned'
<1> DEFINE other == IF op = "set_model" THEN Missing("read", q) ELSE {}
           found == Missing(op, p) \cup other
<1> USE DEF IInv
<1>1. IF found # {} THEN faults' = found /\ UNCHANGED <<natives, indexes, handles>>
      ELSE /\ UNCHANGED faults
           /\ CASE op = "read"         -> UNCHANGED <<natives, indexes, handles>>
                [] op = "set_model"    -> SetModel(p, q) /\ UNCHANGED handles
                [] op = "createTagger" -> CreateTagger(p)
  BY DEF Perform
<1>2. CASE found # {}
  <2>1. LET f == Missing(op, p) IN
         /\ f \subseteq {"null", "dead", "orphan"}
         /\ "null" \in f => lang = "Java" /\ "reuses" \in takes
         /\ "dead" \in f => Raw \/ Races
         /\ "orphan" \in f => "drops" \in takes \/ Races
    BY Earned
  <2>2. /\ other \subseteq {"null", "dead", "orphan"}
        /\ "null" \in other => lang = "Java" /\ "reuses" \in takes
        /\ "dead" \in other => Raw \/ Races
        /\ "orphan" \in other => "drops" \in takes \/ Races
    <3>1. CASE op = "set_model"
      BY <3>1, Earned
    <3>2. CASE op # "set_model"
      BY <3>2
    <3> QED BY <3>1, <3>2
  <2>3. faults' = found /\ UNCHANGED <<natives, indexes, handles>>
    BY <1>1, <1>2
  <2> HIDE DEF other
  <2>4. faults' \subseteq {"null", "dead", "orphan"} /\ FaultsEarned'
    BY <2>1, <2>2, <2>3 DEF FaultsEarned, Raw, Races
  <2>5. Served
    BY <2>3, <2>4, ReadPart
  <2> QED BY <2>4, <2>5
<1>3. CASE found = {}
  <2>1. FaultsEarned' /\ faults' = faults /\ faults' \subseteq {"null", "dead", "orphan"}
    BY <1>1, <1>3, FaultsSame DEF TypeOK
  <2>2. p # 0 /\ natives[p].frees = 0
    BY <1>3, MissingIs DEF Living
  <2>3. CASE op = "read"
    BY <1>1, <1>3, <2>1, <2>3, ReadPart
  <2>4. CASE op = "set_model"
    <3>1. q # 0 /\ natives[q].frees = 0
      BY <1>3, <2>4, MissingIs DEF Living
    <3>2. SetModel(p, q) /\ UNCHANGED handles
      BY <1>1, <1>3, <2>4
    <3>3. Served
      BY <2>1, <2>2, <2>4, <3>1, <3>2, SetModelPart
    <3> QED BY <2>1, <3>3
  <2>5. CASE op = "createTagger"
    <3>1. CreateTagger(p)
      BY <1>1, <1>3, <2>5
    <3>2. Served
      BY <2>1, <2>2, <2>5, <3>1, CreateTaggerPart
    <3> QED BY <2>1, <3>2
  <2> QED BY <2>3, <2>4, <2>5 DEF Ops
<1> QED BY <1>2, <1>3

LEMMA CallStep ==
  ASSUME IInv, NEW h \in DOMAIN handles, NEW op \in Ops, NEW g \in 0 .. Len(handles),
         Call(op, h, g)
  PROVE  IInv'
<1> DEFINE p == TargetOf(h)
           q == IF g = 0 THEN 0 ELSE TargetOf(g)
<1> USE DEF IInv
<1>1. /\ lang # "Java" /\ MayCall(op, h, g) /\ Perform(op, p, q)
      /\ UNCHANGED <<lang, takes, running>>
  BY DEF Call
<1>2. MayUse(h)
  BY <1>1 DEF MayCall
<1>3. ASSUME NEW k \in DOMAIN handles, MayUse(k)
      PROVE  Serves(k, TargetOf(k)) /\ Lends(k)
  <2>1. TargetOf(k) = First(k) /\ Held(k) /\ handles[k].state # "gone" /\ First(k) # 0
    BY <1>1, <1>3, Usable DEF Held
  <2>2. First(k) \in DOMAIN natives /\ natives[First(k)].class = handles[k].class
        /\ (~Raw => natives[First(k)].frees = 0) /\ First(k) \in Nat
    BY <1>3, <2>1, Usable, Types
  <2>3. ~Busy("delete", k)
    BY <1>1, NoThreads
  <2> QED BY <2>1, <2>2, <2>3 DEF Serves, Lends
<1>4. op = "createTagger" => handles[h].class = "Model"
  BY <1>1 DEF MayCall
<1>5. op = "set_model" => /\ g \in DOMAIN handles /\ MayUse(g) /\ q = TargetOf(g) /\ q # 0
                          /\ handles[h].class = "Tagger" /\ handles[g].class = "Model"
  BY <1>1, HandleTypes DEF MayCall
<1>6. Calmer
  BY <1>1, StillRunning
<1> HIDE DEF p, q
<1>7. Serves(h, p) /\ Lends(h) /\ (op = "set_model" => Serves(g, q) /\ Lends(g))
  BY <1>2, <1>3, <1>5 DEF p
<1>8. Served /\ FaultsEarned'
  BY <1>1, <1>4, <1>5, <1>6, <1>7, PerformPart
<1>9. Entered'
  BY <1>1, StillIdle
<1> QED BY <1>8, <1>9 DEF Served

(* A method of Java finds what it read when it entered.                    *)
LEMMA LeaveStep ==
  ASSUME IInv, NEW t \in Threads, Leave(t)
  PROVE  IInv'
<1> DEFINE r == running[t]
<1> USE DEF IInv
<1>1. /\ r.op \in Ops /\ Perform(r.op, r.ptr, r.arg)
      /\ running' = [running EXCEPT ![t] = Idle] /\ UNCHANGED <<lang, takes>>
  BY DEF Leave
<1>2. Inside(t) /\ r \in RunType /\ r.op # "idle" /\ lang = "Java" /\ r.ptr \in Nat /\ r.arg \in Nat
  BY <1>1, HandleTypes DEF Entered, Inside, Ops, RunType
<1>3. Calmer
  <2>1. Idle \in RunType
    BY DEF Idle, RunType
  <2> QED BY <1>1, <2>1, HandleTypes DEF Calmer
<1>4. ASSUME NEW k \in DOMAIN handles, handles[k].state # "gone", First(k) # 0
      PROVE  natives[First(k)].frees = 0
  <2>1. Holds(k) /\ handles[k].this # <<>> /\ 1 \in DOMAIN handles[k].this
        /\ First(k) = handles[k].this[1].ptr
    BY <1>4, Reached DEF HeldOnce, First
  <2> QED BY <1>2, <2>1 DEF Holds, Raw
<1>5. Serves(r.on, r.ptr)
  <2>1. r.on \in DOMAIN handles /\ handles[r.on].state # "gone" /\ InUse(r.on)
    BY <1>2 DEF Inside, InUse
  <2>2. ~Races => r.ptr = First(r.on)
    BY <1>1, <1>2 DEF Inside
  <2>3. IF r.ptr = 0 THEN "reuses" \in takes
        ELSE r.ptr \in DOMAIN natives /\ natives[r.ptr].class = handles[r.on].class
    BY <1>1, <1>2 DEF Inside
  <2> QED BY <1>2, <1>4, <2>1, <2>2, <2>3 DEF Serves
<1>6. r.op = "set_model" =>
        /\ Serves(r.with, r.arg) /\ r.arg # 0
        /\ handles[r.on].class = "Tagger" /\ handles[r.with].class = "Model"
  <2> HAVE r.op = "set_model"
  <2>1. r.with \in DOMAIN handles /\ handles[r.with].state # "gone" /\ InUse(r.with)
        /\ handles[r.on].class = "Tagger" /\ handles[r.with].class = "Model"
        /\ r.arg \in DOMAIN natives /\ natives[r.arg].class = "Model" /\ r.arg # 0
    BY <1>2, Types DEF Inside, InUse
  <2>2. ~Races => r.arg = First(r.with)
    BY <1>1, <1>2 DEF Inside
  <2> QED BY <1>2, <1>4, <2>1, <2>2 DEF Serves
<1>7. ASSUME NEW k \in DOMAIN handles, Attaching(t, k) PROVE Lends(k)
  BY <1>1, <1>2, <1>7 DEF Inside, Attaching, Lends
<1>8. r.op = "createTagger" => handles[r.on].class = "Model" /\ Lends(r.on)
  BY <1>2, <1>5, <1>7 DEF Inside, Attaching, Serves
<1>9. r.op = "set_model" => Lends(r.with)
  BY <1>6, <1>7 DEF Attaching, Serves
<1>10. Served /\ FaultsEarned'
  BY <1>1, <1>3, <1>5, <1>6, <1>8, <1>9, PerformPart
<1>11. Entered'
  BY <1>1, <1>3, <1>10, EnteredOn DEF Served
<1> QED BY <1>10, <1>11 DEF Served-----------------------------------------------------------------------------

LEMMA InitStep ==
  ASSUME Init PROVE IInv
<1>1. TypeOK
  BY DEF Init, TypeOK, Idle, Ops
<1>2. DOMAIN natives = {} /\ DOMAIN indexes = {} /\ DOMAIN handles = {}
  BY DEF Init
<1>3. IndexesOwned /\ HeldOnce /\ ModelsKept /\ Accounted
  BY <1>2 DEF IndexesOwned, HeldOnce, ModelsKept, Accounted
<1>4. Entered
  BY DEF Init, Entered, Inside, Idle, Ops, Attaching
<1>5. FaultsEarned
  BY DEF Init, FaultsEarned
<1> QED BY <1>1, <1>3, <1>4, <1>5 DEF IInv

LEMMA StutterStep ==
  ASSUME IInv, UNCHANGED vars PROVE IInv'
<1> USE DEF IInv, vars
<1>1. TypeOK' /\ FaultsEarned'
  BY DEF TypeOK, FaultsEarned
<1>2. Served
  BY StillRunning, ReadPart DEF TypeOK
<1>3. Entered'
  BY <1>2, StillRunning, EnteredOn DEF Served
<1> QED BY <1>1, <1>2, <1>3 DEF Served

(* The steps, named: one disjunct of Next each.                            *)
LEMMA NextIs ==
  ASSUME Next
  PROVE  \/ \E class \in {"Model", "Tagger"} : New(class)
         \/ \E class \in {"Model", "Tagger"} : Unborn(class)
         \/ \E h \in DOMAIN handles : Construct(h)
         \/ \E h \in DOMAIN handles : Delete(h)
         \/ \E h \in DOMAIN handles : Drop(h)
         \/ \E h \in DOMAIN handles : Collect(h)
         \/ \E h \in DOMAIN handles, own \in BOOLEAN : Own(h, own)
         \/ \E h \in DOMAIN handles, op \in Ops, g \in 0 .. Len(handles) : Call(op, h, g)
         \/ \E t \in Threads, h \in DOMAIN handles : DeleteEnter(t, h)
         \/ \E t \in Threads, h \in DOMAIN handles, op \in Ops, g \in 0 .. Len(handles) :
              Enter(t, op, h, g)
         \/ \E t \in Threads : Leave(t)
         \/ \E t \in Threads : DeleteLeave(t)
  BY Zenon DEF Next

LEMMA NextStep ==
  ASSUME IInv, [Next]_vars PROVE IInv'
<1>1. CASE UNCHANGED vars
  BY <1>1, StutterStep
<1>2. CASE Next
  BY <1>2, NextIs, NewStep, UnbornStep, ConstructStep, DeleteStep, DropStep, CollectStep,
     OwnStep, CallStep, DeleteEnterStep, EnterStep, LeaveStep, DeleteLeaveStep
<1> QED BY <1>1, <1>2

(* The inductive invariant: who owns each feature index, which handle      *)
(* holds each object, what a thread inside a method may count on, and a    *)
(* model for every tagger that shares an index.                            *)
THEOREM Inductive == Spec => []IInv
<1>1. Init => IInv
  BY InitStep
<1>2. IInv /\ [Next]_vars => IInv'
  BY NextStep
<1> QED BY <1>1, <1>2, PTL DEF Spec

(* Whatever a script, its threads and the collection of its handles do in  *)
(* whatever order, no object and no feature index is deleted twice, but by *)
(* the raw delete functions of Python and Perl on what they deleted.       *)
THEOREM NothingFreedTwice == Spec => []FreedOnce
<1>1. IInv => FreedOnce
  <2> SUFFICES ASSUME IInv, ~Raw
               PROVE  /\ \A p \in DOMAIN natives : natives[p].frees <= 1
                      /\ \A i \in DOMAIN indexes : indexes[i] <= 1
    BY DEF FreedOnce, Raw
  <2>1. \A p \in DOMAIN natives : natives[p].frees <= 1
    BY DEF IInv, IndexesOwned
  <2>2. ASSUME NEW i \in DOMAIN indexes PROVE indexes[i] <= 1
    <3>1. indexes[i] = 1 \/ \E p \in DOMAIN natives : Owns(p, i)
      BY DEF IInv, IndexesOwned
    <3>2. ASSUME NEW p \in DOMAIN natives, Owns(p, i) PROVE indexes[i] <= 1
      BY <2>1, <3>2 DEF IInv, IndexesOwned, Owns
    <3> QED BY <3>1, <3>2
  <2> QED BY <2>1, <2>2
<1> QED BY <1>1, Inductive, PTL

(* A call finds a null pointer, a freed object or a freed feature index    *)
(* only after the liberty of the script that earns it: createTagger and    *)
(* set_model keep no reference to the model, and no order of collection    *)
(* harms a script that keeps its models.                                   *)
THEOREM FaultsAlwaysEarned == Spec => []FaultsEarned
<1>1. IInv => FaultsEarned
  BY DEF IInv
<1> QED BY <1>1, Inductive, PTL

(* Every living object that is not lent, disowned or lost to a second      *)
(* constructor is freed with a handle that is still there, and every       *)
(* feature index has the object that will delete it.                       *)
THEOREM NothingLeaks == Spec => []NoLeak
<1>1. IInv => NoLeak
  <2> SUFFICES ASSUME IInv PROVE NoLeak
    OBVIOUS
  <2>1. ASSUME NEW p \in DOMAIN natives, Living(p)
        PROVE  \/ natives[p].lent \/ "owns" \in takes \/ Lost(p)
               \/ \E h \in DOMAIN handles :
                    handles[h].state # "gone" /\ p \in Destroyed(handles[h].this)
    <3>1. ASSUME NEW h \in DOMAIN handles, handles[h].state # "gone"
          PROVE  Destroyed(handles[h].this) = Owned(handles[h].this)
      BY <3>1, Reached DEF IInv
    <3> QED BY <2>1, <3>1 DEF IInv, Accounted
  <2>2. ASSUME NEW i \in DOMAIN indexes, indexes[i] = 0
        PROVE  \E p \in DOMAIN natives :
                 natives[p].index = i /\ Living(p) /\ natives[p].mode # "TEST_SHARED"
    <3>1. PICK p \in DOMAIN natives : Owns(p, i)
      BY <2>2 DEF IInv, IndexesOwned
    <3>2. natives[p].frees = 0
      BY <2>2, <3>1 DEF IInv, IndexesOwned, Owns
    <3>3. p # 0
      BY Types DEF IInv
    <3> QED BY <3>1, <3>2, <3>3 DEF Owns, Living
  <2> QED BY <2>1, <2>2 DEF NoLeak
<1> QED BY <1>1, Inductive, PTL
-----------------------------------------------------------------------------
(* A handle that a step leaves alone reaches what it reached.              *)
LEMMA PerformSame ==
  ASSUME TypeOK, NEW op \in Ops, NEW p, NEW q, Perform(op, p, q)
  PROVE  \A h \in DOMAIN handles : handles'[h] = handles[h]
<1>1. \/ UNCHANGED handles
      \/ CreateTagger(p)
  BY DEF Perform, Ops
<1>2. CASE CreateTagger(p)
  <2> DEFINE r == [class |-> "Tagger", this |-> Borrowed(Len(natives) + 1),
                   state |-> "held", deleted |-> FALSE]
  <2>1. handles' = Append(handles, r)
    BY <1>2 DEF CreateTagger
  <2> HIDE DEF r
  <2> QED BY <2>1, HandleTypes
<1> QED BY <1>1, <1>2

Same(h) == \/ Target(handles'[h].this) = Target(handles[h].this)
           \/ (lang = "Java" /\ handles'[h].deleted /\ Target(handles'[h].this) = 0)
           \/ (lang = "Ruby" /\ "again" \in takes)

LEMMA SameStep ==
  ASSUME IInv, Next, NEW h \in DOMAIN handles, handles[h].this # <<>>, handles'[h].state # "gone"
  PROVE  Same(h)
<1> USE DEF IInv
<1>0. handles[h] \in HandleType /\ Holds(h) /\ handles \in Seq(HandleType)
  BY HandleTypes DEF HeldOnce
<1>1. CASE handles'[h] = handles[h]
  BY <1>1 DEF Same
<1>2. ASSUME NEW class \in {"Model", "Tagger"}, New(class) PROVE handles'[h] = handles[h]
  BY <1>0, <1>2 DEF New
<1>3. ASSUME NEW class \in {"Model", "Tagger"}, Unborn(class) PROVE handles'[h] = handles[h]
  BY <1>0, <1>3 DEF Unborn
<1>4. ASSUME NEW k \in DOMAIN handles, Construct(k) PROVE Same(h)
  <2> DEFINE made == Constructed(handles[k].this, Len(natives) + 1)
  <2>1. /\ handles' = [handles EXCEPT ![k].this = made]
        /\ handles[k].this = <<>> \/ "again" \in takes
        /\ lang \in {"Python", "Ruby"}
    BY <1>4 DEF Construct
  <2>2. lang = "Python" /\ k = h => Target(made) = Target(handles[h].this)
    BY DEF Target, Constructed, Python!Constructed, Python!Target
  <2> HIDE DEF made
  <2>3. k = h => handles'[h].this = made
    BY <1>0, <2>1 DEF HandleType
  <2>4. k # h => handles'[h] = handles[h]
    BY <2>1
  <2> QED BY <1>1, <2>1, <2>2, <2>3, <2>4 DEF Same
<1>5. ASSUME NEW k \in DOMAIN handles, Delete(k) PROVE Same(h)
  <2> DEFINE that == IF lang = "Python" THEN Python!Deleted(handles[k].this)
                     ELSE Perl!Deleted(handles[k].this)
  <2>1. /\ handles' = [handles EXCEPT ![k].this = that, ![k].deleted = TRUE]
        /\ lang \in {"Python", "Perl"} /\ handles[k].state # "gone"
    BY <1>5 DEF Delete, MayUse, Held
  <2>2. k = h => Reowned(handles[h].this, that, FALSE)
    BY <2>1, Reached, OwningIs, PerlOwningIs DEF Python!Deleted, Perl!Deleted
  <2>3. k = h => Target(that) = Target(handles[h].this)
    BY <2>1, <2>2 DEF Reowned, Target, Python!Target, Perl!Target
  <2> HIDE DEF that
  <2>4. k = h => handles'[h].this = that
    BY <1>0, <2>1 DEF HandleType
  <2>5. k # h => handles'[h] = handles[h]
    BY <2>1
  <2> QED BY <1>1, <2>3, <2>4, <2>5 DEF Same
<1>6. ASSUME NEW k \in DOMAIN handles, NEW own \in BOOLEAN, Own(k, own) PROVE Same(h)
  <2> DEFINE that == CASE lang = "Python" -> Python!Owning(handles[k].this, own)
                       [] lang = "Perl" /\ own -> Perl!Acquired(handles[k].this)
                       [] lang = "Perl" /\ ~own -> Perl!Disowned(handles[k].this)
  <2>1. /\ handles' = [handles EXCEPT ![k].this = that]
        /\ lang \in {"Python", "Perl"} /\ handles[k].state # "gone"
    BY <1>6 DEF Own, MayUse, Held
  <2>2. k = h => Reowned(handles[h].this, that, own)
    BY <2>1, Reached, OwningIs, PerlOwningIs
  <2>3. k = h => Target(that) = Target(handles[h].this)
    BY <2>1, <2>2 DEF Reowned, Target, Python!Target, Perl!Target
  <2> HIDE DEF that
  <2>4. k = h => handles'[h].this = that
    BY <1>0, <2>1 DEF HandleType
  <2>5. k # h => handles'[h] = handles[h]
    BY <2>1
  <2> QED BY <1>1, <2>3, <2>4, <2>5 DEF Same
<1>7. ASSUME NEW k \in DOMAIN handles, Drop(k) PROVE Same(h)
  <2>1. handles'[h].this = handles[h].this
    BY <1>0, <1>7 DEF Drop, HandleType
  <2> QED BY <2>1 DEF Same
<1>8. ASSUME NEW k \in DOMAIN handles, Collect(k) PROVE handles'[h] = handles[h]
  <2>1. handles' = [handles EXCEPT ![k].this = <<>>, ![k].state = "gone"]
    BY <1>8 DEF Collect
  <2>2. k = h => handles'[h].state = "gone"
    BY <1>0, <2>1 DEF HandleType
  <2> QED BY <2>1, <2>2
<1>9. ASSUME NEW k \in DOMAIN handles, NEW op \in Ops, NEW g \in 0 .. Len(handles), Call(op, k, g)
      PROVE  handles'[h] = handles[h]
  <2>1. Perform(op, TargetOf(k), IF g = 0 THEN 0 ELSE TargetOf(g))
    BY <1>9 DEF Call
  <2> QED BY <2>1, PerformSame
<1>10. ASSUME NEW t \in Threads, NEW k \in DOMAIN handles, DeleteEnter(t, k)
       PROVE  handles'[h] = handles[h]
  BY <1>10 DEF DeleteEnter
<1>11. ASSUME NEW t \in Threads, NEW k \in DOMAIN handles, NEW op \in Ops,
              NEW g \in 0 .. Len(handles), Enter(t, op, k, g)
       PROVE  handles'[h] = handles[h]
  BY <1>11 DEF Enter
<1>12. ASSUME NEW t \in Threads, Leave(t) PROVE handles'[h] = handles[h]
  BY <1>12, PerformSame DEF Leave
<1>13. ASSUME NEW t \in Threads, DeleteLeave(t) PROVE Same(h)
  <2>1. /\ handles' = [handles EXCEPT ![running[t].on].this = <<>>, ![running[t].on].deleted = TRUE]
        /\ lang = "Java"
    BY <1>13 DEF DeleteLeave, Java!Deleted, Entered, Inside
  <2>2. running[t].on = h => handles'[h].this = <<>> /\ handles'[h].deleted
    BY <1>0, <2>1 DEF HandleType
  <2>3. Target(<<>>) = 0
    BY <2>1 DEF Target, Java!Target
  <2> QED BY <1>1, <2>1, <2>2, <2>3 DEF Same
<1> QED
  BY <1>1, <1>2, <1>3, <1>4, <1>5, <1>6, <1>7, <1>8, <1>9, <1>10, <1>11, <1>12, <1>13, NextIs

(* While a handle lives its methods reach the object they reached before,  *)
(* or none in Java after delete(): no call takes a handle to another       *)
(* object, but Ruby's initialize, called again.                            *)
THEOREM HandlesNeverMove == Spec => SameObject
<1>1. IInv /\ [Next]_vars =>
        [\A h \in DOMAIN handles :
           (handles[h].this # <<>> /\ handles'[h].state # "gone") =>
             \/ Target(handles'[h].this) = Target(handles[h].this)
             \/ (lang = "Java" /\ handles'[h].deleted /\ Target(handles'[h].this) = 0)
             \/ (lang = "Ruby" /\ "again" \in takes)]_vars
  BY SameStep DEF Same
<1> QED BY <1>1, Inductive, PTL DEF Spec, SameObject
=============================================================================
