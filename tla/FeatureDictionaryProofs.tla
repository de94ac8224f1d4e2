---------------------- MODULE FeatureDictionaryProofs ----------------------
(***************************************************************************)
(* For every set of features, every size of the tag set, every threshold   *)
(* and every training set: the weights of two features never overlap, none *)
(* is left over, and the renumbering of shrink() reaches every row.  And   *)
(* the free lists its rows and their strings lie in, for every size of     *)
(* block and any lengths of the requests.  And the templates that make the *)
(* features, for every template, sentence and position: each piece lies in *)
(* a place of its own (PiecesLaid), a turn of the loop passes over one     *)
(* piece (PieceTurnIs), and from the last one back the rest is expanded as *)
(* its pieces mean (Expanded).                                             *)
(***************************************************************************)
EXTENDS FeatureDictionary, FreeList, Algorithms, FiniteSetTheorems, WellFoundedInduction, TLAPS

(* A feature owns at least one weight.                                     *)
LEMMA WidthType == \A p \in Key : Width(p) \in Nat /\ Width(p) > 0
<1>1. Y * Y \in Nat /\ Y * Y > 0
  <2>1. \A y \in Nat \ {0} : y * y \in Nat /\ y * y > 0
    OBVIOUS
  <2> QED BY <2>1, DictionaryAssumption
<1> QED BY <1>1, DictionaryAssumption DEF Width

(* A block appended behind all others leaves no gap and touches none.      *)
LEMMA AppendBlock ==
  ASSUME NEW S \in SUBSET Key, NEW n \in [Key -> Nat], NEW m \in Nat,
         NEW key \in Key, key \notin S,
         Apart(S, n), Below(S, n, m), Owned(S, n, m)
  PROVE  LET n2 == [n EXCEPT ![key] = m]
             S2 == S \cup {key}
         IN  /\ n2 \in [Key -> Nat] /\ m + Width(key) \in Nat
             /\ Apart(S2, n2) /\ Below(S2, n2, m + Width(key))
             /\ Owned(S2, n2, m + Width(key))
             /\ \A p \in S : n2[p] = n[p]
<1> DEFINE n2 == [n EXCEPT ![key] = m]
           S2 == S \cup {key}
<1>1. /\ n2 \in [Key -> Nat] /\ n2[key] = m
      /\ \A p \in S : n2[p] = n[p] /\ p # key
      /\ Width(key) \in Nat /\ Width(key) > 0
      /\ \A p \in S : Width(p) \in Nat /\ n[p] \in Nat
  BY WidthType
<1> HIDE DEF n2
<1>2. Apart(S2, n2)
  BY <1>1 DEF Apart, Below
<1>3. Below(S2, n2, m + Width(key))
  BY <1>1 DEF Below
<1>4. Owned(S2, n2, m + Width(key))
  <2> SUFFICES ASSUME NEW w \in 0..(m + Width(key))-1
               PROVE  \E p \in S2 : n2[p] <= w /\ w < n2[p] + Width(p)
    BY DEF Owned
  <2>1. CASE w < m
    <3>1. w \in 0..m-1
      BY <1>1, <2>1
    <3> QED BY <1>1, <3>1 DEF Owned
  <2>2. CASE ~(w < m)
    BY <1>1, <2>2
  <2> QED BY <2>1, <2>2
<1> QED BY <1>1, <1>2, <1>3, <1>4 DEF n2

(* Sequences over a larger set.                                            *)
LEMMA SeqGrows ==
  ASSUME NEW S, NEW T, S \subseteq T
  PROVE  Seq(S) \subseteq Seq(T) /\ Seq(Seq(S)) \subseteq Seq(Seq(T))
<1>1. ASSUME NEW A, NEW B, A \subseteq B PROVE Seq(A) \subseteq Seq(B)
  <2> SUFFICES ASSUME NEW s \in Seq(A) PROVE s \in Seq(B)
    OBVIOUS
  <2>1. Len(s) \in Nat /\ s \in [1..Len(s) -> B]
    BY <1>1
  <2> QED BY <2>1
<1>2. Seq(S) \subseteq Seq(T)
  BY <1>1
<1> QED BY <1>1, <1>2

(* The numbers of a row are a sequence of integers.                        *)
LEMMA NumbersType ==
  ASSUME NEW row \in Seq(Key), NEW S \in SUBSET Key, NEW n \in [Key -> Nat]
  PROVE  Numbers(row, S, n) \in Seq(Int) /\ Len(Numbers(row, S, n)) = Len(row)
<1>1. Numbers(row, S, n) \in [1..Len(row) -> Int] /\ Len(row) \in Nat
  BY DEF Numbers, Gone
<1> QED BY <1>1

(* One more template fires.                                                *)
LEMMA NumbersAppend ==
  ASSUME NEW row \in Seq(Key), NEW S \in SUBSET Key, NEW n \in [Key -> Nat], NEW key \in S
  PROVE  Numbers(Append(row, key), S, n) = Append(Numbers(row, S, n), n[key])
<1> DEFINE u == Numbers(Append(row, key), S, n)
           v == Append(Numbers(row, S, n), n[key])
           m == Len(row) + 1
<1>1. /\ Len(row) \in Nat /\ Append(row, key) \in Seq(Key)
      /\ Len(Append(row, key)) = m /\ DOMAIN Append(row, key) = 1..m
      /\ \A k \in 1..m : Append(row, key)[k] = IF k = m THEN key ELSE row[k]
  OBVIOUS
<1>2. /\ Numbers(row, S, n) \in Seq(Int) /\ Len(Numbers(row, S, n)) = Len(row)
      /\ DOMAIN Numbers(row, S, n) = 1..Len(row)
  BY NumbersType
<1>3. /\ v = [k \in 1..m |-> IF k = m THEN n[key] ELSE Numbers(row, S, n)[k]]
  BY <1>1, <1>2
<1>4. \A k \in 1..m : k # m => k \in 1..Len(row)
  BY <1>1
<1>5. u = [k \in 1..m |-> IF Append(row, key)[k] \in S THEN n[Append(row, key)[k]] ELSE Gone]
  BY <1>1 DEF Numbers
<1>6. \A k \in 1..m : u[k] = v[k]
  <2> TAKE k \in 1..m
  <2>1. CASE k = m
    BY <1>1, <1>3, <1>5, <2>1
  <2>2. CASE k # m
    <3>1. k \in 1..Len(row) /\ Append(row, key)[k] = row[k]
      BY <1>1, <1>4, <2>2
    <3>2. Numbers(row, S, n)[k] = IF row[k] \in S THEN n[row[k]] ELSE Gone
      BY <3>1 DEF Numbers
    <3> QED BY <1>3, <1>5, <2>2, <3>1, <3>2
  <2> QED BY <2>1, <2>2
<1> HIDE DEF u, v
<1>7. u = [k \in 1..m |-> u[k]] /\ v = [k \in 1..m |-> v[k]]
  BY <1>3, <1>5
<1>8. u = v
  BY <1>6, <1>7
<1> QED BY <1>8 DEF u, v

(* The initial state satisfies the invariant.                              *)
LEMMA InitIInv == Init => IInv
<1> SUFFICES ASSUME Init PROVE IInv
  OBVIOUS
<1> USE DictionaryAssumption DEF Init
<1>1. TypeOK
  BY DEF TypeOK, Key
<1>2. Reading /\ Old /\ Renumbered /\ Rows /\ RowsCurrent
  BY DEF Reading, Old, Renumbered, Rows, RowsCurrent, Numbers
<1>3. WeightsTiled
  BY DEF WeightsTiled, Apart, Below, Owned
<1> QED BY <1>1, <1>2, <1>3 DEF IInv

LEMMA GetIDStep == ASSUME IInv, NEW key \in Key, GetID(key) PROVE IInv'
<1> USE DictionaryAssumption
<1>0. /\ TypeOK /\ Reading /\ phase = "read" /\ phase' = "read"
      /\ WeightsTiled /\ RowsCurrent
      /\ UNCHANGED <<cache, fired, old2new, newMax, cur, oldKnown, oldId>>
      /\ feature' = Append(feature, id'[key]) /\ firing' = Append(firing, key)
  BY DEF IInv, GetID, loopVars, oldVars
<1>1. /\ Apart(known, id) /\ Below(known, id, maxid) /\ Owned(known, id, maxid)
      /\ \A r \in DOMAIN cache : cache[r] = Numbers(fired[r], known, id)
      /\ known \subseteq Key /\ id \in [Key -> Nat] /\ maxid \in Nat
      /\ count \in [Key -> Nat]
  BY <1>0 DEF WeightsTiled, RowsCurrent, Stable, TypeOK
<1>2. /\ known' = known \cup {key} /\ known' \subseteq Key
      /\ id' \in [Key -> Nat] /\ count' \in [Key -> Nat] /\ maxid' \in Nat
      /\ Apart(known', id') /\ Below(known', id', maxid') /\ Owned(known', id', maxid')
      /\ \A p \in known : id'[p] = id[p]
  <2>1. CASE key \in known
    <3>1. /\ UNCHANGED <<known, id, maxid>>
          /\ count' = [count EXCEPT ![key] = @ + 1]
      BY <2>1 DEF GetID
    <3> QED BY <1>1, <2>1, <3>1
  <2>2. CASE key \notin known
    <3>1. /\ known' = known \cup {key} /\ id' = [id EXCEPT ![key] = maxid]
          /\ count' = [count EXCEPT ![key] = 1]
          /\ maxid' = maxid + Width(key)
      BY <2>2 DEF GetID
    <3>2. count' \in [Key -> Nat]
      BY <1>1, <3>1
    <3> QED BY <1>1, <2>2, <3>1, <3>2, AppendBlock
  <2> QED BY <2>1, <2>2
<1>3. TypeOK'
  <2>1. feature' \in Seq(Int) /\ firing' \in Seq(Key)
    BY <1>0, <1>2 DEF TypeOK
  <2> QED BY <1>0, <1>2, <2>1 DEF TypeOK
<1>4. Reading'
  <2>1. /\ firing \in Seq(known) /\ feature = Numbers(firing, known, id)
        /\ fired \in Seq(Seq(known))
        /\ cur = 1 /\ newMax = 0 /\ old2new = {}
    BY <1>0 DEF Reading
  <2>2. feature = Numbers(firing, known', id')
    BY <1>2, <2>1 DEF Numbers
  <2>3. firing \in Seq(known') /\ fired \in Seq(Seq(known')) /\ firing \in Seq(Key)
    BY <1>1, <1>2, <2>1, SeqGrows
  <2>4. feature' = Numbers(firing', known', id')
    <3>1. PICK S2, n2 : S2 = known' /\ n2 = id'
      OBVIOUS
    <3>2. S2 \in SUBSET Key /\ n2 \in [Key -> Nat] /\ key \in S2
      BY <1>2, <3>1
    <3>3. Numbers(Append(firing, key), S2, n2) = Append(Numbers(firing, S2, n2), n2[key])
      BY <2>3, <3>2, NumbersAppend
    <3> QED BY <1>0, <2>2, <3>1, <3>3
  <2>5. firing' \in Seq(known')
    BY <1>0, <1>2, <2>3
  <2> QED BY <1>0, <2>1, <2>3, <2>4, <2>5 DEF Reading
<1>5. RowsCurrent'
  <2>1. \A r \in DOMAIN cache : fired[r] \in Seq(known)
    BY <1>0 DEF Reading, TypeOK
  <2>2. \A r \in DOMAIN cache : Numbers(fired[r], known', id') = Numbers(fired[r], known, id)
    BY <1>2, <2>1 DEF Numbers
  <2>3. \A r \in DOMAIN cache : cache[r] = Numbers(fired[r], known', id')
    BY <1>1, <2>2
  <2> QED BY <1>0, <2>3 DEF RowsCurrent
<1>6. WeightsTiled' /\ Old' /\ Renumbered' /\ Rows'
  BY <1>0, <1>2 DEF WeightsTiled, Old, Renumbered, Rows
<1> QED BY <1>3, <1>4, <1>5, <1>6 DEF IInv

LEMMA AddRowStep == ASSUME IInv, AddRow PROVE IInv'
<1> USE DictionaryAssumption
<1>0. /\ TypeOK /\ Reading /\ phase = "read" /\ phase' = "read"
      /\ WeightsTiled /\ RowsCurrent
      /\ UNCHANGED <<known, id, count, maxid, old2new, newMax, cur, oldKnown, oldId>>
      /\ cache' = Append(cache, feature) /\ fired' = Append(fired, firing)
      /\ feature' = <<>> /\ firing' = <<>>
  BY DEF IInv, AddRow, loopVars, oldVars, dicVars
<1>1. /\ cache \in Seq(Seq(Int)) /\ fired \in Seq(Seq(Key))
      /\ feature \in Seq(Int) /\ firing \in Seq(Key)
      /\ Len(fired) = Len(cache)
  BY <1>0 DEF TypeOK
<1>2. /\ cache' \in Seq(Seq(Int)) /\ fired' \in Seq(Seq(Key))
      /\ Len(fired') = Len(cache') /\ Len(cache') = Len(cache) + 1
      /\ DOMAIN cache' = DOMAIN cache \cup {Len(cache) + 1}
      /\ DOMAIN fired' = DOMAIN cache'
      /\ cache'[Len(cache) + 1] = feature /\ fired'[Len(cache) + 1] = firing
      /\ \A r \in DOMAIN cache : cache'[r] = cache[r] /\ fired'[r] = fired[r]
  BY <1>0, <1>1
<1>3. /\ firing \in Seq(known) /\ feature = Numbers(firing, known, id)
      /\ fired \in Seq(Seq(known))
      /\ cur = 1 /\ newMax = 0 /\ old2new = {}
  BY <1>0, <1>1 DEF Reading
<1>4. TypeOK'
  BY <1>0, <1>2 DEF TypeOK
<1>5. Reading'
  <2>1. fired' \in Seq(Seq(known)) /\ firing' \in Seq(known)
    BY <1>0, <1>3
  <2>2. feature' = Numbers(firing', known, id)
    BY <1>0 DEF Numbers
  <2> QED BY <1>0, <1>3, <2>1, <2>2 DEF Reading
<1>6. RowsCurrent'
  <2>1. \A r \in DOMAIN cache : cache[r] = Numbers(fired[r], known, id)
    BY <1>0 DEF RowsCurrent, Stable
  <2> QED BY <1>0, <1>2, <1>3, <2>1 DEF RowsCurrent
<1>7. WeightsTiled' /\ Old' /\ Renumbered' /\ Rows'
  BY <1>0 DEF WeightsTiled, Stable, Old, Renumbered, Rows
<1> QED BY <1>4, <1>5, <1>6, <1>7 DEF IInv

LEMMA ShrinkStep == ASSUME IInv, Shrink PROVE IInv'
<1> USE DictionaryAssumption
<1>0. /\ TypeOK /\ Reading /\ phase = "read" /\ phase' \in {"keys", "train"}
      /\ WeightsTiled /\ RowsCurrent
      /\ UNCHANGED <<known, id, count, maxid, cache, feature, fired, firing>>
      /\ UNCHANGED <<old2new, newMax, cur>>
      /\ oldKnown' = known /\ oldId' = id
  BY DEF IInv, Shrink, loopVars, dicVars, rowVars
<1>1. /\ Apart(known, id) /\ Below(known, id, maxid) /\ Owned(known, id, maxid)
      /\ \A r \in DOMAIN cache : cache[r] = Numbers(fired[r], known, id)
      /\ fired \in Seq(Seq(known))
      /\ cur = 1 /\ newMax = 0 /\ old2new = {}
  BY <1>0 DEF WeightsTiled, RowsCurrent, Stable, Reading, TypeOK
<1>2. TypeOK'
  BY <1>0 DEF TypeOK
<1>3. WeightsTiled' /\ RowsCurrent' /\ Reading'
  BY <1>0, <1>1 DEF WeightsTiled, RowsCurrent, Reading
<1>4. Old'
  BY <1>0, <1>1 DEF Old, TypeOK
<1>5. Renumbered'
  <2> SUFFICES ASSUME phase' = "keys" PROVE Renumbered'
    BY <1>0 DEF Renumbered
  <2>1. Done' = {}
    <3>1. \A p \in known : ~(p < 1)
      BY <1>0 DEF TypeOK, Key
    <3>2. Done' = {p \in known : p < 1}
      BY <1>0, <1>1 DEF Done
    <3> QED BY <3>1, <3>2
  <2> QED BY <1>0, <1>1, <2>1 DEF Renumbered, Apart, Below, Owned
<1>6. Rows'
  <2>1. \A r \in DOMAIN cache : ~(r < 1)
    BY <1>0 DEF TypeOK
  <2> QED BY <1>0, <1>1, <2>1 DEF Rows, RowDone
<1> QED BY <1>2, <1>3, <1>4, <1>5, <1>6 DEF IInv

LEMMA ShrinkKeyStep == ASSUME IInv, ShrinkKey PROVE IInv'
<1> USE DictionaryAssumption
<1>0. /\ TypeOK /\ Old /\ Renumbered /\ Rows /\ phase = "keys" /\ phase' = "keys"
      /\ UNCHANGED <<count, maxid, cache, feature, fired, firing, oldKnown, oldId>>
      /\ cur \in Key /\ cur' = cur + 1
  BY DEF IInv, ShrinkKey, oldVars, rowVars, TypeOK, Key
<1>1. /\ known \subseteq oldKnown /\ oldKnown \subseteq Key
      /\ oldId \in [Key -> Nat] /\ Apart(oldKnown, oldId)
      /\ fired \in Seq(Seq(oldKnown))
      /\ known \subseteq Key /\ id \in [Key -> Nat] /\ newMax \in Nat
      /\ cur \in Nat
  BY <1>0 DEF Old, TypeOK
<1>2. /\ Apart(Done, id) /\ Below(Done, id, newMax) /\ Owned(Done, id, newMax)
      /\ old2new = {<<oldId[p], id[p]>> : p \in Done}
      /\ \A p \in Key : p >= cur => (p \in known <=> p \in oldKnown) /\ id[p] = oldId[p]
  BY <1>0 DEF Renumbered
<1>3. Done = {p \in known : p < cur} /\ Done' = {p \in known' : p < cur + 1}
  BY <1>0 DEF Done
<1>4. cur \notin Done /\ Done \subseteq Key
  BY <1>1, <1>3
<1>5. /\ known' \subseteq known
      /\ id' \in [Key -> Nat] /\ newMax' \in Nat
      /\ \A p \in Key : p # cur => id'[p] = id[p]
      /\ \A p \in Key : p # cur => (p \in known' <=> p \in known)
      /\ Apart(Done', id') /\ Below(Done', id', newMax') /\ Owned(Done', id', newMax')
      /\ old2new' = {<<oldId[p], id'[p]>> : p \in Done'}
  <2>1. CASE cur \in known /\ count[cur] >= Freq
    <3>1. /\ old2new' = old2new \cup {<<id[cur], newMax>>}
          /\ id' = [id EXCEPT ![cur] = newMax]
          /\ newMax' = newMax + Width(cur)
          /\ UNCHANGED known
      BY <2>1 DEF ShrinkKey
    <3>2. Done' = Done \cup {cur}
      <4>1. \A p \in known : p \in Nat
        BY <1>1 DEF Key
      <4>2. \A p \in known : p < cur + 1 <=> p < cur \/ p = cur
        BY <1>1, <4>1
      <4>3. \A p : p \in Done' <=> p \in Done \/ p = cur
        BY <1>1, <1>3, <2>1, <3>1, <4>2
      <4> QED BY <4>3
    <3>3. /\ id' \in [Key -> Nat] /\ newMax' \in Nat
          /\ Apart(Done', id') /\ Below(Done', id', newMax')
          /\ Owned(Done', id', newMax')
          /\ \A p \in Done : id'[p] = id[p]
      BY <1>0, <1>1, <1>2, <1>4, <3>1, <3>2, AppendBlock
    <3>4. id'[cur] = newMax /\ id[cur] = oldId[cur]
      BY <1>0, <1>1, <1>2, <3>1
    <3>5. old2new' = {<<oldId[p], id'[p]>> : p \in Done'}
      BY <1>2, <3>1, <3>2, <3>3, <3>4
    <3>6. \A p \in Key : p # cur => id'[p] = id[p]
      BY <1>1, <3>1
    <3> QED BY <3>1, <3>3, <3>5, <3>6
  <2>2. CASE ~(cur \in known /\ count[cur] >= Freq)
    <3>1. known' = known \ {cur} /\ UNCHANGED <<id, old2new, newMax>>
      BY <2>2 DEF ShrinkKey
    <3>2. Done' = Done
      <4>1. \A p \in known : p \in Nat
        BY <1>1 DEF Key
      <4>2. \A p \in known : p # cur => (p < cur + 1 <=> p < cur)
        BY <1>1, <4>1
      <4>3. \A p : p \in Done' <=> p \in Done
        BY <1>1, <1>3, <3>1, <4>2
      <4> QED BY <4>3
    <3> QED BY <1>1, <1>2, <3>1, <3>2
  <2> QED BY <2>1, <2>2
<1>6. TypeOK'
  <2>1. old2new' \subseteq Nat \X Nat
    BY <1>1, <1>3, <1>5
  <2> QED BY <1>0, <1>1, <1>5, <2>1 DEF TypeOK
<1>7. Reading' /\ WeightsTiled' /\ RowsCurrent'
  BY <1>0 DEF Reading, WeightsTiled, RowsCurrent, Stable
<1>8. Old'
  BY <1>0, <1>1, <1>5 DEF Old
<1>9. Renumbered'
  <2>1. \A p \in Key : p >= cur + 1 => p # cur /\ p >= cur
    BY <1>1 DEF Key
  <2>2. \A p \in Key : p >= cur + 1 =>
          (p \in known' <=> p \in oldKnown) /\ id'[p] = oldId[p]
    BY <1>2, <1>5, <2>1
  <2> QED BY <1>0, <1>5, <2>2 DEF Renumbered
<1>10. Rows'
  BY <1>0 DEF Rows, RowDone
<1> QED BY <1>6, <1>7, <1>8, <1>9, <1>10 DEF IInv

LEMMA KeysDoneStep == ASSUME IInv, KeysDone PROVE IInv'
<1> USE DictionaryAssumption
<1>0. /\ TypeOK /\ Old /\ Renumbered /\ Rows /\ phase = "keys" /\ phase' = "rows"
      /\ UNCHANGED <<known, id, count, maxid, cache, feature, fired, firing>>
      /\ UNCHANGED <<old2new, newMax, oldKnown, oldId>>
      /\ cur > K /\ cur' = 1
  BY DEF IInv, KeysDone, oldVars, rowVars, dicVars
<1>1. Done' = Done
  <2>1. \A p \in known : p < cur
    BY <1>0 DEF TypeOK, Key
  <2> QED BY <1>0, <2>1 DEF Done
<1>2. TypeOK'
  BY <1>0 DEF TypeOK
<1>3. Reading' /\ WeightsTiled' /\ RowsCurrent'
  BY <1>0 DEF Reading, WeightsTiled, RowsCurrent, Stable
<1>4. Old'
  BY <1>0 DEF Old
<1>5. Renumbered'
  BY <1>0, <1>1 DEF Renumbered
<1>6. Rows'
  <2>1. \A r \in DOMAIN cache : ~(r < 1)
    BY <1>0 DEF TypeOK
  <2> QED BY <1>0, <2>1 DEF Rows, RowDone
<1> QED BY <1>2, <1>3, <1>4, <1>5, <1>6 DEF IInv

(* The heart of the matter: translating a row of old numbers gives exactly *)
(* the new numbers of the features that survive.                           *)
LEMMA ShrinkRowStep == ASSUME IInv, ShrinkRow PROVE IInv'
<1> USE DictionaryAssumption
<1>0. /\ TypeOK /\ Old /\ Renumbered /\ Rows /\ phase = "rows" /\ phase' = "rows"
      /\ UNCHANGED <<known, id, count, maxid, feature, fired, firing>>
      /\ UNCHANGED <<old2new, newMax, oldKnown, oldId>>
      /\ cur' = cur + 1 /\ cur <= Len(cache) /\ cur \in Nat \ {0}
      /\ cache' = [cache EXCEPT ![cur] = Renumber(@)]
  BY DEF IInv, ShrinkRow, oldVars, rowVars, dicVars, TypeOK
<1>1. /\ cache \in Seq(Seq(Int)) /\ cur \in DOMAIN cache
      /\ DOMAIN fired = DOMAIN cache
      /\ id \in [Key -> Nat] /\ known \subseteq Key
  BY <1>0 DEF TypeOK
<1>2. Done = known /\ Done' = known
  BY <1>0 DEF Done
<1>3. /\ old2new = {<<oldId[p], id[p]>> : p \in known}
      /\ cache[cur] = Numbers(fired[cur], oldKnown, oldId)
      /\ fired[cur] \in Seq(oldKnown) /\ known \subseteq oldKnown
      /\ oldKnown \subseteq Key /\ oldId \in [Key -> Nat] /\ Apart(oldKnown, oldId)
  BY <1>0, <1>1, <1>2 DEF Renumbered, Rows, RowDone, Old
<1>4. \A p, q \in oldKnown : oldId[p] = oldId[q] => p = q
  BY <1>3, WidthType DEF Apart
<1>5. Renumber(cache[cur]) = Numbers(fired[cur], known, id)
  <2> DEFINE row == cache[cur]
             keys == fired[cur]
  <2>1. /\ DOMAIN row = DOMAIN keys
        /\ \A k \in DOMAIN keys : keys[k] \in oldKnown /\ row[k] = oldId[keys[k]]
    BY <1>3 DEF Numbers
  <2>2. ASSUME NEW k \in DOMAIN keys, keys[k] \in known
        PROVE  /\ \E q \in old2new : q[1] = row[k]
               /\ (CHOOSE q \in old2new : q[1] = row[k])[2] = id[keys[k]]
    <3>1. <<oldId[keys[k]], id[keys[k]]>> \in old2new
      BY <1>3, <2>2
    <3>2. ASSUME NEW q \in old2new, q[1] = row[k]
          PROVE  q[2] = id[keys[k]]
      <4>1. PICK p \in known : q = <<oldId[p], id[p]>>
        BY <1>3
      <4>2. p = keys[k]
        BY <1>3, <1>4, <2>1, <2>2, <3>2, <4>1
      <4> QED BY <4>1, <4>2
    <3>3. \E q \in old2new : q[1] = row[k]
      BY <2>1, <3>1
    <3> QED BY <3>2, <3>3
  <2>3. ASSUME NEW k \in DOMAIN keys, keys[k] \notin known
        PROVE  ~\E q \in old2new : q[1] = row[k]
    <3> SUFFICES ASSUME NEW q \in old2new, q[1] = row[k] PROVE FALSE
      OBVIOUS
    <3>1. PICK p \in known : q = <<oldId[p], id[p]>>
      BY <1>3
    <3>2. p = keys[k]
      BY <1>3, <1>4, <2>1, <3>1
    <3> QED BY <2>3, <3>1, <3>2
  <2> HIDE DEF row, keys
  <2>4. \A k \in DOMAIN keys :
          (IF \E q \in old2new : q[1] = row[k]
           THEN (CHOOSE q \in old2new : q[1] = row[k])[2] ELSE Gone)
          = IF keys[k] \in known THEN id[keys[k]] ELSE Gone
    BY <2>2, <2>3
  <2>5. Renumber(row) = Numbers(keys, known, id)
    BY <2>1, <2>4 DEF Renumber, Numbers
  <2> QED BY <2>5 DEF row, keys
<1>6. /\ cache' \in Seq(Seq(Int)) /\ Len(cache') = Len(cache)
      /\ DOMAIN cache' = DOMAIN cache
      /\ cache'[cur] = Numbers(fired[cur], known, id)
      /\ \A r \in DOMAIN cache : r # cur => cache'[r] = cache[r]
  <2>1. fired[cur] \in Seq(Key)
    BY <1>0, <1>1 DEF TypeOK
  <2>2. Renumber(cache[cur]) \in Seq(Int)
    BY <1>1, <1>5, <2>1, NumbersType
  <2> QED BY <1>0, <1>1, <1>5, <2>2
<1>7. TypeOK'
  BY <1>0, <1>6 DEF TypeOK
<1>8. Reading' /\ WeightsTiled' /\ RowsCurrent'
  BY <1>0 DEF Reading, WeightsTiled, RowsCurrent, Stable
<1>9. Old'
  BY <1>0 DEF Old
<1>10. Renumbered'
  BY <1>0, <1>2 DEF Renumbered
<1>11. Rows'
  <2> DEFINE New(r) == Numbers(fired[r], known, id)
             Was(r) == Numbers(fired[r], oldKnown, oldId)
  <2>1. \A r \in DOMAIN cache : cache[r] = IF r < cur THEN New(r) ELSE Was(r)
    BY <1>0 DEF Rows, RowDone
  <2>2. cache'[cur] = New(cur)
    BY <1>6
  <2>3. Rows' <=> \A r \in DOMAIN cache' :
                    cache'[r] = IF r < cur + 1 THEN New(r) ELSE Was(r)
    BY <1>0 DEF Rows, RowDone
  <2> HIDE DEF New, Was
  <2>4. \A r \in DOMAIN cache : r # cur => (r < cur + 1 <=> r < cur)
    BY <1>0, <1>1
  <2>5. cur < cur + 1
    BY <1>0
  <2> QED BY <1>6, <2>1, <2>2, <2>3, <2>4, <2>5
<1> QED BY <1>7, <1>8, <1>9, <1>10, <1>11 DEF IInv

LEMMA RowsDoneStep == ASSUME IInv, RowsDone PROVE IInv'
<1> USE DictionaryAssumption
<1>0. /\ TypeOK /\ Renumbered /\ Rows /\ phase = "rows" /\ phase' = "train"
      /\ UNCHANGED <<known, id, count, cache, feature, fired, firing>>
      /\ UNCHANGED <<old2new, newMax, cur, oldKnown, oldId>>
      /\ maxid' = newMax /\ cur > Len(cache)
  BY DEF IInv, RowsDone, oldVars, rowVars, loopVars
<1>1. TypeOK'
  BY <1>0 DEF TypeOK
<1>2. Reading' /\ Old' /\ Renumbered' /\ Rows'
  BY <1>0 DEF Reading, Old, Renumbered, Rows
<1>3. WeightsTiled'
  <2>1. Done = known
    BY <1>0 DEF Done
  <2> QED BY <1>0, <2>1 DEF Renumbered, WeightsTiled
<1>4. RowsCurrent'
  <2>1. \A r \in DOMAIN cache : r < cur
    BY <1>0 DEF TypeOK
  <2> QED BY <1>0, <2>1 DEF Rows, RowDone, RowsCurrent
<1> QED BY <1>1, <1>2, <1>3, <1>4 DEF IInv
-----------------------------------------------------------------------------
(* Every reachable state satisfies the strengthened invariant.             *)
THEOREM Inductive == Spec => []IInv
<1>1. IInv /\ [Next]_vars => IInv'
  <2> SUFFICES ASSUME IInv, [Next]_vars PROVE IInv'
    OBVIOUS
  <2>1. CASE UNCHANGED vars
    BY <2>1 DEF vars, dicVars, rowVars, loopVars, oldVars, IInv, TypeOK, Reading,
       Old, Renumbered, Rows, WeightsTiled, RowsCurrent, Done, RowDone, Stable,
       Apart, Below, Owned
  <2> QED BY <2>1, GetIDStep, AddRowStep, ShrinkStep, ShrinkKeyStep,
             KeysDoneStep, ShrinkRowStep, RowsDoneStep DEF Next, Train
<1> QED BY InitIInv, <1>1, PTL DEF Spec

(* The blocks of weights tile alpha (feature_index.cpp 110-125, 254-279).  *)
THEOREM WeightsAlwaysTiled == Spec => []WeightsTiled
<1>1. IInv => WeightsTiled
  BY DEF IInv
<1> QED BY <1>1, Inductive, PTL

(* Every row of the cache names the weights of its own features, before    *)
(* and after shrink() (feature_cache.cpp 20-33).                           *)
THEOREM RowsAlwaysCurrent == Spec => []RowsCurrent
<1>1. IInv => RowsCurrent
  BY DEF IInv
<1> QED BY <1>1, Inductive, PTL
-----------------------------------------------------------------------------
(* The occurrences of a feature can be counted.                            *)
LEMMA SeenFinite ==
  ASSUME TypeOK, NEW p \in Key
  PROVE  IsFiniteSet(Seen(p)) /\ Cardinality(Seen(p)) \in Nat
<1>1. Len(AllRows) \in Nat /\ MaxFires \in Nat
  BY DictionaryAssumption DEF TypeOK, AllRows
<1>2. IsFiniteSet(1..Len(AllRows)) /\ IsFiniteSet(1..MaxFires)
  BY <1>1, FS_Interval
<1>3. IsFiniteSet((1..Len(AllRows)) \X (1..MaxFires))
  BY <1>2, FS_Product
<1>4. IsFiniteSet(Seen(p))
  BY <1>3, FS_Subset DEF Seen
<1> QED BY <1>4, FS_CardinalityType

(* A feature that is in none of the rows was seen 0 times.                 *)
LEMMA Unseen ==
  ASSUME NEW p \in Key, NEW S, p \notin S, fired \in Seq(Seq(S)), firing \in Seq(S)
  PROVE  Seen(p) = {} /\ Cardinality(Seen(p)) = 0
<1>1. AllRows \in Seq(Seq(S))
  BY DEF AllRows
<1>2. Seen(p) = {}
  <2> SUFFICES ASSUME NEW x \in Seen(p) PROVE FALSE
    OBVIOUS
  <2>1. /\ x[1] \in 1..Len(AllRows) /\ x[2] \in DOMAIN AllRows[x[1]]
        /\ AllRows[x[1]][x[2]] = p
    BY DEF Seen
  <2>2. AllRows[x[1]] \in Seq(S)
    BY <1>1, <2>1
  <2> QED BY <2>1, <2>2
<1> QED BY <1>2, FS_EmptySet

(* Every step keeps the counts equal to what the rows say.                 *)
LEMMA CountsStep == ASSUME IInv, Counts, [Next]_vars PROVE Counts'
<1> USE DictionaryAssumption
<1>0. TypeOK /\ Reading
  BY DEF IInv
<1>1. ASSUME NEW key \in Key, GetID(key) PROVE Counts'
  <2>1. /\ fired' = fired /\ firing' = Append(firing, key)
        /\ Len(firing) + 1 \in 1..MaxFires
        /\ phase = "read" /\ count \in [Key -> Nat]
        /\ fired \in Seq(Seq(Key)) /\ firing \in Seq(Key)
    BY <1>0, <1>1 DEF GetID, TypeOK
  <2> DEFINE n == Len(fired) + 1
             m == Len(firing) + 1
  <2>2. /\ n \in Nat /\ m \in 1..MaxFires
        /\ AllRows = Append(fired, firing) /\ AllRows' = Append(fired, Append(firing, key))
        /\ Len(AllRows) = n /\ Len(AllRows') = n
        /\ AllRows[n] = firing /\ AllRows'[n] = Append(firing, key)
        /\ \A r \in 1..n : r # n => AllRows'[r] = AllRows[r]
    BY <2>1 DEF AllRows
  <2>3. /\ DOMAIN Append(firing, key) = DOMAIN firing \cup {m} /\ m \notin DOMAIN firing
        /\ Append(firing, key)[m] = key
        /\ \A k \in DOMAIN firing : Append(firing, key)[k] = firing[k]
    BY <2>1
  <2>4. ASSUME NEW p \in Key
        PROVE  Seen(p)' = IF p = key THEN Seen(p) \cup {<<n, m>>} ELSE Seen(p)
    <3> DEFINE In(A, x) == x[2] \in DOMAIN A[x[1]] /\ A[x[1]][x[2]] = p
    <3>1. ASSUME NEW x \in (1..n) \X (1..MaxFires)
          PROVE  In(AllRows', x) <=> In(AllRows, x) \/ (p = key /\ x = <<n, m>>)
      <4>1. CASE x[1] # n
        BY <2>2, <4>1
      <4>2. CASE x[1] = n /\ x[2] # m
        BY <2>2, <2>3, <4>2
      <4>3. CASE x[1] = n /\ x[2] = m
        <5>1. x = <<n, m>>
          BY <4>3
        <5> QED BY <2>2, <2>3, <4>3, <5>1
      <4> QED BY <4>1, <4>2, <4>3
    <3>2. Seen(p) = {x \in (1..n) \X (1..MaxFires) : In(AllRows, x)}
      BY <2>2 DEF Seen
    <3>3. Seen(p)' = {x \in (1..n) \X (1..MaxFires) : In(AllRows', x)}
      BY <2>2 DEF Seen
    <3>4. <<n, m>> \in (1..n) \X (1..MaxFires)
      BY <2>2
    <3> HIDE DEF In, n, m
    <3> QED BY <3>1, <3>2, <3>3, <3>4
  <2>5. <<n, m>> \notin Seen(key)
    BY <2>2, <2>3 DEF Seen
  <2>6. \A p \in Key : IsFiniteSet(Seen(p)) /\ Cardinality(Seen(p)) \in Nat
    BY <1>0, SeenFinite
  <2> HIDE DEF n, m
  <2>7. Cardinality(Seen(key) \cup {<<n, m>>}) = Cardinality(Seen(key)) + 1
    BY <2>5, <2>6, FS_AddElement
  <2>8. count'[key] = count[key] + 1
    <3>1. CASE key \in known
      BY <1>1, <2>1, <3>1 DEF GetID
    <3>2. CASE key \notin known
      <4>1. Cardinality(Seen(key)) = 0
        BY <1>0, <2>1, <3>2, Unseen DEF Reading
      <4>2. count[key] = 0
        BY <2>1, <4>1 DEF Counts
      <4>3. count'[key] = 1
        BY <1>1, <2>1, <3>2 DEF GetID
      <4> QED BY <4>2, <4>3
    <3> QED BY <3>1, <3>2
  <2>9. \A p \in Key : p # key => count'[p] = count[p]
    BY <1>1, <2>1 DEF GetID
  <2>10. ASSUME NEW p \in Key PROVE count'[p] = Cardinality(Seen(p)')
    <3>1. CASE p = key
      BY <2>4, <2>7, <2>8, <3>1 DEF Counts
    <3>2. CASE p # key
      BY <2>4, <2>9, <3>2 DEF Counts
    <3> QED BY <3>1, <3>2
  <2> QED BY <2>10 DEF Counts
<1>2. CASE AddRow
  <2>1. /\ count' = count /\ firing' = <<>>
        /\ fired \in Seq(Seq(Key)) /\ firing \in Seq(Key)
        /\ fired' = Append(fired, firing)
    BY <1>0, <1>2 DEF AddRow, TypeOK, dicVars
  <2> DEFINE n == Len(fired) + 1
  <2>2. /\ n \in Nat /\ AllRows \in Seq(Seq(Key)) /\ Len(AllRows) = n
        /\ AllRows' = Append(AllRows, <<>>) /\ Len(AllRows') = n + 1
        /\ AllRows'[n + 1] = <<>> /\ \A r \in 1..n : AllRows'[r] = AllRows[r]
    BY <2>1 DEF AllRows
  <2> HIDE DEF n
  <2>3. ASSUME NEW p \in Key PROVE Seen(p)' = Seen(p)
    <3> DEFINE In(A, x) == x[2] \in DOMAIN A[x[1]] /\ A[x[1]][x[2]] = p
    <3>1. Seen(p) = {x \in (1..n) \X (1..MaxFires) : In(AllRows, x)}
      BY <2>2 DEF Seen
    <3>2. Seen(p)' = {x \in (1..n+1) \X (1..MaxFires) : In(AllRows', x)}
      BY <2>2 DEF Seen
    <3>3. \A x \in (1..n+1) \X (1..MaxFires) :
            In(AllRows', x) <=> x \in (1..n) \X (1..MaxFires) /\ In(AllRows, x)
      BY <2>2
    <3>4. \A x \in (1..n) \X (1..MaxFires) : x \in (1..n+1) \X (1..MaxFires)
      BY <2>2
    <3> HIDE DEF In
    <3> QED BY <3>1, <3>2, <3>3, <3>4
  <2> QED BY <2>1, <2>3 DEF Counts
<1>3. CASE UNCHANGED <<count, fired, firing>>
  BY <1>3 DEF Counts, Seen, AllRows
<1>4. Shrink \/ ShrinkKey \/ KeysDone \/ ShrinkRow \/ RowsDone \/ Train \/ UNCHANGED vars
        => UNCHANGED <<count, fired, firing>>
  BY DEF Shrink, ShrinkKey, KeysDone, ShrinkRow, RowsDone, Train, vars, dicVars, rowVars
<1> QED BY <1>1, <1>2, <1>3, <1>4 DEF Next

(* Every step keeps what shrink() has decided.                             *)
LEMMA DecidedStep == ASSUME IInv, Counts, Decided, [Next]_vars PROVE Decided'
<1> USE DictionaryAssumption
<1>0. TypeOK /\ Reading /\ Old /\ Renumbered
  BY DEF IInv
<1>1. CASE phase' = "read"
  BY <1>1 DEF Decided
<1>2. CASE phase' # "read"
  <2>1. UNCHANGED <<fired, firing, count>>
    BY <1>2 DEF Next, GetID, AddRow, Shrink, ShrinkKey, KeysDone, ShrinkRow, RowsDone, Train,
       vars, dicVars, rowVars
  <2>2. \A p \in Key : Seen(p)' = Seen(p)
    BY <2>1 DEF Seen, AllRows
  <2>3. CASE Shrink
    BY <2>1, <2>3, <1>0 DEF Shrink, Decided, Reading, Key, loopVars
  <2>4. CASE ShrinkKey
    <3>1. /\ phase = "keys" /\ phase' = "keys" /\ cur' = cur + 1 /\ cur \in Key
          /\ cur \in Nat /\ count \in [Key -> Nat] /\ K \in Nat
          /\ known' = IF cur \in known /\ count[cur] >= Freq THEN known ELSE known \ {cur}
      BY <1>0, <2>4 DEF ShrinkKey, TypeOK, Key
    <3>2. SUFFICES ASSUME Freq > 1
                   PROVE  \A p \in Key : p < cur + 1 =>
                            (p \in known' <=> Cardinality(Seen(p)) >= Freq)
      BY <2>1, <2>2, <3>1 DEF Decided
    <3>3. firing = <<>>
      BY <3>1, <3>2 DEF Decided
    <3>4. count[cur] = Cardinality(Seen(cur))
      BY <3>1 DEF Counts
    <3>5. cur \notin known => Cardinality(Seen(cur)) = 0
      <4> HAVE cur \notin known
      <4>1. cur \notin oldKnown
        BY <1>0, <3>1 DEF Renumbered
      <4>2. fired \in Seq(Seq(oldKnown)) /\ firing \in Seq(oldKnown)
        BY <1>0, <3>1, <3>3 DEF Old
      <4> QED BY <3>1, <4>1, <4>2, Unseen
    <3>6. cur \in known' <=> Cardinality(Seen(cur)) >= Freq
      BY <3>1, <3>2, <3>4, <3>5
    <3>7. \A p \in Key : p < cur + 1 => p = cur \/ p < cur
      BY <3>1 DEF Key
    <3>8. \A p \in Key : p < cur => (p \in known' <=> Cardinality(Seen(p)) >= Freq)
      BY <3>1, <3>2 DEF Decided
    <3> QED BY <3>6, <3>7, <3>8
  <2>5. CASE KeysDone
    <3>1. \A p \in Key : p < cur
      BY <1>0, <2>5 DEF KeysDone, TypeOK, Key
    <3> QED BY <2>1, <2>2, <2>5, <3>1 DEF KeysDone, Decided, dicVars
  <2>6. CASE ShrinkRow \/ RowsDone
    BY <2>1, <2>2, <2>6 DEF ShrinkRow, RowsDone, Decided, dicVars
  <2>7. CASE Train \/ UNCHANGED vars
    BY <2>1, <2>2, <2>7 DEF Train, vars, dicVars, rowVars, loopVars, Decided
  <2> QED BY <1>2, <2>3, <2>4, <2>5, <2>6, <2>7 DEF Next, GetID, AddRow
<1> QED BY <1>1, <1>2

(* shrink() keeps exactly the features seen often enough, although it      *)
(* counts while reading and decides afterwards (feature_index.cpp 116,     *)
(* 262-271).                                                               *)
THEOREM FrequentAlwaysKept == Spec => []FrequentKept
<1>1. Init => Counts /\ Decided
  <2> SUFFICES ASSUME Init PROVE Counts /\ Decided
    OBVIOUS
  <2>1. \A p \in Key : Cardinality(Seen(p)) = 0
    <3>1. fired \in Seq(Seq({})) /\ firing \in Seq({})
      BY DEF Init
    <3> QED BY <3>1, Unseen
  <2> QED BY <2>1 DEF Init, Counts, Decided
<1>2. IInv /\ Counts /\ Decided /\ [Next]_vars => Counts' /\ Decided'
  BY CountsStep, DecidedStep
<1>3. IInv /\ Decided => FrequentKept
  BY DEF IInv, TypeOK, Decided, FrequentKept
<1> QED BY <1>1, <1>2, <1>3, Inductive, PTL DEF Spec
-----------------------------------------------------------------------------
(* The free lists.                                                         *)
(* Every reachable state satisfies the strengthened invariant.             *)
THEOREM CellsInductive == CellsSpec => []CellsInv
<1> USE SizeAssumption
<1>1. CellsInit => CellsInv
  BY DEF CellsInit, CellsInv, CellsTypeOK, RegionsSound, LiveDisjoint, LiveInBlocks,
         BeforeCursor, CursorInBlocks, Region
<1>2. CellsInv /\ [CellsNext]_cellsVars => CellsInv'
  <2> SUFFICES ASSUME CellsInv, [CellsNext]_cellsVars PROVE CellsInv'
    OBVIOUS
  <2> USE DEF CellsInv, CellsTypeOK
  <2>1. CASE LiveInBlocks /\ Free
    BY <2>1 DEF Free, RegionsSound, LiveDisjoint, LiveInBlocks, BeforeCursor,
         CursorInBlocks, Region
  <2>2. ASSUME NEW n \in Lens, LiveInBlocks, Alloc(n) PROVE CellsInv'
    <3> DEFINE b == NextBlock(n)
               c == NextCell(n)
               r == [block |-> b, off |-> c, len |-> n]
    <3>0. BeforeCursor /\ CursorInBlocks
      BY <2>2
    <3>1. /\ n \in Nat /\ 0 < n /\ Size \in Nat
          /\ b \in Nat /\ c \in Nat
          /\ c + n <= Size <=> n <= Size
          /\ b <= blocks \/ (n >= Size /\ b = 1 /\ blocks = 0)
          /\ n >= Size /\ blocks = 0 => b = 1
          /\ (b = li /\ c = pi) \/ (b = li + 1 /\ c = 0)
      BY <3>0 DEF NextBlock, NextCell, CursorInBlocks
    <3>2. /\ li' = b /\ pi' = c + n /\ live' = Append(live, r)
          /\ blocks' = IF b = blocks THEN blocks + 1 ELSE blocks
      BY <2>2 DEF Alloc
    <3>3. r \in Region
      BY <3>1 DEF Region
    <3> HIDE DEF b, c, r
    <3>4. CellsTypeOK'
      BY <3>1, <3>2, <3>3
    <3>k. PICK k \in Nat : k = Len(live) + 1
      OBVIOUS
    <3>5. /\ Len(live') = k
          /\ \A i \in DOMAIN live : live'[i] = live[i]
          /\ live'[k] = r
          /\ DOMAIN live' = DOMAIN live \cup {k}
      BY <3>2, <3>3, <3>k
    <3>6. r.block = b /\ r.off = c /\ r.len = n
      BY DEF r
    <3>7. \A i \in DOMAIN live : live[i].block \in Nat /\ live[i].off \in Nat
                                 /\ live[i].len \in Nat
      <4>1. \A i \in DOMAIN live : live[i] \in Region
        OBVIOUS
      <4>2. \A q \in Region : q.block \in Nat /\ q.off \in Nat /\ q.len \in Nat
        BY DEF Region
      <4> QED BY <4>1, <4>2
    <3>8. \A i \in DOMAIN live : ~Overlap(live[i], r) /\ ~Overlap(r, live[i])
      BY <3>0, <3>1, <3>6, <3>7 DEF Overlap, BeforeCursor
    <3>9. LiveDisjoint'
      BY <3>5, <3>8 DEF LiveDisjoint, RegionsSound
    <3>10. \A i \in DOMAIN live : InBlock(i)' /\ ~TooLong(i)'
      <4>1. \A i \in DOMAIN live : InBlock(i) /\ ~TooLong(i)
        BY <2>2 DEF LiveInBlocks, RegionsSound
      <4> QED BY <4>1, <3>2, <3>5, <3>7 DEF InBlock, TooLong
    <3>11. InBlock(k)' <=> ~TooLong(k)'
      <4>1. InBlock(k)' <=> b < blocks' /\ c + n <= Size
        BY <3>2, <3>5, <3>6 DEF InBlock
      <4>2. TooLong(k)' <=> n > Size \/ (n = Size /\ blocks' = 0)
        BY <3>2, <3>5, <3>6 DEF TooLong
      <4>3. b < blocks' /\ c + n <= Size <=> ~(n > Size \/ (n = Size /\ blocks' = 0))
        BY <3>1, <3>2
      <4> QED BY <4>1, <4>2, <4>3
    <3>12. RegionsSound'
      BY <3>5, <3>9, <3>10, <3>11 DEF RegionsSound
    <3>13. BeforeCursor'
      <4>1. li \in Nat /\ pi \in Nat /\ li' = b /\ pi' = c + n
        BY <3>2
      <4>2. \A i \in DOMAIN live :
              \/ live[i].block < b
              \/ live[i].block = b /\ live[i].off + live[i].len <= c + n
        BY <3>0, <3>1, <3>7, <4>1 DEF BeforeCursor
      <4>3. ASSUME NEW i \in DOMAIN live'
            PROVE  \/ live'[i].block < b
                   \/ live'[i].block = b /\ live'[i].off + live'[i].len <= c + n
        <5>1. CASE i = k
          <6>1. live'[i] = r
            BY <3>5, <5>1
          <6>2. r.off + r.len <= c + n /\ r.block = b
            BY <3>6, <3>1
          <6> QED BY <6>1, <6>2
        <5>2. CASE i \in DOMAIN live
          BY <3>5, <4>2, <5>2
        <5> QED BY <3>5, <5>1, <5>2
      <4> QED BY <4>1, <4>3 DEF BeforeCursor
    <3>14. LiveInBlocks' => CursorInBlocks'
      <4> HAVE LiveInBlocks'
      <4>1. b < blocks' /\ c + n <= Size
        BY <3>5, <3>6 DEF LiveInBlocks, InBlock
      <4> QED BY <4>1, <3>1, <3>2 DEF CursorInBlocks
    <3> QED BY <3>4, <3>12, <3>13, <3>14
  <2>3. CASE Lost \/ UNCHANGED cellsVars
    <3>1. UNCHANGED cellsVars
      BY <2>3 DEF Lost
    <3> QED BY <3>1 DEF cellsVars, RegionsSound, LiveDisjoint, LiveInBlocks, InBlock,
              TooLong, BeforeCursor, CursorInBlocks, Overlap
  <2> QED BY <2>1, <2>2, <2>3 DEF CellsNext
<1> QED BY <1>1, <1>2, PTL DEF CellsSpec

(* Nodes, paths and strings handed out since the last free() never share   *)
(* memory, whatever was asked for (freelist.h 37-48).                      *)
THEOREM RegionsDisjoint == CellsSpec => []LiveDisjoint
<1>1. CellsInv => LiveDisjoint
  BY DEF CellsInv, RegionsSound
<1> QED BY <1>1, CellsInductive, PTL

(* alloc() leaves its blocks for a request of more than a block, for one   *)
(* of a whole block when it is the first, and never else (freelist.h       *)
(* 37-48).                                                                 *)
THEOREM RegionsAlwaysSound == CellsSpec => []RegionsSound
<1>1. CellsInv => RegionsSound
  BY DEF CellsInv
<1> QED BY <1>1, CellsInductive, PTL
-----------------------------------------------------------------------------
(* Induction over the places of a sequence, from the order of Nat, and     *)
(* parts of sequences.                                                     *)
LEMMA Least ==
  ASSUME NEW T, T \subseteq Nat, T # {}
  PROVE  \E z \in T : \A y \in T : z <= y
<1>1. \E z \in T : \A y \in T : ~ (<<y, z>> \in OpToRel(<, Nat))
  BY WFMin, NatLessThanWellFounded
<1>2. PICK z \in T : \A y \in T : ~ (<<y, z>> \in OpToRel(<, Nat))
  BY <1>1
<1>3. \A y \in T : ~(y < z)
  BY <1>2 DEF OpToRel
<1>4. \A y \in T : y \in Int /\ z \in Int
  OBVIOUS
<1>5. \A y \in T : z <= y
  BY <1>3, <1>4
<1> QED BY <1>5

LEMMA LeastIs ==
  ASSUME NEW T, T \subseteq Nat, T # {}
  PROVE  DA!Min(T) \in T /\ \A y \in T : DA!Min(T) <= y
<1>1. \E z \in T : \A y \in T : z <= y
  BY Least
<1> QED BY <1>1 DEF DA!Min

LEMMA UpTo ==
  ASSUME NEW m \in Nat, NEW T, 0 \in T, \A i \in 0..m-1 : i \in T => i + 1 \in T
  PROVE  0..m \subseteq T
<1> SUFFICES ASSUME NEW k \in 0..m, k \notin T PROVE FALSE
  OBVIOUS
<1> DEFINE U == {i \in 0..m : i \notin T}
<1>1. U \subseteq Nat /\ U # {}
  OBVIOUS
<1>2. PICK z \in U : \A y \in U : z <= y
  BY <1>1, Least
<1>3. z # 0 /\ z - 1 \in 0..m-1 /\ z - 1 + 1 = z
  BY <1>2
<1>4. z - 1 \in T
  BY <1>2, <1>3
<1> QED BY <1>2, <1>3, <1>4

LEMMA SameWord ==
  ASSUME NEW S, NEW a \in Seq(S), NEW b \in Seq(S), Len(a) = Len(b),
         \A m \in 1 .. Len(a) : a[m] = b[m]
  PROVE  a = b
<1>1. a \in [1 .. Len(a) -> S] /\ b \in [1 .. Len(a) -> S]
  OBVIOUS
<1> QED BY <1>1

LEMMA SliceIs ==
  ASSUME NEW S, NEW c \in Seq(S), NEW a \in Nat, NEW b \in Nat, a <= b, b <= Len(c)
  PROVE  /\ SubSeq(c, a + 1, b) \in Seq(S) /\ Len(SubSeq(c, a + 1, b)) = b - a
         /\ \A i \in 1 .. b - a : SubSeq(c, a + 1, b)[i] = c[a + i]
<1>1. \A i \in a + 1 .. b : i \in 1 .. Len(c)
  OBVIOUS
<1>2. \A i \in 1 .. b - a : (a + 1) + i - 1 = a + i
  OBVIOUS
<1> QED BY <1>1, <1>2

(* Flattening a sequence of sequences.                                     *)
LEMMA FlatIs ==
  ASSUME NEW S, NEW d \in Seq(Seq(S))
  PROVE  \E a : /\ a[0] = <<>>
                /\ \A i \in 1 .. Len(d) : a[i] = a[i-1] \o d[i]
                /\ \A i \in 0 .. Len(d) : a[i] \in Seq(S)
                /\ Column!FlattenSeq(d) = a[Len(d)]
<1> DEFINE n == Len(d)
           Is(g, k) == g = [i \in 1 .. k |-> IF i = 1 THEN d[i] ELSE g[i-1] \o d[i]]
           T == {k \in Nat : k <= n => \E g : Is(g, k)}
           f == CHOOSE g : Is(g, n)
           a == [i \in 0 .. n |-> IF i = 0 THEN <<>> ELSE f[i]]
<1>1. n \in Nat /\ \A i \in 1 .. n : d[i] \in Seq(S)
  OBVIOUS
<1>2. Column!FlattenSeq(d) = IF n = 0 THEN d ELSE f[n]
  BY DEF Column!FlattenSeq
<1>3. 0 \in T
  <2>1. Is([i \in 1 .. 0 |-> <<>>], 0)
    OBVIOUS
  <2> QED BY <2>1
<1>4. ASSUME NEW k \in 0 .. n - 1, k \in T PROVE k + 1 \in T
  <2>0. k <= n
    BY <1>1
  <2>1. PICK g : Is(g, k)
    <3> HIDE DEF Is
    <3> QED BY <1>4, <2>0
  <2> DEFINE h == [i \in 1 .. k + 1 |-> IF i = k + 1 THEN (IF i = 1 THEN d[i] ELSE g[k] \o d[i]) ELSE g[i]]
  <2>2. k \in Nat /\ k + 1 \in Nat
    OBVIOUS
  <2>3. \A i \in 1 .. k : h[i] = g[i]
    BY <2>2
  <2>4. ASSUME NEW i \in 1 .. k + 1 PROVE h[i] = IF i = 1 THEN d[i] ELSE h[i-1] \o d[i]
    <3>1. CASE i = k + 1
      <4>1. h[i] = (IF i = 1 THEN d[i] ELSE g[k] \o d[i]) /\ i - 1 = k
        BY <2>2, <3>1
      <4>2. i # 1 => h[k] = g[k]
        BY <2>2, <2>3, <3>1
      <4> QED BY <4>1, <4>2
    <3>2. CASE i # k + 1
      <4>1. i \in 1 .. k /\ (i # 1 => i - 1 \in 1 .. k)
        BY <2>2, <3>2
      <4>2. h[i] = g[i] /\ (i # 1 => h[i-1] = g[i-1])
        BY <2>3, <4>1
      <4> QED BY <2>1, <4>1, <4>2
    <3> QED BY <3>1, <3>2
  <2>5. Is(h, k + 1)
    <3> DEFINE h2 == [i \in 1 .. k + 1 |-> IF i = 1 THEN d[i] ELSE h[i-1] \o d[i]]
    <3>1. \A i \in 1 .. k + 1 : h[i] = h2[i]
      BY <2>4
    <3>3. h = [i \in 1 .. k + 1 |-> h[i]] /\ h2 = [i \in 1 .. k + 1 |-> h2[i]]
      OBVIOUS
    <3> HIDE DEF h
    <3>4. h = h2
      BY <3>1, <3>3
    <3> QED BY <3>4
  <2> HIDE DEF h, Is
  <2> QED BY <2>2, <2>5
<1> HIDE DEF T
<1>5. n \in T
  <2>1. 0 .. n \subseteq T
    BY <1>1, <1>3, <1>4, UpTo
  <2> QED BY <1>1, <2>1
<1>6. \E g : Is(g, n)
  <2>1. n <= n
    BY <1>1
  <2> HIDE DEF Is
  <2> QED BY <1>5, <2>1 DEF T
<1>7. Is(f, n)
  BY <1>6
<1> HIDE DEF f
<1>8. \A i \in 1 .. n : f[i] = IF i = 1 THEN d[i] ELSE f[i-1] \o d[i]
  BY <1>7
<1>9. a[0] = <<>> /\ \A i \in 1 .. n : a[i] = f[i]
  BY <1>1
<1> HIDE DEF a
<1>10. ASSUME NEW i \in 1 .. n PROVE a[i] = a[i-1] \o d[i]
  <2>1. CASE i = 1
    <3>1. a[1] = d[1] /\ d[1] \in Seq(S) /\ i - 1 = 0 /\ i = 1
      BY <1>1, <1>8, <1>9, <2>1
    <3>2. d[1] = <<>> \o d[1]
      BY <3>1
    <3> QED BY <1>9, <3>1, <3>2
  <2>2. CASE i # 1
    <3>1. i - 1 \in 1 .. n
      BY <2>2
    <3> QED BY <1>8, <1>9, <2>2, <3>1
  <2> QED BY <2>1, <2>2
<1> DEFINE V == {i \in 0 .. n : a[i] \in Seq(S)}
<1>11. 0 \in V
  <2>1. <<>> \in Seq(S) /\ 0 \in 0 .. n
    BY <1>1
  <2> QED BY <1>9, <2>1
<1>12. ASSUME NEW i \in 0 .. n - 1, i \in V PROVE i + 1 \in V
  <2>1. i + 1 \in 1 .. n /\ (i + 1) - 1 = i
    BY <1>1
  <2>2. a[i+1] = a[i] \o d[i+1] /\ a[i] \in Seq(S) /\ d[i+1] \in Seq(S)
    BY <1>1, <1>10, <1>12, <2>1
  <2>3. a[i+1] \in Seq(S)
    BY <2>2
  <2> QED BY <1>1, <2>1, <2>3
<1>13. 0 .. n \subseteq V
  <2> HIDE DEF V
  <2> QED BY <1>1, <1>11, <1>12, UpTo
<1>14. Column!FlattenSeq(d) = a[n]
  <2>1. CASE n = 0
    <3>1. d = <<>>
      BY <2>1
    <3> QED BY <1>2, <1>9, <2>1, <3>1
  <2>2. CASE n # 0
    BY <1>1, <1>2, <1>9, <2>2
  <2> QED BY <2>1, <2>2
<1> QED BY <1>9, <1>10, <1>13, <1>14
-----------------------------------------------------------------------------
(* Templates.  What a run of digits spells, read by the code or not.       *)
AllDigits == {"0", "1", "2", "3", "4", "5", "6", "7", "8", "9"}

LEMMA DigitIs ==
  /\ \A c : Rule!IsDigit(c) <=> c \in AllDigits
  /\ \A c \in AllDigits : Rule!Digit(c) \in 0 .. 9
<1>1. /\ Rule!Digits[1] = "0" /\ Rule!Digits[2] = "1" /\ Rule!Digits[3] = "2" /\ Rule!Digits[4] = "3"
      /\ Rule!Digits[5] = "4" /\ Rule!Digits[6] = "5" /\ Rule!Digits[7] = "6" /\ Rule!Digits[8] = "7"
      /\ Rule!Digits[9] = "8" /\ Rule!Digits[10] = "9"
  BY DEF Rule!Digits
<1>2. 1 .. 10 = {1, 2, 3, 4, 5, 6, 7, 8, 9, 10}
  OBVIOUS
<1>3. \A c : Rule!IsDigit(c) <=> c \in AllDigits
  BY <1>1, <1>2 DEF Rule!IsDigit, AllDigits
<1>4. ASSUME NEW c \in AllDigits PROVE Rule!Digit(c) \in 0 .. 9
  <2> DEFINE d == CHOOSE d \in 1 .. 10 : Rule!Digits[d] = c
  <2>1. \E x \in 1 .. 10 : Rule!Digits[x] = c
    BY <1>3 DEF Rule!IsDigit
  <2>2. d \in 1 .. 10
    BY <2>1
  <2>3. Rule!Digit(c) = d - 1
    BY DEF Rule!Digit
  <2> HIDE DEF d
  <2> QED BY <2>2, <2>3
<1> QED BY <1>3, <1>4

LEMMA OtherChars ==
  \A c \in {"%", "x", "[", "-", ",", "]", "end"} : ~Rule!IsDigit(c)
BY DigitIs DEF AllDigits

LEMMA SpeltIs ==
  ASSUME NEW d \in Seq(AllDigits)
  PROVE  Number(d) = Rule!Spelt(d) /\ Number(d) \in Nat
<1> DEFINE m == Len(d)
           W(n, r) == 10 * r + Rule!Digit(d[n])
           Is(g, k) == g = [n \in 0 .. k |-> IF n = 0 THEN 0 ELSE W(n, g[n-1])]
           T == {k \in Nat : k <= m => \E g : Is(g, k)}
           a == CHOOSE g : Is(g, m)
<1>0. m \in Nat
  OBVIOUS
<1>1. Number(d) = a[m] /\ Rule!Spelt(d) = a[m]
  BY DEF Number, Rule!Spelt
<1>y. \A n \in 1 .. m : \A r \in Nat : W(n, r) \in Nat
  <2>1. \A n \in 1 .. m : d[n] \in AllDigits
    OBVIOUS
  <2>2. \A n \in 1 .. m : Rule!Digit(d[n]) \in Nat
    BY <2>1, DigitIs
  <2> QED BY <2>2
<1> HIDE DEF W
<1>2. 0 \in T
  <2>1. Is([n \in 0 .. 0 |-> 0], 0)
    OBVIOUS
  <2> QED BY <2>1
<1>3. ASSUME NEW k \in 0 .. m - 1, k \in T PROVE k + 1 \in T
  <2>1. PICK g : Is(g, k)
    BY <1>3
  <2> DEFINE h == [n \in 0 .. k + 1 |-> IF n = k + 1 THEN W(n, g[k]) ELSE g[n]]
  <2>2. k \in Nat /\ k + 1 \in Nat
    OBVIOUS
  <2>3. \A n \in 0 .. k : h[n] = g[n]
    BY <2>2
  <2>4. ASSUME NEW n \in 0 .. k + 1 PROVE h[n] = IF n = 0 THEN 0 ELSE W(n, h[n-1])
    <3>1. CASE n = k + 1
      <4>1. h[n] = W(n, g[k]) /\ n - 1 = k /\ h[k] = g[k] /\ n # 0
        BY <2>2, <2>3, <3>1
      <4> QED BY <3>1, <4>1
    <3>2. CASE n # k + 1 /\ n # 0
      <4>1. n \in 0 .. k /\ n - 1 \in 0 .. k
        BY <2>2, <3>2
      <4>2. h[n] = g[n] /\ h[n-1] = g[n-1]
        BY <2>3, <4>1
      <4> QED BY <2>1, <3>2, <4>1, <4>2
    <3>3. CASE n = 0
      <4>1. 0 \in 0 .. k /\ h[0] = g[0]
        BY <2>2, <2>3
      <4> QED BY <2>1, <3>3, <4>1
    <3> QED BY <3>1, <3>2, <3>3
  <2>5. Is(h, k + 1)
    <3> DEFINE h2 == [n \in 0 .. k + 1 |-> IF n = 0 THEN 0 ELSE W(n, h[n-1])]
    <3>1. \A n \in 0 .. k + 1 : h[n] = h2[n]
      BY <2>4
    <3>3. h = [n \in 0 .. k + 1 |-> h[n]] /\ h2 = [n \in 0 .. k + 1 |-> h2[n]]
      OBVIOUS
    <3> HIDE DEF h
    <3>4. h = h2
      BY <3>1, <3>3
    <3> QED BY <3>4
  <2> HIDE DEF h, Is
  <2> QED BY <2>2, <2>5
<1> HIDE DEF T
<1>4. m \in T
  <2>1. 0 .. m \subseteq T
    BY <1>0, <1>2, <1>3, UpTo
  <2> QED BY <1>0, <2>1
<1>5. \E g : Is(g, m)
  BY <1>4 DEF T
<1>6. Is(a, m)
  BY <1>5
<1> HIDE DEF a
<1>7. a[0] = 0 /\ \A n \in 1 .. m : a[n] = W(n, a[n-1])
  BY <1>0, <1>6
<1> DEFINE N == {n \in Nat : n <= m => a[n] \in Nat}
<1>8. 0 \in N
  BY <1>7
<1>9. ASSUME NEW n \in 0 .. m - 1, n \in N PROVE n + 1 \in N
  <2>1. n + 1 \in 1 .. m /\ (n + 1) - 1 = n /\ n <= m /\ n + 1 \in Nat
    BY <1>0
  <2>2. a[n+1] = W(n + 1, a[n])
    BY <1>7, <2>1
  <2>3. a[n+1] \in Nat
    BY <1>9, <1>y, <2>1, <2>2
  <2> QED BY <2>1, <2>3
<1> HIDE DEF N
<1>10. m \in N
  <2>1. 0 .. m \subseteq N
    BY <1>0, <1>8, <1>9, UpTo
  <2> QED BY <1>0, <2>1
<1>11. a[m] \in Nat
  BY <1>0, <1>10 DEF N
<1> QED BY <1>1, <1>11

(* Where digits end.                                                       *)
LEMMA AfterIs ==
  ASSUME NEW R, NEW t \in Seq(R), NEW p \in 1 .. Len(t) + 1
  PROVE  /\ Rule!AfterDigits(t, p) \in p .. Len(t) + 1
         /\ ~Rule!IsDigit(Rule!CharAt(t, Rule!AfterDigits(t, p)))
         /\ \A q \in p .. Rule!AfterDigits(t, p) - 1 : q \in 1 .. Len(t) /\ Rule!IsDigit(t[q])
<1> DEFINE S == {q \in p .. Len(t) + 1 : ~Rule!IsDigit(Rule!CharAt(t, q))}
           e == Rule!AfterDigits(t, p)
<1>1. Len(t) \in Nat /\ S \subseteq Nat
  OBVIOUS
<1>2. Len(t) + 1 \in S
  <2>1. Rule!CharAt(t, Len(t) + 1) = "end"
    BY <1>1 DEF Rule!CharAt, Rule!End
  <2>2. ~Rule!IsDigit(Rule!CharAt(t, Len(t) + 1))
    BY <2>1, OtherChars
  <2>3. Len(t) + 1 \in p .. Len(t) + 1
    BY <1>1
  <2> QED BY <2>2, <2>3
<1>3. e = DA!Min(S)
  BY DEF Rule!AfterDigits, Rule!Min, DA!Min
<1>4. e \in S /\ \A y \in S : e <= y
  <2> HIDE DEF e, S
  <2>1. S # {}
    BY <1>2
  <2> QED BY <1>1, <1>3, <2>1, LeastIs
<1>5. ASSUME NEW q \in p .. e - 1 PROVE q \in 1 .. Len(t) /\ Rule!IsDigit(t[q])
  <2> HIDE DEF e
  <2>1. q \in 1 .. Len(t) /\ q \in p .. Len(t) + 1 /\ ~(e <= q)
    BY <1>1, <1>4
  <2>2. q \notin S
    BY <1>4, <2>1
  <2>3. Rule!IsDigit(Rule!CharAt(t, q))
    BY <2>1, <2>2
  <2> QED BY <2>1, <2>3 DEF Rule!CharAt
<1> QED BY <1>4, <1>5

LEMMA AfterOnly ==
  ASSUME NEW R, NEW t \in Seq(R), NEW p \in 1 .. Len(t) + 1, NEW e \in p .. Len(t) + 1,
         ~Rule!IsDigit(Rule!CharAt(t, e)), \A q \in p .. e - 1 : Rule!IsDigit(t[q])
  PROVE  Rule!AfterDigits(t, p) = e
<1> DEFINE f == Rule!AfterDigits(t, p)
<1>1. Len(t) \in Nat
  OBVIOUS
<1>2. /\ f \in p .. Len(t) + 1 /\ ~Rule!IsDigit(Rule!CharAt(t, f))
      /\ \A q \in p .. f - 1 : q \in 1 .. Len(t) /\ Rule!IsDigit(t[q])
  BY AfterIs
<1> HIDE DEF f
<1>3. ASSUME e < f PROVE FALSE
  <2>1. e \in p .. f - 1
    BY <1>1, <1>2, <1>3
  <2>2. e \in 1 .. Len(t) /\ Rule!IsDigit(t[e])
    BY <1>2, <2>1
  <2>3. Rule!CharAt(t, e) = t[e]
    BY <2>2 DEF Rule!CharAt
  <2> QED BY <2>2, <2>3
<1>4. ASSUME f < e PROVE FALSE
  <2>1. f \in p .. e - 1 /\ f <= Len(t)
    BY <1>1, <1>2, <1>4
  <2>2. Rule!CharAt(t, f) = t[f]
    BY <2>1 DEF Rule!CharAt
  <2> QED BY <1>2, <2>1, <2>2
<1>5. e = f
  BY <1>1, <1>2, <1>3, <1>4
<1> QED BY <1>5 DEF f

(* Where getIndex stops, if it does not refuse; and what it has passed     *)
(* over if that is the end of the template.                                *)
Unclosed(t, p) == t[p] = "[" /\ \A j \in p .. Len(t) : t[j] \notin {"]", "%"}

(* The places of a macro: its digits r, their end m, the column c, its end. *)
PlacesAre(t, p, r, m, c, e) ==
  /\ r = p + 1 \/ (r = p + 2 /\ p + 1 <= Len(t) /\ t[p + 1] = "-")
  /\ m = Rule!AfterDigits(t, r)
  /\ c = m \/ (c = m + 1 /\ m <= Len(t) /\ t[m] = ",")
  /\ e = Rule!AfterDigits(t, c)

LEMMA PassedOver ==
  ASSUME NEW R, NEW t \in Seq(R), NEW p \in 1 .. Len(t), t[p] = "[",
         NEW r, NEW m, NEW c, NEW e, PlacesAre(t, p, r, m, c, e)
  PROVE  /\ e \in p + 1 .. Len(t) + 1
         /\ e = Len(t) + 1 => Unclosed(t, p)
<1>0. Len(t) \in Nat /\ p \in Int /\ 1 <= p /\ p <= Len(t)
  OBVIOUS
<1>p. /\ r = p + 1 \/ (r = p + 2 /\ p + 1 <= Len(t) /\ t[p + 1] = "-")
      /\ c = m \/ (c = m + 1 /\ m <= Len(t) /\ t[m] = ",")
  BY DEF PlacesAre
<1>q. r = p + 1 \/ (r = p + 2 /\ p + 1 <= Len(t))
  BY <1>p
<1>s. c = m \/ (c = m + 1 /\ m <= Len(t))
  BY <1>p
<1>1. r \in Int /\ (r = p + 1 \/ r = p + 2) /\ r <= Len(t) + 1
  BY <1>0, <1>q
<1>r. r \in 1 .. Len(t) + 1
  BY <1>0, <1>1
<1>2. m \in r .. Len(t) + 1 /\ \A q \in r .. m - 1 : Rule!IsDigit(t[q])
  BY <1>r, AfterIs DEF PlacesAre
<1>3. m \in Int /\ r <= m /\ m <= Len(t) + 1
  BY <1>0, <1>1, <1>2
<1>4. c \in Int /\ m <= c /\ c <= Len(t) + 1 /\ c <= m + 1
  BY <1>0, <1>3, <1>s
<1>c. c \in 1 .. Len(t) + 1
  BY <1>0, <1>1, <1>3, <1>4
<1>5. e \in c .. Len(t) + 1 /\ \A q \in c .. e - 1 : Rule!IsDigit(t[q])
  BY <1>c, AfterIs DEF PlacesAre
<1>6. e \in Int /\ c <= e /\ e <= Len(t) + 1
  BY <1>0, <1>4, <1>5
<1>7. e \in p + 1 .. Len(t) + 1
  BY <1>0, <1>1, <1>3, <1>4, <1>6
<1>8. ASSUME e = Len(t) + 1 PROVE Unclosed(t, p)
  <2>1. ASSUME NEW j \in p .. Len(t) PROVE t[j] \notin {"]", "%"}
    <3>0. j \in Int /\ p <= j /\ j <= Len(t)
      BY <1>0
    <3>1. CASE j < r
      <4>1. j = p \/ (j = p + 1 /\ r = p + 2)
        BY <1>0, <1>1, <3>0, <3>1
      <4>2. r = p + 2 => t[p + 1] = "-"
        <5>1. p + 1 # p + 2
          BY <1>0
        <5> QED BY <1>p, <5>1
      <4> QED BY <4>1, <4>2
    <3>2. CASE r <= j /\ j < m
      <4>1. j \in r .. m - 1
        BY <1>1, <1>3, <3>0, <3>2
      <4> QED BY <1>2, <4>1, OtherChars
    <3>3. CASE m <= j /\ j < c
      <4>1. j = m /\ c # m
        BY <1>3, <1>4, <3>0, <3>3
      <4>2. t[m] = ","
        BY <4>1 DEF PlacesAre
      <4> QED BY <4>1, <4>2
    <3>4. CASE c <= j
      <4>1. j \in c .. e - 1
        BY <1>0, <1>4, <1>6, <1>8, <3>0, <3>4
      <4> QED BY <1>5, <4>1, OtherChars
    <3> QED BY <1>1, <1>3, <1>4, <3>0, <3>1, <3>2, <3>3, <3>4
  <2> QED BY <2>1 DEF Unclosed
<1> QED BY <1>7, <1>8

(* What getIndex answers, with the places it goes through named.           *)
LEMMA IndexIs ==
  ASSUME NEW t, NEW p, NEW s, NEW pos
  PROVE  \E r, m, c, e, size, row, col :
           /\ r = IF Rule!CharAt(t, p + 1) = "-" THEN p + 2 ELSE p + 1
           /\ m = Rule!AfterDigits(t, r)
           /\ c = IF Rule!CharAt(t, m) = "," THEN m + 1 ELSE m
           /\ e = Rule!AfterDigits(t, c)
           /\ size = Rule!Spelt(Rule!DigitsAt(t, r))
           /\ row = IF Rule!CharAt(t, p + 1) = "-" THEN -size ELSE size
           /\ col = Rule!Spelt(Rule!DigitsAt(t, c))
           /\ Rule!GetIndex(t, p, s, pos)
                = IF /\ Rule!CharAt(t, p) = "["
                     /\ Rule!CharAt(t, m) \in {",", "end"}
                     /\ Rule!CharAt(t, e) \in {"]", "end"}
                     /\ row \in -8 .. 8
                     /\ col < s.xsize
                  THEN [ok |-> TRUE, cell |-> Rule!Cell(s, pos, row, col), col |-> col, stop |-> e]
                  ELSE [ok |-> FALSE]
BY DEF Rule!GetIndex, Rule!ColumnEnd, Rule!End, Rule!Refused, Rule!kMaxContextSize

LEMMA Stopped ==
  ASSUME NEW R, NEW t \in Seq(R), NEW p \in 1 .. Len(t) + 1, NEW s, NEW pos,
         Rule!GetIndex(t, p, s, pos).ok
  PROVE  LET e == Rule!GetIndex(t, p, s, pos).stop
         IN  /\ p \in 1 .. Len(t) /\ e \in p + 1 .. Len(t) + 1
             /\ e = Len(t) + 1 => Unclosed(t, p)
<1>0. Len(t) \in Nat
  OBVIOUS
<1>1. \A q : Rule!CharAt(t, q) = IF q <= Len(t) THEN t[q] ELSE "end"
  BY DEF Rule!CharAt, Rule!End
<1> DEFINE g == Rule!GetIndex(t, p, s, pos)
<1>2. PICK r, m, c, e, size, row, col :
        /\ r = IF Rule!CharAt(t, p + 1) = "-" THEN p + 2 ELSE p + 1
        /\ m = Rule!AfterDigits(t, r)
        /\ c = IF Rule!CharAt(t, m) = "," THEN m + 1 ELSE m
        /\ e = Rule!AfterDigits(t, c)
        /\ size = Rule!Spelt(Rule!DigitsAt(t, r))
        /\ row = IF Rule!CharAt(t, p + 1) = "-" THEN -size ELSE size
        /\ col = Rule!Spelt(Rule!DigitsAt(t, c))
        /\ g = IF /\ Rule!CharAt(t, p) = "["
                  /\ Rule!CharAt(t, m) \in {",", "end"}
                  /\ Rule!CharAt(t, e) \in {"]", "end"}
                  /\ row \in -8 .. 8
                  /\ col < s.xsize
               THEN [ok |-> TRUE, cell |-> Rule!Cell(s, pos, row, col), col |-> col, stop |-> e]
               ELSE [ok |-> FALSE]
  <2> HIDE DEF g
  <2> QED BY IndexIs DEF g
<1> HIDE DEF g
<1>3. g.ok
  BY DEF g
<1>4. Rule!CharAt(t, p) = "[" /\ g.stop = e
  <2> DEFINE y == [ok |-> TRUE, cell |-> Rule!Cell(s, pos, row, col), col |-> col, stop |-> e]
             z == [ok |-> FALSE]
  <2>1. y.stop = e /\ z.ok = FALSE
    OBVIOUS
  <2>2. g = y \/ g = z
    BY <1>2
  <2>3. g = y => Rule!CharAt(t, p) = "["
    <3>1. y # z
      <4>1. y.ok = TRUE
        OBVIOUS
      <4> HIDE DEF y, z
      <4> QED BY <2>1, <4>1
    <3> QED BY <1>2, <3>1
  <2> HIDE DEF y, z
  <2> QED BY <1>3, <2>1, <2>2, <2>3
<1>5. p \in 1 .. Len(t) /\ t[p] = "["
  BY <1>0, <1>1, <1>4
<1>6. r = p + 1 \/ (r = p + 2 /\ p + 1 <= Len(t) /\ t[p + 1] = "-")
  BY <1>1, <1>2
<1>7. c = m \/ (c = m + 1 /\ m <= Len(t) /\ t[m] = ",")
  BY <1>1, <1>2
<1>8. PlacesAre(t, p, r, m, c, e)
  BY <1>2, <1>6, <1>7 DEF PlacesAre
<1>9. e \in p + 1 .. Len(t) + 1 /\ (e = Len(t) + 1 => Unclosed(t, p))
  BY <1>5, <1>8, PassedOver
<1> QED BY <1>4, <1>5, <1>9 DEF g

(* The recursion of applyRule.                                             *)
Verdict(v) == [verdict |-> v, feature |-> <<>>, columns |-> 0]
Add(e, n, r) == [r EXCEPT !.feature = <<e>> \o @, !.columns = Rule!Max({n, @})]
Step(t, s, pos, f, p) ==
  IF p > Len(t) + 1 THEN Verdict("undefined")
  ELSE IF p = Len(t) + 1 THEN Verdict("built")
  ELSE IF t[p] # "%" THEN Add(t[p], 0, f[p + 1])
  ELSE IF Rule!CharAt(t, p + 1) # "x" THEN Verdict("refused")
  ELSE LET g == Rule!GetIndex(t, p + 2, s, pos)
       IN  IF g.ok THEN Add(g.cell, g.col + 1, f[g.stop + 1]) ELSE Verdict("refused")

(* A step looks only at places behind its own.                             *)
Alike(t, f, h, p) == \A q \in p + 1 .. Len(t) + 3 : f[q] = h[q]

LEMMA StepAhead ==
  ASSUME NEW R, NEW t \in Seq(R), NEW s, NEW pos, NEW p \in 1 .. Len(t) + 3, NEW f, NEW h,
         Alike(t, f, h, p)
  PROVE  Step(t, s, pos, f, p) = Step(t, s, pos, h, p)
<1> DEFINE n == Len(t)
           g == Rule!GetIndex(t, p + 2, s, pos)
<1>0. n \in Nat
  OBVIOUS
<1>a. \A q \in p + 1 .. Len(t) + 3 : f[q] = h[q]
  BY DEF Alike
<1>1. p <= n => f[p + 1] = h[p + 1]
  BY <1>0, <1>a
<1>2. ASSUME p <= n, Rule!CharAt(t, p + 1) = "x", g.ok PROVE f[g.stop + 1] = h[g.stop + 1]
  <2>1. p + 1 <= n
    <3>1. Rule!CharAt(t, p + 1) = IF p + 1 <= n THEN t[p + 1] ELSE "end"
      BY DEF Rule!CharAt, Rule!End
    <3> QED BY <1>2, <3>1
  <2>2. p + 2 \in 1 .. Len(t) + 1
    BY <1>0, <2>1
  <2>3. g.stop \in (p + 2) + 1 .. Len(t) + 1
    BY <1>2, <2>2, Stopped
  <2> HIDE DEF g
  <2>4. g.stop + 1 \in p + 1 .. Len(t) + 3
    BY <1>0, <2>3
  <2> QED BY <1>a, <2>4
<1> HIDE DEF g
<1>3. p \in Int
  OBVIOUS
<1>4. p <= n \/ p = n + 1 \/ p > n + 1
  BY <1>0, <1>3
<1>5. \A x : Step(t, s, pos, x, p) =
         IF p > n + 1 THEN Verdict("undefined")
         ELSE IF p = n + 1 THEN Verdict("built")
         ELSE IF t[p] # "%" THEN Add(t[p], 0, x[p + 1])
         ELSE IF Rule!CharAt(t, p + 1) # "x" THEN Verdict("refused")
         ELSE IF g.ok THEN Add(g.cell, g.col + 1, x[g.stop + 1]) ELSE Verdict("refused")
  BY DEF Step, g
<1> HIDE DEF n
<1> QED BY <1>1, <1>2, <1>4, <1>5

LEMMA RuleIs ==
  ASSUME NEW R, NEW t \in Seq(R), NEW s, NEW pos
  PROVE  \E f : /\ Rule!ApplyRule(t, s, pos) = f[1]
                /\ \A p \in 1 .. Len(t) + 3 : f[p] = Step(t, s, pos, f, p)
<1> DEFINE N == Len(t) + 3
           W(g, p) == Step(t, s, pos, g, p)
           Is(g, k) == g = [p \in k .. N |-> W(g, p)]
           T == {j \in Nat : j <= N => \E g : Is(g, (N + 1) - j)}
           a == CHOOSE g : Is(g, 1)
<1>0. N \in Nat
  OBVIOUS
<1>1. Rule!ApplyRule(t, s, pos) = a[1]
  BY DEF Rule!ApplyRule, Step, Verdict, Add
<1>a. ASSUME NEW p \in 1 .. N, NEW g, NEW h, \A q \in p + 1 .. N : g[q] = h[q]
      PROVE  W(g, p) = W(h, p)
  <2>1. Alike(t, g, h, p)
    BY <1>a DEF Alike
  <2> QED BY <2>1, StepAhead
<1> HIDE DEF W
<1>2. 0 \in T
  <2>1. Is([p \in N + 1 .. N |-> 0], N + 1)
    <3>1. N + 1 .. N = {}
      BY <1>0
    <3> HIDE DEF N
    <3> QED BY <3>1
  <2>2. (N + 1) - 0 = N + 1
    BY <1>0
  <2> HIDE DEF Is, N
  <2> QED BY <2>1, <2>2
<1>3. ASSUME NEW j \in 0 .. N - 1, j \in T PROVE j + 1 \in T
  <2> HIDE DEF N
  <2> DEFINE k == N - j
  <2>0. /\ k \in Int /\ j \in Nat /\ j + 1 \in Nat /\ j <= N /\ 1 <= k /\ k <= N
        /\ (N + 1) - j = k + 1 /\ (N + 1) - (j + 1) = k
    BY <1>0
  <2>1. PICK g : Is(g, k + 1)
    <3>1. \E g : Is(g, (N + 1) - j)
      BY <1>3, <2>0
    <3> HIDE DEF Is, k
    <3> QED BY <2>0, <3>1
  <2> HIDE DEF k
  <2> DEFINE h == [p \in k .. N |-> IF p = k THEN W(g, k) ELSE g[p]]
  <2>2. h[k] = W(g, k) /\ \A q \in k + 1 .. N : h[q] = g[q]
    BY <1>0, <2>0
  <2>h. h = [p \in k .. N |-> h[p]]
    OBVIOUS
  <2> HIDE DEF h
  <2>3. ASSUME NEW p \in k .. N PROVE h[p] = W(h, p)
    <3>1. p \in 1 .. N /\ \A q \in p + 1 .. N : q \in k + 1 .. N
      BY <1>0, <2>0
    <3>2. \A q \in p + 1 .. N : g[q] = h[q]
      BY <2>2, <3>1
    <3>3. W(g, p) = W(h, p)
      BY <1>a, <3>1, <3>2
    <3>4. CASE p = k
      BY <2>2, <3>3, <3>4
    <3>5. CASE p # k
      <4>1. p \in k + 1 .. N
        BY <1>0, <2>0, <3>5
      <4>2. g[p] = W(g, p)
        BY <2>1, <4>1
      <4> QED BY <2>2, <3>3, <4>1, <4>2
    <3> QED BY <3>4, <3>5
  <2>4. Is(h, k)
    BY <2>h, <2>3
  <2>5. \E x : Is(x, (N + 1) - (j + 1))
    <3> HIDE DEF Is
    <3> QED BY <2>0, <2>4
  <2> HIDE DEF Is
  <2> QED BY <2>0, <2>5
<1> HIDE DEF T
<1>4. N \in T
  <2>1. 0 .. N \subseteq T
    <3> HIDE DEF N
    <3> QED BY <1>0, <1>2, <1>3, UpTo
  <2> HIDE DEF N
  <2> QED BY <1>0, <2>1
<1>5. \E g : Is(g, 1)
  <2> HIDE DEF Is, N
  <2>1. \E g : Is(g, (N + 1) - N)
    BY <1>0, <1>4 DEF T
  <2>2. (N + 1) - N = 1
    BY <1>0
  <2> QED BY <2>1, <2>2
<1>6. Is(a, 1)
  BY <1>5
<1> HIDE DEF a
<1>7. \A p \in 1 .. N : a[p] = W(a, p)
  <2> HIDE DEF N
  <2> QED BY <1>6
<1> QED BY <1>1, <1>7 DEF W

(* What applyRule returns, and what a turn of its loop adds.               *)
Ruled(r) == r = [verdict |-> r.verdict, feature |-> r.feature, columns |-> r.columns]

LEMMA VerdictIs ==
  ASSUME NEW v
  PROVE  /\ Ruled(Verdict(v)) /\ Verdict(v).verdict = v
         /\ Verdict(v).feature = <<>> /\ Verdict(v).columns = 0
BY DEF Ruled, Verdict

Added(e, n, r, x) ==
  /\ Ruled(x) /\ x.verdict = r.verdict
  /\ x.feature = <<e>> \o r.feature
  /\ x.columns = Rule!Max({n, r.columns})

LEMMA AddIs ==
  ASSUME NEW e, NEW n, NEW r, Ruled(r)
  PROVE  Added(e, n, r, Add(e, n, r))
<1> DEFINE v == r.verdict
           w == r.feature
           c == r.columns
           z == Rule!Max({n, c})
           y == [verdict |-> v, feature |-> w, columns |-> c]
<1>1. r = y
  BY DEF Ruled
<1>2. Add(e, n, y) = [verdict |-> v, feature |-> <<e>> \o w, columns |-> z]
  <2> HIDE DEF v, w, c
  <2>1. y.feature = w /\ y.columns = c
    OBVIOUS
  <2>2. Add(e, n, y) = [y EXCEPT !.feature = <<e>> \o w, !.columns = z]
    <3> HIDE DEF y
    <3> QED BY <2>1 DEF Add
  <2> HIDE DEF z
  <2> DEFINE x == <<e>> \o w
  <2>3. Add(e, n, y) = [y EXCEPT !.feature = x, !.columns = z]
    BY <2>2
  <2> HIDE DEF x
  <2>4. [y EXCEPT !.feature = x] = [verdict |-> v, feature |-> x, columns |-> c]
    OBVIOUS
  <2>5. [[verdict |-> v, feature |-> x, columns |-> c] EXCEPT !.columns = z]
           = [verdict |-> v, feature |-> x, columns |-> z]
    OBVIOUS
  <2>6. [y EXCEPT !.feature = x, !.columns = z] = [[y EXCEPT !.feature = x] EXCEPT !.columns = z]
    OBVIOUS
  <2> HIDE DEF y
  <2> QED BY <2>3, <2>4, <2>5, <2>6 DEF x
<1>3. Add(e, n, r) = [verdict |-> v, feature |-> <<e>> \o w, columns |-> z]
  BY <1>1, <1>2
<1> HIDE DEF v, w, c, z, y
<1>4. Ruled(Add(e, n, r))
  BY <1>3 DEF Ruled
<1> QED BY <1>3, <1>4 DEF Added, v, w, c, z

(* Only a macro that is not closed makes it read behind the NUL.           *)
LEMMA OnlyUnclosed ==
  ASSUME NEW R, NEW t \in Seq(R), NEW s, NEW pos,
         Rule!ApplyRule(t, s, pos).verdict = "undefined"
  PROVE  \E i \in 1 .. Len(t) : Unclosed(t, i)
<1> DEFINE n == Len(t)
           some == \E i \in 1 .. Len(t) : Unclosed(t, i)
<1>1. PICK f : /\ Rule!ApplyRule(t, s, pos) = f[1]
               /\ \A p \in 1 .. Len(t) + 3 : f[p] = Step(t, s, pos, f, p)
  BY RuleIs
<1>0. n \in Nat
  OBVIOUS
<1> DEFINE C(p) == Ruled(f[p]) /\ (f[p].verdict = "undefined" => some)
           T == {j \in Nat : \A p \in 1 .. n + 1 : p >= (n + 1) - j => C(p)}
<1>2. C(n + 1)
  <2>1. n + 1 \in 1 .. Len(t) + 3 /\ ~(n + 1 > Len(t) + 1) /\ n + 1 = Len(t) + 1
    OBVIOUS
  <2>2. f[n + 1] = Verdict("built")
    BY <1>1, <2>1 DEF Step
  <2> QED BY <2>2, VerdictIs
<1>3. f[n + 2] = Verdict("undefined")
  <2>1. n + 2 \in 1 .. Len(t) + 3 /\ n + 2 > Len(t) + 1
    OBVIOUS
  <2> QED BY <1>1, <2>1 DEF Step
<1>4. ASSUME NEW p \in 1 .. n, \A q \in p + 1 .. n + 1 : C(q)
      PROVE  C(p)
  <2>1. p \in 1 .. Len(t) + 3 /\ ~(p > Len(t) + 1) /\ p # Len(t) + 1 /\ p + 1 \in p + 1 .. n + 1
    OBVIOUS
  <2> DEFINE g == Rule!GetIndex(t, p + 2, s, pos)
  <2>2. f[p] = IF t[p] # "%" THEN Add(t[p], 0, f[p + 1])
               ELSE IF Rule!CharAt(t, p + 1) # "x" THEN Verdict("refused")
               ELSE IF g.ok THEN Add(g.cell, g.col + 1, f[g.stop + 1]) ELSE Verdict("refused")
    BY <1>1, <2>1 DEF Step
  <2>3. ASSUME t[p] = "%", Rule!CharAt(t, p + 1) = "x", g.ok
        PROVE  Ruled(f[g.stop + 1]) /\ (f[g.stop + 1].verdict = "undefined" => some)
    <3>1. p + 1 <= n
      <4>1. Rule!CharAt(t, p + 1) = IF p + 1 <= n THEN t[p + 1] ELSE "end"
        BY DEF Rule!CharAt, Rule!End
      <4> QED BY <2>3, <4>1
    <3>2. p + 2 \in 1 .. Len(t) + 1
      BY <1>0, <3>1
    <3>3. /\ p + 2 \in 1 .. Len(t) /\ g.stop \in (p + 2) + 1 .. Len(t) + 1
          /\ g.stop = Len(t) + 1 => Unclosed(t, p + 2)
      BY <2>3, <3>2, Stopped
    <3> DEFINE e == g.stop
    <3>4. e \in (p + 2) + 1 .. n + 1
      BY <3>3
    <3> HIDE DEF e
    <3>5. CASE e = n + 1
      <4>1. e + 1 = n + 2
        BY <1>0, <3>5
      <4>2. f[e + 1] = Verdict("undefined") /\ some
        BY <1>3, <3>3, <3>5, <4>1 DEF e
      <4>3. Ruled(f[e + 1])
        BY <4>2, VerdictIs
      <4> QED BY <4>2, <4>3 DEF e
    <3>6. CASE e # n + 1
      <4>1. e + 1 \in p + 1 .. n + 1
        BY <1>0, <3>4, <3>6
      <4>2. C(e + 1)
        BY <1>4, <4>1
      <4> QED BY <4>2 DEF e
    <3> QED BY <3>5, <3>6
  <2>4. C(p + 1)
    BY <1>4, <2>1
  <2> HIDE DEF g
  <2>5. CASE t[p] # "%"
    <3>1. f[p] = Add(t[p], 0, f[p + 1])
      BY <2>2, <2>5
    <3>2. Ruled(f[p + 1])
      BY <2>4
    <3> DEFINE h == Add(t[p], 0, f[p + 1])
    <3>3. Added(t[p], 0, f[p + 1], h)
      BY <3>2, AddIs
    <3> HIDE DEF some, h
    <3>4. Ruled(h) /\ h.verdict = f[p + 1].verdict
      BY <3>3 DEF Added
    <3> QED BY <2>4, <3>1, <3>4 DEF h
  <2>6. CASE f[p] = Verdict("refused")
    BY <2>6, VerdictIs
  <2>7. CASE t[p] = "%" /\ Rule!CharAt(t, p + 1) = "x" /\ g.ok
    <3>1. f[p] = Add(g.cell, g.col + 1, f[g.stop + 1])
      BY <2>2, <2>7
    <3>2. Ruled(f[g.stop + 1])
      BY <2>3, <2>7
    <3> DEFINE h == Add(g.cell, g.col + 1, f[g.stop + 1])
    <3>3. Added(g.cell, g.col + 1, f[g.stop + 1], h)
      BY <3>2, AddIs
    <3> HIDE DEF some, h
    <3>4. Ruled(h) /\ h.verdict = f[g.stop + 1].verdict
      BY <3>3 DEF Added
    <3> QED BY <2>3, <2>7, <3>1, <3>4 DEF h
  <2> QED BY <2>2, <2>5, <2>6, <2>7
<1>5. 0 \in T
  <2>1. ASSUME NEW p \in 1 .. n + 1, p >= (n + 1) - 0 PROVE C(p)
    <3>1. p = n + 1
      BY <1>0, <2>1
    <3> HIDE DEF C
    <3> QED BY <1>2, <3>1
  <2> HIDE DEF C
  <2> QED BY <2>1
<1>6. ASSUME NEW j \in 0 .. n - 1, j \in T PROVE j + 1 \in T
  <2> HIDE DEF C
  <2>1. ASSUME NEW p \in 1 .. n + 1, p >= (n + 1) - (j + 1) PROVE C(p)
    <3>1. CASE p >= (n + 1) - j
      BY <1>6, <3>1
    <3>2. CASE ~(p >= (n + 1) - j)
      <4>1. p \in 1 .. n /\ \A q \in p + 1 .. n + 1 : q \in 1 .. n + 1 /\ q >= (n + 1) - j
        BY <1>0, <2>1, <3>2
      <4>2. \A q \in p + 1 .. n + 1 : C(q)
        BY <1>6, <4>1
      <4> QED BY <1>4, <4>1, <4>2
    <3> QED BY <3>1, <3>2
  <2> QED BY <1>0, <2>1
<1>7. n \in T
  <2> HIDE DEF T, n
  <2>1. 0 .. n \subseteq T
    BY <1>0, <1>5, <1>6, UpTo
  <2> QED BY <1>0, <2>1
<1>8. C(1)
  <2> HIDE DEF C
  <2>1. 1 \in 1 .. n + 1 /\ 1 >= (n + 1) - n
    BY <1>0
  <2> QED BY <1>7, <2>1
<1> QED BY <1>1, <1>8

(* How the pieces of a template lie in its text.                           *)
Char(p) == p.kind = "char" /\ p.char # "%"
Macro(p) == /\ p.kind = "macro" /\ p.minus \in BOOLEAN
            /\ p.row \in Seq(AllDigits) /\ p.col \in Seq(AllDigits)
GoodPieces(ps) == ps \in Seq({ps[i] : i \in DOMAIN ps})
                  /\ \A i \in DOMAIN ps : Char(ps[i]) \/ Macro(ps[i])

Sign(p) == IF p.minus THEN 1 ELSE 0
Punctuation == {"%", "x", "[", "-", ",", "]"}

(* A sequence is read from place i on.                                     *)
ReadsFrom(w, at, b) == \A k \in 1 .. Len(b) : at + k \in 1 .. Len(w) /\ w[at + k] = b[k]

MacroLaid(p, w, at) ==
  LET b == at + Sign(p)
  IN  /\ w[at] = "["
      /\ p.minus => w[at + 1] = "-"
      /\ ReadsFrom(w, b, p.row)
      /\ w[b + Len(p.row) + 1] = ","
      /\ ReadsFrom(w, b + Len(p.row) + 1, p.col)
      /\ w[b + Len(p.row) + Len(p.col) + 2] = "]"

Composed(S, w, a, b) ==
  /\ w \in Seq(S) /\ Len(w) = Len(a) + Len(b)
  /\ \A i \in 1 .. Len(a) : w[i] = a[i]
  /\ \A i \in 1 .. Len(b) : w[Len(a) + i] = b[i]

LEMMA ComposedIs ==
  ASSUME NEW S, NEW a \in Seq(S), NEW b \in Seq(S)
  PROVE  Composed(S, a \o b, a, b)
BY DEF Composed

LEMMA ReadsOn ==
  ASSUME NEW S, NEW a \in Seq(S), NEW b \in Seq(S), NEW w, Composed(S, w, a, b)
  PROVE  /\ ReadsFrom(w, Len(a), b)
         /\ \A at, c : at \in Nat /\ c \in Seq(S) /\ ReadsFrom(a, at, c) => ReadsFrom(w, at, c)
<1>1. Len(a) \in Nat /\ Len(b) \in Nat /\ Len(w) = Len(a) + Len(b)
  BY DEF Composed
<1>2. ReadsFrom(w, Len(a), b)
  BY <1>1 DEF Composed, ReadsFrom
<1>3. ASSUME NEW at \in Nat, NEW c \in Seq(S), ReadsFrom(a, at, c) PROVE ReadsFrom(w, at, c)
  <2>1. ASSUME NEW k \in 1 .. Len(c) PROVE at + k \in 1 .. Len(w) /\ w[at + k] = c[k]
    <3>1. at + k \in 1 .. Len(a) /\ a[at + k] = c[k]
      BY <1>3 DEF ReadsFrom
    <3>2. \A i \in 1 .. Len(a) : w[i] = a[i]
      BY DEF Composed
    <3>3. w[at + k] = c[k]
      BY <3>1, <3>2
    <3>4. at + k \in 1 .. Len(w)
      BY <1>1, <3>1
    <3> QED BY <3>3, <3>4
  <2> QED BY <2>1 DEF ReadsFrom
<1> QED BY <1>2, <1>3

LEMMA MacroRendered ==
  ASSUME NEW p, Macro(p)
  PROVE  /\ Render(p) \in Seq(AllDigits \cup Punctuation)
         /\ Len(Render(p)) = 5 + Sign(p) + Len(p.row) + Len(p.col)
         /\ Render(p)[1] = "%" /\ Render(p)[2] = "x"
         /\ MacroLaid(p, Render(p), 3)
<1> DEFINE S == AllDigits \cup Punctuation
           h0 == <<"%", "x", "[">>
           m0 == IF p.minus THEN <<"-">> ELSE <<>>
           k0 == <<",">>
           e0 == <<"]">>
<1>1. Render(p) = ((((h0 \o m0) \o p.row) \o k0) \o p.col) \o e0
  BY DEF Render, Macro
<1>2. /\ h0 \in Seq(S) /\ Len(h0) = 3 /\ h0[1] = "%" /\ h0[2] = "x" /\ h0[3] = "["
      /\ k0 \in Seq(S) /\ Len(k0) = 1 /\ k0[1] = ","
      /\ e0 \in Seq(S) /\ Len(e0) = 1 /\ e0[1] = "]"
  BY DEF Punctuation
<1>3. m0 \in Seq(S) /\ Len(m0) = Sign(p) /\ (p.minus => Sign(p) = 1 /\ m0[1] = "-") /\ Sign(p) \in {0, 1}
  <2>1. CASE p.minus
    <3>1. <<"-">> \in Seq(S)
      BY DEF Punctuation
    <3> QED BY <2>1, <3>1 DEF Sign
  <2>2. CASE ~p.minus
    BY <2>2 DEF Sign
  <2> QED BY <2>1, <2>2
<1>4. p.row \in Seq(S) /\ p.col \in Seq(S) /\ Len(p.row) \in Nat /\ Len(p.col) \in Nat
  <2>1. AllDigits \subseteq S
    OBVIOUS
  <2>2. p.row \in Seq(AllDigits) /\ p.col \in Seq(AllDigits)
    BY DEF Macro
  <2> HIDE DEF S
  <2> QED BY <2>1, <2>2
<1> HIDE DEF S, h0, m0, k0, e0
<1>n. /\ Len(h0) = 3 /\ Len(k0) = 1 /\ Len(e0) = 1 /\ Len(m0) = Sign(p) /\ Sign(p) \in Nat
      /\ Len(p.row) \in Nat /\ Len(p.col) \in Nat
  <2>1. Sign(p) \in Nat
    BY DEF Sign
  <2> QED BY <1>2, <1>3, <1>4, <2>1
<1>5. PICK A : A = h0 \o m0 /\ Composed(S, A, h0, m0)
  BY <1>2, <1>3, ComposedIs
<1>6. A \in Seq(S)
  BY <1>5 DEF Composed
<1>7. PICK B : B = A \o p.row /\ Composed(S, B, A, p.row)
  BY <1>4, <1>6, ComposedIs
<1>8. B \in Seq(S)
  BY <1>7 DEF Composed
<1>9. PICK C : C = B \o k0 /\ Composed(S, C, B, k0)
  BY <1>2, <1>8, ComposedIs
<1>10. C \in Seq(S)
  BY <1>9 DEF Composed
<1>11. PICK D : D = C \o p.col /\ Composed(S, D, C, p.col)
  BY <1>4, <1>10, ComposedIs
<1>12. D \in Seq(S)
  BY <1>11 DEF Composed
<1>13. PICK E : E = D \o e0 /\ Composed(S, E, D, e0)
  BY <1>2, <1>12, ComposedIs
<1>14. E \in Seq(S) /\ Render(p) = E
  BY <1>1, <1>5, <1>7, <1>9, <1>11, <1>13 DEF Composed
<1>15. /\ Len(A) = 3 + Sign(p) /\ Len(B) = 3 + Sign(p) + Len(p.row)
       /\ Len(C) = 4 + Sign(p) + Len(p.row)
       /\ Len(D) = 4 + Sign(p) + Len(p.row) + Len(p.col)
       /\ Len(E) = 5 + Sign(p) + Len(p.row) + Len(p.col)
  <2>1. /\ Len(A) = Len(h0) + Len(m0) /\ Len(B) = Len(A) + Len(p.row) /\ Len(C) = Len(B) + Len(k0)
        /\ Len(D) = Len(C) + Len(p.col) /\ Len(E) = Len(D) + Len(e0)
    BY <1>5, <1>7, <1>9, <1>11, <1>13 DEF Composed
  <2>2. Len(A) = 3 + Sign(p)
    BY <1>n, <2>1
  <2>3. Len(B) = 3 + Sign(p) + Len(p.row)
    BY <1>n, <2>1, <2>2
  <2>4. Len(C) = 4 + Sign(p) + Len(p.row)
    <3>1. Len(C) = Len(B) + 1
      BY <1>n, <2>1
    <3>2. Sign(p) \in Nat /\ Len(p.row) \in Nat
      BY <1>n
    <3> QED BY <2>3, <3>1, <3>2
  <2>5. Len(D) = 4 + Sign(p) + Len(p.row) + Len(p.col)
    BY <1>n, <2>1, <2>4
  <2>6. Len(E) = 5 + Sign(p) + Len(p.row) + Len(p.col)
    <3>1. Len(E) = Len(D) + 1
      BY <1>n, <2>1
    <3>2. Sign(p) \in Nat /\ Len(p.row) \in Nat /\ Len(p.col) \in Nat
      BY <1>n
    <3> DEFINE x == 4 + Sign(p) + Len(p.row)
               y == Len(p.col)
    <3>3. x \in Nat /\ y \in Nat /\ x + 1 = 5 + Sign(p) + Len(p.row)
      BY <3>2
    <3>4. Len(E) = (x + y) + 1
      BY <2>5, <3>1
    <3> HIDE DEF x, y
    <3>5. Len(E) = (x + 1) + y
      BY <3>3, <3>4
    <3> QED BY <3>3, <3>5 DEF y
  <2> QED BY <2>2, <2>3, <2>4, <2>5, <2>6
<1>16. /\ ReadsFrom(E, 0, h0) /\ ReadsFrom(E, 3, m0) /\ ReadsFrom(E, 3 + Sign(p), p.row)
       /\ ReadsFrom(E, 3 + Sign(p) + Len(p.row), k0)
       /\ ReadsFrom(E, 4 + Sign(p) + Len(p.row), p.col)
       /\ ReadsFrom(E, 4 + Sign(p) + Len(p.row) + Len(p.col), e0)
  <2>0. /\ 3 \in Nat /\ 0 \in Nat /\ 3 + Sign(p) \in Nat /\ 3 + Sign(p) + Len(p.row) \in Nat
        /\ 4 + Sign(p) + Len(p.row) \in Nat
    BY <1>3, <1>4
  <2>1. ReadsFrom(A, 0, h0) /\ ReadsFrom(A, 3, m0)
    <3>1. ReadsFrom(A, Len(h0), m0)
      BY <1>2, <1>3, <1>5, ReadsOn
    <3>2. Len(h0) \in Nat /\ Len(m0) \in Nat /\ Len(A) = Len(h0) + Len(m0)
      BY <1>n, <1>5 DEF Composed
    <3>3. \A k \in 1 .. Len(h0) : 0 + k = k /\ k \in 1 .. Len(A)
      BY <3>2
    <3>4. ReadsFrom(A, 0, h0)
      BY <1>5, <3>3 DEF Composed, ReadsFrom
    <3> QED BY <1>2, <3>1, <3>4
  <2>2. ReadsFrom(B, 0, h0) /\ ReadsFrom(B, 3, m0) /\ ReadsFrom(B, Len(A), p.row)
    BY <1>2, <1>3, <1>4, <1>6, <1>7, <2>0, <2>1, ReadsOn
  <2>3. /\ ReadsFrom(C, 0, h0) /\ ReadsFrom(C, 3, m0) /\ ReadsFrom(C, 3 + Sign(p), p.row)
        /\ ReadsFrom(C, Len(B), k0)
    <3>1. ReadsFrom(B, 3 + Sign(p), p.row)
      BY <1>15, <2>2
    <3> QED BY <1>2, <1>3, <1>4, <1>8, <1>9, <2>0, <2>2, <3>1, ReadsOn
  <2>4. /\ ReadsFrom(D, 0, h0) /\ ReadsFrom(D, 3, m0) /\ ReadsFrom(D, 3 + Sign(p), p.row)
        /\ ReadsFrom(D, 3 + Sign(p) + Len(p.row), k0) /\ ReadsFrom(D, Len(C), p.col)
    <3>1. ReadsFrom(C, 3 + Sign(p) + Len(p.row), k0)
      BY <1>15, <2>3
    <3> QED BY <1>2, <1>3, <1>4, <1>10, <1>11, <2>0, <2>3, <3>1, ReadsOn
  <2>5. /\ ReadsFrom(E, 0, h0) /\ ReadsFrom(E, 3, m0) /\ ReadsFrom(E, 3 + Sign(p), p.row)
        /\ ReadsFrom(E, 3 + Sign(p) + Len(p.row), k0)
        /\ ReadsFrom(E, 4 + Sign(p) + Len(p.row), p.col) /\ ReadsFrom(E, Len(D), e0)
    <3>1. ReadsFrom(D, 4 + Sign(p) + Len(p.row), p.col)
      BY <1>15, <2>4
    <3> QED BY <1>2, <1>3, <1>4, <1>12, <1>13, <2>0, <2>4, <3>1, ReadsOn
  <2> QED BY <1>15, <2>5
<1>17. MacroLaid(p, E, 3) /\ E[1] = "%" /\ E[2] = "x"
  <2>1. E[1] = "%" /\ E[2] = "x" /\ E[3] = "["
    <3>1. 1 \in 1 .. Len(h0) /\ 2 \in 1 .. Len(h0) /\ 3 \in 1 .. Len(h0)
          /\ 0 + 1 = 1 /\ 0 + 2 = 2 /\ 0 + 3 = 3
      BY <1>n
    <3>2. \A k \in 1 .. Len(h0) : E[0 + k] = h0[k]
      BY <1>16 DEF ReadsFrom
    <3>3. E[1] = h0[1] /\ E[2] = h0[2] /\ E[3] = h0[3]
      BY <3>1, <3>2
    <3> QED BY <1>2, <3>3
  <2>2. p.minus => E[3 + 1] = "-"
    BY <1>3, <1>16 DEF ReadsFrom
  <2>3. ReadsFrom(E, 3 + Sign(p), p.row)
    BY <1>16
  <2>4. E[3 + Sign(p) + Len(p.row) + 1] = ","
    <3>1. 1 \in 1 .. Len(k0)
      BY <1>n
    <3>2. E[3 + Sign(p) + Len(p.row) + 1] = k0[1]
      BY <1>16, <3>1 DEF ReadsFrom
    <3> QED BY <1>2, <3>2
  <2>5. ReadsFrom(E, 3 + Sign(p) + Len(p.row) + 1, p.col)
    <3>1. 4 + Sign(p) + Len(p.row) = 3 + Sign(p) + Len(p.row) + 1
      BY <1>3, <1>4
    <3> QED BY <1>16, <3>1
  <2>6. E[3 + Sign(p) + Len(p.row) + Len(p.col) + 2] = "]"
    <3>1. E[4 + Sign(p) + Len(p.row) + Len(p.col) + 1] = "]"
      <4>1. 1 \in 1 .. Len(e0)
        BY <1>n
      <4>2. E[4 + Sign(p) + Len(p.row) + Len(p.col) + 1] = e0[1]
        BY <1>16, <4>1 DEF ReadsFrom
      <4> QED BY <1>2, <4>2
    <3>2. 4 + Sign(p) + Len(p.row) + Len(p.col) + 1 = 3 + Sign(p) + Len(p.row) + Len(p.col) + 2
      BY <1>3, <1>4
    <3> QED BY <3>1, <3>2
  <2> QED BY <2>1, <2>2, <2>3, <2>4, <2>5, <2>6 DEF MacroLaid
<1> QED BY <1>14, <1>15, <1>17 DEF S

(* What the reading of a macro finds.                                      *)
LEMMA DigitsRead ==
  ASSUME NEW R, NEW t \in Seq(R), NEW b \in Nat, NEW d \in Seq(AllDigits),
         b + Len(d) + 1 <= Len(t), ReadsFrom(t, b, d), ~Rule!IsDigit(t[b + Len(d) + 1])
  PROVE  Rule!AfterDigits(t, b + 1) = b + Len(d) + 1 /\ Rule!DigitsAt(t, b + 1) = d
<1> DEFINE e == b + Len(d) + 1
           n == Len(t)
<1>0. n \in Nat /\ Len(d) \in Nat /\ e \in Nat /\ e <= n /\ b + 1 <= e /\ e - 1 = b + Len(d)
  OBVIOUS
<1>1. b + 1 \in 1 .. Len(t) + 1 /\ e \in b + 1 .. Len(t) + 1
  BY <1>0
<1>2. Rule!CharAt(t, e) = t[e]
  BY <1>0 DEF Rule!CharAt
<1>3. \A k \in 1 .. Len(d) : b + k \in 1 .. Len(t) /\ t[b + k] = d[k]
  BY DEF ReadsFrom
<1>4. ASSUME NEW q \in b + 1 .. e - 1 PROVE Rule!IsDigit(t[q])
  <2> HIDE DEF e
  <2>1. q - b \in 1 .. Len(d) /\ b + (q - b) = q
    BY <1>0
  <2>2. t[q] = d[q - b] /\ d[q - b] \in AllDigits
    BY <1>3, <2>1
  <2> QED BY <2>2, DigitIs
<1>5. ~Rule!IsDigit(Rule!CharAt(t, e))
  BY <1>2
<1>6. Rule!AfterDigits(t, b + 1) = e
  <2> HIDE DEF e
  <2> QED BY <1>1, <1>4, <1>5, AfterOnly
<1> HIDE DEF e
<1>7. Rule!DigitsAt(t, b + 1) = SubSeq(t, b + 1, b + Len(d))
  BY <1>0, <1>6 DEF Rule!DigitsAt
<1> DEFINE u == SubSeq(t, b + 1, b + Len(d))
<1>8. /\ u \in Seq(R) /\ Len(u) = (b + Len(d)) - b
      /\ \A i \in 1 .. (b + Len(d)) - b : u[i] = t[b + i]
  <2>1. b + Len(d) \in Nat /\ b <= b + Len(d) /\ b + Len(d) <= Len(t)
    BY <1>0
  <2> QED BY <2>1, SliceIs
<1> HIDE DEF u
<1>9. Len(u) = Len(d) /\ \A i \in 1 .. Len(u) : u[i] = d[i]
  <2>1. (b + Len(d)) - b = Len(d)
    BY <1>0
  <2> QED BY <1>3, <1>8, <2>1
<1>10. u = d
  <2> DEFINE S == R \cup AllDigits
  <2>1. u \in Seq(S) /\ d \in Seq(S)
    <3>1. R \subseteq S /\ AllDigits \subseteq S
      OBVIOUS
    <3> HIDE DEF S
    <3> QED BY <1>8, <3>1
  <2> HIDE DEF S
  <2> QED BY <1>9, <2>1, SameWord
<1> QED BY <1>6, <1>7, <1>10 DEF e, u

MacroEnd(p, at) == at + Sign(p) + Len(p.row) + Len(p.col) + 2

LEMMA MacroRead ==
  ASSUME NEW R, NEW t \in Seq(R), NEW p, Macro(p), NEW at \in 1 .. Len(t),
         MacroLaid(p, t, at), MacroEnd(p, at) <= Len(t), NEW s, NEW pos
  PROVE  Rule!GetIndex(t, at, s, pos)
           = IF RowOf(p) \in -8 .. 8 /\ Number(p.col) < s.xsize
             THEN [ok |-> TRUE, cell |-> Rule!Cell(s, pos, RowOf(p), Number(p.col)),
                   col |-> Number(p.col), stop |-> MacroEnd(p, at)]
             ELSE [ok |-> FALSE]
<1> DEFINE n == Len(t)
           lr == Len(p.row)
           lc == Len(p.col)
           sg == Sign(p)
<1>0. /\ n \in Nat /\ at \in Nat /\ 1 <= at /\ lr \in Nat /\ lc \in Nat /\ sg \in {0, 1}
      /\ p.row \in Seq(AllDigits) /\ p.col \in Seq(AllDigits) /\ p.minus \in BOOLEAN
  <2>1. p.row \in Seq(AllDigits) /\ p.col \in Seq(AllDigits) /\ p.minus \in BOOLEAN
    BY DEF Macro
  <2>2. sg \in {0, 1}
    BY DEF Sign
  <2> HIDE DEF sg
  <2> QED BY <2>1, <2>2
<1>1. /\ t[at] = "["
      /\ p.minus => t[at + 1] = "-"
      /\ ReadsFrom(t, at + sg, p.row)
      /\ t[at + sg + lr + 1] = ","
      /\ ReadsFrom(t, at + sg + lr + 1, p.col)
      /\ t[at + sg + lr + lc + 2] = "]"
  BY DEF MacroLaid
<1>2. at + sg + lr + lc + 2 <= n
  BY DEF MacroEnd
<1>3. (p.minus => sg = 1) /\ (~p.minus => sg = 0)
  BY DEF Sign
<1> HIDE DEF n, lr, lc, sg
<1>4. \A q \in Nat : q <= n => Rule!CharAt(t, q) = t[q]
  BY DEF Rule!CharAt, n
<1> DEFINE b == at + sg
           a == b + lr + 1
           z == a + lc + 1
<1>5. /\ b \in Nat /\ a \in Nat /\ z \in Nat /\ z = at + sg + lr + lc + 2 /\ z <= n /\ a <= n
      /\ b + lr + 1 <= n /\ a + lc + 1 <= n /\ at <= n /\ at + 1 <= n /\ b + 1 <= n
      /\ at + 1 \in Nat
  BY <1>0, <1>2
<1>6. (Rule!CharAt(t, at + 1) = "-") <=> p.minus
  <2>1. Rule!CharAt(t, at + 1) = t[at + 1]
    BY <1>4, <1>5
  <2>2. ASSUME ~p.minus PROVE t[at + 1] # "-"
    <3>1. at + sg = at /\ sg = 0
      BY <1>0, <1>3, <2>2
    <3>2. CASE lr = 0
      <4>1. at + sg + lr + 1 = at + 1
        BY <1>0, <3>1, <3>2
      <4> QED BY <1>1, <4>1
    <3>3. CASE lr # 0
      <4>1. 1 \in 1 .. Len(p.row)
        BY <1>0, <3>3 DEF lr
      <4>2. t[(at + sg) + 1] = p.row[1]
        BY <1>1, <4>1 DEF ReadsFrom
      <4>3. p.row[1] \in AllDigits
        BY <1>0, <4>1
      <4>4. t[at + 1] \in AllDigits
        BY <3>1, <4>2, <4>3
      <4> QED BY <4>4 DEF AllDigits
    <3> QED BY <3>2, <3>3
  <2> QED BY <1>1, <2>1, <2>2
<1>7. Rule!AfterDigits(t, b + 1) = a /\ Rule!DigitsAt(t, b + 1) = p.row
  <2>1. ReadsFrom(t, b, p.row) /\ ~Rule!IsDigit(t[b + Len(p.row) + 1])
    BY <1>1, OtherChars DEF lr
  <2>2. b + Len(p.row) + 1 <= Len(t) /\ b \in Nat
    BY <1>5 DEF lr, n
  <2> HIDE DEF b
  <2> QED BY <1>0, <2>1, <2>2, DigitsRead DEF lr
<1>8. Rule!AfterDigits(t, a + 1) = z /\ Rule!DigitsAt(t, a + 1) = p.col
  <2>1. ReadsFrom(t, a, p.col)
    BY <1>1
  <2>2. t[z] = "]"
    BY <1>1, <1>5
  <2> HIDE DEF a, b
  <2>3. ~Rule!IsDigit(t[a + Len(p.col) + 1])
    BY <2>2, OtherChars DEF lc
  <2>4. a + Len(p.col) + 1 <= Len(t) /\ a \in Nat
    BY <1>5 DEF lc, n
  <2> QED BY <1>0, <2>1, <2>3, <2>4, DigitsRead DEF lc
<1>9. Rule!CharAt(t, a) = "," /\ Rule!CharAt(t, z) = "]" /\ Rule!CharAt(t, at) = "["
  <2>1. t[a] = "," /\ t[z] = "]"
    BY <1>1, <1>5
  <2> HIDE DEF a, z
  <2> QED BY <1>0, <1>1, <1>4, <1>5, <2>1
<1> HIDE DEF z, a
<1>10. b + 1 = IF p.minus THEN at + 2 ELSE at + 1
  BY <1>0, <1>3
<1> HIDE DEF b
<1>11. PICK r, m, c, e, size, row, col :
         /\ r = IF Rule!CharAt(t, at + 1) = "-" THEN at + 2 ELSE at + 1
         /\ m = Rule!AfterDigits(t, r)
         /\ c = IF Rule!CharAt(t, m) = "," THEN m + 1 ELSE m
         /\ e = Rule!AfterDigits(t, c)
         /\ size = Rule!Spelt(Rule!DigitsAt(t, r))
         /\ row = IF Rule!CharAt(t, at + 1) = "-" THEN -size ELSE size
         /\ col = Rule!Spelt(Rule!DigitsAt(t, c))
         /\ Rule!GetIndex(t, at, s, pos)
              = IF /\ Rule!CharAt(t, at) = "["
                   /\ Rule!CharAt(t, m) \in {",", "end"}
                   /\ Rule!CharAt(t, e) \in {"]", "end"}
                   /\ row \in -8 .. 8
                   /\ col < s.xsize
                THEN [ok |-> TRUE, cell |-> Rule!Cell(s, pos, row, col), col |-> col, stop |-> e]
                ELSE [ok |-> FALSE]
  BY IndexIs
<1>12. r = b + 1
  BY <1>6, <1>10, <1>11
<1>13. m = a /\ c = a + 1
  BY <1>7, <1>9, <1>11, <1>12
<1>14. e = z
  BY <1>8, <1>11, <1>13
<1>15. col = Number(p.col) /\ size = Number(p.row)
  <2>1. col = Rule!Spelt(p.col) /\ size = Rule!Spelt(p.row)
    BY <1>7, <1>8, <1>11, <1>12, <1>13
  <2> QED BY <1>0, <2>1, SpeltIs
<1>16. row = RowOf(p)
  BY <1>6, <1>11, <1>15 DEF RowOf
<1>17. z = MacroEnd(p, at)
  BY <1>5 DEF MacroEnd, sg, lr, lc
<1>18. /\ Rule!CharAt(t, at) = "[" /\ Rule!CharAt(t, m) \in {",", "end"}
       /\ Rule!CharAt(t, e) \in {"]", "end"}
  BY <1>9, <1>13, <1>14
<1>19. Rule!GetIndex(t, at, s, pos)
         = IF row \in -8 .. 8 /\ col < s.xsize
           THEN [ok |-> TRUE, cell |-> Rule!Cell(s, pos, row, col), col |-> col, stop |-> e]
           ELSE [ok |-> FALSE]
  BY <1>11, <1>18
<1> QED BY <1>14, <1>15, <1>16, <1>17, <1>19

(* Where each piece begins in the text.                                    *)
PiecesLaid(ps, t, o) ==
  /\ o[1] = 0 /\ o[Len(ps) + 1] = Len(t)
  /\ \A i \in 1 .. Len(ps) :
       /\ o[i] \in Nat /\ o[i+1] = o[i] + Len(Render(ps[i])) /\ o[i+1] <= Len(t)
       /\ ReadsFrom(t, o[i], Render(ps[i]))

LEMMA LayoutIs ==
  ASSUME NEW ps, GoodPieces(ps)
  PROVE  \E R, o : Rendered(ps) \in Seq(R) /\ PiecesLaid(ps, Rendered(ps), o)
<1> DEFINE R == (AllDigits \cup Punctuation) \cup {ps[i].char : i \in DOMAIN ps}
           d == [i \in DOMAIN ps |-> Render(ps[i])]
           n == Len(ps)
<1>0. n \in Nat /\ DOMAIN ps = 1 .. n
  BY DEF GoodPieces
<1>1. \A i \in 1 .. n : Render(ps[i]) \in Seq(R)
  <2>1. ASSUME NEW i \in 1 .. n PROVE Render(ps[i]) \in Seq(R)
    <3>1. CASE Char(ps[i])
      <4>1. Render(ps[i]) = <<ps[i].char>>
        BY <3>1 DEF Render, Char
      <4>2. ps[i].char \in R
        BY <1>0
      <4> HIDE DEF R
      <4> QED BY <4>1, <4>2
    <3>2. CASE Macro(ps[i])
      <4>1. Render(ps[i]) \in Seq(AllDigits \cup Punctuation)
        BY <3>2, MacroRendered
      <4>2. AllDigits \cup Punctuation \subseteq R
        OBVIOUS
      <4> HIDE DEF R
      <4> QED BY <4>1, <4>2
    <3> QED BY <1>0, <3>1, <3>2 DEF GoodPieces
  <2> QED BY <2>1
<1> HIDE DEF R, n
<1>2. d \in Seq(Seq(R)) /\ Len(d) = n /\ \A i \in 1 .. n : d[i] = Render(ps[i]) /\ d[i] \in Seq(R)
  BY <1>0, <1>1
<1>3. Rendered(ps) = Column!FlattenSeq(d)
  BY DEF Rendered, Rule!FlattenSeq, Column!FlattenSeq
<1> HIDE DEF d
<1>4. PICK a : /\ a[0] = <<>>
               /\ \A i \in 1 .. Len(d) : a[i] = a[i-1] \o d[i]
               /\ \A i \in 0 .. Len(d) : a[i] \in Seq(R)
               /\ Column!FlattenSeq(d) = a[Len(d)]
  BY <1>2, FlatIs
<1>5. \A i \in 1 .. n : Composed(R, a[i], a[i-1], d[i])
  <2>1. ASSUME NEW i \in 1 .. n PROVE Composed(R, a[i], a[i-1], d[i])
    <3>1. a[i] = a[i-1] \o d[i] /\ a[i-1] \in Seq(R) /\ d[i] \in Seq(R)
      <4>1. i - 1 \in 0 .. n
        BY <1>0
      <4> QED BY <1>2, <1>4, <4>1
    <3> QED BY <3>1, ComposedIs
  <2> QED BY <2>1
<1>6. \A i \in 0 .. n : a[i] \in Seq(R) /\ Len(a[i]) \in Nat
  BY <1>2, <1>4
<1>7. \A i \in 1 .. n : Len(a[i]) = Len(a[i-1]) + Len(d[i])
  BY <1>5 DEF Composed
<1> DEFINE In(i, j) == Len(a[i]) <= Len(a[j]) /\ ReadsFrom(a[j], Len(a[i-1]), d[i])
           T == {j \in Nat : j <= n => \A i \in 1 .. j : In(i, j)}
<1>8. 0 \in T
  BY <1>0
<1>9. ASSUME NEW j \in 0 .. n - 1, j \in T PROVE j + 1 \in T
  <2>0. j \in Nat /\ j + 1 \in 1 .. n /\ (j + 1) - 1 = j /\ j <= n /\ j \in 0 .. n /\ j + 1 \in 0 .. n
    BY <1>0
  <2>1. /\ Composed(R, a[j+1], a[j], d[j+1]) /\ a[j] \in Seq(R) /\ d[j+1] \in Seq(R)
        /\ Len(a[j+1]) = Len(a[j]) + Len(d[j+1]) /\ Len(d[j+1]) \in Nat
        /\ Len(a[j]) \in Nat /\ Len(a[j+1]) \in Nat /\ Len(a[j]) <= Len(a[j+1])
    <3> DEFINE x == j + 1
    <3>1. x \in 1 .. n /\ x - 1 = j /\ x \in 0 .. n
      BY <2>0
    <3> HIDE DEF x
    <3>2. Composed(R, a[x], a[x-1], d[x]) /\ d[x] \in Seq(R) /\ Len(a[x]) = Len(a[x-1]) + Len(d[x])
      BY <1>2, <1>5, <1>7, <3>1
    <3>3. a[j] \in Seq(R) /\ Len(a[j]) \in Nat /\ Len(a[x]) \in Nat
      BY <1>6, <2>0, <3>1
    <3>4. Len(d[x]) \in Nat
      BY <3>2
    <3>5. Len(a[x]) = Len(a[j]) + Len(d[x])
      BY <3>1, <3>2
    <3>6. Len(a[j]) <= Len(a[x])
      <4>1. \A u, v, w \in Nat : u = v + w => v <= u
        OBVIOUS
      <4> QED BY <3>3, <3>4, <3>5, <4>1
    <3> QED BY <3>1, <3>2, <3>3, <3>4, <3>5, <3>6 DEF x
  <2>2. In(j + 1, j + 1)
    <3>1. ReadsFrom(a[j+1], Len(a[j]), d[j+1])
      BY <2>1, ReadsOn
    <3> QED BY <2>0, <2>1, <3>1
  <2>3. ASSUME NEW i \in 1 .. j PROVE In(i, j + 1)
    <3>1. In(i, j) /\ i \in 1 .. n /\ i - 1 \in 0 .. n /\ i \in 0 .. n
      BY <1>0, <1>9, <2>0
    <3>2. Len(a[i-1]) \in Nat /\ d[i] \in Seq(R) /\ ReadsFrom(a[j], Len(a[i-1]), d[i])
      BY <1>2, <1>6, <3>1
    <3>3. ReadsFrom(a[j+1], Len(a[i-1]), d[i])
      BY <2>1, <3>2, ReadsOn
    <3>4. Len(a[i]) <= Len(a[j+1])
      <4>1. Len(a[i]) \in Nat
        BY <1>6, <3>1
      <4>2. Len(a[i]) <= Len(a[j])
        BY <3>1
      <4>3. Len(a[j]) <= Len(a[j+1])
        BY <2>1
      <4>4. Len(a[j]) \in Nat /\ Len(a[j+1]) \in Nat
        BY <2>1
      <4> HIDE DEF In
      <4> QED BY <4>1, <4>2, <4>3, <4>4
    <3> QED BY <3>3, <3>4
  <2>4. ASSUME NEW i \in 1 .. j + 1 PROVE In(i, j + 1)
    <3>1. i \in 1 .. j \/ i = j + 1
      BY <2>0
    <3> HIDE DEF In
    <3> QED BY <2>2, <2>3, <3>1
  <2> HIDE DEF In
  <2> QED BY <2>0, <2>4
<1> HIDE DEF T
<1>10. n \in T
  <2>1. 0 .. n \subseteq T
    BY <1>0, <1>8, <1>9, UpTo
  <2> QED BY <1>0, <2>1
<1>11. \A i \in 1 .. n : In(i, n)
  <2> HIDE DEF In
  <2> QED BY <1>0, <1>10 DEF T
<1> DEFINE o == [i \in 1 .. n + 1 |-> Len(a[i-1])]
<1>12. /\ o[1] = Len(a[0]) /\ o[n+1] = Len(a[n])
       /\ \A i \in 1 .. n : o[i] = Len(a[i-1]) /\ o[i+1] = Len(a[i])
  <2>1. /\ 1 \in 1 .. n + 1 /\ n + 1 \in 1 .. n + 1 /\ 1 - 1 = 0 /\ (n + 1) - 1 = n
        /\ \A i \in 1 .. n : i \in 1 .. n + 1 /\ i + 1 \in 1 .. n + 1 /\ (i + 1) - 1 = i
    BY <1>0
  <2>2. \A i \in 1 .. n + 1 : o[i] = Len(a[i-1])
    OBVIOUS
  <2> HIDE DEF o
  <2>3. o[1] = Len(a[0]) /\ o[n+1] = Len(a[n])
    <3>1. o[1] = Len(a[1-1]) /\ o[n+1] = Len(a[(n+1)-1])
      BY <2>1, <2>2
    <3> QED BY <2>1, <3>1
  <2>4. ASSUME NEW i \in 1 .. n PROVE o[i] = Len(a[i-1]) /\ o[i+1] = Len(a[i])
    <3>1. o[i] = Len(a[i-1]) /\ o[i+1] = Len(a[(i+1)-1])
      BY <2>1, <2>2
    <3> QED BY <2>1, <3>1
  <2> QED BY <2>3, <2>4
<1> HIDE DEF o
<1>13. Rendered(ps) = a[n] /\ a[n] \in Seq(R)
  <2>1. n \in 0 .. n
    BY <1>0
  <2> QED BY <1>2, <1>3, <1>4, <1>6, <2>1
<1>14. PiecesLaid(ps, a[n], o)
  <2>1. o[1] = 0 /\ o[n+1] = Len(a[n])
    BY <1>4, <1>12
  <2>2. ASSUME NEW i \in 1 .. n
        PROVE  /\ o[i] \in Nat /\ o[i+1] = o[i] + Len(Render(ps[i])) /\ o[i+1] <= Len(a[n])
               /\ ReadsFrom(a[n], o[i], Render(ps[i]))
    <3>1. i - 1 \in 0 .. n
      BY <1>0
    <3>2. o[i] = Len(a[i-1]) /\ o[i+1] = Len(a[i]) /\ d[i] = Render(ps[i])
      BY <1>2, <1>12
    <3> QED BY <1>6, <1>7, <1>11, <3>1, <3>2
  <2> QED BY <2>1, <2>2 DEF PiecesLaid, n
<1> QED BY <1>13, <1>14

(* A macro of the template is read in its place.                           *)
LEMMA ReadsInside ==
  ASSUME NEW b \in Nat, NEW at \in Nat, NEW R, NEW t \in Seq(R), NEW w, NEW c,
         ReadsFrom(t, b, w), ReadsFrom(w, at, c)
  PROVE  ReadsFrom(t, b + at, c)
<1>1. ASSUME NEW k \in 1 .. Len(c) PROVE (b + at) + k \in 1 .. Len(t) /\ t[(b + at) + k] = c[k]
  <2>1. at + k \in 1 .. Len(w) /\ w[at + k] = c[k]
    BY DEF ReadsFrom
  <2>2. b + (at + k) \in 1 .. Len(t) /\ t[b + (at + k)] = w[at + k]
    BY <2>1 DEF ReadsFrom
  <2>3. b + (at + k) = (b + at) + k
    BY <2>1
  <2> QED BY <2>1, <2>2, <2>3
<1> QED BY <1>1 DEF ReadsFrom

LEMMA MacroInText ==
  ASSUME NEW p, Macro(p), NEW b \in Nat, NEW R, NEW t \in Seq(R), ReadsFrom(t, b, Render(p)),
         b + Len(Render(p)) <= Len(t)
  PROVE  /\ t[b + 1] = "%" /\ t[b + 2] = "x" /\ MacroLaid(p, t, b + 3)
         /\ b + 3 \in 1 .. Len(t)
         /\ MacroEnd(p, b + 3) = b + Len(Render(p))
<1> DEFINE w == Render(p)
           g == Sign(p)
           lr == Len(p.row)
           lc == Len(p.col)
<1>0. /\ g \in Nat /\ lr \in Nat /\ lc \in Nat
  <2>1. p.row \in Seq(AllDigits) /\ p.col \in Seq(AllDigits)
    BY DEF Macro
  <2>2. lr \in Nat /\ lc \in Nat
    BY <2>1
  <2>3. g \in Nat
    BY DEF Sign
  <2> QED BY <2>2, <2>3
<1>1. Len(w) = 5 + g + lr + lc /\ w[1] = "%" /\ w[2] = "x" /\ MacroLaid(p, w, 3)
  BY MacroRendered
<1> HIDE DEF w
<1>2. /\ w[3] = "["
      /\ p.minus => w[4] = "-"
      /\ ReadsFrom(w, 3 + g, p.row)
      /\ w[3 + g + lr + 1] = ","
      /\ ReadsFrom(w, 3 + g + lr + 1, p.col)
      /\ w[3 + g + lr + lc + 2] = "]"
  <2>1. 3 + 1 = 4
    OBVIOUS
  <2> QED BY <1>1, <2>1 DEF MacroLaid
<1> HIDE DEF g, lr, lc
<1>3. \A k \in 1 .. Len(w) : b + k \in 1 .. Len(t) /\ t[b + k] = w[k]
  BY DEF ReadsFrom, w
<1>4. /\ 1 \in 1 .. Len(w) /\ 2 \in 1 .. Len(w) /\ 3 \in 1 .. Len(w) /\ 4 \in 1 .. Len(w)
      /\ 3 + g + lr + 1 \in 1 .. Len(w) /\ 3 + g + lr + lc + 2 \in 1 .. Len(w)
      /\ 3 + g \in Nat /\ 3 + g + lr + 1 \in Nat
  BY <1>0, <1>1
<1>5. /\ (b + 3) + 1 = b + 4 /\ b + (3 + g) = (b + 3) + g
      /\ b + (3 + g + lr + 1) = (b + 3) + g + lr + 1
      /\ b + (3 + g + lr + lc + 2) = (b + 3) + g + lr + lc + 2
      /\ b + (5 + g + lr + lc) = (b + 3) + g + lr + lc + 2
  BY <1>0
<1>6. t[b + 1] = "%" /\ t[b + 2] = "x" /\ t[b + 3] = "[" /\ b + 3 \in 1 .. Len(t)
  BY <1>1, <1>2, <1>3, <1>4
<1>7. p.minus => t[(b + 3) + 1] = "-"
  BY <1>2, <1>3, <1>4, <1>5
<1>8. ReadsFrom(t, (b + 3) + g, p.row)
  <2>1. ReadsFrom(t, b + (3 + g), p.row)
    BY <1>2, <1>4, ReadsInside DEF w
  <2> QED BY <1>5, <2>1
<1>9. t[(b + 3) + g + lr + 1] = ","
  <2>1. t[b + (3 + g + lr + 1)] = ","
    BY <1>2, <1>3, <1>4
  <2> QED BY <1>5, <2>1
<1>10. ReadsFrom(t, (b + 3) + g + lr + 1, p.col)
  <2>1. ReadsFrom(t, b + (3 + g + lr + 1), p.col)
    BY <1>2, <1>4, ReadsInside DEF w
  <2> QED BY <1>5, <2>1
<1>11. t[(b + 3) + g + lr + lc + 2] = "]"
  <2>1. t[b + (3 + g + lr + lc + 2)] = "]"
    BY <1>2, <1>3, <1>4
  <2> QED BY <1>5, <2>1
<1>12. MacroLaid(p, t, b + 3)
  BY <1>6, <1>7, <1>8, <1>9, <1>10, <1>11 DEF MacroLaid, g, lr, lc
<1>13. MacroEnd(p, b + 3) = b + Len(w)
  <2>1. MacroEnd(p, b + 3) = (b + 3) + g + lr + lc + 2
    BY DEF MacroEnd, g, lr, lc
  <2> QED BY <1>1, <1>5, <2>1
<1> QED BY <1>6, <1>12, <1>13 DEF w

(* What a macro means.                                                     *)
GoodSentence(s, pos) == s.size \in Nat /\ s.xsize \in Nat /\ pos \in 0 .. s.size - 1

LEMMA CellIs ==
  ASSUME NEW p, Macro(p), NEW s, NEW pos, GoodSentence(s, pos), RowOf(p) \in -8 .. 8
  PROVE  /\ Rule!Cell(s, pos, RowOf(p), Number(p.col)) = Meaning(p, s, pos)
         /\ Meaning(p, s, pos)[1] # "x" => Meaning(p, s, pos)[2] \in 0 .. 7
<1> DEFINE at == pos + RowOf(p)
           n == s.size
           x == <<"x", at, Number(p.col)>>
<1>0. n \in Nat /\ pos \in Nat /\ pos < n /\ at \in Int /\ -8 <= at /\ at <= pos + 8
  BY DEF GoodSentence
<1>1. p.kind # "char"
  BY DEF Macro
<1> HIDE DEF at, n, x
<1>2. Rule!Cell(s, pos, RowOf(p), Number(p.col))
        = IF at < 0 THEN <<"BOS", (-at) - 1>> ELSE IF at >= n THEN <<"EOS", at - n>> ELSE x
  BY DEF Rule!Cell, at, n, x
<1>3. Meaning(p, s, pos)
        = CASE at < 0 -> <<"BOS", (-1) - at>> [] at \in 0 .. n - 1 -> x [] at >= n -> <<"EOS", at - n>>
  BY <1>1 DEF Meaning, at, n, x
<1>4. CASE at < 0
  <2>1. (-at) - 1 = (-1) - at /\ (-1) - at \in 0 .. 7 /\ ~(at \in 0 .. n - 1) /\ ~(at >= n)
    BY <1>0, <1>4
  <2>2. Meaning(p, s, pos) = <<"BOS", (-1) - at>>
    BY <1>3, <1>4, <2>1
  <2> QED BY <1>2, <1>4, <2>1, <2>2
<1>5. CASE at >= n
  <2>1. ~(at < 0) /\ ~(at \in 0 .. n - 1) /\ at - n \in 0 .. 7
    BY <1>0, <1>5
  <2>2. Meaning(p, s, pos) = <<"EOS", at - n>>
    BY <1>3, <1>5, <2>1
  <2> QED BY <1>2, <1>5, <2>1, <2>2
<1>6. CASE at \in 0 .. n - 1
  <2>1. ~(at < 0) /\ ~(at >= n)
    BY <1>0, <1>6
  <2>2. Meaning(p, s, pos) = x
    BY <1>3, <1>6, <2>1
  <2>3. x[1] = "x"
    BY DEF x
  <2> QED BY <1>2, <2>1, <2>2, <2>3
<1> QED BY <1>0, <1>4, <1>5, <1>6

(* One turn of the loop passes over one piece.                             *)
LEMMA PieceTurnIs ==
  ASSUME NEW R, NEW t \in Seq(R), NEW ps, GoodPieces(ps), NEW o, PiecesLaid(ps, t, o),
         NEW s, NEW pos, GoodSentence(s, pos), NEW f, NEW i \in 1 .. Len(ps),
         f[o[i] + 1] = Step(t, s, pos, f, o[i] + 1)
  PROVE  f[o[i] + 1] = IF Acceptable(ps[i], s)
                       THEN Add(Meaning(ps[i], s, pos), Needs(ps[i]), f[o[i+1] + 1])
                       ELSE Verdict("refused")
<1> DEFINE b == o[i]
           e == o[i+1]
           p == ps[i]
           w == Render(p)
<1>1. b \in Nat /\ e = b + Len(w) /\ e <= Len(t) /\ ReadsFrom(t, b, w) /\ Len(t) \in Nat
  BY DEF PiecesLaid
<1>2. Char(p) \/ Macro(p)
  BY DEF GoodPieces
<1>3. f[b + 1] = Step(t, s, pos, f, b + 1)
  OBVIOUS
<1>4. f[b + 1] = IF Acceptable(p, s) THEN Add(Meaning(p, s, pos), Needs(p), f[e + 1])
                 ELSE Verdict("refused")
  <2> HIDE DEF b, e, p
  <2>1. CASE Char(p)
    <3> DEFINE c == p.char
    <3>1. w = <<c>> /\ c # "%" /\ p.kind = "char"
      BY <2>1 DEF Char, Render
    <3>2. Len(w) = 1 /\ w[1] = c
      BY <3>1
    <3> HIDE DEF w, c
    <3>3. e = b + 1 /\ b + 1 <= Len(t) /\ 1 \in 1 .. Len(w)
      BY <1>1, <3>2
    <3>4. t[b + 1] = c
      BY <1>1, <3>2, <3>3 DEF ReadsFrom
    <3>5. ~(b + 1 > Len(t) + 1) /\ b + 1 # Len(t) + 1
      BY <1>1, <3>3
    <3>6. f[b + 1] = Add(c, 0, f[(b + 1) + 1])
      BY <1>3, <3>1, <3>4, <3>5 DEF Step
    <3>7. Acceptable(p, s) /\ Meaning(p, s, pos) = c /\ Needs(p) = 0
      BY <3>1 DEF Acceptable, Meaning, Needs, c
    <3> QED BY <3>3, <3>6, <3>7
  <2>2. CASE Macro(p)
    <3>1. /\ t[b + 1] = "%" /\ t[b + 2] = "x" /\ MacroLaid(p, t, b + 3)
          /\ b + 3 \in 1 .. Len(t) /\ MacroEnd(p, b + 3) = b + Len(w)
      BY <1>1, <2>2, MacroInText
    <3> HIDE DEF w
    <3>2. (b + 1) + 1 = b + 2 /\ (b + 1) + 2 = b + 3 /\ ~(b + 1 > Len(t) + 1) /\ b + 1 # Len(t) + 1
          /\ b + 2 <= Len(t)
      BY <1>1, <3>1
    <3>3. Rule!CharAt(t, (b + 1) + 1) = "x"
      BY <3>1, <3>2 DEF Rule!CharAt
    <3> DEFINE g == Rule!GetIndex(t, b + 3, s, pos)
    <3>4. f[b + 1] = IF g.ok THEN Add(g.cell, g.col + 1, f[g.stop + 1]) ELSE Verdict("refused")
      BY <1>3, <3>1, <3>2, <3>3 DEF Step
    <3>5. MacroEnd(p, b + 3) <= Len(t) /\ MacroEnd(p, b + 3) = e
      BY <1>1, <3>1
    <3> DEFINE x == Rule!Cell(s, pos, RowOf(p), Number(p.col))
               c == Number(p.col)
    <3>6. g = IF RowOf(p) \in -8 .. 8 /\ c < s.xsize
              THEN [ok |-> TRUE, cell |-> x, col |-> c, stop |-> e] ELSE [ok |-> FALSE]
      <4> HIDE DEF g
      <4>1. Rule!GetIndex(t, b + 3, s, pos)
              = IF RowOf(p) \in -8 .. 8 /\ Number(p.col) < s.xsize
                THEN [ok |-> TRUE, cell |-> Rule!Cell(s, pos, RowOf(p), Number(p.col)),
                      col |-> Number(p.col), stop |-> MacroEnd(p, b + 3)]
                ELSE [ok |-> FALSE]
        BY <2>2, <3>1, <3>5, MacroRead
      <4> QED BY <3>5, <4>1 DEF g
    <3> HIDE DEF g, x, c
    <3>7. Acceptable(p, s) <=> RowOf(p) \in -8 .. 8 /\ c < s.xsize
      BY <2>2 DEF Acceptable, Macro, c
    <3>8. CASE Acceptable(p, s)
      <4>1. g.ok /\ g.cell = x /\ g.col = c /\ g.stop = e
        BY <3>6, <3>7, <3>8
      <4>2. x = Meaning(p, s, pos)
        BY <2>2, <3>7, <3>8, CellIs DEF x
      <4>3. Needs(p) = c + 1
        BY <2>2 DEF Needs, Macro, c
      <4> QED BY <3>4, <3>8, <4>1, <4>2, <4>3
    <3>9. CASE ~Acceptable(p, s)
      <4>1. ~g.ok
        <5>1. g = [ok |-> FALSE]
          BY <3>6, <3>7, <3>9
        <5> QED BY <5>1
      <4> QED BY <3>4, <3>9, <4>1
    <3> QED BY <3>8, <3>9
  <2> QED BY <1>2, <2>1, <2>2
<1> QED BY <1>4

(* The largest of a set of naturals, given by its properties.              *)
Greatest(S, c) == c \in S /\ \A y \in S : y <= c

LEMMA GreatestIs ==
  ASSUME NEW S, S \subseteq Nat, NEW c, Greatest(S, c)
  PROVE  Rule!Max(S) = c
<1>1. c \in S /\ \A y \in S : c >= y
  BY DEF Greatest
<1> DEFINE m == CHOOSE x \in S : \A y \in S : x >= y
<1>2. m \in S /\ \A y \in S : m >= y
  BY <1>1
<1>3. Rule!Max(S) = m
  BY DEF Rule!Max
<1> HIDE DEF m
<1>4. m \in Nat /\ c \in Nat /\ m >= c /\ c >= m
  BY <1>1, <1>2
<1> QED BY <1>3, <1>4

LEMMA GreatestWith ==
  ASSUME NEW S, S \subseteq Nat, NEW c, Greatest(S, c), NEW n \in Nat
  PROVE  Greatest(S \cup {n}, Rule!Max({n, c}))
<1>1. c \in Nat /\ c \in S /\ \A y \in S : y \in Nat /\ y <= c
  BY DEF Greatest
<1>2. CASE n >= c
  <2>1. Greatest({n, c}, n)
    BY <1>1, <1>2 DEF Greatest
  <2>2. Rule!Max({n, c}) = n
    BY <1>1, <2>1, GreatestIs
  <2>3. Greatest(S \cup {n}, n)
    BY <1>1, <1>2 DEF Greatest
  <2> QED BY <2>2, <2>3
<1>3. CASE ~(n >= c)
  <2>1. Greatest({n, c}, c)
    BY <1>1, <1>3 DEF Greatest
  <2>2. Rule!Max({n, c}) = c
    BY <1>1, <2>1, GreatestIs
  <2>3. Greatest(S \cup {n}, c)
    BY <1>1, <1>3 DEF Greatest
  <2> QED BY <2>2, <2>3
<1> QED BY <1>2, <1>3

(* What the pieces from the i-th on become.                                *)
NeedsFrom(ps, i) == {0} \cup {Needs(ps[k]) : k \in i .. Len(ps)}
MeaningFrom(ps, s, pos, i, w) ==
  /\ w \in Seq({Meaning(ps[k], s, pos) : k \in 1 .. Len(ps)}) /\ Len(w) = (Len(ps) + 1) - i
  /\ \A k \in i .. Len(ps) : w[(k + 1) - i] = Meaning(ps[k], s, pos)
AllAcceptable(ps, s, i) == \A k \in i .. Len(ps) : Acceptable(ps[k], s)

Expanded(ps, s, pos, i, r) ==
  /\ Ruled(r)
  /\ AllAcceptable(ps, s, i) => /\ r.verdict = "built" /\ MeaningFrom(ps, s, pos, i, r.feature)
                                /\ Greatest(NeedsFrom(ps, i), r.columns)
  /\ ~AllAcceptable(ps, s, i) => r.verdict = "refused"

LEMMA NeedsIs ==
  ASSUME NEW ps, GoodPieces(ps), NEW i
  PROVE  /\ NeedsFrom(ps, i) \subseteq Nat \/ i \notin 1 .. Len(ps) + 1
         /\ i \in 1 .. Len(ps) => Needs(ps[i]) \in Nat
<1>1. ASSUME NEW k \in 1 .. Len(ps) PROVE Needs(ps[k]) \in Nat
  <2>1. Char(ps[k]) \/ Macro(ps[k])
    BY DEF GoodPieces
  <2>2. CASE Char(ps[k])
    BY <2>2 DEF Needs, Char
  <2>3. CASE Macro(ps[k])
    <3>1. Number(ps[k].col) \in Nat
      BY <2>3, SpeltIs DEF Macro
    <3>2. Needs(ps[k]) = Number(ps[k].col) + 1
      BY <2>3 DEF Needs, Macro
    <3> QED BY <3>1, <3>2
  <2> QED BY <2>1, <2>2, <2>3
<1>2. ASSUME i \in 1 .. Len(ps) + 1 PROVE NeedsFrom(ps, i) \subseteq Nat
  <2>1. \A k \in i .. Len(ps) : k \in 1 .. Len(ps)
    BY <1>2
  <2> QED BY <1>1, <2>1 DEF NeedsFrom
<1> QED BY <1>1, <1>2

LEMMA ExpandedEnd ==
  ASSUME NEW ps, GoodPieces(ps), NEW s, NEW pos
  PROVE  Expanded(ps, s, pos, Len(ps) + 1, Verdict("built"))
<1> DEFINE n == Len(ps)
<1>0. n \in Nat
  BY DEF GoodPieces
<1> HIDE DEF n
<1>1. n + 1 .. n = {}
  BY <1>0
<1>2. AllAcceptable(ps, s, n + 1)
  BY <1>1 DEF AllAcceptable, n
<1>3. MeaningFrom(ps, s, pos, n + 1, <<>>)
  <2>1. <<>> \in Seq({Meaning(ps[k], s, pos) : k \in 1 .. Len(ps)}) /\ Len(<<>>) = 0
    OBVIOUS
  <2>2. (n + 1) - (n + 1) = 0
    BY <1>0
  <2> QED BY <1>1, <2>1, <2>2 DEF MeaningFrom, n
<1>4. Greatest(NeedsFrom(ps, n + 1), 0)
  <2>1. NeedsFrom(ps, n + 1) = {0}
    BY <1>1 DEF NeedsFrom, n
  <2> QED BY <2>1 DEF Greatest
<1>5. Expanded(ps, s, pos, n + 1, Verdict("built"))
  BY <1>2, <1>3, <1>4, VerdictIs DEF Expanded
<1> QED BY <1>5 DEF n

LEMMA ExpandedTurn ==
  ASSUME NEW ps, GoodPieces(ps), NEW s, NEW pos, NEW i \in 1 .. Len(ps), NEW q,
         Expanded(ps, s, pos, i + 1, q), NEW r,
         r = IF Acceptable(ps[i], s) THEN Add(Meaning(ps[i], s, pos), Needs(ps[i]), q)
             ELSE Verdict("refused")
  PROVE  Expanded(ps, s, pos, i, r)
<1> DEFINE n == Len(ps)
           F == {Meaning(ps[k], s, pos) : k \in 1 .. Len(ps)}
           m == Meaning(ps[i], s, pos)
           d == Needs(ps[i])
<1>0. n \in Nat /\ i \in 1 .. n
  BY DEF GoodPieces
<1>1. d \in Nat
  BY NeedsIs
<1>2. m \in F
  OBVIOUS
<1> HIDE DEF n
<1>3. i .. n = {i} \cup (i + 1 .. n) /\ i + 1 \in 1 .. n + 1
  BY <1>0
<1>4. AllAcceptable(ps, s, i) <=> Acceptable(ps[i], s) /\ AllAcceptable(ps, s, i + 1)
  BY <1>3 DEF AllAcceptable, n
<1> HIDE DEF F, m, d
<1>5. CASE ~Acceptable(ps[i], s)
  <2>1. r = Verdict("refused")
    BY <1>5
  <2> QED BY <1>4, <1>5, <2>1, VerdictIs DEF Expanded
<1>6. CASE Acceptable(ps[i], s)
  <2>1. r = Add(m, d, q)
    BY <1>6 DEF m, d
  <2>2. Ruled(q)
    BY DEF Expanded
  <2>3. Added(m, d, q, r)
    BY <2>1, <2>2, AddIs
  <2>4. Ruled(r) /\ r.verdict = q.verdict /\ r.feature = <<m>> \o q.feature
        /\ r.columns = Rule!Max({d, q.columns})
    BY <2>3 DEF Added
  <2>5. CASE ~AllAcceptable(ps, s, i + 1)
    <3>1. q.verdict = "refused"
      BY <2>5 DEF Expanded
    <3> QED BY <1>4, <2>4, <2>5, <3>1 DEF Expanded
  <2>6. CASE AllAcceptable(ps, s, i + 1)
    <3>1. /\ q.verdict = "built" /\ MeaningFrom(ps, s, pos, i + 1, q.feature)
          /\ Greatest(NeedsFrom(ps, i + 1), q.columns)
      BY <2>6 DEF Expanded
    <3>2. MeaningFrom(ps, s, pos, i, r.feature)
      <4> DEFINE w == q.feature
                 z == <<m>> \o w
      <4>1. /\ w \in Seq(F) /\ Len(w) = (n + 1) - (i + 1)
            /\ \A k \in i + 1 .. n : w[(k + 1) - (i + 1)] = Meaning(ps[k], s, pos)
        BY <3>1 DEF MeaningFrom, F, n
      <4>2. <<m>> \in Seq(F) /\ Len(<<m>>) = 1 /\ <<m>>[1] = m
        BY <1>2
      <4> DEFINE y == <<m>>
      <4>3. y \in Seq(F) /\ Len(y) = 1 /\ y[1] = m /\ z = y \o w
        BY <4>2
      <4> HIDE DEF w, z, y
      <4>4. Composed(F, z, y, w)
        BY <4>1, <4>3, ComposedIs
      <4>5. /\ z \in Seq(F) /\ Len(z) = 1 + Len(w) /\ z[1] = m
            /\ \A k \in 1 .. Len(w) : z[1 + k] = w[k]
        BY <4>3, <4>4 DEF Composed
      <4>6. Len(z) = (n + 1) - i
        BY <1>0, <4>1, <4>5
      <4>7. ASSUME NEW k \in i .. n PROVE z[(k + 1) - i] = Meaning(ps[k], s, pos)
        <5>1. CASE k = i
          <6>1. (k + 1) - i = 1
            BY <1>0, <5>1
          <6> QED BY <4>5, <5>1, <6>1 DEF m
        <5>2. CASE k # i
          <6>1. k \in i + 1 .. n /\ (k + 1) - (i + 1) \in 1 .. Len(w)
                /\ 1 + ((k + 1) - (i + 1)) = (k + 1) - i
            BY <1>0, <4>1, <5>2
          <6>2. z[1 + ((k + 1) - (i + 1))] = w[(k + 1) - (i + 1)]
            BY <4>5, <6>1
          <6> QED BY <4>1, <6>1, <6>2
        <5> QED BY <5>1, <5>2
      <4>8. MeaningFrom(ps, s, pos, i, z)
        BY <4>5, <4>6, <4>7 DEF MeaningFrom, F, n
      <4> QED BY <2>4, <4>8 DEF z, w
    <3>3. Greatest(NeedsFrom(ps, i), r.columns)
      <4>1. NeedsFrom(ps, i) = NeedsFrom(ps, i + 1) \cup {d}
        BY <1>3 DEF NeedsFrom, d, n
      <4>2. NeedsFrom(ps, i + 1) \subseteq Nat
        BY <1>3, NeedsIs DEF n
      <4>3. Greatest(NeedsFrom(ps, i + 1) \cup {d}, Rule!Max({d, q.columns}))
        BY <1>1, <3>1, <4>2, GreatestWith
      <4> QED BY <2>4, <4>1, <4>3
    <3> QED BY <1>4, <1>6, <2>4, <2>6, <3>1, <3>2, <3>3 DEF Expanded
  <2> QED BY <2>5, <2>6
<1> QED BY <1>5, <1>6

LEMMA WholeExpanded ==
  ASSUME NEW ps, GoodPieces(ps), NEW s, NEW pos, GoodSentence(s, pos)
  PROVE  Expanded(ps, s, pos, 1, Rule!ApplyRule(Rendered(ps), s, pos))
<1> DEFINE t == Rendered(ps)
           n == Len(ps)
<1>1. PICK R, o : t \in Seq(R) /\ PiecesLaid(ps, t, o)
  BY LayoutIs
<1> HIDE DEF t
<1>2. PICK f : /\ Rule!ApplyRule(t, s, pos) = f[1]
               /\ \A p \in 1 .. Len(t) + 3 : f[p] = Step(t, s, pos, f, p)
  BY <1>1, RuleIs
<1>0. n \in Nat /\ Len(t) \in Nat
  BY <1>1 DEF GoodPieces
<1> DEFINE C(i) == Expanded(ps, s, pos, i, f[o[i] + 1])
           T == {j \in Nat : j <= n => C((n + 1) - j)}
<1>3. C(n + 1)
  <2>1. o[n + 1] = Len(t)
    BY <1>1 DEF PiecesLaid
  <2>2. Len(t) + 1 \in 1 .. Len(t) + 3 /\ ~(Len(t) + 1 > Len(t) + 1)
    BY <1>0
  <2>3. f[Len(t) + 1] = Verdict("built")
    BY <1>2, <2>2 DEF Step
  <2> QED BY <2>1, <2>3, ExpandedEnd
<1>4. ASSUME NEW i \in 1 .. n, C(i + 1) PROVE C(i)
  <2>1. o[i] \in Nat /\ o[i] <= Len(t)
    <3>1. o[i] \in Nat /\ o[i+1] = o[i] + Len(Render(ps[i])) /\ o[i+1] <= Len(t)
      BY <1>1 DEF PiecesLaid
    <3>2. Len(Render(ps[i])) \in Nat
      <4>1. CASE Char(ps[i])
        <5>1. Render(ps[i]) = <<ps[i].char>>
          BY <4>1 DEF Char, Render
        <5> QED BY <5>1
      <4>2. CASE Macro(ps[i])
        <5>1. Render(ps[i]) \in Seq(AllDigits \cup Punctuation)
          BY <4>2, MacroRendered
        <5> QED BY <5>1
      <4> QED BY <4>1, <4>2 DEF GoodPieces
    <3> DEFINE w == Len(Render(ps[i]))
               x == o[i]
               y == o[i+1]
    <3>3. x \in Nat /\ w \in Nat /\ y = x + w /\ y <= Len(t)
      BY <3>1, <3>2
    <3> HIDE DEF w, x, y
    <3>4. x <= Len(t)
      BY <1>0, <3>3
    <3> QED BY <3>3, <3>4 DEF x
  <2>2. o[i] + 1 \in 1 .. Len(t) + 3
    BY <1>0, <2>1
  <2>3. f[o[i] + 1] = Step(t, s, pos, f, o[i] + 1)
    BY <1>2, <2>2
  <2>4. f[o[i] + 1] = IF Acceptable(ps[i], s)
                      THEN Add(Meaning(ps[i], s, pos), Needs(ps[i]), f[o[i+1] + 1])
                      ELSE Verdict("refused")
    BY <1>1, <2>3, PieceTurnIs
  <2> QED BY <1>4, <2>4, ExpandedTurn
<1>5. 0 \in T
  <2>1. (n + 1) - 0 = n + 1
    BY <1>0
  <2> HIDE DEF C, n
  <2> QED BY <1>0, <1>3, <2>1
<1>6. ASSUME NEW j \in 0 .. n - 1, j \in T PROVE j + 1 \in T
  <2> DEFINE i == (n + 1) - (j + 1)
  <2>1. i \in 1 .. n /\ i + 1 = (n + 1) - j /\ j \in Nat /\ j + 1 \in Nat /\ j <= n
    BY <1>0
  <2> HIDE DEF C, n
  <2>2. C((n + 1) - j)
    BY <1>6, <2>1
  <2> HIDE DEF i
  <2>3. C(i)
    BY <1>4, <2>1, <2>2
  <2> QED BY <2>1, <2>3 DEF i
<1> HIDE DEF C
<1>7. n \in T
  <2> HIDE DEF T, n
  <2>1. 0 .. n \subseteq T
    BY <1>0, <1>5, <1>6, UpTo
  <2> QED BY <1>0, <2>1
<1>8. C(1)
  <2> HIDE DEF n
  <2>1. n <= n /\ (n + 1) - n = 1
    BY <1>0
  <2> QED BY <1>7, <2>1
<1>9. f[o[1] + 1] = f[1]
  <2>1. o[1] = 0 /\ 0 + 1 = 1
    BY <1>1 DEF PiecesLaid
  <2> QED BY <2>1
<1> QED BY <1>2, <1>8, <1>9 DEF C, t

TemplateKnown ==
  /\ When("pieces") => GoodPieces(case.input)
  /\ When("string") => case.input \in Seq({case.input[i] : i \in DOMAIN case.input})

(* A template becomes its pieces with the macros replaced, or is refused   *)
(* for a row or a column that cannot be, at every position of every        *)
(* sentence; and only a macro that is not closed is read on behind the NUL *)
(* (feature.cpp 22-123).                                                   *)
THEOREM TemplateAlwaysExact == CasesSpec => []TemplateExact
<1>1. CasesInit => TemplateKnown
  <2> SUFFICES ASSUME CasesInit PROVE TemplateKnown
    OBVIOUS
  <2> DEFINE c == case.input
  <2>1. ASSUME When("pieces") PROVE GoodPieces(c)
    <3>1. c \in PieceLists
      BY <2>1 DEF CasesInit, Case, When
    <3> HIDE DEF c
    <3>2. /\ c \in Seq({c[i] : i \in DOMAIN c})
          /\ \A i \in DOMAIN c :
               \/ c[i].kind = "char" /\ c[i].char # "%"
               \/ /\ c[i].kind = "macro" /\ c[i].minus \in BOOLEAN
                  /\ c[i].row \in Seq({"0", "1", "2", "3", "4", "5", "6", "7", "8", "9"})
                  /\ c[i].col \in Seq({"0", "1", "2", "3", "4", "5", "6", "7", "8", "9"})
      BY <3>1, TemplatesAssumption
    <3> QED BY <3>2 DEF GoodPieces, Char, Macro, AllDigits
  <2>2. ASSUME When("string") PROVE c \in Seq({c[i] : i \in DOMAIN c})
    <3>1. c \in Strings
      BY <2>2 DEF CasesInit, Case, When
    <3> HIDE DEF c
    <3> QED BY <3>1, TemplatesAssumption
  <2> QED BY <2>1, <2>2 DEF TemplateKnown
<1>2. TemplateKnown /\ [CasesNext]_case => TemplateKnown'
  BY DEF TemplateKnown, When, CasesNext
<1>3. TemplateKnown => TemplateExact
  <2> SUFFICES ASSUME TemplateKnown PROVE TemplateExact
    OBVIOUS
  <2>1. ASSUME NEW s \in Sentences, NEW pos \in 0 .. s.size - 1, When("pieces")
        PROVE  LET ps == case.input
                   r  == Rule!ApplyRule(Rendered(ps), s, pos)
               IN  IF \A i \in DOMAIN ps : Acceptable(ps[i], s)
                   THEN /\ r.verdict = "built"
                        /\ r.feature = [i \in DOMAIN ps |-> Meaning(ps[i], s, pos)]
                        /\ r.columns = Rule!Max({0} \cup {Needs(ps[i]) : i \in DOMAIN ps})
                        /\ \A i \in DOMAIN ps :
                             ps[i].kind = "macro" /\ r.feature[i][1] # "x" => r.feature[i][2] \in 0 .. 7
                   ELSE r.verdict = "refused"
    <3> DEFINE ps == case.input
               r == Rule!ApplyRule(Rendered(ps), s, pos)
               n == Len(ps)
    <3>2. GoodPieces(ps)
      BY <2>1 DEF TemplateKnown
    <3>3. GoodSentence(s, pos)
      BY TemplatesAssumption DEF GoodSentence
    <3> HIDE DEF ps
    <3>4. Expanded(ps, s, pos, 1, r)
      BY <3>2, <3>3, WholeExpanded
    <3> HIDE DEF r
    <3>5. n \in Nat /\ DOMAIN ps = 1 .. n
      BY <3>2 DEF GoodPieces
    <3>6. AllAcceptable(ps, s, 1) <=> \A i \in DOMAIN ps : Acceptable(ps[i], s)
      BY <3>5 DEF AllAcceptable
    <3>7. CASE ~AllAcceptable(ps, s, 1)
      BY <3>4, <3>6, <3>7 DEF Expanded, ps, r
    <3>8. CASE AllAcceptable(ps, s, 1)
      <4>1. /\ r.verdict = "built" /\ MeaningFrom(ps, s, pos, 1, r.feature)
            /\ Greatest(NeedsFrom(ps, 1), r.columns)
        BY <3>4, <3>8 DEF Expanded
      <4> DEFINE w == r.feature
                 F == {Meaning(ps[k], s, pos) : k \in 1 .. Len(ps)}
                 z == [i \in DOMAIN ps |-> Meaning(ps[i], s, pos)]
      <4>2. w \in Seq(F) /\ Len(w) = (n + 1) - 1 /\ \A k \in 1 .. n : w[(k + 1) - 1] = Meaning(ps[k], s, pos)
        BY <4>1 DEF MeaningFrom
      <4>3. z \in Seq(F) /\ Len(z) = n /\ \A k \in 1 .. n : z[k] = Meaning(ps[k], s, pos)
        BY <3>5
      <4> HIDE DEF w, F, z, n
      <4>4. Len(w) = n /\ \A k \in 1 .. n : w[k] = Meaning(ps[k], s, pos)
        <5>1. (n + 1) - 1 = n /\ \A k \in 1 .. n : (k + 1) - 1 = k
          BY <3>5
        <5>2. ASSUME NEW k \in 1 .. n PROVE w[k] = Meaning(ps[k], s, pos)
          <6>1. w[(k + 1) - 1] = Meaning(ps[k], s, pos)
            BY <4>2
          <6> QED BY <5>1, <6>1
        <5> QED BY <4>2, <5>1, <5>2
      <4>5. w = z
        BY <4>2, <4>3, <4>4, SameWord
      <4>6. r.columns = Rule!Max(NeedsFrom(ps, 1))
        <5>1. NeedsFrom(ps, 1) \subseteq Nat
          <6>1. 1 \in 1 .. Len(ps) + 1
            BY <3>5 DEF n
          <6> QED BY <3>2, <6>1, NeedsIs
        <5> QED BY <4>1, <5>1, GreatestIs
      <4>7. NeedsFrom(ps, 1) = {0} \cup {Needs(ps[i]) : i \in DOMAIN ps}
        BY <3>5 DEF NeedsFrom, n
      <4>8. ASSUME NEW i \in DOMAIN ps, ps[i].kind = "macro", w[i][1] # "x" PROVE w[i][2] \in 0 .. 7
        <5>1. Macro(ps[i])
          BY <3>2, <4>8 DEF GoodPieces, Char
        <5>2. RowOf(ps[i]) \in -8 .. 8
          BY <3>5, <3>8, <5>1 DEF AllAcceptable, Acceptable, Macro, n
        <5>3. Meaning(ps[i], s, pos)[1] # "x" => Meaning(ps[i], s, pos)[2] \in 0 .. 7
          BY <3>3, <5>1, <5>2, CellIs
        <5>4. w[i] = Meaning(ps[i], s, pos)
          BY <3>5, <4>4
        <5> QED BY <4>8, <5>3, <5>4
      <4>9. /\ r.verdict = "built" /\ r.feature = [i \in DOMAIN ps |-> Meaning(ps[i], s, pos)]
            /\ r.columns = Rule!Max({0} \cup {Needs(ps[i]) : i \in DOMAIN ps})
            /\ \A i \in DOMAIN ps :
                 ps[i].kind = "macro" /\ r.feature[i][1] # "x" => r.feature[i][2] \in 0 .. 7
        BY <4>1, <4>5, <4>6, <4>7, <4>8 DEF w, z
      <4> QED BY <3>6, <3>8, <4>9 DEF ps, r
    <3> QED BY <3>7, <3>8
  <2>2. ASSUME NEW s \in Sentences, NEW pos \in 0 .. s.size - 1, When("string"),
               Rule!ApplyRule(case.input, s, pos).verdict = "undefined"
        PROVE  \E i \in DOMAIN case.input :
                 /\ case.input[i] = "["
                 /\ \A j \in i .. Len(case.input) : case.input[j] \notin {"]", "%"}
    <3> DEFINE t == case.input
    <3>2. t \in Seq({t[i] : i \in DOMAIN t})
      BY <2>2 DEF TemplateKnown
    <3>3. Rule!ApplyRule(t, s, pos).verdict = "undefined"
      BY <2>2
    <3> HIDE DEF t
    <3> DEFINE R == {t[i] : i \in DOMAIN t}
    <3>4. t \in Seq(R)
      BY <3>2
    <3> HIDE DEF R
    <3>5. PICK i \in 1 .. Len(t) : Unclosed(t, i)
      BY <3>3, <3>4, OnlyUnclosed
    <3>6. i \in DOMAIN t
      BY <3>4
    <3> QED BY <3>5, <3>6 DEF Unclosed, t
  <2> QED BY <2>1, <2>2 DEF TemplateExact
<1> QED BY <1>1, <1>2, <1>3, PTL DEF CasesSpec
=============================================================================
