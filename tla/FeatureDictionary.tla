------------------------- MODULE FeatureDictionary -------------------------
(***************************************************************************)
(* The feature dictionary of training: EncoderFeatureIndex::getID and      *)
(* shrink (feature_index.cpp 110-125, 254-279), FeatureCache (feature_cache*)
(* .cpp 13-33) and the rows buildFeatures files in it (feature.cpp 162-196)*)
(*                                                                         *)
(* A feature owns a block of consecutive weights: one per tag for a 'U'    *)
(* feature, one per pair of tags for a 'B' feature.  dic_ gives the first  *)
(* index of the block; nodes and paths keep only such indices, in rows of  *)
(* the cache, and add the tag to them on every access.  After reading,     *)
(* shrink() drops rare features and renumbers the others while the cache   *)
(* still holds the old numbers.                                            *)
(*                                                                         *)
(* A row has a number for every template that fired, the same one twice    *)
(* where two templates gave one feature, as those of a bag of words do.    *)
(* fired remembers which features a row was built from; the code forgets.  *)
(***************************************************************************)
EXTENDS Integers, Sequences, FiniteSets

CONSTANTS K,          \* the keys are 1..K, in the order std::map keeps them
          Unigram,    \* those that start with 'U'
          Y,          \* y_.size()
          Freq,       \* -f
          MaxRows,    \* bound on the rows of the training set
          MaxFires    \* bound on the templates of one kind, so on a row

ASSUME DictionaryAssumption == /\ K \in Nat
                               /\ Unigram \subseteq 1..K
                               /\ Y \in Nat \ {0}
                               /\ Freq \in Nat
                               /\ MaxRows \in Nat
                               /\ MaxFires \in Nat

Key == 1..K
Width(key) == IF key \in Unigram THEN Y ELSE Y * Y

VARIABLES phase,      \* read, keys, rows, train
          known,      \* the keys of dic_
          id, count,  \* dic_[key].first and .second, for known keys
          maxid,      \* maxid_
          cache,      \* the rows of the FeatureCache
          feature,    \* the row being built
          fired, firing,   \* history: the keys behind cache and feature
          old2new, newMax, \* shrink(): the renumbering and new_maxid
          cur,        \* shrink(): the key, then the row, of the loop
          oldKnown, oldId  \* history: the dictionary shrink() started from

dicVars  == <<known, id, count, maxid>>
rowVars  == <<cache, feature, fired, firing>>
loopVars == <<old2new, newMax, cur>>
oldVars  == <<oldKnown, oldId>>
vars     == <<phase, dicVars, rowVars, loopVars, oldVars>>

Init == /\ phase = "read"
        /\ known = {} /\ maxid = 0
        /\ id = [key \in Key |-> 0] /\ count = [key \in Key |-> 0]
        /\ cache = <<>> /\ fired = <<>>
        /\ feature = <<>> /\ firing = <<>>
        /\ old2new = {} /\ newMax = 0 /\ cur = 1
        /\ oldKnown = {} /\ oldId = id
-----------------------------------------------------------------------------
GetIDOneWeight(key) ==                       \* mutant: ++maxid_ for any key
  /\ phase = "read" /\ Len(firing) < MaxFires
  /\ \A k \in DOMAIN firing : (firing[k] \in Unigram) = (key \in Unigram)
  /\ Len(cache) < MaxRows
  /\ IF key \in known
     THEN /\ count' = [count EXCEPT ![key] = @ + 1]
          /\ UNCHANGED <<known, id, maxid>>
     ELSE /\ known' = known \cup {key}
          /\ id' = [id EXCEPT ![key] = maxid]
          /\ count' = [count EXCEPT ![key] = 1]
          /\ maxid' = maxid + 1
  /\ feature' = Append(feature, id'[key])
  /\ firing' = Append(firing, key)
  /\ UNCHANGED <<phase, cache, fired, loopVars, oldVars>>

(* One template applied at one position (the ADD macro, feature.cpp 159).  *)
(* A row is filled by the templates of one kind, 'U' or 'B'.               *)
GetID(key) ==
  /\ phase = "read" /\ Len(firing) < MaxFires
  /\ \A k \in DOMAIN firing : (firing[k] \in Unigram) = (key \in Unigram)
  /\ Len(cache) < MaxRows
  /\ IF key \in known
     THEN /\ count' = [count EXCEPT ![key] = @ + 1]
          /\ UNCHANGED <<known, id, maxid>>
     ELSE /\ known' = known \cup {key}
          /\ id' = [id EXCEPT ![key] = maxid]
          /\ count' = [count EXCEPT ![key] = 1]
          /\ maxid' = maxid + Width(key)
  /\ feature' = Append(feature, id'[key])
  /\ firing' = Append(firing, key)
  /\ UNCHANGED <<phase, cache, fired, loopVars, oldVars>>

(* FeatureCache::add at the end of a position.                             *)
AddRow == /\ phase = "read" /\ Len(cache) < MaxRows
          /\ cache' = Append(cache, feature)
          /\ fired' = Append(fired, firing)
          /\ feature' = <<>> /\ firing' = <<>>
          /\ UNCHANGED <<phase, dicVars, loopVars, oldVars>>
-----------------------------------------------------------------------------
(* The training set has been read: shrink(freq).                           *)
Shrink == /\ phase = "read" /\ firing = <<>>
          /\ phase' = IF Freq <= 1 THEN "train" ELSE "keys"
          /\ oldKnown' = known /\ oldId' = id
          /\ UNCHANGED <<dicVars, rowVars, loopVars>>

ShrinkKeyAbove ==                            \* mutant: > for >=
  /\ phase = "keys" /\ cur <= K
  /\ cur' = cur + 1
  /\ IF cur \in known /\ count[cur] > Freq
     THEN /\ old2new' = old2new \cup {<<id[cur], newMax>>}
          /\ id' = [id EXCEPT ![cur] = newMax]
          /\ newMax' = newMax + Width(cur)
          /\ UNCHANGED known
     ELSE /\ known' = known \ {cur}
          /\ UNCHANGED <<id, old2new, newMax>>
  /\ UNCHANGED <<phase, count, maxid, rowVars, oldVars>>

(* The loop over dic_: erase what is too rare, number the rest afresh.     *)
ShrinkKey ==
  /\ phase = "keys" /\ cur <= K
  /\ cur' = cur + 1
  /\ IF cur \in known /\ count[cur] >= Freq
     THEN /\ old2new' = old2new \cup {<<id[cur], newMax>>}
          /\ id' = [id EXCEPT ![cur] = newMax]
          /\ newMax' = newMax + Width(cur)
          /\ UNCHANGED known
     ELSE /\ known' = known \ {cur}
          /\ UNCHANGED <<id, old2new, newMax>>
  /\ UNCHANGED <<phase, count, maxid, rowVars, oldVars>>

KeysDone == /\ phase = "keys" /\ cur > K
            /\ phase' = "rows" /\ cur' = 1
            /\ UNCHANGED <<dicVars, rowVars, old2new, newMax, oldVars>>

(* FeatureCache::shrink, row by row.  A number without a successor goes;   *)
(* its place stays here, marked, where the code closes the gap.            *)
Gone == -1
RenumberNot(row) == row                      \* mutant: the cache is left alone
Renumber(row) == [k \in DOMAIN row |->
                    IF \E q \in old2new : q[1] = row[k]
                    THEN (CHOOSE q \in old2new : q[1] = row[k])[2]
                    ELSE Gone]

ShrinkRow == /\ phase = "rows" /\ cur <= Len(cache)
             /\ cache' = [cache EXCEPT ![cur] = Renumber(@)]
             /\ cur' = cur + 1
             /\ UNCHANGED <<phase, dicVars, feature, fired, firing, old2new, newMax,
                            oldVars>>

RowsDoneOldSize == /\ phase = "rows" /\ cur > Len(cache)  \* mutant: old maxid_
                   /\ phase' = "train"
                   /\ UNCHANGED <<dicVars, rowVars, loopVars, oldVars>>

RowsDone == /\ phase = "rows" /\ cur > Len(cache)
            /\ phase' = "train"
            /\ maxid' = newMax
            /\ UNCHANGED <<known, id, count, rowVars, loopVars, oldVars>>

Train == phase = "train" /\ UNCHANGED vars   \* nothing changes any more

Next == \/ \E key \in Key : GetID(key)
        \/ AddRow \/ Shrink \/ ShrinkKey \/ KeysDone \/ ShrinkRow \/ RowsDone
        \/ Train

Spec == Init /\ [][Next]_vars
-----------------------------------------------------------------------------
TypeOK == /\ phase \in {"read", "keys", "rows", "train"}
          /\ known \subseteq Key
          /\ id \in [Key -> Nat] /\ count \in [Key -> Nat]
          /\ maxid \in Nat /\ newMax \in Nat
          /\ cache \in Seq(Seq(Int)) /\ fired \in Seq(Seq(Key))
          /\ Len(fired) = Len(cache)
          /\ feature \in Seq(Int) /\ firing \in Seq(Key)
          /\ old2new \subseteq Nat \X Nat
          /\ cur \in Nat \ {0}

Stable == phase \in {"read", "train"}

(* The blocks of the features S, numbered by n, share no weight, lie below *)
(* m, and leave no weight below m without an owner.                        *)
Apart(S, n)    == \A p, q \in S : \/ p = q
                                  \/ n[p] + Width(p) <= n[q]
                                  \/ n[q] + Width(q) <= n[p]
Below(S, n, m) == \A p \in S : n[p] + Width(p) <= m
Owned(S, n, m) == \A w \in 0..m-1 : \E p \in S : n[p] <= w /\ w < n[p] + Width(p)

(* Two features never share a weight, every weight of a feature exists,    *)
(* and every weight has its feature: while the training set is read, and   *)
(* again after the renumbering (feature_index.cpp 110-125, 254-279).       *)
WeightsTiled == Stable => /\ Apart(known, id)
                          /\ Below(known, id, maxid)
                          /\ Owned(known, id, maxid)

(* What the lattice will read through a row is what was observed there:    *)
(* for every template that fired, in its place, the current number of its  *)
(* feature, or nothing if the feature is too rare, so that no access       *)
(* reaches beyond alpha (feature_cache.cpp 20-33 against feature_index.cpp *)
(* 262-274).                                                               *)
Numbers(row, S, n) == [k \in DOMAIN row |-> IF row[k] \in S THEN n[row[k]] ELSE Gone]
RowsCurrent == Stable => \A r \in DOMAIN cache : cache[r] = Numbers(fired[r], known, id)

(* "use features that occuer no less than INT" (encoder.cpp 431): shrink() *)
(* keeps a feature exactly when it occurred at least Freq times, twice in  *)
(* a row that has it twice (feature_index.cpp 121, 262).                   *)
AllRows == Append(fired, firing)
Seen(p) == {x \in (1..Len(AllRows)) \X (1..MaxFires) :
              x[2] \in DOMAIN AllRows[x[1]] /\ AllRows[x[1]][x[2]] = p}
FrequentKept ==
  phase = "train" /\ Freq > 1 =>
    known = {p \in Key : Cardinality(Seen(p)) >= Freq}
-----------------------------------------------------------------------------
(* The inductive invariant: in the middle of shrink() two numberings live  *)
(* side by side, the old one (oldId) and the new one of the keys before    *)
(* cur, and the rows still hold the old numbers.                           *)
Reading ==
  phase = "read" => /\ firing \in Seq(known)
                    /\ feature = Numbers(firing, known, id)
                    /\ fired \in Seq(Seq(known))
                    /\ cur = 1 /\ newMax = 0 /\ old2new = {}

Old == phase \in {"keys", "rows"} =>
         /\ known \subseteq oldKnown /\ oldKnown \subseteq Key
         /\ oldId \in [Key -> Nat]
         /\ Apart(oldKnown, oldId)
         /\ fired \in Seq(Seq(oldKnown))

Done == IF phase = "keys" THEN {p \in known : p < cur} ELSE known

Renumbered ==
  phase \in {"keys", "rows"} =>
    /\ Apart(Done, id) /\ Below(Done, id, newMax) /\ Owned(Done, id, newMax)
    /\ old2new = {<<oldId[p], id[p]>> : p \in Done}
    /\ phase = "keys" =>
         \A p \in Key : p >= cur => /\ p \in known <=> p \in oldKnown
                                    /\ id[p] = oldId[p]

RowDone(r) == phase = "rows" /\ r < cur

Rows ==
  phase \in {"keys", "rows"} =>
    \A r \in DOMAIN cache :
      cache[r] = IF RowDone(r) THEN Numbers(fired[r], known, id)
                               ELSE Numbers(fired[r], oldKnown, oldId)

(* What FrequentKept needs besides: the counts are those of the rows, and  *)
(* shrink() has decided about every key before cur.                        *)
Counts == \A p \in Key : count[p] = Cardinality(Seen(p))

Decided ==
  phase # "read" /\ Freq > 1 =>
    /\ firing = <<>>
    /\ \A p \in Key :
         phase # "keys" \/ p < cur => (p \in known <=> Cardinality(Seen(p)) >= Freq)

IInv == /\ TypeOK /\ Reading /\ Old /\ Renumbered /\ Rows
        /\ WeightsTiled /\ RowsCurrent
=============================================================================
