-------------------------------- MODULE Darts --------------------------------
(***************************************************************************)
(* The double array that stores the feature dictionary of a model: build,  *)
(* fetch and insert, and the three searches (darts.h 90-206, 266-301,      *)
(* 399-491).  A key is a sequence of characters 1 .. Alphabet; the code of *)
(* a character is one more, that of the end of a key 0.  The array grows   *)
(* as it is needed, here it has Cells slots from the start.  An array is a *)
(* record: base, check, the set of begins in use, size_, next_check_pos_.  *)
(***************************************************************************)
EXTENDS Places, FiniteSetsExt

CONSTANTS Alphabet,     \* 255 in the code
          Cells

Slot == 0 .. Cells - 1

Fresh == [base  |-> [p \in Slot |-> IF p = 0 THEN 1 ELSE 0],
          check |-> [p \in Slot |-> 0],
          used |-> {}, size |-> 0, next |-> 0]

Array == [base : [Slot -> Int], check : [Slot -> Nat],
          used : SUBSET Nat, size : Nat, next : Nat]

Node(c, d, l, r) == [code |-> c, depth |-> d, left |-> l, right |-> r]
Nodes == [code : 0 .. Alphabet + 1, depth : Nat, left : Nat, right : Nat]

-----------------------------------------------------------------------------
(* fetch: the children of a node in the trie of keys[left .. right - 1],   *)
(* in the order of the keys.                                               *)
CodeAt(key, depth) == IF Len(key) = depth THEN 0 ELSE key[depth + 1] + 1

Fetch(keys, node) ==
  LET member == {i \in node.left .. node.right - 1 : Len(keys[i]) >= node.depth}
      codes  == {CodeAt(keys[i], node.depth) : i \in member}
      first(c) == Min({i \in member : CodeAt(keys[i], node.depth) = c})
      n == Cardinality(codes)
  IN  [k \in 1 .. n |->
         Node(Nth(codes, k), node.depth + 1, first(Nth(codes, k)),
              IF k = n THEN node.right ELSE first(Nth(codes, k + 1)))]

AnyFree(da, sib, pos) ==                     \* mutant: only the first child tested
  /\ da.check[pos] = 0 /\ pos - sib[1].code \notin da.used

(* The children fit if the slot of the first is free, no other node begins *)
(* there, and the slots of the others are free.                            *)
Fits(da, sib, pos) ==
  LET begin == pos - sib[1].code
  IN  /\ da.check[pos] = 0 /\ begin \notin da.used
      /\ \A i \in 2 .. Len(sib) : da.check[begin + sib[i].code] = 0

(* Where the search for room starts, where it ends, and where the next one *)
(* will start: at the first free slot, or here if nearly all were taken.   *)
StartOf(da, sib) == IF sib[1].code + 1 > da.next THEN sib[1].code + 1 ELSE da.next

Room(da, sib) ==
  Min({pos \in Slot : /\ pos >= StartOf(da, sib)
                      /\ pos - sib[1].code + sib[Len(sib)].code < Cells
                      /\ Fits(da, sib, pos)})

NextStart(da, sib, pos) ==
  LET free  == Min({p \in StartOf(da, sib) .. pos : da.check[p] = 0})
      taken == Cardinality({p \in StartOf(da, sib) .. pos : da.check[p] # 0})
  IN  IF 100 * taken >= 95 * (pos - free + 1) THEN pos ELSE free

Reach(begin, sib) == begin + sib[Len(sib)].code + 1

Claim(da, sib, pos) ==
  LET begin == pos - sib[1].code
  IN  [da EXCEPT !.used  = @ \cup {begin},
                 !.size  = IF Reach(begin, sib) > @ THEN Reach(begin, sib) ELSE @,
                 !.next  = NextStart(da, sib, pos),
                 !.check = [p \in Slot |->
                              IF \E i \in 1 .. Len(sib) : p = begin + sib[i].code
                              THEN begin ELSE @[p]]]

(* insert: claim slots for the children, then file each: its value if no  *)
(* key goes on there, its own children otherwise, which below inserts.     *)
Filed(da, keys, value, sib, below) ==
  LET pos   == Room(da, sib)
      begin == pos - sib[1].code
      after[i \in 0 .. Len(sib)] ==
        IF i = 0 THEN Claim(da, sib, pos)
        ELSE LET here == begin + sib[i].code
                 kids == Fetch(keys, sib[i])
                 sub  == below[<<after[i - 1], kids>>]
             IN  IF kids = <<>>
                 THEN [after[i - 1] EXCEPT !.base[here] = - value[sib[i].left] - 1]
                 ELSE [sub.da EXCEPT !.base[here] = sub.begin]
  IN  after

Insert(da, keys, value, sib, below) ==
  [da    |-> Filed(da, keys, value, sib, below)[Len(sib)],
   begin |-> Room(da, sib) - sib[1].code]

(* The recursion goes as deep as the longest key has characters.           *)
Height(keys) == Max({Len(keys[i]) : i \in DOMAIN keys}) + 1

Inserting(keys, value) ==
  LET to[h \in 0 .. Height(keys)] ==
        IF h = 0 THEN <<>>
        ELSE [x \in Array \X Seq(Nodes) |-> Insert(x[1], keys, value, x[2], to[h - 1])]
  IN  to

Unpadded(n) == n                             \* mutant: no room past the last node
Padding(n) == n + Alphabet + 2

(* build: with no keys nothing is built, and size_ stays 0.                *)
Build(keys, value) ==
  IF keys = <<>> THEN Fresh
  ELSE LET root == Fetch(keys, Node(0, 0, 1, Len(keys) + 1))
           da   == Inserting(keys, value)[Height(keys)][<<Fresh, root>>].da
       IN  [da EXCEPT !.size = Padding(@)]
-----------------------------------------------------------------------------
(* The searches.  Walk is the loop they share: the base reached after i    *)
(* characters, None when there is no such node.                            *)
None == -2

Walk(da, key) ==
  LET at[i \in 0 .. Len(key)] ==
        IF i = 0 THEN da.base[0]
        ELSE IF at[i - 1] = None \/ da.check[at[i - 1] + key[i] + 1] # at[i - 1] THEN None
        ELSE da.base[at[i - 1] + key[i] + 1]
  IN  at

(* The value stored at a node, -1 if no key ends there.                    *)
ValueAt(da, b) == IF da.check[b] = b /\ da.base[b] < 0 THEN - da.base[b] - 1 ELSE -1

ExactMatchSearch(da, key) ==
  LET b == Walk(da, key)[Len(key)] IN IF b = None THEN -1 ELSE ValueAt(da, b)

Traverse(da, key) ==
  LET b == Walk(da, key)[Len(key)] IN IF b = None THEN -2 ELSE ValueAt(da, b)

CommonPrefixSearch(da, key) ==
  LET at == Walk(da, key)
  IN  {<<i, ValueAt(da, at[i])>> : i \in {j \in 0 .. Len(key) :
                                             at[j] # None /\ ValueAt(da, at[j]) >= 0}}

(* The slots a search looks at.                                            *)
Probed(da, key) ==
  LET at == Walk(da, key)
  IN  {at[i - 1] + key[i] + 1 : i \in {j \in 1 .. Len(key) : at[j - 1] # None}}
      \cup {at[i] : i \in {j \in 0 .. Len(key) : at[j] # None}}
=============================================================================
