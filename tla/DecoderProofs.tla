---------------------------- MODULE DecoderProofs ----------------------------
(***************************************************************************)
(* Viterbi, the n-best search and the direction of collins(), for every    *)
(* number of tags, every length of sentence and every lattice of integer   *)
(* costs; the sums of forwardbackward(), for every lattice of natural ones.*)
(***************************************************************************)
EXTENDS Decoder, FiniteSetTheorems, WellFoundedInduction, TLAPS

(* Induction over the positions of a sentence, from the order of Nat.      *)
LEMMA Least ==
  ASSUME NEW T, T \subseteq Nat, T # {}
  PROVE  \E x \in T : \A y \in T : x <= y
<1>1. \E x \in T : \A y \in T : ~ (<<y, x>> \in OpToRel(<, Nat))
  BY WFMin, NatLessThanWellFounded
<1>2. PICK x \in T : \A y \in T : ~ (<<y, x>> \in OpToRel(<, Nat))
  BY <1>1
<1>3. \A y \in T : ~(y < x)
  BY <1>2 DEF OpToRel
<1> QED BY <1>3

LEMMA UpTo ==
  ASSUME NEW m \in Nat, NEW T, 0 \in T, \A i \in 0..m-1 : i \in T => i + 1 \in T
  PROVE  0..m \subseteq T
<1> SUFFICES ASSUME NEW k \in 0..m, k \notin T PROVE FALSE
  OBVIOUS
<1> DEFINE U == {i \in 0..m : i \notin T}
<1>1. U \subseteq Nat /\ U # {}
  OBVIOUS
<1>2. PICK x \in U : \A y \in U : x <= y
  BY <1>1, Least
<1>3. x # 0 /\ x - 1 \in 0..m-1 /\ x - 1 + 1 = x
  BY <1>2
<1>4. x - 1 \in T
  BY <1>2, <1>3
<1> QED BY <1>2, <1>3, <1>4

(* A function of the positions given by its first value and a step exists. *)
Follows(f, m, S, b, G) ==
  f \in [0..m -> S] /\ f[0] = b /\ \A i \in 1..m : f[i] = G[i][f[i-1]]

LEMMA Recursion ==
  ASSUME NEW m \in Nat, NEW S, NEW b \in S, NEW G \in [1..m -> [S -> S]]
  PROVE  \E f : Follows(f, m, S, b, G)
<1> DEFINE Upto(k, f) == f[0] = b /\ \A i \in 1..k : f[i] = G[i][f[i-1]]
           T == {k \in Nat : k <= m => \E f \in [0..k -> S] : Upto(k, f)}
<1>1. 0 \in T
  <2>1. [i \in 0..0 |-> b] \in [0..0 -> S] /\ Upto(0, [i \in 0..0 |-> b])
    OBVIOUS
  <2> QED BY <2>1
<1>2. ASSUME NEW k \in 0..m-1, k \in T PROVE k + 1 \in T
  <2>1. PICK f \in [0..k -> S] : Upto(k, f)
    BY <1>2
  <2> DEFINE g == [i \in 0..k+1 |-> IF i = k + 1 THEN G[k+1][f[k]] ELSE f[i]]
  <2>2. f[k] \in S /\ k + 1 \in 1..m
    OBVIOUS
  <2>3. G[k+1][f[k]] \in S
    BY <2>2
  <2>4. g \in [0..k+1 -> S]
    BY <2>3
  <2>5. \A i \in 0..k : g[i] = f[i]
    OBVIOUS
  <2>6. g[0] = b
    BY <2>1, <2>5
  <2>7. ASSUME NEW i \in 1..k+1 PROVE g[i] = G[i][g[i-1]]
    <3>1. CASE i = k + 1
      <4>1. g[i-1] = f[k] /\ g[i] = G[k+1][f[k]]
        BY <2>5, <3>1
      <4> QED BY <3>1, <4>1
    <3>2. CASE i # k + 1
      <4>1. i \in 1..k /\ i \in 0..k /\ i - 1 \in 0..k
        BY <3>2
      <4>2. g[i] = f[i] /\ g[i-1] = f[i-1]
        BY <2>5, <4>1
      <4> QED BY <2>1, <4>1, <4>2
    <3> QED BY <3>1, <3>2
  <2>8. Upto(k + 1, g)
    BY <2>6, <2>7
  <2>9. \E e \in [0..k+1 -> S] : Upto(k + 1, e)
    BY <2>4, <2>8
  <2> HIDE DEF Upto, g
  <2> QED BY <2>9
<1> HIDE DEF T
<1>3. 0..m \subseteq T
  BY <1>1, <1>2, UpTo
<1>4. m \in T
  BY <1>3
<1> QED BY <1>4 DEF T, Follows
-----------------------------------------------------------------------------
(* The best of finitely many tags.                                         *)
LEMMA TagMax ==
  ASSUME NEW h \in [Tag -> Int]
  PROVE  \E y \in Tag : \A w \in Tag : h[w] <= h[y]
<1>1. Y - 1 \in Nat /\ Tag = 0..(Y-1)
  BY YAssumption DEF Tag
<1> DEFINE T == {k \in Nat : k <= Y - 1 => \E y \in 0..k : \A w \in 0..k : h[w] <= h[y]}
<1>2. 0 \in T
  BY <1>1
<1>3. ASSUME NEW k \in 0..(Y-1)-1, k \in T PROVE k + 1 \in T
  <2>1. PICK y \in 0..k : \A w \in 0..k : h[w] <= h[y]
    BY <1>1, <1>3
  <2>2. \A w \in 0..k+1 : h[w] \in Int
    BY <1>1
  <2>3. CASE h[k+1] <= h[y]
    <3>1. \A w \in 0..k+1 : h[w] <= h[y]
      BY <2>1, <2>3
    <3>2. \E x \in 0..k+1 : \A w \in 0..k+1 : h[w] <= h[x]
      BY <3>1
    <3> QED BY <3>2
  <2>4. CASE ~(h[k+1] <= h[y])
    <3>1. \A w \in 0..k+1 : h[w] <= h[k+1]
      BY <2>1, <2>2, <2>4
    <3>2. \E x \in 0..k+1 : \A w \in 0..k+1 : h[w] <= h[x]
      <4>1. k + 1 \in 0..k+1
        OBVIOUS
      <4> QED BY <3>1, <4>1
    <3> QED BY <3>2
  <2> QED BY <2>3, <2>4
<1> HIDE DEF T
<1>4. 0..(Y-1) \subseteq T
  BY <1>1, <1>2, <1>3, UpTo
<1>5. Y - 1 \in T
  BY <1>1, <1>4
<1> QED BY <1>1, <1>5 DEF T

LEMMA FirstBestIs ==
  ASSUME NEW h \in [Tag -> Int]
  PROVE  FirstBest(h) \in Tag /\ \A w \in Tag : h[w] <= h[FirstBest(h)]
<1> DEFINE T == {y \in Tag : \A w \in Tag : h[w] <= h[y]}
<1>1. T \subseteq Nat /\ T # {}
  BY TagMax, YAssumption DEF Tag
<1>2. PICK y \in T : \A w \in T : y <= w
  BY <1>1, Least
<1>3. \A w \in Tag : w < y => h[w] < h[y]
  <2> SUFFICES ASSUME NEW w \in Tag, w < y, ~(h[w] < h[y]) PROVE FALSE
    OBVIOUS
  <2>1. h[w] \in Int /\ h[y] \in Int /\ h[w] = h[y]
    BY <1>2
  <2>2. w \in T
    BY <1>2, <2>1
  <2>3. y \in Nat /\ w \in Nat
    BY <1>1, <2>2
  <2> QED BY <1>2, <2>2, <2>3
<1>4. y \in Tag /\ \A w \in Tag : h[w] <= h[y]
  BY <1>2
<1> HIDE DEF T
<1> QED BY <1>3, <1>4 DEF FirstBest

LEMMA MaxIs ==
  ASSUME NEW h \in [Tag -> Int]
  PROVE  LET M == Max({h[a] : a \in Tag})
         IN  M \in Int /\ (\A a \in Tag : h[a] <= M) /\ \E a \in Tag : h[a] = M
<1> DEFINE H == {h[a] : a \in Tag}
<1>1. PICK y \in Tag : \A w \in Tag : h[w] <= h[y]
  BY TagMax
<1>2. \A x \in H : x \in Int
  OBVIOUS
<1>3. h[y] \in H /\ \A x \in H : h[y] >= x
  BY <1>1, <1>2
<1>4. Max(H) \in H /\ \A x \in H : Max(H) >= x
  <2> HIDE DEF H
  <2> QED BY <1>3 DEF Max
<1> QED BY <1>2, <1>4
-----------------------------------------------------------------------------
(* The equations of the recursive functions.                               *)
LEMMA RunningIs ==
  ASSUME NEW n \in Nat \ {0}, NEW c \in LatticesOf(n), NEW t \in Labellings(n)
  PROVE  LET R == RunningCost(c, n, t)
         IN  /\ R \in [0..n-1 -> Int]
             /\ R[0] = c.node[0][t[0]]
             /\ \A i \in 1..n-1 :
                  R[i] = c.node[i][t[i]] + (R[i-1] + c.path[i][t[i-1]][t[i]])
<1> DEFINE G == [i \in 1..n-1 |-> [x \in Int |->
                   c.node[i][t[i]] + (x + c.path[i][t[i-1]][t[i]])]]
<1>1. /\ \A i \in 0..n-1 : t[i] \in Tag /\ c.node[i][t[i]] \in Int
      /\ \A i \in 1..n-1 : i - 1 \in 0..n-1 /\ i \in 0..n-1
      /\ n - 1 \in Nat /\ 0 \in 0..n-1
  BY DEF LatticesOf, Labellings
<1>2. \A i \in 1..n-1 : c.path[i][t[i-1]][t[i]] \in Int
  BY <1>1 DEF LatticesOf
<1>3. G \in [1..n-1 -> [Int -> Int]]
  BY <1>1, <1>2
<1>4. \A i \in 1..n-1, x \in Int :
        G[i][x] = c.node[i][t[i]] + (x + c.path[i][t[i-1]][t[i]])
  OBVIOUS
<1> HIDE DEF G
<1>5. PICK f \in [0..n-1 -> Int] : f[0] = c.node[0][t[0]]
                                   /\ \A i \in 1..n-1 : f[i] = G[i][f[i-1]]
  <2>1. n - 1 \in Nat /\ c.node[0][t[0]] \in Int
    BY <1>1
  <2>2. \E f : Follows(f, n - 1, Int, c.node[0][t[0]], G)
    BY <1>3, <2>1, Recursion
  <2> QED BY <2>2 DEF Follows
<1>6. \A i \in 1..n-1 : f[i] = c.node[i][t[i]] + (f[i-1] + c.path[i][t[i-1]][t[i]])
  BY <1>1, <1>4, <1>5
<1>7. ASSUME NEW i \in 0..n-1
      PROVE  f[i] = c.node[i][t[i]] +
                      IF i = 0 THEN 0 ELSE f[i-1] + c.path[i][t[i-1]][t[i]]
  BY <1>1, <1>5, <1>6, <1>7
<1>8. f = [i \in 0..n-1 |-> c.node[i][t[i]] +
             IF i = 0 THEN 0 ELSE f[i-1] + c.path[i][t[i-1]][t[i]]]
  BY <1>7
<1> DEFINE R == RunningCost(c, n, t)
<1>9. R = [i \in 0..n-1 |-> c.node[i][t[i]] +
             IF i = 0 THEN 0 ELSE R[i-1] + c.path[i][t[i-1]][t[i]]]
  BY <1>8 DEF RunningCost
<1> HIDE DEF R
<1>10. R[0] = c.node[0][t[0]]
  BY <1>1, <1>9
<1>11. \A i \in 1..n-1 : R[i] = c.node[i][t[i]] + (R[i-1] + c.path[i][t[i-1]][t[i]])
  BY <1>1, <1>9
<1>12. \A i \in 0..n-1 : R[i] \in Int
  <2> DEFINE T == {i \in 0..n-1 : R[i] \in Int}
  <2>1. 0 \in T
    BY <1>1, <1>10
  <2>2. ASSUME NEW i \in 0..(n-1)-1, i \in T PROVE i + 1 \in T
    <3>1. i + 1 \in 1..n-1 /\ i + 1 \in 0..n-1 /\ i + 1 - 1 = i
      OBVIOUS
    <3> DEFINE j == i + 1
    <3> HIDE DEF j
    <3>2. j \in 1..n-1 /\ j \in 0..n-1 /\ j - 1 = i
      BY <3>1 DEF j
    <3>3. R[j] = c.node[j][t[j]] + (R[j-1] + c.path[j][t[j-1]][t[j]])
      BY <1>11, <3>2
    <3>4. c.node[j][t[j]] \in Int /\ c.path[j][t[j-1]][t[j]] \in Int
      BY <1>1, <1>2, <3>2
    <3>5. R[j-1] \in Int
      BY <2>2, <3>2
    <3>6. R[j] \in Int
      BY <3>3, <3>4, <3>5
    <3> QED BY <3>1, <3>6 DEF j
  <2> HIDE DEF T
  <2>3. 0..n-1 \subseteq T
    BY <1>1, <2>1, <2>2, UpTo
  <2> QED BY <2>3 DEF T
<1>13. R \in [0..n-1 -> Int]
  BY <1>9, <1>12
<1> QED BY <1>10, <1>11, <1>13 DEF R

LEMMA BestLeft ==
  ASSUME NEW h \in [Tag -> Int], NEW p \in [Tag -> [Tag -> Int]], NEW y \in Tag
  PROVE  LET M == Max({h[a] + p[a][y] : a \in Tag})
         IN  /\ M \in Int
             /\ \A a \in Tag : h[a] + p[a][y] <= M
             /\ \E a \in Tag : h[a] + p[a][y] = M
<1> DEFINE k == [a \in Tag |-> h[a] + p[a][y]]
<1>1. k \in [Tag -> Int] /\ \A a \in Tag : k[a] = h[a] + p[a][y]
  OBVIOUS
<1>2. {k[a] : a \in Tag} = {h[a] + p[a][y] : a \in Tag}
  BY <1>1
<1> HIDE DEF k
<1>3. LET M == Max({k[a] : a \in Tag})
      IN  M \in Int /\ (\A a \in Tag : k[a] <= M) /\ \E a \in Tag : k[a] = M
  BY <1>1, MaxIs
<1> QED BY <1>1, <1>2, <1>3

LEMMA BestIs ==
  ASSUME NEW n \in Nat \ {0}, NEW c \in LatticesOf(n)
  PROVE  LET B == BestCost(c, n)
         IN  /\ B \in [0..n-1 -> [Tag -> Int]]
             /\ \A y \in Tag : B[0][y] = c.node[0][y]
             /\ \A i \in 1..n-1, y \in Tag :
                  /\ \A a \in Tag : c.node[i][y] + (B[i-1][a] + c.path[i][a][y]) <= B[i][y]
                  /\ \E a \in Tag : c.node[i][y] + (B[i-1][a] + c.path[i][a][y]) = B[i][y]
<1> DEFINE S == [Tag -> Int]
           step(i, h) == [y \in Tag |-> c.node[i][y] + Max({h[a] + c.path[i][a][y] : a \in Tag})]
           G == [i \in 1..n-1 |-> [h \in S |-> step(i, h)]]
<1>1. /\ \A i \in 0..n-1 : c.node[i] \in [Tag -> Int]
      /\ \A i \in 1..n-1 : c.path[i] \in [Tag -> [Tag -> Int]]
      /\ \A i \in 1..n-1 : i - 1 \in 0..n-1 /\ i \in 0..n-1 /\ i # 0
      /\ n - 1 \in Nat /\ 0 \in 0..n-1
  BY DEF LatticesOf
<1>2. ASSUME NEW i \in 1..n-1, NEW h \in S PROVE step(i, h) \in S
  <2>1. \A y \in Tag : Max({h[a] + c.path[i][a][y] : a \in Tag}) \in Int
    BY <1>1, BestLeft
  <2>2. \A y \in Tag : c.node[i][y] \in Int
    BY <1>1
  <2> QED BY <2>1, <2>2
<1>3. G \in [1..n-1 -> [S -> S]]
  <2> HIDE DEF S, step
  <2> QED BY <1>2
<1>4. \A i \in 1..n-1, h \in S : G[i][h] = step(i, h)
  OBVIOUS
<1> HIDE DEF G
<1>5. PICK f : Follows(f, n - 1, S, c.node[0], G)
  BY <1>1, <1>3, Recursion
<1>6. /\ f \in [0..n-1 -> S] /\ f[0] = c.node[0]
      /\ \A i \in 1..n-1 : f[i] = step(i, f[i-1])
  <2>1. /\ f \in [0..n-1 -> S] /\ f[0] = c.node[0]
        /\ \A i \in 1..n-1 : f[i] = G[i][f[i-1]]
    BY <1>5 DEF Follows
  <2> HIDE DEF S, step
  <2> QED BY <1>1, <1>4, <2>1
<1>7. ASSUME NEW i \in 0..n-1
      PROVE  f[i] = [y \in Tag |-> c.node[i][y] +
                       IF i = 0 THEN 0
                       ELSE Max({f[i-1][a] + c.path[i][a][y] : a \in Tag})]
  <2>1. CASE i = 0
    <3>1. \A y \in Tag : c.node[0][y] + 0 = c.node[0][y]
      BY <1>1
    <3>2. c.node[0] = [y \in Tag |-> c.node[0][y]]
      BY <1>1
    <3>3. c.node[0] = [y \in Tag |-> c.node[0][y] + 0]
      BY <3>1, <3>2
    <3> QED BY <1>6, <2>1, <3>3
  <2>2. CASE i # 0
    <3>1. i \in 1..n-1
      BY <2>2
    <3> QED BY <1>6, <2>2, <3>1
  <2> QED BY <2>1, <2>2
<1>8. f = [i \in 0..n-1 |-> [y \in Tag |-> c.node[i][y] +
             IF i = 0 THEN 0 ELSE Max({f[i-1][a] + c.path[i][a][y] : a \in Tag})]]
  <2>1. f = [i \in 0..n-1 |-> f[i]]
    BY <1>6
  <2> QED BY <1>7, <2>1
<1> DEFINE B == BestCost(c, n)
<1>9. B = [i \in 0..n-1 |-> [y \in Tag |-> c.node[i][y] +
             IF i = 0 THEN 0 ELSE Max({B[i-1][a] + c.path[i][a][y] : a \in Tag})]]
  BY <1>8 DEF BestCost
<1> HIDE DEF B
<1>10. \A i \in 1..n-1 : B[i] = step(i, B[i-1])
  BY <1>1, <1>9
<1>11. \A y \in Tag : B[0][y] = c.node[0][y]
  <2>1. \A y \in Tag : B[0][y] = c.node[0][y] + 0 /\ c.node[0][y] \in Int
    BY <1>1, <1>9
  <2> QED BY <2>1
<1>12. B[0] \in S
  <2>1. B[0] = [y \in Tag |-> B[0][y]]
    BY <1>1, <1>9
  <2>2. \A y \in Tag : B[0][y] \in Int
    BY <1>1, <1>11
  <2> QED BY <2>1, <2>2
<1>13. \A i \in 0..n-1 : B[i] \in S
  <2> DEFINE T == {i \in 0..n-1 : B[i] \in S}
  <2>1. 0 \in T
    BY <1>1, <1>12
  <2>2. ASSUME NEW i \in 0..(n-1)-1, i \in T PROVE i + 1 \in T
    <3>1. i + 1 \in 1..n-1 /\ i + 1 \in 0..n-1 /\ i + 1 - 1 = i
      OBVIOUS
    <3>2. B[i+1] = step(i + 1, B[i])
      <4> HIDE DEF step
      <4> QED BY <1>10, <3>1
    <3>3. B[i+1] \in S
      <4> HIDE DEF step
      <4> QED BY <1>2, <2>2, <3>1, <3>2
    <3> QED BY <3>1, <3>3
  <2> HIDE DEF T
  <2>3. 0..n-1 \subseteq T
    BY <1>1, <2>1, <2>2, UpTo
  <2> QED BY <2>3 DEF T
<1>14. B \in [0..n-1 -> S]
  BY <1>9, <1>13
<1>15. ASSUME NEW i \in 1..n-1, NEW y \in Tag
       PROVE  /\ \A a \in Tag : c.node[i][y] + (B[i-1][a] + c.path[i][a][y]) <= B[i][y]
              /\ \E a \in Tag : c.node[i][y] + (B[i-1][a] + c.path[i][a][y]) = B[i][y]
  <2> DEFINE h == B[i-1]
             q == c.path[i]
             M == Max({h[a] + q[a][y] : a \in Tag})
             x == c.node[i][y]
  <2>1. h \in S /\ q \in [Tag -> [Tag -> Int]] /\ x \in Int
    BY <1>1, <1>13
  <2>2. B[i][y] = x + M
    BY <1>10
  <2>3. \A a \in Tag : h[a] + q[a][y] \in Int
    BY <2>1
  <2> HIDE DEF h, q, x
  <2>4. M \in Int /\ (\A a \in Tag : h[a] + q[a][y] <= M) /\ \E a \in Tag : h[a] + q[a][y] = M
    BY <2>1, BestLeft
  <2> HIDE DEF M
  <2>5. /\ \A a \in Tag : x + (h[a] + q[a][y]) <= x + M
        /\ \E a \in Tag : x + (h[a] + q[a][y]) = x + M
    BY <2>1, <2>3, <2>4
  <2> QED BY <2>2, <2>5 DEF h, q, x
<1> QED BY <1>11, <1>14, <1>15 DEF B

(* The walk back along prev: every step takes a best left neighbour.       *)
LEMMA PrevIs ==
  ASSUME NEW n \in Nat \ {0}, NEW c \in LatticesOf(n), NEW B \in [0..n-1 -> [Tag -> Int]],
         NEW i \in 1..n-1, NEW y \in Tag
  PROVE  /\ Prev(c, B, i, y) \in Tag
         /\ \A a \in Tag : B[i-1][a] + c.path[i][a][y] <=
                             B[i-1][Prev(c, B, i, y)] + c.path[i][Prev(c, B, i, y)][y]
<1> DEFINE h == [a \in Tag |-> B[i-1][a] + c.path[i][a][y]]
<1>1. c.path[i] \in [Tag -> [Tag -> Int]] /\ B[i-1] \in [Tag -> Int]
  BY DEF LatticesOf
<1>2. h \in [Tag -> Int] /\ \A a \in Tag : h[a] = B[i-1][a] + c.path[i][a][y]
  <2>1. \A a \in Tag : B[i-1][a] \in Int /\ c.path[i][a][y] \in Int
    BY <1>1
  <2>2. \A a \in Tag : B[i-1][a] + c.path[i][a][y] \in Int
    BY <2>1
  <2> QED BY <2>2
<1>3. Prev(c, B, i, y) = FirstBest(h)
  BY DEF Prev
<1> HIDE DEF h
<1>4. FirstBest(h) \in Tag /\ \A w \in Tag : h[w] <= h[FirstBest(h)]
  BY <1>2, FirstBestIs
<1> QED BY <1>2, <1>3, <1>4

LEMMA BackIs ==
  ASSUME NEW n \in Nat \ {0}, NEW c \in LatticesOf(n)
  PROVE  LET B == BestCost(c, n)
             R == BestTags(c, n)
         IN  /\ R \in Labellings(n)
             /\ \A w \in Tag : B[n-1][w] <= B[n-1][R[n-1]]
             /\ \A i \in 1..n-1 : \A a \in Tag :
                  B[i-1][a] + c.path[i][a][R[i]] <= B[i-1][R[i-1]] + c.path[i][R[i-1]][R[i]]
<1> DEFINE B == BestCost(c, n)
<1>1. B \in [0..n-1 -> [Tag -> Int]] /\ n - 1 \in Nat /\ n - 1 \in 0..n-1
  BY BestIs
<1> HIDE DEF B
<1> DEFINE last == FirstBest(B[n-1])
           G == [j \in 1..n-1 |-> [y \in Tag |-> Prev(c, B, n - j, y)]]
<1>2. last \in Tag /\ \A w \in Tag : B[n-1][w] <= B[n-1][last]
  BY <1>1, FirstBestIs
<1> HIDE DEF last
<1>3. \A j \in 1..n-1, y \in Tag : Prev(c, B, n - j, y) \in Tag
  <2> TAKE j \in 1..n-1, y \in Tag
  <2>1. n - j \in 1..n-1
    OBVIOUS
  <2> QED BY <1>1, <2>1, PrevIs
<1>4. G \in [1..n-1 -> [Tag -> Tag]]
  BY <1>3
<1>5. \A j \in 1..n-1, y \in Tag : G[j][y] = Prev(c, B, n - j, y)
  OBVIOUS
<1> HIDE DEF G
<1>6. PICK g : Follows(g, n - 1, Tag, last, G)
  BY <1>1, <1>2, <1>4, Recursion
<1>7. /\ g \in [0..n-1 -> Tag] /\ g[0] = last
      /\ \A j \in 1..n-1 : g[j] = Prev(c, B, n - j, g[j-1])
  <2>1. /\ g \in [0..n-1 -> Tag] /\ g[0] = last
        /\ \A j \in 1..n-1 : g[j] = G[j][g[j-1]]
    BY <1>6 DEF Follows
  <2>2. \A j \in 1..n-1 : g[j-1] \in Tag
    BY <2>1
  <2> QED BY <1>5, <2>1, <2>2
<1> DEFINE f == [i \in 0..n-1 |-> g[n - 1 - i]]
<1>8. ASSUME NEW i \in 0..n-1
      PROVE  f[i] = IF i = n - 1 THEN last ELSE Prev(c, B, i + 1, f[i+1])
  <2>1. CASE i = n - 1
    BY <1>7, <2>1
  <2>2. CASE i # n - 1
    <3> DEFINE j == n - 1 - i
    <3>1. j \in 1..n-1 /\ n - j = i + 1 /\ j - 1 = n - 1 - (i + 1) /\ i + 1 \in 0..n-1
      BY <2>2
    <3>2. f[i] = g[j] /\ f[i+1] = g[j-1]
      BY <3>1
    <3> HIDE DEF j, f
    <3>3. g[j] = Prev(c, B, n - j, g[j-1])
      BY <1>7, <3>1
    <3> QED BY <2>2, <3>1, <3>2, <3>3
  <2> QED BY <2>1, <2>2
<1>9. f = [i \in 0..n-1 |-> IF i = n - 1 THEN FirstBest(B[i]) ELSE Prev(c, B, i + 1, f[i+1])]
  <2>1. f = [i \in 0..n-1 |-> f[i]]
    OBVIOUS
  <2>2. \A i \in 0..n-1 : f[i] = IF i = n - 1 THEN FirstBest(B[i]) ELSE Prev(c, B, i + 1, f[i+1])
    <3> HIDE DEF f
    <3> QED BY <1>8 DEF last
  <2> HIDE DEF f
  <2> QED BY <2>1, <2>2
<1> HIDE DEF f
<1> DEFINE R == BestTags(c, n)
<1>10. R = [i \in 0..n-1 |-> IF i = n - 1 THEN FirstBest(B[i]) ELSE Prev(c, B, i + 1, R[i+1])]
  BY <1>9 DEF BestTags, B
<1> HIDE DEF R
<1>11. R[n-1] = last
  BY <1>1, <1>10 DEF last
<1>12. \A i \in 0..n-1 : i # n - 1 => R[i] = Prev(c, B, i + 1, R[i+1])
  BY <1>10
<1>13. \A i \in 0..n-1 : R[i] \in Tag
  <2> DEFINE T == {j \in 0..n-1 : R[n - 1 - j] \in Tag}
  <2>1. 0 \in T
    BY <1>1, <1>2, <1>11
  <2>2. ASSUME NEW j \in 0..(n-1)-1, j \in T PROVE j + 1 \in T
    <3> DEFINE i == n - 1 - (j + 1)
    <3>1. i \in 0..n-1 /\ i # n - 1 /\ i + 1 \in 1..n-1 /\ i + 1 = n - 1 - j /\ j + 1 \in 0..n-1
      OBVIOUS
    <3>2. R[n - 1 - j] \in Tag
      BY <2>2
    <3> HIDE DEF i
    <3>3. R[i] = Prev(c, B, i + 1, R[i+1]) /\ R[i+1] \in Tag
      BY <1>12, <3>1, <3>2
    <3>4. R[i] \in Tag
      BY <1>1, <3>1, <3>3, PrevIs
    <3> QED BY <3>1, <3>4 DEF i
  <2> HIDE DEF T
  <2>3. 0..n-1 \subseteq T
    BY <1>1, <2>1, <2>2, UpTo
  <2> TAKE i \in 0..n-1
  <2>4. n - 1 - i \in 0..n-1 /\ n - 1 - (n - 1 - i) = i
    OBVIOUS
  <2>5. n - 1 - i \in T
    BY <2>3, <2>4
  <2> QED BY <2>4, <2>5 DEF T
<1>14. R \in Labellings(n)
  BY <1>10, <1>13 DEF Labellings
<1>15. ASSUME NEW i \in 1..n-1, NEW a \in Tag
       PROVE  B[i-1][a] + c.path[i][a][R[i]] <= B[i-1][R[i-1]] + c.path[i][R[i-1]][R[i]]
  <2>1. i - 1 \in 0..n-1 /\ i - 1 # n - 1 /\ i - 1 + 1 = i /\ i \in 0..n-1
    OBVIOUS
  <2>2. R[i-1] = Prev(c, B, i, R[i]) /\ R[i] \in Tag
    BY <1>12, <1>13, <2>1
  <2> QED BY <1>1, <2>2, PrevIs
<1> QED BY <1>2, <1>11, <1>14, <1>15 DEF B, R
-----------------------------------------------------------------------------
(* No labelling costs more up to a position than the best that ends there; *)
(* the one walked back costs just that.                                    *)
LEMMA RunningBelow ==
  ASSUME NEW n \in Nat \ {0}, NEW c \in LatticesOf(n), NEW t \in Labellings(n)
  PROVE  \A i \in 0..n-1 : RunningCost(c, n, t)[i] <= BestCost(c, n)[i][t[i]]
<1> DEFINE R == RunningCost(c, n, t)
           B == BestCost(c, n)
           T == {i \in 0..n-1 : R[i] <= B[i][t[i]]}
<1>1. /\ R \in [0..n-1 -> Int] /\ R[0] = c.node[0][t[0]]
      /\ \A i \in 1..n-1 : R[i] = c.node[i][t[i]] + (R[i-1] + c.path[i][t[i-1]][t[i]])
  BY RunningIs
<1>2. /\ B \in [0..n-1 -> [Tag -> Int]]
      /\ \A y \in Tag : B[0][y] = c.node[0][y]
      /\ \A i \in 1..n-1, y \in Tag : \A a \in Tag :
           c.node[i][y] + (B[i-1][a] + c.path[i][a][y]) <= B[i][y]
  BY BestIs
<1>3. /\ \A i \in 0..n-1 : t[i] \in Tag /\ c.node[i][t[i]] \in Int
      /\ n - 1 \in Nat /\ 0 \in 0..n-1
  BY DEF LatticesOf, Labellings
<1>4. \A i \in 1..n-1 : i - 1 \in 0..n-1 /\ i \in 0..n-1
  OBVIOUS
<1>5. \A i \in 1..n-1 : c.path[i][t[i-1]][t[i]] \in Int
  BY <1>3, <1>4 DEF LatticesOf
<1> HIDE DEF R, B
<1>6. 0 \in T
  BY <1>1, <1>2, <1>3
<1>7. ASSUME NEW k \in 0..(n-1)-1, k \in T PROVE k + 1 \in T
  <2> DEFINE i == k + 1
  <2>1. i \in 1..n-1 /\ i \in 0..n-1 /\ i - 1 = k /\ k \in 0..n-1
    OBVIOUS
  <2> HIDE DEF i
  <2> DEFINE x == c.node[i][t[i]]
             q == c.path[i][t[i-1]][t[i]]
             r == R[i-1]
             b == B[i-1][t[i-1]]
  <2>2. x \in Int /\ q \in Int /\ r \in Int /\ b \in Int /\ r <= b
    BY <1>1, <1>2, <1>3, <1>5, <1>7, <2>1
  <2>3. R[i] = x + (r + q)
    BY <1>1, <2>1
  <2>4. x + (b + q) <= B[i][t[i]] /\ B[i][t[i]] \in Int
    BY <1>2, <1>3, <1>4, <2>1
  <2> HIDE DEF x, q, r, b
  <2>5. R[i] <= B[i][t[i]]
    BY <2>2, <2>3, <2>4
  <2> QED BY <2>1, <2>5 DEF i
<1> HIDE DEF T
<1>8. 0..n-1 \subseteq T
  BY <1>3, <1>6, <1>7, UpTo
<1> QED BY <1>8 DEF T, R, B

LEMMA BackRunning ==
  ASSUME NEW n \in Nat \ {0}, NEW c \in LatticesOf(n)
  PROVE  LET t == BestTags(c, n)
         IN  \A i \in 0..n-1 : RunningCost(c, n, t)[i] = BestCost(c, n)[i][t[i]]
<1> DEFINE t == BestTags(c, n)
           R == RunningCost(c, n, t)
           B == BestCost(c, n)
           T == {i \in 0..n-1 : R[i] = B[i][t[i]]}
<1>0. /\ t \in Labellings(n)
      /\ \A i \in 1..n-1 : \A a \in Tag :
           B[i-1][a] + c.path[i][a][t[i]] <= B[i-1][t[i-1]] + c.path[i][t[i-1]][t[i]]
  BY BackIs
<1> HIDE DEF t
<1>1. /\ R \in [0..n-1 -> Int] /\ R[0] = c.node[0][t[0]]
      /\ \A i \in 1..n-1 : R[i] = c.node[i][t[i]] + (R[i-1] + c.path[i][t[i-1]][t[i]])
  BY <1>0, RunningIs
<1>2. /\ B \in [0..n-1 -> [Tag -> Int]]
      /\ \A y \in Tag : B[0][y] = c.node[0][y]
      /\ \A i \in 1..n-1, y \in Tag :
           /\ \A a \in Tag : c.node[i][y] + (B[i-1][a] + c.path[i][a][y]) <= B[i][y]
           /\ \E a \in Tag : c.node[i][y] + (B[i-1][a] + c.path[i][a][y]) = B[i][y]
  BY BestIs
<1>3. /\ \A i \in 0..n-1 : t[i] \in Tag /\ c.node[i][t[i]] \in Int
      /\ n - 1 \in Nat /\ 0 \in 0..n-1
  BY <1>0 DEF LatticesOf, Labellings
<1>4. \A i \in 1..n-1 : i - 1 \in 0..n-1 /\ i \in 0..n-1
  OBVIOUS
<1>5. \A i \in 1..n-1 : \A a \in Tag : c.path[i][a][t[i]] \in Int
  BY <1>3, <1>4 DEF LatticesOf
<1> HIDE DEF R, B
<1>6. 0 \in T
  BY <1>1, <1>2, <1>3
<1>7. ASSUME NEW k \in 0..(n-1)-1, k \in T PROVE k + 1 \in T
  <2> DEFINE i == k + 1
  <2>1. i \in 1..n-1 /\ i \in 0..n-1 /\ i - 1 = k /\ k \in 0..n-1
    OBVIOUS
  <2> HIDE DEF i
  <2> DEFINE x == c.node[i][t[i]]
             q(a) == B[i-1][a] + c.path[i][a][t[i]]
             p == t[i-1]
  <2>2. x \in Int /\ p \in Tag /\ (\A a \in Tag : q(a) \in Int) /\ B[i][t[i]] \in Int
    <3>1. \A a \in Tag : B[i-1][a] \in Int /\ c.path[i][a][t[i]] \in Int
      BY <1>2, <1>4, <1>5, <2>1
    <3>2. \A a \in Tag : q(a) \in Int
      BY <3>1
    <3>3. x \in Int /\ p \in Tag /\ B[i][t[i]] \in Int
      BY <1>2, <1>3, <1>4, <2>1
    <3> QED BY <3>2, <3>3
  <2>3. R[i] = x + q(p)
    BY <1>1, <1>7, <2>1
  <2>4. \A a \in Tag : q(a) <= q(p)
    BY <1>0, <2>1
  <2>5. (\A a \in Tag : x + q(a) <= B[i][t[i]]) /\ \E a \in Tag : x + q(a) = B[i][t[i]]
    BY <1>2, <1>3, <2>1
  <2> HIDE DEF x, q, p
  <2>6. PICK a \in Tag : x + q(a) = B[i][t[i]]
    BY <2>5
  <2>7. R[i] = B[i][t[i]]
    BY <2>2, <2>3, <2>4, <2>5, <2>6
  <2> QED BY <2>1, <2>7 DEF i
<1> HIDE DEF T
<1>8. 0..n-1 \subseteq T
  BY <1>3, <1>6, <1>7, UpTo
<1> QED BY <1>8 DEF T, R, B, t

(* What viterbi() finds is a best labelling, and its bestCost is its cost. *)
LEMMA ViterbiFinds ==
  ASSUME NEW n \in Nat \ {0}, NEW c \in LatticesOf(n)
  PROVE  LET R == BestTags(c, n)
         IN  /\ R \in Labellings(n)
             /\ TagsCost(c, n, R) \in Int
             /\ BestCost(c, n)[n-1][R[n-1]] = TagsCost(c, n, R)
             /\ \A t \in Labellings(n) : TagsCost(c, n, t) <= TagsCost(c, n, R)
<1> DEFINE R == BestTags(c, n)
           B == BestCost(c, n)
<1>1. R \in Labellings(n) /\ \A w \in Tag : B[n-1][w] <= B[n-1][R[n-1]]
  BY BackIs
<1>2. n - 1 \in 0..n-1
  OBVIOUS
<1>3. RunningCost(c, n, R)[n-1] = B[n-1][R[n-1]]
  BY <1>2, BackRunning
<1>4. B \in [0..n-1 -> [Tag -> Int]]
  BY BestIs
<1> HIDE DEF R, B
<1>5. B[n-1][R[n-1]] \in Int
  BY <1>1, <1>2, <1>4 DEF Labellings
<1>6. ASSUME NEW t \in Labellings(n) PROVE TagsCost(c, n, t) <= TagsCost(c, n, R)
  <2>1. RunningCost(c, n, t)[n-1] <= B[n-1][t[n-1]]
    BY <1>2, RunningBelow DEF B
  <2>2. RunningCost(c, n, t)[n-1] \in Int /\ t[n-1] \in Tag /\ B[n-1][t[n-1]] \in Int
    <3>1. RunningCost(c, n, t) \in [0..n-1 -> Int]
      BY RunningIs
    <3>2. t[n-1] \in Tag
      BY <1>2 DEF Labellings
    <3> QED BY <1>2, <1>4, <3>1, <3>2
  <2>3. B[n-1][t[n-1]] <= B[n-1][R[n-1]]
    BY <1>1, <2>2
  <2> QED BY <1>3, <1>5, <2>1, <2>2, <2>3 DEF TagsCost
<1> QED BY <1>1, <1>3, <1>5, <1>6 DEF R, B, TagsCost
-----------------------------------------------------------------------------
(* The elements of the agenda.                                             *)
LEMMA Sentence ==
  ASSUME TypeOK
  PROVE  /\ len \in Nat \ {0} /\ costs \in LatticesOf(len)
         /\ Ready => best = BestCost(costs, len) /\ best \in [0..len-1 -> [Tag -> Int]]
         /\ \A t \in Labellings(len) : /\ RunningCost(costs, len, t) \in [0..len-1 -> Int]
                                       /\ TagsCost(costs, len, t) \in Int
                                       /\ \A i \in 0..len-1 : t[i] \in Tag
<1>1. len \in Nat \ {0} /\ costs \in LatticesOf(len)
  BY LatticeAssumption DEF TypeOK
<1>2. Ready => best = BestCost(costs, len) /\ best \in [0..len-1 -> [Tag -> Int]]
  BY <1>1, BestIs DEF TypeOK
<1>3. ASSUME NEW t \in Labellings(len)
      PROVE  /\ RunningCost(costs, len, t) \in [0..len-1 -> Int]
             /\ TagsCost(costs, len, t) \in Int
             /\ \A i \in 0..len-1 : t[i] \in Tag
  <2>1. RunningCost(costs, len, t) \in [0..len-1 -> Int]
    BY <1>1, RunningIs
  <2>2. len - 1 \in 0..len-1
    BY <1>1
  <2> QED BY <2>1, <2>2 DEF TagsCost, Labellings
<1> QED BY <1>1, <1>2, <1>3

LEMMA ChainStays ==
  ASSUME NEW e, Chain(e), UNCHANGED <<len, costs, best>>
  PROVE  Chain(e)'
BY DEF Chain, EndOf, TagsCost, RunningCost, Labellings

(* An element for the last position.                                       *)
LEMMA FirstChain ==
  ASSUME TypeOK, Ready, NEW y \in Tag, NEW e,
         e = Element(<<y>>, -costs.node[len-1][y], -best[len-1][y])
  PROVE  Chain(e) /\ \A t \in Labellings(len) : EndOf(e, t) <=> t[len-1] = y
<1>1. /\ len \in Nat \ {0} /\ costs \in LatticesOf(len)
      /\ best \in [0..len-1 -> [Tag -> Int]] /\ len - 1 \in 0..len-1
  BY Sentence
<1>2. costs.node[len-1][y] \in Int /\ best[len-1][y] \in Int
  BY <1>1 DEF LatticesOf
<1>3. /\ e.tags = <<y>> /\ e.gx = -costs.node[len-1][y] /\ e.fx = -best[len-1][y]
      /\ Len(e.tags) = 1 /\ e.tags \in Seq(Tag) /\ e.tags[1] = y /\ 1 \in 1..len
  BY <1>1 DEF Element
<1>4. ASSUME NEW t \in Labellings(len) PROVE EndOf(e, t) <=> t[len-1] = y
  <2>1. \A k \in 1..1 : k = 1
    OBVIOUS
  <2>2. EndOf(e, t) <=> e.tags[1] = t[len - 1 + 1 - 1]
    <3>1. EndOf(e, t) <=> \A k \in 1..1 : e.tags[k] = t[len - 1 + k - 1]
      BY <1>3 DEF EndOf
    <3> QED BY <2>1, <3>1
  <2>3. len - 1 + 1 - 1 = len - 1
    BY <1>1
  <2> QED BY <1>3, <2>2, <2>3
<1>5. ASSUME NEW t \in Labellings(len), EndOf(e, t)
      PROVE  /\ e.gx = RunningCost(costs, len, t)[len-1] - costs.node[len-1][t[len-1]]
                         - TagsCost(costs, len, t)
             /\ e.fx = RunningCost(costs, len, t)[len-1] - best[len-1][t[len-1]]
                         - TagsCost(costs, len, t)
  <2>1. t[len-1] = y
    BY <1>4, <1>5
  <2>2. TagsCost(costs, len, t) = RunningCost(costs, len, t)[len-1] /\ TagsCost(costs, len, t) \in Int
    BY Sentence DEF TagsCost
  <2> QED BY <1>2, <1>3, <2>1, <2>2
<1>6. e.gx \in Int /\ e.fx \in Int
  BY <1>2, <1>3
<1>7. Chain(e)
  BY <1>3, <1>5, <1>6 DEF Chain
<1> QED BY <1>4, <1>7

(* One node further to the left.                                           *)
Child(e, a) ==
  LET i == len - Len(e.tags)
      y == Head(e.tags)
  IN  Element(<<a>> \o e.tags,
              e.gx - costs.path[i][a][y] - costs.node[i-1][a],
              e.gx - costs.path[i][a][y] - best[i-1][a])

LEMMA NextChain ==
  ASSUME TypeOK, Ready, NEW e, Chain(e), Len(e.tags) # len, NEW a \in Tag, NEW d, d = Child(e, a)
  PROVE  /\ Chain(d)
         /\ \A t \in Labellings(len) :
              EndOf(d, t) <=> EndOf(e, t) /\ t[len - Len(e.tags) - 1] = a
<1> DEFINE m == Len(e.tags)
           i == len - m
           y == Head(e.tags)
           s == <<a>> \o e.tags
<1>1. /\ len \in Nat \ {0} /\ costs \in LatticesOf(len)
      /\ best \in [0..len-1 -> [Tag -> Int]]
  BY Sentence
<1>2. e.tags \in Seq(Tag) /\ m \in 1..len /\ e.gx \in Int /\ m \in Nat
  BY <1>1 DEF Chain
<1>3. /\ i \in 1..len-1 /\ i - 1 \in 0..len-1 /\ i \in 0..len-1
      /\ m + 1 \in 1..len /\ len - (m + 1) = i - 1
  BY <1>1, <1>2
<1>4. y \in Tag /\ y = e.tags[1]
  BY <1>2
<1>5. /\ s \in Seq(Tag) /\ Len(s) = m + 1 /\ s[1] = a
      /\ \A k \in 1..m : s[k+1] = e.tags[k]
  BY <1>2
<1>6. /\ d.tags = s
      /\ d.gx = e.gx - costs.path[i][a][y] - costs.node[i-1][a]
      /\ d.fx = e.gx - costs.path[i][a][y] - best[i-1][a]
  BY DEF Child, Element
<1>7. costs.path[i][a][y] \in Int /\ costs.node[i-1][a] \in Int /\ best[i-1][a] \in Int
  <2>1. /\ costs.path \in [1..len-1 -> [Tag -> [Tag -> Int]]]
        /\ costs.node \in [0..len-1 -> [Tag -> Int]]
    BY <1>1 DEF LatticesOf
  <2>2. costs.path[i] \in [Tag -> [Tag -> Int]]
    BY <1>3, <2>1
  <2>3. costs.node[i-1] \in [Tag -> Int] /\ best[i-1] \in [Tag -> Int]
    BY <1>1, <1>3, <2>1
  <2> QED BY <1>4, <2>2, <2>3
<1> HIDE DEF m, i, y, s
<1>8. ASSUME NEW t \in Labellings(len) PROVE EndOf(d, t) <=> EndOf(e, t) /\ t[i-1] = a
  <2>1. EndOf(d, t) <=> \A k \in 1..m+1 : s[k] = t[i - 1 + k - 1]
    BY <1>3, <1>5, <1>6 DEF EndOf
  <2>2. EndOf(e, t) <=> \A k \in 1..m : e.tags[k] = t[i + k - 1]
    BY DEF EndOf, m, i
  <2>3. (\A k \in 1..m+1 : s[k] = t[i - 1 + k - 1]) <=>
          s[1] = t[i-1] /\ \A k \in 1..m : s[k+1] = t[i + k - 1]
    <3>1. ASSUME \A k \in 1..m+1 : s[k] = t[i - 1 + k - 1]
          PROVE  s[1] = t[i-1] /\ \A k \in 1..m : s[k+1] = t[i + k - 1]
      <4>1. s[1] = t[i - 1 + 1 - 1] /\ i - 1 + 1 - 1 = i - 1
        BY <1>2, <1>3, <3>1
      <4>2. ASSUME NEW k \in 1..m PROVE s[k+1] = t[i + k - 1]
        <5>1. k + 1 \in 1..m+1 /\ i - 1 + (k + 1) - 1 = i + k - 1
          BY <1>2, <1>3
        <5> QED BY <3>1, <5>1
      <4> QED BY <4>1, <4>2
    <3>2. ASSUME s[1] = t[i-1], \A k \in 1..m : s[k+1] = t[i + k - 1], NEW k \in 1..m+1
          PROVE  s[k] = t[i - 1 + k - 1]
      <4>1. CASE k = 1
        <5>1. i - 1 + k - 1 = i - 1
          BY <1>3, <4>1
        <5> QED BY <3>2, <4>1, <5>1
      <4>2. CASE k # 1
        <5>1. k - 1 \in 1..m /\ k - 1 + 1 = k /\ i + (k - 1) - 1 = i - 1 + k - 1
          BY <1>2, <1>3, <4>2
        <5>2. s[k - 1 + 1] = t[i + (k - 1) - 1]
          BY <3>2, <5>1
        <5> QED BY <5>1, <5>2
      <4> QED BY <4>1, <4>2
    <3> QED BY <3>1, <3>2
  <2> QED BY <1>5, <2>1, <2>2, <2>3
<1>9. ASSUME NEW t \in Labellings(len), EndOf(d, t)
      PROVE  /\ d.gx = RunningCost(costs, len, t)[i-1] - costs.node[i-1][t[i-1]]
                         - TagsCost(costs, len, t)
             /\ d.fx = RunningCost(costs, len, t)[i-1] - best[i-1][t[i-1]]
                         - TagsCost(costs, len, t)
  <2> DEFINE R == RunningCost(costs, len, t)
             W == TagsCost(costs, len, t)
  <2>1. EndOf(e, t) /\ t[i-1] = a
    BY <1>8, <1>9
  <2>2. t[i] = y
    <3>1. 1 \in 1..m /\ i + 1 - 1 = i
      BY <1>2, <1>3
    <3>2. e.tags[1] = t[i + 1 - 1]
      BY <2>1, <3>1 DEF EndOf, m, i
    <3> QED BY <1>4, <3>1, <3>2
  <2>3. e.gx = R[i] - costs.node[i][t[i]] - W
    BY <2>1 DEF Chain, m, i
  <2>4. R[i] = costs.node[i][t[i]] + (R[i-1] + costs.path[i][t[i-1]][t[i]])
    BY <1>1, <1>3, RunningIs
  <2>5. R[i] \in Int /\ R[i-1] \in Int /\ W \in Int /\ costs.node[i][y] \in Int
    <3>1. costs.node[i][y] \in Int
      BY <1>1, <1>3, <1>4 DEF LatticesOf
    <3>2. R \in [0..len-1 -> Int] /\ W \in Int
      BY Sentence
    <3> QED BY <1>3, <3>1, <3>2
  <2> HIDE DEF R, W
  <2>6. e.gx = R[i-1] + costs.path[i][a][y] - W
    BY <1>7, <2>1, <2>2, <2>3, <2>4, <2>5
  <2>7. /\ d.gx = R[i-1] - costs.node[i-1][a] - W
        /\ d.fx = R[i-1] - best[i-1][a] - W
    <3> DEFINE q == costs.path[i][a][y]
               x == costs.node[i-1][a]
               b == best[i-1][a]
               u == R[i-1]
    <3>1. q \in Int /\ x \in Int /\ b \in Int /\ u \in Int /\ W \in Int
      BY <1>7, <2>5
    <3>2. d.gx = e.gx - q - x /\ d.fx = e.gx - q - b /\ e.gx = u + q - W
      BY <1>6, <2>6
    <3> HIDE DEF q, x, b, u
    <3>3. d.gx = u - x - W /\ d.fx = u - b - W
      BY <3>1, <3>2
    <3> QED BY <3>3 DEF x, b, u
  <2> QED BY <2>1, <2>7 DEF R, W
<1>10. d.gx \in Int /\ d.fx \in Int
  BY <1>2, <1>6, <1>7
<1>11. Chain(d)
  BY <1>3, <1>5, <1>6, <1>9, <1>10 DEF Chain
<1> QED BY <1>8, <1>11 DEF m, i
-----------------------------------------------------------------------------
(* The guide of the search never says more than what the labellings behind *)
(* an element cost.                                                        *)
LEMMA Admissible ==
  ASSUME TypeOK, Ready, NEW e, Chain(e), NEW t \in Labellings(len), EndOf(e, t)
  PROVE  e.fx <= -TagsCost(costs, len, t)
<1> DEFINE p == len - Len(e.tags)
           r == RunningCost(costs, len, t)[p]
           b == best[p][t[p]]
           W == TagsCost(costs, len, t)
<1>1. len \in Nat \ {0} /\ Len(e.tags) \in 1..len
  BY Sentence DEF Chain
<1>2. p \in 0..len-1
  BY <1>1
<1>3. e.fx = r - b - W
  BY DEF Chain
<1>4. r \in Int /\ b \in Int /\ W \in Int
  BY <1>2, Sentence
<1>5. r <= b
  BY <1>2, Sentence, RunningBelow
<1> HIDE DEF r, b, W
<1>6. r - b - W <= -W
  BY <1>4, <1>5
<1> QED BY <1>3, <1>6 DEF W

(* An element at position 0 is one labelling, with its exact cost.         *)
LEMMA Complete ==
  ASSUME TypeOK, Ready, NEW e, Chain(e), Len(e.tags) = len, NEW r,
         r = [i \in 0..len-1 |-> e.tags[i+1]]
  PROVE  /\ r \in Labellings(len)
         /\ \A t \in Labellings(len) : EndOf(e, t) <=> t = r
         /\ e.gx = -TagsCost(costs, len, r) /\ e.fx = -TagsCost(costs, len, r)
<1>1. /\ len \in Nat \ {0} /\ costs \in LatticesOf(len) /\ 0 \in 0..len-1
      /\ best = BestCost(costs, len)
  BY Sentence
<1>2. e.tags \in Seq(Tag) /\ \A i \in 0..len-1 : i + 1 \in 1..len
  BY <1>1 DEF Chain
<1>3. r \in Labellings(len)
  BY <1>2 DEF Labellings
<1>4. ASSUME NEW t \in Labellings(len) PROVE EndOf(e, t) <=> t = r
  <2>1. EndOf(e, t) <=> \A k \in 1..len : e.tags[k] = t[k - 1]
    <3>1. \A k \in 1..len : len - len + k - 1 = k - 1
      BY <1>1
    <3> QED BY <3>1 DEF EndOf
  <2>2. (\A k \in 1..len : e.tags[k] = t[k - 1]) <=> \A i \in 0..len-1 : e.tags[i+1] = t[i]
    <3>1. \A k \in 1..len : k - 1 \in 0..len-1 /\ k - 1 + 1 = k
      BY <1>1
    <3>2. \A i \in 0..len-1 : i + 1 \in 1..len /\ i + 1 - 1 = i
      BY <1>1
    <3> QED BY <3>1, <3>2
  <2>3. t = r <=> \A i \in 0..len-1 : e.tags[i+1] = t[i]
    <3>1. t = [i \in 0..len-1 |-> t[i]]
      BY DEF Labellings
    <3> QED BY <3>1
  <2> QED BY <2>1, <2>2, <2>3
<1>5. EndOf(e, r)
  BY <1>3, <1>4
<1> DEFINE R == RunningCost(costs, len, r)
           W == TagsCost(costs, len, r)
<1>6. len - Len(e.tags) = 0
  BY <1>1
<1>7. /\ e.gx = R[0] - costs.node[0][r[0]] - W
      /\ e.fx = R[0] - best[0][r[0]] - W
  BY <1>3, <1>5, <1>6 DEF Chain
<1>8. R[0] = costs.node[0][r[0]] /\ R \in [0..len-1 -> Int]
  BY <1>1, <1>3, RunningIs
<1>9. R[0] \in Int /\ W \in Int
  BY <1>1, <1>3, <1>8, Sentence
<1>10. r[0] \in Tag
  BY <1>1, <1>3 DEF Labellings
<1>11. best[0][r[0]] = costs.node[0][r[0]]
  BY <1>1, <1>10, BestIs
<1> HIDE DEF R, W
<1>12. e.gx = -W /\ e.fx = -W
  BY <1>7, <1>8, <1>9, <1>11
<1> QED BY <1>3, <1>4, <1>12 DEF W
-----------------------------------------------------------------------------
(* The steps of the search.                                                *)
LEMMA StartKeeps == Init => SInv
<1> SUFFICES ASSUME Init PROVE SInv
  OBVIOUS
<1>1. /\ phase = "built" /\ found = <<>> /\ agenda = {} /\ len \in Lengths
      /\ costs \in Costs(len)
  BY DEF Init
<1> QED BY <1>1 DEF SInv, TypeOK, Ready, OneChain, ViterbiOptimal, NbestOrdered

LEMMA SumKeeps ==
  ASSUME SInv, ForwardBackward
  PROVE  SInv'
<1>1. /\ phase = "built" /\ phase' = "summed" /\ found' = found /\ agenda' = agenda
      /\ len' = len /\ costs' = costs /\ found = <<>> /\ agenda = {}
      /\ len \in Lengths /\ costs \in Costs(len)
  BY DEF ForwardBackward, sentence, searchVars, SInv, TypeOK
<1> QED BY <1>1 DEF SInv, TypeOK, Ready, OneChain, ViterbiOptimal, NbestOrdered

LEMMA ViterbiKeeps ==
  ASSUME SInv, Viterbi
  PROVE  SInv'
<1>1. /\ phase \in {"built", "summed"} /\ phase' = "searched"
      /\ len' = len /\ costs' = costs /\ found' = found /\ agenda' = agenda
      /\ best' = BestCost(costs, len) /\ result' = BestTags(costs, len)
      /\ cost' = -best'[len-1][result'[len-1]]
      /\ TypeOK
  BY DEF Viterbi, sentence, SInv
<1>2. /\ len \in Lengths /\ costs \in Costs(len) /\ found = <<>> /\ agenda = {}
      /\ len \in Nat \ {0} /\ costs \in LatticesOf(len)
  BY <1>1, Sentence DEF TypeOK
<1>3. /\ result' \in Labellings(len)
      /\ cost' = -TagsCost(costs, len, result')
      /\ \A t \in Labellings(len) : TagsCost(costs, len, t) <= TagsCost(costs, len, result')
  BY <1>1, <1>2, ViterbiFinds
<1>4. TypeOK'
  BY <1>1, <1>2, <1>3 DEF TypeOK, Ready, BestCost, Labellings
<1>5. ViterbiOptimal'
  BY <1>1, <1>3 DEF ViterbiOptimal
<1>6. OneChain' /\ NbestOrdered' /\ \A e \in agenda' : Chain(e)'
  BY <1>1, <1>2 DEF OneChain, NbestOrdered
<1> QED BY <1>4, <1>5, <1>6 DEF SInv

LEMMA InitNbestKeeps ==
  ASSUME SInv, InitNbest
  PROVE  SInv'
<1> DEFINE first(y) == Element(<<y>>, -costs.node[len-1][y], -best[len-1][y])
<1>1. /\ phase = "searched" /\ phase' = "nbest"
      /\ len' = len /\ costs' = costs /\ found' = found /\ best' = best
      /\ result' = result /\ cost' = cost
      /\ agenda' = {first(y) : y \in Tag}
      /\ TypeOK /\ Ready /\ ViterbiOptimal /\ found = <<>>
  BY DEF InitNbest, sentence, SInv, Ready, TypeOK
<1>2. \A y \in Tag : Chain(first(y)) /\ \A t \in Labellings(len) : EndOf(first(y), t) <=> t[len-1] = y
  BY <1>1, FirstChain
<1> HIDE DEF first
<1>3. \A e \in agenda' : Chain(e)'
  BY <1>1, <1>2, ChainStays
<1>4. TypeOK'
  BY <1>1 DEF TypeOK, Ready
<1>5. ViterbiOptimal' /\ NbestOrdered'
  BY <1>1 DEF ViterbiOptimal, NbestOrdered
<1>6. ASSUME NEW t \in Labellings(len)
      PROVE  \E e \in agenda' : {x \in agenda' : EndOf(x, t)} = {e}
  <2>1. t[len-1] \in Tag
    BY <1>1, Sentence
  <2>2. {x \in agenda' : EndOf(x, t)} = {first(t[len-1])}
    BY <1>1, <1>2, <2>1
  <2> QED BY <1>1, <2>1, <2>2
<1>7. \A t : ~Returned(t)' /\ (ChainsOf(t)' = {x \in agenda' : EndOf(x, t)})
  BY <1>1 DEF Returned, ChainsOf, EndOf
<1>8. OneChain'
  BY <1>1, <1>6, <1>7 DEF OneChain, Labellings
<1> QED BY <1>3, <1>4, <1>5, <1>8 DEF SInv

(* An element that is not at position 0 is replaced by its children: every *)
(* labelling that ended in it ends in exactly one of them.                 *)
LEMMA ExpandKeeps ==
  ASSUME SInv, NEW e \in agenda, Pop(e), Len(e.tags) # len
  PROVE  SInv'
<1>1. /\ phase = "nbest" /\ phase' = "nbest"
      /\ len' = len /\ costs' = costs /\ found' = found /\ best' = best
      /\ result' = result /\ cost' = cost
      /\ agenda' = (agenda \ {e}) \cup {Child(e, a) : a \in Tag}
      /\ TypeOK /\ Ready /\ ViterbiOptimal /\ NbestOrdered /\ OneChain
      /\ \A d \in agenda : Chain(d)
  BY DEF Pop, Expand, Child, sentence, SInv, Ready
<1>2. \A a \in Tag : Chain(Child(e, a)) /\ \A t \in Labellings(len) :
        EndOf(Child(e, a), t) <=> EndOf(e, t) /\ t[len - Len(e.tags) - 1] = a
  BY <1>1, NextChain
<1>3. \A d \in agenda' : Chain(d)'
  BY <1>1, <1>2, ChainStays
<1>4. TypeOK'
  BY <1>1 DEF TypeOK, Ready
<1>5. ViterbiOptimal' /\ NbestOrdered'
  BY <1>1 DEF ViterbiOptimal, NbestOrdered
<1>6. \A t : /\ Returned(t)' <=> Returned(t)
             /\ ChainsOf(t)' = {x \in agenda' : EndOf(x, t)}
             /\ ChainsOf(t) = {x \in agenda : EndOf(x, t)}
  BY <1>1 DEF Returned, ChainsOf, EndOf
<1>7. ASSUME NEW t \in Labellings(len)
      PROVE  IF Returned(t) THEN ChainsOf(t)' = {}
             ELSE \E d \in agenda' : ChainsOf(t)' = {d}
  <2>1. t[len - Len(e.tags) - 1] \in Tag
    <3>1. len - Len(e.tags) - 1 \in 0..len-1
      BY <1>1, Sentence DEF Chain
    <3> QED BY <1>1, <3>1, Sentence
  <2>2. CASE Returned(t)
    <3>1. ChainsOf(t) = {}
      BY <1>1, <2>2 DEF OneChain
    <3> QED BY <1>1, <1>2, <1>6, <2>2, <3>1
  <2>3. CASE ~Returned(t) /\ EndOf(e, t)
    <3>1. ChainsOf(t) = {e}
      <4>1. \E d \in agenda : ChainsOf(t) = {d}
        BY <1>1, <2>3 DEF OneChain
      <4> QED BY <1>6, <2>3, <4>1
    <3>2. ChainsOf(t)' = {Child(e, t[len - Len(e.tags) - 1])}
      BY <1>1, <1>2, <1>6, <2>1, <2>3, <3>1
    <3> QED BY <1>1, <2>1, <2>3, <3>2
  <2>4. CASE ~Returned(t) /\ ~EndOf(e, t)
    <3>1. PICK d \in agenda : ChainsOf(t) = {d}
      BY <1>1, <2>4 DEF OneChain
    <3>2. d # e
      BY <1>6, <2>4, <3>1
    <3>3. ChainsOf(t)' = {d}
      BY <1>1, <1>2, <1>6, <2>4, <3>1, <3>2
    <3> QED BY <1>1, <2>4, <3>1, <3>2, <3>3
  <2> QED BY <2>2, <2>3, <2>4
<1>8. OneChain'
  BY <1>1, <1>6, <1>7 DEF OneChain, Labellings
<1> QED BY <1>3, <1>4, <1>5, <1>8 DEF SInv

(* An element at position 0 is the best labelling not yet returned.        *)
LEMMA ReturnKeeps ==
  ASSUME SInv, NEW e \in agenda, Pop(e), Len(e.tags) = len
  PROVE  SInv'
<1> DEFINE r == [i \in 0..len-1 |-> e.tags[i+1]]
<1>1. /\ phase = "nbest" /\ phase' = "nbest"
      /\ len' = len /\ costs' = costs /\ best' = best
      /\ result' = r /\ cost' = e.gx /\ found' = Append(found, r)
      /\ agenda' = agenda \ {e} /\ e \in Top
      /\ TypeOK /\ Ready /\ NbestOrdered /\ OneChain
      /\ (\A d \in agenda : Chain(d)) /\ found \in Seq(Labellings(len))
  BY DEF Pop, sentence, SInv, Ready, TypeOK
<1>2. /\ r \in Labellings(len)
      /\ \A t \in Labellings(len) : EndOf(e, t) <=> t = r
      /\ e.gx = -TagsCost(costs, len, r) /\ e.fx = -TagsCost(costs, len, r)
      /\ EndOf(e, r)
  <2>1. /\ r \in Labellings(len)
        /\ \A t \in Labellings(len) : EndOf(e, t) <=> t = r
        /\ e.gx = -TagsCost(costs, len, r) /\ e.fx = -TagsCost(costs, len, r)
    BY <1>1, Complete
  <2> HIDE DEF r
  <2> QED BY <2>1
<1> HIDE DEF r
<1>3. \A d \in agenda' : Chain(d)'
  BY <1>1, ChainStays
<1>4. /\ found' \in Seq(Labellings(len)) /\ Len(found') = Len(found) + 1
      /\ Len(found) \in Nat /\ DOMAIN found' = 1..Len(found)+1 /\ DOMAIN found = 1..Len(found)
      /\ found'[Len(found)+1] = r /\ \A k \in 1..Len(found) : found'[k] = found[k]
  BY <1>1, <1>2
<1>5. TypeOK'
  BY <1>1, <1>2, <1>4 DEF TypeOK, Ready, Labellings
<1>6. \A t : /\ Returned(t)' <=> Returned(t) \/ t = r
             /\ ChainsOf(t)' = {x \in agenda' : EndOf(x, t)}
             /\ ChainsOf(t) = {x \in agenda : EndOf(x, t)}
  <2>1. \A t : Returned(t)' <=> Returned(t) \/ t = r
    BY <1>4 DEF Returned
  <2>2. \A t : /\ ChainsOf(t)' = {x \in agenda' : EndOf(x, t)}
               /\ ChainsOf(t) = {x \in agenda : EndOf(x, t)}
    BY <1>1 DEF ChainsOf, EndOf
  <2> QED BY <2>1, <2>2
<1>7. ~Returned(r)
  BY <1>1, <1>2, <1>6 DEF OneChain
<1>8. ASSUME NEW t \in Labellings(len), ~Returned(t)
      PROVE  TagsCost(costs, len, t) <= TagsCost(costs, len, r)
  <2>1. PICK d \in agenda : ChainsOf(t) = {d}
    BY <1>1, <1>8 DEF OneChain
  <2>2. EndOf(d, t) /\ Chain(d)
    BY <1>1, <1>6, <2>1
  <2>3. d.fx <= -TagsCost(costs, len, t)
    BY <1>1, <2>2, Admissible
  <2>4. e.fx <= d.fx
    BY <1>1 DEF Top
  <2>5. d.fx \in Int /\ e.fx \in Int
    BY <1>1, <2>2 DEF Chain
  <2>6. TagsCost(costs, len, t) \in Int /\ TagsCost(costs, len, r) \in Int
    BY <1>1, <1>2, Sentence
  <2> QED BY <1>2, <2>3, <2>4, <2>5, <2>6
<1>9. ViterbiOptimal'
  BY <1>1, <1>2 DEF ViterbiOptimal
<1>10. NbestOrdered'
  <2> SUFFICES ASSUME NEW k \in 1..Len(found)+1,
                      NEW t \in Labellings(len) \ {found'[j] : j \in 1..k-1}
               PROVE  /\ TagsCost(costs, len, t) <= TagsCost(costs, len, found'[k])
                      /\ found'[k] \notin {found'[j] : j \in 1..k-1}
    BY <1>1, <1>4 DEF NbestOrdered, Labellings
  <2>1. CASE k = Len(found) + 1
    <3>1. \A u : u \in {found'[j] : j \in 1..k-1} <=> Returned(u)
      BY <1>4, <2>1 DEF Returned
    <3> QED BY <1>4, <1>7, <1>8, <2>1, <3>1
  <2>2. CASE k # Len(found) + 1
    <3>1. k \in 1..Len(found) /\ found'[k] = found[k]
      BY <1>4, <2>2
    <3>2. {found'[j] : j \in 1..k-1} = {found[j] : j \in 1..k-1}
      <4>1. \A j \in 1..k-1 : found'[j] = found[j]
        BY <1>4, <3>1
      <4> QED BY <4>1
    <3> QED BY <1>1, <1>4, <3>1, <3>2 DEF NbestOrdered
  <2> QED BY <2>1, <2>2
<1>11. ASSUME NEW t \in Labellings(len)
       PROVE  IF Returned(t)' THEN ChainsOf(t)' = {}
              ELSE \E d \in agenda' : ChainsOf(t)' = {d}
  <2>1. CASE Returned(t)
    <3>1. ChainsOf(t) = {}
      BY <1>1, <2>1 DEF OneChain
    <3> QED BY <1>1, <1>6, <2>1, <3>1
  <2>2. CASE t = r
    <3>1. \E d \in agenda : ChainsOf(t) = {d}
      BY <1>1, <1>7, <2>2 DEF OneChain
    <3>2. ChainsOf(t) = {e}
      BY <1>2, <1>6, <2>2, <3>1
    <3> QED BY <1>1, <1>6, <2>2, <3>2
  <2>3. CASE ~Returned(t) /\ t # r
    <3>1. PICK d \in agenda : ChainsOf(t) = {d}
      BY <1>1, <2>3 DEF OneChain
    <3>2. d # e
      BY <1>2, <1>6, <2>3, <3>1
    <3>3. ChainsOf(t)' = {d} /\ d \in agenda'
      BY <1>1, <1>6, <3>1, <3>2
    <3> QED BY <1>6, <2>3, <3>3
  <2> QED BY <2>1, <2>2, <2>3
<1>12. OneChain'
  BY <1>1, <1>11 DEF OneChain, Labellings
<1> QED BY <1>3, <1>5, <1>9, <1>10, <1>12 DEF SInv

LEMMA IdleKeeps ==
  ASSUME SInv, Empty \/ UNCHANGED vars
  PROVE  SInv'
<1>1. /\ len' = len /\ costs' = costs /\ found' = found /\ best' = best
      /\ result' = result /\ cost' = cost /\ agenda' = agenda
      /\ \/ phase' = phase
         \/ phase = "nbest" /\ agenda = {} /\ phase' = "empty"
      /\ TypeOK /\ ViterbiOptimal /\ NbestOrdered /\ OneChain
      /\ \A d \in agenda : Chain(d)
  BY DEF Empty, vars, sentence, searchVars, SInv
<1>2. \A d \in agenda' : Chain(d)'
  BY <1>1, ChainStays
<1>3. TypeOK'
  BY <1>1 DEF TypeOK, Ready
<1>4. ViterbiOptimal' /\ NbestOrdered'
  BY <1>1 DEF ViterbiOptimal, NbestOrdered
<1>5. \A t : /\ Returned(t)' <=> Returned(t)
             /\ ChainsOf(t)' = ChainsOf(t)
  BY <1>1 DEF Returned, ChainsOf, EndOf
<1>6. OneChain'
  BY <1>1, <1>5 DEF OneChain, Labellings
<1> QED BY <1>2, <1>3, <1>4, <1>6 DEF SInv
-----------------------------------------------------------------------------
(* The inductive invariant of parse and next: what g and f of an element   *)
(* mean, and where each labelling is (lines 403-455).                      *)
THEOREM SearchInvariant == Spec => []SInv
<1>1. Init => SInv
  BY StartKeeps
<1>2. SInv /\ [Next]_vars => SInv'
  <2> SUFFICES ASSUME SInv, [Next]_vars PROVE SInv'
    OBVIOUS
  <2>1. CASE ForwardBackward
    BY <2>1, SumKeeps
  <2>2. CASE Viterbi
    BY <2>2, ViterbiKeeps
  <2>3. CASE InitNbest
    BY <2>3, InitNbestKeeps
  <2>4. ASSUME NEW e \in agenda, Pop(e) PROVE SInv'
    BY <2>4, ExpandKeeps, ReturnKeeps
  <2>5. CASE Empty \/ Rest \/ UNCHANGED vars
    BY <2>5, IdleKeeps DEF Rest
  <2> QED BY <2>1, <2>2, <2>3, <2>4, <2>5 DEF Next
<1> QED BY <1>1, <1>2, PTL DEF Spec

(* viterbi() finds a best labelling of every lattice, and cost_ is the cost*)
(* of result_ after it and after every next() (lines 532-565).             *)
THEOREM ViterbiAlwaysOptimal == Spec => []ViterbiOptimal
<1>1. SInv => ViterbiOptimal
  BY DEF SInv
<1> QED BY <1>1, SearchInvariant, PTL

(* Each labelling next() returns is a best one of those not yet returned,  *)
(* whatever the queue does with equal scores (lines 403-455).              *)
THEOREM NbestAlwaysOrdered == Spec => []NbestOrdered
<1>1. SInv => NbestOrdered
  BY DEF SInv
<1> QED BY <1>1, SearchInvariant, PTL

(* No labelling is lost or held twice by the agenda: next() returns 0 only *)
(* when it has returned them all (lines 403-455).                          *)
THEOREM NothingEverLost == Spec => []NothingLost
<1>1. SInv => NothingLost
  <2> SUFFICES ASSUME SInv, phase \in {"nbest", "empty"}, NEW t \in Labellings(len)
               PROVE  Cardinality(ChainsOf(t)) = IF Returned(t) THEN 0 ELSE 1
    BY DEF NothingLost, ChainsOf, Returned
  <2>1. IF Returned(t) THEN ChainsOf(t) = {} ELSE \E e \in agenda : ChainsOf(t) = {e}
    BY DEF SInv, OneChain
  <2> QED BY <2>1, FS_EmptySet, FS_Singleton
<1> QED BY <1>1, SearchInvariant, PTL
-----------------------------------------------------------------------------
(* Powers of two.                                                          *)
LEMMA ExpBy ==
  ASSUME NEW n \in Nat, NEW p, p[0] = 1, \A k \in 1..n : p[k] = 2 * p[k-1]
  PROVE  Exp(n) = p[n]
<1> DEFINE g == [k \in 0..n |-> p[k]]
           power == CHOOSE e : e = [k \in 0..n |-> IF k = 0 THEN 1 ELSE 2 * e[k-1]]
<1>1. ASSUME NEW k \in 0..n PROVE g[k] = IF k = 0 THEN 1 ELSE 2 * g[k-1]
  <2>1. CASE k = 0
    BY <2>1
  <2>2. CASE k # 0
    <3>1. k \in 1..n /\ k - 1 \in 0..n
      BY <2>2
    <3> QED BY <2>2, <3>1
  <2> QED BY <2>1, <2>2
<1>2. g = [k \in 0..n |-> IF k = 0 THEN 1 ELSE 2 * g[k-1]]
  BY <1>1
<1>3. power = [k \in 0..n |-> IF k = 0 THEN 1 ELSE 2 * power[k-1]]
  <2> HIDE DEF g
  <2> QED BY <1>2
<1>4. Exp(n) = power[n]
  BY DEF Exp
<1> HIDE DEF power
<1> DEFINE T == {k \in 0..n : power[k] = p[k]}
<1>5. 0 \in T
  BY <1>3
<1>6. ASSUME NEW i \in 0..n-1, i \in T PROVE i + 1 \in T
  <2>1. i + 1 \in 0..n /\ i + 1 \in 1..n /\ i + 1 # 0 /\ i + 1 - 1 = i
    OBVIOUS
  <2>2. power[i+1] = 2 * power[i]
    BY <1>3, <2>1
  <2>3. p[i+1] = 2 * p[i]
    BY <2>1
  <2> QED BY <1>6, <2>1, <2>2, <2>3
<1> HIDE DEF T
<1>7. 0..n \subseteq T
  BY <1>5, <1>6, UpTo
<1> QED BY <1>4, <1>7 DEF T

LEMMA ExpIs ==
  /\ Exp(0) = 1
  /\ \A n \in Nat : Exp(n) \in Nat \ {0} /\ Exp(n+1) = 2 * Exp(n)
<1>1. ASSUME NEW n \in Nat
      PROVE  Exp(n) \in Nat \ {0} /\ Exp(n+1) = 2 * Exp(n) /\ Exp(0) = 1
  <2> DEFINE G == [i \in 1..n+1 |-> [x \in Nat \ {0} |-> 2 * x]]
  <2>1. G \in [1..n+1 -> [Nat \ {0} -> Nat \ {0}]] /\ 1 \in Nat \ {0} /\ n + 1 \in Nat
    OBVIOUS
  <2>2. \A i \in 1..n+1, x \in Nat \ {0} : G[i][x] = 2 * x
    OBVIOUS
  <2> HIDE DEF G
  <2>3. PICK p : Follows(p, n + 1, Nat \ {0}, 1, G)
    BY <2>1, Recursion
  <2>4. p \in [0..n+1 -> Nat \ {0}] /\ p[0] = 1 /\ \A k \in 1..n+1 : p[k] = G[k][p[k-1]]
    BY <2>3 DEF Follows
  <2>5. \A k \in 1..n+1 : k - 1 \in 0..n+1 /\ p[k-1] \in Nat \ {0}
    BY <2>4
  <2>6. \A k \in 1..n+1 : p[k] = 2 * p[k-1]
    BY <2>2, <2>4, <2>5
  <2>7. Exp(n+1) = p[n+1]
    BY <2>1, <2>4, <2>6, ExpBy
  <2>8. \A k \in 1..n : p[k] = 2 * p[k-1]
    BY <2>6
  <2>9. Exp(n) = p[n]
    BY <2>4, <2>8, ExpBy
  <2>10. \A k \in 1..0 : p[k] = 2 * p[k-1]
    OBVIOUS
  <2>11. Exp(0) = p[0]
    BY <2>4, <2>10, ExpBy
  <2>12. p[n+1] = 2 * p[n]
    <3>1. n + 1 \in 1..n+1 /\ n + 1 - 1 = n
      OBVIOUS
    <3> QED BY <2>6, <3>1
  <2>13. p[n] \in Nat \ {0}
    BY <2>4
  <2> QED BY <2>4, <2>7, <2>9, <2>11, <2>12, <2>13
<1>2. 0 \in Nat
  OBVIOUS
<1> QED BY <1>1, <1>2

LEMMA ExpAdds ==
  ASSUME NEW a \in Nat, NEW b \in Nat
  PROVE  Exp(a + b) = Exp(a) * Exp(b)
<1> DEFINE T == {k \in Nat : Exp(a + k) = Exp(a) * Exp(k)}
<1>1. 0 \in T
  <2>1. Exp(a) \in Nat /\ a + 0 = a /\ Exp(0) = 1
    BY ExpIs
  <2> QED BY <2>1
<1>2. ASSUME NEW i \in 0..b-1, i \in T PROVE i + 1 \in T
  <2>1. i \in Nat /\ a + i \in Nat /\ i + 1 \in Nat /\ a + (i + 1) = (a + i) + 1
    OBVIOUS
  <2>2. Exp((a + i) + 1) = 2 * Exp(a + i) /\ Exp(i+1) = 2 * Exp(i)
    BY <2>1, ExpIs
  <2>3. Exp(a) \in Int /\ Exp(i) \in Int
    BY <2>1, ExpIs
  <2>4. 2 * (Exp(a) * Exp(i)) = Exp(a) * (2 * Exp(i))
    <3>1. \A x, y \in Int : 2 * (x * y) = x * (2 * y)
      OBVIOUS
    <3> QED BY <2>3, <3>1
  <2>5. Exp(a + i) = Exp(a) * Exp(i)
    BY <1>2
  <2>6. Exp(a + (i + 1)) = Exp(a) * Exp(i + 1)
    BY <2>1, <2>2, <2>4, <2>5
  <2> QED BY <2>1, <2>6
<1> HIDE DEF T
<1>3. 0..b \subseteq T
  BY <1>1, <1>2, UpTo
<1> QED BY <1>3 DEF T
-----------------------------------------------------------------------------
(* Sums of a loop: whatever follows the loop turn by turn is the sum.      *)
LEMMA SumBy ==
  ASSUME NEW n \in Nat, NEW f, NEW u, u[0] = 0, \A k \in 0..n-1 : u[k+1] = u[k] + f[k]
  PROVE  SumUpTo(n, f) = u[n]
<1> DEFINE g == [k \in 0..n |-> u[k]]
           upto == CHOOSE e : e = [k \in 0..n |-> IF k = 0 THEN 0 ELSE e[k-1] + f[k-1]]
<1>1. ASSUME NEW k \in 0..n PROVE g[k] = IF k = 0 THEN 0 ELSE g[k-1] + f[k-1]
  <2>1. CASE k = 0
    BY <2>1
  <2>2. CASE k # 0
    <3>1. k - 1 \in 0..n-1 /\ k - 1 \in 0..n /\ (k - 1) + 1 = k
      BY <2>2
    <3>2. u[(k-1)+1] = u[k-1] + f[k-1]
      BY <3>1
    <3> QED BY <2>2, <3>1, <3>2
  <2> QED BY <2>1, <2>2
<1>2. g = [k \in 0..n |-> IF k = 0 THEN 0 ELSE g[k-1] + f[k-1]]
  BY <1>1
<1>3. upto = [k \in 0..n |-> IF k = 0 THEN 0 ELSE upto[k-1] + f[k-1]]
  <2> HIDE DEF g
  <2> QED BY <1>2
<1>4. SumUpTo(n, f) = upto[n]
  BY DEF SumUpTo
<1> HIDE DEF upto
<1> DEFINE T == {k \in 0..n : upto[k] = u[k]}
<1>5. 0 \in T
  BY <1>3
<1>6. ASSUME NEW i \in 0..n-1, i \in T PROVE i + 1 \in T
  <2>1. i + 1 \in 0..n /\ i + 1 # 0 /\ i + 1 - 1 = i
    OBVIOUS
  <2>2. upto[i+1] = upto[i] + f[i]
    BY <1>3, <2>1
  <2> QED BY <1>6, <2>1, <2>2
<1> HIDE DEF T
<1>7. 0..n \subseteq T
  BY <1>5, <1>6, UpTo
<1> QED BY <1>4, <1>7 DEF T

LEMMA SumRuns ==
  ASSUME NEW n \in Nat, NEW f, \A k \in 0..n-1 : f[k] \in Int
  PROVE  \E u \in [0..n -> Int] : /\ u[0] = 0
                                  /\ \A k \in 0..n-1 : u[k+1] = u[k] + f[k]
                                  /\ SumUpTo(n, f) = u[n]
<1> DEFINE G == [i \in 1..n |-> [x \in Int |-> x + f[i-1]]]
<1>1. G \in [1..n -> [Int -> Int]] /\ \A i \in 1..n, x \in Int : G[i][x] = x + f[i-1]
  <2>1. \A i \in 1..n : f[i-1] \in Int
    OBVIOUS
  <2> QED BY <2>1
<1> HIDE DEF G
<1>2. PICK u : Follows(u, n, Int, 0, G)
  <2>1. 0 \in Int
    OBVIOUS
  <2> QED BY <1>1, <2>1, Recursion
<1>3. u \in [0..n -> Int] /\ u[0] = 0 /\ \A i \in 1..n : u[i] = G[i][u[i-1]]
  BY <1>2 DEF Follows
<1>4. ASSUME NEW k \in 0..n-1 PROVE u[k+1] = u[k] + f[k]
  <2> DEFINE a == k + 1
  <2>1. a \in 1..n /\ a - 1 = k /\ u[k] \in Int
    BY <1>3
  <2> HIDE DEF a
  <2>2. u[a] = G[a][u[k]]
    BY <1>3, <2>1
  <2>3. G[a][u[k]] = u[k] + f[k]
    BY <1>1, <2>1
  <2> QED BY <2>2, <2>3 DEF a
<1>5. SumUpTo(n, f) = u[n]
  <2>1. u[0] = 0 /\ \A k \in 0..n-1 : u[k+1] = u[k] + f[k]
    BY <1>3, <1>4
  <2> QED BY ONLY n \in Nat, <2>1, SumBy
<1> QED BY <1>3, <1>4, <1>5

LEMMA SumTyped ==
  ASSUME NEW n \in Nat, NEW f, \A k \in 0..n-1 : f[k] \in Int
  PROVE  SumUpTo(n, f) \in Int
BY SumRuns

(* A common factor.                                                        *)
LEMMA SumScales ==
  ASSUME NEW n \in Nat, NEW f, \A k \in 0..n-1 : f[k] \in Int,
         NEW m \in Int, NEW g, \A k \in 0..n-1 : g[k] = m * f[k]
  PROVE  SumUpTo(n, g) = m * SumUpTo(n, f)
<1>1. PICK u \in [0..n -> Int] : /\ u[0] = 0
                                 /\ \A k \in 0..n-1 : u[k+1] = u[k] + f[k]
                                 /\ SumUpTo(n, f) = u[n]
  BY SumRuns
<1> DEFINE w == [k \in 0..n |-> m * u[k]]
<1>2. w[0] = 0 /\ w[n] = m * u[n]
  BY <1>1
<1>3. ASSUME NEW k \in 0..n-1 PROVE w[k+1] = w[k] + g[k]
  <2>1. k \in 0..n /\ k + 1 \in 0..n /\ u[k] \in Int /\ f[k] \in Int
    OBVIOUS
  <2>2. m * (u[k] + f[k]) = m * u[k] + m * f[k]
    BY <2>1
  <2> QED BY <1>1, <2>1, <2>2
<1> HIDE DEF w
<1>4. SumUpTo(n, g) = w[n]
  BY <1>2, <1>3, SumBy
<1> QED BY <1>1, <1>2, <1>4
-----------------------------------------------------------------------------
(* Sums over a finite set.                                                 *)
AnyOf(T) == CHOOSE x \in T : TRUE
Summed(u, S, f) ==
  \A T \in SUBSET S : u[T] = IF T = {} THEN 0 ELSE f[AnyOf(T)] + u[T \ {AnyOf(T)}]

LEMMA SetSumsExist ==
  ASSUME NEW S, IsFiniteSet(S), NEW f, \A x \in S : f[x] \in Int
  PROVE  \E u \in [SUBSET S -> Int] : Summed(u, S, f)
<1> DEFINE n == Cardinality(S)
           V == [SUBSET S -> Int]
           turn(h) == [T \in SUBSET S |-> IF T = {} THEN 0 ELSE f[AnyOf(T)] + h[T \ {AnyOf(T)}]]
           zero == [T \in SUBSET S |-> 0]
           G == [i \in 1..n+1 |-> [h \in V |-> turn(h)]]
<1>1. n \in Nat /\ n + 1 \in Nat
  BY FS_CardinalityType
<1>2. \A T \in SUBSET S : T # {} => AnyOf(T) \in T /\ T \ {AnyOf(T)} \in SUBSET S
  BY DEF AnyOf
<1>3. ASSUME NEW h \in V PROVE turn(h) \in V
  <2> SUFFICES ASSUME NEW T \in SUBSET S
               PROVE  (IF T = {} THEN 0 ELSE f[AnyOf(T)] + h[T \ {AnyOf(T)}]) \in Int
    OBVIOUS
  <2>1. T # {} => f[AnyOf(T)] \in Int /\ h[T \ {AnyOf(T)}] \in Int
    BY <1>2
  <2> QED BY <2>1
<1>4. G \in [1..n+1 -> [V -> V]] /\ zero \in V
  <2>1. zero \in V
    OBVIOUS
  <2> HIDE DEF V, turn, n, zero
  <2> QED BY <1>3, <2>1
<1>5. \A i \in 1..n+1, h \in V : G[i][h] = turn(h)
  <2> HIDE DEF V, turn, n
  <2> QED OBVIOUS
<1> HIDE DEF G, zero, n, V
<1>6. PICK F : Follows(F, n + 1, V, zero, G)
  BY <1>1, <1>4, Recursion
<1>7. F \in [0..n+1 -> V] /\ F[0] = zero /\ \A i \in 1..n+1 : F[i] = G[i][F[i-1]]
  BY <1>6 DEF Follows
<1>8. ASSUME NEW i \in 0..n PROVE F[i+1] = turn(F[i])
  <2>1. i + 1 \in 1..n+1 /\ i + 1 - 1 = i /\ i \in 0..n+1
    BY <1>1
  <2>2. F[i] \in V
    BY <1>7, <2>1
  <2> HIDE DEF turn
  <2> QED BY <1>5, <1>7, <2>1, <2>2
(* After as many turns as T has elements the sum over T stands.            *)
<1> DEFINE stands(i) == \A T \in SUBSET S : Cardinality(T) <= i => F[i+1][T] = F[i][T]
           K == {i \in 0..n : stands(i)}
<1>9. 0 \in K
  <2>1. 0 \in 0..n
    BY <1>1
  <2>2. ASSUME NEW T \in SUBSET S, Cardinality(T) <= 0 PROVE F[0+1][T] = F[0][T]
    <3>1. IsFiniteSet(T) /\ Cardinality(T) \in Nat
      BY FS_Subset, FS_CardinalityType
    <3>2. T = {}
      BY <2>2, <3>1, FS_EmptySet
    <3>3. F[0+1][T] = 0
      BY <1>8, <2>1, <3>2
    <3>4. F[0][T] = 0
      BY <1>7 DEF zero
    <3> QED BY <3>3, <3>4
  <2> QED BY <2>1, <2>2
<1>10. ASSUME NEW i \in 0..n-1, i \in K PROVE i + 1 \in K
  <2>1. i \in 0..n /\ i + 1 \in 0..n /\ i \in Nat
    BY <1>1
  <2> DEFINE j == i + 1
  <2>2. j \in 0..n /\ j \in Int
    BY <2>1
  <2>3. ASSUME NEW T \in SUBSET S, Cardinality(T) <= j PROVE F[j+1][T] = F[j][T]
    <3>1. IsFiniteSet(T) /\ Cardinality(T) \in Nat
      BY FS_Subset, FS_CardinalityType
    <3>2. F[j+1] = turn(F[j])
      BY <1>8, <2>2
    <3>3. F[j] = turn(F[i])
      BY <1>8, <2>1
    <3> HIDE DEF j
    <3>4. CASE T = {}
      BY <3>2, <3>3, <3>4
    <3>5. CASE T # {}
      <4> DEFINE R == T \ {AnyOf(T)}
      <4>1. AnyOf(T) \in T /\ R \in SUBSET S
        BY <1>2, <3>5
      <4>2. Cardinality(R) = Cardinality(T) - 1
        BY <3>1, <4>1, FS_RemoveElement
      <4>3. Cardinality(R) <= i
        BY <2>1, <2>3, <3>1, <4>2 DEF j
      <4>4. F[i+1][R] = F[i][R]
        BY <1>10, <4>1, <4>3
      <4>5. F[j][R] = F[i][R]
        BY <4>4 DEF j
      <4>6. F[j+1][T] = f[AnyOf(T)] + F[j][R] /\ F[j][T] = f[AnyOf(T)] + F[i][R]
        BY <3>2, <3>3, <3>5
      <4> QED BY <4>5, <4>6
    <3> QED BY <3>4, <3>5
  <2>4. stands(j)
    BY <2>3
  <2> HIDE DEF stands
  <2> QED BY <2>1, <2>4
<1> HIDE DEF K
<1>11. 0..n \subseteq K
  BY <1>1, <1>9, <1>10, UpTo
<1>12. n \in 0..n /\ stands(n)
  BY <1>1, <1>11 DEF K
<1> DEFINE u == F[n]
<1>13. u \in V
  BY <1>1, <1>7
<1>14. ASSUME NEW T \in SUBSET S
       PROVE  u[T] = IF T = {} THEN 0 ELSE f[AnyOf(T)] + u[T \ {AnyOf(T)}]
  <2>1. Cardinality(T) <= n
    BY FS_Subset DEF n
  <2>2. F[n+1][T] = F[n][T]
    BY <1>12, <2>1
  <2>3. F[n+1][T] = turn(F[n])[T]
    BY <1>8, <1>12
  <2> HIDE DEF u
  <2>4. turn(F[n])[T] = IF T = {} THEN 0 ELSE f[AnyOf(T)] + F[n][T \ {AnyOf(T)}]
    OBVIOUS
  <2> QED BY <2>2, <2>3, <2>4 DEF u
<1> HIDE DEF u
<1>15. Summed(u, S, f)
  BY <1>14 DEF Summed
<1> QED BY <1>13, <1>15 DEF V

(* Whatever obeys the equation is the sum, over every part of the set.     *)
LEMMA SetSumBy ==
  ASSUME NEW S, IsFiniteSet(S), NEW f, NEW u, Summed(u, S, f), NEW T \in SUBSET S
  PROVE  SetSum(T, f) = u[T]
<1> DEFINE g == [R \in SUBSET T |-> u[R]]
           sum == CHOOSE e : e = [R \in SUBSET T |-> IF R = {} THEN 0
                                                     ELSE f[AnyOf(R)] + e[R \ {AnyOf(R)}]]
<1>1. \A R \in SUBSET T : R \in SUBSET S /\ (R # {} => AnyOf(R) \in R) /\ R \ {AnyOf(R)} \in SUBSET T
  BY DEF AnyOf
<1>2. ASSUME NEW R \in SUBSET T
      PROVE  g[R] = IF R = {} THEN 0 ELSE f[AnyOf(R)] + g[R \ {AnyOf(R)}]
  <2>1. u[R] = IF R = {} THEN 0 ELSE f[AnyOf(R)] + u[R \ {AnyOf(R)}]
    BY <1>1 DEF Summed
  <2>2. g[R] = u[R] /\ g[R \ {AnyOf(R)}] = u[R \ {AnyOf(R)}]
    BY <1>1
  <2> QED BY <2>1, <2>2
<1>3. g = [R \in SUBSET T |-> IF R = {} THEN 0 ELSE f[AnyOf(R)] + g[R \ {AnyOf(R)}]]
  BY <1>2
<1>4. sum = [R \in SUBSET T |-> IF R = {} THEN 0 ELSE f[AnyOf(R)] + sum[R \ {AnyOf(R)}]]
  <2> HIDE DEF g
  <2> QED BY <1>3
<1>5. SetSum(T, f) = sum[T]
  BY DEF SetSum, AnyOf
<1> HIDE DEF sum
<1>6. IsFiniteSet(T)
  BY FS_Subset
<1> DEFINE n == Cardinality(T)
           same(i) == \A R \in SUBSET T : Cardinality(R) = i => sum[R] = u[R]
           K == {i \in 0..n : same(i)}
<1>7. n \in Nat
  BY <1>6, FS_CardinalityType
<1>8. 0 \in K
  <2>1. ASSUME NEW R \in SUBSET T, Cardinality(R) = 0 PROVE sum[R] = u[R]
    <3>1. R = {}
      BY <1>6, <2>1, FS_Subset, FS_EmptySet
    <3> QED BY <1>1, <1>4, <3>1 DEF Summed
  <2> HIDE DEF n
  <2> QED BY <1>7, <2>1
<1>9. ASSUME NEW i \in 0..n-1, i \in K PROVE i + 1 \in K
  <2>1. ASSUME NEW R \in SUBSET T, Cardinality(R) = i + 1 PROVE sum[R] = u[R]
    <3>1. IsFiniteSet(R)
      BY <1>6, FS_Subset
    <3>2. R # {}
      <4>1. i + 1 # 0
        OBVIOUS
      <4> QED BY <2>1, <4>1, FS_EmptySet
    <3> DEFINE Q == R \ {AnyOf(R)}
    <3>3. AnyOf(R) \in R /\ Q \in SUBSET T
      BY <1>1, <3>2
    <3>4. Cardinality(Q) = Cardinality(R) - 1
      BY <3>1, <3>3, FS_RemoveElement
    <3>5. Cardinality(Q) = i
      <4> HIDE DEF Q
      <4> QED BY <2>1, <3>4
    <3>6. sum[Q] = u[Q]
      <4> HIDE DEF Q
      <4> QED BY <1>9, <3>3, <3>5
    <3>7. sum[R] = f[AnyOf(R)] + sum[Q]
      BY <1>4, <3>2
    <3>8. u[R] = f[AnyOf(R)] + u[Q]
      BY <1>1, <3>2 DEF Summed
    <3> QED BY <3>6, <3>7, <3>8
  <2>2. same(i + 1)
    BY <2>1
  <2> HIDE DEF same, n
  <2> QED BY <1>7, <2>2
<1> HIDE DEF K
<1>10. 0..n \subseteq K
  <2> HIDE DEF n
  <2> QED BY <1>7, <1>8, <1>9, UpTo
<1>11. n \in 0..n
  BY <1>7
<1>12. sum[T] = u[T]
  <2>1. same(n)
    BY <1>10, <1>11 DEF K
  <2> QED BY <2>1
<1> QED BY <1>5, <1>12

LEMMA SetSumIs ==
  ASSUME NEW S, IsFiniteSet(S), NEW f, \A x \in S : f[x] \in Int
  PROVE  /\ SetSum({}, f) = 0
         /\ \A T \in SUBSET S : SetSum(T, f) \in Int
         /\ \A T \in SUBSET S : T # {} => /\ AnyOf(T) \in T
                                          /\ SetSum(T, f) = f[AnyOf(T)] + SetSum(T \ {AnyOf(T)}, f)
<1>1. PICK u \in [SUBSET S -> Int] : Summed(u, S, f)
  BY SetSumsExist
<1>2. \A T \in SUBSET S : SetSum(T, f) = u[T]
  BY <1>1, SetSumBy
<1>3. {} \in SUBSET S /\ u[{}] = 0
  BY <1>1 DEF Summed
<1>4. ASSUME NEW T \in SUBSET S, T # {}
      PROVE  AnyOf(T) \in T /\ SetSum(T, f) = f[AnyOf(T)] + SetSum(T \ {AnyOf(T)}, f)
  <2>1. AnyOf(T) \in T /\ T \ {AnyOf(T)} \in SUBSET S
    BY <1>4 DEF AnyOf
  <2>2. u[T] = f[AnyOf(T)] + u[T \ {AnyOf(T)}]
    BY <1>1, <1>4 DEF Summed
  <2> QED BY <1>2, <2>1, <2>2
<1>5. SetSum({}, f) = 0
  BY <1>2, <1>3
<1>6. \A T \in SUBSET S : SetSum(T, f) \in Int
  BY <1>1, <1>2
<1>7. \A T \in SUBSET S : T # {} => /\ AnyOf(T) \in T
                                    /\ SetSum(T, f) = f[AnyOf(T)] + SetSum(T \ {AnyOf(T)}, f)
  BY <1>4
<1> QED BY <1>5, <1>6, <1>7

(* The order does not matter: any element may be taken out first.          *)
LEMMA SetSumTakes ==
  ASSUME NEW S, IsFiniteSet(S), NEW f, \A x \in S : f[x] \in Int,
         NEW T \in SUBSET S, NEW y \in T
  PROVE  SetSum(T, f) = f[y] + SetSum(T \ {y}, f)
<1> DEFINE n == Cardinality(S)
           free(i) == \A R \in SUBSET S : Cardinality(R) = i =>
                        \A x \in R : SetSum(R, f) = f[x] + SetSum(R \ {x}, f)
           K == {i \in 0..n : free(i)}
<1>1. n \in Nat
  BY FS_CardinalityType
<1>2. 0 \in K
  <2>1. ASSUME NEW R \in SUBSET S, Cardinality(R) = 0 PROVE R = {}
    BY <2>1, FS_Subset, FS_EmptySet
  <2> HIDE DEF n
  <2> QED BY <1>1, <2>1
<1>3. ASSUME NEW i \in 0..n-1, i \in K PROVE i + 1 \in K
  <2>1. ASSUME NEW R \in SUBSET S, Cardinality(R) = i + 1, NEW x \in R
        PROVE  SetSum(R, f) = f[x] + SetSum(R \ {x}, f)
    <3> DEFINE a == AnyOf(R)
    <3>1. IsFiniteSet(R)
      BY FS_Subset
    <3>2. a \in R /\ SetSum(R, f) = f[a] + SetSum(R \ {a}, f)
      BY SetSumIs
    <3> HIDE DEF a
    <3>3. CASE x = a
      BY <3>2, <3>3
    <3>4. CASE x # a
      <4>1. /\ R \ {a} \in SUBSET S /\ R \ {x} \in SUBSET S /\ (R \ {a}) \ {x} \in SUBSET S
            /\ x \in R \ {a} /\ a \in R \ {x} /\ x \in S /\ a \in S
        BY <3>2, <3>4
      <4>2. Cardinality(R \ {a}) = (i + 1) - 1 /\ Cardinality(R \ {x}) = (i + 1) - 1
        BY <2>1, <3>1, <3>2, FS_RemoveElement
      <4>3. Cardinality(R \ {a}) = i /\ Cardinality(R \ {x}) = i
        BY <4>2
      <4>4. SetSum(R \ {a}, f) = f[x] + SetSum((R \ {a}) \ {x}, f)
        BY <1>3, <4>1, <4>3
      <4>5. SetSum(R \ {x}, f) = f[a] + SetSum((R \ {x}) \ {a}, f)
        BY <1>3, <4>1, <4>3
      <4>6. (R \ {a}) \ {x} = (R \ {x}) \ {a}
        OBVIOUS
      <4>7. f[x] \in Int /\ f[a] \in Int /\ SetSum((R \ {a}) \ {x}, f) \in Int
        BY <4>1, SetSumIs
      <4> DEFINE rest == SetSum((R \ {a}) \ {x}, f)
      <4>8. /\ SetSum(R \ {a}, f) = f[x] + rest /\ SetSum(R \ {x}, f) = f[a] + rest
            /\ rest \in Int
        BY <4>4, <4>5, <4>6, <4>7
      <4> HIDE DEF rest
      <4>9. f[a] + (f[x] + rest) = f[x] + (f[a] + rest)
        BY <4>7, <4>8
      <4> QED BY <3>2, <4>8, <4>9
    <3> QED BY <3>3, <3>4
  <2>2. free(i + 1)
    BY <2>1
  <2> HIDE DEF free, n
  <2> QED BY <1>1, <2>2
<1> HIDE DEF K
<1>4. 0..n \subseteq K
  <2> HIDE DEF n
  <2> QED BY <1>1, <1>2, <1>3, UpTo
<1>5. Cardinality(T) \in 0..n
  <2>1. IsFiniteSet(T) /\ Cardinality(T) <= n
    BY FS_Subset
  <2>2. Cardinality(T) \in Nat
    BY <2>1, FS_CardinalityType
  <2> QED BY <1>1, <2>1, <2>2
<1>6. free(Cardinality(T))
  BY <1>4, <1>5 DEF K
<1> QED BY <1>6

LEMMA SetSumSplits ==
  ASSUME NEW S, IsFiniteSet(S), NEW f, \A x \in S : f[x] \in Int,
         NEW A \in SUBSET S, NEW B \in SUBSET S, A \cap B = {}
  PROVE  SetSum(A \cup B, f) = SetSum(A, f) + SetSum(B, f)
<1> DEFINE n == Cardinality(S)
           adds(i) == \A R \in SUBSET A : Cardinality(R) = i =>
                        SetSum(R \cup B, f) = SetSum(R, f) + SetSum(B, f)
           K == {i \in 0..n : adds(i)}
<1>1. n \in Nat
  BY FS_CardinalityType
<1>2. \A R \in SUBSET S : SetSum(R, f) \in Int
  BY SetSumIs
<1>3. 0 \in K
  <2>1. ASSUME NEW R \in SUBSET A, Cardinality(R) = 0
        PROVE  SetSum(R \cup B, f) = SetSum(R, f) + SetSum(B, f)
    <3>1. R = {}
      <4>1. R \in SUBSET S
        OBVIOUS
      <4> QED BY <2>1, <4>1, FS_Subset, FS_EmptySet
    <3>2. R \cup B = B
      BY <3>1
    <3>3. SetSum({}, f) = 0
      BY SetSumIs
    <3>4. SetSum(B, f) \in Int
      BY <1>2
    <3> QED BY <3>1, <3>2, <3>3, <3>4
  <2> HIDE DEF n
  <2> QED BY <1>1, <2>1
<1>4. ASSUME NEW i \in 0..n-1, i \in K PROVE i + 1 \in K
  <2>1. ASSUME NEW R \in SUBSET A, Cardinality(R) = i + 1
        PROVE  SetSum(R \cup B, f) = SetSum(R, f) + SetSum(B, f)
    <3>1. R \in SUBSET S /\ IsFiniteSet(R)
      BY FS_Subset
    <3>2. R # {}
      <4>1. i + 1 # 0
        OBVIOUS
      <4> QED BY <2>1, <4>1, FS_EmptySet
    <3>3. PICK x \in R : TRUE
      BY <3>2
    <3> DEFINE Q == R \ {x}
    <3>4. /\ Q \in SUBSET A /\ Q \in SUBSET S /\ R \cup B \in SUBSET S /\ x \in R \cup B
          /\ x \notin B /\ x \in S
      OBVIOUS
    <3>5. Cardinality(Q) = (i + 1) - 1
      <4>1. Cardinality(R \ {x}) = Cardinality(R) - 1
        BY <3>1, FS_RemoveElement
      <4> QED BY <2>1, <4>1
    <3>6. SetSum(Q \cup B, f) = SetSum(Q, f) + SetSum(B, f)
      <4>1. Cardinality(Q) = i
        <5> HIDE DEF Q
        <5> QED BY <3>5
      <4> HIDE DEF Q
      <4> QED BY <1>4, <3>4, <4>1
    <3>7. (R \cup B) \ {x} = Q \cup B
      BY <3>4
    <3>8. SetSum(R, f) = f[x] + SetSum(Q, f)
      BY <3>1, SetSumTakes
    <3>9. SetSum(R \cup B, f) = f[x] + SetSum(Q \cup B, f)
      BY <3>4, <3>7, SetSumTakes
    <3>10. f[x] \in Int /\ SetSum(Q, f) \in Int /\ SetSum(B, f) \in Int
      BY <1>2, <3>4
    <3> HIDE DEF Q
    <3> QED BY <3>6, <3>8, <3>9, <3>10
  <2>2. adds(i + 1)
    BY <2>1
  <2> HIDE DEF adds, n
  <2> QED BY <1>1, <2>2
<1> HIDE DEF K
<1>5. 0..n \subseteq K
  <2> HIDE DEF n
  <2> QED BY <1>1, <1>3, <1>4, UpTo
<1>6. Cardinality(A) \in 0..n
  <2>1. IsFiniteSet(A) /\ Cardinality(A) <= n
    BY FS_Subset
  <2>2. Cardinality(A) \in Nat
    BY <2>1, FS_CardinalityType
  <2> QED BY <1>1, <2>1, <2>2
<1>7. adds(Cardinality(A))
  BY <1>5, <1>6 DEF K
<1> QED BY <1>7

(* A set in as many groups as there are tags.                              *)
LEMMA SetSumGroups ==
  ASSUME NEW S, IsFiniteSet(S), NEW f, \A x \in S : f[x] \in Int,
         NEW A \in SUBSET S, NEW n \in Nat, NEW P, \A k \in 0..n-1 : P[k] \in SUBSET S,
         A = {x \in S : \E k \in 0..n-1 : x \in P[k]},
         \A j, k \in 0..n-1 : j # k => P[j] \cap P[k] = {},
         NEW g, \A k \in 0..n-1 : g[k] = SetSum(P[k], f)
  PROVE  SetSum(A, f) = SumUpTo(n, g)
<1> DEFINE first(k) == {x \in S : \E j \in 0..k-1 : x \in P[j]}
           u == [k \in 0..n |-> SetSum(first(k), f)]
<1>1. u[0] = 0
  <2>1. first(0) = {}
    OBVIOUS
  <2>2. SetSum({}, f) = 0
    BY SetSumIs
  <2>3. u[0] = SetSum(first(0), f)
    <3> HIDE DEF first
    <3> QED OBVIOUS
  <2> HIDE DEF first, u
  <2> QED BY <2>1, <2>2, <2>3
<1>2. ASSUME NEW k \in 0..n-1 PROVE u[k+1] = u[k] + g[k]
  <2>1. k \in 0..n /\ k + 1 \in 0..n
    OBVIOUS
  <2>2. first(k+1) = first(k) \cup P[k]
    <3>1. ASSUME NEW x \in S, NEW j \in 0..(k+1)-1, x \in P[j] PROVE x \in first(k) \cup P[k]
      <4>1. j = k \/ j \in 0..k-1
        OBVIOUS
      <4> QED BY <3>1, <4>1
    <3>2. \A j \in 0..k-1 : j \in 0..(k+1)-1
      OBVIOUS
    <3>3. k \in 0..(k+1)-1
      OBVIOUS
    <3>4. \A x \in P[k] : x \in S
      OBVIOUS
    <3> QED BY <3>1, <3>2, <3>3, <3>4
  <2>3. first(k) \cap P[k] = {}
    <3>1. \A j \in 0..k-1 : j \in 0..n-1 /\ j # k
      OBVIOUS
    <3> QED BY <3>1
  <2>4. first(k) \in SUBSET S /\ P[k] \in SUBSET S
    OBVIOUS
  <2>5. u[k+1] = SetSum(first(k+1), f) /\ u[k] = SetSum(first(k), f)
    <3> HIDE DEF first
    <3> QED BY <2>1
  <2> HIDE DEF first, u
  <2>6. SetSum(first(k) \cup P[k], f) = SetSum(first(k), f) + SetSum(P[k], f)
    BY <2>3, <2>4, SetSumSplits
  <2> QED BY <2>2, <2>5, <2>6
<1>3. u[n] = SetSum(A, f)
  <2>1. first(n) = A
    OBVIOUS
  <2> HIDE DEF first
  <2> QED BY <2>1
<1> HIDE DEF u
<1>4. SumUpTo(n, g) = u[n]
  BY <1>1, <1>2, SumBy
<1> QED BY <1>3, <1>4
-----------------------------------------------------------------------------
(* Sums over the tags.                                                     *)
LEMMA TagRange == Y \in Nat /\ Tag = 0..Y-1
BY YAssumption DEF Tag

LEMMA TagSumTyped ==
  ASSUME NEW f, \A y \in Tag : f[y] \in Int
  PROVE  TagSum(f) \in Int
BY TagRange, SumTyped DEF TagSum

LEMMA TagSumScales ==
  ASSUME NEW f, \A y \in Tag : f[y] \in Int,
         NEW m \in Int, NEW g, \A y \in Tag : g[y] = m * f[y]
  PROVE  TagSum(g) = m * TagSum(f)
BY TagRange, SumScales DEF TagSum

-----------------------------------------------------------------------------
(* The equations of Alpha and Beta: what a node has on its left and on its *)
(* right, apart from its own cost.                                         *)
LeftSum(c, h, i, y)  == TagSum([a \in Tag |-> Exp(c.path[i][a][y]) * h[a]])
RightSum(c, h, i, y) == TagSum([b \in Tag |-> Exp(c.path[i+1][y][b]) * h[b]])
LeftOf(c, A, i, y)     == IF i = 0 THEN 1 ELSE LeftSum(c, A[i-1], i, y)
RightOf(c, B, n, i, y) == IF i = n - 1 THEN 1 ELSE RightSum(c, B[i+1], i, y)

LEMMA NaturalAre ==
  ASSUME NEW n \in Nat \ {0}, NEW c \in NaturalLattices(n)
  PROVE  /\ c \in LatticesOf(n)
         /\ n - 1 \in Nat /\ 0 \in 0..n-1 /\ n - 1 \in 0..n-1
         /\ \A i \in 0..n-1, y \in Tag : c.node[i][y] \in Nat /\ Exp(c.node[i][y]) \in Nat \ {0}
         /\ \A i \in 1..n-1, a, b \in Tag : /\ c.path[i][a][b] \in Nat
                                            /\ Exp(c.path[i][a][b]) \in Nat \ {0}
<1>1. /\ c.node \in [0..n-1 -> [Tag -> Nat]] /\ c.path \in [1..n-1 -> [Tag -> [Tag -> Nat]]]
      /\ c = [node |-> c.node, path |-> c.path]
  BY DEF NaturalLattices
<1>2. \A i \in 0..n-1 : c.node[i] \in [Tag -> Int]
  BY <1>1
<1>3. \A i \in 1..n-1 : c.path[i] \in [Tag -> [Tag -> Int]]
  BY <1>1
<1>4. c.node \in [0..n-1 -> [Tag -> Int]] /\ c.path \in [1..n-1 -> [Tag -> [Tag -> Int]]]
  BY <1>1, <1>2, <1>3
<1>5. c \in LatticesOf(n)
  BY <1>1, <1>4 DEF LatticesOf
<1>6. \A i \in 0..n-1, y \in Tag : c.node[i][y] \in Nat /\ Exp(c.node[i][y]) \in Nat \ {0}
  BY <1>1, ExpIs
<1>7. \A i \in 1..n-1, a, b \in Tag : /\ c.path[i][a][b] \in Nat
                                      /\ Exp(c.path[i][a][b]) \in Nat \ {0}
  BY <1>1, ExpIs
<1> QED BY <1>5, <1>6, <1>7

LEMMA SidesTyped ==
  ASSUME NEW n \in Nat \ {0}, NEW c \in NaturalLattices(n), NEW h \in [Tag -> Int], NEW y \in Tag
  PROVE  /\ \A i \in 1..n-1 : LeftSum(c, h, i, y) \in Int
         /\ \A i \in 0..n-2 : RightSum(c, h, i, y) \in Int
<1>1. ASSUME NEW i \in 1..n-1 PROVE LeftSum(c, h, i, y) \in Int
  <2> DEFINE f == [a \in Tag |-> Exp(c.path[i][a][y]) * h[a]]
  <2>1. \A a \in Tag : f[a] \in Int
    <3>1. \A a \in Tag : Exp(c.path[i][a][y]) \in Int /\ h[a] \in Int
      BY NaturalAre
    <3> QED BY <3>1
  <2> HIDE DEF f
  <2>2. TagSum(f) \in Int
    BY <2>1, TagSumTyped
  <2> QED BY <2>2 DEF f, LeftSum
<1>2. ASSUME NEW i \in 0..n-2 PROVE RightSum(c, h, i, y) \in Int
  <2> DEFINE f == [b \in Tag |-> Exp(c.path[i+1][y][b]) * h[b]]
  <2>1. \A b \in Tag : f[b] \in Int
    <3>1. i + 1 \in 1..n-1
      OBVIOUS
    <3>2. \A b \in Tag : Exp(c.path[i+1][y][b]) \in Int /\ h[b] \in Int
      BY <3>1, NaturalAre
    <3> QED BY <3>2
  <2> HIDE DEF f
  <2>2. TagSum(f) \in Int
    BY <2>1, TagSumTyped
  <2> QED BY <2>2 DEF f, RightSum
<1> QED BY <1>1, <1>2

LEMMA AlphaIs ==
  ASSUME NEW n \in Nat \ {0}, NEW c \in NaturalLattices(n)
  PROVE  LET A == Alpha(c, n)
         IN  /\ A \in [0..n-1 -> [Tag -> Int]]
             /\ \A i \in 0..n-1, y \in Tag : /\ LeftOf(c, A, i, y) \in Int
                                             /\ A[i][y] = Exp(c.node[i][y]) * LeftOf(c, A, i, y)
<1> DEFINE V == [Tag -> Int]
           step(i, h) == [y \in Tag |-> Exp(c.node[i][y]) * LeftSum(c, h, i, y)]
           start == [y \in Tag |-> Exp(c.node[0][y]) * 1]
           G == [i \in 1..n-1 |-> [h \in V |-> step(i, h)]]
<1>1. /\ n - 1 \in Nat /\ 0 \in 0..n-1
      /\ \A i \in 0..n-1, y \in Tag : Exp(c.node[i][y]) \in Int
      /\ \A i \in 1..n-1 : i - 1 \in 0..n-1 /\ i \in 0..n-1 /\ i # 0
  BY NaturalAre
<1>2. ASSUME NEW i \in 1..n-1, NEW h \in V PROVE step(i, h) \in V
  <2>1. \A y \in Tag : LeftSum(c, h, i, y) \in Int
    BY SidesTyped
  <2>2. \A y \in Tag : Exp(c.node[i][y]) \in Int
    BY <1>1
  <2> QED BY <2>1, <2>2
<1>3. start \in V
  BY <1>1
<1>4. G \in [1..n-1 -> [V -> V]]
  <2> HIDE DEF V, step
  <2> QED BY <1>2
<1>5. \A i \in 1..n-1, h \in V : G[i][h] = step(i, h)
  <2> HIDE DEF V, step
  <2> QED OBVIOUS
<1> HIDE DEF G, V, start
<1>6. PICK f : Follows(f, n - 1, V, start, G)
  BY <1>1, <1>3, <1>4, Recursion
<1>7. f \in [0..n-1 -> V] /\ f[0] = start /\ \A i \in 1..n-1 : f[i] = step(i, f[i-1])
  <2>1. f \in [0..n-1 -> V] /\ f[0] = start /\ \A i \in 1..n-1 : f[i] = G[i][f[i-1]]
    BY <1>6 DEF Follows
  <2> HIDE DEF step
  <2> QED BY <1>1, <1>5, <2>1
<1> DEFINE value(e, i) == [y \in Tag |-> Exp(c.node[i][y]) *
                             IF i = 0 THEN 1
                             ELSE TagSum([a \in Tag |-> Exp(c.path[i][a][y]) * e[i-1][a]])]
<1>8. ASSUME NEW i \in 0..n-1 PROVE f[i] = value(f, i)
  <2>1. CASE i = 0
    BY <1>7, <2>1 DEF start
  <2>2. CASE i # 0
    <3>1. i \in 1..n-1
      BY <2>2
    <3> QED BY <1>7, <2>2, <3>1 DEF LeftSum
  <2> QED BY <2>1, <2>2
<1>9. f = [i \in 0..n-1 |-> value(f, i)]
  <2>1. f = [i \in 0..n-1 |-> f[i]]
    BY <1>7
  <2> HIDE DEF value
  <2> QED BY <1>8, <2>1
<1> DEFINE A == Alpha(c, n)
<1>10. A = [i \in 0..n-1 |-> value(A, i)]
  BY <1>9 DEF Alpha
<1> HIDE DEF A
<1>11. A[0] = start
  BY <1>1, <1>10 DEF start
<1>12. \A i \in 1..n-1 : A[i] = step(i, A[i-1])
  <2> TAKE i \in 1..n-1
  <2>1. i \in 0..n-1 /\ i # 0
    BY <1>1
  <2> QED BY <1>10, <2>1 DEF LeftSum
<1>13. \A i \in 0..n-1 : A[i] \in V
  <2> DEFINE T == {i \in 0..n-1 : A[i] \in V}
  <2>1. 0 \in T
    BY <1>1, <1>3, <1>11
  <2>2. ASSUME NEW i \in 0..(n-1)-1, i \in T PROVE i + 1 \in T
    <3> DEFINE j == i + 1
    <3>1. j \in 1..n-1 /\ j \in 0..n-1 /\ j - 1 = i
      OBVIOUS
    <3> HIDE DEF j, step
    <3>2. A[j-1] \in V
      BY <2>2, <3>1
    <3>3. A[j] \in V
      BY <1>2, <1>12, <3>1, <3>2
    <3> QED BY <3>1, <3>3 DEF j
  <2> HIDE DEF T
  <2>3. 0..n-1 \subseteq T
    BY <1>1, <2>1, <2>2, UpTo
  <2> QED BY <2>3 DEF T
<1>14. A \in [0..n-1 -> V]
  <2>1. A = [i \in 0..n-1 |-> A[i]]
    <3> HIDE DEF value
    <3> QED BY <1>10
  <2> QED BY <1>13, <2>1
<1>15. ASSUME NEW i \in 0..n-1, NEW y \in Tag
       PROVE  /\ LeftOf(c, A, i, y) \in Int
              /\ A[i][y] = Exp(c.node[i][y]) * LeftOf(c, A, i, y)
  <2>1. CASE i = 0
    <3>1. LeftOf(c, A, i, y) = 1
      BY <2>1 DEF LeftOf
    <3>2. A[i][y] = Exp(c.node[i][y]) * 1
      BY <1>11, <2>1 DEF start
    <3> QED BY <3>1, <3>2
  <2>2. CASE i # 0
    <3>1. i \in 1..n-1 /\ i - 1 \in 0..n-1
      BY <2>2
    <3>2. A[i-1] \in [Tag -> Int]
      BY <1>13, <3>1 DEF V
    <3>3. LeftOf(c, A, i, y) = LeftSum(c, A[i-1], i, y)
      BY <2>2 DEF LeftOf
    <3>4. LeftOf(c, A, i, y) \in Int
      BY <3>1, <3>2, <3>3, SidesTyped
    <3>5. A[i][y] = Exp(c.node[i][y]) * LeftSum(c, A[i-1], i, y)
      BY <1>12, <3>1
    <3> QED BY <3>3, <3>4, <3>5
  <2> QED BY <2>1, <2>2
<1> QED BY <1>14, <1>15 DEF A, V

LEMMA BetaIs ==
  ASSUME NEW n \in Nat \ {0}, NEW c \in NaturalLattices(n)
  PROVE  LET B == Beta(c, n)
         IN  /\ B \in [0..n-1 -> [Tag -> Int]]
             /\ \A i \in 0..n-1, y \in Tag : /\ RightOf(c, B, n, i, y) \in Int
                                             /\ B[i][y] = Exp(c.node[i][y]) * RightOf(c, B, n, i, y)
<1> DEFINE V == [Tag -> Int]
           step(i, h) == [y \in Tag |-> Exp(c.node[i][y]) * RightSum(c, h, i, y)]
           start == [y \in Tag |-> Exp(c.node[n-1][y]) * 1]
           G == [j \in 1..n-1 |-> [h \in V |-> step(n - 1 - j, h)]]
<1>1. /\ n - 1 \in Nat /\ 0 \in 0..n-1 /\ n - 1 \in 0..n-1
      /\ \A i \in 0..n-1, y \in Tag : Exp(c.node[i][y]) \in Int
      /\ \A j \in 1..n-1 : n - 1 - j \in 0..n-2 /\ j - 1 \in 0..n-1
      /\ \A i \in 0..n-2 : i \in 0..n-1 /\ i + 1 \in 0..n-1 /\ i # n - 1
      /\ \A i \in 0..n-1 : i # n - 1 => i \in 0..n-2
  BY NaturalAre
<1>2. ASSUME NEW i \in 0..n-2, NEW h \in V PROVE step(i, h) \in V
  <2>1. \A y \in Tag : RightSum(c, h, i, y) \in Int
    BY SidesTyped
  <2>2. \A y \in Tag : Exp(c.node[i][y]) \in Int
    BY <1>1
  <2> QED BY <2>1, <2>2
<1>3. start \in V
  BY <1>1
<1>4. G \in [1..n-1 -> [V -> V]]
  <2> HIDE DEF V, step
  <2> QED BY <1>1, <1>2
<1>5. \A j \in 1..n-1, h \in V : G[j][h] = step(n - 1 - j, h)
  <2> HIDE DEF V, step
  <2> QED OBVIOUS
<1> HIDE DEF G, V, start
<1>6. PICK g : Follows(g, n - 1, V, start, G)
  BY <1>1, <1>3, <1>4, Recursion
<1>7. g \in [0..n-1 -> V] /\ g[0] = start /\ \A j \in 1..n-1 : g[j] = step(n - 1 - j, g[j-1])
  <2>1. g \in [0..n-1 -> V] /\ g[0] = start /\ \A j \in 1..n-1 : g[j] = G[j][g[j-1]]
    BY <1>6 DEF Follows
  <2> HIDE DEF step
  <2>2. \A j \in 1..n-1 : g[j-1] \in V
    BY <1>1, <2>1
  <2> QED BY <1>5, <2>1, <2>2
<1> DEFINE f == [i \in 0..n-1 |-> g[n - 1 - i]]
           value(e, i) == [y \in Tag |-> Exp(c.node[i][y]) *
                             IF i = n - 1 THEN 1
                             ELSE TagSum([b \in Tag |-> Exp(c.path[i+1][y][b]) * e[i+1][b]])]
<1>8. ASSUME NEW i \in 0..n-1 PROVE f[i] = value(f, i)
  <2>1. CASE i = n - 1
    <3>1. f[i] = g[0]
      BY <2>1
    <3> HIDE DEF f
    <3> QED BY <1>7, <2>1, <3>1 DEF start
  <2>2. CASE i # n - 1
    <3> DEFINE j == n - 1 - i
    <3>1. j \in 1..n-1 /\ n - 1 - j = i /\ j - 1 = n - 1 - (i + 1) /\ i + 1 \in 0..n-1
      BY <2>2
    <3>2. f[i] = g[j] /\ f[i+1] = g[j-1]
      BY <3>1
    <3> HIDE DEF j, f
    <3>3. g[j] = step(i, f[i+1])
      BY <1>7, <3>1, <3>2
    <3> QED BY <2>2, <3>2, <3>3 DEF RightSum
  <2> QED BY <2>1, <2>2
<1>9. f = [i \in 0..n-1 |-> value(f, i)]
  <2>1. f = [i \in 0..n-1 |-> f[i]]
    OBVIOUS
  <2> HIDE DEF value, f
  <2> QED BY <1>8, <2>1
<1> HIDE DEF f
<1> DEFINE B == Beta(c, n)
<1>10. B = [i \in 0..n-1 |-> value(B, i)]
  BY <1>9 DEF Beta
<1> HIDE DEF B
<1>11. B[n-1] = start
  BY <1>1, <1>10 DEF start
<1>12. \A i \in 0..n-2 : B[i] = step(i, B[i+1])
  <2> TAKE i \in 0..n-2
  <2>1. i \in 0..n-1 /\ i # n - 1
    BY <1>1
  <2> QED BY <1>10, <2>1 DEF RightSum
<1>13. \A i \in 0..n-1 : B[i] \in V
  <2> DEFINE T == {j \in 0..n-1 : B[n - 1 - j] \in V}
  <2>1. 0 \in T
    BY <1>1, <1>3, <1>11
  <2>2. ASSUME NEW j \in 0..(n-1)-1, j \in T PROVE j + 1 \in T
    <3> DEFINE i == n - 1 - (j + 1)
    <3>1. i \in 0..n-2 /\ i + 1 = n - 1 - j /\ j + 1 \in 0..n-1
      OBVIOUS
    <3>2. B[n - 1 - j] \in V
      BY <2>2
    <3> HIDE DEF i, step
    <3>3. B[i] \in V
      BY <1>2, <1>12, <3>1, <3>2
    <3> QED BY <3>1, <3>3 DEF i
  <2> HIDE DEF T
  <2>3. 0..n-1 \subseteq T
    BY <1>1, <2>1, <2>2, UpTo
  <2> TAKE i \in 0..n-1
  <2>4. n - 1 - i \in 0..n-1 /\ n - 1 - (n - 1 - i) = i
    OBVIOUS
  <2>5. n - 1 - i \in T
    BY <2>3, <2>4
  <2> QED BY <2>4, <2>5 DEF T
<1>14. B \in [0..n-1 -> V]
  <2>1. B = [i \in 0..n-1 |-> B[i]]
    <3> HIDE DEF value
    <3> QED BY <1>10
  <2> QED BY <1>13, <2>1
<1>15. ASSUME NEW i \in 0..n-1, NEW y \in Tag
       PROVE  /\ RightOf(c, B, n, i, y) \in Int
              /\ B[i][y] = Exp(c.node[i][y]) * RightOf(c, B, n, i, y)
  <2>1. CASE i = n - 1
    <3>1. RightOf(c, B, n, i, y) = 1
      BY <2>1 DEF RightOf
    <3>2. B[i][y] = Exp(c.node[i][y]) * 1
      BY <1>11, <2>1 DEF start
    <3> QED BY <3>1, <3>2
  <2>2. CASE i # n - 1
    <3>1. i \in 0..n-2 /\ i + 1 \in 0..n-1
      BY <1>1, <2>2
    <3>2. B[i+1] \in [Tag -> Int]
      BY <1>13, <3>1 DEF V
    <3>3. RightOf(c, B, n, i, y) = RightSum(c, B[i+1], i, y)
      BY <2>2 DEF RightOf
    <3>4. RightOf(c, B, n, i, y) \in Int
      BY <3>1, <3>2, <3>3, SidesTyped
    <3>5. B[i][y] = Exp(c.node[i][y]) * RightSum(c, B[i+1], i, y)
      BY <1>12, <3>1
    <3> QED BY <3>3, <3>4, <3>5
  <2> QED BY <2>1, <2>2
<1> QED BY <1>14, <1>15 DEF B, V
-----------------------------------------------------------------------------
(* What positions j to i of a labelling cost.                              *)
Stretch(c, n, v, j, i) ==
  (RunningCost(c, n, v)[i] - RunningCost(c, n, v)[j]) + c.node[j][v[j]]

LEMMA LabelsAre ==
  ASSUME NEW n \in Nat \ {0}, NEW v \in Labellings(n)
  PROVE  /\ \A i \in 0..n-1 : v[i] \in Tag
         /\ \A i \in 1..n-1 : i \in 0..n-1 /\ i - 1 \in 0..n-1
BY DEF Labellings

LEMMA StretchIs ==
  ASSUME NEW n \in Nat \ {0}, NEW c \in NaturalLattices(n), NEW v \in Labellings(n)
  PROVE  /\ \A i \in 0..n-1 : Stretch(c, n, v, i, i) = c.node[i][v[i]]
         /\ \A i \in 1..n-1, j \in 0..n-1 :
              Stretch(c, n, v, j, i) =
                Stretch(c, n, v, j, i-1) + (c.path[i][v[i-1]][v[i]] + c.node[i][v[i]])
         /\ \A j \in 1..n-1, i \in 0..n-1 :
              Stretch(c, n, v, j-1, i) =
                (c.node[j-1][v[j-1]] + c.path[j][v[j-1]][v[j]]) + Stretch(c, n, v, j, i)
         /\ Stretch(c, n, v, 0, n-1) = TagsCost(c, n, v)
         /\ \A i, j \in 0..n-1 : Stretch(c, n, v, j, i) \in Int
<1> DEFINE R == RunningCost(c, n, v)
<1>1. c \in LatticesOf(n) /\ n - 1 \in 0..n-1 /\ 0 \in 0..n-1
  BY NaturalAre
<1>2. /\ R \in [0..n-1 -> Int] /\ R[0] = c.node[0][v[0]]
      /\ \A i \in 1..n-1 : R[i] = c.node[i][v[i]] + (R[i-1] + c.path[i][v[i-1]][v[i]])
  BY <1>1, RunningIs
<1>3. \A i \in 0..n-1 : c.node[i][v[i]] \in Int
  BY NaturalAre, LabelsAre
<1>4. \A i \in 1..n-1 : /\ c.path[i][v[i-1]][v[i]] \in Int
                        /\ i \in 0..n-1 /\ i - 1 \in 0..n-1
  BY NaturalAre, LabelsAre
<1>5. \A i, j \in 0..n-1 : Stretch(c, n, v, j, i) = (R[i] - R[j]) + c.node[j][v[j]]
  BY DEF Stretch
<1>6. TagsCost(c, n, v) = R[n-1]
  BY DEF TagsCost
<1> HIDE DEF R
<1>7. ASSUME NEW i \in 0..n-1 PROVE Stretch(c, n, v, i, i) = c.node[i][v[i]]
  BY <1>2, <1>3, <1>5
<1>8. ASSUME NEW i \in 1..n-1, NEW j \in 0..n-1
      PROVE  Stretch(c, n, v, j, i) =
               Stretch(c, n, v, j, i-1) + (c.path[i][v[i-1]][v[i]] + c.node[i][v[i]])
  <2> DEFINE x == c.node[i][v[i]]
             q == c.path[i][v[i-1]][v[i]]
             r == R[i-1]
             s == R[j]
             z0 == c.node[j][v[j]]
  <2>1. x \in Int /\ q \in Int /\ r \in Int /\ s \in Int /\ z0 \in Int
    BY <1>2, <1>3, <1>4
  <2>2. R[i] = x + (r + q)
    BY <1>2
  <2>3. Stretch(c, n, v, j, i) = (R[i] - s) + z0 /\ Stretch(c, n, v, j, i-1) = (r - s) + z0
    BY <1>4, <1>5
  <2> HIDE DEF x, q, r, s, z0
  <2>4. Stretch(c, n, v, j, i) = Stretch(c, n, v, j, i-1) + (q + x)
    BY <2>1, <2>2, <2>3
  <2> QED BY <2>4 DEF q, x
<1>9. ASSUME NEW j \in 1..n-1, NEW i \in 0..n-1
      PROVE  Stretch(c, n, v, j-1, i) =
               (c.node[j-1][v[j-1]] + c.path[j][v[j-1]][v[j]]) + Stretch(c, n, v, j, i)
  <2> DEFINE x == c.node[j][v[j]]
             q == c.path[j][v[j-1]][v[j]]
             r == R[j-1]
             s == R[i]
             z0 == c.node[j-1][v[j-1]]
  <2>1. x \in Int /\ q \in Int /\ r \in Int /\ s \in Int /\ z0 \in Int
    BY <1>2, <1>3, <1>4
  <2>2. R[j] = x + (r + q)
    BY <1>2
  <2>3. Stretch(c, n, v, j-1, i) = (s - r) + z0 /\ Stretch(c, n, v, j, i) = (s - R[j]) + x
    BY <1>4, <1>5
  <2> HIDE DEF x, q, r, s, z0
  <2>4. Stretch(c, n, v, j-1, i) = (z0 + q) + Stretch(c, n, v, j, i)
    BY <2>1, <2>2, <2>3
  <2> QED BY <2>4 DEF q, z0
<1>10. Stretch(c, n, v, 0, n-1) = TagsCost(c, n, v)
  <2>1. R[0] \in Int /\ R[n-1] \in Int
    BY <1>1, <1>2
  <2> QED BY <1>1, <1>2, <1>5, <1>6, <2>1
<1>11. \A i, j \in 0..n-1 : Stretch(c, n, v, j, i) \in Int
  BY <1>2, <1>3, <1>5
<1> QED BY <1>7, <1>8, <1>9, <1>10, <1>11

LEMMA StretchNatural ==
  ASSUME NEW n \in Nat \ {0}, NEW c \in NaturalLattices(n), NEW v \in Labellings(n),
         NEW i \in 0..n-1, NEW j \in 0..i
  PROVE  Stretch(c, n, v, j, i) \in Nat
<1> DEFINE T == {k \in 0..i : Stretch(c, n, v, i - k, i) \in Nat}
<1>1. 0 \in T
  <2>1. i - 0 = i /\ Stretch(c, n, v, i, i) = c.node[i][v[i]]
    BY StretchIs
  <2>2. c.node[i][v[i]] \in Nat
    BY NaturalAre, LabelsAre
  <2> QED BY <2>1, <2>2
<1>2. ASSUME NEW k \in 0..i-1, k \in T PROVE k + 1 \in T
  <2> DEFINE m == i - k
  <2>1. m \in 1..n-1 /\ i - (k + 1) = m - 1 /\ k + 1 \in 0..i
    OBVIOUS
  <2>2. Stretch(c, n, v, m, i) \in Nat
    BY <1>2
  <2> HIDE DEF m
  <2>3. Stretch(c, n, v, m-1, i) =
          (c.node[m-1][v[m-1]] + c.path[m][v[m-1]][v[m]]) + Stretch(c, n, v, m, i)
    BY <2>1, StretchIs
  <2>4. c.node[m-1][v[m-1]] \in Nat /\ c.path[m][v[m-1]][v[m]] \in Nat
    BY <2>1, NaturalAre, LabelsAre
  <2>5. Stretch(c, n, v, m-1, i) \in Nat
    BY <2>2, <2>3, <2>4
  <2> QED BY <2>1, <2>5
<1> HIDE DEF T
<1>3. 0..i \subseteq T
  BY <1>1, <1>2, UpTo
<1>4. i - j \in 0..i /\ i - (i - j) = j
  OBVIOUS
<1>5. i - j \in T
  BY <1>3, <1>4
<1> QED BY <1>4, <1>5 DEF T

LEMMA StretchSame ==
  ASSUME NEW n \in Nat \ {0}, NEW c \in NaturalLattices(n),
         NEW v \in Labellings(n), NEW w \in Labellings(n),
         NEW i \in 0..n-1, NEW j \in 0..i, \A k \in j..i : v[k] = w[k]
  PROVE  Stretch(c, n, v, j, i) = Stretch(c, n, w, j, i)
<1> DEFINE T == {k \in 0..i-j : Stretch(c, n, v, i - k, i) = Stretch(c, n, w, i - k, i)}
<1>1. i - j \in Nat /\ i \in j..i
  OBVIOUS
<1>2. 0 \in T
  <2>1. i - 0 = i /\ v[i] = w[i] /\ 0 \in 0..i-j
    BY <1>1
  <2> QED BY <2>1, StretchIs
<1>3. ASSUME NEW k \in 0..(i-j)-1, k \in T PROVE k + 1 \in T
  <2> DEFINE m == i - k
  <2>1. m \in 1..n-1 /\ i - (k + 1) = m - 1 /\ k + 1 \in 0..i-j /\ m \in j..i /\ m - 1 \in j..i
    OBVIOUS
  <2>2. Stretch(c, n, v, m, i) = Stretch(c, n, w, m, i)
    BY <1>3
  <2> HIDE DEF m
  <2>3. v[m] = w[m] /\ v[m-1] = w[m-1]
    BY <2>1
  <2>4. Stretch(c, n, v, m-1, i) =
          (c.node[m-1][v[m-1]] + c.path[m][v[m-1]][v[m]]) + Stretch(c, n, v, m, i)
    BY <2>1, StretchIs
  <2>5. Stretch(c, n, w, m-1, i) =
          (c.node[m-1][w[m-1]] + c.path[m][w[m-1]][w[m]]) + Stretch(c, n, w, m, i)
    BY <2>1, StretchIs
  <2>6. Stretch(c, n, v, m-1, i) = Stretch(c, n, w, m-1, i)
    BY <2>2, <2>3, <2>4, <2>5
  <2> QED BY <2>1, <2>6
<1> HIDE DEF T
<1>4. 0..i-j \subseteq T
  BY <1>1, <1>2, <1>3, UpTo
<1>5. i - j \in 0..i-j /\ i - (i - j) = j
  BY <1>1
<1>6. i - j \in T
  BY <1>4, <1>5
<1> QED BY <1>5, <1>6 DEF T
-----------------------------------------------------------------------------
(* The labellings that have given tags at given positions.                 *)
Agreeing(n, v, K) == {t \in Labellings(n) : \A k \in K : t[k] = v[k]}

LEMMA LabellingsFinite ==
  ASSUME NEW n \in Nat \ {0}
  PROVE  IsFiniteSet(Labellings(n))
<1> DEFINE D == 0..n-1
           graph == [t \in Labellings(n) |-> {<<k, t[k]>> : k \in D}]
<1>1. IsFiniteSet(D) /\ IsFiniteSet(Tag)
  BY TagRange, FS_Interval
<1>2. IsFiniteSet(SUBSET (D \X Tag))
  BY <1>1, FS_Product, FS_SUBSET
<1>3. graph \in [Labellings(n) -> SUBSET (D \X Tag)]
  <2>1. ASSUME NEW t \in Labellings(n) PROVE {<<k, t[k]>> : k \in D} \in SUBSET (D \X Tag)
    BY DEF Labellings
  <2> QED BY <2>1
<1>4. ASSUME NEW t \in Labellings(n), NEW s \in Labellings(n), graph[t] = graph[s] PROVE t = s
  <2>1. ASSUME NEW k \in D PROVE t[k] = s[k]
    <3>1. <<k, t[k]>> \in graph[t]
      OBVIOUS
    <3>2. <<k, t[k]>> \in {<<m, s[m]>> : m \in D}
      BY <1>4, <3>1
    <3> QED BY <3>2
  <2>2. t = [k \in D |-> t[k]] /\ s = [k \in D |-> s[k]]
    BY DEF Labellings
  <2> QED BY <2>1, <2>2
<1> HIDE DEF graph
<1>5. graph \in Injection(Labellings(n), SUBSET (D \X Tag))
  BY <1>3, <1>4 DEF Injection, IsInjective
<1> QED BY <1>2, <1>5, FS_Injection

LEMMA MassIs ==
  ASSUME NEW n \in Nat \ {0}, NEW c \in NaturalLattices(n)
  PROVE  \A t \in Labellings(n) : /\ Mass(c, n)[t] \in Int
                                  /\ Mass(c, n)[t] = Exp(Stretch(c, n, t, 0, n-1))
<1> TAKE t \in Labellings(n)
<1>1. n - 1 \in 0..n-1 /\ 0 \in 0..n-1
  OBVIOUS
<1>2. Stretch(c, n, t, 0, n-1) \in Nat /\ Stretch(c, n, t, 0, n-1) = TagsCost(c, n, t)
  BY <1>1, StretchNatural, StretchIs
<1> QED BY <1>2, ExpIs DEF Mass

LEMMA TotalIs ==
  ASSUME NEW n \in Nat \ {0}, NEW c \in NaturalLattices(n), NEW A \in SUBSET Labellings(n)
  PROVE  TotalMass(c, n, A) \in Int
BY LabellingsFinite, MassIs, SetSumIs DEF TotalMass

With(v, p, b) == [v EXCEPT ![p] = b]

LEMMA WithIs ==
  ASSUME NEW n \in Nat \ {0}, NEW v \in Labellings(n), NEW p \in 0..n-1, NEW b \in Tag
  PROVE  /\ With(v, p, b) \in Labellings(n)
         /\ With(v, p, b)[p] = b
         /\ \A k \in (0..n-1) \ {p} : With(v, p, b)[k] = v[k]
BY DEF With, Labellings

(* They fall into groups by the tag they have at another position.         *)
LEMMA Spread ==
  ASSUME NEW n \in Nat \ {0}, NEW c \in NaturalLattices(n), NEW v \in Labellings(n),
         NEW K \in SUBSET (0..n-1), NEW p \in (0..n-1) \ K,
         NEW g, \A b \in Tag : g[b] = TotalMass(c, n, Agreeing(n, With(v, p, b), K \cup {p}))
  PROVE  TotalMass(c, n, Agreeing(n, v, K)) = TagSum(g)
<1> DEFINE L == Labellings(n)
           P == [b \in Tag |-> Agreeing(n, With(v, p, b), K \cup {p})]
           A == Agreeing(n, v, K)
<1>1. ASSUME NEW b \in Tag PROVE P[b] = {t \in A : t[p] = b}
  <2>1. \A k \in K : With(v, p, b)[k] = v[k]
    BY WithIs
  <2>2. With(v, p, b)[p] = b
    BY WithIs
  <2> QED BY <2>1, <2>2 DEF Agreeing
<1>2. A \in SUBSET L /\ \A t \in A : t[p] \in Tag
  BY LabelsAre DEF Agreeing
<1>3. \A b \in Tag : g[b] = SetSum(P[b], Mass(c, n))
  BY DEF TotalMass
<1>4. Y \in Nat /\ Tag = 0..Y-1
  BY TagRange
<1>5. IsFiniteSet(L) /\ \A t \in L : Mass(c, n)[t] \in Int
  BY LabellingsFinite, MassIs
<1> HIDE DEF A, P, L
<1>6. \A b \in Tag : P[b] \in SUBSET L
  BY <1>1, <1>2
<1>7. A = {t \in L : \E b \in Tag : t \in P[b]}
  BY <1>1, <1>2
<1>8. \A a, b \in Tag : a # b => P[a] \cap P[b] = {}
  BY <1>1
<1>9. SetSum(A, Mass(c, n)) = SumUpTo(Y, g)
  <2>1. /\ \A k \in 0..Y-1 : P[k] \in SUBSET L
        /\ A = {t \in L : \E k \in 0..Y-1 : t \in P[k]}
        /\ \A a, b \in 0..Y-1 : a # b => P[a] \cap P[b] = {}
        /\ \A k \in 0..Y-1 : g[k] = SetSum(P[k], Mass(c, n))
    BY <1>3, <1>4, <1>6, <1>7, <1>8
  <2> QED BY ONLY <1>2, <1>4, <1>5, <2>1, SetSumGroups
<1> QED BY <1>9 DEF TotalMass, TagSum, A
-----------------------------------------------------------------------------
(* What the labellings that agree on the positions j to i have together:   *)
(* all that can stand before them, the stretch itself, all that can follow.*)
Middle(c, n, v, j, i) ==
  (LeftOf(c, Alpha(c, n), j, v[j]) * Exp(Stretch(c, n, v, j, i)))
    * RightOf(c, Beta(c, n), n, i, v[i])
Summarised(c, n, j, i) ==
  \A v \in Labellings(n) : TotalMass(c, n, Agreeing(n, v, j..i)) = Middle(c, n, v, j, i)

LEMMA Regroup ==
  ASSUME NEW a \in Int, NEW b \in Int, NEW d \in Int, NEW e \in Int, NEW h \in Int
  PROVE  /\ (a * (b * (d * e))) * h = (a * b) * (d * (e * h))
         /\ (a * ((b * d) * e)) * h = (e * h) * (d * (b * a))
         /\ (a * b) * d = (b * d) * a
OBVIOUS

LEMMA AllSummarised ==
  ASSUME NEW n \in Nat \ {0}, NEW c \in NaturalLattices(n)
  PROVE  Summarised(c, n, 0, n-1)
<1> SUFFICES ASSUME NEW v \in Labellings(n)
             PROVE  TotalMass(c, n, Agreeing(n, v, 0..n-1)) = Middle(c, n, v, 0, n-1)
  BY DEF Summarised
<1>1. Agreeing(n, v, 0..n-1) = {v}
  <2>1. ASSUME NEW t \in Labellings(n), \A k \in 0..n-1 : t[k] = v[k] PROVE t = v
    BY <2>1 DEF Labellings
  <2> QED BY <2>1 DEF Agreeing
<1> DEFINE M == Mass(c, n)
<1>2. IsFiniteSet(Labellings(n)) /\ \A t \in Labellings(n) : M[t] \in Int
  BY LabellingsFinite, MassIs
<1>3. SetSum({v}, M) = M[v]
  <2>1. {v} \in SUBSET Labellings(n) /\ v \in {v} /\ {v} \ {v} = {}
    OBVIOUS
  <2> HIDE DEF M
  <2>2. SetSum({v}, M) = M[v] + SetSum({v} \ {v}, M)
    BY <1>2, <2>1, SetSumTakes
  <2>3. SetSum({}, M) = 0
    BY <1>2, SetSumIs
  <2>4. M[v] \in Int
    BY <1>2
  <2> QED BY <2>1, <2>2, <2>3, <2>4
<1>4. M[v] = Exp(Stretch(c, n, v, 0, n-1)) /\ M[v] \in Int
  BY MassIs
<1> HIDE DEF M
<1>5. LeftOf(c, Alpha(c, n), 0, v[0]) = 1 /\ RightOf(c, Beta(c, n), n, n-1, v[n-1]) = 1
  BY DEF LeftOf, RightOf
<1>6. (1 * M[v]) * 1 = M[v]
  BY <1>4
<1> QED BY <1>1, <1>3, <1>4, <1>5, <1>6 DEF TotalMass, Middle, M

LEMMA OneLessOnTheRight ==
  ASSUME NEW n \in Nat \ {0}, NEW c \in NaturalLattices(n),
         NEW i \in 1..n-1, NEW j \in 0..i-1, Summarised(c, n, j, i)
  PROVE  Summarised(c, n, j, i-1)
<1> DEFINE A == Alpha(c, n)
           B == Beta(c, n)
           p == i - 1
<1>1. /\ p \in 0..n-1 /\ i \in 0..n-1 /\ j \in 0..n-1 /\ j \in 0..p /\ p # n - 1 /\ p + 1 = i
      /\ i \notin j..p /\ (j..p) \cup {i} = j..i /\ j..p \in SUBSET (0..n-1)
  OBVIOUS
<1> HIDE DEF p
<1>2. SUFFICES ASSUME NEW v \in Labellings(n)
      PROVE  TotalMass(c, n, Agreeing(n, v, j..p)) = Middle(c, n, v, j, p)
  BY DEF Summarised, p
<1> DEFINE a == v[p]
           l == LeftOf(c, A, j, v[j])
           s == Stretch(c, n, v, j, p)
           q(b) == c.path[i][a][b]
           x(b) == c.node[i][b]
           r(b) == RightOf(c, B, n, i, b)
           f == [b \in Tag |-> Exp(q(b)) * B[i][b]]
           g == [b \in Tag |-> TotalMass(c, n, Agreeing(n, With(v, i, b), (j..p) \cup {i}))]
<1>3. a \in Tag /\ v[j] \in Tag
  BY <1>1, LabelsAre
<1>4. s \in Nat /\ Exp(s) \in Int
  BY <1>1, StretchNatural, ExpIs
<1>5. l \in Int
  BY <1>1, <1>3, AlphaIs
<1>6. ASSUME NEW b \in Tag
      PROVE  /\ q(b) \in Nat /\ Exp(q(b)) \in Int /\ x(b) \in Nat /\ Exp(x(b)) \in Int
             /\ r(b) \in Int /\ B[i][b] = Exp(x(b)) * r(b) /\ B[i][b] \in Int
  <2>1. q(b) \in Nat /\ Exp(q(b)) \in Int
    BY <1>3, NaturalAre
  <2>2. x(b) \in Nat /\ Exp(x(b)) \in Int
    BY <1>1, NaturalAre
  <2>3. r(b) \in Int /\ B[i][b] = Exp(x(b)) * r(b)
    BY <1>1, BetaIs
  <2> HIDE DEF q, x, r, B
  <2> QED BY <2>1, <2>2, <2>3
<1>7. TotalMass(c, n, Agreeing(n, v, j..p)) = TagSum(g)
  <2> DEFINE K == j..p
  <2>1. \A b \in Tag : g[b] = TotalMass(c, n, Agreeing(n, With(v, i, b), K \cup {i}))
    OBVIOUS
  <2>2. K \in SUBSET (0..n-1) /\ i \in (0..n-1) \ K
    BY <1>1
  <2> HIDE DEF g, K
  <2>3. TotalMass(c, n, Agreeing(n, v, K)) = TagSum(g)
    BY <2>1, <2>2, Spread
  <2> QED BY <2>3 DEF K
<1>8. ASSUME NEW b \in Tag PROVE g[b] = (l * Exp(s)) * f[b]
  <2> DEFINE w == With(v, i, b)
  <2>1. w \in Labellings(n) /\ w[i] = b /\ \A k \in 0..p : w[k] = v[k]
    <3>1. \A k \in 0..p : k \in (0..n-1) \ {i}
      BY <1>1
    <3> QED BY <1>1, <3>1, WithIs
  <2> HIDE DEF w
  <2>2. g[b] = Middle(c, n, w, j, i)
    <3>1. g[b] = TotalMass(c, n, Agreeing(n, w, j..i))
      BY <1>1 DEF w
    <3> QED BY <2>1, <3>1 DEF Summarised
  <2>3. w[j] = v[j] /\ w[p] = a
    <3>1. j \in 0..p /\ p \in 0..p
      BY <1>1
    <3> QED BY <2>1, <3>1
  <2>4. Stretch(c, n, w, j, p) = s
    <3>1. \A k \in j..p : w[k] = v[k]
      BY <1>1, <2>1
    <3> QED BY <1>1, <2>1, <3>1, StretchSame
  <2>5. Stretch(c, n, w, j, i) = s + (q(b) + x(b))
    <3>1. Stretch(c, n, w, j, i) =
            Stretch(c, n, w, j, i-1) + (c.path[i][w[i-1]][w[i]] + c.node[i][w[i]])
      BY <1>1, <2>1, StretchIs
    <3> QED BY <2>1, <2>3, <2>4, <3>1 DEF p
  <2> HIDE DEF s, q, x, r, l, g
  <2>6. Exp(s + (q(b) + x(b))) = Exp(s) * (Exp(q(b)) * Exp(x(b)))
    <3>1. q(b) + x(b) \in Nat
      BY <1>6
    <3>2. Exp(s + (q(b) + x(b))) = Exp(s) * Exp(q(b) + x(b))
      BY <1>4, <3>1, ExpAdds
    <3>3. Exp(q(b) + x(b)) = Exp(q(b)) * Exp(x(b))
      BY <1>6, ExpAdds
    <3> QED BY <3>2, <3>3
  <2>7. g[b] = (l * (Exp(s) * (Exp(q(b)) * Exp(x(b))))) * r(b)
    BY <2>1, <2>2, <2>3, <2>5, <2>6 DEF Middle, l, r
  <2>8. f[b] = Exp(q(b)) * (Exp(x(b)) * r(b))
    BY <1>6
  <2> HIDE DEF f
  <2> QED BY <1>4, <1>5, <1>6, <2>7, <2>8, Regroup
<1>9. \A b \in Tag : f[b] \in Int
  <2> HIDE DEF q
  <2> QED BY <1>6
<1>10. l * Exp(s) \in Int
  BY <1>4, <1>5
<1>11. TagSum(f) = RightOf(c, B, n, p, a)
  BY <1>1 DEF RightOf, RightSum
<1>12. TagSum(g) = (l * Exp(s)) * TagSum(f)
  <2> HIDE DEF f, g, l, s
  <2> QED BY <1>8, <1>9, <1>10, TagSumScales
<1> QED BY <1>7, <1>11, <1>12 DEF Middle

LEMMA OneLessOnTheLeft ==
  ASSUME NEW n \in Nat \ {0}, NEW c \in NaturalLattices(n),
         NEW i \in 0..n-1, NEW j \in 1..i, Summarised(c, n, j-1, i)
  PROVE  Summarised(c, n, j, i)
<1> DEFINE A == Alpha(c, n)
           B == Beta(c, n)
           p == j - 1
<1>1. /\ p \in 0..n-1 /\ j \in 1..n-1 /\ j \in 0..n-1 /\ j \in 0..i /\ p \in 0..i /\ j # 0
      /\ p \notin j..i /\ (j..i) \cup {p} = p..i /\ j..i \in SUBSET (0..n-1)
  OBVIOUS
<1> SUFFICES ASSUME NEW v \in Labellings(n)
             PROVE  TotalMass(c, n, Agreeing(n, v, j..i)) = Middle(c, n, v, j, i)
  BY DEF Summarised
<1>2. Summarised(c, n, p, i)
  OBVIOUS
<1>3. A[j-1] = A[p]
  OBVIOUS
<1> HIDE DEF p
<1> DEFINE b == v[j]
           r == RightOf(c, B, n, i, v[i])
           s == Stretch(c, n, v, j, i)
           q(a) == c.path[j][a][b]
           x(a) == c.node[p][a]
           l(a) == LeftOf(c, A, p, a)
           f == [a \in Tag |-> Exp(q(a)) * A[p][a]]
           g == [a \in Tag |-> TotalMass(c, n, Agreeing(n, With(v, p, a), (j..i) \cup {p}))]
<1>4. b \in Tag /\ v[i] \in Tag
  BY <1>1, LabelsAre
<1>5. s \in Nat /\ Exp(s) \in Int
  BY <1>1, StretchNatural, ExpIs
<1>6. r \in Int
  BY <1>4, BetaIs
<1>7. ASSUME NEW a \in Tag
      PROVE  /\ q(a) \in Nat /\ Exp(q(a)) \in Int /\ x(a) \in Nat /\ Exp(x(a)) \in Int
             /\ l(a) \in Int /\ A[p][a] = Exp(x(a)) * l(a) /\ A[p][a] \in Int
  <2>1. q(a) \in Nat /\ Exp(q(a)) \in Int
    BY <1>1, <1>4, NaturalAre
  <2>2. x(a) \in Nat /\ Exp(x(a)) \in Int
    BY <1>1, NaturalAre
  <2>3. l(a) \in Int /\ A[p][a] = Exp(x(a)) * l(a)
    BY <1>1, AlphaIs
  <2> HIDE DEF q, x, l, A
  <2> QED BY <2>1, <2>2, <2>3
<1>8. TotalMass(c, n, Agreeing(n, v, j..i)) = TagSum(g)
  <2> DEFINE K == j..i
  <2>1. \A a \in Tag : g[a] = TotalMass(c, n, Agreeing(n, With(v, p, a), K \cup {p}))
    OBVIOUS
  <2>2. K \in SUBSET (0..n-1) /\ p \in (0..n-1) \ K
    BY <1>1
  <2> HIDE DEF g, K
  <2>3. TotalMass(c, n, Agreeing(n, v, K)) = TagSum(g)
    BY <2>1, <2>2, Spread
  <2> QED BY <2>3 DEF K
<1>9. ASSUME NEW a \in Tag PROVE g[a] = (Exp(s) * r) * f[a]
  <2> DEFINE w == With(v, p, a)
  <2>1. w \in Labellings(n) /\ w[p] = a /\ \A k \in j..i : w[k] = v[k]
    <3>1. \A k \in j..i : k \in (0..n-1) \ {p}
      BY <1>1
    <3> QED BY <1>1, <3>1, WithIs
  <2> HIDE DEF w
  <2>2. g[a] = Middle(c, n, w, p, i)
    <3>1. g[a] = TotalMass(c, n, Agreeing(n, w, p..i))
      BY <1>1 DEF w
    <3> QED BY <1>2, <2>1, <3>1 DEF Summarised
  <2>3. w[j] = b /\ w[i] = v[i]
    <3>1. j \in j..i /\ i \in j..i
      BY <1>1
    <3> QED BY <2>1, <3>1
  <2>4. Stretch(c, n, w, j, i) = s
    BY <1>1, <2>1, StretchSame
  <2>5. Stretch(c, n, w, p, i) = (x(a) + q(a)) + s
    <3>1. Stretch(c, n, w, j-1, i) =
            (c.node[j-1][w[j-1]] + c.path[j][w[j-1]][w[j]]) + Stretch(c, n, w, j, i)
      BY <1>1, <2>1, StretchIs
    <3> QED BY <2>1, <2>3, <2>4, <3>1 DEF p
  <2> HIDE DEF s, q, x, r, l, g
  <2>6. Exp((x(a) + q(a)) + s) = (Exp(x(a)) * Exp(q(a))) * Exp(s)
    <3>1. x(a) + q(a) \in Nat
      BY <1>7
    <3>2. Exp((x(a) + q(a)) + s) = Exp(x(a) + q(a)) * Exp(s)
      BY <1>5, <3>1, ExpAdds
    <3>3. Exp(x(a) + q(a)) = Exp(x(a)) * Exp(q(a))
      BY <1>7, ExpAdds
    <3> QED BY <3>2, <3>3
  <2>7. g[a] = (l(a) * ((Exp(x(a)) * Exp(q(a))) * Exp(s))) * r
    BY <2>1, <2>2, <2>3, <2>5, <2>6 DEF Middle, l, r
  <2>8. f[a] = Exp(q(a)) * (Exp(x(a)) * l(a))
    BY <1>7
  <2> HIDE DEF f
  <2> QED BY <1>5, <1>6, <1>7, <2>7, <2>8, Regroup
<1>10. \A a \in Tag : f[a] \in Int
  <2> HIDE DEF q
  <2> QED BY <1>7
<1>11. Exp(s) * r \in Int
  BY <1>5, <1>6
<1>12. TagSum(f) = LeftOf(c, A, j, b)
  BY <1>1, <1>3 DEF LeftOf, LeftSum
<1>13. TagSum(g) = (Exp(s) * r) * TagSum(f)
  <2> HIDE DEF f, g, r, s
  <2> QED BY <1>9, <1>10, <1>11, TagSumScales
<1>14. TagSum(f) \in Int
  <2> HIDE DEF f
  <2> QED BY <1>10, TagSumTyped
<1>15. (Exp(s) * r) * TagSum(f) = (TagSum(f) * Exp(s)) * r
  <2> HIDE DEF f, r, s
  <2> QED BY <1>5, <1>6, <1>14, Regroup
<1> QED BY <1>8, <1>12, <1>13, <1>15 DEF Middle

LEMMA EveryStretch ==
  ASSUME NEW n \in Nat \ {0}, NEW c \in NaturalLattices(n), NEW i \in 0..n-1, NEW j \in 0..i
  PROVE  Summarised(c, n, j, i)
<1> DEFINE T == {k \in 0..n-1 : Summarised(c, n, 0, n - 1 - k)}
           U == {k \in 0..i : Summarised(c, n, k, i)}
<1>1. n - 1 \in Nat
  OBVIOUS
<1>2. 0 \in T
  <2>1. n - 1 - 0 = n - 1 /\ 0 \in 0..n-1
    OBVIOUS
  <2> QED BY <2>1, AllSummarised
<1>3. ASSUME NEW k \in 0..(n-1)-1, k \in T PROVE k + 1 \in T
  <2> DEFINE m == n - 1 - k
  <2>1. m \in 1..n-1 /\ 0 \in 0..m-1 /\ n - 1 - (k + 1) = m - 1 /\ k + 1 \in 0..n-1
    OBVIOUS
  <2>2. Summarised(c, n, 0, m)
    BY <1>3
  <2> HIDE DEF m
  <2>3. Summarised(c, n, 0, m - 1)
    BY <2>1, <2>2, OneLessOnTheRight
  <2> QED BY <2>1, <2>3
<1> HIDE DEF T
<1>4. 0..n-1 \subseteq T
  BY <1>1, <1>2, <1>3, UpTo
<1>5. n - 1 - i \in 0..n-1 /\ n - 1 - (n - 1 - i) = i
  OBVIOUS
<1>6. Summarised(c, n, 0, i)
  <2>1. n - 1 - i \in T
    BY <1>4, <1>5
  <2> QED BY <1>5, <2>1 DEF T
<1>7. 0 \in U /\ i \in Nat
  BY <1>6
<1>8. ASSUME NEW k \in 0..i-1, k \in U PROVE k + 1 \in U
  <2> DEFINE m == k + 1
  <2>1. m \in 1..i /\ m \in 0..i /\ m - 1 = k
    OBVIOUS
  <2> HIDE DEF m
  <2>2. Summarised(c, n, m - 1, i)
    BY <1>8, <2>1
  <2>3. Summarised(c, n, m, i)
    BY <2>1, <2>2, OneLessOnTheLeft
  <2> QED BY <2>1, <2>3 DEF m
<1> HIDE DEF U
<1>9. 0..i \subseteq U
  BY <1>7, <1>8, UpTo
<1> QED BY <1>9 DEF U
-----------------------------------------------------------------------------
(* The normaliser and the marginals.                                       *)
LEMMA NormaliserIs ==
  ASSUME NEW n \in Nat \ {0}, NEW c \in NaturalLattices(n)
  PROVE  Z(c, n) = TotalMass(c, n, Labellings(n)) /\ Z(c, n) \in Int
<1> DEFINE v == [k \in 0..n-1 |-> 0]
           B == Beta(c, n)
           g == [y \in Tag |-> B[0][y]]
<1>1. 0 \in Tag /\ 0 \in 0..n-1 /\ 0 \in 0..0 /\ {0} = 0..0
  BY TagRange, YAssumption
<1>2. v \in Labellings(n)
  BY <1>1 DEF Labellings
<1> HIDE DEF v
<1>3. ASSUME NEW y \in Tag PROVE g[y] = TotalMass(c, n, Agreeing(n, With(v, 0, y), {} \cup {0}))
  <2> DEFINE w == With(v, 0, y)
             x == c.node[0][y]
             r == RightOf(c, B, n, 0, y)
  <2>1. w \in Labellings(n) /\ w[0] = y
    BY <1>1, <1>2, WithIs
  <2> HIDE DEF w
  <2>2. Summarised(c, n, 0, 0)
    BY <1>1, EveryStretch
  <2>3. TotalMass(c, n, Agreeing(n, w, {} \cup {0})) = Middle(c, n, w, 0, 0)
    BY <1>1, <2>1, <2>2 DEF Summarised
  <2>4. LeftOf(c, Alpha(c, n), 0, w[0]) = 1 /\ Stretch(c, n, w, 0, 0) = x
    BY <1>1, <2>1, StretchIs DEF LeftOf
  <2>5. Middle(c, n, w, 0, 0) = (1 * Exp(x)) * r
    BY <2>1, <2>4 DEF Middle
  <2>6. B[0][y] = Exp(x) * r /\ Exp(x) \in Int /\ r \in Int
    BY <1>1, BetaIs, NaturalAre
  <2>7. g[y] = B[0][y]
    OBVIOUS
  <2> HIDE DEF x, r, B, g
  <2>8. (1 * Exp(x)) * r = Exp(x) * r
    BY <2>6
  <2> QED BY <2>3, <2>5, <2>6, <2>7, <2>8 DEF w
<1>4. Z(c, n) = TagSum(g)
  BY DEF Z
<1>5. TotalMass(c, n, Agreeing(n, v, {})) = TagSum(g)
  <2>1. {} \in SUBSET (0..n-1) /\ 0 \in (0..n-1) \ {}
    BY <1>1
  <2> HIDE DEF g
  <2> QED BY ONLY n \in Nat \ {0}, c \in NaturalLattices(n), <1>2, <1>3, <2>1, Spread
<1>6. Agreeing(n, v, {}) = Labellings(n)
  BY DEF Agreeing
<1>7. TotalMass(c, n, Labellings(n)) \in Int
  BY TotalIs
<1> QED BY <1>4, <1>5, <1>6, <1>7

LEMMA Divides ==
  ASSUME NEW e \in Nat \ {0}, NEW l \in Int, NEW r \in Int
  PROVE  ((e * l) * (e * r)) \div e = (l * e) * r
<1> DEFINE m == (l * e) * r
<1>1. m \in Int /\ (e * l) * (e * r) = e * m
  OBVIOUS
<1> HIDE DEF m
<1>2. (e * m) \div e = m
  BY <1>1
<1> QED BY <1>1, <1>2 DEF m

LEMMA NodeMassIs ==
  ASSUME NEW n \in Nat \ {0}, NEW c \in NaturalLattices(n), NEW i \in 0..n-1, NEW y \in Tag
  PROVE  NodeMass(c, n, i, y) = TotalMass(c, n, {t \in Labellings(n) : t[i] = y})
<1> DEFINE v == [k \in 0..n-1 |-> y]
           A == Alpha(c, n)
           B == Beta(c, n)
           e == Exp(c.node[i][y])
           l == LeftOf(c, A, i, y)
           r == RightOf(c, B, n, i, y)
<1>1. v \in Labellings(n) /\ v[i] = y /\ i..i = {i} /\ i \in 0..i
  BY DEF Labellings
<1> HIDE DEF v
<1>2. Agreeing(n, v, i..i) = {t \in Labellings(n) : t[i] = y}
  BY <1>1 DEF Agreeing
<1>3. Summarised(c, n, i, i)
  BY <1>1, EveryStretch
<1>4. TotalMass(c, n, Agreeing(n, v, i..i)) = Middle(c, n, v, i, i)
  BY <1>1, <1>3 DEF Summarised
<1>5. Stretch(c, n, v, i, i) = c.node[i][y]
  BY <1>1, StretchIs
<1>6. Middle(c, n, v, i, i) = (l * e) * r
  BY <1>1, <1>5 DEF Middle
<1>7. A[i][y] = e * l /\ B[i][y] = e * r /\ e \in Nat \ {0} /\ l \in Int /\ r \in Int
  BY AlphaIs, BetaIs, NaturalAre
<1>8. NodeMass(c, n, i, y) = (A[i][y] * B[i][y]) \div e
  BY DEF NodeMass
<1> HIDE DEF A, B, e, l, r
<1>9. ((e * l) * (e * r)) \div e = (l * e) * r
  BY <1>7, Divides
<1> QED BY <1>2, <1>4, <1>6, <1>7, <1>8, <1>9

LEMMA PathMassIs ==
  ASSUME NEW n \in Nat \ {0}, NEW c \in NaturalLattices(n), NEW i \in 1..n-1,
         NEW a \in Tag, NEW b \in Tag
  PROVE  PathMass(c, n, i, a, b) =
           TotalMass(c, n, {t \in Labellings(n) : t[i-1] = a /\ t[i] = b})
<1> DEFINE p == i - 1
<1>1. p \in 0..n-1 /\ i \in 0..n-1 /\ p # i /\ p..i = {p, i} /\ p \in 0..i
  OBVIOUS
<1> DEFINE v == [k \in 0..n-1 |-> IF k = i THEN b ELSE a]
           A == Alpha(c, n)
           B == Beta(c, n)
           x == c.node[p][a]
           q == c.path[i][a][b]
           z0 == c.node[i][b]
           l == LeftOf(c, A, p, a)
           r == RightOf(c, B, n, i, b)
<1>2. PathMass(c, n, i, a, b) = A[p][a] * Exp(q) * B[i][b]
  BY DEF PathMass
<1>3. {t \in Labellings(n) : t[i-1] = a /\ t[i] = b} = {t \in Labellings(n) : t[p] = a /\ t[i] = b}
  OBVIOUS
<1>4. ASSUME NEW w \in Labellings(n), w[p] = a, w[i] = b
      PROVE  Stretch(c, n, w, p, i) = x + (q + z0)
  <2>1. Stretch(c, n, w, p, i) =
          Stretch(c, n, w, p, i-1) + (c.path[i][w[i-1]][w[i]] + c.node[i][w[i]])
    BY <1>1, StretchIs
  <2>2. Stretch(c, n, w, p, p) = c.node[p][w[p]]
    BY <1>1, StretchIs
  <2> QED BY <1>4, <2>1, <2>2
<1> HIDE DEF p
<1>5. v \in Labellings(n) /\ v[p] = a /\ v[i] = b
  BY <1>1 DEF Labellings
<1> HIDE DEF v
<1>6. Agreeing(n, v, p..i) = {t \in Labellings(n) : t[p] = a /\ t[i] = b}
  BY <1>1, <1>5 DEF Agreeing
<1>7. Summarised(c, n, p, i)
  BY <1>1, EveryStretch
<1>8. TotalMass(c, n, Agreeing(n, v, p..i)) = Middle(c, n, v, p, i)
  BY <1>5, <1>7 DEF Summarised
<1>9. Stretch(c, n, v, p, i) = x + (q + z0)
  BY <1>4, <1>5
<1>10. x \in Nat /\ q \in Nat /\ z0 \in Nat
  BY <1>1, NaturalAre
<1>11. Exp(x) \in Int /\ Exp(q) \in Int /\ Exp(z0) \in Int
  <2> HIDE DEF x, q, z0
  <2> QED BY <1>10, ExpIs
<1>12. Exp(x + (q + z0)) = Exp(x) * (Exp(q) * Exp(z0))
  <2> HIDE DEF x, q, z0
  <2>1. q + z0 \in Nat
    BY <1>10
  <2>2. Exp(x + (q + z0)) = Exp(x) * Exp(q + z0) /\ Exp(q + z0) = Exp(q) * Exp(z0)
    BY <1>10, <2>1, ExpAdds
  <2> QED BY <2>2
<1>13. A[p][a] = Exp(x) * l /\ B[i][b] = Exp(z0) * r /\ l \in Int /\ r \in Int
  BY <1>1, AlphaIs, BetaIs
<1>14. Middle(c, n, v, p, i) = (l * Exp(x + (q + z0))) * r
  BY <1>5, <1>9 DEF Middle
<1> HIDE DEF A, B, x, q, z0, l, r
<1>15. \A m, d, e, h, k \in Int : (m * (d * (e * h))) * k = ((d * m) * e) * (h * k)
  OBVIOUS
<1>16. (l * (Exp(x) * (Exp(q) * Exp(z0)))) * r = ((Exp(x) * l) * Exp(q)) * (Exp(z0) * r)
  BY <1>11, <1>13, <1>15
<1> QED BY <1>2, <1>3, <1>6, <1>8, <1>12, <1>13, <1>14, <1>16
-----------------------------------------------------------------------------
(* z is the normaliser of the sentence from forwardbackward() on.          *)
SummedUp == phase = "summed" => z = Z(costs, len)

LEMMA SummedStays == Spec => []SummedUp
<1>1. Init => SummedUp
  BY DEF Init, SummedUp
<1>2. SummedUp /\ [Next]_vars => SummedUp'
  <2> SUFFICES ASSUME SummedUp, [Next]_vars, phase' = "summed" PROVE z' = Z(costs', len')
    BY DEF SummedUp, Z, Beta, TagSum, SumUpTo, Exp, Tag
  <2>1. CASE ForwardBackward
    BY <2>1 DEF ForwardBackward, sentence
  <2>2. CASE UNCHANGED vars
    BY <2>2 DEF vars, sentence, SummedUp
  <2>3. CASE Viterbi \/ InitNbest \/ Empty \/ Rest \/ \E e \in agenda : Pop(e)
    <3>1. CASE Rest
      BY <3>1 DEF Rest, vars, sentence, SummedUp
    <3>2. CASE Viterbi \/ InitNbest \/ Empty
      BY <3>2 DEF Viterbi, InitNbest, Empty
    <3>3. CASE \E e \in agenda : Pop(e)
      BY <3>3 DEF Pop
    <3> QED BY <2>3, <3>1, <3>2, <3>3
  <2> QED BY <2>1, <2>2, <2>3 DEF Next
<1> QED BY <1>1, <1>2, PTL DEF Spec

(* forwardbackward() gives every sentence of natural costs the sum over    *)
(* all its labellings, and every node and path the sum over those through  *)
(* it: prob(i, j) is a marginal probability and gradient() the derivative  *)
(* (tagger.cpp 506-530, 567-600; node.cpp 15-43; path.cpp 14-19).          *)
THEOREM MarginalsAlwaysExact ==
  ASSUME NaturalCosts
  PROVE  Spec => []MarginalsExact
<1>1. SInv /\ SummedUp => MarginalsExact
  <2> SUFFICES ASSUME SInv, SummedUp, phase = "summed" PROVE MarginalsExact
    BY DEF MarginalsExact
  <2>1. len \in Nat \ {0} /\ costs \in NaturalLattices(len) /\ z = Z(costs, len)
    BY LatticeAssumption, NaturalCosts DEF SInv, TypeOK, NaturalCosts, SummedUp
  <2>2. z = TotalMass(costs, len, Labellings(len)) /\ z \in Int
    BY <2>1, NormaliserIs
  <2>3. ASSUME NEW answer \in Labellings(len), NEW i \in 0..len-1, NEW y \in Tag
        PROVE  NodeGradient(costs, len, answer, i, y) =
                 TotalMass(costs, len, {t \in Labellings(len) : t[i] = y})
                 - (IF answer[i] = y THEN z ELSE 0)
    <3>1. z * One(OnTags(answer, i, y)) = IF answer[i] = y THEN z ELSE 0
      BY <2>2 DEF One, OnTags
    <3>2. NodeMass(costs, len, i, y) = TotalMass(costs, len, {t \in Labellings(len) : t[i] = y})
      BY <2>1, NodeMassIs
    <3> QED BY <2>1, <3>1, <3>2 DEF NodeGradient
  <2>4. ASSUME NEW answer \in Labellings(len), NEW i \in 1..len-1, NEW a \in Tag, NEW b \in Tag
        PROVE  PathGradient(costs, len, answer, i, a, b) =
                 TotalMass(costs, len, {t \in Labellings(len) : t[i-1] = a /\ t[i] = b})
                 - (IF answer[i-1] = a /\ answer[i] = b THEN z ELSE 0)
    <3>1. z * One(OnPath(answer, i, a, b)) = IF answer[i-1] = a /\ answer[i] = b THEN z ELSE 0
      BY <2>2 DEF One, OnPath
    <3>2. PathMass(costs, len, i, a, b) =
            TotalMass(costs, len, {t \in Labellings(len) : t[i-1] = a /\ t[i] = b})
      BY <2>1, PathMassIs
    <3> QED BY <2>1, <3>1, <3>2 DEF PathGradient
  <2> QED BY <2>2, <2>3, <2>4 DEF MarginalsExact
<1> QED BY <1>1, SearchInvariant, SummedStays, PTL
-----------------------------------------------------------------------------
(* A sum over the tags that has one term for the answer and one against    *)
(* the tags found.                                                         *)
Picks(g, k, m, d, e) ==
  \A y \in Tag : g[y] = (IF y = k THEN d ELSE 0) - (IF y = m THEN e ELSE 0)

LEMMA Picked ==
  ASSUME NEW k \in Tag, NEW m \in Tag, NEW d \in Int, NEW e \in Int,
         NEW g, Picks(g, k, m, d, e)
  PROVE  TagSum(g) = d - e
<1> DEFINE u == [j \in 0..Y |-> (IF k < j THEN d ELSE 0) - (IF m < j THEN e ELSE 0)]
<1>1. Y \in Nat /\ Tag = 0..Y-1 /\ k \in 0..Y-1 /\ m \in 0..Y-1
  BY TagRange
<1>2. u[0] = 0 /\ u[Y] = d - e
  BY <1>1
<1>3. ASSUME NEW j \in 0..Y-1 PROVE u[j+1] = u[j] + g[j]
  <2>1. j \in 0..Y /\ j + 1 \in 0..Y /\ j \in Tag
    BY <1>1
  <2>2. (k < j + 1 <=> k < j \/ j = k) /\ ~(k < j /\ j = k)
    BY <1>1
  <2>3. (m < j + 1 <=> m < j \/ j = m) /\ ~(m < j /\ j = m)
    BY <1>1
  <2>4. u[j+1] = (IF k < j + 1 THEN d ELSE 0) - (IF m < j + 1 THEN e ELSE 0)
    BY <2>1
  <2>5. u[j] = (IF k < j THEN d ELSE 0) - (IF m < j THEN e ELSE 0)
    BY <2>1
  <2>6. g[j] = (IF j = k THEN d ELSE 0) - (IF j = m THEN e ELSE 0)
    BY <2>1 DEF Picks
  <2> HIDE DEF u
  <2> QED BY <2>2, <2>3, <2>4, <2>5, <2>6
<1> HIDE DEF u
<1>4. SumUpTo(Y, g) = u[Y]
  BY <1>1, <1>2, <1>3, SumBy
<1> QED BY <1>2, <1>4 DEF TagSum

(* Right tags or not, what collins() adds is the difference of the two.    *)
LEMMA CollinsIs ==
  ASSUME NEW n \in Nat \ {0}, NEW c \in LatticesOf(n),
         NEW answer \in Labellings(n), NEW other \in Labellings(n)
  PROVE  /\ \A i \in 0..n-1, y \in Tag :
              CollinsNode(answer, other, i, y) =
                One(answer[i] = y) - One(other[i] = y)
         /\ \A i \in 1..n-1, a, b \in Tag :
              CollinsPath(answer, other, i, a, b) =
                One(answer[i-1] = a /\ answer[i] = b) - One(other[i-1] = a /\ other[i] = b)
         /\ CollinsCost(c, n, answer, other) = TagsCost(c, n, other) - TagsCost(c, n, answer)
<1>1. \A x : One(x) \in Int /\ One(x) - One(x) = 0
  BY DEF One
<1>2. TagsCost(c, n, answer) \in Int /\ TagsCost(c, n, other) \in Int
  <2>1. n - 1 \in 0..n-1
    OBVIOUS
  <2> QED BY <2>1, RunningIs DEF TagsCost
<1>3. CASE answer = other
  BY <1>1, <1>2, <1>3 DEF CollinsNode, CollinsPath, CollinsCost
<1>4. CASE answer # other
  BY <1>4 DEF CollinsNode, CollinsPath, CollinsCost, OnTags, OnPath
<1> QED BY <1>3, <1>4

(* What collins() adds up at one position.                                 *)
NodesAt(c, answer, r, i) == TagSum([y \in Tag |-> c.node[i][y] * CollinsNode(answer, r, i, y)])
PathsAt(c, answer, r, i) == TagSum([a \in Tag |-> TagSum([b \in Tag |->
                              c.path[i][a][b] * CollinsPath(answer, r, i, a, b)])])

LEMMA NodesAre ==
  ASSUME NEW n \in Nat \ {0}, NEW c \in LatticesOf(n),
         NEW answer \in Labellings(n), NEW r \in Labellings(n), NEW i \in 0..n-1
  PROVE  /\ c.node[i][answer[i]] \in Int /\ c.node[i][r[i]] \in Int
         /\ NodesAt(c, answer, r, i) = c.node[i][answer[i]] - c.node[i][r[i]]
<1> DEFINE g == [y \in Tag |-> c.node[i][y] * CollinsNode(answer, r, i, y)]
           k == answer[i]
           m == r[i]
           d == c.node[i][answer[i]]
           e == c.node[i][r[i]]
<1>1. k \in Tag /\ m \in Tag
  BY LabelsAre
<1>2. \A y \in Tag : c.node[i][y] \in Int
  BY DEF LatticesOf
<1>3. d \in Int /\ e \in Int /\ d = c.node[i][k] /\ e = c.node[i][m]
  BY <1>1, <1>2
<1>4. ASSUME NEW y \in Tag
      PROVE  g[y] = (IF y = k THEN d ELSE 0) - (IF y = m THEN e ELSE 0)
  <2>1. CollinsNode(answer, r, i, y) = One(k = y) - One(m = y)
    BY CollinsIs
  <2>2. g[y] = c.node[i][y] * (One(k = y) - One(m = y))
    BY <2>1
  <2>3. c.node[i][y] \in Int
    BY <1>2
  <2>4. y = k => c.node[i][y] = d
    OBVIOUS
  <2>5. y = m => c.node[i][y] = e
    OBVIOUS
  <2> HIDE DEF k, m, d, e, g
  <2> QED BY <1>3, <2>2, <2>3, <2>4, <2>5 DEF One
<1>5. NodesAt(c, answer, r, i) = TagSum(g)
  BY DEF NodesAt
<1> HIDE DEF k, m, d, e, g
<1>6. TagSum(g) = d - e
  <2>1. Picks(g, k, m, d, e)
    BY <1>4 DEF Picks
  <2> QED BY <1>1, <1>3, <2>1, Picked
<1> QED BY <1>3, <1>5, <1>6 DEF d, e

LEMMA PathsAre ==
  ASSUME NEW n \in Nat \ {0}, NEW c \in LatticesOf(n),
         NEW answer \in Labellings(n), NEW r \in Labellings(n), NEW i \in 1..n-1
  PROVE  /\ c.path[i][answer[i-1]][answer[i]] \in Int /\ c.path[i][r[i-1]][r[i]] \in Int
         /\ PathsAt(c, answer, r, i) =
              c.path[i][answer[i-1]][answer[i]] - c.path[i][r[i-1]][r[i]]
<1> DEFINE row(a) == [b \in Tag |-> c.path[i][a][b] * CollinsPath(answer, r, i, a, b)]
           g == [a \in Tag |-> TagSum(row(a))]
           j == answer[i-1]
           k == answer[i]
           l == r[i-1]
           m == r[i]
           d == c.path[i][j][k]
           e == c.path[i][l][m]
<1>1. j \in Tag /\ k \in Tag /\ l \in Tag /\ m \in Tag
  BY LabelsAre
<1>2. \A a, b \in Tag : c.path[i][a][b] \in Int
  BY DEF LatticesOf
<1>3. d \in Int /\ e \in Int
  BY <1>1, <1>2
<1>4. ASSUME NEW a \in Tag
      PROVE  g[a] = (IF a = j THEN d ELSE 0) - (IF a = l THEN e ELSE 0)
  <2> DEFINE d1 == IF a = j THEN d ELSE 0
             e1 == IF a = l THEN e ELSE 0
  <2>1. d1 \in Int /\ e1 \in Int
    BY <1>3
  <2>2. ASSUME NEW b \in Tag
        PROVE  row(a)[b] = (IF b = k THEN d1 ELSE 0) - (IF b = m THEN e1 ELSE 0)
    <3> DEFINE x == c.path[i][a][b]
    <3>1. CollinsPath(answer, r, i, a, b) = One(j = a /\ k = b) - One(l = a /\ m = b)
      BY CollinsIs
    <3>2. row(a)[b] = x * (One(j = a /\ k = b) - One(l = a /\ m = b))
      BY <3>1
    <3>3. x \in Int
      BY <1>2
    <3>4. a = j /\ b = k => x = d1
      OBVIOUS
    <3>5. a = l /\ b = m => x = e1
      OBVIOUS
    <3>6. (a # j => d1 = 0) /\ (a # l => e1 = 0)
      OBVIOUS
    <3> HIDE DEF j, k, l, m, d, e, d1, e1, x, row
    <3>7. x * One(j = a /\ k = b) = IF b = k THEN d1 ELSE 0
      BY <2>1, <3>3, <3>4, <3>6 DEF One
    <3>8. x * One(l = a /\ m = b) = IF b = m THEN e1 ELSE 0
      BY <2>1, <3>3, <3>5, <3>6 DEF One
    <3>9. One(j = a /\ k = b) \in Int /\ One(l = a /\ m = b) \in Int
      BY DEF One
    <3>10. \A p, q \in Int : x * (p - q) = x * p - x * q
      BY <3>3
    <3> QED BY <3>2, <3>7, <3>8, <3>9, <3>10
  <2>3. g[a] = TagSum(row(a))
    OBVIOUS
  <2> DEFINE f == row(a)
  <2>4. Picks(f, k, m, d1, e1)
    <3> HIDE DEF j, k, l, m, d, e, d1, e1, row
    <3> QED BY <2>2 DEF Picks
  <2> HIDE DEF j, k, l, m, d, e, d1, e1, row, g, f
  <2>5. TagSum(f) = d1 - e1
    BY <1>1, <2>1, <2>4, Picked
  <2> QED BY <2>3, <2>5 DEF d1, e1, f
<1>5. PathsAt(c, answer, r, i) = TagSum(g)
  BY DEF PathsAt
<1> HIDE DEF j, k, l, m, d, e, row, g
<1>6. TagSum(g) = d - e
  <2>1. Picks(g, j, l, d, e)
    BY <1>4 DEF Picks
  <2> QED BY <1>1, <1>3, <2>1, Picked
<1> QED BY <1>3, <1>5, <1>6 DEF d, e, j, k, l, m

LEMMA DirectionAddsUp ==
  ASSUME NEW n \in Nat \ {0}, NEW c \in LatticesOf(n),
         NEW answer \in Labellings(n), NEW r \in Labellings(n),
         NEW g, \A i \in 0..n-1 : g[i] = NodesAt(c, answer, r, i)
                                         + IF i = 0 THEN 0 ELSE PathsAt(c, answer, r, i)
  PROVE  CollinsCost(c, n, answer, r) = -SumUpTo(n, g)
<1> DEFINE P == RunningCost(c, n, answer)
           Q == RunningCost(c, n, r)
           u == [k \in 0..n |-> IF k = 0 THEN 0 ELSE P[k-1] - Q[k-1]]
<1>1. /\ P \in [0..n-1 -> Int] /\ P[0] = c.node[0][answer[0]]
      /\ \A i \in 1..n-1 :
           P[i] = c.node[i][answer[i]] + (P[i-1] + c.path[i][answer[i-1]][answer[i]])
  BY RunningIs
<1>2. /\ Q \in [0..n-1 -> Int] /\ Q[0] = c.node[0][r[0]]
      /\ \A i \in 1..n-1 : Q[i] = c.node[i][r[i]] + (Q[i-1] + c.path[i][r[i-1]][r[i]])
  BY RunningIs
<1>3. CollinsCost(c, n, answer, r) = Q[n-1] - P[n-1]
  BY CollinsIs DEF TagsCost
<1> HIDE DEF P, Q
<1>4. u[0] = 0 /\ u[n] = P[n-1] - Q[n-1]
  OBVIOUS
<1>5. ASSUME NEW k \in 0..n-1 PROVE u[k+1] = u[k] + g[k]
  <2>1. u[k+1] = P[k] - Q[k]
    <3>1. k + 1 \in 0..n /\ k + 1 # 0 /\ k + 1 - 1 = k
      OBVIOUS
    <3> QED BY <3>1
  <2> DEFINE x == c.node[k][answer[k]]
             s == c.node[k][r[k]]
  <2>2. x \in Int /\ s \in Int /\ NodesAt(c, answer, r, k) = x - s
    BY NodesAre
  <2>3. CASE k = 0
    <3>1. u[k] = 0 /\ g[k] = NodesAt(c, answer, r, k) + 0
      BY <2>3
    <3>2. P[k] = x /\ Q[k] = s
      BY <1>1, <1>2, <2>3
    <3> HIDE DEF x, s, u
    <3> QED BY <2>1, <2>2, <3>1, <3>2
  <2>4. CASE k # 0
    <3> DEFINE q == c.path[k][answer[k-1]][answer[k]]
               t == c.path[k][r[k-1]][r[k]]
               p0 == P[k-1]
               q0 == Q[k-1]
    <3>1. k \in 1..n-1 /\ k \in 0..n /\ k - 1 \in 0..n-1
      BY <2>4
    <3>2. q \in Int /\ t \in Int /\ PathsAt(c, answer, r, k) = q - t
      BY <3>1, PathsAre
    <3>3. u[k] = p0 - q0 /\ p0 \in Int /\ q0 \in Int
      BY <1>1, <1>2, <2>4, <3>1
    <3>4. P[k] = x + (p0 + q) /\ Q[k] = s + (q0 + t)
      BY <1>1, <1>2, <3>1
    <3>5. g[k] = (x - s) + (q - t)
      BY <2>2, <2>4, <3>2
    <3> HIDE DEF x, s, q, t, p0, q0, u
    <3> QED BY <2>1, <2>2, <3>2, <3>3, <3>4, <3>5
  <2> QED BY <2>3, <2>4
<1> HIDE DEF u
<1>6. SumUpTo(n, g) = u[n]
  BY <1>4, <1>5, SumBy
<1>7. P[n-1] \in Int /\ Q[n-1] \in Int
  BY <1>1, <1>2
<1> QED BY <1>3, <1>4, <1>6, <1>7

(* MIRA's step: the gain is never negative, and it is the weights' change  *)
(* along the direction collins() writes, node by node and path by path; a  *)
(* right parse changes nothing (tagger.cpp 602-664).                       *)
THEOREM CollinsAlwaysRight == Spec => []CollinsDirection
<1>1. SInv => CollinsDirection
  <2> SUFFICES ASSUME SInv, phase = "searched", NEW answer \in Labellings(len)
      PROVE  /\ CollinsCost(costs, len, answer, result) >= 0
             /\ CollinsCost(costs, len, answer, result) =
                  -SumUpTo(len, [i \in 0..len-1 |->
                     TagSum([y \in Tag |-> costs.node[i][y] * CollinsNode(answer, result, i, y)])
                     + IF i = 0 THEN 0
                       ELSE TagSum([a \in Tag |-> TagSum([b \in Tag |->
                              costs.path[i][a][b] * CollinsPath(answer, result, i, a, b)])])])
    BY DEF CollinsDirection
  <2>1. len \in Nat \ {0} /\ costs \in LatticesOf(len) /\ result \in Labellings(len)
    BY Sentence DEF SInv, TypeOK, Ready
  <2>2. CollinsCost(costs, len, answer, result) >= 0
    <3>1. TagsCost(costs, len, answer) \in Int /\ TagsCost(costs, len, result) \in Int
      BY <2>1, Sentence DEF SInv
    <3>2. TagsCost(costs, len, answer) <= TagsCost(costs, len, result)
      BY DEF SInv, ViterbiOptimal
    <3> QED BY <3>1, <3>2 DEF CollinsCost
  <2> DEFINE g == [i \in 0..len-1 |-> NodesAt(costs, answer, result, i)
                                      + IF i = 0 THEN 0 ELSE PathsAt(costs, answer, result, i)]
  <2>3. \A i \in 0..len-1 : g[i] = NodesAt(costs, answer, result, i)
                                   + IF i = 0 THEN 0 ELSE PathsAt(costs, answer, result, i)
    OBVIOUS
  <2>4. CollinsCost(costs, len, answer, result) = -SumUpTo(len, g)
    <3> HIDE DEF g
    <3> QED BY <2>1, <2>3, DirectionAddsUp
  <2> QED BY <2>2, <2>4 DEF NodesAt, PathsAt
<1> QED BY <1>1, SearchInvariant, PTL
=============================================================================
