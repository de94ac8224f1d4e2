--------------------------- MODULE ToolchainProofs ---------------------------
(***************************************************************************)
(* Five groups of results, for any files and command lines.  Of the binary *)
(* format of ModelFile, for models of any size: a file is accepted only    *)
(* when every cell has reached the disk, and is then read back as it was   *)
(* written.  What crf_learn does with its sentences, and that it reads     *)
(* them all.  What is at the path at any moment.  That Toolchain           *)
(* implements ModelStore: crf_test answers only by a model that was at the *)
(* path whole.  And that it answers the sentences of its files in order.   *)
(*                                                                         *)
(* The abstract steps need three invariants.  LearnInv: whatever index     *)
(* crf_learn has, save() would write a model of it that can be read back   *)
(* (the templates lie with their kind, the counts are numbers).  DiskInv:  *)
(* the path holds a whole model or a proper part of one, and while save()  *)
(* writes, of this index.  TestInv: the mapping lies within the file, and  *)
(* the tagger's model is the one at the path, seen through the mapping.    *)
(* The answers need two more.  ModelInv: that model has a tag.  AnswerInv: *)
(* what is written is the answers to all before the place of the stream.   *)
(***************************************************************************)
EXTENDS Toolchain, FiniteSetTheorems, WellFoundedInduction, TLAPS

(* The sequences of a model, whatever their elements, and its size.        *)
IsModel(m) ==
  /\ \E S : /\ m.y \in Seq(S) /\ m.uni \in Seq(S)
            /\ m.bi \in Seq(S) /\ m.dic \in Seq(S)
  /\ m.maxid \in Nat

Parts(m) == Header(m) \o m.y \o <<Len(Padded(m))>> \o Padded(m) \o m.dic

LEMMA PaddedSeq ==
  ASSUME NEW m, IsModel(m)
  PROVE  \E S : Padded(m) \in Seq(S)
PROOF
<1>1. PICK S : m.y \in Seq(S) /\ m.uni \in Seq(S) /\ m.bi \in Seq(S) /\ m.dic \in Seq(S)
  BY DEF IsModel
<1> DEFINE t == m.uni \o m.bi
           n == Len(m.y) + Len(t)
           k == (4 - (n % 4)) % 4
           pad == [i \in 1 .. k |-> Nul]
           R == S \cup {Nul}
<1>2. t \in Seq(S) /\ n \in Nat
  <2>1. t \in Seq(S)
    BY <1>1
  <2> HIDE DEF t
  <2>2. Len(t) \in Nat /\ Len(m.y) \in Nat
    BY <1>1, <2>1
  <2> QED BY <2>1, <2>2
<1>3. k \in Nat
  <2> HIDE DEF n
  <2>1. n % 4 \in 0 .. 3
    BY <1>2
  <2>2. \A j \in 0 .. 3 : (4 - j) % 4 \in Nat
    OBVIOUS
  <2> QED BY <2>1, <2>2
<1>4. pad \in Seq(R)
  <2> HIDE DEF k
  <2> QED BY <1>3
<1>5. t \in Seq(R)
  BY <1>2
<1>6. t \o pad \in Seq(R)
  <2> HIDE DEF t, pad, R
  <2> QED BY <1>4, <1>5
<1> QED BY <1>6 DEF Padded

LEMMA Concat ==
  ASSUME NEW S, NEW a \in Seq(S), NEW b \in Seq(S), NEW c, c = a \o b
  PROVE  /\ c \in Seq(S)
         /\ Len(c) = Len(a) + Len(b)
         /\ \A i \in 1 .. Len(a) : c[i] = a[i]
         /\ \A i \in 1 .. Len(b) : c[Len(a) + i] = b[i]
PROOF OBVIOUS

(* Where the cells of a file are.                                          *)
LEMMA Layout ==
  ASSUME NEW m, IsModel(m)
  PROVE  LET ny == Len(m.y)
             nt == Len(Padded(m))
             nd == Len(m.dic)
             f  == Binary(m)
         IN  /\ ny \in Nat /\ nt \in Nat /\ nd \in Nat /\ m.maxid \in Nat
             /\ \E R : f \in Seq(R)
             /\ Len(f) = 8 + ny + nt + nd + m.maxid
             /\ f[1] = Version /\ f[4] = m.maxid /\ f[5] = m.xsize
             /\ f[6] = nd /\ f[7] = ny /\ f[8 + ny] = nt
             /\ \A i \in 1 .. ny : f[7 + i] = m.y[i]
             /\ \A i \in 1 .. nt : f[8 + ny + i] = Padded(m)[i]
             /\ \A i \in 1 .. nd : f[8 + ny + nt + i] = m.dic[i]
             /\ \A i \in 1 .. m.maxid : f[8 + ny + nt + nd + i] = Weights(m)[i]
PROOF
<1>1. PICK S : m.y \in Seq(S) /\ m.dic \in Seq(S)
  BY DEF IsModel
<1>2. PICK T : Padded(m) \in Seq(T)
  BY PaddedSeq
<1>3. m.maxid \in Nat
  BY DEF IsModel
<1> DEFINE H == Header(m)
           Y == m.y
           P == Padded(m)
           D == m.dic
           W == Weights(m)
           N == <<Len(P)>>
           R == S \cup T \cup Nat \cup {1, m.xsize} \cup {W[i] : i \in 1 .. m.maxid}
<1>4. Y \in Seq(R) /\ P \in Seq(R) /\ D \in Seq(R)
  BY <1>1, <1>2
<1>5. Len(Y) \in Nat /\ Len(P) \in Nat /\ Len(D) \in Nat
  BY <1>1, <1>2
<1>6. W \in Seq(R) /\ Len(W) = m.maxid
  <2>1. DOMAIN W = 1 .. m.maxid /\ W = [i \in 1 .. m.maxid |-> W[i]]
    BY DEF Weights
  <2> HIDE DEF W
  <2>2. W \in [1 .. m.maxid -> R]
    BY <2>1
  <2> QED BY <2>1, <2>2, <1>3
<1>7. /\ H \in Seq(R) /\ Len(H) = 7
      /\ H[1] = Version /\ H[4] = m.maxid /\ H[5] = m.xsize
      /\ H[6] = Len(D) /\ H[7] = Len(Y)
  <2>1. H = <<Version, 0, 1, m.maxid, m.xsize, Len(D), Len(Y)>>
    BY DEF Header
  <2>2. Version \in R /\ 0 \in R /\ 1 \in R /\ m.maxid \in R /\ m.xsize \in R
        /\ Len(D) \in R /\ Len(Y) \in R
    BY <1>3, <1>5 DEF Version
  <2> HIDE DEF H, R, D, Y
  <2> QED BY <2>1, <2>2
<1>8. N \in Seq(R) /\ Len(N) = 1 /\ N[1] = Len(P)
  <2>1. Len(P) \in R
    BY <1>5
  <2> HIDE DEF P, R
  <2> QED BY <2>1
<1>9. Binary(m) = ((((H \o Y) \o N) \o P) \o D) \o W
  BY DEF Binary
<1> HIDE DEF H, Y, P, D, W, N, R
<1> DEFINE A == H \o Y
           B == A \o N
           C == B \o P
           E == C \o D
           F == E \o W
<1>10. /\ A \in Seq(R) /\ Len(A) = 7 + Len(Y)
       /\ \A i \in 1 .. 7 : A[i] = H[i]
       /\ \A i \in 1 .. Len(Y) : A[7 + i] = Y[i]
  <2>1. /\ A \in Seq(R) /\ Len(A) = Len(H) + Len(Y)
        /\ \A i \in 1 .. Len(H) : A[i] = H[i]
        /\ \A i \in 1 .. Len(Y) : A[Len(H) + i] = Y[i]
    <3>1. H \in Seq(R) /\ Y \in Seq(R) /\ A = H \o Y
      BY <1>4, <1>7
    <3> HIDE DEF A
    <3> QED BY <3>1, Concat
  <2> HIDE DEF A
  <2> QED BY <2>1, <1>5, <1>4, <1>7
<1> HIDE DEF A
<1>11. /\ B \in Seq(R) /\ Len(B) = 8 + Len(Y)
       /\ \A i \in 1 .. 7 + Len(Y) : B[i] = A[i]
       /\ B[8 + Len(Y)] = Len(P)
  <2>1. /\ B \in Seq(R) /\ Len(B) = Len(A) + 1
        /\ \A i \in 1 .. Len(A) : B[i] = A[i]
        /\ \A i \in 1 .. 1 : B[Len(A) + i] = N[i]
    <3>1. /\ B \in Seq(R) /\ Len(B) = Len(A) + Len(N)
          /\ \A i \in 1 .. Len(A) : B[i] = A[i]
          /\ \A i \in 1 .. Len(N) : B[Len(A) + i] = N[i]
      <4>1. A \in Seq(R) /\ N \in Seq(R) /\ B = A \o N
        BY <1>8, <1>10
      <4> HIDE DEF B
      <4> QED BY <4>1, Concat
    <3> HIDE DEF B
    <3> QED BY <3>1, <1>8
  <2> HIDE DEF B
  <2>2. B[Len(A) + 1] = N[1]
    BY <2>1
  <2> QED BY <2>1, <2>2, <1>5, <1>8, <1>10
<1> HIDE DEF B
<1>12. /\ C \in Seq(R) /\ Len(C) = 8 + Len(Y) + Len(P)
       /\ \A i \in 1 .. 8 + Len(Y) : C[i] = B[i]
       /\ \A i \in 1 .. Len(P) : C[8 + Len(Y) + i] = P[i]
  <2>1. /\ C \in Seq(R) /\ Len(C) = Len(B) + Len(P)
        /\ \A i \in 1 .. Len(B) : C[i] = B[i]
        /\ \A i \in 1 .. Len(P) : C[Len(B) + i] = P[i]
    <3>1. B \in Seq(R) /\ P \in Seq(R) /\ C = B \o P
      BY <1>4, <1>11
    <3> HIDE DEF C
    <3> QED BY <3>1, Concat
  <2> HIDE DEF C
  <2> QED BY <2>1, <1>5, <1>4, <1>11
<1> HIDE DEF C
<1>13. /\ E \in Seq(R) /\ Len(E) = 8 + Len(Y) + Len(P) + Len(D)
       /\ \A i \in 1 .. 8 + Len(Y) + Len(P) : E[i] = C[i]
       /\ \A i \in 1 .. Len(D) : E[8 + Len(Y) + Len(P) + i] = D[i]
  <2>1. /\ E \in Seq(R) /\ Len(E) = Len(C) + Len(D)
        /\ \A i \in 1 .. Len(C) : E[i] = C[i]
        /\ \A i \in 1 .. Len(D) : E[Len(C) + i] = D[i]
    <3>1. C \in Seq(R) /\ D \in Seq(R) /\ E = C \o D
      BY <1>4, <1>12
    <3> HIDE DEF E
    <3> QED BY <3>1, Concat
  <2> HIDE DEF E
  <2> QED BY <2>1, <1>5, <1>4, <1>12
<1> HIDE DEF E
<1>14. /\ F \in Seq(R) /\ Len(F) = 8 + Len(Y) + Len(P) + Len(D) + m.maxid
       /\ \A i \in 1 .. 8 + Len(Y) + Len(P) + Len(D) : F[i] = E[i]
       /\ \A i \in 1 .. m.maxid : F[8 + Len(Y) + Len(P) + Len(D) + i] = W[i]
  <2>1. /\ F \in Seq(R) /\ Len(F) = Len(E) + Len(W)
        /\ \A i \in 1 .. Len(E) : F[i] = E[i]
        /\ \A i \in 1 .. Len(W) : F[Len(E) + i] = W[i]
    <3>1. E \in Seq(R) /\ W \in Seq(R) /\ F = E \o W
      BY <1>6, <1>13
    <3> HIDE DEF F
    <3> QED BY <3>1, Concat
  <2> HIDE DEF F
  <2> QED BY <2>1, <1>5, <1>6, <1>13
<1> HIDE DEF F
<1>15. Binary(m) = F
  BY <1>9 DEF A, B, C, E, F
<1>16. \A i \in 1 .. 7 : F[i] = H[i]
  <2> TAKE i \in 1 .. 7
  <2>1. i \in 1 .. 7 + Len(Y) /\ i \in 1 .. 8 + Len(Y)
        /\ i \in 1 .. 8 + Len(Y) + Len(P) /\ i \in 1 .. 8 + Len(Y) + Len(P) + Len(D)
    BY <1>5
  <2> QED BY <2>1, <1>10, <1>11, <1>12, <1>13, <1>14
<1>17. \A i \in 1 .. Len(Y) : F[7 + i] = Y[i]
  <2> TAKE i \in 1 .. Len(Y)
  <2>1. 7 + i \in 1 .. 7 + Len(Y) /\ 7 + i \in 1 .. 8 + Len(Y)
        /\ 7 + i \in 1 .. 8 + Len(Y) + Len(P) /\ 7 + i \in 1 .. 8 + Len(Y) + Len(P) + Len(D)
    BY <1>5
  <2> QED BY <2>1, <1>10, <1>11, <1>12, <1>13, <1>14
<1>18. F[8 + Len(Y)] = Len(P)
  <2>1. 8 + Len(Y) \in 1 .. 8 + Len(Y)
        /\ 8 + Len(Y) \in 1 .. 8 + Len(Y) + Len(P) /\ 8 + Len(Y) \in 1 .. 8 + Len(Y) + Len(P) + Len(D)
    BY <1>5
  <2> QED BY <2>1, <1>11, <1>12, <1>13, <1>14
<1>19. \A i \in 1 .. Len(P) : F[8 + Len(Y) + i] = P[i]
  <2> TAKE i \in 1 .. Len(P)
  <2>1. 8 + Len(Y) + i \in 1 .. 8 + Len(Y) + Len(P)
        /\ 8 + Len(Y) + i \in 1 .. 8 + Len(Y) + Len(P) + Len(D)
    BY <1>5
  <2> QED BY <2>1, <1>12, <1>13, <1>14
<1>20. \A i \in 1 .. Len(D) : F[8 + Len(Y) + Len(P) + i] = D[i]
  <2> TAKE i \in 1 .. Len(D)
  <2>1. 8 + Len(Y) + Len(P) + i \in 1 .. 8 + Len(Y) + Len(P) + Len(D)
    BY <1>5
  <2> QED BY <2>1, <1>13, <1>14
<1>21. F[1] = Version /\ F[4] = m.maxid /\ F[5] = m.xsize /\ F[6] = Len(D) /\ F[7] = Len(Y)
  BY <1>7, <1>16
<1> QED
  BY <1>3, <1>5, <1>14, <1>15, <1>17, <1>18, <1>19, <1>20, <1>21 DEF Y, P, D, W

(* The first k cells of a file, which is what has reached the disk.        *)
LEMMA Prefix ==
  ASSUME NEW R, NEW b \in Seq(R), NEW k \in 0 .. Len(b),
         NEW f, f = SubSeq(b, 1, k)
  PROVE  /\ Len(f) = k
         /\ \A i \in 1 .. k : f[i] = b[i]
PROOF OBVIOUS

(* A model file is refused unless it was complete when its length was      *)
(* taken, however far crf_learn had got by the time its cells were read    *)
(* (feature_index.cpp 249), and whatever is past the end of the mapping.   *)
THEOREM CutRefused ==
  ASSUME NEW m, IsModel(m),
         NEW k \in 0 .. Len(Binary(m)), NEW size \in 0 .. k, size < Len(Binary(m)),
         NEW junk \in Nat
  PROVE  ~Opens(SubSeq(Binary(m), 1, k), size, junk)
PROOF
<1> DEFINE b == Binary(m)
           f == SubSeq(b, 1, k)
           ny == Len(m.y)
           nt == Len(Padded(m))
           nd == Len(m.dic)
<1>1. /\ ny \in Nat /\ nt \in Nat /\ nd \in Nat /\ m.maxid \in Nat
      /\ \E R : b \in Seq(R)
      /\ Len(b) = 8 + ny + nt + nd + m.maxid
      /\ b[4] = m.maxid /\ b[6] = nd /\ b[7] = ny /\ b[8 + ny] = nt
  BY Layout
<1>2. k \in Nat /\ size \in Nat /\ size <= k /\ k <= Len(b) /\ size < Len(b)
  <2> HIDE DEF ny, nt, nd
  <2>1. Len(b) \in Nat
    BY <1>1
  <2> HIDE DEF b
  <2>2. k \in 0 .. Len(b) /\ size \in 0 .. k /\ size < Len(b)
    BY DEF b
  <2> QED BY <2>1, <2>2
<1>3. Len(f) = k /\ \A i \in 1 .. k : f[i] = b[i]
  <2>1. PICK R : b \in Seq(R)
    BY <1>1
  <2> HIDE DEF b
  <2> QED BY <2>1, Prefix
<1> HIDE DEF b, f, ny, nt, nd
<1>4. /\ At(f, 4, junk) \in Nat /\ At(f, 6, junk) \in Nat /\ At(f, 7, junk) \in Nat
  BY <1>1, <1>2, <1>3 DEF At
<1> DEFINE from == TemplatesFrom(f, junk)
<1>5. from = 8 + At(f, 7, junk)
  BY <1>4 DEF TemplatesFrom, TagsFrom
<1>6. WeightsFrom(f, junk) + At(f, 4, junk)
        = from + At(f, from, junk) + At(f, 6, junk) + At(f, 4, junk)
  BY DEF WeightsFrom, ArrayFrom
<1> HIDE DEF from
<1>7. CASE k >= 8 + ny
  <2>1. At(f, 7, junk) = ny /\ At(f, 4, junk) = m.maxid /\ At(f, 6, junk) = nd
    BY <1>1, <1>2, <1>3, <1>7 DEF At
  <2>2. At(f, from, junk) = nt
    BY <1>1, <1>2, <1>3, <1>5, <1>7, <2>1 DEF At
  <2>3. WeightsFrom(f, junk) + At(f, 4, junk) = Len(b)
    BY <1>1, <1>5, <1>6, <2>1, <2>2
  <2> QED BY <2>3, <1>2 DEF Opens, b, f
<1>8. CASE k < 8 + ny
  <2>1. from > k
    <3>1. CASE k >= 7
      BY <1>1, <1>2, <1>3, <1>5, <1>8, <3>1 DEF At
    <3>2. CASE k < 7
      BY <1>2, <1>4, <1>5, <3>2
    <3> QED BY <3>1, <3>2, <1>2
  <2>2. At(f, from, junk) = junk
    BY <2>1, <1>2, <1>3, <1>4, <1>5 DEF At
  <2>3. WeightsFrom(f, junk) + At(f, 4, junk) > size
    BY <1>2, <1>4, <1>5, <1>6, <2>1, <2>2
  <2> QED BY <2>3, <1>2 DEF Opens, b, f
<1> QED BY <1>1, <1>2, <1>7, <1>8

(* A file written whole is accepted, and the tags, the dictionary, the     *)
(* numbers and the weights read from it are those that were saved.         *)
THEOREM WholeReadBack ==
  ASSUME NEW m, IsModel(m), NEW junk
  PROVE  LET f == Binary(m)
             r == Index(f, junk)
         IN  /\ Opens(f, Len(f), junk)
             /\ r.y = m.y /\ r.dic = m.dic /\ r.alpha = Weights(m)
             /\ r.maxid = m.maxid /\ r.xsize = m.xsize
PROOF
<1> DEFINE f == Binary(m)
           ny == Len(m.y)
           nt == Len(Padded(m))
           nd == Len(m.dic)
<1>1. /\ ny \in Nat /\ nt \in Nat /\ nd \in Nat /\ m.maxid \in Nat
      /\ Len(f) = 8 + ny + nt + nd + m.maxid
      /\ f[1] = Version /\ f[4] = m.maxid /\ f[5] = m.xsize
      /\ f[6] = nd /\ f[7] = ny /\ f[8 + ny] = nt
      /\ \A i \in 1 .. ny : f[7 + i] = m.y[i]
      /\ \A i \in 1 .. nd : f[8 + ny + nt + i] = m.dic[i]
      /\ \A i \in 1 .. m.maxid : f[8 + ny + nt + nd + i] = Weights(m)[i]
  BY Layout
<1>2. PICK S : m.y \in Seq(S) /\ m.dic \in Seq(S)
  BY DEF IsModel
<1>3. m.y = [i \in 1 .. ny |-> m.y[i]] /\ m.dic = [i \in 1 .. nd |-> m.dic[i]]
  BY <1>2
<1> HIDE DEF f, ny, nt, nd
<1>4. \A i \in 1 .. Len(f) : At(f, i, junk) = f[i]
  BY <1>1 DEF At
<1>5. /\ At(f, 1, junk) = Version /\ At(f, 4, junk) = m.maxid /\ At(f, 5, junk) = m.xsize
      /\ At(f, 6, junk) = nd /\ At(f, 7, junk) = ny /\ At(f, 8 + ny, junk) = nt
  BY <1>1, <1>4
<1>6. /\ TemplatesFrom(f, junk) = 8 + ny /\ ArrayFrom(f, junk) = 8 + ny + nt
      /\ WeightsFrom(f, junk) = 8 + ny + nt + nd
  <2>1. TemplatesFrom(f, junk) = 8 + ny
    BY <1>1, <1>5 DEF TemplatesFrom, TagsFrom
  <2>2. ArrayFrom(f, junk) = 8 + ny + nt
    BY <1>1, <1>5, <2>1 DEF ArrayFrom
  <2>3. WeightsFrom(f, junk) = 8 + ny + nt + nd
    BY <1>1, <1>5, <2>2 DEF WeightsFrom
  <2> QED BY <2>1, <2>2, <2>3
<1>7. Opens(f, Len(f), junk)
  BY <1>1, <1>5, <1>6 DEF Opens
<1>8. Region(f, TagsFrom, ny, junk) = m.y
  <2>1. ASSUME NEW i \in 1 .. ny PROVE At(f, TagsFrom + i, junk) = m.y[i]
    <3>1. 7 + i \in 1 .. Len(f) /\ f[7 + i] = m.y[i]
      BY <1>1
    <3>2. At(f, 7 + i, junk) = f[7 + i]
      BY <3>1, <1>4
    <3> QED BY <3>1, <3>2 DEF TagsFrom
  <2> QED BY <2>1, <1>3 DEF Region
<1>9. Region(f, 8 + ny + nt, nd, junk) = m.dic
  <2>1. \A i \in 1 .. nd : At(f, 8 + ny + nt + i, junk) = m.dic[i]
    BY <1>1, <1>4
  <2> QED BY <2>1, <1>3 DEF Region
<1>10. Region(f, 8 + ny + nt + nd, m.maxid, junk) = Weights(m)
  <2>1. \A i \in 1 .. m.maxid : At(f, 8 + ny + nt + nd + i, junk) = Weights(m)[i]
    BY <1>1, <1>4
  <2>2. Weights(m) = [i \in 1 .. m.maxid |-> Weights(m)[i]]
    BY DEF Weights
  <2> QED BY <2>1, <2>2 DEF Region
<1>11. /\ Index(f, junk).y = m.y /\ Index(f, junk).dic = m.dic
       /\ Index(f, junk).alpha = Weights(m)
       /\ Index(f, junk).maxid = m.maxid /\ Index(f, junk).xsize = m.xsize
  BY <1>5, <1>6, <1>8, <1>9, <1>10 DEF Index
<1> QED BY <1>7, <1>11 DEF f
-----------------------------------------------------------------------------
(* What crf_learn does with its sentences.  The counters run along with x, *)
(* and how often a sentence was deleted follows from where the program is. *)

Times(phase, why) ==
  CASE phase \in {"read", "train", "delete"} -> 0
    [] phase = "idle" /\ why \in {"save", "text"} -> 2
    [] OTHER -> 1

Leaks(phase, why) == IF phase = "idle" /\ why \in {"read", "features"} THEN 1 ELSE 0

XInv ==
  /\ \E S : x \in Seq(S)
  /\ freed \in Seq(Nat) /\ Len(freed) = Len(x)
  /\ line = Len(x)
  /\ \A i \in 1 .. Len(x) : x[i].thread = (i - 1) % args.threads
  /\ \A i \in 1 .. Len(freed) : freed[i] = Times(lphase, result.why)

(* A sentence is lost where reading stops at it, and nowhere else.         *)
LeakInv == leaked = Leaks(lphase, result.why)

LEMMA XInvProperties ==
  XInv => OwnLists /\ (LeakInv => DeletedOnce)
PROOF BY DEF XInv, LeakInv, OwnLists, DeletedOnce, Times, Leaks

LEMMA XInit == Init => XInv
PROOF
<1> SUFFICES ASSUME Init PROVE XInv
  OBVIOUS
<1>1. x = <<>> /\ freed = <<>> /\ line = 0
  BY DEF Init, LearnInit
<1>2. <<>> \in Seq(Nat) /\ Len(<<>>) = 0
  OBVIOUS
<1> QED BY <1>1, <1>2 DEF XInv

(* A program that has just begun, or was killed, has no sentences.         *)
LEMMA XEmpty ==
  ASSUME x' = <<>>, freed' = <<>>, line' = 0
  PROVE  XInv'
PROOF
<1>1. <<>> \in Seq(Nat) /\ Len(<<>>) = 0
  OBVIOUS
<1> QED BY <1>1 DEF XInv

(* The sentences stay as they are while the program moves between places   *)
(* with the same count.                                                    *)
LEMMA XSame ==
  ASSUME XInv, UNCHANGED <<x, freed, line, args>>,
         Times(lphase', result'.why) = Times(lphase, result.why)
  PROVE  XInv'
PROOF BY DEF XInv

(* All sentences are deleted once more.                                    *)
LEMMA XDeleted ==
  ASSUME XInv, UNCHANGED <<x, line, args>>, DeleteAll,
         Times(lphase', result'.why) = Times(lphase, result.why) + 1
  PROVE  XInv'
PROOF
<1> DEFINE n == Len(freed)
           g == [i \in 1 .. n |-> freed[i] + 1]
<1>1. freed \in Seq(Nat) /\ n \in Nat /\ freed' = g
  BY DEF XInv, DeleteAll
<1>2. g \in Seq(Nat) /\ Len(g) = n /\ \A i \in 1 .. n : g[i] = freed[i] + 1
  <2>1. \A i \in 1 .. n : freed[i] \in Nat
    BY <1>1
  <2> HIDE DEF n
  <2> QED BY <1>1, <2>1
<1> HIDE DEF g
<1>3. \A i \in 1 .. n : g[i] = Times(lphase', result'.why)
  BY <1>2 DEF XInv
<1> QED BY <1>1, <1>2, <1>3 DEF XInv

(* A sentence that was read joins the list of its worker.                  *)
LEMMA XKept ==
  ASSUME XInv, NEW tokens, Keep(tokens), UNCHANGED <<args, lphase, result>>,
         lphase = "read"
  PROVE  XInv'
PROOF
<1> DEFINE s == [tokens |-> tokens, thread |-> line % args.threads]
<1>1. x' = Append(x, s) /\ line' = line + 1 /\ freed' = Append(freed, 0)
  BY DEF Keep
<1>2. PICK S : x \in Seq(S)
  BY DEF XInv
<1>3. s.thread = line % args.threads
  OBVIOUS
<1> HIDE DEF s
<1>4. /\ x' \in Seq(S \cup {s}) /\ Len(x') = Len(x) + 1 /\ Len(x) \in Nat
      /\ \A i \in 1 .. Len(x) : x'[i] = x[i]
      /\ x'[Len(x) + 1] = s
  BY <1>1, <1>2
<1>5. /\ freed' \in Seq(Nat) /\ Len(freed') = Len(freed) + 1 /\ Len(freed) \in Nat
      /\ \A i \in 1 .. Len(freed) : freed'[i] = freed[i]
      /\ freed'[Len(freed) + 1] = 0
  <2>1. freed \in Seq(Nat)
    BY DEF XInv
  <2> QED BY <1>1, <2>1
<1>6. line = Len(x) /\ Len(freed) = Len(x)
  BY DEF XInv
<1>7. \A i \in 1 .. Len(x') : x'[i].thread = (i - 1) % args'.threads
  <2> SUFFICES ASSUME NEW i \in 1 .. Len(x) + 1
               PROVE  x'[i].thread = (i - 1) % args.threads
    BY <1>4
  <2>1. CASE i \in 1 .. Len(x)
    BY <2>1, <1>4 DEF XInv
  <2>2. CASE i = Len(x) + 1
    BY <2>2, <1>3, <1>4, <1>6
  <2> QED BY <2>1, <2>2, <1>4
<1>8. Times(lphase, result.why) = 0
  BY DEF Times
<1>9. \A i \in 1 .. Len(freed') : freed'[i] = Times(lphase', result'.why)
  <2> SUFFICES ASSUME NEW i \in 1 .. Len(freed) + 1
               PROVE  freed'[i] = 0
    BY <1>5, <1>8
  <2>1. CASE i \in 1 .. Len(freed)
    BY <2>1, <1>5, <1>8 DEF XInv
  <2>2. CASE i = Len(freed) + 1
    BY <2>2, <1>5
  <2> QED BY <2>1, <2>2, <1>5
<1>10. line' = Len(x') /\ Len(freed') = Len(x')
  BY <1>1, <1>4, <1>5, <1>6
<1>11. \E Q : x' \in Seq(Q)
  BY <1>4
<1> QED BY <1>5, <1>7, <1>9, <1>10, <1>11 DEF XInv

LEMMA XReading ==
  ASSUME XInv, ReadSentence
  PROVE  XInv'
PROOF
<1> DEFINE r == Read(in.rest, index.xsize + 1)
           n == Len(r.tokens)
<1>1. lphase = "read" /\ args' = args
  BY DEF ReadSentence
<1>2. CASE /\ UNCHANGED <<x, line>>
           /\ \E why \in {"features", "read"} : Complains(why)
  <2>1. PICK why \in {"features", "read"} : Complains(why)
    BY <1>2
  <2>2. lphase' = "idle" /\ result'.why = why /\ DeleteAll
    BY <2>1 DEF Complains, Ends, Returned
  <2>3. Times(lphase, result.why) = 0 /\ Times(lphase', result'.why) = 1
    BY <1>1, <2>2 DEF Times
  <2> QED BY <1>1, <1>2, <2>2, <2>3, XDeleted
<1>3. CASE UNCHANGED <<lphase, result, x, line, freed>>
  BY <1>1, <1>3, XSame
<1>4. CASE UNCHANGED <<lphase, result>> /\ Keep(r.tokens)
  <2> HIDE DEF r
  <2> QED BY <1>1, <1>4, XKept
<1> QED BY <1>2, <1>3, <1>4 DEF ReadSentence

LEMMA XTraining ==
  ASSUME XInv, Train
  PROVE  XInv'
PROOF
<1>1. lphase = "train" /\ UNCHANGED <<args, x, line>>
  BY DEF Train
<1>2. CASE lphase' = "delete" /\ UNCHANGED <<freed, result>>
  <2>1. Times(lphase, result.why) = 0 /\ Times(lphase', result'.why) = 0
    BY <1>1, <1>2 DEF Times
  <2> QED BY <1>1, <1>2, <2>1, XSame
<1>3. CASE Complains("train")
  <2>1. lphase' = "idle" /\ result'.why = "train" /\ DeleteAll
    BY <1>3 DEF Complains, Ends, Returned
  <2>2. Times(lphase, result.why) = 0 /\ Times(lphase', result'.why) = 1
    BY <1>1, <2>1 DEF Times
  <2> QED BY <1>1, <2>1, <2>2, XDeleted
<1> QED BY <1>2, <1>3 DEF Train

LEMMA XDeleting ==
  ASSUME XInv, DeleteSentences \/ SaveRefused \/ TextRefused
  PROVE  XInv'
PROOF
<1>1. CASE DeleteSentences
  <2>1. Times(lphase, result.why) = 0 /\ Times(lphase', result'.why) = 1
    BY <1>1 DEF DeleteSentences, Times
  <2> QED BY <1>1, <2>1, XDeleted DEF DeleteSentences
<1>2. CASE SaveRefused
  <2>1. lphase = "save" /\ lphase' = "idle" /\ result'.why = "save"
        /\ DeleteAll /\ UNCHANGED <<x, line, args>>
    BY <1>2 DEF SaveRefused, Complains, Ends, Returned
  <2>2. Times(lphase, result.why) = 1 /\ Times(lphase', result'.why) = 2
    BY <2>1 DEF Times
  <2> QED BY <2>1, <2>2, XDeleted
<1>3. CASE TextRefused
  <2>1. lphase = "text" /\ lphase' = "idle" /\ result'.why = "text"
        /\ DeleteAll /\ UNCHANGED <<x, line, args>>
    BY <1>3 DEF TextRefused, Complains, Ends, Returned
  <2>2. Times(lphase, result.why) = 1 /\ Times(lphase', result'.why) = 2
    BY <2>1 DEF Times
  <2> QED BY <2>1, <2>2, XDeleted
<1> QED BY <1>1, <1>2, <1>3

LEMMA XSaving ==
  ASSUME XInv, ShrinkDictionary \/ SaveOpen \/ SaveCell \/ Finish
  PROVE  XInv'
PROOF
<1>1. UNCHANGED <<x, freed, line, args>>
  BY DEF ShrinkDictionary, SaveOpen, SaveCell, Finish
<1>2. Times(lphase', result'.why) = Times(lphase, result.why)
  <2>1. CASE ShrinkDictionary
    BY <2>1 DEF ShrinkDictionary, Times
  <2>2. CASE SaveOpen
    BY <2>2 DEF SaveOpen, Times
  <2>3. CASE SaveCell
    <3>1. lphase = "write" /\ lphase' \in {"write", "text"}
      BY <2>3 DEF SaveCell
    <3> QED BY <3>1 DEF Times
  <2>4. CASE Finish
    <3>1. lphase = "text" /\ lphase' = "idle" /\ result'.why = "done"
      BY <2>4 DEF Finish, Ends, Returned
    <3> QED BY <3>1 DEF Times
  <2> QED BY <2>1, <2>2, <2>3, <2>4
<1> QED BY <1>1, <1>2, XSame

LEMMA XStep ==
  ASSUME XInv, [Next]_vars
  PROVE  XInv'
PROOF
<1>1. CASE LearnRefused \/ LearnOpen \/ Convert
  BY <1>1, XEmpty DEF LearnRefused, LearnOpen, Convert, FreshRun
<1>2. CASE Kill
  BY <1>2, XEmpty DEF Kill
<1>3. CASE ReadSentence
  BY <1>3, XReading
<1>4. CASE Train
  BY <1>4, XTraining
<1>5. CASE DeleteSentences \/ SaveRefused \/ TextRefused
  BY <1>5, XDeleting
<1>6. CASE ShrinkDictionary \/ SaveOpen \/ SaveCell \/ Finish
  BY <1>6, XSaving
<1>7. CASE UNCHANGED learnVars
  BY <1>7, XSame DEF learnVars
<1> QED BY <1>1, <1>2, <1>3, <1>4, <1>5, <1>6, <1>7 DEF Next, Learning, Working, vars

LEMMA XAlways == Spec => []XInv
PROOF
<1>1. Init => XInv
  BY XInit
<1>2. XInv /\ [Next]_vars => XInv'
  BY XStep
<1> QED BY <1>1, <1>2, PTL DEF Spec

(* A sentence is filed in the lists of the worker that trains on it, for   *)
(* any training file and number of threads (encoder.cpp 354-366).          *)
THEOREM SentencesOwnLists == Spec => []OwnLists
PROOF
<1>1. XInv => OwnLists
  BY XInvProperties
<1> QED BY <1>1, XAlways, PTL

LEMMA LeakStep ==
  ASSUME LeakInv, [Next]_vars
  PROVE  LeakInv'
PROOF
<1>1. CASE LearnRefused \/ LearnOpen \/ Convert
  <2>1. leaked' = 0 /\ \/ lphase' # "idle"
                       \/ result'.why \in {"help", "options", "algorithm", "open", "format"}
    BY <1>1 DEF LearnRefused, LearnOpen, Convert, FreshRun, Ends, Returned
  <2> QED BY <2>1 DEF LeakInv, Leaks
<1>2. CASE Kill
  BY <1>2 DEF Kill, Ends, Returned, LeakInv, Leaks
<1>3. CASE ReadSentence
  <2>1. lphase = "read" /\ leaked = 0
    BY <1>3 DEF ReadSentence, LeakInv, Leaks
  <2>2. \/ leaked' = leaked + 1 /\ lphase' = "idle" /\ result'.why \in {"features", "read"}
        \/ UNCHANGED <<lphase, result, leaked>>
    BY <1>3 DEF ReadSentence, Complains, Ends, Returned
  <2> QED BY <2>1, <2>2 DEF LeakInv, Leaks
<1>4. CASE Train \/ SaveRefused \/ TextRefused \/ Finish
  <2>1. lphase # "idle" /\ leaked' = leaked
    BY <1>4 DEF Train, SaveRefused, TextRefused, Finish
  <2>2. lphase' = "delete" \/ (lphase' = "idle" /\ result'.why \in {"train", "save", "text", "done"})
    BY <1>4 DEF Train, SaveRefused, TextRefused, Finish, Complains, Ends, Returned
  <2> QED BY <2>1, <2>2 DEF LeakInv, Leaks
<1>5. CASE ShrinkDictionary \/ DeleteSentences \/ SaveOpen \/ SaveCell
  <2>1. lphase # "idle" /\ lphase' # "idle" /\ leaked' = leaked
    BY <1>5 DEF ShrinkDictionary, DeleteSentences, SaveOpen, SaveCell
  <2> QED BY <2>1 DEF LeakInv, Leaks
<1>6. CASE UNCHANGED learnVars
  BY <1>6 DEF learnVars, LeakInv
<1> QED BY <1>1, <1>2, <1>3, <1>4, <1>5, <1>6 DEF Next, Learning, Working, vars

(* Whatever ends crf_learn, its sentences are deleted once, or twice when  *)
(* save() refuses the path or the text, and the one that cannot be read is *)
(* lost (encoder.cpp 333-338, 354-357, 414-421).                           *)
THEOREM SentencesDeletedOnce == Spec => []DeletedOnce
PROOF
<1>1. Init => LeakInv
  BY DEF Init, LearnInit, LeakInv, Leaks, Returned
<1>2. LeakInv /\ [Next]_vars => LeakInv'
  BY LeakStep
<1>3. XInv /\ LeakInv => DeletedOnce
  BY XInvProperties
<1> QED BY <1>1, <1>2, <1>3, XAlways, PTL DEF Spec
-----------------------------------------------------------------------------
(* Induction over the places of a sequence, from the order of Nat.         *)
LEMMA Least ==
  ASSUME NEW T, T \subseteq Nat, T # {}
  PROVE  \E z \in T : \A y \in T : z <= y
<1>1. \E z \in T : \A y \in T : ~ (<<y, z>> \in OpToRel(<, Nat))
  BY WFMin, NatLessThanWellFounded
<1>2. PICK z \in T : \A y \in T : ~ (<<y, z>> \in OpToRel(<, Nat))
  BY <1>1
<1>3. \A y \in T : ~(y < z)
  BY <1>2 DEF OpToRel
<1>4. \A y \in T : y \in Int /\ z \in Int
  OBVIOUS
<1>5. \A y \in T : z <= y
  BY <1>3, <1>4
<1> QED BY <1>5

LEMMA UpTo ==
  ASSUME NEW m \in Nat, NEW T, 0 \in T, \A i \in 0..m-1 : i \in T => i + 1 \in T
  PROVE  0..m \subseteq T
<1> SUFFICES ASSUME NEW k \in 0..m, k \notin T PROVE FALSE
  OBVIOUS
<1> DEFINE U == {i \in 0..m : i \notin T}
<1>1. U \subseteq Nat /\ U # {}
  OBVIOUS
<1>2. PICK z \in U : \A y \in U : z <= y
  BY <1>1, Least
<1>3. z # 0 /\ z - 1 \in 0..m-1 /\ z - 1 + 1 = z
  BY <1>2
<1>4. z - 1 \in T
  BY <1>2, <1>3
<1> QED BY <1>2, <1>3, <1>4

(* A function of the positions given by its first value and a step exists. *)
Follows(f, m, S, b, G) ==
  f \in [0..m -> S] /\ f[0] = b /\ \A i \in 1..m : f[i] = G[i][f[i-1]]

LEMMA Recursion ==
  ASSUME NEW m \in Nat, NEW S, NEW b \in S, NEW G \in [1..m -> [S -> S]]
  PROVE  \E f : Follows(f, m, S, b, G)
<1> DEFINE Upto(k, f) == f[0] = b /\ \A i \in 1..k : f[i] = G[i][f[i-1]]
           T == {k \in Nat : k <= m => \E f \in [0..k -> S] : Upto(k, f)}
<1>1. 0 \in T
  <2>1. [i \in 0..0 |-> b] \in [0..0 -> S] /\ Upto(0, [i \in 0..0 |-> b])
    OBVIOUS
  <2> QED BY <2>1
<1>2. ASSUME NEW k \in 0..m-1, k \in T PROVE k + 1 \in T
  <2>1. PICK f \in [0..k -> S] : Upto(k, f)
    BY <1>2
  <2> DEFINE g == [i \in 0..k+1 |-> IF i = k + 1 THEN G[k+1][f[k]] ELSE f[i]]
  <2>2. f[k] \in S /\ k + 1 \in 1..m
    OBVIOUS
  <2>3. G[k+1][f[k]] \in S
    BY <2>2
  <2>4. g \in [0..k+1 -> S]
    BY <2>3
  <2>5. \A i \in 0..k : g[i] = f[i]
    OBVIOUS
  <2>6. g[0] = b
    BY <2>1, <2>5
  <2>7. ASSUME NEW i \in 1..k+1 PROVE g[i] = G[i][g[i-1]]
    <3>1. CASE i = k + 1
      <4>1. g[i-1] = f[k] /\ g[i] = G[k+1][f[k]]
        BY <2>5, <3>1
      <4> QED BY <3>1, <4>1
    <3>2. CASE i # k + 1
      <4>1. i \in 1..k /\ i \in 0..k /\ i - 1 \in 0..k
        BY <3>2
      <4>2. g[i] = f[i] /\ g[i-1] = f[i-1]
        BY <2>5, <4>1
      <4> QED BY <2>1, <4>1, <4>2
    <3> QED BY <3>1, <3>2
  <2>8. Upto(k + 1, g)
    BY <2>6, <2>7
  <2>9. \E e \in [0..k+1 -> S] : Upto(k + 1, e)
    BY <2>4, <2>8
  <2> HIDE DEF Upto, g
  <2> QED BY <2>9
<1> HIDE DEF T
<1>3. 0..m \subseteq T
  BY <1>1, <1>2, UpTo
<1>4. m \in T
  BY <1>3
<1> QED BY <1>4 DEF T, Follows
-----------------------------------------------------------------------------
(* The places of a sequence in order, and what is picked at them.          *)

Through(T, n) == {j \in T : j <= n}

LEMMA ThroughFinite ==
  ASSUME NEW N \in Nat, NEW T, T \subseteq 1 .. N, NEW n
  PROVE  /\ IsFiniteSet(Through(T, n)) /\ Cardinality(Through(T, n)) \in Nat
         /\ IsFiniteSet(T) /\ Cardinality(T) \in Nat
<1>1. IsFiniteSet(1 .. N)
  BY FS_Interval
<1>2. IsFiniteSet(T) /\ Through(T, n) \subseteq T
  BY <1>1, FS_Subset DEF Through
<1>3. IsFiniteSet(Through(T, n))
  BY <1>2, FS_Subset
<1> QED BY <1>2, <1>3, FS_CardinalityType

(* There is an n-th place when there are that many.                        *)
LEMMA NthIs ==
  ASSUME NEW N \in Nat, NEW T, T \subseteq 1 .. N, NEW k \in 1 .. Cardinality(T)
  PROVE  Nth(T, k) \in T /\ Cardinality(Through(T, Nth(T, k))) = k
<1> DEFINE W == {n \in Nat : Cardinality(Through(T, n)) >= k}
<1>1. \A n : IsFiniteSet(Through(T, n)) /\ Cardinality(Through(T, n)) \in Nat
  BY ThroughFinite
<1>2. Cardinality(T) \in Nat
  BY ThroughFinite
<1> HIDE DEF W
<1>0. \A j \in T : j \in Nat /\ 1 <= j /\ j <= N
  OBVIOUS
<1>3. Through(T, N) = T
  BY <1>0 DEF Through
<1>4. N \in W
  BY <1>2, <1>3 DEF W
<1>5. PICK n \in W : \A m \in W : n <= m
  <2>1. W \subseteq Nat /\ W # {}
    BY <1>4 DEF W
  <2> QED BY <2>1, Least
<1>6. n # 0
  <2>1. Through(T, 0) = {}
    <3>1. \A j \in T : ~(j <= 0)
      BY <1>0
    <3> QED BY <3>1 DEF Through
  <2>2. Cardinality(Through(T, 0)) = 0
    BY <2>1, FS_EmptySet
  <2> QED BY <1>2, <1>5, <2>2 DEF W
<1>7. n \in Nat /\ n - 1 \in Nat /\ n - 1 \notin W
  BY <1>5, <1>6 DEF W
<1>8. Cardinality(Through(T, n - 1)) < k /\ Cardinality(Through(T, n)) >= k
  BY <1>1, <1>2, <1>5, <1>7 DEF W
<1>9. n \in T
  <2> SUFFICES ASSUME n \notin T PROVE FALSE
    OBVIOUS
  <2>1. Through(T, n) = Through(T, n - 1)
    <3>1. \A j \in T : j <= n <=> j <= n - 1
      <4> TAKE j \in T
      <4>1. j \in Nat /\ j # n
        BY <1>0
      <4> QED BY <1>7, <4>1
    <3> QED BY <3>1 DEF Through
  <2> QED BY <1>1, <1>2, <1>8, <2>1
<1>10. Through(T, n) = Through(T, n - 1) \cup {n} /\ n \notin Through(T, n - 1)
  <2>1. \A j \in T : j <= n <=> (j <= n - 1 \/ j = n)
    <3> TAKE j \in T
    <3>1. j \in Nat
      BY <1>0
    <3> QED BY <1>7, <3>1
  <2>2. ~(n <= n - 1)
    BY <1>7
  <2> QED BY <1>9, <2>1, <2>2 DEF Through
<1>11. Cardinality(Through(T, n)) = Cardinality(Through(T, n - 1)) + 1
  BY <1>1, <1>10, FS_AddElement
<1>12. Cardinality(Through(T, n)) = k
  BY <1>1, <1>2, <1>8, <1>11
<1>13. \E i \in T : Cardinality({j \in T : j <= i}) = k
  BY <1>9, <1>12 DEF Through
<1> QED BY <1>13 DEF Nth, Through

(* The places of an interval, in order.                                    *)
LEMMA NthOfInterval ==
  ASSUME NEW a \in Nat, NEW b \in Nat
  PROVE  /\ Cardinality(a + 1 .. a + b) = b
         /\ \A k \in 1 .. b : Nth(a + 1 .. a + b, k) = a + k
<1> DEFINE T == a + 1 .. a + b
<1>1. Cardinality(T) = b
  BY FS_Interval
<1>2. ASSUME NEW k \in 1 .. b PROVE Nth(T, k) = a + k
  <2>1. T \subseteq 1 .. a + b /\ a + b \in Nat
    OBVIOUS
  <2>2. Nth(T, k) \in T /\ Cardinality(Through(T, Nth(T, k))) = k
    <3> HIDE DEF T
    <3> QED BY <1>1, <2>1, NthIs
  <2> DEFINE i == Nth(T, k)
  <2>3. i \in T /\ Cardinality(Through(T, i)) = k
    BY <2>2
  <2> HIDE DEF i
  <2>4. Through(T, i) = a + 1 .. i
    BY <2>3 DEF Through
  <2>5. Cardinality(a + 1 .. i) = i - a
    <3>1. i \in Int /\ a + 1 \in Int /\ a + 1 <= i
      BY <2>3
    <3> QED BY <3>1, FS_Interval
  <2>6. i - a = k /\ i \in Nat
    BY <2>3, <2>4, <2>5
  <2> QED BY <2>6 DEF i
<1> QED BY <1>1, <1>2

IsSeq(s) == Len(s) \in Nat /\ s = [i \in 1 .. Len(s) |-> s[i]]

LEMMA ListIsSeq ==
  ASSUME NEW s, IsSeq(s)
  PROVE  s \in Seq({s[i] : i \in 1 .. Len(s)})
<1> DEFINE n == Len(s)
           S == {s[i] : i \in 1 .. n}
<1>1. n \in Nat /\ s \in [1 .. n -> S]
  BY DEF IsSeq
<1> HIDE DEF n, S
<1>2. s \in Seq(S)
  BY <1>1
<1> QED BY <1>2 DEF S, n

LEMMA OfSeq ==
  ASSUME NEW S, NEW s \in Seq(S)
  PROVE  IsSeq(s) /\ \A i \in 1 .. Len(s) : s[i] \in S
<1>1. Len(s) \in Nat /\ s \in [1 .. Len(s) -> S]
  OBVIOUS
<1> QED BY <1>1 DEF IsSeq

(* A function of the first n places is a sequence.                         *)
LEMMA Listed ==
  ASSUME NEW n \in Nat, NEW f, DOMAIN f = 1 .. n, f = [i \in 1 .. n |-> f[i]]
  PROVE  IsSeq(f) /\ Len(f) = n
<1> DEFINE S == {f[i] : i \in 1 .. n}
<1>1. f \in [1 .. n -> S]
  OBVIOUS
<1> HIDE DEF S
<1>2. f \in Seq(S) /\ Len(f) = n
  BY <1>1
<1> QED BY <1>2, OfSeq

LEMMA PickIs ==
  ASSUME NEW N \in Nat, NEW T, T \subseteq 1 .. N, NEW s
  PROVE  IsSeq(Pick(s, T)) /\ Len(Pick(s, T)) = Cardinality(T)
<1> DEFINE n == Cardinality(T)
           p == Pick(s, T)
<1>1. n \in Nat
  BY ThroughFinite
<1>2. p = [k \in 1 .. n |-> s[Nth(T, k)]]
  BY DEF Pick
<1> HIDE DEF n, p
<1>4. DOMAIN p = 1 .. n /\ p = [k \in 1 .. n |-> p[k]]
  BY <1>2
<1>5. IsSeq(p) /\ Len(p) = n
  BY <1>1, <1>4, Listed
<1> QED BY <1>5 DEF n, p

LEMMA OfKindIs ==
  ASSUME NEW s, IsSeq(s), NEW kind
  PROVE  /\ IsSeq(OfKind(s, kind))
         /\ \A k \in 1 .. Len(OfKind(s, kind)) : OfKind(s, kind)[k].kind = kind
<1> DEFINE T == {i \in 1 .. Len(s) : s[i].kind = kind}
<1>1. Len(s) \in Nat /\ T \subseteq 1 .. Len(s)
  BY DEF IsSeq
<1>2. \A i \in T : s[i].kind = kind
  OBVIOUS
<1>3. OfKind(s, kind) = Pick(s, T)
  BY DEF OfKind
<1> HIDE DEF T
<1>4. PICK N \in Nat : T \subseteq 1 .. N
  BY <1>1
<1>5. IsSeq(Pick(s, T)) /\ Len(Pick(s, T)) = Cardinality(T)
  BY <1>4, PickIs
<1>6. ASSUME NEW k \in 1 .. Cardinality(T)
      PROVE  Pick(s, T)[k].kind = kind
  <2>1. Nth(T, k) \in T
    BY <1>4, NthIs
  <2>2. Pick(s, T)[k] = s[Nth(T, k)]
    BY DEF Pick
  <2> QED BY <1>2, <2>1, <2>2
<1> QED BY <1>3, <1>5, <1>6
-----------------------------------------------------------------------------
(* A model as save() and convert() know it: templates lie with their kind, *)
(* and no line but the header's bears the number of weights.               *)

HeadOK(l) == l.kind = "head" /\ l.name = "maxid" => l.value \in Nat

ModelOK(m) ==
  /\ m = [y |-> m.y, uni |-> m.uni, bi |-> m.bi, dic |-> m.dic,
          maxid |-> m.maxid, xsize |-> m.xsize, alpha |-> m.alpha]
  /\ IsModel(m)
  /\ \A i \in 1 .. Len(m.y) : HeadOK(m.y[i])
  /\ \A i \in 1 .. Len(m.uni) : m.uni[i].kind = "U"
  /\ \A i \in 1 .. Len(m.bi) : m.bi[i].kind = "B"
  /\ \A i \in 1 .. Len(m.dic) : m.dic[i].kind = "key"

(* Where the templates are among the NULs.                                 *)
LEMMA PaddedIs ==
  ASSUME NEW m, IsModel(m)
  PROVE  LET a == Len(m.uni)
             b == Len(m.bi)
             p == Padded(m)
         IN  /\ a \in Nat /\ b \in Nat /\ Len(p) \in Nat /\ a + b <= Len(p)
             /\ IsSeq(p)
             /\ \A i \in 1 .. a : p[i] = m.uni[i]
             /\ \A i \in 1 .. b : p[a + i] = m.bi[i]
             /\ \A i \in a + b + 1 .. Len(p) : p[i] = Nul
<1>1. PICK S : m.y \in Seq(S) /\ m.uni \in Seq(S) /\ m.bi \in Seq(S) /\ m.dic \in Seq(S)
  BY DEF IsModel
<1> DEFINE U == m.uni
           B == m.bi
           t == U \o B
           n == Len(m.y) + Len(t)
           k == (4 - (n % 4)) % 4
           pad == [i \in 1 .. k |-> Nul]
           R == S \cup {Nul}
           p == t \o pad
<1>2. U \in Seq(R) /\ B \in Seq(R) /\ Len(m.y) \in Nat
  BY <1>1
<1>3. p = Padded(m)
  BY DEF Padded
<1> HIDE DEF U, B
<1>4. /\ t \in Seq(R) /\ Len(t) = Len(U) + Len(B)
      /\ \A i \in 1 .. Len(U) : t[i] = U[i]
      /\ \A i \in 1 .. Len(B) : t[Len(U) + i] = B[i]
      /\ Len(U) \in Nat /\ Len(B) \in Nat
  <2> HIDE DEF R
  <2> QED BY <1>2, Concat
<1> HIDE DEF t
<1>5. k \in Nat
  <2>1. n \in Nat
    <3> HIDE DEF R
    <3>1. Len(t) \in Nat
      BY <1>4
    <3> QED BY <1>2, <3>1
  <2> HIDE DEF n
  <2>2. n % 4 \in 0 .. 3
    BY <2>1
  <2>3. \A j \in 0 .. 3 : (4 - j) % 4 \in Nat
    OBVIOUS
  <2> QED BY <2>2, <2>3
<1> HIDE DEF k
<1>6. pad \in Seq(R) /\ Len(pad) = k /\ \A i \in 1 .. k : pad[i] = Nul
  BY <1>5
<1> HIDE DEF pad, R
<1>7. /\ p \in Seq(R) /\ Len(p) = Len(t) + k
      /\ \A i \in 1 .. Len(t) : p[i] = t[i]
      /\ \A i \in 1 .. k : p[Len(t) + i] = Nul
  <2>1. p = t \o pad
    OBVIOUS
  <2> HIDE DEF p
  <2>2. /\ p \in Seq(R) /\ Len(p) = Len(t) + Len(pad)
        /\ \A i \in 1 .. Len(t) : p[i] = t[i]
        /\ \A i \in 1 .. Len(pad) : p[Len(t) + i] = pad[i]
    <3>1. t \in Seq(R) /\ pad \in Seq(R) /\ p = t \o pad
      BY <1>4, <1>6, <2>1
    <3> QED BY <3>1, Concat
  <2> QED BY <1>6, <2>2
<1> HIDE DEF p
<1>8. IsSeq(p)
  BY <1>7, OfSeq
<1>9. \A i \in 1 .. Len(U) : p[i] = U[i]
  BY <1>4, <1>7
<1>10. \A i \in 1 .. Len(B) : p[Len(U) + i] = B[i]
  BY <1>4, <1>7
<1>11. ASSUME NEW i \in Len(U) + Len(B) + 1 .. Len(p) PROVE p[i] = Nul
  <2>1. i - Len(t) \in 1 .. k /\ Len(t) + (i - Len(t)) = i
    BY <1>4, <1>5, <1>7
  <2> QED BY <1>7, <2>1
<1>12. Len(p) \in Nat /\ Len(U) + Len(B) <= Len(p)
  BY <1>4, <1>5, <1>7
<1> QED BY <1>3, <1>4, <1>8, <1>9, <1>10, <1>11, <1>12 DEF U, B

(* The templates are told apart again by their first letter.               *)
LEMMA KindsBack ==
  ASSUME NEW m, ModelOK(m)
  PROVE  OfKind(Padded(m), "U") = m.uni /\ OfKind(Padded(m), "B") = m.bi
<1> DEFINE a == Len(m.uni)
           b == Len(m.bi)
           p == Padded(m)
<1>1. /\ IsModel(m)
      /\ \A i \in 1 .. a : m.uni[i].kind = "U"
      /\ \A i \in 1 .. b : m.bi[i].kind = "B"
  BY DEF ModelOK
<1>2. PICK S : m.uni \in Seq(S) /\ m.bi \in Seq(S)
  BY <1>1 DEF IsModel
<1>3. m.uni = [i \in 1 .. a |-> m.uni[i]] /\ m.bi = [i \in 1 .. b |-> m.bi[i]]
  BY <1>2
<1>4. /\ a \in Nat /\ b \in Nat /\ Len(p) \in Nat /\ a + b <= Len(p)
      /\ \A i \in 1 .. a : p[i] = m.uni[i]
      /\ \A i \in 1 .. b : p[a + i] = m.bi[i]
      /\ \A i \in a + b + 1 .. Len(p) : p[i] = Nul
  BY <1>1, PaddedIs
<1> HIDE DEF a, b, p
<1>5. \A i \in 1 .. a : p[i].kind = "U"
  BY <1>1, <1>4
<1>6. ASSUME NEW i \in a + 1 .. a + b PROVE p[i].kind = "B"
  <2>1. i - a \in 1 .. b /\ a + (i - a) = i
    BY <1>4
  <2> QED BY <1>1, <1>4, <2>1
<1>7. \A i \in a + b + 1 .. Len(p) : p[i].kind = "nul"
  BY <1>4 DEF Nul
<1>8. ASSUME NEW i \in 1 .. Len(p)
      PROVE  \/ i \in 1 .. a \/ i \in a + 1 .. a + b \/ i \in a + b + 1 .. Len(p)
  BY <1>4
<1>9. {i \in 1 .. Len(p) : p[i].kind = "U"} = 0 + 1 .. 0 + a
  <2>1. ASSUME NEW i \in 1 .. Len(p) PROVE p[i].kind = "U" <=> i \in 1 .. a
    BY <1>5, <1>6, <1>7, <1>8
  <2>2. 1 .. a \subseteq 1 .. Len(p)
    BY <1>4
  <2>3. {i \in 1 .. Len(p) : p[i].kind = "U"} = 1 .. a
    BY <2>1, <2>2
  <2>4. 0 + 1 .. 0 + a = 1 .. a
    BY <1>4
  <2> QED BY <2>3, <2>4
<1>10. {i \in 1 .. Len(p) : p[i].kind = "B"} = a + 1 .. a + b
  <2>1. ASSUME NEW i \in 1 .. Len(p) PROVE p[i].kind = "B" <=> i \in a + 1 .. a + b
    BY <1>5, <1>6, <1>7, <1>8
  <2>2. a + 1 .. a + b \subseteq 1 .. Len(p)
    BY <1>4
  <2> QED BY <2>1, <2>2
<1>11. OfKind(p, "U") = [k \in 1 .. a |-> p[0 + k]]
  <2>1. Pick(p, 0 + 1 .. 0 + a) = [k \in 1 .. a |-> p[0 + k]]
    <3>1. PICK z \in Nat : z = 0
      OBVIOUS
    <3>2. /\ Cardinality(z + 1 .. z + a) = a
          /\ \A k \in 1 .. a : Nth(z + 1 .. z + a, k) = z + k
      BY <1>4, NthOfInterval
    <3>3. Pick(p, z + 1 .. z + a) = [k \in 1 .. a |-> p[z + k]]
      BY <3>2 DEF Pick
    <3> QED BY <3>1, <3>3
  <2> QED BY <1>9, <2>1 DEF OfKind
<1>12. OfKind(p, "B") = [k \in 1 .. b |-> p[a + k]]
  <2>1. Pick(p, a + 1 .. a + b) = [k \in 1 .. b |-> p[a + k]]
    <3>1. /\ Cardinality(a + 1 .. a + b) = b
          /\ \A k \in 1 .. b : Nth(a + 1 .. a + b, k) = a + k
      BY <1>4, NthOfInterval
    <3> QED BY <3>1 DEF Pick
  <2> QED BY <1>10, <2>1 DEF OfKind
<1>13. [k \in 1 .. a |-> p[0 + k]] = m.uni
  <2>1. \A k \in 1 .. a : p[0 + k] = m.uni[k]
    BY <1>4
  <2> QED BY <1>3, <2>1
<1>14. [k \in 1 .. b |-> p[a + k]] = m.bi
  BY <1>3, <1>4
<1> QED BY <1>11, <1>12, <1>13, <1>14 DEF p

(* What crf_test makes of a file written whole is the model saved, with    *)
(* its weights as floats (feature_index.cpp 192-252, 403-501).             *)
THEOREM ModelReadBack ==
  ASSUME NEW m, ModelOK(m), NEW junk
  PROVE  Index(Binary(m), junk) = Stored(m)
<1> DEFINE f == Binary(m)
           ny == Len(m.y)
           nt == Len(Padded(m))
           nd == Len(m.dic)
           r == Index(f, junk)
<1>0. IsModel(m)
  BY DEF ModelOK
<1>1. /\ ny \in Nat /\ nt \in Nat /\ nd \in Nat /\ m.maxid \in Nat
      /\ Len(f) = 8 + ny + nt + nd + m.maxid
      /\ f[7] = ny /\ f[8 + ny] = nt
      /\ \A i \in 1 .. nt : f[8 + ny + i] = Padded(m)[i]
  BY <1>0, Layout
<1>2. /\ r.y = m.y /\ r.dic = m.dic /\ r.alpha = Weights(m)
      /\ r.maxid = m.maxid /\ r.xsize = m.xsize
  BY <1>0, WholeReadBack
<1>3. Padded(m) = [i \in 1 .. nt |-> Padded(m)[i]]
  BY <1>0, PaddedIs DEF IsSeq
<1> HIDE DEF f, ny, nt, nd
<1>4. \A i \in 1 .. Len(f) : At(f, i, junk) = f[i]
  BY <1>1 DEF At
<1>5. At(f, 7, junk) = ny /\ At(f, 8 + ny, junk) = nt
  BY <1>1, <1>4
<1>6. TemplatesFrom(f, junk) = 8 + ny
  BY <1>1, <1>5 DEF TemplatesFrom, TagsFrom
<1>7. Region(f, 8 + ny, nt, junk) = Padded(m)
  <2>1. \A i \in 1 .. nt : At(f, 8 + ny + i, junk) = Padded(m)[i]
    BY <1>1, <1>4
  <2> QED BY <2>1, <1>3 DEF Region
<1>8. r.uni = m.uni /\ r.bi = m.bi
  <2>1. r.uni = OfKind(Padded(m), "U") /\ r.bi = OfKind(Padded(m), "B")
    BY <1>5, <1>6, <1>7 DEF Index
  <2> QED BY <2>1, KindsBack
<1>9. r = [y |-> r.y, uni |-> r.uni, bi |-> r.bi, dic |-> r.dic, maxid |-> r.maxid,
           xsize |-> r.xsize, alpha |-> r.alpha]
  BY DEF Index
<1> HIDE DEF r
<1>10. m = [y |-> m.y, uni |-> m.uni, bi |-> m.bi, dic |-> m.dic,
            maxid |-> m.maxid, xsize |-> m.xsize, alpha |-> m.alpha]
  BY DEF ModelOK
<1>11. Stored(m) = [y |-> m.y, uni |-> m.uni, bi |-> m.bi, dic |-> m.dic,
                    maxid |-> m.maxid, xsize |-> m.xsize, alpha |-> Weights(m)]
  BY <1>10 DEF Stored
<1> QED BY <1>2, <1>8, <1>9, <1>11 DEF r, f
-----------------------------------------------------------------------------
(* The index of crf_learn, from which a model is saved.                    *)

IndexOK(ix) ==
  /\ ix = [y |-> ix.y, uni |-> ix.uni, bi |-> ix.bi, dic |-> ix.dic, maxid |-> ix.maxid,
           xsize |-> ix.xsize, maxx |-> ix.maxx, alpha |-> ix.alpha]
  /\ IsSeq(ix.y) /\ IsSeq(ix.uni) /\ IsSeq(ix.bi)
  /\ \A i \in 1 .. Len(ix.y) : HeadOK(ix.y[i])
  /\ \A i \in 1 .. Len(ix.uni) : ix.uni[i].kind = "U"
  /\ \A i \in 1 .. Len(ix.bi) : ix.bi[i].kind = "B"
  /\ IsFiniteSet(ix.dic) /\ ix.maxid \in Nat

LEMMA ImageFinite ==
  ASSUME NEW S, IsFiniteSet(S), NEW f, DOMAIN f = S, f = [a \in S |-> f[a]]
  PROVE  IsFiniteSet({f[a] : a \in S})
<1> DEFINE T == {f[a] : a \in S}
<1>1. f \in [S -> T] /\ \A t \in T : \E a \in S : f[a] = t
  OBVIOUS
<1> HIDE DEF T
<1>2. f \in Surjection(S, T)
  BY <1>1 DEF Surjection
<1>3. IsFiniteSet(T)
  BY <1>2, FS_Surjection
<1> QED BY <1>3 DEF T

LEMMA EmptyIsSeq ==
  ASSUME NEW s, s = <<>>
  PROVE  IsSeq(s) /\ Len(s) = 0
<1>1. s \in Seq({}) /\ Len(s) = 0
  OBVIOUS
<1> QED BY <1>1, OfSeq

LEMMA NoIndexOK == IndexOK(NoIndex)
<1> DEFINE ix == NoIndex
<1>1. ix = [y |-> ix.y, uni |-> ix.uni, bi |-> ix.bi, dic |-> ix.dic, maxid |-> ix.maxid,
           xsize |-> ix.xsize, maxx |-> ix.maxx, alpha |-> ix.alpha]
  BY DEF NoIndex
<1>2. /\ ix.y = <<>> /\ ix.uni = <<>> /\ ix.bi = <<>> /\ ix.dic = {} /\ ix.maxid = 0
  BY DEF NoIndex
<1> HIDE DEF ix
<1>3. IsFiniteSet(ix.dic) /\ ix.maxid \in Nat
  BY <1>2, FS_EmptySet
<1>4. /\ IsSeq(ix.y) /\ IsSeq(ix.uni) /\ IsSeq(ix.bi)
      /\ Len(ix.y) = 0 /\ Len(ix.uni) = 0 /\ Len(ix.bi) = 0
  <2>1. IsSeq(ix.y) /\ Len(ix.y) = 0
    BY <1>2, EmptyIsSeq
  <2>2. IsSeq(ix.uni) /\ Len(ix.uni) = 0
    BY <1>2, EmptyIsSeq
  <2>3. IsSeq(ix.bi) /\ Len(ix.bi) = 0
    BY <1>2, EmptyIsSeq
  <2> QED BY <2>1, <2>2, <2>3
<1>5. 1 .. 0 = {}
  OBVIOUS
<1>6. IndexOK(ix)
  BY <1>1, <1>3, <1>4, <1>5 DEF IndexOK
<1> QED BY <1>6 DEF ix

(* What training puts into the index beside its dictionary and numbers     *)
(* does not matter.                                                        *)
LEMMA OtherFields ==
  ASSUME NEW ix, IndexOK(ix), NEW d, IsFiniteSet(d), NEW n \in Nat, NEW c, NEW w,
         NEW new, new = [y |-> ix.y, uni |-> ix.uni, bi |-> ix.bi, dic |-> d, maxid |-> n,
                         xsize |-> ix.xsize, maxx |-> c, alpha |-> w]
  PROVE  IndexOK(new)
<1>1. /\ new.y = ix.y /\ new.uni = ix.uni /\ new.bi = ix.bi /\ new.dic = d
      /\ new.maxid = n /\ new.xsize = ix.xsize /\ new.maxx = c /\ new.alpha = w
  OBVIOUS
<1>2. new = [y |-> new.y, uni |-> new.uni, bi |-> new.bi, dic |-> new.dic,
             maxid |-> new.maxid, xsize |-> new.xsize, maxx |-> new.maxx,
             alpha |-> new.alpha]
  BY <1>1
<1> QED BY <1>1, <1>2 DEF IndexOK

LEMMA SizeType ==
  ASSUME NEW ix, IndexOK(ix), NEW key
  PROVE  Size(ix, key) \in Nat
<1>1. Len(ix.y) \in Nat
  BY DEF IndexOK, IsSeq
<1>2. Len(ix.y) * Len(ix.y) \in Nat
  <2> DEFINE n == Len(ix.y)
  <2> HIDE DEF n
  <2>1. n \in Nat => n * n \in Nat
    OBVIOUS
  <2> QED BY <1>1, <2>1 DEF n
<1> QED BY <1>1, <1>2 DEF Size

(* Filing a feature leaves the tags, the templates and the columns as they *)
(* are, and the columns that a model needs a number.                       *)
Stays(ix, new) ==
  /\ IndexOK(new)
  /\ new.y = ix.y /\ new.xsize = ix.xsize /\ new.uni = ix.uni /\ new.bi = ix.bi

Columned(ix) ==
  /\ ix.xsize \in Nat /\ ix.maxx \in Nat
  /\ \A i \in 1 .. Len(ix.uni) : ix.uni[i].col \in Int
  /\ \A i \in 1 .. Len(ix.bi) : ix.bi[i].col \in Int

LEMMA MeetOK ==
  ASSUME NEW ix, IndexOK(ix), NEW key, NEW n
  PROVE  /\ Stays(ix, Meet(ix, key, n))
         /\ Columned(ix) /\ key.col \in Int => Columned(Meet(ix, key, n))
<1> DEFINE known == {e \in ix.dic : e.key = key}
           wide  == IF key.col + 1 > ix.maxx THEN key.col + 1 ELSE ix.maxx
           more  == [e \in known |-> [e EXCEPT !.freq = @ + n]]
           again == {[e EXCEPT !.freq = @ + n] : e \in known}
           entry == [key |-> key, id |-> ix.maxid, freq |-> n]
<1>1. ix = [y |-> ix.y, uni |-> ix.uni, bi |-> ix.bi, dic |-> ix.dic, maxid |-> ix.maxid,
            xsize |-> ix.xsize, maxx |-> ix.maxx, alpha |-> ix.alpha]
      /\ IsFiniteSet(ix.dic) /\ ix.maxid \in Nat
  BY DEF IndexOK
<1>2. IsFiniteSet(known) /\ IsFiniteSet(ix.dic \ known)
  BY <1>1, FS_Subset
<1>3. IsFiniteSet(again)
  <2>1. again = {more[e] : e \in known}
    OBVIOUS
  <2>2. DOMAIN more = known /\ more = [e \in known |-> more[e]]
    OBVIOUS
  <2> HIDE DEF more, again, known
  <2> QED BY <1>2, <2>1, <2>2, ImageFinite
<1>4. CASE known # {}
  <2> DEFINE new == [ix EXCEPT !.dic = (@ \ known) \cup again]
  <2>1. Meet(ix, key, n) = new
    BY <1>4 DEF Meet
  <2> HIDE DEF known, again
  <2>2. new = [y |-> ix.y, uni |-> ix.uni, bi |-> ix.bi,
               dic |-> (ix.dic \ known) \cup again, maxid |-> ix.maxid,
               xsize |-> ix.xsize, maxx |-> ix.maxx, alpha |-> ix.alpha]
    BY <1>1
  <2>3. IsFiniteSet((ix.dic \ known) \cup again)
    BY <1>2, <1>3, FS_Union
  <2> HIDE DEF new
  <2>4. IndexOK(new)
    BY <1>1, <2>2, <2>3, OtherFields
  <2>5. /\ new.y = ix.y /\ new.xsize = ix.xsize /\ new.maxx = ix.maxx
        /\ new.uni = ix.uni /\ new.bi = ix.bi
    BY <2>2
  <2>6. Columned(ix) => Columned(new)
    BY <2>5 DEF Columned
  <2> QED BY <2>1, <2>4, <2>5, <2>6 DEF Stays
<1>5. CASE known = {}
  <2> DEFINE size == Size(ix, key)
             count == ix.maxid + size
             more2 == ix.dic \cup {entry}
             new == [ix EXCEPT !.dic = more2, !.maxid = count, !.maxx = wide]
  <2>1. Meet(ix, key, n) = new
    BY <1>5 DEF Meet
  <2>2. size \in Nat
    BY SizeType
  <2>4. IsFiniteSet(more2)
    BY <1>1, FS_AddElement
  <2>5. count \in Nat
    BY <1>1, <2>2
  <2>8. Columned(ix) /\ key.col \in Int => wide \in Nat
    BY DEF Columned
  <2> HIDE DEF known, size, wide, entry, count, more2
  <2>3. new = [y |-> ix.y, uni |-> ix.uni, bi |-> ix.bi,
               dic |-> more2, maxid |-> count,
               xsize |-> ix.xsize, maxx |-> wide, alpha |-> ix.alpha]
    <3>1. DOMAIN new = DOMAIN ix /\ new = [f \in DOMAIN new |-> new[f]]
      BY <1>1
    <3>2. new.dic = more2 /\ new.maxid = count /\ new.maxx = wide
      BY <1>1
    <3>3. /\ new.y = ix.y /\ new.uni = ix.uni /\ new.bi = ix.bi
          /\ new.xsize = ix.xsize /\ new.alpha = ix.alpha
      BY <1>1
    <3> HIDE DEF new
    <3> QED BY <1>1, <3>1, <3>2, <3>3
  <2> HIDE DEF new
  <2>6. IndexOK(new)
    BY <2>3, <2>4, <2>5, OtherFields
  <2>7. /\ new.y = ix.y /\ new.xsize = ix.xsize /\ new.maxx = wide
        /\ new.uni = ix.uni /\ new.bi = ix.bi
    BY <2>3
  <2>9. Columned(ix) /\ key.col \in Int => Columned(new)
    BY <2>7, <2>8 DEF Columned
  <2> QED BY <2>1, <2>6, <2>7, <2>9 DEF Stays
<1> QED BY <1>4, <1>5

(* The index after each of the templates of one position.                  *)
LEMMA BuildOK ==
  ASSUME NEW ix, IndexOK(ix), NEW n
  PROVE  /\ Stays(ix, BuildFeatures(ix, n))
         /\ Columned(ix) => Columned(BuildFeatures(ix, n))
<1> DEFINE t == Expanded(ix, n)
           m == Len(t)
           times(k) == IF t[k].kind = "U" THEN n ELSE n - 1
           Upto(k, f) == /\ DOMAIN f = 0 .. k /\ f = [i \in 0 .. k |-> f[i]]
                         /\ f[0] = ix
                         /\ \A i \in 1 .. k : f[i] = Meet(f[i - 1], t[i], times(i))
           T == {k \in Nat : k <= m => \E f : Upto(k, f)}
<1>1. m \in Nat /\ (Columned(ix) => \A i \in 1 .. m : t[i].col \in Int)
  <2>1. IsSeq(ix.uni) /\ IsSeq(ix.bi)
    BY DEF IndexOK
  <2> DEFINE R == {ix.uni[i] : i \in 1 .. Len(ix.uni)} \cup {ix.bi[i] : i \in 1 .. Len(ix.bi)}
             a == IF n >= 1 THEN ix.uni ELSE <<>>
             b == IF n >= 2 THEN ix.bi ELSE <<>>
  <2>2. ix.uni \in Seq(R) /\ ix.bi \in Seq(R) /\ <<>> \in Seq(R)
    <3>1. /\ ix.uni \in Seq({ix.uni[i] : i \in 1 .. Len(ix.uni)})
          /\ ix.bi \in Seq({ix.bi[i] : i \in 1 .. Len(ix.bi)})
      BY <2>1, ListIsSeq
    <3> QED BY <3>1
  <2>5. Columned(ix) => \A l \in R : l.col \in Int
    BY DEF Columned
  <2> HIDE DEF R
  <2>3. a \in Seq(R) /\ b \in Seq(R)
    BY <2>2
  <2>4. t = a \o b
    BY DEF Expanded
  <2> HIDE DEF a, b, t
  <2>6. t \in Seq(R)
    BY <2>3, <2>4
  <2>7. m \in Nat /\ \A i \in 1 .. m : t[i] \in R
    BY <2>6, OfSeq DEF IsSeq
  <2> QED BY <2>5, <2>7
<1> HIDE DEF t, m, times
<1>2. 0 \in T
  <2> DEFINE f == [i \in 0 .. 0 |-> ix]
  <2>1. DOMAIN f = 0 .. 0 /\ f = [i \in 0 .. 0 |-> f[i]] /\ f[0] = ix
    OBVIOUS
  <2> HIDE DEF f
  <2>2. Upto(0, f)
    BY <2>1
  <2> QED BY <2>2
<1>3. ASSUME NEW k \in 0 .. m - 1, k \in T PROVE k + 1 \in T
  <2>1. PICK f : Upto(k, f)
    BY <1>1, <1>3
  <2> DEFINE g == [i \in 0 .. k + 1 |->
                     IF i = k + 1 THEN Meet(f[k], t[k + 1], times(k + 1)) ELSE f[i]]
  <2>2. DOMAIN g = 0 .. k + 1 /\ g = [i \in 0 .. k + 1 |-> g[i]]
    OBVIOUS
  <2>3. \A i \in 0 .. k : g[i] = f[i]
    BY <1>1
  <2>4. g[k + 1] = Meet(f[k], t[k + 1], times(k + 1))
    BY <1>1
  <2> HIDE DEF g
  <2>5. g[0] = ix
    BY <1>1, <2>1, <2>3
  <2>6. ASSUME NEW i \in 1 .. k + 1 PROVE g[i] = Meet(g[i - 1], t[i], times(i))
    <3>1. CASE i = k + 1
      <4>1. i - 1 = k /\ k \in 0 .. k
        BY <1>1, <3>1
      <4>2. g[k] = f[k]
        BY <2>3, <4>1
      <4> QED BY <2>4, <3>1, <4>1, <4>2
    <3>2. CASE i # k + 1
      <4>1. i \in 1 .. k /\ i \in 0 .. k /\ i - 1 \in 0 .. k
        BY <1>1, <3>2
      <4>2. g[i] = f[i] /\ g[i - 1] = f[i - 1]
        BY <2>3, <4>1
      <4> QED BY <2>1, <4>1, <4>2
    <3> QED BY <3>1, <3>2
  <2>7. Upto(k + 1, g)
    BY <2>2, <2>5, <2>6
  <2> HIDE DEF Upto
  <2> QED BY <2>7
<1> HIDE DEF T
<1>4. 0 .. m \subseteq T
  BY <1>1, <1>2, <1>3, UpTo
<1>5. PICK f : Upto(m, f)
  <2>1. m \in T
    BY <1>1, <1>4
  <2> HIDE DEF Upto
  <2> QED BY <1>1, <2>1 DEF T
<1> DEFINE Turn(g, i) == IF i = 0 THEN ix ELSE Meet(g[i - 1], t[i], times(i))
           met[i \in 0 .. m] == Turn(met, i)
<1>6. f = [i \in 0 .. m |-> Turn(f, i)]
  <2>1. \A i \in 0 .. m : f[i] = Turn(f, i)
    <3> TAKE i \in 0 .. m
    <3>1. CASE i = 0
      BY <1>5, <3>1
    <3>2. CASE i # 0
      <4>1. i \in 1 .. m
        BY <1>1, <3>2
      <4> QED BY <1>5, <3>2, <4>1
    <3> QED BY <3>1, <3>2
  <2> HIDE DEF Turn
  <2> QED BY <1>5, <2>1
<1>7. met = [i \in 0 .. m |-> Turn(met, i)]
  <2> HIDE DEF Turn
  <2> QED BY <1>6
<1>8. BuildFeatures(ix, n) = met[m]
  BY DEF BuildFeatures, t, m, times
<1> HIDE DEF met
<1>9. \A i \in 0 .. m : Stays(ix, met[i]) /\ (Columned(ix) => Columned(met[i]))
  <2> DEFINE V == {i \in 0 .. m : Stays(ix, met[i]) /\ (Columned(ix) => Columned(met[i]))}
  <2>1. 0 \in V
    BY <1>1, <1>7 DEF Stays
  <2>2. ASSUME NEW i \in 0 .. m - 1, i \in V PROVE i + 1 \in V
    <3>1. i + 1 \in 0 .. m /\ i + 1 # 0 /\ i + 1 - 1 = i
      BY <1>1
    <3> DEFINE j == i + 1
    <3> HIDE DEF j
    <3>2. j \in 0 .. m /\ j \in 1 .. m /\ j # 0 /\ j - 1 = i
      BY <1>1, <3>1 DEF j
    <3>3. met[j] = Meet(met[i], t[j], times(j))
      BY <1>7, <3>2
    <3>4. Stays(ix, met[j])
      <4>1. Stays(ix, met[i])
        BY <2>2
      <4>2. Stays(met[i], met[j])
        BY <3>3, <4>1, MeetOK DEF Stays
      <4> QED BY <4>1, <4>2 DEF Stays
    <3>5. Columned(ix) => Columned(met[j])
      <4>1. IndexOK(met[i]) /\ (Columned(ix) => Columned(met[i]))
        BY <2>2 DEF Stays
      <4>2. Columned(ix) => t[j].col \in Int
        BY <1>1, <3>2
      <4> QED BY <3>3, <4>1, <4>2, MeetOK
    <3> QED BY <3>1, <3>4, <3>5 DEF j
  <2> HIDE DEF V
  <2>3. 0 .. m \subseteq V
    BY <1>1, <2>1, <2>2, UpTo
  <2> QED BY <2>3 DEF V
<1>10. Stays(ix, met[m]) /\ (Columned(ix) => Columned(met[m]))
  BY <1>1, <1>9
<1> QED BY <1>8, <1>10

LEMMA InOrderIs ==
  ASSUME NEW d, IsFiniteSet(d)
  PROVE  IsSeq(InOrder(d)) /\ Len(InOrder(d)) = Cardinality(d) /\ Cardinality(d) \in Nat
<1> DEFINE f == InOrder(d)
           n == Cardinality(d)
<1>1. n \in Nat
  BY FS_CardinalityType
<1>2. DOMAIN f = 1 .. n /\ f = [i \in 1 .. n |-> f[i]]
  BY DEF InOrder
<1> HIDE DEF f, n
<1>3. IsSeq(f) /\ Len(f) = n
  BY <1>1, <1>2, Listed
<1> QED BY <1>1, <1>3 DEF f, n

LEMMA ShrinkOK ==
  ASSUME NEW ix, IndexOK(ix), NEW freq
  PROVE  IndexOK(Shrink(ix, freq))
<1> DEFINE some == {e \in ix.dic : e.freq >= freq}
           kept == InOrder(some)
           m == Len(kept)
           G == [i \in 1 .. m |-> [n \in Nat |-> n + Size(ix, kept[i].key)]]
           start[i \in 0 .. m] == IF i = 0 THEN 0 ELSE start[i - 1] + Size(ix, kept[i].key)
           left == [i \in 1 .. m |-> [kept[i] EXCEPT !.id = start[i - 1]]]
           d == {[kept[i] EXCEPT !.id = start[i - 1]] : i \in 1 .. m}
           new == [ix EXCEPT !.dic = d, !.maxid = start[m]]
<1>1. ix = [y |-> ix.y, uni |-> ix.uni, bi |-> ix.bi, dic |-> ix.dic, maxid |-> ix.maxid,
            xsize |-> ix.xsize, maxx |-> ix.maxx, alpha |-> ix.alpha]
      /\ IsFiniteSet(ix.dic)
  BY DEF IndexOK
<1>2. IsFiniteSet(some)
  BY <1>1, FS_Subset
<1>3. CASE freq <= 1
  BY <1>3 DEF Shrink
<1>4. CASE ~(freq <= 1)
  <2>1. Shrink(ix, freq) = new
    BY <1>4 DEF Shrink
  <2>2. m \in Nat
    <3> HIDE DEF some
    <3> QED BY <1>2, InOrderIs
  <2> HIDE DEF some, kept, m
  <2>3. \A i \in 1 .. m : Size(ix, kept[i].key) \in Nat
    BY SizeType
  <2>4. G \in [1 .. m -> [Nat -> Nat]] /\ \A i \in 1 .. m, n \in Nat :
          G[i][n] = n + Size(ix, kept[i].key)
    <3>1. ASSUME NEW i \in 1 .. m PROVE G[i] \in [Nat -> Nat]
      <4>1. \A n \in Nat : n + Size(ix, kept[i].key) \in Nat
        BY <2>3
      <4> QED BY <4>1
    <3> QED BY <3>1
  <2> HIDE DEF G
  <2>5. PICK f : Follows(f, m, Nat, 0, G)
    <3>1. 0 \in Nat
      OBVIOUS
    <3> QED BY <2>2, <2>4, <3>1, Recursion
  <2>6. f = [i \in 0 .. m |-> IF i = 0 THEN 0 ELSE f[i - 1] + Size(ix, kept[i].key)]
    <3>1. /\ f \in [0 .. m -> Nat] /\ f[0] = 0
          /\ \A i \in 1 .. m : f[i] = G[i][f[i - 1]]
      BY <2>5 DEF Follows
    <3>2. ASSUME NEW i \in 0 .. m
          PROVE  f[i] = IF i = 0 THEN 0 ELSE f[i - 1] + Size(ix, kept[i].key)
      <4>1. CASE i = 0
        BY <3>1, <4>1
      <4>2. CASE i # 0
        <5>1. i \in 1 .. m /\ i - 1 \in 0 .. m
          BY <2>2, <4>2
        <5>2. f[i - 1] \in Nat
          BY <3>1, <5>1
        <5> QED BY <2>4, <3>1, <4>2, <5>1, <5>2
      <4> QED BY <4>1, <4>2
    <3> QED BY <3>1, <3>2
  <2>7. start = [i \in 0 .. m |-> IF i = 0 THEN 0 ELSE start[i - 1] + Size(ix, kept[i].key)]
    BY <2>6
  <2>8. start[m] \in Nat
    <3> HIDE DEF start
    <3> DEFINE V == {i \in 0 .. m : start[i] \in Nat}
    <3>1. 0 \in V
      BY <2>2, <2>7
    <3>2. ASSUME NEW i \in 0 .. m - 1, i \in V PROVE i + 1 \in V
      <4> DEFINE j == i + 1
      <4>1. j \in 0 .. m /\ j \in 1 .. m /\ j # 0 /\ j - 1 = i
        BY <2>2
      <4> HIDE DEF j
      <4>2. start[j] = start[i] + Size(ix, kept[j].key)
        BY <2>7, <4>1
      <4>3. start[j] \in Nat
        BY <2>3, <3>2, <4>1, <4>2
      <4> QED BY <4>1, <4>3 DEF j
    <3> HIDE DEF V
    <3>3. 0 .. m \subseteq V
      BY <2>2, <3>1, <3>2, UpTo
    <3>4. m \in V
      BY <2>2, <3>3
    <3> QED BY <3>4 DEF V
  <2> HIDE DEF start
  <2>9. IsFiniteSet(d)
    <3>1. IsFiniteSet(1 .. m)
      BY <2>2, FS_Interval
    <3>2. DOMAIN left = 1 .. m /\ left = [i \in 1 .. m |-> left[i]]
      OBVIOUS
    <3>3. d = {left[i] : i \in 1 .. m}
      OBVIOUS
    <3> HIDE DEF left, d
    <3> QED BY <3>1, <3>2, <3>3, ImageFinite
  <2> HIDE DEF d
  <2>10. new = [y |-> ix.y, uni |-> ix.uni, bi |-> ix.bi, dic |-> d, maxid |-> start[m],
                xsize |-> ix.xsize, maxx |-> ix.maxx, alpha |-> ix.alpha]
    <3>1. DOMAIN new = DOMAIN ix /\ new = [f1 \in DOMAIN new |-> new[f1]]
      BY <1>1
    <3>2. new.dic = d /\ new.maxid = start[m]
      BY <1>1
    <3>3. /\ new.y = ix.y /\ new.uni = ix.uni /\ new.bi = ix.bi
          /\ new.xsize = ix.xsize /\ new.maxx = ix.maxx /\ new.alpha = ix.alpha
      BY <1>1
    <3> HIDE DEF new
    <3> QED BY <1>1, <3>1, <3>2, <3>3
  <2> HIDE DEF new
  <2>11. IndexOK(new)
    BY <2>8, <2>9, <2>10, OtherFields
  <2> QED BY <2>1, <2>11
<1> QED BY <1>3, <1>4

(* The lines a training file shows are a sequence too, and have finitely   *)
(* many tags.                                                              *)
LEMMA VisibleSeq ==
  ASSUME NEW s, IsSeq(s)
  PROVE  IsSeq(Visible(s))
<1> DEFINE long == {i \in 1 .. Len(s) : s[i] = Overlong}
           S == {s[i] : i \in 1 .. Len(s)}
<1>1. s \in Seq(S) /\ Len(s) \in Nat
  BY ListIsSeq DEF IsSeq
<1>2. CASE long = {}
  BY <1>2 DEF Visible
<1>3. CASE long # {}
  <2>1. long \subseteq Nat
    BY <1>1
  <2>2. PICK i \in long : \A j \in long : i <= j
    BY <1>3, <2>1, Least
  <2>3. Min(long) \in long
    <3> HIDE DEF long
    <3> QED BY <2>2 DEF Min
  <2> DEFINE k == Min(long) - 1
  <2>4. k \in 0 .. Len(s)
    BY <1>1, <2>3
  <2>5. Visible(s) = SubSeq(s, 1, k)
    BY <1>3 DEF Visible
  <2> HIDE DEF k, long, S
  <2>6. SubSeq(s, 1, k) \in Seq(S)
    BY <1>1, <2>4
  <2> QED BY <2>5, <2>6, OfSeq
<1> QED BY <1>2, <1>3

LEMMA TagsFinite ==
  ASSUME NEW f, IsSeq(f)
  PROVE  IsFiniteSet({l.tag : l \in TokenLines(f)})
<1> DEFINE v == Visible(f)
           lines == TokenLines(f)
           tag == [l \in lines |-> l.tag]
           names == {l.tag : l \in lines}
<1>1. IsSeq(v)
  BY VisibleSeq
<1>2. IsFiniteSet(Range(v))
  <2>1. Len(v) \in Nat /\ DOMAIN v = 1 .. Len(v) /\ v = [i \in 1 .. Len(v) |-> v[i]]
    BY <1>1 DEF IsSeq
  <2> HIDE DEF v
  <2>2. IsFiniteSet(1 .. Len(v))
    BY <2>1, FS_Interval
  <2>3. IsFiniteSet({v[i] : i \in 1 .. Len(v)})
    BY <2>1, <2>2, ImageFinite
  <2> QED BY <2>1, <2>3 DEF Range
<1>3. IsFiniteSet(lines)
  <2>1. lines \subseteq Range(v)
    BY DEF TokenLines
  <2> HIDE DEF v, lines
  <2> QED BY <1>2, <2>1, FS_Subset
<1>4. DOMAIN tag = lines /\ tag = [l \in lines |-> tag[l]]
  OBVIOUS
<1>5. names = {tag[l] : l \in lines}
  OBVIOUS
<1> HIDE DEF lines, tag, names
<1>6. IsFiniteSet(names)
  BY <1>3, <1>4, <1>5, ImageFinite
<1> QED BY <1>6 DEF names, lines

LEMMA OpenedOK ==
  ASSUME NEW a \in Training, a.mode = "learn"
  PROVE  IndexOK(Opened(a))
<1>1. IsSeq(a.train) /\ IsSeq(a.templ)
  BY TrainingAssumption, OfSeq
<1> DEFINE lines == TokenLines(a.train)
           names == {l.tag : l \in lines}
           y == TagsOf(a.train)
           n == Cardinality(names)
<1>5. n \in Nat
  BY <1>1, TagsFinite, FS_CardinalityType
<1>6. y = [i \in 1 .. n |-> Tag(Nth(names, i))]
  BY DEF TagsOf
<1> HIDE DEF n, names
<1>7. \A i \in 1 .. n : HeadOK(y[i])
  BY <1>6 DEF HeadOK, Tag
<1>8. IsSeq(y) /\ Len(y) = n
  <2>1. DOMAIN y = 1 .. n /\ y = [i \in 1 .. n |-> y[i]]
    BY <1>6
  <2> HIDE DEF y
  <2> QED BY <1>5, <2>1, Listed
<1> DEFINE u == OfKind(a.templ, "U")
           b == OfKind(a.templ, "B")
           xs == IF lines = {} THEN 0 ELSE (CHOOSE l \in lines : TRUE).cols - 1
           new == [NoIndex EXCEPT !.uni = u, !.bi = b, !.y = y, !.xsize = xs]
<1>9. IsSeq(u) /\ (\A i \in 1 .. Len(u) : u[i].kind = "U")
  BY <1>1, OfKindIs
<1>10. IsSeq(b) /\ (\A i \in 1 .. Len(b) : b[i].kind = "B")
  BY <1>1, OfKindIs
<1>11. Opened(a) = new
  BY DEF Opened
<1> HIDE DEF u, b, y, xs
<1>12. new = [y |-> y, uni |-> u, bi |-> b, dic |-> {}, maxid |-> 0, xsize |-> xs,
              maxx |-> 0, alpha |-> <<>>]
  <2> DEFINE no == NoIndex
  <2>1. /\ no = [y |-> no.y, uni |-> no.uni, bi |-> no.bi, dic |-> no.dic, maxid |-> no.maxid,
                 xsize |-> no.xsize, maxx |-> no.maxx, alpha |-> no.alpha]
        /\ no.dic = {} /\ no.maxid = 0 /\ no.maxx = 0 /\ no.alpha = <<>>
    BY DEF NoIndex
  <2> HIDE DEF no
  <2>2. DOMAIN new = DOMAIN no /\ new = [f \in DOMAIN new |-> new[f]]
    BY <2>1 DEF no
  <2>3. new.y = y /\ new.uni = u /\ new.bi = b /\ new.xsize = xs
    BY <2>1 DEF no
  <2>4. new.dic = {} /\ new.maxid = 0 /\ new.maxx = 0 /\ new.alpha = <<>>
    BY <2>1 DEF no
  <2> HIDE DEF new
  <2> QED BY <2>1, <2>2, <2>3, <2>4
<1>13. IsFiniteSet({}) /\ 0 \in Nat
  BY FS_EmptySet
<1> HIDE DEF new
<1>14. IndexOK(new)
  <2>1. /\ new.y = y /\ new.uni = u /\ new.bi = b /\ new.dic = {} /\ new.maxid = 0
        /\ new.xsize = xs /\ new.maxx = 0 /\ new.alpha = <<>>
    BY <1>12
  <2>2. new = [y |-> new.y, uni |-> new.uni, bi |-> new.bi, dic |-> new.dic,
               maxid |-> new.maxid, xsize |-> new.xsize, maxx |-> new.maxx,
               alpha |-> new.alpha]
    BY <1>12
  <2> QED BY <1>7, <1>8, <1>9, <1>10, <1>13, <2>1, <2>2 DEF IndexOK
<1> QED BY <1>11, <1>14
-----------------------------------------------------------------------------
(* The texts beside the path: whatever was cut off them, a header line     *)
(* that tells the number of weights tells a number.                        *)

LEMMA NthGrows ==
  ASSUME NEW N \in Nat, NEW T, T \subseteq 1 .. N,
         NEW k \in 1 .. Cardinality(T), NEW l \in 1 .. Cardinality(T), k < l
  PROVE  Nth(T, k) < Nth(T, l)
<1> DEFINE i == Nth(T, k)
           j == Nth(T, l)
<1>1. i \in T /\ Cardinality(Through(T, i)) = k
  BY NthIs
<1>2. j \in T /\ Cardinality(Through(T, j)) = l
  BY NthIs
<1>3. IsFiniteSet(Through(T, i)) /\ Cardinality(T) \in Nat
  BY ThroughFinite
<1> HIDE DEF i, j
<1>4. i \in Nat /\ j \in Nat /\ \A z \in T : z \in Nat
  BY <1>1, <1>2
<1> SUFFICES ASSUME j <= i PROVE FALSE
  BY <1>4 DEF i, j
<1>5. Through(T, j) \subseteq Through(T, i)
  <2>1. \A z \in T : z <= j => z <= i
    BY <1>4
  <2> QED BY <2>1 DEF Through
<1>6. Cardinality(Through(T, j)) <= Cardinality(Through(T, i))
  BY <1>3, <1>5, FS_Subset
<1> QED BY <1>1, <1>2, <1>3, <1>6

LEMMA Greatest ==
  ASSUME NEW N \in Nat, NEW T, T \subseteq 1 .. N, T # {}
  PROVE  Max(T) \in T
<1> DEFINE W == {z \in 0 .. N : N - z \in T}
<1>1. W \subseteq Nat
  OBVIOUS
<1>2. W # {}
  <2>1. PICK y \in T : TRUE
    OBVIOUS
  <2>2. N - y \in 0 .. N /\ N - (N - y) = y
    BY <2>1
  <2> QED BY <2>1, <2>2
<1>3. PICK z \in W : \A y \in W : z <= y
  BY <1>1, <1>2, Least
<1>4. \A y \in T : y <= N - z
  <2> TAKE y \in T
  <2>1. y \in Nat /\ N - y \in 0 .. N /\ N - (N - y) = y
    OBVIOUS
  <2>2. z <= N - y
    BY <1>3, <2>1
  <2> QED BY <1>3, <2>1, <2>2
<1>5. N - z \in T /\ \A y \in T : N - z >= y
  <2>1. N - z \in T /\ z \in Nat
    BY <1>3
  <2>2. \A y \in T : y \in Nat
    OBVIOUS
  <2> QED BY <1>4, <2>1, <2>2
<1> QED BY <1>5 DEF Max

SaneText(t) == IsSeq(t) /\ \A i \in 1 .. Len(t) : HeadOK(t[i])

LEMMA EmptyAtIs ==
  ASSUME NEW t, IsSeq(t), Cardinality(Empties(t)) >= 4, NEW k \in 1 .. 4
  PROVE  EmptyAt(t, k) \in 1 .. Len(t)
<1>1. Len(t) \in Nat /\ Empties(t) \subseteq 1 .. Len(t)
  BY DEF IsSeq, Empties
<1>2. Cardinality(Empties(t)) \in Nat
  BY <1>1, ThroughFinite
<1>3. k \in 1 .. Cardinality(Empties(t))
  BY <1>2
<1> QED BY <1>1, <1>3, NthIs DEF EmptyAt

LEMMA SectionIs ==
  ASSUME NEW t, IsSeq(t), Cardinality(Empties(t)) >= 4, NEW k \in 2 .. 4
  PROVE  /\ IsSeq(Section(t, k))
         /\ \A i \in 1 .. Len(Section(t, k)) :
              \E j \in 1 .. Len(t) : Section(t, k)[i] = t[j]
<1>1. Len(t) \in Nat /\ Empties(t) \subseteq 1 .. Len(t)
  BY DEF IsSeq, Empties
<1>2. Cardinality(Empties(t)) \in Nat
  BY <1>1, ThroughFinite
<1> DEFINE h == k - 1
           a == EmptyAt(t, h)
           b == EmptyAt(t, k)
<1>3. h \in 1 .. 4 /\ k \in 1 .. 4 /\ h < k /\ k # 1
  OBVIOUS
<1>4. a \in 1 .. Len(t) /\ b \in 1 .. Len(t)
  <2> HIDE DEF h
  <2> QED BY <1>3, EmptyAtIs
<1>5. a < b
  <2> HIDE DEF h
  <2>1. h \in 1 .. Cardinality(Empties(t)) /\ k \in 1 .. Cardinality(Empties(t))
    BY <1>2, <1>3
  <2> QED BY <1>1, <1>3, <2>1, NthGrows DEF EmptyAt
<1> DEFINE s == SubSeq(t, a + 1, b - 1)
           S == {t[i] : i \in 1 .. Len(t)}
<1>6. Section(t, k) = s
  BY <1>3 DEF Section
<1>7. t \in Seq(S)
  BY ListIsSeq
<1>9. \A v \in S : \E j \in 1 .. Len(t) : v = t[j]
  OBVIOUS
<1> HIDE DEF S, a, b
<1>8. s \in Seq(S)
  BY <1>1, <1>4, <1>5, <1>7
<1> HIDE DEF s
<1>10. IsSeq(s) /\ \A i \in 1 .. Len(s) : s[i] \in S
  BY <1>8, OfSeq
<1> QED BY <1>6, <1>9, <1>10

LEMMA MaxidIs ==
  ASSUME NEW t, SaneText(t), Cardinality(Empties(t)) >= 4
  PROVE  HeadValue(t, "maxid") \in Nat
<1> DEFINE e == EmptyAt(t, 1)
           named == {i \in 1 .. e - 1 : t[i].kind = "head" /\ t[i].name = "maxid"}
<1>1. IsSeq(t) /\ Len(t) \in Nat /\ \A i \in 1 .. Len(t) : HeadOK(t[i])
  BY DEF SaneText, IsSeq
<1>2. e \in 1 .. Len(t)
  <2>1. 1 \in 1 .. 4
    OBVIOUS
  <2> QED BY <1>1, <2>1, EmptyAtIs
<1>3. HeadValue(t, "maxid") = IF named = {} THEN 0 ELSE t[Max(named)].value
  BY DEF HeadValue
<1> HIDE DEF e
<1>4. named \subseteq 1 .. Len(t)
  BY <1>1, <1>2
<1>5. \A i \in named : t[i].value \in Nat
  BY <1>1, <1>4 DEF HeadOK
<1> HIDE DEF named
<1>6. CASE named = {}
  BY <1>3, <1>6
<1>7. CASE named # {}
  BY <1>1, <1>3, <1>4, <1>5, <1>7, Greatest
<1> QED BY <1>6, <1>7

LEMMA SeqIn ==
  ASSUME NEW Z, NEW s, IsSeq(s), \A i \in 1 .. Len(s) : s[i] \in Z
  PROVE  s \in Seq(Z)
<1> DEFINE n == Len(s)
<1>1. n \in Nat /\ s \in [1 .. n -> Z]
  BY DEF IsSeq
<1> HIDE DEF n
<1> QED BY <1>1

(* What convert() makes of a text is an index.                             *)
LEMMA ConvertedOK ==
  ASSUME NEW t, SaneText(t), Converts(t)
  PROVE  IndexOK(Converted(FromText(t)))
<1>1. IsSeq(t) /\ (\A i \in 1 .. Len(t) : HeadOK(t[i])) /\ Cardinality(Empties(t)) >= 4
  BY DEF SaneText, Converts
<1> DEFINE m == FromText(t)
           s2 == Section(t, 2)
           s3 == Section(t, 3)
           s4 == Section(t, 4)
<1>2. /\ m.y = s2 /\ m.uni = OfKind(s3, "U") /\ m.bi = OfKind(s3, "B")
      /\ m.dic = ReadKeys(s4) /\ m.maxid = HeadValue(t, "maxid")
  BY DEF FromText
<1>3. IsSeq(s2) /\ \A i \in 1 .. Len(s2) : HeadOK(s2[i])
  <2>1. 2 \in 2 .. 4
    OBVIOUS
  <2>2. IsSeq(s2) /\ \A i \in 1 .. Len(s2) : \E j \in 1 .. Len(t) : s2[i] = t[j]
    BY <1>1, <2>1, SectionIs
  <2> QED BY <1>1, <2>2
<1>4. IsSeq(s3) /\ IsSeq(s4)
  <2>1. 3 \in 2 .. 4 /\ 4 \in 2 .. 4
    OBVIOUS
  <2> QED BY <1>1, <2>1, SectionIs
<1> HIDE DEF s2, s3, s4
<1>5. /\ IsSeq(m.uni) /\ \A i \in 1 .. Len(m.uni) : m.uni[i].kind = "U"
      /\ IsSeq(m.bi) /\ \A i \in 1 .. Len(m.bi) : m.bi[i].kind = "B"
  <2>1. /\ IsSeq(OfKind(s3, "U"))
        /\ \A k \in 1 .. Len(OfKind(s3, "U")) : OfKind(s3, "U")[k].kind = "U"
    BY <1>4, OfKindIs
  <2>2. /\ IsSeq(OfKind(s3, "B"))
        /\ \A k \in 1 .. Len(OfKind(s3, "B")) : OfKind(s3, "B")[k].kind = "B"
    BY <1>4, OfKindIs
  <2> QED BY <1>2, <2>1, <2>2
<1>6. Len(m.dic) \in Nat
  <2> DEFINE cut == [i \in 1 .. Len(s4) |-> [s4[i] EXCEPT !.key = UpToSpace(@)]]
             T == {i \in 1 .. Len(s4) : \A j \in 1 .. i - 1 : cut[j].key # cut[i].key}
  <2>1. ReadKeys(s4) = Pick(cut, T)
    BY DEF ReadKeys
  <2>2. Len(s4) \in Nat /\ T \subseteq 1 .. Len(s4)
    BY <1>4 DEF IsSeq
  <2> HIDE DEF cut, T
  <2>3. IsSeq(Pick(cut, T))
    BY <2>2, PickIs
  <2> QED BY <1>2, <2>1, <2>3 DEF IsSeq
<1>7. m.maxid \in Nat
  BY <1>1, <1>2, MaxidIs
<1> HIDE DEF m
<1> DEFINE entry == [i \in 1 .. Len(m.dic) |->
                       [key |-> m.dic[i].key, id |-> m.dic[i].id, freq |-> 1]]
           d == {[key |-> m.dic[i].key, id |-> m.dic[i].id, freq |-> 1] :
                   i \in 1 .. Len(m.dic)}
<1>8. IsFiniteSet(d)
  <2>1. IsFiniteSet(1 .. Len(m.dic))
    BY <1>6, FS_Interval
  <2>2. DOMAIN entry = 1 .. Len(m.dic) /\ entry = [i \in 1 .. Len(m.dic) |-> entry[i]]
    OBVIOUS
  <2>3. d = {entry[i] : i \in 1 .. Len(m.dic)}
    OBVIOUS
  <2> HIDE DEF entry, d
  <2> QED BY <2>1, <2>2, <2>3, ImageFinite
<1> HIDE DEF d
<1> DEFINE u == m.uni
           b == m.bi
           y == m.y
           n == m.maxid
           xs == m.xsize
           w == m.alpha
           new == [NoIndex EXCEPT !.y = y, !.uni = u, !.bi = b, !.maxid = n,
                                  !.xsize = xs, !.alpha = w, !.dic = d]
<1>9. Converted(m) = new
  BY DEF Converted, d
<1>10. IsSeq(y) /\ \A i \in 1 .. Len(y) : HeadOK(y[i])
  BY <1>2, <1>3 DEF m
<1>11. /\ IsSeq(u) /\ \A i \in 1 .. Len(u) : u[i].kind = "U"
       /\ IsSeq(b) /\ \A i \in 1 .. Len(b) : b[i].kind = "B"
  BY <1>5
<1>12. n \in Nat
  BY <1>7
<1> HIDE DEF u, b, y, n, xs, w
<1>13. new = [y |-> y, uni |-> u, bi |-> b, dic |-> d, maxid |-> n, xsize |-> xs,
              maxx |-> 0, alpha |-> w]
  <2> DEFINE no == NoIndex
  <2>1. /\ no = [y |-> no.y, uni |-> no.uni, bi |-> no.bi, dic |-> no.dic, maxid |-> no.maxid,
                 xsize |-> no.xsize, maxx |-> no.maxx, alpha |-> no.alpha]
        /\ no.maxx = 0
    BY DEF NoIndex
  <2> HIDE DEF no
  <2>2. DOMAIN new = DOMAIN no /\ new = [f \in DOMAIN new |-> new[f]]
    BY <2>1 DEF no
  <2>3. new.y = y /\ new.uni = u /\ new.bi = b /\ new.xsize = xs
    BY <2>1 DEF no
  <2>4. new.dic = d /\ new.maxid = n /\ new.maxx = 0 /\ new.alpha = w
    BY <2>1 DEF no
  <2> HIDE DEF new
  <2> QED BY <2>1, <2>2, <2>3, <2>4
<1> HIDE DEF new
<1>14. IndexOK(new)
  <2>1. /\ new.y = y /\ new.uni = u /\ new.bi = b /\ new.dic = d /\ new.maxid = n
        /\ new.xsize = xs /\ new.maxx = 0 /\ new.alpha = w
    BY <1>13
  <2>2. new = [y |-> new.y, uni |-> new.uni, bi |-> new.bi, dic |-> new.dic,
               maxid |-> new.maxid, xsize |-> new.xsize, maxx |-> new.maxx,
               alpha |-> new.alpha]
    BY <1>13
  <2> QED BY <1>8, <1>10, <1>11, <1>12, <2>1, <2>2 DEF IndexOK
<1> QED BY <1>9, <1>14 DEF m

(* What is saved of an index is a model.                                   *)
LEMMA ToSaveOK ==
  ASSUME NEW ix, IndexOK(ix)
  PROVE  ModelOK(ToSave(ix))
<1> DEFINE d == Dictionary(ix)
           k == [i \in 1 .. Len(d) |-> [kind |-> "key", key |-> d[i].key, id |-> d[i].id]]
           m == ToSave(ix)
<1>1. /\ IsSeq(ix.y) /\ IsSeq(ix.uni) /\ IsSeq(ix.bi)
      /\ \A i \in 1 .. Len(ix.y) : HeadOK(ix.y[i])
      /\ \A i \in 1 .. Len(ix.uni) : ix.uni[i].kind = "U"
      /\ \A i \in 1 .. Len(ix.bi) : ix.bi[i].kind = "B"
      /\ IsFiniteSet(ix.dic) /\ ix.maxid \in Nat
  BY DEF IndexOK
<1>2. Len(d) \in Nat
  BY <1>1, InOrderIs DEF Dictionary
<1>3. m = [y |-> ix.y, uni |-> ix.uni, bi |-> ix.bi, dic |-> k, maxid |-> ix.maxid,
           xsize |-> SavedXsize(ix), alpha |-> ix.alpha]
  BY DEF ToSave
<1> HIDE DEF d
<1>4. IsSeq(k) /\ Len(k) = Len(d) /\ \A i \in 1 .. Len(d) : k[i].kind = "key"
  <2>1. DOMAIN k = 1 .. Len(d) /\ k = [i \in 1 .. Len(d) |-> k[i]]
    OBVIOUS
  <2>2. \A i \in 1 .. Len(d) : k[i].kind = "key"
    OBVIOUS
  <2> HIDE DEF k
  <2> QED BY <1>2, <2>1, <2>2, Listed
<1> HIDE DEF k, m
<1>5. IsModel(m)
  <2> DEFINE Q(s) == {s[i] : i \in 1 .. Len(s)}
             S == Q(ix.y) \cup Q(ix.uni) \cup Q(ix.bi) \cup Q(k)
  <2>1. ix.y \in Seq(Q(ix.y)) /\ ix.uni \in Seq(Q(ix.uni))
        /\ ix.bi \in Seq(Q(ix.bi)) /\ k \in Seq(Q(k))
    BY <1>1, <1>4, ListIsSeq
  <2> HIDE DEF Q
  <2>2. ix.y \in Seq(S) /\ ix.uni \in Seq(S) /\ ix.bi \in Seq(S) /\ k \in Seq(S)
    BY <2>1
  <2> HIDE DEF S
  <2> QED BY <1>1, <1>3, <2>2 DEF IsModel
<1>6. m = [y |-> m.y, uni |-> m.uni, bi |-> m.bi, dic |-> m.dic,
           maxid |-> m.maxid, xsize |-> m.xsize, alpha |-> m.alpha]
  BY <1>3
<1>7. m.y = ix.y /\ m.uni = ix.uni /\ m.bi = ix.bi /\ m.dic = k
  BY <1>3
<1>8. ModelOK(m)
  BY <1>1, <1>4, <1>5, <1>6, <1>7 DEF ModelOK
<1> QED BY <1>8 DEF m

LEMMA TextOK ==
  ASSUME NEW m, ModelOK(m)
  PROVE  SaneText(Text(m))
<1>1. /\ IsModel(m)
      /\ \A i \in 1 .. Len(m.y) : HeadOK(m.y[i])
      /\ \A i \in 1 .. Len(m.uni) : m.uni[i].kind = "U"
      /\ \A i \in 1 .. Len(m.bi) : m.bi[i].kind = "B"
      /\ \A i \in 1 .. Len(m.dic) : m.dic[i].kind = "key"
  BY DEF ModelOK
<1>2. PICK S : m.y \in Seq(S) /\ m.uni \in Seq(S) /\ m.bi \in Seq(S) /\ m.dic \in Seq(S)
  BY <1>1 DEF IsModel
<1>3. m.maxid \in Nat
  BY <1>1 DEF IsModel
<1> DEFINE h1 == HeadLine("version", Version)
           h2 == HeadLine("cost-factor", 1)
           h3 == HeadLine("maxid", m.maxid)
           h4 == HeadLine("xsize", m.xsize)
           H == <<h1, h2, h3, h4>>
           w == [i \in 1 .. m.maxid |-> Weight(Decimals(m.alpha[i]))]
           R == S \cup {h1, h2, h3, h4, Empty} \cup {w[i] : i \in 1 .. m.maxid}
           Z == {l \in R : HeadOK(l)}
<1>4. h1 \in Z /\ h2 \in Z /\ h3 \in Z /\ h4 \in Z /\ Empty \in Z
  BY <1>3 DEF HeadOK, HeadLine, Empty
<1>5. \A i \in 1 .. m.maxid : w[i] \in Z
  BY DEF HeadOK, Weight
<1>6. /\ \A i \in 1 .. Len(m.y) : m.y[i] \in Z
      /\ \A i \in 1 .. Len(m.uni) : m.uni[i] \in Z
      /\ \A i \in 1 .. Len(m.bi) : m.bi[i] \in Z
      /\ \A i \in 1 .. Len(m.dic) : m.dic[i] \in Z
  <2>1. /\ \A i \in 1 .. Len(m.y) : m.y[i] \in S
        /\ \A i \in 1 .. Len(m.uni) : m.uni[i] \in S
        /\ \A i \in 1 .. Len(m.bi) : m.bi[i] \in S
        /\ \A i \in 1 .. Len(m.dic) : m.dic[i] \in S
    BY <1>2, OfSeq
  <2>2. S \subseteq R
    OBVIOUS
  <2> HIDE DEF R
  <2> QED BY <1>1, <2>1, <2>2 DEF HeadOK
<1>7. \A l \in Z : HeadOK(l)
  OBVIOUS
<1>8. IsSeq(w) /\ Len(w) = m.maxid
  <2>1. DOMAIN w = 1 .. m.maxid /\ w = [i \in 1 .. m.maxid |-> w[i]]
    OBVIOUS
  <2> HIDE DEF w
  <2> QED BY <1>3, <2>1, Listed
<1>9. Text(m) = (((Lines(H) \o Lines(m.y)) \o Lines(m.uni \o m.bi)) \o Lines(m.dic)) \o w
  BY DEF Text
<1> HIDE DEF Z, R, h1, h2, h3, h4, w
<1>10. H \in Seq(Z)
  BY <1>4
<1> HIDE DEF H
<1>11. m.y \in Seq(Z) /\ m.uni \in Seq(Z) /\ m.bi \in Seq(Z) /\ m.dic \in Seq(Z)
  BY <1>2, <1>6, OfSeq, SeqIn
<1>12. w \in Seq(Z)
  BY <1>5, <1>8, SeqIn
<1>13. ASSUME NEW s \in Seq(Z) PROVE Lines(s) \in Seq(Z)
  BY <1>4 DEF Lines
<1>14. m.uni \o m.bi \in Seq(Z)
  BY <1>11
<1> DEFINE a == Lines(H)
           b == Lines(m.y)
           c == Lines(m.uni \o m.bi)
           d == Lines(m.dic)
<1>15. a \in Seq(Z) /\ b \in Seq(Z) /\ c \in Seq(Z) /\ d \in Seq(Z)
  BY <1>10, <1>11, <1>13, <1>14
<1> DEFINE t == (((a \o b) \o c) \o d) \o w
<1>16. Text(m) = t
  BY <1>9
<1> HIDE DEF a, b, c, d
<1>17. t \in Seq(Z)
  BY <1>12, <1>15
<1> HIDE DEF t
<1> QED BY <1>7, <1>16, <1>17, OfSeq DEF SaneText

LEMMA CutSane ==
  ASSUME NEW t, SaneText(t), NEW n \in 0 .. Len(t), NEW broken \in BOOLEAN
  PROVE  SaneText(Cut(t, n, broken))
<1>1. IsSeq(t) /\ Len(t) \in Nat /\ \A i \in 1 .. Len(t) : HeadOK(t[i])
  BY DEF SaneText, IsSeq
<1> DEFINE p == Broken(t[n + 1])
           R == {t[i] : i \in 1 .. Len(t)} \cup {p}
           Z == {l \in R : HeadOK(l)}
           a == SubSeq(t, 1, n)
           b == IF broken /\ n < Len(t) THEN <<p>> ELSE <<>>
<1>2. HeadOK(p)
  BY DEF HeadOK, Broken, Weight
<1>3. p \in Z
  BY <1>2
<1>4. \A i \in 1 .. Len(t) : t[i] \in Z
  BY <1>1
<1>5. \A l \in Z : HeadOK(l)
  OBVIOUS
<1> HIDE DEF p, R, Z
<1>6. t \in Seq(Z)
  BY <1>1, <1>4, SeqIn
<1>7. a \in Seq(Z)
  BY <1>1, <1>6
<1>8. b \in Seq(Z)
  BY <1>3
<1>9. Cut(t, n, broken) = a \o b
  BY DEF Cut, p
<1> HIDE DEF a, b
<1>10. a \o b \in Seq(Z)
  BY <1>7, <1>8
<1> QED BY <1>5, <1>9, <1>10, OfSeq DEF SaneText
-----------------------------------------------------------------------------
(* The two programs and the file between them.                             *)

LearnInv == IndexOK(index) /\ SaneText(text)

LEMMA TrainedOK ==
  ASSUME NEW ix, IndexOK(ix), NEW w
  PROVE  IndexOK([ix EXCEPT !.alpha = w])
<1> DEFINE new == [ix EXCEPT !.alpha = w]
<1>1. ix = [y |-> ix.y, uni |-> ix.uni, bi |-> ix.bi, dic |-> ix.dic, maxid |-> ix.maxid,
            xsize |-> ix.xsize, maxx |-> ix.maxx, alpha |-> ix.alpha]
      /\ IsFiniteSet(ix.dic) /\ ix.maxid \in Nat
  BY DEF IndexOK
<1>2. new = [y |-> ix.y, uni |-> ix.uni, bi |-> ix.bi, dic |-> ix.dic, maxid |-> ix.maxid,
             xsize |-> ix.xsize, maxx |-> ix.maxx, alpha |-> w]
  BY <1>1
<1> HIDE DEF new
<1>3. IndexOK(new)
  BY <1>1, <1>2, OtherFields
<1> QED BY <1>3 DEF new

LEMMA LearnInit1 == Init => LearnInv
<1> SUFFICES ASSUME Init PROVE LearnInv
  OBVIOUS
<1>1. index = NoIndex /\ text = <<>>
  BY DEF Init, LearnInit
<1>2. IsSeq(text) /\ Len(text) = 0
  BY <1>1, EmptyIsSeq
<1> QED BY <1>1, <1>2, NoIndexOK DEF LearnInv, SaneText

LEMMA LearnKilled ==
  ASSUME LearnInv, Kill
  PROVE  LearnInv'
<1>1. IndexOK(index) /\ SaneText(text)
  BY DEF LearnInv
<1>2. index' = NoIndex
  BY DEF Kill
<1> DEFINE t == Text(ToSave(index))
<1>3. SaneText(t)
  BY <1>1, ToSaveOK, TextOK
<1>4. text' = text \/ \E n \in 0 .. Len(t), b \in BOOLEAN : text' = Cut(t, n, b)
  BY DEF Kill
<1> HIDE DEF t
<1>5. SaneText(text')
  BY <1>1, <1>3, <1>4, CutSane
<1> QED BY <1>2, <1>5, NoIndexOK DEF LearnInv

LEMMA LearnStep ==
  ASSUME LearnInv, [Next]_vars
  PROVE  LearnInv'
<1>0. IndexOK(index) /\ SaneText(text)
  BY DEF LearnInv
<1>1. CASE LearnRefused
  <2>1. index' = NoIndex /\ text' = text
    BY <1>1 DEF LearnRefused, diskVars
  <2> QED BY <1>0, <2>1, NoIndexOK DEF LearnInv
<1>2. CASE LearnOpen
  <2>1. text' = text /\ args' \in Training /\ args'.mode = "learn"
        /\ (index' = NoIndex \/ index' = Opened(args'))
    BY <1>2 DEF LearnOpen, diskVars
  <2>2. IndexOK(Opened(args'))
    BY <2>1, OpenedOK
  <2> QED BY <1>0, <2>1, <2>2, NoIndexOK DEF LearnInv
<1>3. CASE Convert
  <2>1. text' = text
        /\ (index' = NoIndex \/ (Converts(text) /\ index' = Converted(FromText(text))))
    BY <1>3 DEF Convert, diskVars
  <2> QED BY <1>0, <2>1, NoIndexOK, ConvertedOK DEF LearnInv
<1>4. CASE ReadSentence
  <2>1. text' = text /\ (index' = index \/ \E n : index' = BuildFeatures(index, n))
    BY <1>4 DEF ReadSentence, diskVars
  <2> QED BY <1>0, <2>1, BuildOK DEF LearnInv, Stays
<1>5. CASE ShrinkDictionary
  <2>1. text' = text /\ index' = Shrink(index, args.freq)
    BY <1>5 DEF ShrinkDictionary, diskVars
  <2> QED BY <1>0, <2>1, ShrinkOK DEF LearnInv
<1>6. CASE Train
  <2>1. text' = text /\ (index' = index \/ \E w : index' = [index EXCEPT !.alpha = w])
    BY <1>6 DEF Train, diskVars
  <2> QED BY <1>0, <2>1, TrainedOK DEF LearnInv
<1>7. CASE DeleteSentences \/ SaveOpen \/ SaveRefused \/ TextRefused \/ SaveCell
  <2>1. UNCHANGED <<index, text>>
    BY <1>7 DEF DeleteSentences, SaveOpen, SaveRefused, TextRefused, SaveCell, diskVars
  <2> QED BY <1>0, <2>1 DEF LearnInv
<1>8. CASE Finish
  <2>1. index' = index /\ (text' = text \/ text' = Text(ToSave(index)))
    BY <1>8 DEF Finish
  <2> QED BY <1>0, <2>1, ToSaveOK, TextOK DEF LearnInv
<1>9. CASE Kill
  BY <1>9, LearnKilled
<1>10. CASE UNCHANGED <<learnVars, diskVars>>
  BY <1>0, <1>10 DEF LearnInv, learnVars, diskVars
<1> QED
  BY <1>1, <1>2, <1>3, <1>4, <1>5, <1>6, <1>7, <1>8, <1>9, <1>10
  DEF Next, Learning, Working, vars

(* The path holds the model that was written last, whole, or a part of a   *)
(* file of which the last cell was not written.                            *)
Whole(m, f, p)   == p = Stored(m) /\ f = Binary(m)
Partial(m, f, p) == p = NotYet /\ \E k \in 0 .. Len(Binary(m)) - 1 : f = SubSeq(Binary(m), 1, k)

OnDisk(f, p) == \E m : ModelOK(m) /\ (Whole(m, f, p) \/ Partial(m, f, p))

BeingWritten(f, p, m) ==
  /\ p = NotYet
  /\ Len(f) \in 0 .. Len(Binary(m)) - 1 /\ f = SubSeq(Binary(m), 1, Len(f))

DiskInv ==
  /\ OnDisk(file, published)
  /\ lphase = "write" => BeingWritten(file, published, ToSave(index))

LEMMA FileSeq ==
  ASSUME NEW m, ModelOK(m)
  PROVE  Len(Binary(m)) \in Nat /\ Len(Binary(m)) >= 8 /\ \E R : Binary(m) \in Seq(R)
<1> DEFINE ny == Len(m.y)
           nt == Len(Padded(m))
           nd == Len(m.dic)
           b == Binary(m)
<1>1. /\ ny \in Nat /\ nt \in Nat /\ nd \in Nat /\ m.maxid \in Nat
      /\ \E R : b \in Seq(R)
      /\ Len(b) = 8 + ny + nt + nd + m.maxid
  BY Layout DEF ModelOK
<1> HIDE DEF ny, nt, nd, b
<1>2. Len(b) \in Nat /\ Len(b) >= 8
  BY <1>1
<1> QED BY <1>1, <1>2 DEF b

(* The file that save() has just emptied.                                  *)
LEMMA Emptied ==
  ASSUME NEW m, ModelOK(m)
  PROVE  OnDisk(<<>>, NotYet) /\ BeingWritten(<<>>, NotYet, m)
<1> DEFINE b == Binary(m)
<1>1. Len(b) \in Nat /\ Len(b) >= 8
  BY FileSeq
<1>2. PICK R : b \in Seq(R)
  BY FileSeq
<1> HIDE DEF b
<1>3. 0 \in 0 .. Len(b) - 1
  BY <1>1
<1>4. SubSeq(b, 1, 0) = <<>>
  BY <1>1, <1>2
<1>5. Len(<<>>) = 0
  OBVIOUS
<1> QED BY <1>3, <1>4, <1>5 DEF OnDisk, Partial, BeingWritten, b

(* One more cell.                                                          *)
LEMMA OneCell ==
  ASSUME NEW m, ModelOK(m), NEW f, NEW p, BeingWritten(f, p, m),
         NEW g, g = Append(f, Binary(m)[Len(f) + 1])
  PROVE  /\ Len(g) = Len(f) + 1
         /\ Len(g) < Len(Binary(m)) => BeingWritten(g, p, m)
         /\ ~(Len(g) < Len(Binary(m))) => g = Binary(m)
<1> DEFINE b == Binary(m)
           n == Len(f)
<1>1. Len(b) \in Nat
  BY FileSeq
<1>2. PICK R : b \in Seq(R)
  BY FileSeq
<1>3. p = NotYet /\ n \in 0 .. Len(b) - 1 /\ f = SubSeq(b, 1, n) /\ g = Append(f, b[n + 1])
  BY DEF BeingWritten
<1> HIDE DEF b, n
<1>4. /\ f \in Seq(R) /\ Len(f) = n /\ \A i \in 1 .. n : f[i] = b[i]
  BY <1>1, <1>2, <1>3
<1>5. b[n + 1] \in R
  BY <1>1, <1>2, <1>3
<1>6. g \in Seq(R) /\ Len(g) = n + 1 /\ \A i \in 1 .. n + 1 : g[i] = b[i]
  <2>1. g \in Seq(R) /\ Len(g) = n + 1 /\ (\A i \in 1 .. n : g[i] = f[i]) /\ g[n + 1] = b[n + 1]
    BY <1>3, <1>4, <1>5
  <2>2. \A i \in 1 .. n + 1 : i \in 1 .. n \/ i = n + 1
    BY <1>1, <1>3
  <2> QED BY <1>4, <2>1, <2>2
<1>7. g = SubSeq(b, 1, n + 1)
  <2> DEFINE s == SubSeq(b, 1, n + 1)
  <2>1. s \in Seq(R) /\ Len(s) = n + 1 /\ \A i \in 1 .. n + 1 : s[i] = b[i]
    BY <1>1, <1>2, <1>3
  <2> HIDE DEF s
  <2>2. s = g
    <3>1. s = [i \in 1 .. n + 1 |-> s[i]] /\ g = [i \in 1 .. n + 1 |-> g[i]]
      BY <1>6, <2>1
    <3> QED BY <1>6, <2>1, <3>1
  <2> QED BY <2>2 DEF s
<1>8. ASSUME Len(g) < Len(b) PROVE BeingWritten(g, p, m)
  <2>1. Len(g) \in 0 .. Len(b) - 1 /\ g = SubSeq(b, 1, Len(g))
    BY <1>1, <1>3, <1>6, <1>7, <1>8
  <2> QED BY <1>3, <2>1 DEF BeingWritten, b
<1>9. ASSUME ~(Len(g) < Len(b)) PROVE g = b
  <2>1. n + 1 = Len(b)
    BY <1>1, <1>3, <1>6, <1>9
  <2>2. b = [i \in 1 .. n + 1 |-> b[i]] /\ g = [i \in 1 .. n + 1 |-> g[i]]
    BY <1>2, <1>6, <2>1
  <2> QED BY <1>6, <2>2
<1> QED BY <1>6, <1>8, <1>9 DEF b, n

LEMMA WrittenOnDisk ==
  ASSUME NEW m, ModelOK(m), NEW f, NEW p, BeingWritten(f, p, m)
  PROVE  OnDisk(f, p)
BY DEF BeingWritten, OnDisk, Partial

LEMMA DiskInit == Init => DiskInv
<1> SUFFICES ASSUME Init PROVE DiskInv
  OBVIOUS
<1>1. file = <<>> /\ published = NotYet /\ lphase = "idle"
  BY DEF Init, LearnInit
<1>2. ModelOK(ToSave(NoIndex))
  BY NoIndexOK, ToSaveOK
<1>3. OnDisk(<<>>, NotYet)
  BY <1>2, Emptied
<1> QED BY <1>1, <1>3 DEF DiskInv

LEMMA CellSaved ==
  ASSUME LearnInv, DiskInv, SaveCell
  PROVE  /\ DiskInv'
         /\ published = NotYet /\ Len(file') = Len(file) + 1
         /\ \/ published' = published
            \/ lphase' = "text" /\ published' = Stored(ToSave(index))
<1> DEFINE m == ToSave(index)
<1>1. ModelOK(m)
  BY ToSaveOK DEF LearnInv
<1>2. /\ lphase = "write" /\ file' = Append(file, Binary(m)[Len(file) + 1]) /\ index' = index
      /\ IF Len(file') < Len(Binary(m)) THEN UNCHANGED <<lphase, published>>
         ELSE lphase' = "text" /\ published' = Stored(m)
  BY DEF SaveCell
<1>3. BeingWritten(file, published, m)
  BY <1>2 DEF DiskInv
<1>4. ToSave(index') = m
  BY <1>2
<1> HIDE DEF m
<1>5. /\ Len(file') = Len(file) + 1
      /\ Len(file') < Len(Binary(m)) => BeingWritten(file', published, m)
      /\ ~(Len(file') < Len(Binary(m))) => file' = Binary(m)
  BY <1>1, <1>2, <1>3, OneCell
<1>6. published = NotYet
  BY <1>3 DEF BeingWritten
<1>7. CASE Len(file') < Len(Binary(m))
  <2>1. UNCHANGED <<lphase, published>> /\ BeingWritten(file', published', m)
    BY <1>2, <1>5, <1>7
  <2>2. OnDisk(file', published')
    BY <1>1, <2>1, WrittenOnDisk
  <2> QED BY <1>4, <1>5, <1>6, <2>1, <2>2 DEF DiskInv
<1>8. CASE ~(Len(file') < Len(Binary(m)))
  <2>1. lphase' = "text" /\ published' = Stored(m) /\ file' = Binary(m)
    BY <1>2, <1>5, <1>8
  <2>2. OnDisk(file', published')
    BY <1>1, <2>1 DEF OnDisk, Whole
  <2> QED BY <1>5, <1>6, <2>1, <2>2 DEF DiskInv, m
<1> QED BY <1>7, <1>8

(* Nothing but save() touches the path.                                    *)
LEMMA DiskStep ==
  ASSUME LearnInv, DiskInv, [Next]_vars
  PROVE  /\ DiskInv'
         /\ UNCHANGED <<file, published>> \/ SaveOpen \/ SaveCell
<1>1. CASE SaveCell
  BY <1>1, CellSaved
<1>2. CASE SaveOpen
  <2>1. file' = <<>> /\ published' = NotYet /\ index' = index
    BY <1>2 DEF SaveOpen
  <2>2. ModelOK(ToSave(index'))
    BY <2>1, ToSaveOK DEF LearnInv
  <2>3. OnDisk(file', published') /\ BeingWritten(file', published', ToSave(index'))
    BY <2>1, <2>2, Emptied
  <2> QED BY <1>2, <2>3 DEF DiskInv
<1>3. CASE \/ LearnRefused \/ LearnOpen \/ Convert \/ ReadSentence \/ ShrinkDictionary
           \/ Train \/ DeleteSentences \/ SaveRefused \/ TextRefused \/ Finish \/ Kill
  <2>1. UNCHANGED <<file, published>>
    BY <1>3 DEF LearnRefused, LearnOpen, Convert, ReadSentence, ShrinkDictionary,
                Train, DeleteSentences, SaveRefused, TextRefused, Finish, Kill, diskVars
  <2>2. lphase' # "write"
    BY <1>3 DEF LearnRefused, LearnOpen, Convert, ReadSentence, ShrinkDictionary,
                Train, DeleteSentences, SaveRefused, TextRefused, Finish, Kill, Ends, Complains
  <2> QED BY <2>1, <2>2 DEF DiskInv
<1>4. CASE UNCHANGED <<learnVars, diskVars>>
  <2>1. UNCHANGED <<file, published, lphase, index>>
    BY <1>4 DEF learnVars, diskVars
  <2> QED BY <2>1 DEF DiskInv
<1> QED BY <1>1, <1>2, <1>3, <1>4 DEF Next, Learning, Working, vars

LEMMA AllAlways == Spec => [](LearnInv /\ DiskInv)
<1>1. Init => LearnInv /\ DiskInv
  BY LearnInit1, DiskInit
<1>2. LearnInv /\ DiskInv /\ [Next]_vars => (LearnInv /\ DiskInv)'
  BY LearnStep, DiskStep
<1> QED BY <1>1, <1>2, PTL DEF Spec

(* Whatever crf_learn is given, however often it is killed and whatever    *)
(* crf_test does meanwhile, the file at the path is the model written      *)
(* last, whole, or a proper part of one and then no model is published.    *)
THEOREM PathWholeOrPart == Spec => []OnDisk(file, published)
<1>1. LearnInv /\ DiskInv => OnDisk(file, published)
  BY DEF DiskInv
<1> QED BY <1>1, AllAlways, PTL
-----------------------------------------------------------------------------
(* crf_test, when no model is written over one that it has mapped.         *)

LEMMA StoredIs ==
  ASSUME NEW m, ModelOK(m)
  PROVE  /\ Stored(m) # NotYet /\ NotYet = NoModel
         /\ Stored(m) = [y |-> m.y, uni |-> m.uni, bi |-> m.bi, dic |-> m.dic,
                         maxid |-> m.maxid, xsize |-> m.xsize, alpha |-> Weights(m)]
<1>1. m = [y |-> m.y, uni |-> m.uni, bi |-> m.bi, dic |-> m.dic,
           maxid |-> m.maxid, xsize |-> m.xsize, alpha |-> m.alpha]
  BY DEF ModelOK
<1> DEFINE s == Stored(m)
           w == Weights(m)
<1>2. s = [y |-> m.y, uni |-> m.uni, bi |-> m.bi, dic |-> m.dic,
           maxid |-> m.maxid, xsize |-> m.xsize, alpha |-> w]
  BY <1>1 DEF Stored
<1> HIDE DEF s, w
<1>3. DOMAIN s = {"y", "uni", "bi", "dic", "maxid", "xsize", "alpha"}
  BY <1>2
<1>4. DOMAIN NotYet = {"kind"}
  BY DEF NotYet
<1>5. s # NotYet
  BY <1>3, <1>4
<1>6. NotYet = NoModel
  BY DEF NotYet, NoModel
<1> QED BY <1>2, <1>5, <1>6 DEF s, w

(* Where the tagger looks for the dictionary and the weights of a whole    *)
(* file, they are.                                                         *)
LEMMA PartsFound ==
  ASSUME NEW m, ModelOK(m), NEW junk
  PROVE  LET f == Binary(m)
             a == ArrayFrom(f, junk)
             w == WeightsFrom(f, junk)
         IN  Region(f, a, w - a, 0) = m.dic /\ Region(f, w, m.maxid, 0) = Weights(m)
<1> DEFINE f == Binary(m)
           ny == Len(m.y)
           nt == Len(Padded(m))
           nd == Len(m.dic)
<1>0. IsModel(m)
  BY DEF ModelOK
<1>1. /\ ny \in Nat /\ nt \in Nat /\ nd \in Nat /\ m.maxid \in Nat
      /\ Len(f) = 8 + ny + nt + nd + m.maxid
      /\ f[6] = nd /\ f[7] = ny /\ f[8 + ny] = nt
  BY <1>0, Layout
<1>2. /\ Index(f, 0).dic = m.dic /\ Index(f, 0).alpha = Weights(m)
      /\ Index(f, 0).maxid = m.maxid
  BY <1>0, WholeReadBack
<1> HIDE DEF f, ny, nt, nd
<1>3. \A z : ArrayFrom(f, z) = 8 + ny + nt /\ WeightsFrom(f, z) = 8 + ny + nt + nd
             /\ At(f, 6, z) = nd
  <2> TAKE z
  <2>1. \A i \in 1 .. Len(f) : At(f, i, z) = f[i]
    BY <1>1 DEF At
  <2>2. At(f, 6, z) = nd /\ At(f, 7, z) = ny /\ At(f, 8 + ny, z) = nt
    BY <1>1, <2>1
  <2>3. TemplatesFrom(f, z) = 8 + ny
    BY <1>1, <2>2 DEF TemplatesFrom, TagsFrom
  <2>4. ArrayFrom(f, z) = 8 + ny + nt
    BY <1>1, <2>2, <2>3 DEF ArrayFrom
  <2>5. WeightsFrom(f, z) = 8 + ny + nt + nd
    BY <1>1, <2>2, <2>4 DEF WeightsFrom
  <2> QED BY <2>2, <2>4, <2>5
<1>4. Index(f, 0).dic = Region(f, ArrayFrom(f, 0), At(f, 6, 0), 0)
      /\ Index(f, 0).alpha = Region(f, WeightsFrom(f, 0), At(f, 4, 0), 0)
      /\ Index(f, 0).maxid = At(f, 4, 0)
  BY DEF Index
<1>5. WeightsFrom(f, junk) - ArrayFrom(f, junk) = nd
  BY <1>1, <1>3
<1> QED BY <1>2, <1>3, <1>4, <1>5 DEF f

TestInv ==
  /\ tphase \in {"idle", "open", "mapped", "input", "parse", "fault"}
  /\ tphase \in {"idle", "open"} => decoder = NoModel /\ mapped = NoMap
  /\ tphase \in {"mapped", "input", "parse", "fault"} =>
       /\ mapped = [size |-> mapped.size, array |-> mapped.array, weights |-> mapped.weights]
       /\ mapped.size \in 1 .. Len(file)
  /\ tphase = "mapped" => decoder = NoModel
  /\ tphase \in {"input", "parse", "fault"} =>
       decoder = published /\ published # NotYet /\ Now(file) = decoder
  /\ IsSeq(out)

LEMMA TestInit1 == Init => TestInv
<1> SUFFICES ASSUME Init PROVE TestInv
  OBVIOUS
<1>1. tphase = "idle" /\ mapped = NoMap /\ decoder = NoModel /\ out = <<>>
  BY DEF Init, TestInit
<1>2. IsSeq(out)
  BY <1>1, EmptyIsSeq
<1> QED BY <1>1, <1>2 DEF TestInv

(* The step of the abstract specification that a step is.                  *)
AbstractStep == Store!Next \/ UNCHANGED Store!vars

LEMMA Ended ==
  ASSUME NEW rc, Returns(rc), UNCHANGED published, IsSeq(out'), out' \in {out, <<>>}
  PROVE  TestInv' /\ AbstractStep
<1>1. tphase' = "idle" /\ mapped' = NoMap /\ decoder' = NoModel
  BY DEF Returns
<1>2. TestInv'
  BY <1>1 DEF TestInv
<1>3. Said' \in {Said, NoModel}
  BY DEF Said
<1>4. Store!Leave
  BY <1>1, <1>3 DEF Store!Leave, Store!None, NoModel
<1> QED BY <1>2, <1>4 DEF AbstractStep, Store!Next

(* A model is loaded only when it was published.                           *)
LEMMA Loaded ==
  ASSUME DiskInv, TestInv, UNCHANGED <<file, published>>, ReadModel(file)
  PROVE  TestInv' /\ AbstractStep
<1>1. /\ tphase = "mapped" /\ UNCHANGED out /\ IsSeq(out)
      /\ mapped = [size |-> mapped.size, array |-> mapped.array, weights |-> mapped.weights]
      /\ mapped.size \in 1 .. Len(file)
  BY DEF ReadModel, TestInv
<1>2. CASE Returns(-1)
  BY <1>1, <1>2, Ended
<1>3. CASE \E junk \in Junk :
             /\ Opens(file, mapped.size, junk)
             /\ decoder' = Index(file, junk)
             /\ mapped' = [mapped EXCEPT !.array = ArrayFrom(file, junk),
                                         !.weights = WeightsFrom(file, junk)]
             /\ tphase' = "input"
  <2>1. PICK junk \in Junk :
             /\ Opens(file, mapped.size, junk)
             /\ decoder' = Index(file, junk)
             /\ mapped' = [mapped EXCEPT !.array = ArrayFrom(file, junk),
                                         !.weights = WeightsFrom(file, junk)]
             /\ tphase' = "input"
    BY <1>3
  <2>2. junk \in Nat
    BY JunkAssumption
  <2>3. PICK m : ModelOK(m) /\ (Whole(m, file, published) \/ Partial(m, file, published))
    BY DEF DiskInv, OnDisk
  <2>4. Whole(m, file, published)
    <3> SUFFICES ASSUME Partial(m, file, published) PROVE FALSE
      BY <2>3
    <3> DEFINE b == Binary(m)
    <3>1. PICK k \in 0 .. Len(b) - 1 : file = SubSeq(b, 1, k)
      BY DEF Partial
    <3>2. IsModel(m)
      BY <2>3 DEF ModelOK
    <3>3. Len(b) \in Nat /\ \E R : b \in Seq(R)
      BY <2>3, FileSeq
    <3>4. k \in 0 .. Len(b) /\ k < Len(b) /\ Len(file) = k
      <4>1. PICK R : b \in Seq(R)
        BY <3>3
      <4> HIDE DEF b
      <4>2. k \in 0 .. Len(b) /\ k < Len(b)
        BY <3>3
      <4> QED BY <3>1, <4>1, <4>2, Prefix
    <3>5. mapped.size \in 0 .. k /\ mapped.size < Len(b)
      <4> HIDE DEF b
      <4> QED BY <1>1, <3>3, <3>4
    <3>6. ~Opens(SubSeq(b, 1, k), mapped.size, junk)
      BY <2>2, <3>2, <3>4, <3>5, CutRefused
    <3> QED BY <2>1, <3>1, <3>6
  <2>5. published = Stored(m) /\ file = Binary(m)
    BY <2>4 DEF Whole
  <2>6. decoder' = published
    BY <2>1, <2>3, <2>5, ModelReadBack
  <2>7. published # NotYet /\ NotYet = NoModel
    BY <2>3, <2>5, StoredIs
  <2> DEFINE a == ArrayFrom(file, junk)
             w == WeightsFrom(file, junk)
             n == mapped.size
  <2>8. mapped' = [size |-> n, array |-> a, weights |-> w]
    <3> HIDE DEF a, w
    <3>1. mapped' = [mapped EXCEPT !.array = a, !.weights = w]
      BY <2>1 DEF a, w
    <3> QED BY <1>1, <3>1
  <2>9. Region(file, a, w - a, 0) = m.dic /\ Region(file, w, m.maxid, 0) = Weights(m)
    BY <2>3, <2>5, PartsFound
  <2>10. Now(file)' = decoder'
    <3> DEFINE d == decoder'
    <3>1. d = [y |-> m.y, uni |-> m.uni, bi |-> m.bi, dic |-> m.dic,
               maxid |-> m.maxid, xsize |-> m.xsize, alpha |-> Weights(m)]
      BY <2>3, <2>5, <2>6, StoredIs
    <3>2. mapped'.array = a /\ mapped'.weights = w
      BY <2>8
    <3>3. d.maxid = m.maxid
      BY <3>1
    <3>4. Now(file)' = [d EXCEPT !.dic = Region(file, a, w - a, 0),
                                 !.alpha = Region(file, w, d.maxid, 0)]
      BY <3>2 DEF Now
    <3> HIDE DEF d, a, w
    <3>5. Now(file)' = [d EXCEPT !.dic = m.dic, !.alpha = Weights(m)]
      BY <2>9, <3>3, <3>4
    <3>6. [d EXCEPT !.dic = m.dic, !.alpha = Weights(m)] = d
      <4> DEFINE v == Weights(m)
                 e == [d EXCEPT !.dic = m.dic, !.alpha = v]
      <4>1. d.dic = m.dic /\ d.alpha = v /\ d = [f \in DOMAIN d |-> d[f]]
        BY <3>1
      <4> HIDE DEF v
      <4>2. DOMAIN e = DOMAIN d /\ e = [f \in DOMAIN e |-> e[f]]
        BY <4>1
      <4>3. \A f \in DOMAIN d : e[f] = d[f]
        BY <4>1
      <4> HIDE DEF e
      <4>4. e = d
        BY <4>1, <4>2, <4>3
      <4> QED BY <4>4 DEF e, v
    <3> QED BY <3>5, <3>6 DEF d
  <2>11. TestInv'
    <3>1. mapped'.size \in 1 .. Len(file) /\ file' = file /\ out' = out /\ published' = published
          /\ tphase' = "input"
          /\ mapped' = [size |-> mapped'.size, array |-> mapped'.array,
                        weights |-> mapped'.weights]
      BY <1>1, <2>1, <2>8
    <3> QED BY <1>1, <2>6, <2>7, <2>10, <3>1 DEF TestInv
  <2>12. Store!Load
    <3>1. Said' = Said
      BY <1>1 DEF Said
    <3> QED BY <2>6, <2>7, <3>1 DEF Store!Load, Store!None, NoModel
  <2> QED BY <2>11, <2>12 DEF AbstractStep, Store!Next
<1> QED BY <1>2, <1>3 DEF ReadModel

LEMMA Answered1 ==
  ASSUME TestInv, UNCHANGED <<file, published>>, ParseSentence(file)
  PROVE  TestInv' /\ AbstractStep
<1>1. /\ tphase = "parse" /\ UNCHANGED <<file, published, mapped, decoder>>
      /\ tphase' \in {"parse", "fault"} /\ IsSeq(out)
      /\ decoder = published /\ published # NotYet /\ Now(file) = decoder
  BY DEF ParseSentence, TestInv
<1>2. out' = out \/ \E tokens : out' = Append(out, [tokens |-> tokens, by |-> Now(file)])
  BY DEF ParseSentence
<1>3. CASE out' = out
  <2>1. Said' = Said
    BY <1>3 DEF Said
  <2>2. TestInv'
    BY <1>1, <1>3 DEF TestInv, Now
  <2> QED BY <1>1, <2>1, <2>2 DEF AbstractStep, Store!vars
<1>4. CASE \E tokens : out' = Append(out, [tokens |-> tokens, by |-> Now(file)])
  <2>1. PICK tokens : out' = Append(out, [tokens |-> tokens, by |-> Now(file)])
    BY <1>4
  <2> DEFINE e == [tokens |-> tokens, by |-> Now(file)]
             S == {out[i] : i \in 1 .. Len(out)} \cup {e}
  <2>2. e.by = decoder /\ out' = Append(out, e) /\ e \in S
    BY <1>1, <2>1
  <2>3. out \in Seq(S)
    <3>1. out \in Seq({out[i] : i \in 1 .. Len(out)})
      BY <1>1, ListIsSeq
    <3> HIDE DEF e
    <3> QED BY <3>1
  <2> HIDE DEF e, S
  <2>4. out' \in Seq(S) /\ Len(out') # 0 /\ out'[Len(out')] = e
    BY <2>2, <2>3
  <2>5. out' # <<>>
    BY <2>4
  <2>6. Said' = decoder
    BY <2>2, <2>4, <2>5 DEF Said
  <2>7. IsSeq(out')
    BY <2>4, OfSeq
  <2>8. TestInv'
    BY <1>1, <2>7 DEF TestInv, Now
  <2>9. decoder # NoModel
    BY <1>1 DEF NotYet, NoModel
  <2>10. Store!Answer
    BY <1>1, <2>6, <2>9 DEF Store!Answer, Store!None, NoModel
  <2> QED BY <2>8, <2>10 DEF AbstractStep, Store!Next
<1> QED BY <1>2, <1>3, <1>4

LEMMA FileLength ==
  ASSUME DiskInv
  PROVE  Len(file) \in Nat /\ (file # <<>> => Len(file) # 0)
<1>1. PICK m : ModelOK(m) /\ (Whole(m, file, published) \/ Partial(m, file, published))
  BY DEF DiskInv, OnDisk
<1> DEFINE b == Binary(m)
<1>2. Len(b) \in Nat /\ \E R : b \in Seq(R)
  BY <1>1, FileSeq
<1>3. file = b \/ \E k \in 0 .. Len(b) - 1 : file = SubSeq(b, 1, k)
  BY <1>1 DEF Whole, Partial
<1>4. PICK R : b \in Seq(R)
  BY <1>2
<1> HIDE DEF b
<1>5. file \in Seq(R)
  BY <1>2, <1>3, <1>4
<1> QED BY <1>5

LEMMA TestStep ==
  ASSUME DiskInv, TestInv, TestStart \/ Testing(file), UNCHANGED <<file, published>>
  PROVE  TestInv' /\ AbstractStep
<1>0. IsSeq(out) /\ IsSeq(<<>>)
  BY EmptyIsSeq DEF TestInv
<1>1. CASE TestStart
  <2>1. tphase = "idle" /\ out' = <<>>
    BY <1>1 DEF TestStart
  <2>2. CASE Returns(-1)
    BY <1>0, <2>1, <2>2, Ended
  <2>3. CASE tphase' = "open" /\ UNCHANGED <<mapped, decoder>>
    <3>1. decoder' = NoModel /\ mapped' = NoMap
      BY <2>1, <2>3 DEF TestInv
    <3>2. TestInv'
      BY <1>0, <2>1, <2>3, <3>1 DEF TestInv
    <3>3. Said' \in {Said, NoModel}
      BY <2>1 DEF Said
    <3>4. Store!Leave
      BY <3>1, <3>3 DEF Store!Leave, Store!None, NoModel
    <3> QED BY <3>2, <3>4 DEF AbstractStep, Store!Next
  <2> QED BY <1>1, <2>2, <2>3 DEF TestStart
<1>2. CASE MapModel(file)
  <2>1. tphase = "open" /\ out' = out /\ decoder = NoModel
    BY <1>2 DEF MapModel, TestInv
  <2>2. CASE Returns(-1)
    BY <1>0, <2>1, <2>2, Ended
  <2>3. CASE /\ file # <<>> /\ mapped' = [NoMap EXCEPT !.size = Len(file)]
             /\ tphase' = "mapped" /\ UNCHANGED decoder
    <3>1. Len(file) \in 1 .. Len(file)
      <4>1. Len(file) \in Nat /\ Len(file) # 0
        BY <2>3, FileLength
      <4> QED BY <4>1
    <3> DEFINE n == Len(file)
    <3> HIDE DEF n
    <3>2. mapped' = [size |-> n, array |-> 0, weights |-> 0]
      BY <2>3 DEF NoMap, n
    <3>3. mapped'.size = n
          /\ mapped' = [size |-> mapped'.size, array |-> mapped'.array,
                        weights |-> mapped'.weights]
      BY <3>2
    <3>4. TestInv'
      BY <1>0, <2>1, <2>3, <3>1, <3>3 DEF TestInv, n
    <3>5. Said' = Said
      BY <2>1 DEF Said
    <3> QED BY <2>3, <3>4, <3>5 DEF AbstractStep, Store!vars
  <2> QED BY <1>2, <2>2, <2>3 DEF MapModel
<1>3. CASE ReadModel(file)
  BY <1>3, Loaded
<1>4. CASE OpenInput
  <2>1. tphase = "input" /\ out' = out
    BY <1>4 DEF OpenInput
  <2>2. CASE Returns(-1)
    BY <1>0, <2>1, <2>2, Ended
  <2>3. CASE tphase' = "parse" /\ UNCHANGED <<mapped, decoder>>
    <3>1. TestInv' /\ Said' = Said
      BY <2>1, <2>3 DEF TestInv, Said, Now
    <3> QED BY <2>3, <3>1 DEF AbstractStep, Store!vars
  <2> QED BY <1>4, <2>2, <2>3 DEF OpenInput
<1>5. CASE ParseSentence(file)
  BY <1>5, Answered1
<1>6. CASE EndOfInput
  <2>1. tphase = "parse" /\ tphase' = "input" /\ UNCHANGED <<mapped, decoder, out>>
    BY <1>6 DEF EndOfInput
  <2>2. TestInv' /\ Said' = Said
    BY <2>1 DEF TestInv, Said, Now
  <2> QED BY <2>1, <2>2 DEF AbstractStep, Store!vars
<1>7. CASE EndOfFiles
  <2>1. Returns(0) /\ out' = out
    BY <1>7 DEF EndOfFiles
  <2> QED BY <1>0, <2>1, Ended
<1> QED BY <1>1, <1>2, <1>3, <1>4, <1>5, <1>6, <1>7 DEF Testing

(* crf_learn, meanwhile: the model of a tagger stays where it is mapped.   *)
LEMMA LearnUnder ==
  ASSUME "in_place" \notin Liberties, LearnInv, DiskInv, TestInv,
         Learning, UNCHANGED testVars
  PROVE  TestInv' /\ AbstractStep
<1>1. UNCHANGED <<tphase, mapped, decoder, out>> /\ Said' = Said
  BY DEF testVars, Said
<1>2. UNCHANGED <<file, published>> \/ SaveOpen \/ SaveCell
  BY DiskStep DEF Next
<1>3. CASE UNCHANGED <<file, published>>
  <2>1. TestInv'
    BY <1>1, <1>3 DEF TestInv, Now
  <2> QED BY <1>1, <1>3, <2>1 DEF AbstractStep, Store!vars
<1>4. CASE SaveOpen
  <2>1. lphase = "save" /\ lphase' = "write" /\ published' = NotYet
    BY <1>4 DEF SaveOpen
  <2>2. /\ ~LearnRefused /\ ~LearnOpen /\ ~Convert
        /\ ~ReadSentence /\ ~ShrinkDictionary /\ ~Train /\ ~DeleteSentences
        /\ ~SaveCell /\ ~Finish /\ ~TextRefused
    BY <2>1 DEF LearnRefused, LearnOpen, Convert, FreshRun, ReadSentence,
                ShrinkDictionary, Train, DeleteSentences, SaveCell, Finish, TextRefused
  <2>3. ~SaveRefused /\ ~Kill
    BY <2>1 DEF SaveRefused, Kill, Complains, Ends
  <2>4. mapped = NoMap
    BY <2>2, <2>3 DEF Learning, Working, IsMapped, May
  <2>5. NoMap.size = 0
    BY DEF NoMap
  <2>6. tphase \in {"idle", "open"} /\ decoder = NoModel
    BY <2>4, <2>5 DEF TestInv
  <2>7. TestInv'
    BY <1>1, <2>6 DEF TestInv
  <2>8. Store!Withdraw
    BY <1>1, <2>1 DEF Store!Withdraw, Store!None, NotYet
  <2> QED BY <2>7, <2>8 DEF AbstractStep, Store!Next
<1>5. CASE SaveCell
  <2>1. /\ published = NotYet /\ Len(file') = Len(file) + 1
        /\ \/ published' = published
           \/ published' = Stored(ToSave(index))
    BY <1>5, CellSaved
  <2>2. tphase \in {"idle", "open", "mapped"}
    BY <2>1 DEF TestInv
  <2>3. TestInv'
    BY <1>1, <2>1, <2>2 DEF TestInv
  <2>4. Stored(ToSave(index)) # NotYet
    BY ToSaveOK, StoredIs DEF LearnInv
  <2>5. published' = published \/ Store!Publish
    BY <1>1, <2>1, <2>4 DEF Store!Publish, Store!None, NotYet
  <2> QED BY <1>1, <2>3, <2>5 DEF AbstractStep, Store!Next, Store!vars
<1> QED BY <1>2, <1>3, <1>4, <1>5

LEMMA StoreStep ==
  ASSUME "in_place" \notin Liberties, LearnInv, DiskInv, TestInv, [Next]_vars
  PROVE  TestInv' /\ AbstractStep
<1>1. CASE Learning /\ UNCHANGED testVars
  BY <1>1, LearnUnder
<1>2. CASE (TestStart \/ Testing(file)) /\ UNCHANGED <<learnVars, diskVars>>
  <2>1. UNCHANGED <<file, published>>
    BY <1>2 DEF diskVars
  <2> QED BY <1>2, <2>1, TestStep
<1>3. CASE UNCHANGED vars
  <2>1. UNCHANGED <<tphase, mapped, decoder, out, file, published>>
    BY <1>3 DEF vars, testVars, diskVars
  <2>2. TestInv' /\ Said' = Said
    BY <2>1 DEF TestInv, Said, Now
  <2> QED BY <2>1, <2>2 DEF AbstractStep, Store!vars
<1> QED BY <1>1, <1>2, <1>3 DEF Next

(* However the runs of crf_learn and crf_test interleave, wherever         *)
(* crf_learn is killed and whatever a page holds past the end of a file,   *)
(* crf_test answers only by a model that was at the path whole when it was *)
(* opened: Toolchain implements ModelStore, for any files and command      *)
(* lines (feature_index.cpp 192-252, 403-501, mmap.h 150-213).             *)
THEOREM ToolchainImplementsStore ==
  ASSUME "in_place" \notin Liberties
  PROVE  Spec => Implements
<1>1. Init => TestInv /\ Store!Init
  <2>1. Init => published = NotYet /\ decoder = NoModel /\ out = <<>>
    BY DEF Init, LearnInit, TestInit
  <2>2. Init => Store!Init
    BY <2>1 DEF Store!Init, Store!None, NotYet, NoModel, Said
  <2> QED BY <2>2, TestInit1
<1>2. LearnInv /\ DiskInv /\ TestInv /\ [Next]_vars => TestInv' /\ [Store!Next]_(Store!vars)
  BY StoreStep DEF AbstractStep
<1>3. Spec => [](LearnInv /\ DiskInv)
  BY AllAlways
<1> QED BY <1>1, <1>2, <1>3, PTL DEF Spec, Implements, Store!Spec
-----------------------------------------------------------------------------
(* Reading sentences one after the other, and counting them.               *)

(* A place is the n-th when n places go up to it.                          *)
LEMMA NthUnique ==
  ASSUME NEW T, IsFiniteSet(T), T \subseteq Int, NEW i \in T, NEW k,
         Cardinality(Through(T, i)) = k
  PROVE  Nth(T, k) = i
<1> DEFINE j == Nth(T, k)
<1>1. j \in T /\ Cardinality(Through(T, j)) = k
  <2>1. \E a \in T : Cardinality({b \in T : b <= a}) = k
    BY DEF Through
  <2> QED BY <2>1 DEF Nth, Through
<1> HIDE DEF j
<1>2. i \in Int /\ j \in Int
  BY <1>1
<1>3. IsFiniteSet(Through(T, i)) /\ IsFiniteSet(Through(T, j))
  <2>1. Through(T, i) \subseteq T /\ Through(T, j) \subseteq T
    BY DEF Through
  <2> QED BY <2>1, FS_Subset
<1>4. i \in Through(T, i) /\ j \in Through(T, j)
  BY <1>1, <1>2 DEF Through
<1>5. i <= j => Through(T, i) \subseteq Through(T, j)
  <2>1. \A z \in T : i <= j /\ z <= i => z <= j
    BY <1>2
  <2> QED BY <2>1 DEF Through
<1>6. j <= i => Through(T, j) \subseteq Through(T, i)
  <2>1. \A z \in T : j <= i /\ z <= j => z <= i
    BY <1>2
  <2> QED BY <2>1 DEF Through
<1>7. Through(T, i) = Through(T, j)
  <2>1. CASE i <= j
    BY <1>1, <1>3, <1>5, <2>1, FS_Subset
  <2>2. CASE j <= i
    BY <1>1, <1>3, <1>6, <2>2, FS_Subset
  <2> QED BY <1>2, <2>1, <2>2
<1>8. j <= i /\ i <= j
  <2>1. j \in Through(T, i) /\ i \in Through(T, j)
    BY <1>4, <1>7
  <2> QED BY <2>1 DEF Through
<1>9. j = i
  BY <1>2, <1>8
<1> QED BY <1>9 DEF j

(* From place p to place q there is no new one, or one.                    *)
LEMMA ThroughSame ==
  ASSUME NEW N \in Nat, NEW T, T \subseteq 1 .. N, NEW p \in Nat, NEW q \in Nat, p <= q,
         \A i \in p + 1 .. q : i \notin T
  PROVE  Through(T, q) = Through(T, p)
<1>1. ASSUME NEW i \in T PROVE i <= q <=> i <= p
  <2>1. i \in Nat /\ i \notin p + 1 .. q
    BY <1>1
  <2> QED BY <2>1
<1> QED BY <1>1 DEF Through

LEMMA ThroughOne ==
  ASSUME NEW N \in Nat, NEW T, T \subseteq 1 .. N, NEW p \in Nat, NEW q \in Nat, p < q,
         p + 1 \in T, \A i \in p + 2 .. q : i \notin T
  PROVE  /\ Cardinality(Through(T, q)) = Cardinality(Through(T, p)) + 1
         /\ Nth(T, Cardinality(Through(T, p)) + 1) = p + 1
<1> DEFINE a == p + 1
<1>1. \A i \in T : i \in Nat
  OBVIOUS
<1>2. Through(T, q) = Through(T, p) \cup {a} /\ Through(T, a) = Through(T, q)
  <2>1. ASSUME NEW i \in T
        PROVE  (i <= q <=> i <= p \/ i = a) /\ (i <= a <=> i <= q)
    <3>1. i \in Nat /\ i \notin p + 2 .. q
      BY <1>1
    <3> QED BY <3>1
  <2>2. a \in T
    OBVIOUS
  <2> HIDE DEF a
  <2> QED BY <2>1, <2>2 DEF Through
<1>3. a \notin Through(T, p)
  <2>1. ~(a <= p)
    OBVIOUS
  <2> HIDE DEF a
  <2> QED BY <2>1 DEF Through
<1>4. IsFiniteSet(Through(T, p)) /\ IsFiniteSet(T)
  BY ThroughFinite
<1>5. a \in T /\ T \subseteq Int
  BY <1>1
<1> HIDE DEF a
<1>6. Cardinality(Through(T, q)) = Cardinality(Through(T, p)) + 1
  BY <1>2, <1>3, <1>4, FS_AddElement
<1>7. Nth(T, Cardinality(Through(T, p)) + 1) = a
  BY <1>2, <1>4, <1>5, <1>6, NthUnique
<1> QED BY <1>6, <1>7 DEF a

(* The lines before the first overlong one.                                *)
LEMMA VisibleIs ==
  ASSUME NEW f \in Seq(InputLine), NEW v, v = Visible(f)
  PROVE  /\ v \in Seq(InputLine) /\ Len(f) \in Nat /\ Len(v) \in 0 .. Len(f)
         /\ \A i \in 1 .. Len(v) : v[i] = f[i] /\ v[i] # Overlong
         /\ IsEnd(f, Len(v) + 1)
<1> DEFINE long == {i \in 1 .. Len(f) : f[i] = Overlong}
           n == Len(f)
<1>1. n \in Nat /\ \A i \in 1 .. n : f[i] = Overlong => i \in long
  OBVIOUS
<1>2. CASE long = {}
  <2>1. v = f
    BY <1>2 DEF Visible
  <2>2. \A i \in 1 .. n : f[i] # Overlong
    BY <1>1, <1>2
  <2> HIDE DEF long
  <2> QED BY <1>1, <2>1, <2>2 DEF IsEnd
<1>3. CASE long # {}
  <2>1. long \subseteq Nat
    BY <1>1
  <2>2. PICK b \in long : \A j \in long : b <= j
    BY <1>3, <2>1, Least
  <2>3. Min(long) \in long /\ \A j \in long : Min(long) <= j
    <3> HIDE DEF long
    <3> QED BY <2>2 DEF Min
  <2> DEFINE k == Min(long) - 1
  <2>4. k \in 0 .. n - 1 /\ f[k + 1] = Overlong /\ k + 1 = Min(long)
    BY <1>1, <2>3
  <2>5. \A i \in 1 .. k : f[i] # Overlong
    <3> SUFFICES ASSUME NEW i \in 1 .. k, f[i] = Overlong PROVE FALSE
      OBVIOUS
    <3>1. i \in long /\ i <= k
      BY <1>1, <2>4
    <3>2. Min(long) <= i
      BY <2>3, <3>1
    <3> QED BY <2>4, <3>1, <3>2
  <2>6. v = SubSeq(f, 1, k)
    BY <1>3 DEF Visible
  <2> HIDE DEF k, long
  <2>7. v \in Seq(InputLine) /\ Len(v) = k /\ \A i \in 1 .. k : v[i] = f[i]
    <3> DEFINE R == InputLine
    <3>1. f \in Seq(R)
      OBVIOUS
    <3> HIDE DEF R
    <3>2. SubSeq(f, 1, k) \in Seq(R) /\ Len(SubSeq(f, 1, k)) = k
          /\ \A i \in 1 .. k : SubSeq(f, 1, k)[i] = f[i]
      BY <1>1, <2>4, <3>1
    <3> QED BY <2>6, <3>2 DEF R
  <2> QED BY <1>1, <2>4, <2>5, <2>7 DEF IsEnd
<1> QED BY <1>2, <1>3

LEMMA LineIs ==
  ASSUME NEW l \in InputLine
  PROVE  /\ l.cols \in Int /\ (l.cols > 0 => l.tag \in Int)
         /\ l # Overlong => (l.cols > 0 <=> l # Separator)
BY DEF InputLine, Separator, Overlong, Line

(* One call of read() from line p + 1 on takes the good lines up to a line *)
(* q that is not good, or to the end.                                      *)
Run(v, need, p, q) ==
  /\ p \in 0 .. Len(v) /\ q \in p + 1 .. Len(v) + 1
  /\ \A i \in p + 1 .. q - 1 : Good(v, need, i)
  /\ ~Good(v, need, p) /\ ~Good(v, need, q)

Closed(v, q) == q = Len(v) + 1 \/ v[q] = Separator

LEMMA SubSeqIs ==
  ASSUME NEW R, NEW s \in Seq(R), NEW a \in Nat, a >= 1, NEW b \in Nat, b <= Len(s), a - 1 <= b
  PROVE  /\ SubSeq(s, a, b) \in Seq(R) /\ Len(SubSeq(s, a, b)) = b - (a - 1)
         /\ \A i \in 1 .. b - (a - 1) : SubSeq(s, a, b)[i] = s[(a - 1) + i]
OBVIOUS

LEMMA SameSeq ==
  ASSUME NEW R, NEW s \in Seq(R), NEW Q, NEW t \in Seq(Q), Len(s) = Len(t),
         \A i \in 1 .. Len(s) : s[i] = t[i]
  PROVE  s = t
<1>1. s = [i \in 1 .. Len(s) |-> s[i]] /\ t = [i \in 1 .. Len(t) |-> t[i]]
  OBVIOUS
<1> QED BY <1>1

ReadGives(f, v, need, p, r) ==
  \E q \in p + 1 .. Len(v) + 1 :
    /\ Run(v, need, p, q)
    /\ r.tokens = SubSeq(v, p + 1, q - 1)
    /\ r.ok <=> Closed(v, q)
    /\ r.good <=> q <= Len(v)
    /\ r.good => r.rest = SubSeq(f, q + 1, Len(f))

LEMMA ReadIs ==
  ASSUME NEW f \in Seq(InputLine), NEW v, v = Visible(f), NEW need \in Int,
         NEW p \in 0 .. Len(v), ~Good(v, need, p),
         NEW rest, rest = SubSeq(f, p + 1, Len(f)), NEW r, r = Read(rest, need)
  PROVE  ReadGives(f, v, need, p, r)
<1> DEFINE R == InputLine
           n == Len(f)
           k == Len(v)
<1>1. /\ f \in Seq(R) /\ v \in Seq(R) /\ n \in Nat /\ k \in 0 .. n
      /\ \A i \in 1 .. k : v[i] = f[i] /\ v[i] # Overlong
      /\ IsEnd(f, k + 1)
  BY VisibleIs
<1>2. \A i \in 1 .. k : v[i].cols \in Int
  <2>1. \A i \in 1 .. k : v[i] \in R
    <3> HIDE DEF R
    <3> QED BY <1>1
  <2> QED BY <2>1, LineIs
<1>3. p \in 0 .. k /\ p \in Nat /\ k \in Nat /\ p <= n
  BY <1>1
<1> HIDE DEF R, n, k
<1>4. /\ rest \in Seq(R) /\ Len(rest) = n - p
      /\ \A i \in 1 .. n - p : rest[i] = f[p + i]
  <2> DEFINE a == p + 1
  <2>1. a \in Nat /\ a >= 1 /\ a - 1 = p /\ a - 1 <= n
    BY <1>3
  <2> HIDE DEF a
  <2>2. /\ SubSeq(f, a, n) \in Seq(R) /\ Len(SubSeq(f, a, n)) = n - (a - 1)
        /\ \A i \in 1 .. n - (a - 1) : SubSeq(f, a, n)[i] = f[(a - 1) + i]
    BY <1>1, <2>1, SubSeqIs DEF n
  <2>3. rest = SubSeq(f, a, n)
    BY DEF a, n
  <2> QED BY <2>1, <2>2, <2>3
<1> DEFINE W == {i \in 1 .. Len(rest) + 1 : Stops(rest, need, i)}
           stop == Min(W)
           q == p + stop
<1>5. \A i \in 1 .. n - p + 1 : IsEnd(rest, i) <=> (p + i = n + 1 \/ f[p + i] = Overlong)
  <2> TAKE i \in 1 .. n - p + 1
  <2>1. CASE i = n - p + 1
    <3>1. p + i = n + 1
      BY <1>1, <1>3, <2>1
    <3> QED BY <1>4, <2>1, <3>1 DEF IsEnd
  <2>2. CASE i # n - p + 1
    <3>1. i \in 1 .. n - p /\ p + i # n + 1 /\ i # Len(rest) + 1
      BY <1>1, <1>3, <1>4, <2>2
    <3>2. rest[i] = f[p + i]
      BY <1>4, <3>1
    <3> QED BY <3>1, <3>2 DEF IsEnd
  <2> QED BY <2>1, <2>2
<1>6. k + 1 - p \in 1 .. n - p + 1 /\ IsEnd(rest, k + 1 - p)
  <2>1. k + 1 - p \in 1 .. n - p + 1 /\ p + (k + 1 - p) = k + 1
    BY <1>1, <1>3
  <2>2. k + 1 = n + 1 \/ f[k + 1] = Overlong
    BY <1>1 DEF IsEnd, n
  <2> QED BY <1>5, <2>1, <2>2
<1>7. k + 1 - p \in W
  BY <1>1, <1>3, <1>4, <1>6 DEF Stops
<1>8. /\ stop \in W /\ \A i \in W : stop <= i
  <2>1. W \subseteq Nat
    BY <1>1, <1>3, <1>4
  <2> HIDE DEF W
  <2>2. PICK z \in W : \A y \in W : z <= y
    BY <1>7, <2>1, Least
  <2> QED BY <2>2 DEF Min
<1>9. /\ stop \in 1 .. k + 1 - p /\ Stops(rest, need, stop)
      /\ \A i \in 1 .. stop - 1 : ~Stops(rest, need, i)
  <2>1. stop \in 1 .. n - p + 1 /\ Stops(rest, need, stop) /\ stop <= k + 1 - p
    BY <1>4, <1>7, <1>8
  <2>2. ASSUME NEW i \in 1 .. stop - 1 PROVE ~Stops(rest, need, i)
    <3>1. i \in 1 .. n - p + 1 /\ ~(stop <= i)
      BY <1>1, <1>3, <2>1
    <3>2. i \notin W
      BY <1>8, <3>1
    <3> QED BY <1>4, <3>1, <3>2
  <2> QED BY <1>1, <1>3, <2>1, <2>2
<1>10. /\ r.tokens = SubSeq(rest, 1, stop - 1)
       /\ r.ok <=> IsEnd(rest, stop) \/ rest[stop] = Separator
       /\ r.good <=> ~IsEnd(rest, stop)
       /\ ~IsEnd(rest, stop) => r.rest = SubSeq(rest, stop + 1, Len(rest))
  <2> DEFINE end == IsEnd(rest, stop)
             sep == rest[stop] = Separator
             tok == SubSeq(rest, 1, stop - 1)
             res == IF end THEN <<>> ELSE SubSeq(rest, stop + 1, Len(rest))
  <2> DEFINE ok == end \/ sep
             good == ~end
  <2>1. r = [tokens |-> tok, ok |-> ok, good |-> good, rest |-> res]
    BY DEF Read
  <2>2. ~end => res = SubSeq(rest, stop + 1, Len(rest))
    OBVIOUS
  <2> HIDE DEF end, sep, tok, res, ok, good
  <2>3. r.tokens = tok /\ r.ok = ok /\ r.good = good /\ r.rest = res
    BY <2>1
  <2> QED BY <2>2, <2>3 DEF end, sep, tok, ok, good
<1> HIDE DEF stop, W
<1>11. q \in p + 1 .. k + 1 /\ q - p = stop /\ stop \in Nat /\ p + stop = q /\ stop >= 1
  BY <1>3, <1>9
<1> HIDE DEF q
<1>12. \A i \in 1 .. k - p : rest[i] = v[p + i] /\ ~IsEnd(rest, i)
  <2> TAKE i \in 1 .. k - p
  <2>1. i \in 1 .. n - p /\ p + i \in 1 .. k /\ i \in 1 .. n - p + 1 /\ p + i # n + 1
    BY <1>1, <1>3
  <2> QED BY <1>1, <1>4, <1>5, <2>1
<1>13. IsEnd(rest, stop) <=> q = k + 1
  <2>1. CASE q = k + 1
    BY <1>3, <1>6, <1>11, <2>1
  <2>2. CASE q # k + 1
    <3>1. stop \in 1 .. k - p
      BY <1>3, <1>11, <2>2
    <3> QED BY <1>12, <2>2, <3>1
  <2> QED BY <2>1, <2>2
<1>14. ASSUME NEW i \in p + 1 .. q - 1 PROVE Good(v, need, i)
  <2>1. i \in 1 .. k /\ i - p \in 1 .. k - p /\ i - p \in 1 .. stop - 1 /\ p + (i - p) = i
    BY <1>3, <1>11
  <2>2. ~Stops(rest, need, i - p) /\ rest[i - p] = v[i]
    BY <1>9, <1>12, <2>1
  <2>3. ~(v[i].cols <= 0) /\ ~(v[i].cols < need)
    BY <2>2 DEF Stops
  <2> QED BY <1>2, <2>1, <2>3 DEF Good, k
<1>15. ~Good(v, need, q)
  <2>1. CASE q = k + 1
    <3>1. q \notin 1 .. k
      BY <1>3, <2>1
    <3> QED BY <3>1 DEF Good, k
  <2>2. CASE q # k + 1
    <3>1. stop \in 1 .. k - p /\ q \in 1 .. k
      BY <1>3, <1>11, <2>2
    <3>2. rest[stop] = v[q] /\ ~IsEnd(rest, stop)
      BY <1>11, <1>12, <3>1
    <3>3. v[q].cols <= 0 \/ v[q].cols < need
      BY <1>9, <3>2 DEF Stops
    <3> QED BY <1>2, <3>1, <3>3 DEF Good
  <2> QED BY <2>1, <2>2
<1>16. Run(v, need, p, q)
  BY <1>11, <1>14, <1>15 DEF Run, k
<1>17. r.tokens = SubSeq(v, p + 1, q - 1)
  <2> DEFINE a == p + 1
             b == q - 1
             c == stop - 1
             s == SubSeq(v, a, b)
             t == SubSeq(rest, 1, c)
  <2>1. /\ a \in Nat /\ a >= 1 /\ a - 1 = p /\ b \in Nat /\ b <= k /\ a - 1 <= b
        /\ c \in Nat /\ 1 \in Nat /\ c <= n - p /\ b - p = c
    BY <1>1, <1>3, <1>11
  <2> HIDE DEF a, b, c
  <2>2. s \in Seq(R) /\ Len(s) = b - (a - 1) /\ \A i \in 1 .. b - (a - 1) : s[i] = v[(a - 1) + i]
    BY <1>1, <2>1, SubSeqIs DEF k
  <2>3. t \in Seq(R) /\ Len(t) = c /\ \A i \in 1 .. c : t[i] = rest[i]
    BY <1>4, <2>1
  <2> HIDE DEF s, t
  <2>4. \A i \in 1 .. c : s[i] = t[i]
    <3> TAKE i \in 1 .. c
    <3>1. i \in 1 .. k - p
      BY <1>3, <2>1
    <3> QED BY <1>12, <2>1, <2>2, <2>3, <3>1
  <2>5. s = t
    BY <2>1, <2>2, <2>3, <2>4, SameSeq
  <2> QED BY <1>10, <2>5 DEF s, t, a, b, c
<1>18. r.ok <=> Closed(v, q)
  <2>1. CASE q = k + 1
    BY <1>10, <1>13, <2>1 DEF Closed, k
  <2>2. CASE q # k + 1
    <3>1. stop \in 1 .. k - p
      BY <1>3, <1>11, <2>2
    <3>2. rest[stop] = v[q] /\ ~IsEnd(rest, stop)
      BY <1>11, <1>12, <3>1
    <3> QED BY <1>10, <2>2, <3>2 DEF Closed, k
  <2> QED BY <2>1, <2>2
<1>19. r.good <=> q <= k
  BY <1>3, <1>10, <1>11, <1>13
<1>20. ASSUME r.good PROVE r.rest = SubSeq(f, q + 1, n)
  <2> DEFINE a == q + 1
             b == stop + 1
             l == Len(rest)
  <2>1. /\ a \in Nat /\ a >= 1 /\ a - 1 = q /\ a - 1 <= n /\ n \in Nat
        /\ b \in Nat /\ b >= 1 /\ b - 1 = stop /\ l = n - p /\ l \in Nat /\ b - 1 <= l
        /\ n - q = l - stop
    <3>1. q \in Nat /\ q <= k /\ q <= n /\ stop <= n - p
      BY <1>1, <1>3, <1>11, <1>19, <1>20
    <3>2. l = n - p /\ l \in Nat
      BY <1>1, <1>3, <1>4
    <3>3. n - q = (n - p) - stop
      BY <1>1, <1>3, <1>11, <3>1
    <3> HIDE DEF l
    <3>4. b - 1 <= l /\ n - q = l - stop
      BY <1>11, <3>1, <3>2, <3>3
    <3>5. a \in Nat /\ a >= 1 /\ a - 1 = q /\ a - 1 <= n /\ n \in Nat
      BY <1>1, <3>1
    <3>6. b \in Nat /\ b >= 1 /\ b - 1 = stop
      BY <1>11
    <3> HIDE DEF a, b
    <3> QED BY <3>2, <3>4, <3>5, <3>6
  <2> DEFINE s == SubSeq(f, a, n)
             t == SubSeq(rest, b, l)
  <2>2. r.rest = t
    BY <1>10, <1>20
  <2> HIDE DEF a, b, l
  <2>3. s \in Seq(R) /\ Len(s) = n - (a - 1) /\ \A i \in 1 .. n - (a - 1) : s[i] = f[(a - 1) + i]
    <3>1. n <= Len(f) /\ f \in Seq(R)
      BY <1>1, <2>1 DEF n
    <3> QED BY <2>1, <3>1, SubSeqIs
  <2>4. t \in Seq(R) /\ Len(t) = l - (b - 1)
        /\ \A i \in 1 .. l - (b - 1) : t[i] = rest[(b - 1) + i]
    <3>1. l <= Len(rest)
      BY <2>1 DEF l
    <3> QED BY <1>4, <2>1, <3>1, SubSeqIs
  <2> HIDE DEF s, t
  <2>5. \A i \in 1 .. n - q : s[i] = t[i]
    <3> TAKE i \in 1 .. n - q
    <3>1. stop + i \in 1 .. n - p /\ p + (stop + i) = q + i
      BY <1>1, <1>3, <1>11, <2>1
    <3>2. rest[stop + i] = f[q + i]
      BY <1>4, <3>1
    <3> QED BY <2>1, <2>3, <2>4, <3>2
  <2>6. s = t
    BY <2>1, <2>3, <2>4, <2>5, SameSeq
  <2> QED BY <2>2, <2>6 DEF s, a
<1> QED BY <1>11, <1>16, <1>17, <1>18, <1>19, <1>20 DEF k, n, ReadGives

(* The sentences that begin between two stops: one, or none.               *)
LEMMA RunIs ==
  ASSUME NEW v \in Seq(InputLine), NEW need \in Int, NEW p, NEW q,
         Run(v, need, p, q), \A i \in 1 .. Len(v) : v[i] # Overlong
  PROVE  LET T == FirstLines(v, need)
         IN  /\ \A i \in p + 1 .. q : i \in T <=> i = p + 1 /\ q > p + 1 /\ Closed(v, q)
             /\ q > p + 1 /\ Closed(v, q) => LastLine(v, need, p + 1) = q - 1
<1> DEFINE n == Len(v)
           T == FirstLines(v, need)
<1>1. /\ n \in Nat /\ p \in 0 .. n /\ q \in p + 1 .. n + 1 /\ p \in Nat /\ q \in Nat
      /\ \A i \in p + 1 .. q - 1 : Good(v, need, i)
      /\ ~Good(v, need, p) /\ ~Good(v, need, q)
  BY DEF Run
<1>2. \A i \in p + 1 .. q - 1 : v[i] # Separator
  <2> TAKE i \in p + 1 .. q - 1
  <2>1. v[i].cols > 0
    BY <1>1 DEF Good
  <2> QED BY <2>1 DEF Separator, Line
<1> HIDE DEF n
<1>3. ASSUME NEW i \in p + 1 .. q, NEW j \in i .. n, IsSentence(v, need, i, j)
      PROVE  i = p + 1 /\ q > p + 1 /\ j = q - 1 /\ Closed(v, q)
  <2>1. /\ \A k \in i .. j : Good(v, need, k)
        /\ ~Good(v, need, i - 1) /\ (j = n \/ v[j + 1] = Separator)
    BY <1>3 DEF IsSentence, n
  <2>2. i \in Nat /\ j \in Nat /\ i \in i .. j /\ Good(v, need, i)
    BY <1>1, <2>1
  <2>3. i # q
    BY <1>1, <2>2
  <2>4. i - 1 \notin p + 1 .. q - 1
    BY <1>1, <2>1
  <2>5. i = p + 1 /\ q > p + 1
    BY <1>1, <2>2, <2>3, <2>4
  <2>6. j < q
    <3>1. ~(q \in i .. j)
      BY <1>1, <2>1
    <3> QED BY <1>1, <2>2, <2>5, <3>1
  <2>7. ~(j < q - 1)
    <3> SUFFICES ASSUME j < q - 1 PROVE FALSE
      OBVIOUS
    <3>1. j + 1 \in p + 1 .. q - 1 /\ j # n
      BY <1>1, <2>2, <2>5
    <3> QED BY <1>2, <2>1, <3>1
  <2>8. j = q - 1 /\ j + 1 = q
    BY <1>1, <2>2, <2>6, <2>7
  <2>9. q = n + 1 \/ v[q] = Separator
    BY <1>1, <2>1, <2>8
  <2> QED BY <2>5, <2>8, <2>9 DEF Closed, n
<1>4. ASSUME q > p + 1, Closed(v, q)
      PROVE  p + 1 \in 1 .. n /\ q - 1 \in p + 1 .. n /\ IsSentence(v, need, p + 1, q - 1)
  <2>1. p + 1 \in 1 .. n /\ q - 1 \in p + 1 .. n /\ p + 1 <= q - 1 /\ (p + 1) - 1 = p
        /\ (q - 1) + 1 = q
    BY <1>1, <1>4
  <2>2. q - 1 = n \/ v[(q - 1) + 1] = Separator
    BY <1>1, <1>4, <2>1 DEF Closed, n
  <2> QED BY <1>1, <2>1, <2>2 DEF IsSentence, n
<1>5. ASSUME NEW i \in p + 1 .. q
      PROVE  i \in T <=> i = p + 1 /\ q > p + 1 /\ Closed(v, q)
  <2>1. ASSUME i \in T PROVE i = p + 1 /\ q > p + 1 /\ Closed(v, q)
    <3>1. PICK j \in i .. n : IsSentence(v, need, i, j)
      BY <2>1 DEF FirstLines, n
    <3> QED BY <1>3, <3>1
  <2>2. ASSUME i = p + 1, q > p + 1, Closed(v, q) PROVE i \in T
    BY <1>4, <2>2 DEF FirstLines, n
  <2> QED BY <2>1, <2>2
<1>6. ASSUME q > p + 1, Closed(v, q) PROVE LastLine(v, need, p + 1) = q - 1
  <2> DEFINE a == p + 1
  <2>0. a \in p + 1 .. q /\ a = p + 1
    BY <1>1
  <2>1. \E j \in a .. n : IsSentence(v, need, a, j)
    BY <1>4, <1>6
  <2>2. \A j \in a .. n : IsSentence(v, need, a, j) => j = q - 1
    BY <1>3, <2>0
  <2> HIDE DEF a
  <2>3. LastLine(v, need, a) = q - 1
    <3>1. LastLine(v, need, a) = CHOOSE j \in a .. n : IsSentence(v, need, a, j)
      BY DEF LastLine, n
    <3> QED BY <2>1, <2>2, <3>1
  <2> QED BY <2>0, <2>3
<1> QED BY <1>5, <1>6

(* openTagSet and read() agree on the lines of a training file.            *)
LEMMA GoodSame ==
  ASSUME NEW a \in Training, a.mode = "learn", Consistent(a.train),
         NEW v, v = Visible(a.train)
  PROVE  /\ Opened(a).xsize \in Nat
         /\ \A i : Good(v, Opened(a).xsize + 1, i) <=> Good(v, 1, i)
<1> DEFINE t == TokenLines(a.train)
           xs == Opened(a).xsize
<1>1. a.train \in Seq(InputLine)
  BY TrainingAssumption
<1>2. v \in Seq(InputLine) /\ Len(v) \in Nat /\ t = {l \in Range(v) : l.cols > 0}
  <2>1. v \in Seq(InputLine)
    BY <1>1, VisibleIs
  <2> QED BY <2>1 DEF TokenLines
<1>3. \A i \in 1 .. Len(v) : v[i] \in Range(v) /\ v[i].cols \in Int
  <2>1. \A i \in 1 .. Len(v) : v[i] \in InputLine
    <3> DEFINE R == InputLine
    <3>1. v \in Seq(R)
      BY <1>2
    <3> HIDE DEF R
    <3> QED BY <3>1 DEF R
  <2>2. \A i \in 1 .. Len(v) : v[i] \in Range(v)
    BY <1>2 DEF Range
  <2> QED BY <2>1, <2>2, LineIs
<1>4. \A k, l \in t : k.cols = l.cols
  BY DEF Consistent
<1>5. xs = IF t = {} THEN 0 ELSE (CHOOSE l \in t : TRUE).cols - 1
  BY DEF Opened, NoIndex
<1>6. \A l \in t : l.cols \in Int /\ l.cols > 0
  <2> TAKE l \in t
  <2>1. l \in Range(v) /\ l.cols > 0
    BY <1>2
  <2>2. PICK i \in 1 .. Len(v) : l = v[i]
    BY <1>2, <2>1 DEF Range
  <2> QED BY <1>3, <2>1, <2>2
<1>7. \A i \in 1 .. Len(v) : v[i].cols > 0 => v[i] \in t
  BY <1>2, <1>3
<1> HIDE DEF t, xs
<1>8. CASE t = {}
  <2>1. xs = 0
    BY <1>5, <1>8
  <2> QED BY <2>1 DEF xs
<1>9. CASE t # {}
  <2> DEFINE c == CHOOSE l \in t : TRUE
  <2>1. c \in t
    BY <1>9
  <2>2. xs = c.cols - 1
    BY <1>5, <1>9
  <2> HIDE DEF c
  <2>3. xs \in Nat /\ xs + 1 = c.cols
    BY <1>6, <2>1, <2>2
  <2>4. ASSUME NEW i PROVE Good(v, xs + 1, i) <=> Good(v, 1, i)
    <3>1. CASE i \in 1 .. Len(v) /\ v[i].cols > 0
      <4>1. v[i].cols = xs + 1 /\ v[i].cols \in Int
        BY <1>3, <1>4, <1>7, <2>1, <2>3, <3>1
      <4> QED BY <2>3, <3>1, <4>1 DEF Good
    <3>2. CASE ~(i \in 1 .. Len(v) /\ v[i].cols > 0)
      BY <3>2 DEF Good
    <3> QED BY <3>1, <3>2
  <2> QED BY <2>3, <2>4 DEF xs
<1> QED BY <1>8, <1>9

LEMMA TagFound ==
  ASSUME NEW f \in Seq(InputLine), NEW v, v = Visible(f),
         NEW i \in 1 .. Len(v), v[i].cols > 0
  PROVE  \E k \in 1 .. Len(TagsOf(f)) : TagsOf(f)[k] = Tag(v[i].tag)
<1> DEFINE names == {l.tag : l \in TokenLines(f)}
           n == Cardinality(names)
           tag == v[i].tag
           k == Cardinality(Through(names, tag))
<1>1. IsFiniteSet(names) /\ n \in Nat
  BY OfSeq, TagsFinite, FS_CardinalityType
<1>2. v \in Seq(InputLine)
  BY VisibleIs
<1>3. \A j \in 1 .. Len(v) : v[j] \in InputLine /\ v[j] \in Range(v)
  <2> DEFINE R == InputLine
  <2>1. v \in Seq(R)
    BY <1>2
  <2> HIDE DEF R
  <2>2. \A j \in 1 .. Len(v) : v[j] \in R /\ v[j] \in Range(v)
    BY <2>1 DEF Range
  <2> QED BY <2>2 DEF R
<1>4. names \subseteq Int
  <2> SUFFICES ASSUME NEW l \in TokenLines(f) PROVE l.tag \in Int
    OBVIOUS
  <2>1. l \in Range(v) /\ l.cols > 0
    BY DEF TokenLines
  <2>2. PICK j \in 1 .. Len(v) : l = v[j]
    <3>1. DOMAIN v = 1 .. Len(v)
      BY <1>2
    <3> QED BY <2>1, <3>1 DEF Range
  <2> QED BY <1>3, <2>1, <2>2, LineIs
<1>5. tag \in names
  <2>1. v[i] \in TokenLines(f)
    BY <1>3 DEF TokenLines
  <2> QED BY <2>1
<1>6. TagsOf(f) = [m \in 1 .. n |-> Tag(Nth(names, m))]
  BY DEF TagsOf
<1> HIDE DEF names
<1> HIDE DEF tag
<1>7. Through(names, tag) \subseteq names /\ tag \in Through(names, tag)
  <2>1. tag \in Int /\ tag <= tag
    BY <1>4, <1>5
  <2> QED BY <1>5, <2>1 DEF Through
<1>8. k \in 1 .. n
  <2>1. IsFiniteSet(Through(names, tag)) /\ k <= n
    BY <1>1, <1>7, FS_Subset
  <2>2. k \in Nat /\ k # 0
    BY <1>7, <2>1, FS_CardinalityType, FS_EmptySet
  <2> QED BY <1>1, <2>1, <2>2
<1>9. Nth(names, k) = tag
  BY <1>1, <1>4, <1>5, NthUnique
<1> HIDE DEF n, k
<1>10. Len(TagsOf(f)) = n
  <2>1. DOMAIN TagsOf(f) = 1 .. n /\ TagsOf(f) = [m \in 1 .. n |-> TagsOf(f)[m]]
    BY <1>6
  <2> QED BY <1>1, <2>1, Listed
<1>11. TagsOf(f)[k] = Tag(tag)
  BY <1>6, <1>8, <1>9
<1> QED BY <1>8, <1>10, <1>11 DEF tag

(* x holds the sentences that begin in the first p lines of file f.        *)
ReadSoFar(X, f, p) ==
  LET v == Visible(f)
      T == FirstLines(v, 1)
  IN  /\ Len(X) = Cardinality(Through(T, p))
      /\ \A n \in 1 .. Len(X) : X[n].tokens = SubSeq(v, Nth(T, n), LastLine(v, 1, Nth(T, n)))

LEMMA NoneRead ==
  ASSUME NEW f \in Seq(InputLine), NEW X, X = <<>>
  PROVE  ReadSoFar(X, f, 0)
<1> DEFINE v == Visible(f)
           T == FirstLines(v, 1)
<1>1. \A j \in T : ~(j <= 0)
  <2>1. T \subseteq 1 .. Len(v) /\ Len(v) \in Nat
    <3>1. Len(v) \in Nat
      BY VisibleIs
    <3> QED BY <3>1 DEF FirstLines
  <2> HIDE DEF T
  <2> QED BY <2>1
<1>2. Through(T, 0) = {}
  BY <1>1 DEF Through
<1>3. Cardinality(Through(T, 0)) = 0
  BY <1>2, FS_EmptySet
<1>4. Len(X) = 0
  OBVIOUS
<1> HIDE DEF T
<1> QED BY <1>3, <1>4 DEF ReadSoFar, T, v

LEMMA MoreRead ==
  ASSUME NEW f \in Seq(InputLine), NEW v, v = Visible(f), NEW p, NEW q, Run(v, 1, p, q),
         Closed(v, q), NEW S, NEW X \in Seq(S), ReadSoFar(X, f, p),
         NEW s, s.tokens = SubSeq(v, p + 1, q - 1), NEW Y,
         Y = IF q = p + 1 THEN X ELSE Append(X, s)
  PROVE  ReadSoFar(Y, f, q)
<1> DEFINE T == FirstLines(v, 1)
           n == Len(v)
           Sent(k) == SubSeq(v, Nth(T, k), LastLine(v, 1, Nth(T, k)))
<1>1. v \in Seq(InputLine) /\ n \in Nat /\ \A i \in 1 .. n : v[i] # Overlong
  BY VisibleIs
<1>2. T \subseteq 1 .. n
  BY DEF FirstLines
<1>3. p \in Nat /\ q \in Nat /\ p < q /\ p + 1 <= q /\ p <= q
  BY <1>1 DEF Run
<1>4. /\ \A i \in p + 1 .. q : i \in T <=> i = p + 1 /\ q > p + 1 /\ Closed(v, q)
      /\ q > p + 1 /\ Closed(v, q) => LastLine(v, 1, p + 1) = q - 1
  BY <1>1, RunIs
<1>5. Len(X) = Cardinality(Through(T, p)) /\ \A k \in 1 .. Len(X) : X[k].tokens = Sent(k)
  BY DEF ReadSoFar
<1> HIDE DEF T, n
<1>6. CASE q = p + 1
  <2>1. \A i \in p + 1 .. q : i \notin T
    BY <1>3, <1>4, <1>6
  <2>2. Through(T, q) = Through(T, p)
    BY <1>1, <1>2, <1>3, <2>1, ThroughSame
  <2>3. Len(Y) = Cardinality(Through(T, q)) /\ \A k \in 1 .. Len(Y) : Y[k].tokens = Sent(k)
    BY <1>5, <1>6, <2>2
  <2> QED BY <2>3 DEF ReadSoFar, T
<1>7. CASE q # p + 1
  <2>0. q > p + 1 /\ p + 1 \in p + 1 .. q /\ \A i \in p + 2 .. q : i \in p + 1 .. q /\ i # p + 1
    BY <1>3, <1>7
  <2>1. p + 1 \in T /\ \A i \in p + 2 .. q : i \notin T
    BY <1>4, <2>0
  <2>2. /\ Cardinality(Through(T, q)) = Cardinality(Through(T, p)) + 1
        /\ Nth(T, Cardinality(Through(T, p)) + 1) = p + 1
    BY <1>1, <1>2, <1>3, <2>1, ThroughOne
  <2>3. Y = Append(X, s) /\ Len(X) \in Nat
    BY <1>7
  <2> DEFINE m == Len(X) + 1
  <2>4. /\ Len(Y) = m /\ Y[m] = s
        /\ \A k \in 1 .. m : k # m => k \in 1 .. Len(X) /\ Y[k] = X[k]
    BY <2>3
  <2>5. Nth(T, m) = p + 1
    BY <1>5, <2>2
  <2>6. LastLine(v, 1, p + 1) = q - 1
    BY <1>4, <2>0
  <2> DEFINE a == p + 1
  <2>7. Nth(T, m) = a /\ LastLine(v, 1, a) = q - 1 /\ s.tokens = SubSeq(v, a, q - 1)
    BY <2>5, <2>6
  <2> HIDE DEF m, a
  <2>8. s.tokens = Sent(m)
    BY <2>7
  <2>9. \A k \in 1 .. Len(Y) : Y[k].tokens = Sent(k)
    <3> HIDE DEF Sent
    <3> QED BY <1>5, <2>4, <2>8
  <2>10. Len(Y) = Cardinality(Through(T, q))
    BY <1>5, <2>2, <2>4 DEF m
  <2> QED BY <2>9, <2>10 DEF ReadSoFar, T
<1> QED BY <1>6, <1>7

Tokens(X) == [i \in 1 .. Len(X) |-> X[i].tokens]

LEMMA AllRead ==
  ASSUME NEW f \in Seq(InputLine), NEW X, ReadSoFar(X, f, Len(Visible(f)) + 1)
  PROVE  Tokens(X) = Sentences(f, 1)
<1> DEFINE v == Visible(f)
           T == FirstLines(v, 1)
           n == Len(v)
<1>1. n \in Nat
  BY VisibleIs
<1>2. T \subseteq 1 .. n
  BY DEF FirstLines
<1>3. /\ Len(X) = Cardinality(Through(T, n + 1))
      /\ \A k \in 1 .. Len(X) : X[k].tokens = SubSeq(v, Nth(T, k), LastLine(v, 1, Nth(T, k)))
  BY DEF ReadSoFar
<1>4. Sentences(f, 1) = [k \in 1 .. Cardinality(T) |->
                           SubSeq(v, Nth(T, k), LastLine(v, 1, Nth(T, k)))]
  BY DEF Sentences
<1> HIDE DEF T, n, v
<1>5. \A j \in T : j <= n + 1
  BY <1>1, <1>2
<1>6. Through(T, n + 1) = T
  BY <1>5 DEF Through
<1> QED BY <1>3, <1>4, <1>6 DEF Tokens

(* What holds while crf_learn reads: the stream is between two lines, and  *)
(* the sentences before are in x; the tags and the number of columns are   *)
(* those that openTagSet found.                                            *)
Reading(a, ix, io, X) ==
  LET v == Visible(a.train)
  IN  /\ a \in Training /\ a.mode = "learn" /\ Consistent(a.train)
      /\ ix.y = TagsOf(a.train) /\ ix.xsize = Opened(a).xsize
      /\ IF io.good
         THEN \E p \in 0 .. Len(v) :
                /\ ~Good(v, 1, p) /\ io.rest = SubSeq(a.train, p + 1, Len(a.train))
                /\ ReadSoFar(X, a.train, p)
         ELSE ReadSoFar(X, a.train, Len(v) + 1)

ReadInv ==
  /\ result.why # "read"
  /\ lphase = "read" => Reading(args, index, in, x)
  /\ lphase \in {"train", "delete", "save", "write", "text"} /\ args.mode = "learn"
     => Tokens(x) = Sentences(args.train, 1)

(* The call that gives r goes from one stop to the next.                   *)
Further(f, X, r) ==
  LET v == Visible(f)
  IN  \E p, q :
        /\ ReadSoFar(X, f, p) /\ Run(v, 1, p, q) /\ Closed(v, q)
        /\ r.tokens = SubSeq(v, p + 1, q - 1)
        /\ Len(r.tokens) = 0 <=> q = p + 1
        /\ r.good <=> q <= Len(v)
        /\ r.good => r.rest = SubSeq(f, q + 1, Len(f))

(* read() succeeds, and finds every tag in y_.                             *)
LEMMA LinesAccepted ==
  ASSUME NEW a, NEW ix, NEW io, NEW X, Reading(a, ix, io, X), io.good,
         NEW r, r = Read(io.rest, ix.xsize + 1)
  PROVE  /\ r.ok
         /\ \A i \in 1 .. Len(r.tokens) : \E k \in 1 .. Len(ix.y) :
              ix.y[k] = Tag(r.tokens[i].tag)
         /\ Further(a.train, X, r)
<1> DEFINE f == a.train
           v == Visible(f)
           n == Len(v)
           need == ix.xsize + 1
<1>1. a \in Training /\ a.mode = "learn" /\ Consistent(f) /\ f \in Seq(InputLine)
      /\ ix.y = TagsOf(f) /\ ix.xsize = Opened(a).xsize
  BY TrainingAssumption DEF Reading
<1>2. PICK p \in 0 .. n : ~Good(v, 1, p) /\ io.rest = SubSeq(f, p + 1, Len(f))
                          /\ ReadSoFar(X, f, p)
  BY DEF Reading
<1>3. v \in Seq(InputLine) /\ n \in Nat /\ \A i \in 1 .. n : v[i] # Overlong
  BY <1>1, VisibleIs
<1>4. ix.xsize \in Nat /\ \A i : Good(v, need, i) <=> Good(v, 1, i)
  BY <1>1, GoodSame
<1>5. need \in Int
  BY <1>4
<1> HIDE DEF need
<1>6. PICK q \in p + 1 .. n + 1 :
           /\ Run(v, need, p, q)
           /\ r.tokens = SubSeq(v, p + 1, q - 1)
           /\ r.ok <=> Closed(v, q)
           /\ r.good <=> q <= n
           /\ r.good => r.rest = SubSeq(f, q + 1, Len(f))
  <2>1. r = Read(io.rest, need) /\ ~Good(v, need, p)
    BY <1>2, <1>4 DEF need
  <2> HIDE DEF f, v
  <2>2. f \in Seq(InputLine) /\ v = Visible(f)
    BY <1>1 DEF v
  <2>3. p \in 0 .. Len(v) /\ io.rest = SubSeq(f, p + 1, Len(f))
    BY <1>2
  <2>4. ReadGives(f, v, need, p, r)
    BY <1>5, <2>1, <2>2, <2>3, ReadIs
  <2> QED BY <2>4 DEF ReadGives
<1>7. Run(v, 1, p, q)
  BY <1>4, <1>6 DEF Run
<1>8. \A i \in 1 .. n : v[i] \in InputLine
  <2> DEFINE R == InputLine
  <2>1. v \in Seq(R)
    BY <1>3
  <2> HIDE DEF R, v
  <2> QED BY <2>1 DEF R
<1> HIDE DEF n
<1>9. Closed(v, q)
  <2>1. CASE q = n + 1
    BY <2>1 DEF Closed, n
  <2>2. CASE q # n + 1
    <3>1. q \in 1 .. n /\ ~Good(v, 1, q)
      BY <1>2, <1>3, <1>6, <1>7, <2>2 DEF Run
    <3>2. v[q] \in InputLine /\ v[q] # Overlong
      BY <1>3, <1>8, <3>1
    <3>3. v[q].cols \in Int /\ (v[q].cols > 0 <=> v[q] # Separator)
      BY <3>2, LineIs
    <3>4. ~(v[q].cols > 0)
      BY <3>1, <3>3 DEF Good, n
    <3> QED BY <3>3, <3>4 DEF Closed
  <2> QED BY <2>1, <2>2
<1>10. p \in Nat /\ q \in Nat /\ p + 1 <= q /\ q <= n + 1
  BY <1>2, <1>3, <1>6
<1>11. /\ Len(r.tokens) = (q - 1) - p
       /\ \A i \in 1 .. (q - 1) - p : r.tokens[i] = v[p + i]
  <2> DEFINE b == p + 1
             e == q - 1
  <2>1. b \in Nat /\ b >= 1 /\ b - 1 = p /\ e \in Nat /\ e <= Len(v) /\ b - 1 <= e
    BY <1>3, <1>10 DEF n
  <2>2. r.tokens = SubSeq(v, b, e)
    BY <1>6
  <2> HIDE DEF b, v
  <2>3. Len(SubSeq(v, b, e)) = e - (b - 1)
        /\ \A i \in 1 .. e - (b - 1) : SubSeq(v, b, e)[i] = v[(b - 1) + i]
    <3> HIDE DEF e
    <3> QED BY <1>3, <2>1, SubSeqIs
  <2> QED BY <2>1, <2>2, <2>3
<1>12. ASSUME NEW i \in 1 .. Len(r.tokens)
       PROVE  \E k \in 1 .. Len(ix.y) : ix.y[k] = Tag(r.tokens[i].tag)
  <2> DEFINE j == p + i
  <2>0. i \in Nat /\ 1 <= i /\ i <= (q - 1) - p
    BY <1>10, <1>11
  <2>1. j \in p + 1 .. q - 1 /\ j \in 1 .. n /\ r.tokens[i] = v[j]
    <3>1. j \in Nat /\ p + 1 <= j /\ j <= q - 1 /\ 1 <= j /\ j <= n
      BY <1>3, <1>10, <2>0
    <3>2. r.tokens[i] = v[j]
      BY <1>11, <1>10, <2>0
    <3> HIDE DEF j
    <3> QED BY <1>3, <1>10, <3>1, <3>2
  <2> HIDE DEF j
  <2>2. v[j].cols > 0
    BY <1>7, <2>1 DEF Run, Good
  <2>3. \E k \in 1 .. Len(TagsOf(f)) : TagsOf(f)[k] = Tag(v[j].tag)
    <3> HIDE DEF f
    <3> QED BY <1>1, <2>1, <2>2, TagFound DEF n
  <2> QED BY <1>1, <2>1, <2>3
<1>13. Len(r.tokens) = 0 <=> q = p + 1
  BY <1>10, <1>11
<1>14. Further(f, X, r)
  BY <1>2, <1>6, <1>7, <1>9, <1>13 DEF n, Further
<1> QED BY <1>6, <1>9, <1>12, <1>14

LEMMA SentenceAdded ==
  ASSUME NEW f \in Seq(InputLine), NEW S, NEW X \in Seq(S), NEW r, Further(f, X, r),
         NEW s, s.tokens = r.tokens, NEW Y,
         Y = IF Len(r.tokens) = 0 THEN X ELSE Append(X, s)
  PROVE  LET v == Visible(f)
         IN  IF r.good
             THEN \E p \in 0 .. Len(v) :
                    /\ ~Good(v, 1, p) /\ r.rest = SubSeq(f, p + 1, Len(f))
                    /\ ReadSoFar(Y, f, p)
             ELSE ReadSoFar(Y, f, Len(v) + 1)
<1> DEFINE v == Visible(f)
           n == Len(v)
<1>1. n \in Nat
  BY VisibleIs
<1>2. PICK p, q :
        /\ ReadSoFar(X, f, p) /\ Run(v, 1, p, q) /\ Closed(v, q)
        /\ r.tokens = SubSeq(v, p + 1, q - 1)
        /\ Len(r.tokens) = 0 <=> q = p + 1
        /\ r.good <=> q <= n
        /\ r.good => r.rest = SubSeq(f, q + 1, Len(f))
  BY DEF Further
<1>3. Y = IF q = p + 1 THEN X ELSE Append(X, s)
  BY <1>2
<1>4. p \in 0 .. n /\ q \in p + 1 .. n + 1 /\ ~Good(v, 1, q)
  BY <1>2 DEF Run
<1>5. ReadSoFar(Y, f, q)
  <2> HIDE DEF v
  <2>1. v = Visible(f)
    BY DEF v
  <2>2. s.tokens = SubSeq(v, p + 1, q - 1)
    BY <1>2
  <2> QED BY <1>2, <1>3, <2>1, <2>2, MoreRead
<1>6. q \in 0 .. n + 1
  BY <1>1, <1>4
<1> HIDE DEF n
<1>7. CASE r.good
  <2>1. q \in 0 .. n /\ r.rest = SubSeq(f, q + 1, Len(f))
    BY <1>1, <1>2, <1>6, <1>7
  <2> QED BY <1>4, <1>5, <1>7, <2>1 DEF n
<1>8. CASE ~r.good
  <2>1. q = n + 1
    BY <1>1, <1>2, <1>6, <1>8
  <2> QED BY <1>5, <1>8, <2>1 DEF n
<1> QED BY <1>7, <1>8

LEMMA ReadInit == Init => ReadInv
<1> SUFFICES ASSUME Init PROVE ReadInv
  OBVIOUS
<1>1. lphase = "idle" /\ result.why = "none"
  BY DEF Init, LearnInit, Returned
<1> QED BY <1>1 DEF ReadInv

LEMMA ReadOpened ==
  ASSUME ReadInv, LearnOpen
  PROVE  ReadInv'
<1>1. args' \in Training /\ args'.mode = "learn" /\ x' = <<>>
  BY DEF LearnOpen, FreshRun
<1>2. CASE /\ Consistent(args'.train) /\ lphase' = "read" /\ index' = Opened(args')
           /\ in' = [good |-> TRUE, rest |-> args'.train] /\ UNCHANGED result
  <2> DEFINE f == args'.train
             v == Visible(f)
  <2>1. f \in Seq(InputLine)
    BY <1>1, TrainingAssumption
  <2>2. Opened(args').y = TagsOf(f)
    BY DEF Opened, NoIndex
  <2>3. in'.good /\ in'.rest = f
    BY <1>2
  <2> HIDE DEF f
  <2>4. Len(v) \in Nat /\ ReadSoFar(x', f, 0)
    BY <1>1, <2>1, VisibleIs, NoneRead
  <2>5. f = SubSeq(f, 0 + 1, Len(f))
    <3> DEFINE R == InputLine
    <3>1. f \in Seq(R)
      BY <2>1
    <3> HIDE DEF R
    <3> QED BY <3>1
  <2>6. 0 \in 0 .. Len(v) /\ ~Good(v, 1, 0)
    BY <2>4 DEF Good
  <2>7. \E p \in 0 .. Len(v) : /\ ~Good(v, 1, p) /\ in'.rest = SubSeq(f, p + 1, Len(f))
                               /\ ReadSoFar(x', f, p)
    BY <2>3, <2>4, <2>5, <2>6
  <2>8. Reading(args', index', in', x')
    BY <1>1, <1>2, <2>2, <2>3, <2>7 DEF Reading, f
  <2> QED BY <1>2, <2>8 DEF ReadInv
<1>3. CASE Ends(-1, "open")
  <2>1. lphase' = "idle" /\ result'.why = "open"
    BY <1>3 DEF Ends, Returned
  <2> QED BY <2>1 DEF ReadInv
<1> QED BY <1>2, <1>3 DEF LearnOpen

LEMMA ReadMore ==
  ASSUME ReadInv, XInv, LearnInv, ReadSentence
  PROVE  ReadInv'
<1> DEFINE r == Read(in.rest, index.xsize + 1)
           n == Len(r.tokens)
           f == args.train
           answer == \A i \in 1 .. n : \E k \in 1 .. Len(index.y) :
                       index.y[k] = Tag(r.tokens[i].tag)
<1>1. /\ lphase = "read" /\ in.good /\ args' = args
      /\ in' = [good |-> r.good, rest |-> r.rest]
  BY DEF ReadSentence
<1>2. Reading(args, index, in, x)
  BY <1>1 DEF ReadInv
<1>3. r.ok /\ answer /\ Further(f, x, r)
  BY <1>1, <1>2, LinesAccepted
<1>4. \/ Complains("features")
      \/ /\ IF n = 0 THEN UNCHANGED <<x, line, freed>> ELSE Keep(r.tokens)
         /\ index' = BuildFeatures(index, n)
         /\ UNCHANGED <<lphase, result>>
  <2> HIDE DEF answer
  <2>1. /\ IF ~r.ok \/ ~answer \/ Malformed(index, n)
           THEN Complains(IF r.ok /\ answer THEN "features" ELSE "read")
           ELSE /\ IF n = 0 THEN UNCHANGED <<x, line, freed>> ELSE Keep(r.tokens)
                /\ index' = BuildFeatures(index, n)
                /\ UNCHANGED <<lphase, result>>
    BY DEF ReadSentence, answer
  <2> HIDE DEF r, n
  <2> QED BY <1>3, <2>1
<1> HIDE DEF answer
<1>5. CASE Complains("features")
  <2>1. lphase' = "idle" /\ result'.why = "features"
    BY <1>5 DEF Complains, Ends, Returned
  <2> QED BY <2>1 DEF ReadInv
<1>6. CASE /\ IF n = 0 THEN UNCHANGED <<x, line, freed>> ELSE Keep(r.tokens)
           /\ index' = BuildFeatures(index, n)
           /\ UNCHANGED <<lphase, result>>
  <2> DEFINE s == [tokens |-> r.tokens, thread |-> line % args.threads]
             good == r.good
             rest == r.rest
  <2>1. in'.good = good /\ in'.rest = rest
    <3>1. in' = [good |-> good, rest |-> rest]
      BY <1>1
    <3> HIDE DEF good, rest
    <3> QED BY <3>1
  <2>2. x' = IF n = 0 THEN x ELSE Append(x, s)
    BY <1>6 DEF Keep
  <2>3. s.tokens = r.tokens
    OBVIOUS
  <2>4. f \in Seq(InputLine)
    BY <1>2, TrainingAssumption DEF Reading
  <2>5. \E S : x \in Seq(S)
    BY DEF XInv
  <2>6. Stays(index, index')
    BY <1>6, BuildOK DEF LearnInv
  <2> HIDE DEF s, r, f
  <2>7. IF r.good
        THEN \E p \in 0 .. Len(Visible(f)) :
               /\ ~Good(Visible(f), 1, p) /\ r.rest = SubSeq(f, p + 1, Len(f))
               /\ ReadSoFar(x', f, p)
        ELSE ReadSoFar(x', f, Len(Visible(f)) + 1)
    BY <1>3, <2>2, <2>3, <2>4, <2>5, SentenceAdded
  <2>8. Reading(args', index', in', x')
    BY <1>1, <1>2, <2>1, <2>6, <2>7 DEF Reading, Stays, f
  <2> QED BY <1>1, <1>6, <2>8 DEF ReadInv
<1> QED BY <1>4, <1>5, <1>6

LEMMA ReadStep ==
  ASSUME ReadInv, XInv, LearnInv, [Next]_vars
  PROVE  ReadInv'
<1>1. CASE LearnRefused
  <2>1. lphase' = "idle" /\ result'.why \in {"help", "options", "algorithm"}
    BY <1>1 DEF LearnRefused, Ends, Returned
  <2> QED BY <2>1 DEF ReadInv
<1>2. CASE LearnOpen
  BY <1>2, ReadOpened
<1>3. CASE Convert
  <2>1. args'.mode = "convert"
        /\ ((lphase' = "save" /\ result' = result) \/ Ends(-1, "format"))
    BY <1>3 DEF Convert
  <2> QED BY <2>1 DEF ReadInv, Ends, Returned
<1>4. CASE ReadSentence
  BY <1>4, ReadMore
<1>5. CASE ShrinkDictionary
  <2>1. lphase = "read" /\ ~in.good /\ lphase' = "train" /\ UNCHANGED <<args, x, result>>
    BY <1>5 DEF ShrinkDictionary
  <2>2. Reading(args, index, in, x)
    BY <2>1 DEF ReadInv
  <2>3. args.train \in Seq(InputLine)
    BY <2>2, TrainingAssumption DEF Reading
  <2>4. ReadSoFar(x, args.train, Len(Visible(args.train)) + 1)
    BY <2>1, <2>2 DEF Reading
  <2>5. Tokens(x) = Sentences(args.train, 1)
    BY <2>3, <2>4, AllRead
  <2> QED BY <2>1, <2>5 DEF ReadInv
<1>6. CASE Train \/ DeleteSentences \/ SaveOpen \/ SaveRefused \/ SaveCell
  <2>1. UNCHANGED <<x, args>> /\ lphase \in {"train", "delete", "save", "write"}
    BY <1>6 DEF Train, DeleteSentences, SaveOpen, SaveRefused, SaveCell
  <2>2. \/ lphase' \in {"delete", "save", "write", "text"} /\ result' = result
        \/ lphase' = "idle" /\ result'.why \in {"train", "save"}
    <3>1. CASE Train
      BY <3>1 DEF Train, Complains, Ends, Returned
    <3>2. CASE DeleteSentences \/ SaveOpen \/ SaveRefused
      BY <3>2 DEF DeleteSentences, SaveOpen, SaveRefused, Complains, Ends, Returned
    <3>3. CASE SaveCell
      <4>1. lphase' \in {"write", "text"} /\ result' = result
        BY <3>3 DEF SaveCell
      <4> QED BY <4>1
    <3> QED BY <1>6, <3>1, <3>2, <3>3
  <2> QED BY <2>1, <2>2 DEF ReadInv
<1>7. CASE Finish \/ Kill \/ TextRefused
  <2>1. lphase' = "idle" /\ result'.why \in {"done", "killed", "text"}
    BY <1>7 DEF Finish, Kill, TextRefused, Complains, Ends, Returned
  <2> QED BY <2>1 DEF ReadInv
<1>8. CASE UNCHANGED learnVars
  BY <1>8 DEF ReadInv, learnVars
<1> QED BY <1>1, <1>2, <1>3, <1>4, <1>5, <1>6, <1>7, <1>8
        DEF Next, Learning, Working, vars

(* Training starts with exactly the sentences of the training file, in     *)
(* order, whatever its separators, overlong lines and templates are; and   *)
(* openTagSet and read() agree, so that read() refuses no line that the    *)
(* first pass let through (encoder.cpp 346-366, tagger.cpp 300-376).       *)
THEOREM SentencesAlwaysRead == Spec => []SentencesRead
<1>1. Init => ReadInv
  BY ReadInit
<1>2. ReadInv /\ XInv /\ LearnInv /\ [Next]_vars => ReadInv'
  BY ReadStep
<1>3. ReadInv => SentencesRead
  BY DEF ReadInv, SentencesRead, Tokens
<1> QED BY <1>1, <1>2, <1>3, XAlways, AllAlways, PTL DEF Spec
-----------------------------------------------------------------------------
(* A model by which sentences can be answered: it has a tag, and says how  *)
(* many columns a line must have.                                          *)
Usable(m) == m.xsize \in Nat /\ Len(m.y) >= 1 /\ m.y[1] # Empty

(* A text of one, of which any part may be missing.                        *)
Tagged(t) ==
  /\ \A i \in 1 .. 4 : i <= Len(t) =>
       t[i] # Empty /\ (t[i].kind = "head" /\ t[i].name = "xsize" => t[i].value \in Nat)
  /\ Len(t) >= 6 => t[5] = Empty /\ t[6] # Empty

LEMMA ColumnsKept ==
  ASSUME NEW s \in Seq([kind : STRING, col : Int, spaced : BOOLEAN]), NEW kind
  PROVE  \A k \in 1 .. Len(OfKind(s, kind)) : OfKind(s, kind)[k].col \in Int
<1> DEFINE T == {i \in 1 .. Len(s) : s[i].kind = kind}
<1>1. Len(s) \in Nat /\ T \subseteq 1 .. Len(s)
  OBVIOUS
<1>2. \A i \in T : s[i].col \in Int
  <2> DEFINE R == [kind : STRING, col : Int, spaced : BOOLEAN]
  <2>1. \A l \in R : l.col \in Int
    OBVIOUS
  <2>2. s \in Seq(R)
    OBVIOUS
  <2> HIDE DEF R
  <2>3. \A i \in 1 .. Len(s) : s[i] \in R
    BY <2>2
  <2> QED BY <2>1, <2>3
<1>3. OfKind(s, kind) = Pick(s, T)
  BY DEF OfKind
<1> HIDE DEF T
<1>4. Len(Pick(s, T)) = Cardinality(T)
  BY <1>1, PickIs
<1>5. ASSUME NEW k \in 1 .. Cardinality(T)
      PROVE  Pick(s, T)[k].col \in Int
  <2>1. Nth(T, k) \in T
    BY <1>1, NthIs
  <2>2. Pick(s, T)[k] = s[Nth(T, k)]
    BY DEF Pick
  <2> QED BY <1>2, <2>1, <2>2
<1> QED BY <1>3, <1>4, <1>5

LEMMA OpenedUsable ==
  ASSUME NEW a \in Training, a.mode = "learn", Consistent(a.train), TokenLines(a.train) # {}
  PROVE  Usable(Opened(a)) /\ Columned(Opened(a))
<1> DEFINE ix == Opened(a)
           f == a.train
           v == Visible(f)
           y == TagsOf(f)
<1>1. f \in Seq(InputLine) /\ a.templ \in Seq([kind : STRING, col : Int, spaced : BOOLEAN])
  BY TrainingAssumption
<1>2. ix.xsize \in Nat
  BY GoodSame
<1>3. /\ ix.y = y /\ ix.maxx = 0
      /\ ix.uni = OfKind(a.templ, "U") /\ ix.bi = OfKind(a.templ, "B")
  BY DEF Opened, NoIndex
<1>4. Len(y) \in Nat
  <2>1. IndexOK(ix)
    BY OpenedOK
  <2> QED BY <1>3, <2>1 DEF IndexOK, IsSeq
<1> HIDE DEF ix
<1>5. Len(y) >= 1
  <2>1. PICK l : l \in TokenLines(f)
    OBVIOUS
  <2>2. l \in Range(v) /\ l.cols > 0
    BY <2>1 DEF TokenLines
  <2>3. PICK i \in 1 .. Len(v) : l = v[i]
    <3> HIDE DEF f
    <3>1. v \in Seq(InputLine)
      BY <1>1, VisibleIs
    <3>2. DOMAIN v = 1 .. Len(v)
      BY <3>1
    <3> QED BY <2>2, <3>2 DEF Range
  <2>4. \E k \in 1 .. Len(y) : y[k] = Tag(v[i].tag)
    <3> HIDE DEF f
    <3> QED BY <1>1, <2>2, <2>3, TagFound
  <2> QED BY <1>4, <2>4
<1>6. y[1] # Empty
  <2> DEFINE names == {l.tag : l \in TokenLines(f)}
             n == Cardinality(names)
  <2>1. y = [m \in 1 .. n |-> Tag(Nth(names, m))]
    BY DEF TagsOf
  <2>2. n \in Nat
    BY <1>1, OfSeq, TagsFinite, FS_CardinalityType
  <2> HIDE DEF n, names
  <2>3. Len(y) = n
    <3> DEFINE z == y
    <3>1. DOMAIN z = 1 .. n /\ z = [m \in 1 .. n |-> z[m]]
      BY <2>1
    <3> HIDE DEF z
    <3>2. Len(z) = n
      BY <2>2, <3>1, Listed
    <3> QED BY <3>2 DEF z
  <2>4. y[1] = Tag(Nth(names, 1))
    BY <1>5, <2>1, <2>2, <2>3
  <2> QED BY <2>4 DEF Tag, Empty
<1>7. Columned(ix)
  BY <1>1, <1>2, <1>3, ColumnsKept DEF Columned
<1> QED BY <1>2, <1>3, <1>5, <1>6, <1>7 DEF Usable, ix

LEMMA SavedUsable ==
  ASSUME NEW ix, Usable(ix), ix.maxx \in Nat
  PROVE  Usable(ToSave(ix))
<1>1. ToSave(ix).y = ix.y /\ ToSave(ix).xsize = SavedXsize(ix)
  BY DEF ToSave
<1>2. SavedXsize(ix) \in Nat
  BY DEF SavedXsize, Usable
<1> QED BY <1>1, <1>2 DEF Usable

LEMMA Begins ==
  ASSUME NEW Z, NEW s \in Seq(Z), NEW t \in Seq(Z)
  PROVE  /\ s \o t \in Seq(Z) /\ Len(s \o t) >= Len(s)
         /\ Len(s) \in Nat /\ Len(s \o t) \in Nat
         /\ \A i \in 1 .. Len(s) : (s \o t)[i] = s[i]
OBVIOUS

LEMMA Appended ==
  ASSUME NEW Z, NEW s \in Seq(Z), NEW e \in Z
  PROVE  /\ Append(s, e) \in Seq(Z) /\ Len(Append(s, e)) = Len(s) + 1
         /\ Append(s, e)[Len(s) + 1] = e
         /\ \A i \in 1 .. Len(s) : Append(s, e)[i] = s[i]
OBVIOUS

LEMMA TextTagged ==
  ASSUME NEW m, ModelOK(m), Usable(m)
  PROVE  Tagged(Text(m))
<1>1. IsModel(m) /\ m.xsize \in Nat /\ Len(m.y) >= 1 /\ m.y[1] # Empty
  BY DEF ModelOK, Usable
<1>2. PICK S : m.y \in Seq(S) /\ m.uni \in Seq(S) /\ m.bi \in Seq(S) /\ m.dic \in Seq(S)
  BY <1>1 DEF IsModel
<1>3. m.maxid \in Nat
  BY <1>1 DEF IsModel
<1> DEFINE h1 == HeadLine("version", Version)
           h2 == HeadLine("cost-factor", 1)
           h3 == HeadLine("maxid", m.maxid)
           h4 == HeadLine("xsize", m.xsize)
           H == <<h1, h2, h3, h4>>
           w == [i \in 1 .. m.maxid |-> Weight(Decimals(m.alpha[i]))]
           Z == S \cup {h1, h2, h3, h4, Empty} \cup {w[i] : i \in 1 .. m.maxid}
<1>4. \A h \in {h1, h2, h3, h4} :
        h # Empty /\ (h.kind = "head" /\ h.name = "xsize" => h.value \in Nat)
  BY <1>1 DEF HeadLine, Empty
<1>5. h1 \in Z /\ h2 \in Z /\ h3 \in Z /\ h4 \in Z /\ Empty \in Z
  OBVIOUS
<1>6. Text(m) = (((Lines(H) \o Lines(m.y)) \o Lines(m.uni \o m.bi)) \o Lines(m.dic)) \o w
  BY DEF Text
<1>7. w \in Seq(Z)
  <2>1. \A i \in 1 .. m.maxid : w[i] \in Z
    OBVIOUS
  <2>2. DOMAIN w = 1 .. m.maxid /\ w = [i \in 1 .. m.maxid |-> w[i]]
    OBVIOUS
  <2> HIDE DEF w, Z
  <2>3. IsSeq(w) /\ Len(w) = m.maxid
    BY <1>3, <2>2, Listed
  <2> QED BY <2>1, <2>3, SeqIn
<1>8. m.y \in Seq(Z) /\ m.uni \in Seq(Z) /\ m.bi \in Seq(Z) /\ m.dic \in Seq(Z)
  <2>1. S \subseteq Z
    OBVIOUS
  <2> HIDE DEF Z
  <2> QED BY <1>2, <2>1
<1> HIDE DEF Z, h1, h2, h3, h4, w
<1>9. ASSUME NEW s \in Seq(Z) PROVE Lines(s) \in Seq(Z)
  BY <1>5 DEF Lines
<1>10. m.uni \o m.bi \in Seq(Z)
  BY <1>8
<1> DEFINE a == Lines(H)
           b == Lines(m.y)
           c == Lines(m.uni \o m.bi)
           d == Lines(m.dic)
<1>11. /\ a \in Seq(Z) /\ Len(a) = 5
       /\ a[1] = h1 /\ a[2] = h2 /\ a[3] = h3 /\ a[4] = h4 /\ a[5] = Empty
  <2>1. H \in Seq(Z) /\ Len(H) = 4 /\ H[1] = h1 /\ H[2] = h2 /\ H[3] = h3 /\ H[4] = h4
    BY <1>5
  <2>2. a = Append(H, Empty)
    BY DEF Lines
  <2> HIDE DEF H, a
  <2>3. /\ a \in Seq(Z) /\ Len(a) = Len(H) + 1 /\ a[Len(H) + 1] = Empty
        /\ \A i \in 1 .. Len(H) : a[i] = H[i]
    <3>1. H \in Seq(Z) /\ Empty \in Z
      BY <1>5, <2>1
    <3> QED BY ONLY <2>2, <3>1, Appended
  <2>4. Len(a) = 5 /\ a[5] = Empty /\ \A i \in {1, 2, 3, 4} : a[i] = H[i]
    <3>1. Len(H) + 1 = 5 /\ \A i \in {1, 2, 3, 4} : i \in 1 .. Len(H)
      BY <2>1
    <3> QED BY <2>3, <3>1
  <2> QED BY <2>1, <2>3, <2>4
<1>12. b \in Seq(Z) /\ Len(b) >= 1 /\ b[1] = m.y[1]
  BY <1>1, <1>5, <1>8 DEF Lines
<1>13. c \in Seq(Z) /\ d \in Seq(Z)
  BY <1>8, <1>9, <1>10
<1> DEFINE s2 == a \o b
           s3 == s2 \o c
           s4 == s3 \o d
           t == s4 \o w
<1>14. Text(m) = t
  BY <1>6
<1> HIDE DEF a, b, c, d, H
<1>15. /\ s2 \in Seq(Z) /\ Len(s2) >= 6
       /\ \A i \in 1 .. 5 : s2[i] = a[i]
       /\ s2[6] = b[1]
  <2>0. a \in Seq(Z) /\ b \in Seq(Z) /\ Len(b) \in Nat
    BY <1>11, <1>12
  <2>1. /\ s2 \in Seq(Z) /\ Len(s2) = Len(a) + Len(b)
        /\ \A i \in 1 .. Len(a) : s2[i] = a[i]
        /\ \A i \in 1 .. Len(b) : s2[Len(a) + i] = b[i]
    BY <2>0, Concat
  <2> HIDE DEF s2
  <2>2. /\ Len(s2) = 5 + Len(b) /\ Len(b) \in Nat
        /\ \A i \in 1 .. 5 : s2[i] = a[i]
        /\ \A i \in 1 .. Len(b) : s2[5 + i] = b[i]
    BY <1>11, <2>0, <2>1
  <2>3. 1 \in 1 .. Len(b) /\ 5 + 1 = 6
    BY <1>12, <2>0
  <2>4. s2[6] = b[1]
    BY <2>2, <2>3
  <2> QED BY <1>12, <2>1, <2>2, <2>4
<1> HIDE DEF s2
<1>16. s3 \in Seq(Z) /\ Len(s3) >= 6 /\ \A i \in 1 .. 6 : s3[i] = s2[i]
  <2>1. s3 \in Seq(Z) /\ Len(s3) >= Len(s2) /\ Len(s3) \in Nat /\ Len(s2) \in Nat
        /\ \A i \in 1 .. Len(s2) : s3[i] = s2[i]
    BY <1>13, <1>15, Begins
  <2> HIDE DEF s3
  <2>2. \A i \in 1 .. 6 : i \in 1 .. Len(s2)
    BY <1>13, <1>15, <2>1
  <2> QED BY <1>13, <1>15, <2>1, <2>2
<1> HIDE DEF s3
<1>17. s4 \in Seq(Z) /\ Len(s4) >= 6 /\ \A i \in 1 .. 6 : s4[i] = s3[i]
  <2>1. s4 \in Seq(Z) /\ Len(s4) >= Len(s3) /\ Len(s4) \in Nat /\ Len(s3) \in Nat
        /\ \A i \in 1 .. Len(s3) : s4[i] = s3[i]
    BY <1>13, <1>16, Begins
  <2> HIDE DEF s4
  <2>2. \A i \in 1 .. 6 : i \in 1 .. Len(s3)
    BY <1>13, <1>16, <2>1
  <2> QED BY <1>13, <1>16, <2>1, <2>2
<1> HIDE DEF s4
<1>18. \A i \in 1 .. 6 : t[i] = s4[i]
  <2>1. Len(s4) \in Nat /\ \A i \in 1 .. Len(s4) : t[i] = s4[i]
    BY <1>7, <1>17, Begins
  <2> HIDE DEF t
  <2>2. \A i \in 1 .. 6 : i \in 1 .. Len(s4)
    BY <1>17, <2>1
  <2> QED BY <2>1, <2>2
<1> HIDE DEF t
<1>19. /\ t[1] = h1 /\ t[2] = h2 /\ t[3] = h3 /\ t[4] = h4
       /\ t[5] = Empty /\ t[6] = m.y[1]
  BY <1>11, <1>12, <1>15, <1>16, <1>17, <1>18
<1>20. \A i \in 1 .. 4 : t[i] \in {h1, h2, h3, h4}
  BY <1>19
<1>21. Tagged(t)
  BY <1>1, <1>4, <1>19, <1>20 DEF Tagged
<1> QED BY <1>14, <1>21

LEMMA CutTagged ==
  ASSUME NEW t, IsSeq(t), Tagged(t), NEW n \in 0 .. Len(t), NEW broken \in BOOLEAN
  PROVE  Tagged(Cut(t, n, broken))
<1> DEFINE p == Broken(t[n + 1])
           S == {t[i] : i \in 1 .. Len(t)} \cup {p}
           a == SubSeq(t, 1, n)
           c == a \o IF broken /\ n < Len(t) THEN <<p>> ELSE <<>>
<1>1. Len(t) \in Nat
  BY DEF IsSeq
<1>2. p # Empty /\ p.kind # "head"
  BY DEF Broken, Weight, Empty
<1>3. Cut(t, n, broken) = c
  BY DEF Cut, p
<1>4. t \in Seq(S) /\ p \in S
  <2>1. \A i \in 1 .. Len(t) : t[i] \in S
    OBVIOUS
  <2> HIDE DEF p, S
  <2>2. t \in Seq(S)
    BY <2>1, SeqIn
  <2> QED BY <2>2 DEF S
<1> HIDE DEF p, S
<1>5. a \in Seq(S) /\ Len(a) = n /\ \A i \in 1 .. n : a[i] = t[i]
  BY <1>1, <1>4
<1> HIDE DEF a
<1>6. \A i \in 1 .. Len(c) : (i <= n /\ c[i] = t[i]) \/ (i = n + 1 /\ i <= Len(t) /\ c[i] = p)
  <2>1. CASE broken /\ n < Len(t)
    <3>1. c = Append(a, p)
      BY <1>4, <1>5, <2>1
    <3>2. Len(c) = n + 1 /\ c[n + 1] = p /\ \A i \in 1 .. n : c[i] = a[i]
      BY <1>4, <1>5, <3>1
    <3> HIDE DEF c
    <3> QED BY <1>1, <1>5, <2>1, <3>2
  <2>2. CASE ~(broken /\ n < Len(t))
    <3>1. c = a
      BY <1>5, <2>2
    <3> HIDE DEF c
    <3> QED BY <1>5, <3>1
  <2> QED BY <2>1, <2>2
<1>7. Len(c) \in Nat
  BY <1>4, <1>5
<1> HIDE DEF c
<1>8. \A i \in 1 .. 4 : i <= Len(c) =>
        c[i] # Empty /\ (c[i].kind = "head" /\ c[i].name = "xsize" => c[i].value \in Nat)
  <2> TAKE i \in 1 .. 4
  <2> HAVE i <= Len(c)
  <2>1. i \in 1 .. Len(c)
    BY <1>7
  <2>2. CASE c[i] = p
    BY <1>2, <2>2
  <2>3. CASE i <= n /\ c[i] = t[i]
    BY <1>1, <2>3 DEF Tagged
  <2> QED BY <1>6, <2>1, <2>2, <2>3
<1>9. Len(c) >= 6 => c[5] = Empty /\ c[6] # Empty
  <2> HAVE Len(c) >= 6
  <2>1. 5 \in 1 .. Len(c) /\ 6 \in 1 .. Len(c)
    BY <1>7
  <2>2. n >= 5 /\ Len(t) >= 6
    BY <1>1, <1>6, <2>1
  <2>3. c[5] = t[5] /\ (c[6] = t[6] \/ c[6] = p)
    BY <1>1, <1>6, <2>1, <2>2
  <2> QED BY <1>2, <2>2, <2>3 DEF Tagged
<1>10. Tagged(c)
  BY <1>8, <1>9 DEF Tagged
<1> QED BY <1>3, <1>10

(* What convert() takes for a model has tags: the header is four lines, no *)
(* empty one among them and one after them, and then comes a tag.          *)
LEMMA ConvertedUsable ==
  ASSUME NEW t, IsSeq(t), Tagged(t), Converts(t)
  PROVE  Usable(Converted(FromText(t))) /\ Converted(FromText(t)).maxx \in Nat
<1> DEFINE E == Empties(t)
           n == Len(t)
           e1 == EmptyAt(t, 1)
           e2 == EmptyAt(t, 2)
<1>1. n \in Nat /\ E \subseteq 1 .. n /\ Cardinality(E) >= 4 /\ Cardinality(E) \in Nat
  <2>1. n \in Nat /\ E \subseteq 1 .. n
    BY DEF IsSeq, Empties
  <2> HIDE DEF E, n
  <2>2. Cardinality(E) \in Nat
    BY <2>1, ThroughFinite
  <2> QED BY <2>1, <2>2 DEF Converts, E
<1>2. \A i \in E : t[i] = Empty
  BY DEF Empties
<1>3. \A i \in 1 .. n : t[i] = Empty => i \in E
  BY DEF Empties
<1>4. e1 \in E /\ e2 \in E /\ e1 < e2
  <2> HIDE DEF E
  <2>1. 1 \in 1 .. Cardinality(E) /\ 2 \in 1 .. Cardinality(E)
    BY <1>1
  <2>2. n \in Nat /\ E \subseteq 1 .. n /\ 1 < 2
    BY <1>1
  <2> HIDE DEF n
  <2>3. \A k \in 1 .. Cardinality(E) : Nth(E, k) \in E
    BY <2>2, NthIs
  <2>4. Nth(E, 1) < Nth(E, 2)
    BY <2>1, <2>2, NthGrows
  <2> QED BY <2>1, <2>3, <2>4 DEF EmptyAt, E
<1> HIDE DEF n
<1>5. \A i \in E : i \in Nat /\ i >= 5 /\ i <= n
  <2> SUFFICES ASSUME NEW i \in E PROVE i \in Nat /\ i >= 5 /\ i <= n
    OBVIOUS
  <2>1. i \in Nat /\ 1 <= i /\ i <= n
    BY <1>1
  <2>2. ~(i \in 1 .. 4)
    BY <1>2, <2>1 DEF Tagged, n
  <2> QED BY <2>1, <2>2
<1>6. n >= 6
  BY <1>1, <1>4, <1>5
<1>7. t[5] = Empty /\ t[6] # Empty
  BY <1>6 DEF Tagged, n
<1>8. 5 \in E /\ 6 \notin E
  BY <1>1, <1>2, <1>3, <1>6, <1>7
<1>9. e1 = 5
  <2> HIDE DEF E, e1, e2
  <2>1. Through(E, 5) = {5}
    BY <1>5, <1>8 DEF Through
  <2>2. IsFiniteSet(E) /\ E \subseteq Int /\ Cardinality(Through(E, 5)) = 1
    <3>1. IsFiniteSet(E)
      BY <1>1, ThroughFinite
    <3> QED BY <1>5, <2>1, <3>1, FS_Singleton
  <2>3. Nth(E, 1) = 5
    BY <1>8, <2>2, NthUnique
  <2> QED BY <2>3 DEF EmptyAt, e1, E
<1>10. e2 \in Nat /\ e2 - 1 \in Nat /\ e2 - 1 >= 6 /\ e2 - 1 <= n
  <2> HIDE DEF e1, e2, E
  <2>1. e2 \in Nat /\ e2 > 5 /\ e2 # 6 /\ e2 <= n
    BY <1>4, <1>5, <1>8, <1>9
  <2> QED BY <1>1, <2>1
<1> DEFINE m == FromText(t)
           y == Section(t, 2)
<1>11. Len(y) >= 1 /\ y[1] # Empty
  <2> DEFINE b == e2 - 1
             S == {t[i] : i \in 1 .. Len(t)}
             a == e1 + 1
  <2>1. y = SubSeq(t, a, b)
    BY DEF Section
  <2>2. t \in Seq(S)
    BY ListIsSeq
  <2> HIDE DEF S, y, e2
  <2>3. a = 6 /\ b \in Nat /\ b >= 6 /\ b <= Len(t)
    BY <1>9, <1>10 DEF n
  <2> HIDE DEF a, b
  <2>4. a \in Nat /\ a >= 1 /\ a - 1 = 5 /\ a - 1 <= b
    BY <2>3
  <2>5. Len(y) = b - (a - 1) /\ \A i \in 1 .. b - (a - 1) : y[i] = t[(a - 1) + i]
    BY <2>1, <2>2, <2>3, <2>4, SubSeqIs
  <2>6. Len(y) = b - 5 /\ 1 \in 1 .. b - 5 /\ \A i \in 1 .. b - 5 : y[i] = t[5 + i]
    BY <2>3, <2>4, <2>5
  <2>7. 5 + 1 = 6
    OBVIOUS
  <2>8. y[1] = t[6]
    BY <2>6, <2>7
  <2> QED BY <1>7, <2>3, <2>6, <2>8
<1>12. HeadValue(t, "xsize") \in Nat
  <2> DEFINE named == {i \in 1 .. e1 - 1 : t[i].kind = "head" /\ t[i].name = "xsize"}
  <2>1. HeadValue(t, "xsize") = IF named = {} THEN 0 ELSE t[Max(named)].value
    BY DEF HeadValue
  <2> HIDE DEF e1
  <2>2. e1 - 1 = 4
    BY <1>9
  <2>3. named \subseteq 1 .. 4
    BY <2>2
  <2>4. \A i \in named : t[i].value \in Nat
    BY <1>1, <1>6, <2>3 DEF Tagged, n
  <2> HIDE DEF named
  <2>5. CASE named = {}
    BY <2>1, <2>5
  <2>6. CASE named # {}
    <3>1. Max(named) \in named
      BY <2>3, <2>6, Greatest
    <3> QED BY <2>1, <2>4, <2>6, <3>1
  <2> QED BY <2>5, <2>6
<1>13. m.y = y /\ m.xsize = HeadValue(t, "xsize")
  BY DEF FromText
<1>14. /\ Converted(m).y = m.y /\ Converted(m).xsize = m.xsize
       /\ Converted(m).maxx = 0
  <2> DEFINE no == NoIndex
             dd == {[key |-> m.dic[i].key, id |-> m.dic[i].id, freq |-> 1] : i \in 1 .. Len(m.dic)}
             new == [no EXCEPT !.y = m.y, !.uni = m.uni, !.bi = m.bi, !.maxid = m.maxid,
                               !.xsize = m.xsize, !.alpha = m.alpha, !.dic = dd]
  <2>1. Converted(m) = new
    BY DEF Converted
  <2>2. no.maxx = 0 /\ "y" \in DOMAIN no /\ "xsize" \in DOMAIN no /\ "maxx" \in DOMAIN no
    BY DEF NoIndex
  <2> HIDE DEF no, m, dd
  <2> QED BY <2>1, <2>2
<1> HIDE DEF m, y
<1> QED BY <1>11, <1>12, <1>13, <1>14 DEF Usable, m
-----------------------------------------------------------------------------
(* The sentences of a file that are answered: what is picked of them.      *)

Given(f, model, k) ==
  LET s == Sentences(f, model.xsize)
  IN  Pick(s, {n \in 1 .. k : ~Malformed(model, Len(s[n]))})

LEMMA OneMore ==
  ASSUME NEW a, IsSeq(a), NEW b, IsSeq(b), NEW e
  PROVE  /\ IsSeq(a \o b) /\ IsSeq(Append(b, e)) /\ a \o <<>> = a /\ <<>> \o a = a
         /\ Append(a \o b, e) = a \o Append(b, e)
         /\ Len(Append(b, e)) = Len(b) + 1 /\ Append(b, e)[Len(b) + 1] = e
         /\ \A i \in 1 .. Len(b) : Append(b, e)[i] = b[i]
<1> DEFINE Za == {a[i] : i \in 1 .. Len(a)}
           Zb == {b[i] : i \in 1 .. Len(b)}
           Z == Za \cup Zb \cup {e}
<1>1. a \in Seq(Za) /\ b \in Seq(Zb)
  BY ListIsSeq
<1>2. Za \subseteq Z /\ Zb \subseteq Z /\ e \in Z
  OBVIOUS
<1> HIDE DEF Z, Za, Zb
<1>3. a \in Seq(Z) /\ b \in Seq(Z)
  BY <1>1, <1>2
<1>4. /\ Append(b, e) \in Seq(Z) /\ Len(Append(b, e)) = Len(b) + 1
      /\ Append(b, e)[Len(b) + 1] = e /\ \A i \in 1 .. Len(b) : Append(b, e)[i] = b[i]
  BY <1>2, <1>3, Appended
<1>5. a \o b \in Seq(Z)
  BY <1>3
<1>6. IsSeq(a \o b) /\ IsSeq(Append(b, e))
  BY <1>4, <1>5, OfSeq
<1>7. a \o <<>> = a /\ <<>> \o a = a
  BY <1>3
<1>8. Append(a \o b, e) = a \o Append(b, e)
  BY <1>2, <1>3
<1> QED BY <1>4, <1>6, <1>7, <1>8

(* One more place, after all the others.                                   *)
LEMMA PickMore ==
  ASSUME NEW s, NEW k \in Nat, NEW W, W \subseteq 1 .. k
  PROVE  Pick(s, W \cup {k + 1}) = Append(Pick(s, W), s[k + 1])
<1> DEFINE a == k + 1
           U == W \cup {a}
           c == Cardinality(W)
           P == Pick(s, W)
           Q == Pick(s, U)
<1>1. a \in Nat /\ k < a /\ W \subseteq 1 .. k /\ W \subseteq 1 .. a /\ U \subseteq 1 .. a
  OBVIOUS
<1>2. \A i \in W : i \in Nat /\ i <= k
  OBVIOUS
<1> HIDE DEF a
<1>3. a \notin W
  BY <1>1, <1>2
<1>4. IsFiniteSet(W) /\ c \in Nat
  BY ThroughFinite
<1>5. Cardinality(U) = c + 1
  BY <1>3, <1>4, FS_AddElement
<1>6. IsFiniteSet(U) /\ U \subseteq Int
  <2>1. IsFiniteSet(U)
    BY <1>4, FS_AddElement
  <2> QED BY <1>1, <1>2, <2>1
<1>7. IsSeq(P) /\ Len(P) = c
  BY PickIs
<1>8. IsSeq(Q) /\ Len(Q) = c + 1
  <2> HIDE DEF U
  <2> QED BY <1>1, <1>5, PickIs
<1>9. ASSUME NEW i \in 1 .. c PROVE Q[i] = P[i]
  <2> DEFINE j == Nth(W, i)
  <2>1. j \in W /\ Cardinality(Through(W, j)) = i
    BY NthIs
  <2> HIDE DEF j
  <2>2. Through(U, j) = Through(W, j)
    <3>1. ~(a <= j)
      BY <1>1, <1>2, <2>1
    <3> QED BY <3>1 DEF Through
  <2>3. Nth(U, i) = j
    <3>1. j \in U
      BY <2>1
    <3> HIDE DEF U
    <3> QED BY <1>6, <2>1, <2>2, <3>1, NthUnique
  <2>4. i \in 1 .. c + 1
    BY <1>4
  <2>5. Q = [n \in 1 .. c + 1 |-> s[Nth(U, n)]]
    BY <1>5 DEF Pick
  <2>6. Q[i] = s[Nth(U, i)]
    BY <2>4, <2>5
  <2>7. P[i] = s[j]
    BY DEF Pick, j
  <2> QED BY <2>3, <2>6, <2>7
<1>10. Q[c + 1] = s[a]
  <2>1. Through(U, a) = U
    <3>1. \A i \in U : i <= a
      BY <1>1, <1>2
    <3> QED BY <3>1 DEF Through
  <2>2. Nth(U, c + 1) = a
    <3>1. a \in U /\ Cardinality(Through(U, a)) = c + 1
      BY <1>5, <2>1
    <3> HIDE DEF U
    <3> QED BY <1>6, <3>1, NthUnique
  <2>3. Q = [n \in 1 .. c + 1 |-> s[Nth(U, n)]]
    BY <1>5 DEF Pick
  <2>4. c + 1 \in 1 .. c + 1
    BY <1>4
  <2> QED BY <2>2, <2>3, <2>4
<1> DEFINE e == s[a]
           R == Append(P, e)
<1> HIDE DEF P, Q, c, e
<1>11. IsSeq(R) /\ Len(R) = c + 1 /\ R[c + 1] = e /\ \A i \in 1 .. c : R[i] = P[i]
  BY <1>7, OneMore
<1> HIDE DEF R
<1>12. \A i \in 1 .. c + 1 : Q[i] = R[i]
  <2> TAKE i \in 1 .. c + 1
  <2>1. i \in 1 .. c \/ i = c + 1
    BY <1>4
  <2> QED BY <1>9, <1>10, <1>11, <2>1 DEF e
<1>13. Q = R
  <2>1. Q = [i \in 1 .. c + 1 |-> Q[i]] /\ R = [i \in 1 .. c + 1 |-> R[i]]
    BY <1>8, <1>11 DEF IsSeq
  <2> QED BY <1>12, <2>1
<1> QED BY <1>13 DEF Q, R, P, e, a

LEMMA GivenMore ==
  ASSUME NEW f, NEW model, NEW k \in Nat
  PROVE  LET s == Sentences(f, model.xsize)
         IN  /\ IsSeq(Given(f, model, k))
             /\ Given(f, model, 0) = <<>>
             /\ Given(f, model, k + 1) =
                  IF Malformed(model, Len(s[k + 1])) THEN Given(f, model, k)
                  ELSE Append(Given(f, model, k), s[k + 1])
<1> DEFINE s == Sentences(f, model.xsize)
           V(n) == Malformed(model, Len(s[n]))
           W(j) == {n \in 1 .. j : ~V(n)}
<1>1. \A j : Given(f, model, j) = Pick(s, W(j))
  BY DEF Given
<1> HIDE DEF s, V
<1>2. W(k) \subseteq 1 .. k /\ W(0) = {}
  OBVIOUS
<1>3. ASSUME V(k + 1) PROVE Pick(s, W(k + 1)) = Pick(s, W(k))
  <2>1. \A n \in 1 .. k + 1 : ~V(n) => n \in 1 .. k
    BY <1>3
  <2>2. W(k + 1) = W(k)
    BY <2>1
  <2> QED BY <2>2
<1>4. ASSUME ~V(k + 1) PROVE Pick(s, W(k + 1)) = Append(Pick(s, W(k)), s[k + 1])
  <2>1. \A n \in 1 .. k + 1 : n \in 1 .. k \/ n = k + 1
    OBVIOUS
  <2>2. W(k + 1) = W(k) \cup {k + 1}
    BY <1>4, <2>1
  <2> HIDE DEF W
  <2> QED BY <1>2, <2>2, PickMore
<1>5. IsSeq(Pick(s, W(k)))
  <2> HIDE DEF W
  <2> QED BY <1>2, PickIs
<1>6. Pick(s, {}) = <<>>
  <2>1. Cardinality({}) = 0
    BY FS_EmptySet
  <2>2. Pick(s, {}) = [n \in 1 .. 0 |-> s[Nth({}, n)]]
    BY <2>1 DEF Pick
  <2> QED BY <2>2
<1>7. Pick(s, W(k + 1)) = IF V(k + 1) THEN Pick(s, W(k)) ELSE Append(Pick(s, W(k)), s[k + 1])
  BY <1>3, <1>4
<1>8. Pick(s, W(0)) = <<>>
  BY <1>2, <1>6
<1> HIDE DEF W
<1>9. /\ IsSeq(Given(f, model, k)) /\ Given(f, model, 0) = <<>>
      /\ Given(f, model, k + 1) =
           IF V(k + 1) THEN Given(f, model, k) ELSE Append(Given(f, model, k), s[k + 1])
  BY <1>1, <1>5, <1>7, <1>8
<1> QED BY <1>9 DEF V, s
(* X holds pre and the answers to what begins in the first p lines of f.   *)
AnsweredSoFar(X, pre, f, model, p) ==
  Tokens(X) =
    pre \o Given(f, model, Cardinality(Through(FirstLines(Visible(f), model.xsize), p)))

LEMMA FirstOf ==
  ASSUME NEW f \in Seq(InputLine), NEW need, NEW v, v = Visible(f)
  PROVE  Len(v) \in Nat /\ FirstLines(v, need) \subseteq 1 .. Len(v)
<1>1. Len(v) \in Nat
  BY VisibleIs
<1> QED BY <1>1 DEF FirstLines

LEMMA TokensMore ==
  ASSUME NEW X, IsSeq(X), NEW s
  PROVE  IsSeq(Tokens(X)) /\ Tokens(Append(X, s)) = Append(Tokens(X), s.tokens)
<1> DEFINE n == Len(X)
           e == s.tokens
           P == Tokens(X)
           Y == Append(X, s)
           Q == Tokens(Y)
           R == Append(P, e)
<1>1. n \in Nat
  BY DEF IsSeq
<1>2. Len(Y) = n + 1 /\ Y[n + 1] = s /\ \A i \in 1 .. n : Y[i] = X[i]
  BY OneMore
<1>3. P = [i \in 1 .. n |-> X[i].tokens]
  BY DEF Tokens
<1>4. Q = [i \in 1 .. n + 1 |-> Y[i].tokens]
  BY <1>2 DEF Tokens
<1> HIDE DEF n, Y, P, Q
<1>5. IsSeq(P) /\ Len(P) = n
  <2>1. DOMAIN P = 1 .. n /\ P = [i \in 1 .. n |-> P[i]]
    BY <1>3
  <2> QED BY <1>1, <2>1, Listed
<1>6. /\ R = [i \in 1 .. n + 1 |-> R[i]] /\ R[n + 1] = e /\ \A i \in 1 .. n : R[i] = P[i]
  <2>1. IsSeq(R) /\ Len(R) = n + 1 /\ R[n + 1] = e /\ \A i \in 1 .. n : R[i] = P[i]
    BY <1>5, OneMore
  <2> HIDE DEF R
  <2> QED BY <2>1 DEF IsSeq
<1> HIDE DEF R, e
<1>7. \A i \in 1 .. n + 1 : Q[i] = R[i]
  <2> TAKE i \in 1 .. n + 1
  <2>1. CASE i = n + 1
    BY <1>1, <1>2, <1>4, <1>6, <2>1 DEF e
  <2>2. CASE i \in 1 .. n
    BY <1>1, <1>2, <1>3, <1>4, <1>6, <2>2
  <2> QED BY <1>1, <2>1, <2>2
<1>8. Q = R
  BY <1>4, <1>6, <1>7
<1> QED BY <1>5, <1>8 DEF P, Q, R, Y, e

LEMMA NoneAnswered ==
  ASSUME NEW f \in Seq(InputLine), NEW model, NEW pre, IsSeq(pre), NEW X, Tokens(X) = pre
  PROVE  AnsweredSoFar(X, pre, f, model, 0)
<1> DEFINE T == FirstLines(Visible(f), model.xsize)
           N == Len(Visible(f))
<1>1. N \in Nat /\ T \subseteq 1 .. N
  BY FirstOf
<1> HIDE DEF T, N
<1>2. \A j \in T : ~(j <= 0)
  BY <1>1
<1>3. Through(T, 0) = {}
  BY <1>2 DEF Through
<1>4. Cardinality(Through(T, 0)) = 0
  BY <1>3, FS_EmptySet
<1>5. Given(f, model, 0) = <<>>
  BY GivenMore
<1>6. pre \o <<>> = pre
  BY OneMore
<1> QED BY <1>4, <1>5, <1>6 DEF AnsweredSoFar, T

LEMMA AnsweredIs ==
  ASSUME NEW f \in Seq(InputLine), NEW model
  PROVE  /\ Answered(f, model) = Given(f, model, Cardinality(FirstLines(Visible(f), model.xsize)))
         /\ IsSeq(Answered(f, model))
<1> DEFINE T == FirstLines(Visible(f), model.xsize)
           N == Len(Visible(f))
           s == Sentences(f, model.xsize)
           c == Cardinality(T)
<1>1. N \in Nat /\ T \subseteq 1 .. N
  BY FirstOf
<1>2. s = [n \in 1 .. c |-> SubSeq(Visible(f), Nth(T, n), LastLine(Visible(f), model.xsize, Nth(T, n)))]
  BY DEF Sentences
<1>3. Answered(f, model) = Pick(s, {n \in 1 .. Len(s) : ~Malformed(model, Len(s[n]))})
  BY DEF Answered
<1>4. \A k : Given(f, model, k) = Pick(s, {n \in 1 .. k : ~Malformed(model, Len(s[n]))})
  BY DEF Given
<1> HIDE DEF T, N, s
<1>5. c \in Nat
  BY <1>1, ThroughFinite
<1> HIDE DEF c
<1>6. Len(s) = c
  <2>1. DOMAIN s = 1 .. c /\ s = [n \in 1 .. c |-> s[n]]
    BY <1>2
  <2> QED BY <1>5, <2>1, Listed
<1>7. Answered(f, model) = Given(f, model, c)
  BY <1>3, <1>4, <1>6
<1>8. IsSeq(Given(f, model, c))
  BY <1>5, GivenMore
<1> QED BY <1>7, <1>8 DEF c, T

LEMMA AllAnswered ==
  ASSUME NEW f \in Seq(InputLine), NEW model, NEW pre, NEW X,
         AnsweredSoFar(X, pre, f, model, Len(Visible(f)) + 1)
  PROVE  Tokens(X) = pre \o Answered(f, model)
<1> DEFINE T == FirstLines(Visible(f), model.xsize)
           N == Len(Visible(f))
<1>1. N \in Nat /\ T \subseteq 1 .. N
  BY FirstOf
<1>2. Tokens(X) = pre \o Given(f, model, Cardinality(Through(T, N + 1)))
  BY DEF AnsweredSoFar
<1> HIDE DEF T, N
<1>3. \A j \in T : j <= N + 1
  BY <1>1
<1>4. Through(T, N + 1) = T
  BY <1>3 DEF Through
<1> QED BY <1>2, <1>4, AnsweredIs DEF T

(* One call of read(), and the answer to what it read.                     *)
LEMMA MoreAnswered ==
  ASSUME NEW f \in Seq(InputLine), NEW v, v = Visible(f), NEW model, model.xsize \in Int,
         NEW p, NEW q, Run(v, model.xsize, p, q),
         NEW pre, IsSeq(pre), NEW X, IsSeq(X), AnsweredSoFar(X, pre, f, model, p),
         NEW s, s.tokens = SubSeq(v, p + 1, q - 1), NEW Y,
         Y = IF Closed(v, q) /\ q > p + 1 /\ ~Malformed(model, Len(s.tokens))
             THEN Append(X, s) ELSE X
  PROVE  AnsweredSoFar(Y, pre, f, model, q)
<1> DEFINE need == model.xsize
           T == FirstLines(v, need)
           n == Len(v)
           sent == Sentences(f, need)
           c == Cardinality(Through(T, p))
           d == Cardinality(Through(T, q))
<1>1. v \in Seq(InputLine) /\ n \in Nat /\ \A i \in 1 .. n : v[i] # Overlong
  BY VisibleIs
<1>2. T \subseteq 1 .. n
  BY DEF FirstLines
<1>3. p \in Nat /\ q \in Nat /\ p < q /\ p + 1 <= q /\ p <= q
  BY <1>1 DEF Run
<1>4. /\ \A i \in p + 1 .. q : i \in T <=> i = p + 1 /\ q > p + 1 /\ Closed(v, q)
      /\ q > p + 1 /\ Closed(v, q) => LastLine(v, need, p + 1) = q - 1
  <2> HIDE DEF need
  <2>1. need \in Int /\ Run(v, need, p, q)
    BY DEF need
  <2> QED BY <1>1, <2>1, RunIs
<1>5. Tokens(X) = pre \o Given(f, model, c)
  BY DEF AnsweredSoFar
<1>6. sent = [k \in 1 .. Cardinality(T) |->
                SubSeq(v, Nth(T, k), LastLine(v, need, Nth(T, k)))]
  BY DEF Sentences
<1>7. \A k \in Nat : /\ IsSeq(Given(f, model, k))
                     /\ Given(f, model, k + 1) =
                          IF Malformed(model, Len(sent[k + 1])) THEN Given(f, model, k)
                          ELSE Append(Given(f, model, k), sent[k + 1])
  BY GivenMore
<1>8. SUFFICES Tokens(Y) = pre \o Given(f, model, d)
  BY DEF AnsweredSoFar
<1> HIDE DEF T, n, sent, need
<1>9. c \in Nat /\ d \in Nat /\ Cardinality(T) \in Nat
  BY <1>1, <1>2, ThroughFinite
<1>10. CASE ~(Closed(v, q) /\ q > p + 1)
  <2>1. \A i \in p + 1 .. q : i \notin T
    BY <1>3, <1>4, <1>10
  <2>2. Through(T, q) = Through(T, p)
    BY <1>1, <1>2, <1>3, <2>1, ThroughSame
  <2>3. Y = X
    BY <1>10
  <2> QED BY <1>5, <2>2, <2>3
<1>11. CASE Closed(v, q) /\ q > p + 1
  <2>1. p + 1 \in p + 1 .. q /\ \A i \in p + 2 .. q : i \in p + 1 .. q /\ i # p + 1
    BY <1>3, <1>11
  <2>2. p + 1 \in T /\ \A i \in p + 2 .. q : i \notin T
    BY <1>4, <1>11, <2>1
  <2>3. d = c + 1 /\ Nth(T, c + 1) = p + 1
    BY <1>1, <1>2, <1>3, <2>2, ThroughOne
  <2>4. LastLine(v, need, p + 1) = q - 1
    BY <1>4, <1>11
  <2>5. c + 1 \in 1 .. Cardinality(T)
    <3>1. IsFiniteSet(T) /\ Through(T, q) \subseteq T
      BY <1>1, <1>2, ThroughFinite DEF Through
    <3>2. d <= Cardinality(T)
      BY <3>1, FS_Subset
    <3> HIDE DEF c, d
    <3> QED BY <1>9, <2>3, <3>2
  <2> DEFINE a == p + 1
             k == c + 1
  <2>6. sent[k] = s.tokens
    <3>1. k \in 1 .. Cardinality(T) /\ Nth(T, k) = a /\ LastLine(v, need, a) = q - 1
          /\ s.tokens = SubSeq(v, a, q - 1)
      BY <2>3, <2>4, <2>5
    <3> HIDE DEF a, k
    <3> QED BY <1>6, <3>1
  <2> HIDE DEF c, d
  <2>7. Given(f, model, d) =
          IF Malformed(model, Len(s.tokens)) THEN Given(f, model, c)
          ELSE Append(Given(f, model, c), s.tokens)
    BY <1>7, <1>9, <2>3, <2>6
  <2>8. CASE Malformed(model, Len(s.tokens))
    BY <1>5, <2>7, <2>8
  <2>9. CASE ~Malformed(model, Len(s.tokens))
    <3>1. Y = Append(X, s)
      BY <1>11, <2>9
    <3>2. Tokens(Y) = Append(Tokens(X), s.tokens)
      BY <3>1, TokensMore
    <3>3. Append(pre \o Given(f, model, c), s.tokens) = pre \o Append(Given(f, model, c), s.tokens)
      <4>1. IsSeq(Given(f, model, c))
        BY <1>7, <1>9
      <4> QED BY <4>1, OneMore
    <3> QED BY <1>5, <2>7, <2>9, <3>2, <3>3
  <2> QED BY <2>8, <2>9
<1> QED BY <1>10, <1>11

(* What the files before have been answered.                               *)
LEMMA AnsweredOfIs ==
  ASSUME NEW files, Len(files) \in Nat, NEW model,
         \A k \in 1 .. Len(files) : IsSeq(Answered(files[k].lines, model))
  PROVE  LET all == AnsweredOf(files, model)
         IN  /\ all[0] = <<>>
             /\ \A k \in 1 .. Len(files) : all[k] = all[k - 1] \o Answered(files[k].lines, model)
             /\ \A k \in 0 .. Len(files) : IsSeq(all[k])
<1> DEFINE n == Len(files)
           A(k) == Answered(files[k].lines, model)
           Z == UNION {{A(k)[i] : i \in 1 .. Len(A(k))} : k \in 1 .. n}
           S == Seq(Z)
           G == [k \in 1 .. n |-> [a \in S |-> a \o A(k)]]
<1>1. \A k \in 1 .. n : A(k) \in S
  <2> TAKE k \in 1 .. n
  <2>1. IsSeq(A(k)) /\ \A i \in 1 .. Len(A(k)) : A(k)[i] \in Z
    OBVIOUS
  <2> HIDE DEF A, Z
  <2> QED BY <2>1, SeqIn
<1>2. n \in Nat
  OBVIOUS
<1> DEFINE b == <<>>
<1>3. b \in S
  OBVIOUS
<1> HIDE DEF A, Z, n
<1>4. \A k \in 1 .. n : \A a \in S : a \o A(k) \in S
  BY <1>1
<1> HIDE DEF S, b
<1>5. G \in [1 .. n -> [S -> S]]
  BY <1>4
<1>6. \A k \in 1 .. n : \A a \in S : G[k][a] = a \o A(k)
  OBVIOUS
<1> HIDE DEF G
<1>7. PICK f : Follows(f, n, S, b, G)
  BY <1>2, <1>3, <1>5, Recursion
<1> DEFINE Turn(g, k) == IF k = 0 THEN b ELSE g[k - 1] \o A(k)
           all[k \in 0 .. n] == Turn(all, k)
<1>8. f = [k \in 0 .. n |-> Turn(f, k)]
  <2>1. f \in [0 .. n -> S] /\ f[0] = b /\ \A k \in 1 .. n : f[k] = G[k][f[k - 1]]
    BY <1>7 DEF Follows
  <2>2. \A k \in 0 .. n : f[k] = Turn(f, k)
    <3> TAKE k \in 0 .. n
    <3>1. CASE k = 0
      BY <2>1, <3>1
    <3>2. CASE k # 0
      <4>1. k \in 1 .. n /\ k - 1 \in 0 .. n
        BY <1>2, <3>2
      <4>2. f[k - 1] \in S
        BY <2>1, <4>1
      <4> QED BY <1>6, <2>1, <3>2, <4>1, <4>2
    <3> QED BY <3>1, <3>2
  <2> HIDE DEF Turn
  <2>3. f = [k \in 0 .. n |-> f[k]]
    BY <2>1
  <2> QED BY <2>2, <2>3
<1>9. all = [k \in 0 .. n |-> Turn(all, k)]
  <2> HIDE DEF Turn
  <2> QED BY <1>8
<1>10. AnsweredOf(files, model) = all
  BY DEF AnsweredOf, n, A, b
<1> HIDE DEF all
<1>11. all[0] = b
  BY <1>2, <1>9
<1>12. \A k \in 1 .. n : all[k] = all[k - 1] \o A(k)
  <2> TAKE k \in 1 .. n
  <2>1. k \in 0 .. n /\ k # 0
    BY <1>2
  <2> QED BY <1>9, <2>1
<1>13. \A k \in 0 .. n : IsSeq(all[k])
  <2> DEFINE V == {k \in 0 .. n : IsSeq(all[k])}
  <2>1. IsSeq(b)
    BY <1>3, OfSeq DEF S
  <2>2. 0 \in V
    BY <1>2, <1>11, <2>1
  <2>3. ASSUME NEW k \in 0 .. n - 1, k \in V PROVE k + 1 \in V
    <3> DEFINE j == k + 1
    <3>1. j \in 1 .. n /\ j - 1 = k /\ j \in 0 .. n
      BY <1>2
    <3> HIDE DEF j
    <3>2. all[j] = all[k] \o A(j) /\ IsSeq(all[k])
      BY <1>12, <2>3, <3>1
    <3>3. IsSeq(A(j))
      BY <1>1, <3>1, OfSeq DEF S
    <3>4. IsSeq(all[j])
      BY <3>2, <3>3, OneMore
    <3> QED BY <3>1, <3>4 DEF j
  <2> HIDE DEF V
  <2>4. 0 .. n \subseteq V
    BY <1>2, <2>2, <2>3, UpTo
  <2> QED BY <2>4 DEF V
<1> QED BY <1>10, <1>11, <1>12, <1>13 DEF n, A, b
-----------------------------------------------------------------------------
(* The models that crf_learn writes are usable when every training file    *)
(* has a line: it does not test for an empty one.                          *)

HasLines == \A a \in Training : a.mode = "learn" /\ a.there => TokenLines(a.train) # {}

ModelInv ==
  /\ lphase # "idle" => Usable(index) /\ index.maxx \in Nat
  /\ lphase = "read" => Columned(index)
  /\ Tagged(text)
  /\ published # NotYet => Usable(published)

LEMMA ShrinkKeeps ==
  ASSUME NEW ix, IndexOK(ix), NEW freq
  PROVE  /\ Shrink(ix, freq).y = ix.y /\ Shrink(ix, freq).xsize = ix.xsize
         /\ Shrink(ix, freq).maxx = ix.maxx
<1>1. \/ Shrink(ix, freq) = ix
      \/ \E d, n : Shrink(ix, freq) = [ix EXCEPT !.dic = d, !.maxid = n]
  BY DEF Shrink
<1>2. ix = [y |-> ix.y, uni |-> ix.uni, bi |-> ix.bi, dic |-> ix.dic, maxid |-> ix.maxid,
            xsize |-> ix.xsize, maxx |-> ix.maxx, alpha |-> ix.alpha]
  BY DEF IndexOK
<1>3. "y" \in DOMAIN ix /\ "xsize" \in DOMAIN ix /\ "maxx" \in DOMAIN ix
  BY <1>2
<1> DEFINE new == Shrink(ix, freq)
<1>4. CASE new = ix
  BY <1>4
<1>5. CASE \E d, n : new = [ix EXCEPT !.dic = d, !.maxid = n]
  <2>1. PICK d, n : new = [ix EXCEPT !.dic = d, !.maxid = n]
    BY <1>5
  <2> HIDE DEF new
  <2>2. new.y = ix.y /\ new.xsize = ix.xsize /\ new.maxx = ix.maxx
    BY <1>3, <2>1
  <2> QED BY <2>2 DEF new
<1> QED BY <1>1, <1>4, <1>5

LEMMA StoredUsable ==
  ASSUME NEW m, ModelOK(m), Usable(m)
  PROVE  Usable(Stored(m))
<1> DEFINE s == Stored(m)
           w == Weights(m)
<1>1. s = [y |-> m.y, uni |-> m.uni, bi |-> m.bi, dic |-> m.dic, maxid |-> m.maxid,
           xsize |-> m.xsize, alpha |-> w]
  BY StoredIs
<1> HIDE DEF s, w
<1>2. s.y = m.y /\ s.xsize = m.xsize
  BY <1>1
<1>3. Usable(s)
  BY <1>2 DEF Usable
<1> QED BY <1>3 DEF s

LEMMA ModelInit == Init => ModelInv
<1> SUFFICES ASSUME Init PROVE ModelInv
  OBVIOUS
<1>1. lphase = "idle" /\ text = <<>> /\ published = NotYet
  BY DEF Init, LearnInit
<1>2. Len(text) = 0
  BY <1>1
<1>3. Tagged(text)
  BY <1>2 DEF Tagged
<1> QED BY <1>1, <1>3 DEF ModelInv

LEMMA ModelStep ==
  ASSUME HasLines, LearnInv, ModelInv, [Next]_vars
  PROVE  ModelInv'
<1>0. /\ IndexOK(index) /\ SaneText(text) /\ IsSeq(text) /\ Tagged(text)
      /\ published # NotYet => Usable(published)
      /\ lphase # "idle" => Usable(index) /\ index.maxx \in Nat
  BY DEF LearnInv, SaneText, ModelInv
<1> DEFINE m == ToSave(index)
<1>s. lphase # "idle" => ModelOK(m) /\ Usable(m)
  BY <1>0, ToSaveOK, SavedUsable
<1>1. CASE LearnRefused
  <2>1. lphase' = "idle" /\ UNCHANGED <<text, published>>
    BY <1>1 DEF LearnRefused, Ends, diskVars
  <2> QED BY <1>0, <2>1 DEF ModelInv
<1>2. CASE LearnOpen
  <2>1. /\ args' \in Training /\ args'.mode = "learn" /\ UNCHANGED <<text, published>>
        /\ \/ args'.there /\ Consistent(args'.train) /\ lphase' = "read" /\ index' = Opened(args')
           \/ lphase' = "idle"
    BY <1>2 DEF LearnOpen, Ends, diskVars
  <2>2. CASE /\ args'.there /\ Consistent(args'.train) /\ lphase' = "read"
             /\ index' = Opened(args')
    <3>1. TokenLines(args'.train) # {}
      BY <2>1, <2>2 DEF HasLines
    <3>2. Usable(index') /\ Columned(index')
      BY <2>1, <2>2, <3>1, OpenedUsable
    <3> QED BY <1>0, <2>1, <2>2, <3>2 DEF ModelInv, Columned
  <2>3. CASE lphase' = "idle"
    BY <1>0, <2>1, <2>3 DEF ModelInv
  <2> QED BY <2>1, <2>2, <2>3
<1>3. CASE Convert
  <2>1. /\ UNCHANGED <<text, published>>
        /\ \/ Converts(text) /\ lphase' = "save" /\ index' = Converted(FromText(text))
           \/ lphase' = "idle"
    BY <1>3 DEF Convert, Ends, diskVars
  <2>2. Converts(text) => /\ Usable(Converted(FromText(text)))
                          /\ Converted(FromText(text)).maxx \in Nat
    BY <1>0, ConvertedUsable
  <2> QED BY <1>0, <2>1, <2>2 DEF ModelInv
<1>4. CASE ReadSentence
  <2>1. /\ lphase = "read" /\ UNCHANGED <<text, published>>
        /\ \/ lphase' = "idle"
           \/ lphase' = "read" /\ \E n : index' = BuildFeatures(index, n)
    BY <1>4 DEF ReadSentence, Complains, Ends, diskVars
  <2>2. Usable(index) /\ Columned(index)
    BY <2>1 DEF ModelInv
  <2>3. \A n : /\ Stays(index, BuildFeatures(index, n))
               /\ Columned(BuildFeatures(index, n))
    BY <1>0, <2>2, BuildOK
  <2>4. \A n : Usable(BuildFeatures(index, n))
    BY <2>2, <2>3 DEF Usable, Stays
  <2> QED BY <1>0, <2>1, <2>3, <2>4 DEF ModelInv, Columned
<1>5. CASE ShrinkDictionary
  <2>1. /\ lphase = "read" /\ lphase' = "train" /\ UNCHANGED <<text, published>>
        /\ index' = Shrink(index, args.freq)
    BY <1>5 DEF ShrinkDictionary, diskVars
  <2>2. index'.y = index.y /\ index'.xsize = index.xsize /\ index'.maxx = index.maxx
    BY <1>0, <2>1, ShrinkKeeps
  <2> QED BY <1>0, <2>1, <2>2 DEF ModelInv, Usable
<1>6. CASE Train
  <2>1. /\ lphase = "train" /\ UNCHANGED <<text, published>>
        /\ \/ lphase' = "idle"
           \/ lphase' = "delete" /\ \E w : index' = [index EXCEPT !.alpha = w]
    BY <1>6 DEF Train, Complains, Ends, diskVars
  <2>2. ASSUME NEW w, index' = [index EXCEPT !.alpha = w]
        PROVE  Usable(index') /\ index'.maxx \in Nat
    <3>1. "y" \in DOMAIN index /\ "xsize" \in DOMAIN index /\ "maxx" \in DOMAIN index
      BY <1>0 DEF IndexOK
    <3>2. index'.y = index.y /\ index'.xsize = index.xsize /\ index'.maxx = index.maxx
      BY <2>2, <3>1
    <3> QED BY <1>0, <2>1, <3>2 DEF Usable
  <2> QED BY <1>0, <2>1, <2>2 DEF ModelInv
<1>7. CASE DeleteSentences \/ SaveOpen \/ SaveRefused \/ TextRefused
  <2>1. /\ lphase \in {"delete", "save", "text"} /\ lphase' # "read"
        /\ lphase' \in {"save", "write", "idle"} /\ UNCHANGED <<index, text>>
        /\ published' \in {published, NotYet}
    BY <1>7 DEF DeleteSentences, SaveOpen, SaveRefused, TextRefused, Complains, Ends, diskVars
  <2> QED BY <1>0, <2>1 DEF ModelInv
<1>8. CASE SaveCell
  <2>1. /\ lphase = "write" /\ lphase' # "read" /\ UNCHANGED <<index, text>>
        /\ published' = published \/ published' = Stored(m)
    BY <1>8 DEF SaveCell
  <2>2. Usable(Stored(m))
    BY <1>s, <2>1, StoredUsable
  <2> QED BY <1>0, <2>1, <2>2 DEF ModelInv
<1>9. CASE Finish
  <2>1. lphase = "text" /\ lphase' = "idle" /\ published' = published
        /\ (text' = text \/ text' = Text(m))
    BY <1>9 DEF Finish, Ends
  <2>2. Tagged(Text(m))
    BY <1>s, <2>1, TextTagged
  <2> QED BY <1>0, <2>1, <2>2 DEF ModelInv
<1>10. CASE Kill
  <2> DEFINE t == Text(m)
  <2>1. lphase # "idle" /\ lphase' = "idle" /\ published' = published
        /\ (text' = text \/ \E n \in 0 .. Len(t), b \in BOOLEAN : text' = Cut(t, n, b))
    BY <1>10 DEF Kill, Ends
  <2>2. Tagged(t) /\ IsSeq(t)
    BY <1>s, <2>1, TextTagged, TextOK DEF SaneText
  <2> HIDE DEF t
  <2>3. Tagged(text')
    BY <1>0, <2>1, <2>2, CutTagged
  <2> QED BY <1>0, <2>1, <2>3 DEF ModelInv
<1>11. CASE UNCHANGED <<learnVars, diskVars>>
  BY <1>11 DEF ModelInv, learnVars, diskVars
<1> QED
  BY <1>1, <1>2, <1>3, <1>4, <1>5, <1>6, <1>7, <1>8, <1>9, <1>10, <1>11
  DEF Next, Learning, Working, vars
-----------------------------------------------------------------------------
(* crf_test between two calls of read(): the stream is between two lines,  *)
(* and what begins before is answered, after what was in pre.              *)

Answering(f, model, pre, io, X) ==
  LET v == Visible(f)
  IN  IF io.good
      THEN \E p \in 0 .. Len(v) :
             /\ ~Good(v, model.xsize, p) /\ io.rest = SubSeq(f, p + 1, Len(f))
             /\ AnsweredSoFar(X, pre, f, model, p)
      ELSE AnsweredSoFar(X, pre, f, model, Len(v) + 1)

AnswerInv ==
  /\ tphase # "fault"
  /\ tphase # "idle" => job \in Job /\ job.mode = "run"
  /\ tphase \in {"open", "mapped"} => out = <<>>
  /\ tphase = "input" =>
       /\ nth \in 1 .. Len(job.files) + 1
       /\ Tokens(out) = AnsweredOf(job.files, decoder)[nth - 1]
  /\ tphase = "parse" =>
       /\ nth \in 1 .. Len(job.files)
       /\ Answering(job.files[nth].lines, decoder, AnsweredOf(job.files, decoder)[nth - 1],
                    input, out)

LEMMA AnswerBegins ==
  ASSUME NEW f \in Seq(InputLine), NEW model, NEW pre, IsSeq(pre), NEW X, Tokens(X) = pre,
         NEW io, io.good, io.rest = f
  PROVE  Answering(f, model, pre, io, X)
<1> DEFINE v == Visible(f)
<1>1. Len(v) \in Nat
  BY VisibleIs
<1>2. f = SubSeq(f, 0 + 1, Len(f))
  <2> DEFINE R == InputLine
  <2>1. f \in Seq(R)
    OBVIOUS
  <2> HIDE DEF R
  <2> QED BY <2>1
<1>3. 0 \in 0 .. Len(v) /\ ~Good(v, model.xsize, 0)
  BY <1>1 DEF Good
<1>4. AnsweredSoFar(X, pre, f, model, 0)
  BY NoneAnswered
<1> QED BY <1>2, <1>3, <1>4 DEF Answering

LEMMA AnswerGoesOn ==
  ASSUME NEW f \in Seq(InputLine), NEW model, model.xsize \in Int,
         NEW pre, IsSeq(pre), NEW X, IsSeq(X), NEW io, io.good, Answering(f, model, pre, io, X),
         NEW r, r = Read(io.rest, model.xsize),
         NEW s, s.tokens = r.tokens, NEW Y,
         Y = IF r.ok /\ ~Malformed(model, Len(r.tokens)) /\ Len(r.tokens) > 0
             THEN Append(X, s) ELSE X,
         NEW new, new.good = r.good, new.rest = r.rest
  PROVE  Answering(f, model, pre, new, Y)
<1> DEFINE v == Visible(f)
           n == Len(v)
           need == model.xsize
<1>1. v \in Seq(InputLine) /\ n \in Nat
  BY VisibleIs
<1>2. PICK p \in 0 .. n : /\ ~Good(v, need, p) /\ io.rest = SubSeq(f, p + 1, Len(f))
                          /\ AnsweredSoFar(X, pre, f, model, p)
  BY DEF Answering
<1>3. PICK q \in p + 1 .. n + 1 :
        /\ Run(v, need, p, q)
        /\ r.tokens = SubSeq(v, p + 1, q - 1)
        /\ r.ok <=> Closed(v, q)
        /\ r.good <=> q <= n
        /\ r.good => r.rest = SubSeq(f, q + 1, Len(f))
  <2> HIDE DEF v
  <2>1. v = Visible(f)
    BY DEF v
  <2>2. ReadGives(f, v, need, p, r)
    BY <1>2, <2>1, ReadIs
  <2> QED BY <2>2 DEF ReadGives
<1>4. p \in Nat /\ q \in Nat /\ p + 1 <= q /\ q <= n + 1
  BY <1>1, <1>2, <1>3
<1>5. Len(r.tokens) > 0 <=> q > p + 1
  <2> DEFINE a == p + 1
             b == q - 1
  <2>1. a \in Nat /\ a >= 1 /\ b \in Nat /\ b <= Len(v) /\ a - 1 <= b /\ a - 1 = p
    BY <1>4
  <2>2. r.tokens = SubSeq(v, a, b)
    BY <1>3
  <2> HIDE DEF a, v
  <2>3. Len(SubSeq(v, a, b)) = b - (a - 1)
    <3> HIDE DEF b
    <3> QED BY <1>1, <2>1, SubSeqIs
  <2>4. Len(r.tokens) = (q - 1) - p
    BY <2>1, <2>2, <2>3
  <2> QED BY <1>4, <2>4
<1>6. Y = IF Closed(v, q) /\ q > p + 1 /\ ~Malformed(model, Len(s.tokens))
          THEN Append(X, s) ELSE X
  BY <1>3, <1>5
<1>7. AnsweredSoFar(Y, pre, f, model, q)
  <2> HIDE DEF v
  <2>1. v = Visible(f)
    BY DEF v
  <2>2. s.tokens = SubSeq(v, p + 1, q - 1) /\ Run(v, model.xsize, p, q)
    BY <1>3
  <2> QED BY <1>2, <1>6, <2>1, <2>2, MoreAnswered
<1>8. ~Good(v, need, q)
  BY <1>3 DEF Run
<1>9. CASE r.good
  <2>1. q \in 0 .. n /\ new.rest = SubSeq(f, q + 1, Len(f)) /\ new.good
    BY <1>3, <1>4, <1>9
  <2> QED BY <1>7, <1>8, <2>1 DEF Answering
<1>10. CASE ~r.good
  <2>1. q = n + 1 /\ ~new.good
    BY <1>1, <1>3, <1>4, <1>10
  <2> QED BY <1>7, <2>1 DEF Answering
<1> QED BY <1>9, <1>10

(* The files of a run of crf_test.                                         *)
LEMMA FilesOf ==
  ASSUME NEW j \in Job, j.mode = "run", NEW model
  PROVE  LET all == AnsweredOf(j.files, model)
         IN  /\ Len(j.files) \in Nat
             /\ \A k \in 1 .. Len(j.files) : j.files[k].lines \in Seq(InputLine)
             /\ all[0] = <<>>
             /\ \A k \in 1 .. Len(j.files) :
                  all[k] = all[k - 1] \o Answered(j.files[k].lines, model)
             /\ \A k \in 0 .. Len(j.files) : IsSeq(all[k])
<1> DEFINE F == j.files
           L == Seq(InputLine)
           E == [there : BOOLEAN, lines : L]
<1>1. F \in Seq(E)
  BY JobAssumption
<1>2. \A e \in E : e.lines \in L
  <2> HIDE DEF L
  <2> QED OBVIOUS
<1> HIDE DEF E, F
<1>3. Len(F) \in Nat /\ \A k \in 1 .. Len(F) : F[k] \in E
  BY <1>1
<1>4. \A k \in 1 .. Len(F) : F[k].lines \in L
  BY <1>2, <1>3
<1>5. \A k \in 1 .. Len(F) : IsSeq(Answered(F[k].lines, model))
  BY <1>4, AnsweredIs
<1> QED BY <1>3, <1>4, <1>5, AnsweredOfIs DEF F

LEMMA AnswerInit == Init => AnswerInv
<1> SUFFICES ASSUME Init PROVE AnswerInv
  OBVIOUS
<1>1. tphase = "idle"
  BY DEF Init, TestInit
<1> QED BY <1>1 DEF AnswerInv

LEMMA AnswerParsed ==
  ASSUME DiskInv, TestInv, ModelInv, AnswerInv, ParseSentence(file)
  PROVE  AnswerInv'
<1> DEFINE r == Read(input.rest, decoder.xsize)
           n == Len(r.tokens)
           ok == r.ok
           bad == Malformed(decoder, n)
           some == n > 0
           s == [tokens |-> r.tokens, by |-> Now(file)]
           f == job.files[nth].lines
           pre == AnsweredOf(job.files, decoder)[nth - 1]
<1>1. tphase = "parse" /\ input.good /\ UNCHANGED <<job, decoder, nth>>
  BY DEF ParseSentence
<1>2. job \in Job /\ job.mode = "run" /\ nth \in 1 .. Len(job.files)
      /\ Answering(f, decoder, pre, input, out)
  BY <1>1 DEF AnswerInv
<1>3. Usable(decoder) /\ mapped.size \in 1 .. Len(file) /\ IsSeq(out)
  BY <1>1 DEF TestInv, ModelInv
<1>4. Len(file) \in Nat
  BY FileLength
<1>5. ~(Len(file) < mapped.size) /\ decoder.y # <<>> /\ decoder.xsize \in Int
  <2>1. ~(Len(file) < mapped.size)
    BY <1>3, <1>4
  <2>2. Len(<<>>) = 0
    OBVIOUS
  <2>3. decoder.y # <<>>
    BY <1>3, <2>2 DEF Usable
  <2> QED BY <1>3, <2>1, <2>3 DEF Usable
<1>6. /\ input' = [good |-> r.good, rest |-> r.rest]
      /\ out' = IF (ok /\ ~bad) /\ some THEN Append(out, s) ELSE out
      /\ tphase' = tphase
  <2>1. IF (ok /\ ~bad) /\ some /\ (Len(file) < mapped.size \/ decoder.y = <<>>)
        THEN tphase' = "fault" /\ UNCHANGED <<input, out>>
        ELSE /\ input' = [good |-> r.good, rest |-> r.rest]
             /\ out' = IF (ok /\ ~bad) /\ some THEN Append(out, s) ELSE out
             /\ UNCHANGED tphase
    BY DEF ParseSentence
  <2> HIDE DEF r, n, ok, bad, some, s
  <2> QED BY <1>5, <2>1
<1>7. nth - 1 \in 0 .. Len(job.files) /\ Len(job.files) \in Nat
  BY <1>2, FilesOf
<1>8. f \in Seq(InputLine) /\ IsSeq(pre)
  BY <1>2, <1>7, FilesOf
<1> DEFINE good == r.good
           rest == r.rest
<1>9. input'.good = r.good /\ input'.rest = r.rest
  <2>1. input' = [good |-> good, rest |-> rest]
    BY <1>6
  <2> HIDE DEF good, rest
  <2>2. input'.good = good /\ input'.rest = rest
    BY <2>1
  <2> QED BY <2>2 DEF good, rest
<1>10. s.tokens = r.tokens
  OBVIOUS
<1>11. r = Read(input.rest, decoder.xsize)
  OBVIOUS
<1>12. out' = IF r.ok /\ ~Malformed(decoder, Len(r.tokens)) /\ Len(r.tokens) > 0
              THEN Append(out, s) ELSE out
  BY <1>6
<1> HIDE DEF r, s, f, pre, good, rest, ok, bad, some, n
<1>13. Answering(f, decoder, pre, input', out')
  BY <1>1, <1>2, <1>3, <1>5, <1>8, <1>9, <1>10, <1>11, <1>12, AnswerGoesOn
<1> QED BY <1>1, <1>2, <1>6, <1>13 DEF AnswerInv, f, pre

LEMMA AnswerStep ==
  ASSUME DiskInv, TestInv, ModelInv, AnswerInv, [Next]_vars
  PROVE  AnswerInv'
<1>1. CASE UNCHANGED testVars
  BY <1>1 DEF AnswerInv, testVars
<1>2. CASE TestStart
  <2>1. /\ job' \in Job /\ out' = <<>>
        /\ (job'.mode = "run" /\ tphase' = "open") \/ tphase' = "idle"
    BY <1>2 DEF TestStart, Returns
  <2> QED BY <2>1 DEF AnswerInv
<1>3. CASE MapModel(file)
  <2>1. tphase = "open" /\ tphase' \in {"idle", "mapped"} /\ UNCHANGED <<job, out>>
    BY <1>3 DEF MapModel, Returns
  <2> QED BY <2>1 DEF AnswerInv
<1>4. CASE ReadModel(file)
  <2>1. /\ tphase = "mapped" /\ UNCHANGED <<job, out>>
        /\ (tphase' = "input" /\ nth' = 1) \/ tphase' = "idle"
    BY <1>4 DEF ReadModel, Returns
  <2>2. job \in Job /\ job.mode = "run" /\ out = <<>>
    BY <2>1 DEF AnswerInv
  <2>3. CASE tphase' = "input" /\ nth' = 1
    <3>1. AnsweredOf(job.files, decoder')[0] = <<>> /\ Len(job.files) \in Nat
      BY <2>2, FilesOf
    <3>2. Tokens(<<>>) = <<>>
      BY DEF Tokens
    <3>3. nth' - 1 = 0 /\ nth' \in 1 .. Len(job'.files) + 1
      BY <2>1, <2>3, <3>1
    <3> QED BY <2>1, <2>2, <2>3, <3>1, <3>2, <3>3 DEF AnswerInv
  <2>4. CASE tphase' = "idle"
    BY <2>4 DEF AnswerInv
  <2> QED BY <2>1, <2>3, <2>4
<1>5. CASE OpenInput
  <2>1. /\ tphase = "input" /\ nth <= Len(job.files) /\ UNCHANGED <<job, nth, out>>
        /\ \/ /\ tphase' = "parse" /\ UNCHANGED decoder
              /\ input' = [good |-> TRUE, rest |-> job.files[nth].lines]
           \/ tphase' = "idle"
    BY <1>5 DEF OpenInput, Returns
  <2>2. CASE /\ tphase' = "parse" /\ UNCHANGED decoder
             /\ input' = [good |-> TRUE, rest |-> job.files[nth].lines]
    <3> DEFINE f == job.files[nth].lines
               pre == AnsweredOf(job.files, decoder)[nth - 1]
    <3>1. /\ job \in Job /\ job.mode = "run" /\ nth \in 1 .. Len(job.files) + 1
          /\ Tokens(out) = pre
      BY <2>1 DEF AnswerInv
    <3>2. Len(job.files) \in Nat
      BY <3>1, FilesOf
    <3>3. nth \in 1 .. Len(job.files) /\ nth - 1 \in 0 .. Len(job.files)
      BY <2>1, <3>1, <3>2
    <3>4. f \in Seq(InputLine) /\ IsSeq(pre)
      BY <3>1, <3>3, FilesOf
    <3>5. input'.good /\ input'.rest = f
      BY <2>2
    <3> HIDE DEF f, pre
    <3>6. Answering(f, decoder, pre, input', out)
      BY <3>1, <3>4, <3>5, AnswerBegins
    <3> QED BY <2>1, <2>2, <3>1, <3>3, <3>6 DEF AnswerInv, f, pre
  <2>3. CASE tphase' = "idle"
    BY <2>3 DEF AnswerInv
  <2> QED BY <2>1, <2>2, <2>3
<1>6. CASE ParseSentence(file)
  BY <1>6, AnswerParsed
<1>7. CASE EndOfInput
  <2>1. /\ tphase = "parse" /\ ~input.good /\ nth' = nth + 1 /\ tphase' = "input"
        /\ UNCHANGED <<job, decoder, out>>
    BY <1>7 DEF EndOfInput
  <2> DEFINE f == job.files[nth].lines
             all == AnsweredOf(job.files, decoder)
             pre == all[nth - 1]
  <2>2. /\ job \in Job /\ job.mode = "run" /\ nth \in 1 .. Len(job.files)
        /\ Answering(f, decoder, pre, input, out)
    BY <2>1 DEF AnswerInv
  <2>3. Len(job.files) \in Nat /\ f \in Seq(InputLine) /\ all[nth] = pre \o Answered(f, decoder)
    BY <2>2, FilesOf
  <2> HIDE DEF f, pre, all
  <2>4. AnsweredSoFar(out, pre, f, decoder, Len(Visible(f)) + 1)
    BY <2>1, <2>2 DEF Answering
  <2>5. Tokens(out) = all[nth]
    BY <2>3, <2>4, AllAnswered
  <2>6. nth' \in 1 .. Len(job.files) + 1 /\ nth' - 1 = nth
    BY <2>1, <2>2, <2>3
  <2> QED BY <2>1, <2>2, <2>5, <2>6 DEF AnswerInv, all
<1>8. CASE EndOfFiles
  <2>1. tphase' = "idle"
    BY <1>8 DEF EndOfFiles, Returns
  <2> QED BY <2>1 DEF AnswerInv
<1> QED BY <1>1, <1>2, <1>3, <1>4, <1>5, <1>6, <1>7, <1>8 DEF Next, Testing, vars

(* crf_test answers the sentences of its files in order, each once, but    *)
(* for runs that end at a short line and sentences on which a template of  *)
(* the model cannot be expanded; it never reads past the end of the mapped *)
(* file, nor parses a sentence by a model without tags: whatever crf_learn *)
(* does meanwhile, if it does not write over a mapped model and is given   *)
(* no empty training file (tagger.cpp 714-725, 844-904, feature_index.cpp  *)
(* 192-252).                                                               *)
THEOREM AnswersAlwaysInOrder ==
  ASSUME "in_place" \notin Liberties, HasLines
  PROVE  Spec => []AnswersInOrder
<1> DEFINE Inv == TestInv /\ ModelInv /\ AnswerInv
<1>1. Init => Inv
  BY TestInit1, ModelInit, AnswerInit
<1>2. LearnInv /\ DiskInv /\ Inv /\ [Next]_vars => Inv'
  <2> SUFFICES ASSUME LearnInv, DiskInv, Inv, [Next]_vars PROVE Inv'
    OBVIOUS
  <2>1. TestInv'
    BY StoreStep
  <2>2. ModelInv'
    BY ModelStep
  <2>3. AnswerInv'
    BY AnswerStep
  <2> QED BY <2>1, <2>2, <2>3
<1>3. Inv => AnswersInOrder
  BY DEF AnswerInv, AnswersInOrder, Tokens
<1> HIDE DEF Inv
<1> QED BY <1>1, <1>2, <1>3, AllAlways, PTL DEF Spec
=============================================================================
