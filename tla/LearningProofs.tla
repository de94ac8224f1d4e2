--------------------------- MODULE LearningProofs ---------------------------
(***************************************************************************)
(* The two learning algorithms, whose state runs on from pass to pass.     *)
(* L-BFGS, for every size of the memory: the two-loop recursion reads      *)
(* exactly the last M steps, and each y is filed with the s it belongs to. *)
(* MIRA, for every number of sentences and iterations, every shrinking     *)
(* size, budget and width of the counter.                                  *)
(***************************************************************************)
EXTENDS LimitedMemory, MIRA, TLAPS

(* Facts about % that the provers do not know: what the ring of the last   *)
(* steps (lbfgs.cpp 486-508) rests on.                                     *)

(* Multiples of T are at least T apart.  *)
LEMMA TimesGrows ==
  ASSUME NEW T \in Nat \ {0}, NEW p \in Int, NEW q \in Int, p < q
  PROVE  T*q >= T*p + T
  OBVIOUS

(* Division with remainder, and its uniqueness.  *)
LEMMA Division ==
  ASSUME NEW T \in Nat \ {0}, NEW a \in Nat
  PROVE  a = T * (a \div T) + (a % T) /\ a \div T \in Int /\ a % T \in 0..T-1
  OBVIOUS

LEMMA DivisionUnique ==
  ASSUME NEW T \in Nat \ {0}, NEW p \in Int, NEW q \in Int,
         NEW r \in 0..T-1, NEW u \in 0..T-1, T*p + r = T*q + u
  PROVE  r = u /\ p = q
<1>1. CASE p < q
  BY <1>1, TimesGrows
<1>2. CASE q < p
  BY <1>2, TimesGrows
<1>3. CASE q = p
  BY <1>3
<1> QED BY <1>1, <1>2, <1>3

(* ... and skips no number of that residue.  *)
LEMMA ModGap ==
  ASSUME NEW T \in Nat \ {0}, NEW a \in Nat, NEW b \in Nat, a < b, a % T = b % T
  PROVE  b >= a + T
<1> DEFINE p == a \div T
           q == b \div T
           r == a % T
<1>1. /\ a = T * p + r /\ p \in Int /\ r \in 0..T-1
      /\ b = T * q + r /\ q \in Int
  BY Division
<1> HIDE DEF p, q, r
<1>2. p < q
  <2>1. CASE q < p  BY <2>1, <1>1, TimesGrows
  <2>2. CASE q = p  BY <2>2, <1>1
  <2> QED BY <2>1, <2>2, <1>1
<1>3. T * q >= T * p + T
  BY <1>1, <1>2, TimesGrows
<1>4. T * q \in Int /\ T * p \in Int
  BY <1>1
<1> QED BY <1>1, <1>3, <1>4

(* Two numbers of one stretch of T have different residues.                *)
LEMMA ModApart ==
  ASSUME NEW T \in Nat \ {0}, NEW a \in Nat, NEW b \in Nat,
         a # b, a < b + T, b < a + T
  PROVE  a % T # b % T
<1> SUFFICES ASSUME a % T = b % T PROVE FALSE
  OBVIOUS
<1>1. CASE a < b
  <2>1. b >= a + T
    BY <1>1, ModGap
  <2> QED
    BY <2>1
<1>2. CASE b < a
  <2>1. a >= b + T
    BY <1>2, ModGap
  <2> QED
    BY <2>1
<1> QED
  BY <1>1, <1>2

(* A counter that returns to 0 at T counts modulo T.                       *)
LEMMA ModSucc ==
  ASSUME NEW T \in Nat \ {0}, NEW a \in Nat
  PROVE  (a + 1) % T = IF (a % T) + 1 = T THEN 0 ELSE (a % T) + 1
<1> DEFINE b == a + 1
           p == a \div T
           q == b \div T
           r == a % T
           u == b % T
<1>1. a = T * p + r /\ p \in Int /\ r \in 0..T-1
  BY Division
<1>2. b \in Nat /\ b = a + 1
  OBVIOUS
<1>3. b = T * q + u /\ q \in Int /\ u \in 0..T-1
  <2> HIDE DEF b
  <2> QED BY <1>2, Division
<1> SUFFICES u = IF r + 1 = T THEN 0 ELSE r + 1
  OBVIOUS
<1> HIDE DEF p, q, r, u, b
<1>4. CASE r + 1 = T
  <2>1. T * (p + 1) = T * p + T
    BY <1>1
  <2>2. T * (p + 1) + 0 = T * q + u /\ p + 1 \in Int /\ 0 \in 0..T-1
    BY <1>1, <1>2, <1>3, <1>4, <2>1
  <2> DEFINE p1 == p + 1
             zero == 0
  <2>3. T * p1 + zero = T * q + u /\ p1 \in Int /\ zero \in 0..T-1
    BY <2>2
  <2> HIDE DEF p1, zero
  <2>4. zero = u
    BY <1>3, <2>3, DivisionUnique
  <2> QED
    BY <1>4, <2>4 DEF zero
<1>5. CASE r + 1 # T
  <2>1. T * p + (r + 1) = T * q + u /\ r + 1 \in 0..T-1
    BY <1>1, <1>2, <1>3, <1>5
  <2> QED
    BY <1>1, <1>3, <1>5, <2>1, DivisionUnique
<1> QED
  BY <1>4, <1>5

(* ... and the same backwards.                                             *)
LEMMA ModPred ==
  ASSUME NEW T \in Nat \ {0}, NEW a \in Nat, a > 0
  PROVE  (a - 1) % T = IF a % T = 0 THEN T - 1 ELSE (a % T) - 1
<1>1. a - 1 \in Nat /\ (a - 1) + 1 = a
  OBVIOUS
<1>2. a % T = IF ((a - 1) % T) + 1 = T THEN 0 ELSE ((a - 1) % T) + 1
  BY <1>1, ModSucc
<1>3. (a - 1) % T \in 0..T-1
  BY <1>1, Division
<1> QED
  BY <1>2, <1>3
-----------------------------------------------------------------------------
(* The slots of M consecutive steps are different, and a step's neighbours *)
(* are next to it on the ring.                                             *)
LEMMA HomeType == \A p \in Nat \ {0} : Home(p) \in Slot
<1> TAKE p \in Nat \ {0}
<1>1. p - 1 \in Nat
  OBVIOUS
<1> QED
  BY <1>1, MemoryAssumption, Division DEF Home, Slot

LEMMA HomeApart ==
  ASSUME NEW p \in Nat \ {0}, NEW q \in Nat \ {0}, p # q, p < q + M, q < p + M
  PROVE  Home(p) # Home(q)
<1> DEFINE a == p - 1
           b == q - 1
<1>1. a \in Nat /\ b \in Nat /\ a # b /\ a < b + M /\ b < a + M
  BY MemoryAssumption
<1> HIDE DEF a, b
<1>2. a % M # b % M
  BY <1>1, MemoryAssumption, ModApart
<1> QED
  BY <1>2 DEF a, b, Home

LEMMA HomeForth == \A p \in Nat \ {0} : Forth(Home(p)) = Home(p + 1)
<1> TAKE p \in Nat \ {0}
<1> DEFINE a == p - 1
<1>1. a \in Nat /\ p = a + 1
  OBVIOUS
<1> HIDE DEF a
<1>2. (a + 1) % M = IF (a % M) + 1 = M THEN 0 ELSE (a % M) + 1
  BY <1>1, MemoryAssumption, ModSucc
<1>3. Home(p) = a % M /\ Home(p + 1) = (a + 1) % M
  BY <1>1 DEF a, Home
<1> QED
  BY <1>2, <1>3 DEF Forth

LEMMA HomeBack == \A p \in Nat \ {0} : Back(Home(p + 1)) = Home(p)
<1> TAKE p \in Nat \ {0}
<1>0. p \in Nat /\ p > 0 /\ M \in Nat \ {0}
  BY MemoryAssumption
<1> DEFINE pred == (p - 1) % M
           here == p % M
<1>1. pred = IF here = 0 THEN M - 1 ELSE here - 1
  BY <1>0, ModPred
<1> HIDE DEF pred, here
<1>2. Home(p) = pred /\ Home(p + 1) = here
  BY DEF Home, pred, here
<1> QED
  BY <1>1, <1>2 DEF Back

LEMMA HomeOne == Home(1) = 0
<1>1. 0 \in Nat /\ 0 < M
  BY MemoryAssumption
<1>2. 0 % M = 0
  BY <1>1, MemoryAssumption
<1> QED
  BY <1>2 DEF Home
-----------------------------------------------------------------------------
LEMMA InitIInv == Init => IInv
<1> SUFFICES ASSUME Init PROVE IInv
  OBVIOUS
<1>1. 0 \in Slot /\ Blank \in [Slot -> Nat]
  BY MemoryAssumption DEF Slot, Blank
<1>2. TypeOK
  BY <1>1 DEF Init, TypeOK
<1>3. Recent = {}
  BY DEF Init, Recent
<1> QED
  BY <1>2, <1>3 DEF Init, IInv, Cursor, Window, Coefficients, RecursionReads,
     StepAndGradient, InLoop

LEMMA StartStep == ASSUME IInv, Start PROVE IInv'
<1>1. 0 \in Slot /\ iter = 0 /\ iter' = 0 /\ TypeOK
  BY MemoryAssumption DEF IInv, Cursor, Start, Slot
<1>2. s' = [s EXCEPT ![0] = 1] /\ point' = 0 /\ iflag' = 0 /\ pc' = "loop"
  BY <1>1 DEF Start, IInv
<1>3. TypeOK'
  BY <1>1, <1>2 DEF Start, TypeOK
<1>4. Cursor'
  BY <1>1, <1>2, HomeOne DEF TypeOK, Cursor, InLoop
<1>5. Recent' = {}
  BY <1>1 DEF Recent
<1> QED
  BY <1>1, <1>2, <1>3, <1>4, <1>5
  DEF IInv, Window, Coefficients, RecursionReads, StepAndGradient, InLoop

(* A new iteration: the pair just filed gets its rho.                      *)
LEMMA IterateStep == ASSUME IInv, Iterate PROVE IInv'
<1> USE MemoryAssumption
<1>0. TypeOK /\ Cursor /\ Window /\ iter' = iter + 1 /\ pc = "loop" /\ iter \in Nat
  BY DEF IInv, Iterate, TypeOK
<1>1. CASE iter = 0
  <2>1. pc' = "search" /\ point' = point /\ s' = s /\ iter' = 1
    BY <1>0, <1>1 DEF Iterate
  <2>2. iflag = 0 \/ iflag \in {-1, 1}
    BY <1>0 DEF TypeOK
  <2>3. point = Home(1) /\ s[point] = 1
    BY <1>0, <1>1, HomeOne DEF Cursor
  <2>4. Recent' = {}
    BY <2>1 DEF Recent
  <2>5. TypeOK'
    BY <1>0, <1>1 DEF Iterate, TypeOK
  <2> QED
    BY <2>1, <2>3, <2>4, <2>5
    DEF IInv, Cursor, Window, Coefficients, RecursionReads, StepAndGradient, InLoop
<1>2. CASE iter > 0
  <2>1. /\ pc' = "back" /\ cp' = point /\ i' = 0 /\ point' = point
        /\ s' = s /\ y' = y
        /\ rho' = [rho EXCEPT ![Back(point)] = y[npt]]
        /\ bound' = IF iter < M THEN iter ELSE M
    BY <1>0, <1>2 DEF Iterate
  <2>2. npt = Home(iter) /\ point = Home(iter + 1) /\ s[npt] = iter /\ y[npt] = iter
    BY <1>0, <1>2 DEF Cursor, Window
  <2>3. Back(point) = Home(iter) /\ Home(iter) \in Slot
    BY <1>0, <1>2, <2>2, HomeBack, HomeType
  <2>4. TypeOK'
    BY <1>0, <1>2, <2>1, <2>2, <2>3 DEF Iterate, TypeOK
  <2>5. Cursor'
    BY <1>0, <1>2, <2>1, <2>2 DEF Cursor, TypeOK, InLoop
  <2>6. Window'
    <3>1. SUFFICES ASSUME NEW p \in Recent'
                   PROVE  s[Home(p)] = p /\ y[Home(p)] = p /\ rho'[Home(p)] = p
      BY <2>1 DEF Window, InLoop
    <3>2. p \in Nat \ {0} /\ p <= iter /\ iter + 1 - M <= p
      BY <1>0 DEF Recent
    <3>3. CASE p = iter
      BY <1>0, <2>1, <2>2, <2>3, <3>3 DEF TypeOK
    <3>4. CASE p # iter
      <4>1. p \in Recent /\ p > iter - M
        BY <1>0, <3>2, <3>4 DEF Recent
      <4>2. s[Home(p)] = p /\ y[Home(p)] = p /\ rho[Home(p)] = p
        BY <1>0, <4>1 DEF Window
      <4>3. Home(p) # Home(iter) /\ Home(p) \in Slot
        BY <1>0, <1>2, <3>2, <3>4, HomeApart, HomeType
      <4> QED
        BY <1>0, <2>1, <2>3, <4>2, <4>3 DEF TypeOK
    <3> QED BY <3>3, <3>4
  <2> QED
    BY <1>0, <2>1, <2>4, <2>5, <2>6
    DEF IInv, Coefficients, RecursionReads, StepAndGradient
<1> QED
  BY <1>0, <1>1, <1>2

(* Back through the ring: the i-th slot read is that of step iter - i.     *)
LEMMA BackwardStep == ASSUME IInv, Backward PROVE IInv'
<1> USE MemoryAssumption
<1>0. /\ TypeOK /\ Cursor /\ Window /\ Coefficients
      /\ pc = "back" /\ pc' = "back" /\ i' = i + 1 /\ i < bound
      /\ iter' = iter /\ bound' = bound /\ point' = point /\ iflag' = iflag
      /\ s' = s /\ y' = y /\ rho' = rho
      /\ iter \in Nat /\ i \in Nat /\ bound \in Nat
  BY DEF IInv, Backward, TypeOK
<1> DEFINE p == iter - (i + 1)
<1>1. /\ bound = IF iter - 1 < M THEN iter - 1 ELSE M
      /\ cp = Home(iter - i) /\ iter >= 1 /\ point = Home(iter)
  BY <1>0 DEF Cursor, InLoop
<1>2. p \in Nat \ {0} /\ p \in Recent /\ iter - i = p + 1
  BY <1>0, <1>1 DEF Recent
<1>3. cp' = Home(p) /\ Home(p) \in Slot
  BY <1>1, <1>2, HomeBack, HomeType DEF Backward
<1>4. s[Home(p)] = p /\ y[Home(p)] = p /\ rho[Home(p)] = p
  BY <1>0, <1>2 DEF Window, InLoop
<1>5. read' = [s |-> p, y |-> p, rho |-> p, coef |-> iter]
  BY <1>3, <1>4 DEF Backward
<1>6. coef' = [coef EXCEPT ![Home(p)] = iter]
  BY <1>3 DEF Backward
<1>7. TypeOK'
  BY <1>0, <1>3, <1>6 DEF TypeOK, Backward
<1>8. Cursor'
  <2>1. cp' = Home(iter - (i + 1))
    BY <1>3
  <2> HIDE DEF p
  <2> QED
    BY <1>0, <1>1, <2>1 DEF Cursor, InLoop
<1>9. Window'
  BY <1>0 DEF Window, InLoop, Recent
<1>10. Coefficients'
  <2> SUFFICES ASSUME NEW q \in iter-(i+1)..iter-1 PROVE coef'[Home(q)] = iter
    BY <1>0 DEF Coefficients
  <2>1. q \in Nat \ {0} /\ Home(q) \in Slot
    BY <1>0, <1>2, HomeType
  <2>2. CASE q = p
    BY <1>0, <1>3, <1>6, <2>2 DEF TypeOK
  <2>3. CASE q # p
    <3>1. q \in iter-i..iter-1
      BY <1>0, <2>3
    <3>2. coef[Home(q)] = iter
      BY <1>0, <3>1 DEF Coefficients
    <3> QED
      BY <1>0, <1>3, <1>6, <2>1, <3>2 DEF TypeOK
  <2> QED BY <2>2, <2>3
<1>11. RecursionReads'
  BY <1>0, <1>1, <1>5 DEF RecursionReads
<1> QED
  BY <1>0, <1>7, <1>8, <1>9, <1>10, <1>11 DEF IInv, StepAndGradient

LEMMA ScaleStep == ASSUME IInv, Scale PROVE IInv'
<1> USE MemoryAssumption
<1>0. /\ TypeOK /\ Cursor /\ Window /\ Coefficients
      /\ pc = "back" /\ pc' = "forth" /\ i' = 0 /\ i = bound
      /\ UNCHANGED <<iflag, iter, point, npt, bound, cp, s, y, rho, coef, saved, nfev>>
      /\ iter \in Nat /\ i \in Nat /\ bound \in Nat
  BY DEF IInv, Scale, TypeOK, slots
<1>1. TypeOK'
  BY <1>0 DEF TypeOK
<1>2. Cursor'
  <2>1. cp' = Home(iter - bound)
    BY <1>0 DEF Cursor
  <2>2. iter - bound + 0 = iter - bound
    BY <1>0
  <2> QED
    BY <1>0, <2>1, <2>2 DEF Cursor, InLoop
<1>3. Window' /\ Coefficients'
  BY <1>0 DEF Window, InLoop, Recent, Coefficients
<1> QED
  BY <1>0, <1>1, <1>2, <1>3 DEF IInv, RecursionReads, StepAndGradient

(* Forth again: the i-th slot read is that of step iter - bound + i - 1.   *)
LEMMA ForwardStep == ASSUME IInv, Forward PROVE IInv'
<1> USE MemoryAssumption
<1>0. /\ TypeOK /\ Cursor /\ Window /\ Coefficients
      /\ pc = "forth" /\ pc' = "forth" /\ i' = i + 1 /\ i < bound
      /\ UNCHANGED <<iflag, iter, point, npt, bound, s, y, rho, coef, saved, nfev>>
      /\ iter \in Nat /\ i \in Nat /\ bound \in Nat
  BY DEF IInv, Forward, TypeOK, slots
<1> DEFINE p == iter - bound + i
<1>1. /\ bound = IF iter - 1 < M THEN iter - 1 ELSE M
      /\ cp = Home(p)
  BY <1>0 DEF Cursor, InLoop
<1>2. p \in Nat \ {0} /\ p \in Recent /\ p \in iter-bound..iter-1
  BY <1>0, <1>1 DEF Recent
<1>3. cp' = Home(p + 1) /\ Home(p + 1) \in Slot
  BY <1>1, <1>2, HomeForth, HomeType DEF Forward
<1>4. s[Home(p)] = p /\ y[Home(p)] = p /\ rho[Home(p)] = p /\ coef[Home(p)] = iter
  BY <1>0, <1>2 DEF Window, InLoop, Coefficients
<1>5. read' = [s |-> p, y |-> p, rho |-> p, coef |-> iter]
  BY <1>1, <1>4 DEF Forward
<1>6. p = iter - bound + (i + 1) - 1 /\ p + 1 = iter - bound + (i + 1)
  BY <1>0
<1> HIDE DEF p
<1>7. TypeOK'
  BY <1>0, <1>3 DEF TypeOK
<1>8. Cursor'
  BY <1>0, <1>3, <1>6 DEF Cursor, InLoop
<1>9. Window' /\ Coefficients'
  BY <1>0 DEF Window, InLoop, Recent, Coefficients
<1>10. RecursionReads'
  BY <1>0, <1>5, <1>6 DEF RecursionReads
<1> QED
  BY <1>0, <1>7, <1>8, <1>9, <1>10 DEF IInv, StepAndGradient

(* The new direction takes the slot of the oldest step.                    *)
LEMMA StoreDirectionStep == ASSUME IInv, StoreDirection PROVE IInv'
<1> USE MemoryAssumption
<1>0. /\ TypeOK /\ Cursor /\ Window
      /\ pc = "forth" /\ pc' = "search" /\ iter' = iter /\ point' = point
      /\ UNCHANGED <<iflag, npt, y, rho>>
      /\ s' = [s EXCEPT ![point] = iter]
      /\ iter \in Nat /\ iter >= 1 /\ point \in Slot /\ point = Home(iter)
  BY DEF IInv, StoreDirection, TypeOK, Cursor, InLoop
<1>1. TypeOK'
  BY <1>0 DEF StoreDirection, TypeOK
<1>2. Cursor'
  BY <1>0 DEF Cursor, InLoop, TypeOK
<1>3. Window'
  <2> SUFFICES ASSUME NEW p \in Recent
               PROVE  /\ p > iter - M => s'[Home(p)] = p
                      /\ y[Home(p)] = p /\ rho[Home(p)] = p
    BY <1>0 DEF Window, InLoop, Recent
  <2>1. p \in Nat \ {0} /\ p < iter /\ Home(p) \in Slot
    BY <1>0, HomeType DEF Recent
  <2>2. s[Home(p)] = p /\ y[Home(p)] = p /\ rho[Home(p)] = p
    BY <1>0 DEF Window, InLoop
  <2>3. p > iter - M => Home(p) # Home(iter)
    BY <1>0, <2>1, HomeApart
  <2> QED
    BY <1>0, <2>1, <2>2, <2>3 DEF TypeOK
<1> QED
  BY <1>0, <1>1, <1>2, <1>3 DEF IInv, Coefficients, RecursionReads, StepAndGradient

LEMMA SearchStep == ASSUME IInv, Search PROVE IInv'
<1>0. /\ TypeOK /\ Cursor /\ Window /\ pc = "search"
      /\ saved' = iter /\ nfev' = 0
      /\ UNCHANGED <<iter, point, npt, bound, cp, i, s, y, rho, coef>>
      /\ (iflag' = 1 /\ pc' = "caller") \/ (iflag' = -1 /\ pc' = "failed")
      /\ iter \in Nat
  BY DEF IInv, Search, slots, TypeOK
<1>1. TypeOK'
  BY <1>0 DEF TypeOK
<1>2. Cursor' /\ Window'
  BY <1>0 DEF Cursor, Window, InLoop, Recent
<1>3. StepAndGradient'
  BY <1>0 DEF StepAndGradient, Cursor
<1> QED
  BY <1>0, <1>1, <1>2, <1>3 DEF IInv, Coefficients, RecursionReads

(* A line search ends: the pair is complete.                               *)
LEMMA FoundStep == ASSUME IInv, Found PROVE IInv'
<1> USE MemoryAssumption
<1>0. /\ TypeOK /\ Cursor /\ Window /\ StepAndGradient
      /\ pc = "caller" /\ pc' = "loop" /\ iflag = 1 /\ iflag' = 1 /\ iter' = iter
      /\ npt' = point /\ point' = Forth(point)
      /\ y' = [y EXCEPT ![point] = saved]
      /\ s' = s /\ rho' = rho
      /\ iter \in Nat /\ iter >= 1 /\ point \in Slot /\ point = Home(iter)
      /\ s[point] = iter /\ saved = iter
  BY DEF IInv, Found, TypeOK, Cursor, StepAndGradient
<1>1. point' = Home(iter + 1) /\ Home(iter + 1) \in Slot
  BY <1>0, HomeForth, HomeType
<1>2. TypeOK'
  BY <1>0, <1>1 DEF Found, TypeOK
<1>3. Cursor'
  BY <1>0, <1>1 DEF Cursor, InLoop
<1>4. Window'
  <2>1. y'[npt'] = iter /\ s'[npt'] = iter
    BY <1>0 DEF TypeOK
  <2>2. ASSUME NEW p \in Recent, p > iter - M
        PROVE  s[Home(p)] = p /\ y'[Home(p)] = p /\ rho[Home(p)] = p
    <3>1. p \in Nat \ {0} /\ p < iter /\ Home(p) \in Slot
      BY <1>0, HomeType DEF Recent
    <3>2. s[Home(p)] = p /\ y[Home(p)] = p /\ rho[Home(p)] = p
      BY <1>0, <2>2 DEF Window, InLoop
    <3>3. Home(p) # Home(iter)
      BY <1>0, <2>2, <3>1, HomeApart
    <3> QED
      BY <1>0, <3>1, <3>2, <3>3 DEF TypeOK
  <2> QED
    BY <1>0, <2>1, <2>2 DEF Window, InLoop, Recent
<1> QED
  BY <1>0, <1>2, <1>3, <1>4 DEF IInv, Coefficients, RecursionReads, StepAndGradient

LEMMA TerminateStep == ASSUME IInv, Terminate PROVE IInv'
<1>1. 0 \in Slot /\ Blank \in [Slot -> Nat]
  BY MemoryAssumption DEF Slot, Blank
<1>2. TypeOK'
  BY <1>1 DEF IInv, Terminate, TypeOK
<1>3. Recent' = {}
  BY DEF Terminate, Recent
<1> QED
  BY <1>2, <1>3 DEF Terminate, IInv, Cursor, Window, Coefficients, RecursionReads,
     StepAndGradient, InLoop

(* The other answers of the line search leave the memory alone.            *)
LEMMA OtherStep == ASSUME IInv, Again \/ GiveUp \/ UNCHANGED vars PROVE IInv'
<1>0. /\ TypeOK /\ Cursor /\ Window /\ Coefficients /\ RecursionReads /\ StepAndGradient
  BY DEF IInv
<1>1. CASE Again
  <2>1. TypeOK'
    BY <1>0, <1>1 DEF Again, TypeOK, slots
  <2> QED
    BY <1>0, <1>1, <2>1 DEF Again, slots, IInv, Cursor, Window, Coefficients,
       RecursionReads, StepAndGradient, InLoop, Recent
<1>2. CASE GiveUp
  <2>1. TypeOK'
    BY <1>0, <1>2 DEF GiveUp, TypeOK, slots
  <2> QED
    BY <1>0, <1>2, <2>1 DEF GiveUp, slots, IInv, Cursor, Window, Coefficients,
       RecursionReads, StepAndGradient, InLoop, Recent
<1>3. CASE UNCHANGED vars
  BY <1>0, <1>3 DEF vars, slots, IInv, TypeOK, Cursor, Window, Coefficients,
     RecursionReads, StepAndGradient, InLoop, Recent
<1> QED
  BY <1>1, <1>2, <1>3
-----------------------------------------------------------------------------
(* The ring of M slots and its cursors, in every reachable state.          *)
THEOREM Inductive == Spec => []IInv
<1>1. Init => IInv
  BY InitIInv
<1>2. IInv /\ [Next]_vars => IInv'
  BY StartStep, IterateStep, BackwardStep, ScaleStep, ForwardStep, StoreDirectionStep,
     SearchStep, FoundStep, TerminateStep, OtherStep DEF Next, Failed
<1> QED
  BY <1>1, <1>2, PTL DEF Spec

(* The two-loop recursion reads the last M steps, each slot whole.         *)
THEOREM RecursionReadsLastSteps == Spec => []RecursionReads
<1>1. IInv => RecursionReads
  BY DEF IInv
<1> QED
  BY <1>1, Inductive, PTL

(* A gradient change is filed with the step it was observed along.         *)
THEOREM StepsMatchGradients == Spec => []StepAndGradient
<1>1. IInv => StepAndGradient
  BY DEF IInv
<1> QED
  BY <1>1, Inductive, PTL
-----------------------------------------------------------------------------
(* MIRA.                                                                   *)
(* The inductive invariant: a clean pass clears every counter, so that the *)
(* next one parses every sentence it reaches (lines 124 and 180).          *)
THEOREM PassesInductive == MiraSpec => []MiraInv
<1>1. MiraInit => MiraInv
  <2> SUFFICES ASSUME MiraInit PROVE MiraInv
    OBVIOUS
  <2>1. /\ NoneYet \in [Sentence -> 0..Wrap-1]
        /\ NoneYet \in [Sentence -> Nat]
        /\ \A x \in Sentence : NoneYet[x] = 0
    BY MIRAAssumption DEF NoneYet
  <2>2. MiraTypeOK
    <3>1. /\ phase \in {"visit", "converged", "exhausted"} /\ itr \in 0..MaxItr
          /\ shrinking_size \in Sizes
      BY MIRAAssumption DEF MiraInit
    <3>2. converge \in 0..2 /\ cur \in 0..N /\ seen \subseteq Sentence
      BY MIRAAssumption DEF MiraInit
    <3>4. violated \in BOOLEAN
      BY DEF MiraInit
    <3>3. /\ shrink \in [Sentence -> 0..Wrap-1]
          /\ upper \in [Sentence -> Nat] /\ streak \in [Sentence -> Nat]
      BY <2>1 DEF MiraInit
    <3> QED
      BY <3>1, <3>2, <3>3, <3>4 DEF MiraTypeOK
  <2> QED
    BY <2>1, <2>2, MIRAAssumption
    DEF MiraInit, MiraInv, AllBack, Ends, ConvergedOnAll,
        WithinBudget
<1>2. ASSUME MiraInv, [MiraNext]_miraVars PROVE MiraInv'
  <2> USE MIRAAssumption DEF Sentence
  <2>0. /\ MiraTypeOK /\ AllBack /\ Ends /\ ConvergedOnAll /\ WithinBudget
        /\ shrinking_size' = shrinking_size /\ shrinking_size \in Nat \ {0}
    BY <1>2 DEF MiraInv, MiraNext, miraVars, MiraTypeOK
  <2>1. CASE Skip
    <3>1. cur \in Sentence /\ cur' = cur + 1 /\ shrink[cur] # 0
      BY <2>0, <2>1 DEF Skip, MiraTypeOK
    <3>2. ~(phase = "visit" /\ converge = 1)
      BY <2>0, <3>1 DEF AllBack, MiraTypeOK
    <3> QED
      BY <2>0, <2>1, <3>1, <3>2
      DEF Skip, MiraInv, MiraTypeOK, AllBack, Ends,
          ConvergedOnAll, WithinBudget
  <2>2. CASE Right
    <3>1. cur \in Sentence /\ cur' = cur + 1 /\ seen' = seen \cup {cur}
      BY <2>0, <2>2 DEF Right, Parse, MiraTypeOK
    <3>2. (shrink[cur] + 1) % Wrap \in 0..Wrap-1
      BY <2>0, <3>1 DEF MiraTypeOK
    <3>3. MiraTypeOK'
      <4>1. PICK w \in 0..Wrap-1 : shrink' = [shrink EXCEPT ![cur] = w]
        BY <2>2, <3>2 DEF Right
      <4>2. shrink' \in [Sentence -> 0..Wrap-1]
        BY <2>0, <4>1 DEF MiraTypeOK
      <4>3. streak' \in [Sentence -> Nat] /\ cur' \in 0..N /\ seen' \subseteq Sentence
        BY <2>0, <2>2, <3>1 DEF Right, Parse, MiraTypeOK
      <4> QED
        BY <2>0, <2>2, <4>2, <4>3 DEF Right, MiraTypeOK
    <3>4. AllBack'
      BY <2>0, <2>2, <3>1 DEF Right, Parse, MiraTypeOK, AllBack
    <3> QED
      BY <2>0, <2>2, <3>3, <3>4
      DEF Right, Parse, MiraInv, Ends, ConvergedOnAll,
          WithinBudget
  <2>3. CASE \E mu \in 0..C+1, close \in BOOLEAN : Wrong(mu, close)
    <3> PICK mu \in 0..C+1, close \in BOOLEAN : Wrong(mu, close)
      BY <2>3
    <3>1. cur \in Sentence /\ cur' = cur + 1 /\ seen' = seen \cup {cur}
      BY <2>0 DEF Wrong, Parse, MiraTypeOK
    <3>2. upper[cur] \in 0..C /\ upper[cur] + Pull(mu) \in 0..C
      BY <2>0, <3>1 DEF WithinBudget, Pull
    <3>3. violated' \in BOOLEAN
      BY <2>0 DEF Wrong, MiraTypeOK
    <3>4. MiraTypeOK'
      BY <2>0, <3>1, <3>2, <3>3 DEF Wrong, Parse, MiraTypeOK
    <3>5. AllBack'
      BY <2>0, <3>1 DEF Wrong, Parse, MiraTypeOK, AllBack
    <3>6. WithinBudget'
      BY <2>0, <3>1, <3>2 DEF Wrong, MiraTypeOK, WithinBudget
    <3> QED
      BY <2>0, <3>4, <3>5, <3>6
      DEF Wrong, Parse, MiraInv, Ends, ConvergedOnAll
  <2>4. CASE Pass
    <3>1. CASE converge' = 2
      <4>1. ~violated /\ converge = 1 /\ phase' = "converged"
        BY <2>0, <2>4, <3>1 DEF Pass, MiraTypeOK
      <4>2. seen = Sentence
        <5>1. \A x \in Sentence : x < cur
          BY <2>4 DEF Pass
        <5>2. phase = "visit"
          BY <2>4 DEF Pass
        <5> QED
          BY <2>0, <4>1, <5>1, <5>2 DEF AllBack, MiraTypeOK
      <4> QED
        BY <2>0, <2>4, <3>1, <4>1, <4>2
        DEF Pass, MiraInv, MiraTypeOK, AllBack, Ends,
            ConvergedOnAll, WithinBudget, NoneYet
    <3>2. CASE converge' # 2
      <4>1. converge' \in 0..1 /\ itr' \in 0..MaxItr
        BY <2>0, <2>4, <3>2 DEF Pass, MiraTypeOK, Ends
      <4>2. converge' = 1 => shrink' = NoneYet
        BY <2>0, <2>4, <3>2 DEF Pass, MiraTypeOK
      <4>3. MiraTypeOK'
        <5>1. shrink' \in [Sentence -> 0..Wrap-1] /\ streak' \in [Sentence -> Nat]
          BY <2>0, <2>4 DEF Pass, MiraTypeOK, NoneYet
        <5>2. phase' \in {"visit", "exhausted"} /\ cur' = 0 /\ seen' = {}
          BY <2>4, <3>2 DEF Pass
        <5>4. violated' \in BOOLEAN
          BY <2>4, <3>2 DEF Pass
        <5>3. upper' \in [Sentence -> Nat] /\ cur' \in 0..N
          BY <2>0, <2>4, <5>2 DEF Pass, MiraTypeOK
        <5>5. shrinking_size' \in Sizes
          BY <2>0 DEF MiraTypeOK
        <5> QED
          BY <4>1, <5>1, <5>2, <5>3, <5>4, <5>5 DEF MiraTypeOK
      <4>4. AllBack' /\ ConvergedOnAll' /\ Ends'
        <5>1. /\ phase' = IF itr' < MaxItr THEN "visit" ELSE "exhausted"
              /\ cur' = 0
          BY <2>4, <3>2 DEF Pass
        <5>2. converge' = 1 => \A x \in Sentence : shrink'[x] = 0
          BY <4>2 DEF NoneYet
        <5> QED
          BY <4>1, <5>1, <5>2 DEF AllBack, ConvergedOnAll, Ends
      <4> QED
        BY <2>0, <2>4, <4>3, <4>4 DEF Pass, MiraInv, WithinBudget
    <3> QED BY <3>1, <3>2
  <2>5. CASE UNCHANGED miraVars
    BY <2>0, <2>5
    DEF miraVars, MiraInv, MiraTypeOK, AllBack, Ends,
        ConvergedOnAll, WithinBudget
  <2> QED
    BY <1>2, <2>1, <2>2, <2>3, <2>4, <2>5 DEF MiraNext, Return
<1> QED
  BY <1>1, <1>2, PTL DEF MiraSpec

(* Convergence is declared on a pass over the whole training set.          *)
THEOREM AlwaysConvergedOnAll == MiraSpec => []ConvergedOnAll
<1>1. MiraInv => ConvergedOnAll
  BY DEF MiraInv
<1> QED
  BY <1>1, PassesInductive, PTL

(* No sentence exceeds its budget.                                         *)
THEOREM AlwaysWithinBudget == MiraSpec => []WithinBudget
<1>1. MiraInv => WithinBudget
  BY DEF MiraInv
<1> QED
  BY <1>1, PassesInductive, PTL

(* A sentence is set aside after exactly as many right parses running as   *)
(* -H says, if an unsigned char can count them; otherwise it never is: the *)
(* counter of line 138 starts again before it gets there.                  *)
THEOREM ShrinksExactly == MiraSpec => []ShrinksAfterH
<1>1. MiraInit => ShrinkIsStreak
  BY MIRAAssumption DEF MiraInit, ShrinkIsStreak, NoneYet, Sentence
<1>2. ASSUME MiraInv, MiraInv', ShrinkIsStreak, [MiraNext]_miraVars
      PROVE  ShrinkIsStreak'
  <2>0. /\ MiraTypeOK /\ MiraTypeOK' /\ shrinking_size' = shrinking_size
        /\ shrinking_size \in Nat \ {0}
    BY <1>2, MIRAAssumption DEF MiraInv, MiraTypeOK, MiraNext, miraVars
  <2> USE MIRAAssumption DEF Sentence
  <2> SUFFICES ASSUME shrinking_size < Wrap
               PROVE  \A x \in Sentence : shrink'[x] = streak'[x] /\ streak'[x] <= shrinking_size
    BY <2>0 DEF ShrinkIsStreak
  <2>1. CASE Right
    <3>1. /\ cur \in Sentence /\ shrink[cur] < shrinking_size /\ shrink[cur] \in Nat
          /\ streak[cur] = shrink[cur]
      BY <1>2, <2>0, <2>1 DEF Right, Parse, MiraTypeOK, ShrinkIsStreak
    <3>2. (shrink[cur] + 1) % Wrap = shrink[cur] + 1
      BY <2>0, <3>1
    <3> QED
      BY <1>2, <2>0, <2>1, <3>1, <3>2 DEF Right, MiraTypeOK, ShrinkIsStreak
  <2>2. CASE \E mu \in 0..C+1, close \in BOOLEAN : Wrong(mu, close)
    BY <1>2, <2>0, <2>2 DEF Wrong, MiraTypeOK, ShrinkIsStreak
  <2>3. CASE Pass
    BY <1>2, <2>0, <2>3 DEF Pass, MiraTypeOK, ShrinkIsStreak, NoneYet
  <2>4. CASE UNCHANGED <<shrink, streak>>
    BY <1>2, <2>0, <2>4 DEF ShrinkIsStreak
  <2> QED
    BY <1>2, <2>1, <2>2, <2>3, <2>4 DEF MiraNext, Return, Skip, miraVars
<1>3. MiraInv /\ ShrinkIsStreak => ShrinksAfterH
  BY MIRAAssumption
  DEF MiraInv, MiraTypeOK, ShrinkIsStreak, ShrinksAfterH, Sentence
<1> QED
  BY <1>1, <1>2, <1>3, PassesInductive, PTL DEF MiraSpec
=============================================================================
