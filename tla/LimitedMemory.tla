--------------------------- MODULE LimitedMemory ---------------------------
(***************************************************************************)
(* LBFGS::optimize (lbfgs.h 71-111, lbfgs.cpp 243-570): the memory of the  *)
(* last M steps and the reverse communication with the caller, who is sent *)
(* away with 1 to evaluate the objective at a new point and calls again.   *)
(*                                                                         *)
(* The work array w_ holds, besides the gradient saved for the line search,*)
(* M slots with a step s, the gradient change y along it, 1/(s.y) = rho and*)
(* the coefficient the recursion computes for it.  Of a vector only its    *)
(* provenance is kept: the iteration it was computed in, 0 for none.  What *)
(* the arithmetic decides (the end of a line search, convergence) is a     *)
(* free choice.                                                            *)
(***************************************************************************)
EXTENDS Integers

CONSTANTS M,          \* msize: 5 in the code
          MaxFev,     \* maxfev: 20 in the code
          MaxIter     \* bound on the iterations (maxitr bounds the calls)

ASSUME MemoryAssumption == /\ M \in Nat \ {0}
                           /\ MaxFev \in Nat \ {0}
                           /\ MaxIter \in Nat \ {0}

Slot == 0..M-1

VARIABLES pc,         \* caller, loop, back, forth, search, failed
          iflag, iter, point, npt, nfev,
          bound, cp, i,           \* of the recursion
          s, y, rho, coef,        \* the slots of w_
          saved,                  \* w_[1..size], 0 while it is scratch
          read                    \* history: what the recursion read last

slots == <<s, y, rho, coef>>
vars  == <<pc, iflag, iter, point, npt, nfev, bound, cp, i, slots, saved, read>>

Blank   == [j \in Slot |-> 0]
Nothing == [s |-> 0, y |-> 0, rho |-> 0, coef |-> 0]

Init == /\ pc = "caller" /\ iflag = 0
        /\ iter = 0 /\ point = 0 /\ npt = 0 /\ nfev = 0
        /\ bound = 0 /\ cp = 0 /\ i = 0
        /\ s = Blank /\ y = Blank /\ rho = Blank /\ coef = Blank
        /\ saved = 0 /\ read = Nothing

BackNoWrap(c) == IF c = 0 THEN 0 ELSE c - 1  \* mutant: sticks at slot 0
Back(c)  == IF c = 0 THEN M - 1 ELSE c - 1
Forth(c) == IF c + 1 = M THEN 0 ELSE c + 1
-----------------------------------------------------------------------------
(* The first call: the steepest descent direction goes to slot 0.          *)
Start == /\ pc = "caller" /\ iflag = 0
         /\ point' = 0
         /\ s' = [s EXCEPT ![0] = iter + 1]
         /\ pc' = "loop"
         /\ UNCHANGED <<iflag, iter, npt, nfev, bound, cp, i, y, rho, coef, saved, read>>

(* Lines 454-482.  The first iteration has nothing to recur on.            *)
Iterate ==
  /\ pc = "loop"
  /\ iter' = iter + 1
  /\ IF iter = 0
     THEN pc' = "search" /\ UNCHANGED <<bound, cp, i, rho, saved>>
     ELSE /\ pc' = "back"
          /\ rho' = [rho EXCEPT ![Back(point)] = y[npt]]
          /\ bound' = IF iter < M THEN iter ELSE M
          /\ cp' = point /\ i' = 0
          /\ saved' = 0
  /\ UNCHANGED <<iflag, point, npt, nfev, s, y, coef, read>>

(* The two-loop recursion, lines 484-509.                                  *)
Backward == /\ pc = "back" /\ i < bound
            /\ cp' = Back(cp)
            /\ i' = i + 1
            /\ coef' = [coef EXCEPT ![cp'] = iter]
            /\ read' = [s |-> s[cp'], y |-> y[cp'], rho |-> rho[cp'], coef |-> iter]
            /\ UNCHANGED <<pc, iflag, iter, point, npt, nfev, bound, s, y, rho, saved>>

Scale == /\ pc = "back" /\ i = bound
         /\ pc' = "forth" /\ i' = 0
         /\ UNCHANGED <<iflag, iter, point, npt, nfev, bound, cp, slots, saved, read>>

Forward == /\ pc = "forth" /\ i < bound
           /\ read' = [s |-> s[cp], y |-> y[cp], rho |-> rho[cp], coef |-> coef[cp]]
           /\ cp' = Forth(cp)
           /\ i' = i + 1
           /\ UNCHANGED <<pc, iflag, iter, point, npt, nfev, bound, slots, saved>>

StoreDirection == /\ pc = "forth" /\ i = bound
                  /\ s' = [s EXCEPT ![point] = iter]
                  /\ pc' = "search"
                  /\ UNCHANGED <<iflag, iter, point, npt, nfev, bound, cp, i,
                                 y, rho, coef, saved, read>>

(* L165 and the first call of mcsrch: either the direction descends, and   *)
(* the caller is asked for the first point on it, or training fails.       *)
SearchUnsaved ==                             \* mutant: w[i] = g[i] forgotten
          /\ pc = "search"
          /\ nfev' = 0
          /\ \/ iflag' = 1 /\ pc' = "caller"
             \/ iflag' = -1 /\ pc' = "failed"
          /\ UNCHANGED <<iter, point, npt, bound, cp, i, slots, saved, read>>

Search == /\ pc = "search"
          /\ nfev' = 0
          /\ saved' = iter
          /\ \/ iflag' = 1 /\ pc' = "caller"
             \/ iflag' = -1 /\ pc' = "failed"
          /\ UNCHANGED <<iter, point, npt, bound, cp, i, slots, read>>

(* The caller is back with f and g at that point (L172, L45): the line     *)
(* search wants another point, gives up, or has found its minimum.         *)
Again == /\ pc = "caller" /\ iflag = 1
         /\ nfev + 1 < MaxFev
         /\ nfev' = nfev + 1
         /\ UNCHANGED <<pc, iflag, iter, point, npt, bound, cp, i, slots, saved, read>>

GiveUp == /\ pc = "caller" /\ iflag = 1
          /\ nfev' = nfev + 1
          /\ iflag' = -1 /\ pc' = "failed"
          /\ UNCHANGED <<iter, point, npt, bound, cp, i, slots, saved, read>>

Found == /\ pc = "caller" /\ iflag = 1
         /\ iter < MaxIter
         /\ nfev' = nfev + 1
         /\ npt' = point
         /\ y' = [y EXCEPT ![point] = saved]
         /\ point' = Forth(point)
         /\ pc' = "loop"
         /\ UNCHANGED <<iflag, iter, bound, cp, i, s, rho, coef, saved, read>>

(* The minimum found ends the minimisation: iflag = 0, then clear().       *)
Terminate == /\ pc = "caller" /\ iflag = 1
             /\ iflag' = 0
             /\ iter' = 0 /\ point' = 0 /\ npt' = 0 /\ nfev' = 0
             /\ s' = Blank /\ y' = Blank /\ rho' = Blank /\ coef' = Blank
             /\ saved' = 0 /\ bound' = 0 /\ cp' = 0 /\ i' = 0
             /\ UNCHANGED <<pc, read>>

Failed == pc = "failed" /\ UNCHANGED vars

Next == \/ Start \/ Iterate \/ Backward \/ Scale \/ Forward \/ StoreDirection
        \/ Search \/ Again \/ GiveUp \/ Found \/ Terminate \/ Failed

Spec == Init /\ [][Next]_vars
-----------------------------------------------------------------------------
TypeOK == /\ pc \in {"caller", "loop", "back", "forth", "search", "failed"}
          /\ iflag \in {-1, 0, 1}
          /\ {iter, nfev, bound, i, saved} \subseteq Nat
          /\ {point, npt, cp} \subseteq Slot
          /\ {s, y, rho, coef} \subseteq [Slot -> Nat]

(* The recursion works on the last M steps (on all while there are fewer): *)
(* backwards from the newest to the oldest, then forwards again with the   *)
(* coefficients it has just computed, and every slot it reads holds one    *)
(* and the same step in all its parts, although the ring wraps around and  *)
(* rho is filed one iteration after s and y (lbfgs.cpp 474-509).           *)
RecursionReads ==
  /\ pc = "back" =>
       /\ bound = (IF iter - 1 < M THEN iter - 1 ELSE M)
       /\ i > 0 => read = [s |-> iter - i, y |-> iter - i, rho |-> iter - i,
                           coef |-> iter]
  /\ pc = "forth" /\ i > 0 =>
       LET p == iter - bound + i - 1
       IN  read = [s |-> p, y |-> p, rho |-> p, coef |-> iter]

(* While the caller evaluates points of a line search, the slot the new    *)
(* pair will be filed in holds the direction being searched, and the       *)
(* gradient saved is the one at the start of that search (lbfgs.cpp 529,   *)
(* 553-557): y is the change along s.                                      *)
StepAndGradient ==
  pc = "caller" /\ iflag = 1 => s[point] = iter /\ saved = iter

(* The inductive invariant: step p lives in slot (p-1) % M.                *)
Home(p) == (p - 1) % M
InLoop  == pc \in {"back", "forth"}
Recent  == {p \in 1..iter-1 : iter - M <= p}

Cursor ==
  /\ pc \in {"caller", "loop"} /\ iflag = 0 => iter = 0 /\ point = 0
  /\ pc = "loop" => point = Home(iter + 1)
  /\ pc = "loop" /\ iter = 0 => s[0] = 1
  /\ pc = "loop" /\ iter > 0 => npt = Home(iter)
  /\ InLoop \/ pc = "search" \/ (pc = "caller" /\ iflag = 1) =>
       iter >= 1 /\ point = Home(iter)
  /\ pc = "search" => s[point] = iter
  /\ InLoop => /\ bound = IF iter - 1 < M THEN iter - 1 ELSE M
               /\ i <= bound
  /\ pc = "back"  => cp = Home(iter - i)
  /\ pc = "forth" => cp = Home(iter - bound + i)

(* The slots hold the last M steps; the oldest gives way to the direction  *)
(* of the next.                                                            *)
Window ==
  pc # "failed" =>
    /\ pc = "loop" /\ iter > 0 => s[npt] = iter /\ y[npt] = iter
    /\ \A p \in Recent :
         /\ p > iter - M \/ InLoop => s[Home(p)] = p
         /\ p > iter - M \/ pc # "loop" => y[Home(p)] = p
         /\ p > iter - M \/ pc # "loop" => rho[Home(p)] = p

Coefficients ==
  /\ pc = "back" => \A p \in iter-i..iter-1 : coef[Home(p)] = iter
  /\ pc = "forth" => \A p \in iter-bound..iter-1 : coef[Home(p)] = iter

IInv == TypeOK /\ Cursor /\ Window /\ Coefficients /\ RecursionReads /\ StepAndGradient
=============================================================================
