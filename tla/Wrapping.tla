------------------------------ MODULE Wrapping ------------------------------
(***************************************************************************)
(* What SWIG makes wrappers of, and the shape they share: the classes as   *)
(* crfpp.h declares them to SWIG and CRFPP.i extends them, the values of   *)
(* a script and of C++, and how a stub is chosen and entered.  A stub is   *)
(* a record: its class, its name and the types of its arguments; the first *)
(* argument of a call is the object it is made on.                         *)
(*                                                                         *)
(* A conversion yields the set of the values the argument may become: one, *)
(* or none when the stub refuses it with an exception.  The text of an     *)
(* exception is left out, and so are the values that come back.            *)
(***************************************************************************)
EXTENDS Integers, Sequences

CONSTANTS SizeBits,       \* width of size_t and unsigned long
          UnsignedBits,   \* width of unsigned int
          MaxFloat        \* FLT_MAX, in halves

ULongMax == 2 ^ SizeBits - 1
UIntMax  == 2 ^ UnsignedBits - 1
LongMax  == 2 ^ (SizeBits - 1) - 1
LongMin  == - 2 ^ (SizeBits - 1)

(* A value of a script: "int" n; "real" n / 2; a string that spells n in   *)
(* decimal ("numeral"), that does with a zero before it ("padded"), that   *)
(* is empty ("blank") or anything else ("text"); "nil"; or an object, "Model" *)
(* or "Tagger", whose pointer is n, 0 when it has none.                    *)
Value(is, n) == [is |-> is, n |-> n]
IsString(v) == v.is \in {"numeral", "padded", "blank", "text"}

(* A value of C++: a number, of halves when it is a double or a float; a   *)
(* pointer, 0 when it is null, and 1 when it is the string of the script.  *)
Native(name, args) == [kind |-> "native", name |-> name, args |-> args]
Refused == [kind |-> "refused", name |-> "", args |-> <<>>]

Stubs(class, names, args) ==
  {[class |-> class, name |-> n, args |-> args] : n \in names}

size == "size_t"

(* crfpp.h without what it hides from SWIG, and CRFPP.i                    *)
DeclaredModel ==
  Stubs("Model", {"getTemplate", "createTagger", "what"}, <<>>)

DeclaredSettings ==
  Stubs("Tagger", {"set_model"}, <<"Model&">>) \cup
  Stubs("Tagger", {"set_vlevel"}, <<"unsigned int">>) \cup
  Stubs("Tagger", {"set_cost_factor"}, <<"float">>) \cup
  Stubs("Tagger", {"set_nbest"}, <<size>>) \cup
  Stubs("Tagger", {"vlevel", "cost_factor", "nbest"}, <<>>)

DeclaredReaders ==
  Stubs("Tagger", {"add"}, <<"text">>) \cup
  Stubs("Tagger", {"size", "xsize", "dsize", "ysize", "prob"}, <<>>) \cup
  Stubs("Tagger", {"result", "answer", "y", "y2", "yname", "prob"}, <<size>>) \cup
  Stubs("Tagger", {"x", "prob"}, <<size, size>>)

DeclaredCosts ==
  Stubs("Tagger", {"set_penalty"}, <<size, size, "double">>) \cup
  Stubs("Tagger", {"penalty", "alpha", "beta", "emission_cost", "best_cost"}, <<size, size>>) \cup
  Stubs("Tagger", {"next_transition_cost", "prev_transition_cost"}, <<size, size, size>>)

DeclaredSearch ==
  Stubs("Tagger", {"Z", "parse", "empty", "clear", "next", "what"}, <<>>) \cup
  Stubs("Tagger", {"parse"}, <<"text">>)

Declared == DeclaredModel \cup DeclaredSettings \cup DeclaredReaders
              \cup DeclaredCosts \cup DeclaredSearch

(* A stub checks the number of its arguments and converts them from left   *)
(* to right; a call of an overloaded name goes to the stub that takes so   *)
(* many, if it takes them.  No two stubs of a name take equally many.      *)
Converted(Convert(_, _), stub, argv) ==
  [i \in 1 .. Len(argv) |-> Convert(IF i = 1 THEN stub.class ELSE stub.args[i - 1], argv[i])]

Invoke(stubs, Convert(_, _), name, argv) ==
  LET fitting == {s \in stubs : /\ s.name = name
                                /\ Len(argv) = Len(s.args) + 1
                                /\ \A i \in 1 .. Len(argv) : Converted(Convert, s, argv)[i] # {}}
  IN  IF fitting = {} THEN Refused
      ELSE LET s == CHOOSE s \in fitting : TRUE
           IN  Native(name, [i \in 1 .. Len(argv) |->
                              CHOOSE a \in Converted(Convert, s, argv)[i] : TRUE])
=============================================================================
