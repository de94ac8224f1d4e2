---------------------------- MODULE PerlWrapper -----------------------------
(***************************************************************************)
(* The Perl wrapper (perl/CRFPP_wrap.cxx, CRFPP.pm): what its stubs take,  *)
(* and who owns what a proxy holds.  A proxy is a hash tied to a blessed   *)
(* pointer, which is owned as long as it is a key of %OWNER.               *)
(***************************************************************************)
EXTENDS Wrapping

(* strtoul with base 0: a sign is taken back into the range, a number out  *)
(* of it is an error, and a zero in front makes the digits octal.          *)
Strtoul(n) == IF n \in - ULongMax .. ULongMax THEN {n % (ULongMax + 1)} ELSE {}
Octal(n) == 8 * (n \div 10) + (n % 10)        \* of at most two digits

(* A value that is not an integer is read as a string; undef is an empty   *)
(* one, which spells 0.  What strtoul does not read to its end may still   *)
(* be a double with a whole value.                                         *)
AsUnsignedLong(v) ==
  CASE v.is = "int"                       -> {v.n} \cap (0 .. ULongMax)
    [] v.is = "real" /\ v.n % 2 = 0       -> Strtoul(v.n \div 2)
    [] v.is = "numeral"                   -> Strtoul(v.n)
    [] v.is = "padded"                    ->
         IF v.n \div 10 < 8 /\ v.n % 10 < 8 THEN Strtoul(Octal(v.n))
         ELSE {v.n} \cap (0 .. ULongMax)
    [] v.is \in {"blank", "nil"}          -> {0}
    [] OTHER                              -> {}

AsUnsignedInt(v) == {n \in AsUnsignedLong(v) : n <= UIntMax}

AsDouble(v) ==
  CASE v.is = "real"                           -> {v.n}
    [] v.is \in {"int", "numeral", "padded"}   -> {2 * v.n}
    [] v.is \in {"blank", "nil"}               -> {0}
    [] OTHER                                   -> {}

AsFloat(v) == {h \in AsDouble(v) : - MaxFloat <= h /\ h <= MaxFloat}

AsCharPtr(v) ==
  CASE IsString(v)   -> {1}
    [] v.is = "nil"  -> {0}
    [] OTHER         -> {}

ConvertPtr(class, v) ==
  CASE v.is = "nil"  -> {0}
    [] v.is = class  -> {v.n}
    [] OTHER         -> {}

Convert(type, v) ==
  CASE type = size           -> AsUnsignedLong(v)
    [] type = "unsigned int" -> AsUnsignedInt(v)
    [] type = "float"        -> AsFloat(v)
    [] type = "double"       -> AsDouble(v)
    [] type = "text"         -> AsCharPtr(v)
    [] type = "Model&"       -> ConvertPtr("Model", v) \ {0}
    [] OTHER                 -> ConvertPtr(type, v)
-----------------------------------------------------------------------------
(* The stubs, in the order of the file.                                     *)
ModelStubs == Stubs("Model", {"getTemplate", "createTagger", "what"}, <<>>)

AttachStub == Stubs("Tagger", {"set_model"}, <<"Model&">>)

LevelStubs ==
  Stubs("Tagger", {"set_vlevel"}, <<"unsigned int">>) \cup
  Stubs("Tagger", {"vlevel"}, <<>>)

FactorStubs ==
  Stubs("Tagger", {"set_cost_factor"}, <<"float">>) \cup
  Stubs("Tagger", {"cost_factor"}, <<>>)

NbestStubs ==
  Stubs("Tagger", {"set_nbest"}, <<size>>) \cup
  Stubs("Tagger", {"nbest"}, <<>>)

AddStub == Stubs("Tagger", {"add"}, <<"text">>)

SizeStubs == Stubs("Tagger", {"size", "xsize", "dsize"}, <<>>)

TagStubs == Stubs("Tagger", {"result", "answer", "y"}, <<size>>)

NameStubs == Stubs("Tagger", {"y2", "yname"}, <<size>>)

ColumnStubs ==
  Stubs("Tagger", {"x"}, <<size, size>>) \cup
  Stubs("Tagger", {"ysize"}, <<>>)

ProbStubs ==
  UNION {Stubs("Tagger", {"prob"}, is) : is \in {<<>>, <<size>>, <<size, size>>}}

PenaltyStubs ==
  Stubs("Tagger", {"set_penalty"}, <<size, size, "double">>) \cup
  Stubs("Tagger", {"penalty"}, <<size, size>>)

MarginStubs == Stubs("Tagger", {"alpha", "beta"}, <<size, size>>)

EmissionStub == Stubs("Tagger", {"emission_cost"}, <<size, size>>)

TransitionStubs ==
  Stubs("Tagger", {"next_transition_cost", "prev_transition_cost"}, <<size, size, size>>)

BestStubs ==
  Stubs("Tagger", {"best_cost"}, <<size, size>>) \cup
  Stubs("Tagger", {"Z"}, <<>>)

SearchStubs == Stubs("Tagger", {"parse", "empty", "clear", "next"}, <<>>)

ParseStub == Stubs("Tagger", {"parse"}, <<"text">>)

WhatStub == Stubs("Tagger", {"what"}, <<>>)

Table ==
  ModelStubs \cup AttachStub \cup LevelStubs \cup FactorStubs
       \cup NbestStubs \cup AddStub \cup SizeStubs \cup TagStubs
       \cup NameStubs \cup ColumnStubs \cup ProbStubs \cup PenaltyStubs
       \cup MarginStubs \cup EmissionStub \cup TransitionStubs
       \cup BestStubs \cup SearchStubs \cup ParseStub \cup WhatStub

Call(name, argv) == Invoke(Table, Convert, name, argv)
-----------------------------------------------------------------------------
(* Who owns what.                                                          *)
Held(ptr, own) == [ptr |-> ptr, own |-> own]

Made(ptr) == <<Held(ptr, TRUE)>>        \* SWIG_OWNER: a key of %OWNER
Borrowed(ptr) == <<Held(ptr, FALSE)>>   \* createTagger: SWIG_SHADOW alone

Target(this) == this[1].ptr

Disowned(this) == <<Held(this[1].ptr, FALSE)>>
Acquired(this) == <<Held(this[1].ptr, TRUE)>>

(* delete_X converts with SWIG_POINTER_DISOWN: the key leaves %OWNER.      *)
Deleted(this) == Disowned(this)

(* DESTROY runs for the hash and for the scalar it is tied to; the scalar  *)
(* is no hash, and returns at once.                                        *)
Destroyed(this) == IF this[1].own THEN {this[1].ptr} ELSE {}
=============================================================================
