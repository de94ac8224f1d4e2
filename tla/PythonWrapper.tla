--------------------------- MODULE PythonWrapper ----------------------------
(***************************************************************************)
(* The Python wrapper (python/CRFPP_wrap.cxx, CRFPP.py): what its stubs    *)
(* take, and who owns what a proxy holds.  What a proxy holds is its       *)
(* "this": a SwigPyObject, and the one appended behind it, if any; each    *)
(* has a pointer and a flag, own.  A proxy whose constructor failed has    *)
(* none.                                                                   *)
(***************************************************************************)
EXTENDS Wrapping

(* An int, or a long that fits; True when it is negative never fits.       *)
AsUnsignedLong(v) ==
  IF v.is = "int" /\ v.n \in 0 .. ULongMax THEN {v.n} ELSE {}

(* Mutant: the upper half of the value is dropped, not checked.            *)
DropsUpperBits(v) == {n % (UIntMax + 1) : n \in AsUnsignedLong(v)}

AsUnsignedInt(v) == {n \in AsUnsignedLong(v) : n <= UIntMax}

AsDouble(v) ==
  CASE v.is = "real" -> {v.n}
    [] v.is = "int"  -> {2 * v.n}
    [] OTHER         -> {}

AsFloat(v) == {h \in AsDouble(v) : - MaxFloat <= h /\ h <= MaxFloat}

(* None is a null string: its pointer is taken for a char pointer.         *)
AsCharPtr(v) ==
  CASE IsString(v)   -> {1}
    [] v.is = "nil"  -> {0}
    [] OTHER         -> {}

(* A proxy without "this" is refused like an object of another type.       *)
ConvertPtr(class, v) ==
  CASE v.is = "nil"               -> {0}
    [] v.is = class /\ v.n # 0    -> {v.n}
    [] OTHER                      -> {}

Convert(type, v) ==
  CASE type = size           -> AsUnsignedLong(v)
    [] type = "unsigned int" -> AsUnsignedInt(v)
    [] type = "float"        -> AsFloat(v)
    [] type = "double"       -> AsDouble(v)
    [] type = "text"         -> AsCharPtr(v)
    [] type = "Model&"       -> ConvertPtr("Model", v) \ {0}
    [] OTHER                 -> ConvertPtr(type, v)
-----------------------------------------------------------------------------
(* The stubs, in the order of the file.                                     *)
ModelStubs == Stubs("Model", {"getTemplate", "createTagger", "what"}, <<>>)

AttachStub == Stubs("Tagger", {"set_model"}, <<"Model&">>)

LevelStubs ==
  Stubs("Tagger", {"set_vlevel"}, <<"unsigned int">>) \cup
  Stubs("Tagger", {"vlevel"}, <<>>)

FactorStubs ==
  Stubs("Tagger", {"set_cost_factor"}, <<"float">>) \cup
  Stubs("Tagger", {"cost_factor"}, <<>>)

NbestStubs ==
  Stubs("Tagger", {"set_nbest"}, <<size>>) \cup
  Stubs("Tagger", {"nbest"}, <<>>)

AddStub == Stubs("Tagger", {"add"}, <<"text">>)

SizeStubs == Stubs("Tagger", {"size", "xsize", "dsize"}, <<>>)

TagStubs == Stubs("Tagger", {"result", "answer", "y"}, <<size>>)

NameStubs == Stubs("Tagger", {"y2", "yname"}, <<size>>)

ColumnStubs ==
  Stubs("Tagger", {"x"}, <<size, size>>) \cup
  Stubs("Tagger", {"ysize"}, <<>>)

ProbStubs ==
  UNION {Stubs("Tagger", {"prob"}, is) : is \in {<<>>, <<size>>, <<size, size>>}}

PenaltyStubs ==
  Stubs("Tagger", {"set_penalty"}, <<size, size, "double">>) \cup
  Stubs("Tagger", {"penalty"}, <<size, size>>)

MarginStubs == Stubs("Tagger", {"alpha", "beta"}, <<size, size>>)

EmissionStub == Stubs("Tagger", {"emission_cost"}, <<size, size>>)

TransitionStubs ==
  Stubs("Tagger", {"next_transition_cost", "prev_transition_cost"}, <<size, size, size>>)

BestStubs ==
  Stubs("Tagger", {"best_cost"}, <<size, size>>) \cup
  Stubs("Tagger", {"Z"}, <<>>)

SearchStubs == Stubs("Tagger", {"parse", "empty", "clear", "next"}, <<>>)

ParseStub == Stubs("Tagger", {"parse"}, <<"text">>)

WhatStub == Stubs("Tagger", {"what"}, <<>>)

Table ==
  ModelStubs \cup AttachStub \cup LevelStubs \cup FactorStubs
       \cup NbestStubs \cup AddStub \cup SizeStubs \cup TagStubs
       \cup NameStubs \cup ColumnStubs \cup ProbStubs \cup PenaltyStubs
       \cup MarginStubs \cup EmissionStub \cup TransitionStubs
       \cup BestStubs \cup SearchStubs \cup ParseStub \cup WhatStub

(* Method name of an object: the proxy passes itself as the first argument *)
(* of the stub of its class.                                               *)
Call(name, argv) == Invoke(Table, Convert, name, argv)
-----------------------------------------------------------------------------
(* Who owns what.  "this" is a sequence of at most two [ptr, own].         *)
Held(ptr, own) == [ptr |-> ptr, own |-> own]

(* Mutant: a second constructor puts its object first.                     *)
AppendedFirst(this, ptr) ==
  IF this = <<>> THEN <<Held(ptr, TRUE)>> ELSE <<Held(ptr, TRUE), this[1]>>

(* __init__: the first object becomes this, a later one is put behind it,  *)
(* in the place of what was there, which nothing refers to any more.       *)
Constructed(this, ptr) ==
  IF this = <<>> THEN <<Held(ptr, TRUE)>> ELSE <<this[1], Held(ptr, TRUE)>>

Borrowed(ptr) == <<Held(ptr, FALSE)>>

(* The pointer a stub finds: that of the first object.                     *)
Target(this) == IF this = <<>> THEN 0 ELSE this[1].ptr

Owning(this, own) == <<Held(this[1].ptr, own)>> \o Tail(this)

(* Mutant: delete_X does not take the ownership away.                      *)
StillOwned(this) == this

(* delete_X deletes what it finds, owned or not, and clears own.           *)
Deleted(this) == Owning(this, FALSE)

(* What the deallocation of "this" and of what is behind it destroys.      *)
Destroyed(this) == {this[i].ptr : i \in {j \in DOMAIN this : this[j].own}}
=============================================================================
