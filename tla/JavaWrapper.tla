---------------------------- MODULE JavaWrapper -----------------------------
(***************************************************************************)
(* The Java wrapper (java/CRFPP_wrap.cxx and the classes Model and Tagger  *)
(* of org.chasen.crfpp): what its stubs take, and who owns what an object  *)
(* holds.  An object holds swigCPtr, and owns it when swigCMemOwn is set.  *)
(*                                                                         *)
(* Java checks the types of a call before it is made: an argument that its *)
(* parameter cannot have is refused here.  size_t and unsigned int are     *)
(* parameters of type long, which the stub casts.                          *)
(***************************************************************************)
EXTENDS Wrapping

Long(v) == IF v.is = "int" THEN {v.n} \cap (LongMin .. LongMax) ELSE {}

AsSize(v) == {n % (ULongMax + 1) : n \in Long(v)}
AsUnsignedInt(v) == {n % (UIntMax + 1) : n \in Long(v)}

AsDouble(v) ==
  CASE v.is = "real" -> {v.n}
    [] v.is = "int"  -> {2 * n : n \in Long(v)}
    [] OTHER         -> {}

AsFloat(v) == {h \in AsDouble(v) : - MaxFloat <= h /\ h <= MaxFloat}

(* GetStringUTFChars is called on a string, and not on a null reference.   *)
AsCharPtr(v) ==
  CASE IsString(v)   -> {1}
    [] v.is = "nil"  -> {0}
    [] OTHER         -> {}

(* getCPtr of null is 0, and so is that of an object that was deleted; a   *)
(* method of null is not called.                                           *)
GetCPtr(class, v) ==
  CASE v.is = "nil"  -> {0}
    [] v.is = class  -> {v.n}
    [] OTHER         -> {}

Self(class, v) == IF v.is = class THEN {v.n} ELSE {}

Convert(type, v) ==
  CASE type = size           -> AsSize(v)
    [] type = "unsigned int" -> AsUnsignedInt(v)
    [] type = "float"        -> AsFloat(v)
    [] type = "double"       -> AsDouble(v)
    [] type = "text"         -> AsCharPtr(v)
    [] type = "Model&"       -> GetCPtr("Model", v) \ {0}
    [] OTHER                 -> Self(type, v)
-----------------------------------------------------------------------------
(* The stubs, in the order of the file.                                     *)
ModelStubs == Stubs("Model", {"getTemplate", "createTagger", "what"}, <<>>)

AttachStub == Stubs("Tagger", {"set_model"}, <<"Model&">>)

LevelStubs ==
  Stubs("Tagger", {"set_vlevel"}, <<"unsigned int">>) \cup
  Stubs("Tagger", {"vlevel"}, <<>>)

FactorStubs ==
  Stubs("Tagger", {"set_cost_factor"}, <<"float">>) \cup
  Stubs("Tagger", {"cost_factor"}, <<>>)

NbestStubs ==
  Stubs("Tagger", {"set_nbest"}, <<size>>) \cup
  Stubs("Tagger", {"nbest"}, <<>>)

AddStub == Stubs("Tagger", {"add"}, <<"text">>)

SizeStubs == Stubs("Tagger", {"size", "xsize", "dsize"}, <<>>)

TagStubs == Stubs("Tagger", {"result", "answer", "y"}, <<size>>)

NameStubs == Stubs("Tagger", {"y2", "yname"}, <<size>>)

ColumnStubs ==
  Stubs("Tagger", {"x"}, <<size, size>>) \cup
  Stubs("Tagger", {"ysize"}, <<>>)

ProbStubs ==
  UNION {Stubs("Tagger", {"prob"}, is) : is \in {<<>>, <<size>>, <<size, size>>}}

PenaltyStubs ==
  Stubs("Tagger", {"set_penalty"}, <<size, size, "double">>) \cup
  Stubs("Tagger", {"penalty"}, <<size, size>>)

MarginStubs == Stubs("Tagger", {"alpha", "beta"}, <<size, size>>)

EmissionStub == Stubs("Tagger", {"emission_cost"}, <<size, size>>)

TransitionStubs ==
  Stubs("Tagger", {"next_transition_cost", "prev_transition_cost"}, <<size, size, size>>)

BestStubs ==
  Stubs("Tagger", {"best_cost"}, <<size, size>>) \cup
  Stubs("Tagger", {"Z"}, <<>>)

SearchStubs == Stubs("Tagger", {"parse", "empty", "clear", "next"}, <<>>)

ParseStub == Stubs("Tagger", {"parse"}, <<"text">>)

WhatStub == Stubs("Tagger", {"what"}, <<>>)

Table ==
  ModelStubs \cup AttachStub \cup LevelStubs \cup FactorStubs
       \cup NbestStubs \cup AddStub \cup SizeStubs \cup TagStubs
       \cup NameStubs \cup ColumnStubs \cup ProbStubs \cup PenaltyStubs
       \cup MarginStubs \cup EmissionStub \cup TransitionStubs
       \cup BestStubs \cup SearchStubs \cup ParseStub \cup WhatStub

Call(name, argv) == Invoke(Table, Convert, name, argv)
-----------------------------------------------------------------------------
(* Who owns what.  An object that was deleted holds nothing.               *)
Held(ptr, own) == [ptr |-> ptr, own |-> own]

Made(ptr) == <<Held(ptr, TRUE)>>
Borrowed(ptr) == <<Held(ptr, FALSE)>>

Target(this) == IF this = <<>> THEN 0 ELSE this[1].ptr

(* Mutant: delete leaves swigCPtr as it is.                                *)
KeepsPointer(this) == IF this = <<>> THEN <<>> ELSE Borrowed(this[1].ptr)

(* delete: what it destroys, and what it leaves.                           *)
Destroyed(this) ==
  IF this # <<>> /\ this[1].own THEN {this[1].ptr} ELSE {}
Deleted(this) == <<>>
=============================================================================
