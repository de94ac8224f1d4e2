---------------------------- MODULE RubyWrapper -----------------------------
(***************************************************************************)
(* The Ruby wrapper (ruby/CRFPP_wrap.cpp): what its stubs take, and who    *)
(* owns what an object holds.  An object holds the pointer DATA_PTR, and   *)
(* owns it when dfree is set: Data_Wrap_Struct sets it once, for an object *)
(* that is allocated and not for one made of a pointer.  trackObjects is   *)
(* off for both classes, so the table of tracked objects stays empty.      *)
(***************************************************************************)
EXTENDS Wrapping

(* NUM2ULONG and rb_big2ulong take a negative number as its remainder.     *)
AsUnsignedLong(v) ==
  IF v.is = "int" /\ v.n \in LongMin .. ULongMax THEN {v.n % (ULongMax + 1)} ELSE {}

AsUnsignedInt(v) == {n \in AsUnsignedLong(v) : n <= UIntMax}

AsDouble(v) ==
  CASE v.is = "real" -> {v.n}
    [] v.is = "int"  -> {2 * v.n}
    [] OTHER         -> {}

AsFloat(v) == {h \in AsDouble(v) : - MaxFloat <= h /\ h <= MaxFloat}

AsCharPtr(v) ==
  CASE IsString(v)   -> {1}
    [] v.is = "nil"  -> {0}
    [] OTHER         -> {}

(* Mutant: an object that was never initialized passes for a null one.     *)
TakesUninitialized(class, v) ==
  CASE v.is = "nil"  -> {0}
    [] v.is = class  -> {v.n}
    [] OTHER         -> {}

(* nil is a null pointer, an object without one is refused.                *)
ConvertPtr(class, v) ==
  CASE v.is = "nil"             -> {0}
    [] v.is = class /\ v.n # 0  -> {v.n}
    [] OTHER                    -> {}

Convert(type, v) ==
  CASE type = size           -> AsUnsignedLong(v)
    [] type = "unsigned int" -> AsUnsignedInt(v)
    [] type = "float"        -> AsFloat(v)
    [] type = "double"       -> AsDouble(v)
    [] type = "text"         -> AsCharPtr(v)
    [] type = "Model&"       -> ConvertPtr("Model", v) \ {0}
    [] OTHER                 -> ConvertPtr(type, v)
-----------------------------------------------------------------------------
(* The stubs, in the order of the file.                                     *)
ModelStubs == Stubs("Model", {"getTemplate", "createTagger", "what"}, <<>>)

AttachStub == Stubs("Tagger", {"set_model"}, <<"Model&">>)

LevelStubs ==
  Stubs("Tagger", {"set_vlevel"}, <<"unsigned int">>) \cup
  Stubs("Tagger", {"vlevel"}, <<>>)

FactorStubs ==
  Stubs("Tagger", {"set_cost_factor"}, <<"float">>) \cup
  Stubs("Tagger", {"cost_factor"}, <<>>)

NbestStubs ==
  Stubs("Tagger", {"set_nbest"}, <<size>>) \cup
  Stubs("Tagger", {"nbest"}, <<>>)

AddStub == Stubs("Tagger", {"add"}, <<"text">>)

SizeStubs == Stubs("Tagger", {"size", "xsize", "dsize"}, <<>>)

TagStubs == Stubs("Tagger", {"result", "answer", "y"}, <<size>>)

NameStubs == Stubs("Tagger", {"y2", "yname"}, <<size>>)

ColumnStubs ==
  Stubs("Tagger", {"x"}, <<size, size>>) \cup
  Stubs("Tagger", {"ysize"}, <<>>)

ProbStubs ==
  UNION {Stubs("Tagger", {"prob"}, is) : is \in {<<>>, <<size>>, <<size, size>>}}

PenaltyStubs ==
  Stubs("Tagger", {"set_penalty"}, <<size, size, "double">>) \cup
  Stubs("Tagger", {"penalty"}, <<size, size>>)

MarginStubs == Stubs("Tagger", {"alpha", "beta"}, <<size, size>>)

EmissionStub == Stubs("Tagger", {"emission_cost"}, <<size, size>>)

TransitionStubs ==
  Stubs("Tagger", {"next_transition_cost", "prev_transition_cost"}, <<size, size, size>>)

BestStubs ==
  Stubs("Tagger", {"best_cost"}, <<size, size>>) \cup
  Stubs("Tagger", {"Z"}, <<>>)

SearchStubs == Stubs("Tagger", {"parse", "empty", "clear", "next"}, <<>>)

ParseStub == Stubs("Tagger", {"parse"}, <<"text">>)

WhatStub == Stubs("Tagger", {"what"}, <<>>)

Table ==
  ModelStubs \cup AttachStub \cup LevelStubs \cup FactorStubs
       \cup NbestStubs \cup AddStub \cup SizeStubs \cup TagStubs
       \cup NameStubs \cup ColumnStubs \cup ProbStubs \cup PenaltyStubs
       \cup MarginStubs \cup EmissionStub \cup TransitionStubs
       \cup BestStubs \cup SearchStubs \cup ParseStub \cup WhatStub

(* A method is looked up in the class of the object it is called on.       *)
Call(name, argv) ==
  Invoke({s \in Table : s.class = argv[1].is}, Convert, name, argv)
-----------------------------------------------------------------------------
(* Who owns what.  An object that is allocated owns what it will hold.     *)
Held(ptr, own) == [ptr |-> ptr, own |-> own]

(* initialize stores its pointer over the one that is there.               *)
Initialized(this, ptr) ==
  <<Held(ptr, IF this = <<>> THEN TRUE ELSE this[1].own)>>

Borrowed(ptr) == <<Held(ptr, FALSE)>>

Target(this) == IF this = <<>> THEN 0 ELSE this[1].ptr

(* Ruby calls dfree of an object whose DATA_PTR is not null.               *)
Destroyed(this) ==
  IF this # <<>> /\ this[1].own THEN {this[1].ptr} ELSE {}
=============================================================================
