------------------------------ MODULE Bindings ------------------------------
(***************************************************************************)
(* CRFPP::Model and CRFPP::Tagger in the hands of a script: which native   *)
(* object or feature index is freed when, and what a call finds.  A script *)
(* holds handles (proxies of Python and Perl, objects of Ruby and Java);   *)
(* the wrapper of its language says what a handle owns (PythonWrapper and  *)
(* its like), tagger.cpp which object owns a feature index: a model its    *)
(* own, a tagger that was opened (TEST) its own, and a tagger that shares  *)
(* a model's (TEST_SHARED) none.                                           *)
(*                                                                         *)
(* A script of Python, Perl or Ruby makes one call at a time; in Java a    *)
(* method reads swigCPtr and then enters the stub, while other threads go  *)
(* on and the finalizer runs.  A call that failed to construct an object   *)
(* leaves all as it was.  After a call or a deletion that found no living  *)
(* object C++ defines nothing, and the model stops.  takes is what the     *)
(* script does although it should not:                                     *)
(*   "drops"   gives up a model whose index its taggers still use          *)
(*   "reuses"  goes on with an object it has deleted                       *)
(*   "races"   deletes an object that another thread is using (Java)       *)
(*   "again"   calls a constructor once more on its object (Python, Ruby)  *)
(*   "owns"    sets the ownership of an object itself (Python, Perl)       *)
(***************************************************************************)
EXTENDS Integers, Sequences, FiniteSets

CONSTANTS Languages, Liberties, Threads,
          MaxHandles, MaxNatives     \* bounds

ASSUME BindingsAssumption == Languages \subseteq {"Python", "Perl", "Ruby", "Java"}

Python == INSTANCE PythonWrapper WITH SizeBits <- 64, UnsignedBits <- 32, MaxFloat <- 0
Perl   == INSTANCE PerlWrapper   WITH SizeBits <- 64, UnsignedBits <- 32, MaxFloat <- 0
Ruby   == INSTANCE RubyWrapper   WITH SizeBits <- 64, UnsignedBits <- 32, MaxFloat <- 0
Java   == INSTANCE JavaWrapper   WITH SizeBits <- 64, UnsignedBits <- 32, MaxFloat <- 0

VARIABLES
  lang, takes,
  natives,    \* in order of birth: class, mode, feature index, how often freed,
              \* the handle it was made for, and whether createTagger lent it
  indexes,    \* how often each feature index was freed
  handles,    \* class, what it holds, whether the script still has it, and
              \* whether the script deleted its object
  running,    \* what a thread of Java is inside of
  faults      \* what a call found instead of a living object

vars == <<lang, takes, natives, indexes, handles, running, faults>>

Defined == faults = {}

Idle == [op |-> "idle", on |-> 0, with |-> 0, ptr |-> 0, arg |-> 0]

(* The liberties a language has room for.                                  *)
Leaves(l) ==
  CASE l = "Python" -> {"drops", "reuses", "again", "owns"}
    [] l = "Perl"   -> {"drops", "reuses", "owns"}
    [] l = "Ruby"   -> {"drops", "again"}
    [] l = "Java"   -> {"drops", "reuses", "races"}

Init ==
  /\ lang \in Languages /\ takes \in {s \in Liberties : s \subseteq Leaves(lang)}
  /\ natives = <<>> /\ indexes = <<>> /\ handles = <<>>
  /\ running = [t \in Threads |-> Idle]
  /\ faults = {}
-----------------------------------------------------------------------------
Target(this) ==
  CASE lang = "Python" -> Python!Target(this)
    [] lang = "Perl"   -> Perl!Target(this)
    [] lang = "Ruby"   -> Ruby!Target(this)
    [] lang = "Java"   -> Java!Target(this)

(* What a handle holds once its constructor has made the object p.         *)
Constructed(this, p) ==
  CASE lang = "Python" -> Python!Constructed(this, p)
    [] lang = "Perl"   -> Perl!Made(p)
    [] lang = "Ruby"   -> Ruby!Initialized(this, p)
    [] lang = "Java"   -> Java!Made(p)

Borrowed(p) == Python!Borrowed(p)      \* the same in all of them

Destroyed(this) ==
  CASE lang = "Python" -> Python!Destroyed(this)
    [] lang = "Perl"   -> Perl!Destroyed(this)
    [] lang = "Ruby"   -> Ruby!Destroyed(this)
    [] lang = "Java"   -> Java!Destroyed(this)

TargetOf(h) == Target(handles[h].this)
Living(p) == p # 0 /\ natives[p].frees = 0
Held(h) == handles[h].state = "held"
InUse(h) == \E t \in Threads : h \in {running[t].on, running[t].with}

(* A model whose index is used by a tagger of the script, or that is about *)
(* to be.                                                                  *)
Needed(h) ==
  /\ handles[h].class = "Model"
  /\ \/ \E t \in Threads : running[t].op \in {"createTagger", "set_model"} /\ h \in {running[t].on, running[t].with}
     \/ \E g \in DOMAIN handles :
          /\ handles[g].class = "Tagger" /\ (Held(g) \/ InUse(g))
          /\ Living(TargetOf(g)) /\ Living(TargetOf(h))
          /\ natives[TargetOf(g)].index = natives[TargetOf(h)].index

MayUse(h) == /\ Held(h)
             /\ IF handles[h].deleted THEN "reuses" \in takes ELSE TargetOf(h) # 0
-----------------------------------------------------------------------------
(* Native objects.                                                         *)
Object(class, mode, index, for, lent) ==
  [class |-> class, mode |-> mode, index |-> index, frees |-> 0, for |-> for, lent |-> lent]

(* createModel and createTagger with a text: a new object with a feature   *)
(* index of its own.                                                       *)
Opened(class, for) ==
  /\ Len(natives) < MaxNatives
  /\ natives' = Append(natives, Object(class, IF class = "Model" THEN "MODEL" ELSE "TEST",
                                       Len(indexes) + 1, for, FALSE))
  /\ indexes' = Append(indexes, 0)

(* Mutant: a tagger that shares an index deletes it, too.                  *)
ClosesShared(n) == {n.index}

(* ~ModelImpl and TaggerImpl::close: the feature index that goes with the  *)
(* object.                                                                 *)
Closes(n) == IF n.mode = "TEST_SHARED" THEN {} ELSE {n.index}

Free(ptrs) ==
  LET closed == UNION {Closes(natives[p]) : p \in ptrs}
  IN  /\ natives' = [p \in DOMAIN natives |->
                       IF p \in ptrs THEN [natives[p] EXCEPT !.frees = @ + 1] ELSE natives[p]]
      /\ indexes' = [i \in DOMAIN indexes |->
                       IF i \in closed THEN indexes[i] + 1 ELSE indexes[i]]
      /\ faults' = IF \A p \in ptrs : Living(p) THEN faults ELSE {"dead"}

(* Mutant: set_model leaves the tagger's own index behind.                 *)
KeepsIndex(p, q) ==
  /\ natives' = [natives EXCEPT ![p].mode = "TEST_SHARED", ![p].index = natives[q].index]
  /\ UNCHANGED indexes

(* TaggerImpl::set_model: an index of its own is deleted, the model's      *)
(* shared.                                                                 *)
SetModel(p, q) ==
  /\ natives' = [natives EXCEPT ![p].mode = "TEST_SHARED", ![p].index = natives[q].index]
  /\ indexes' = [i \in DOMAIN indexes |->
                   IF i \in Closes(natives[p]) THEN indexes[i] + 1 ELSE indexes[i]]

(* ModelImpl::createTagger: a tagger that shares the index, and a handle   *)
(* that does not own it.                                                   *)
CreateTagger(p) ==
  /\ Len(natives) < MaxNatives /\ Len(handles) < MaxHandles
  /\ natives' = Append(natives, Object("Tagger", "TEST_SHARED", natives[p].index,
                                       Len(handles) + 1, TRUE))
  /\ handles' = Append(handles, [class |-> "Tagger", this |-> Borrowed(Len(natives) + 1),
                                 state |-> "held", deleted |-> FALSE])
  /\ UNCHANGED indexes

(* What keeps a call on object p from finding what it needs; set_model     *)
(* does not look at the index the tagger has.                              *)
Missing(op, p) ==
  CASE p = 0 -> {"null"}
    [] p # 0 /\ ~Living(p) -> {"dead"}
    [] p # 0 /\ Living(p) /\ op # "set_model" /\ indexes[natives[p].index] > 0 -> {"orphan"}
    [] OTHER -> {}

Perform(op, p, q) ==
  LET found == Missing(op, p) \cup (IF op = "set_model" THEN Missing("read", q) ELSE {})
  IN  IF found # {}
      THEN faults' = found /\ UNCHANGED <<natives, indexes, handles>>
      ELSE /\ UNCHANGED faults
           /\ CASE op = "read"         -> UNCHANGED <<natives, indexes, handles>>
                [] op = "set_model"    -> SetModel(p, q) /\ UNCHANGED handles
                [] op = "createTagger" -> CreateTagger(p)

(* A call names handles of the right classes, and a model to attach that   *)
(* is not null: null is refused by every wrapper.                          *)
MayCall(op, h, g) ==
  /\ MayUse(h)
  /\ CASE op = "read"         -> g = 0
       [] op = "createTagger" -> handles[h].class = "Model" /\ g = 0
       [] op = "set_model"    -> /\ handles[h].class = "Tagger" /\ g # 0
                                 /\ handles[g].class = "Model"
                                 /\ MayUse(g) /\ TargetOf(g) # 0

Ops == {"read", "createTagger", "set_model"}
-----------------------------------------------------------------------------
(* The script.                                                             *)
New(class) ==
  /\ Defined /\ Len(handles) < MaxHandles
  /\ Opened(class, Len(handles) + 1)
  /\ handles' = Append(handles, [class |-> class, this |-> Constructed(<<>>, Len(natives) + 1),
                                 state |-> "held", deleted |-> FALSE])
  /\ UNCHANGED <<lang, takes, running, faults>>

(* An object of Python or Ruby is there before its constructor runs, and   *)
(* stays when it fails.                                                    *)
Unborn(class) ==
  /\ Defined /\ lang \in {"Python", "Ruby"} /\ Len(handles) < MaxHandles
  /\ handles' = Append(handles, [class |-> class, this |-> <<>>, state |-> "held", deleted |-> FALSE])
  /\ UNCHANGED <<lang, takes, natives, indexes, running, faults>>

Construct(h) ==
  /\ Defined /\ lang \in {"Python", "Ruby"} /\ Held(h)
  /\ handles[h].this = <<>> \/ "again" \in takes
  /\ handles[h].deleted => "reuses" \in takes
  /\ Needed(h) => "drops" \in takes
  /\ Opened(handles[h].class, h)
  /\ handles' = [handles EXCEPT ![h].this = Constructed(@, Len(natives) + 1)]
  /\ UNCHANGED <<lang, takes, running, faults>>

Call(op, h, g) ==
  /\ Defined /\ lang # "Java" /\ MayCall(op, h, g)
  /\ Perform(op, TargetOf(h), IF g = 0 THEN 0 ELSE TargetOf(g))
  /\ UNCHANGED <<lang, takes, running>>

(* delete_Model and delete_Tagger, called by their names.                  *)
Delete(h) ==
  /\ Defined /\ lang \in {"Python", "Perl"} /\ MayUse(h)
  /\ Needed(h) => "drops" \in takes
  /\ Free({TargetOf(h)})
  /\ handles' = [handles EXCEPT
       ![h].this = IF lang = "Python" THEN Python!Deleted(@) ELSE Perl!Deleted(@),
       ![h].deleted = TRUE]
  /\ UNCHANGED <<lang, takes, running>>

Own(h, own) ==
  /\ Defined /\ lang \in {"Python", "Perl"} /\ "owns" \in takes /\ MayUse(h)
  /\ handles' = [handles EXCEPT ![h].this =
       CASE lang = "Python" -> Python!Owning(@, own)
         [] lang = "Perl" /\ own -> Perl!Acquired(@)
         [] lang = "Perl" /\ ~own -> Perl!Disowned(@)]
  /\ UNCHANGED <<lang, takes, natives, indexes, running, faults>>

(* The script lets go of a handle; a call that is running keeps it.        *)
Drop(h) ==
  /\ Defined /\ Held(h)
  /\ Needed(h) => "drops" \in takes
  /\ handles' = [handles EXCEPT ![h].state = "dropped"]
  /\ UNCHANGED <<lang, takes, natives, indexes, running, faults>>

(* Mutant: the stub is not handed the objects whose pointers it was given, *)
(* so they may be collected while it runs.                                 *)
AnyDropped(h) == handles[h].state = "dropped"

Unreachable(h) == handles[h].state = "dropped" /\ ~InUse(h)

(* Deallocation, DESTROY, dfree or finalize, in any order.                 *)
Collect(h) ==
  /\ Defined /\ Unreachable(h)
  /\ Free(Destroyed(handles[h].this))
  /\ handles' = [handles EXCEPT ![h].this = <<>>, ![h].state = "gone"]
  /\ UNCHANGED <<lang, takes, running>>
-----------------------------------------------------------------------------
(* Java: a method in two steps, and delete(), which is synchronized.       *)
Busy(op, h) == \E t \in Threads : running[t].op = op /\ running[t].on = h

Enter(t, op, h, g) ==
  /\ Defined /\ lang = "Java" /\ running[t] = Idle
  /\ MayCall(op, h, g)
  /\ (Busy("delete", h) \/ (g # 0 /\ Busy("delete", g))) => "races" \in takes
  /\ running' = [running EXCEPT ![t] =
       [op |-> op, on |-> h, with |-> g, ptr |-> TargetOf(h),
        arg |-> IF g = 0 THEN 0 ELSE TargetOf(g)]]
  /\ UNCHANGED <<lang, takes, natives, indexes, handles, faults>>

Leave(t) ==
  /\ Defined /\ running[t].op \in Ops
  /\ Perform(running[t].op, running[t].ptr, running[t].arg)
  /\ running' = [running EXCEPT ![t] = Idle]
  /\ UNCHANGED <<lang, takes>>

(* Mutant: delete() is not synchronized.                                   *)
NoLock(h) == TRUE

LockFree(h) == ~Busy("delete", h)

DeleteEnter(t, h) ==
  /\ Defined /\ lang = "Java" /\ running[t] = Idle /\ Held(h) /\ LockFree(h)
  /\ Needed(h) => "drops" \in takes
  /\ InUse(h) => "races" \in takes \/ Busy("delete", h)
  /\ running' = [running EXCEPT ![t] =
       [op |-> "delete", on |-> h, with |-> 0,
        ptr |-> IF Java!Destroyed(handles[h].this) = {} THEN 0 ELSE TargetOf(h), arg |-> 0]]
  /\ UNCHANGED <<lang, takes, natives, indexes, handles, faults>>

DeleteLeave(t) ==
  /\ Defined /\ running[t].op = "delete"
  /\ Free({running[t].ptr} \ {0})
  /\ handles' = [handles EXCEPT ![running[t].on].this = Java!Deleted(@),
                                ![running[t].on].deleted = TRUE]
  /\ running' = [running EXCEPT ![t] = Idle]
  /\ UNCHANGED <<lang, takes>>

Next ==
  \/ \E class \in {"Model", "Tagger"} : New(class) \/ Unborn(class)
  \/ \E h \in DOMAIN handles :
       \/ Construct(h) \/ Delete(h) \/ Drop(h) \/ Collect(h)
       \/ \E own \in BOOLEAN : Own(h, own)
       \/ \E op \in Ops, g \in 0 .. Len(handles) : Call(op, h, g)
       \/ \E t \in Threads : \/ DeleteEnter(t, h)
                             \/ \E op \in Ops, g \in 0 .. Len(handles) : Enter(t, op, h, g)
  \/ \E t \in Threads : Leave(t) \/ DeleteLeave(t)

Spec == Init /\ [][Next]_vars
-----------------------------------------------------------------------------
(* No object and no feature index is deleted twice, by the calls of the    *)
(* script, the collection of its handles and set_model together: not when  *)
(* two threads delete one object, when a constructor is called again, or   *)
(* when ownership is given or taken.  Only delete_X on an object already   *)
(* deleted frees again, for the raw functions of Python and Perl keep the  *)
(* pointer.                                                                *)
FreedOnce ==
  ~(lang \in {"Python", "Perl"} /\ "reuses" \in takes) =>
    /\ \A p \in DOMAIN natives : natives[p].frees <= 1
    /\ \A i \in DOMAIN indexes : indexes[i] <= 1

(* A call finds no living object only by the fault of the script that goes *)
(* with it: a null pointer after delete() in Java, a freed object after    *)
(* delete_X or when Java deletes while another thread is inside, and a     *)
(* tagger without its feature index when the model is given up first.      *)
(* createTagger keeps no reference to the model: of a script that takes    *)
(* no such liberty, no order of collection does harm.                      *)
FaultsEarned ==
  /\ "null" \in faults => lang = "Java" /\ "reuses" \in takes
  /\ "dead" \in faults => \/ (lang \in {"Python", "Perl"} /\ "reuses" \in takes)
                         \/ (lang = "Java" /\ "races" \in takes)
  /\ "orphan" \in faults => "drops" \in takes \/ (lang = "Java" /\ "races" \in takes)

(* Objects the constructors called again leave to nobody: Ruby's           *)
(* initialize stores over the pointer, Python keeps the first and the last.*)
Lost(p) ==
  LET others(q) == natives[q].for = natives[p].for
      before == {q \in 1 .. p - 1 : others(q)}
      after  == {q \in p + 1 .. Len(natives) : others(q)}
  IN  /\ "again" \in takes
      /\ CASE lang = "Python" -> before # {} /\ after # {}
           [] lang = "Ruby"   -> after # {} \/ \E q \in before : natives[q].lent
           [] OTHER           -> FALSE

(* Nothing leaks but what createTagger lends, which no language frees,     *)
(* what a script disowns, and what a constructor called again loses: every *)
(* other living object is freed with a handle that is still there, and     *)
(* every feature index has a living object that will delete it, also after *)
(* set_model took a tagger from its own index to a shared one.             *)
NoLeak ==
  /\ \A p \in DOMAIN natives :
       Living(p) => \/ natives[p].lent \/ "owns" \in takes \/ Lost(p)
                    \/ \E h \in DOMAIN handles :
                         handles[h].state # "gone" /\ p \in Destroyed(handles[h].this)
  /\ \A i \in DOMAIN indexes :
       indexes[i] = 0 => \E p \in DOMAIN natives :
                          natives[p].index = i /\ Living(p) /\ natives[p].mode # "TEST_SHARED"

(* While a handle lives its methods reach the object they reached before,  *)
(* or none once it is deleted: a constructor called again does not take it *)
(* to another one.  Ruby's initialize does.                                *)
SameObject ==
  [][\A h \in DOMAIN handles :
       (handles[h].this # <<>> /\ handles'[h].state # "gone") =>
         \/ Target(handles'[h].this) = Target(handles[h].this)
         \/ (lang = "Java" /\ handles'[h].deleted /\ Target(handles'[h].this) = 0)
         \/ (lang = "Ruby" /\ "again" \in takes)]_vars
-----------------------------------------------------------------------------
(* The inductive invariant.                                                *)
TypeOK ==
  /\ lang \in Languages
  /\ natives \in Seq([class : {"Model", "Tagger"}, mode : {"MODEL", "TEST", "TEST_SHARED"},
                      index : Nat, frees : Nat, for : Nat, lent : BOOLEAN])
  /\ indexes \in Seq(Nat)
  /\ handles \in Seq([class : {"Model", "Tagger"}, this : Seq([ptr : Nat, own : BOOLEAN]),
                      state : {"held", "dropped", "gone"}, deleted : BOOLEAN])
  /\ running \in [Threads -> [op : Ops \cup {"idle", "delete"}, on : Nat, with : Nat,
                              ptr : Nat, arg : Nat]]
  /\ faults \subseteq {"null", "dead", "orphan"}

Raw == lang \in {"Python", "Perl"} /\ "reuses" \in takes    \* delete_X on what is deleted
Races == lang = "Java" /\ "races" \in takes

Owns(p, i) == natives[p].index = i /\ natives[p].mode # "TEST_SHARED"

(* A feature index goes with the one object that owns it: both are freed   *)
(* equally often, and an index that set_model took from its tagger once.   *)
IndexesOwned ==
  /\ \A p \in DOMAIN natives :
       /\ natives[p].index \in DOMAIN indexes
       /\ natives[p].mode = "MODEL" <=> natives[p].class = "Model"
       /\ natives[p].mode # "TEST_SHARED" => indexes[natives[p].index] = natives[p].frees
       /\ ~Raw => natives[p].frees <= 1
  /\ \A p, q \in DOMAIN natives : \A i \in DOMAIN indexes : Owns(p, i) /\ Owns(q, i) => p = q
  /\ \A i \in DOMAIN indexes : indexes[i] = 1 \/ \E p \in DOMAIN natives : Owns(p, i)

(* What a handle reaches and what it frees when it goes, in any language.  *)
First(h) == IF handles[h].this = <<>> THEN 0 ELSE handles[h].this[1].ptr
Owned(this) == {this[i].ptr : i \in {j \in DOMAIN this : this[j].own}}

(* An object is held in one place of one handle at most, and what a handle *)
(* holds lives, unless it was deleted by name; then it is not owned.       *)
Holds(h) ==
  LET this == handles[h].this IN
  /\ Len(this) \in 0 .. 2
  /\ Len(this) = 2 => lang = "Python" /\ this[1].ptr < this[2].ptr
  /\ \A i \in DOMAIN this :
       /\ this[i].ptr \in DOMAIN natives
       /\ natives[this[i].ptr].for = h
       /\ natives[this[i].ptr].class = handles[h].class
       /\ ~Raw => natives[this[i].ptr].frees = 0 \/ (i = 1 /\ handles[h].deleted /\ ~this[i].own)
  /\ handles[h].state = "gone" => this = <<>>
  /\ handles[h].state # "gone" /\ lang = "Perl" => this # <<>>
  /\ handles[h].deleted => /\ lang # "Ruby"
                           /\ lang = "Java" => this = <<>>
                           /\ lang = "Python" /\ handles[h].state # "gone" => this # <<>>
  /\ lang = "Ruby" /\ this # <<>> =>
       this[1].own \/ \E q \in DOMAIN natives : natives[q].for = h /\ natives[q].lent

HeldOnce == \A h \in DOMAIN handles : Holds(h)

Attaching(t, h) == \/ running[t].op = "createTagger" /\ running[t].on = h
                   \/ running[t].op = "set_model" /\ running[t].with = h

(* A method that is running keeps its handles, and finds in them what it   *)
(* read when it entered unless they are deleted meanwhile; one thread      *)
(* deletes a handle at a time.                                             *)
Inside(t) ==
  LET r == running[t] IN
  /\ r.op = "idle" => r = Idle
  /\ r.op # "idle" => /\ lang = "Java" /\ r.on \in DOMAIN handles
                      /\ handles[r.on].state # "gone"
  /\ r.op = "set_model" => /\ r.with \in DOMAIN handles /\ handles[r.with].state # "gone"
                           /\ handles[r.on].class = "Tagger" /\ handles[r.with].class = "Model"
                           /\ r.arg \in DOMAIN natives /\ natives[r.arg].class = "Model"
  /\ r.op # "set_model" => r.with = 0
  /\ r.op = "createTagger" => handles[r.on].class = "Model"
  /\ r.op \in Ops => IF r.ptr = 0 THEN "reuses" \in takes
                     ELSE r.ptr \in DOMAIN natives /\ natives[r.ptr].class = handles[r.on].class
  /\ r.op \in Ops /\ ~Races =>
       /\ r.ptr = First(r.on)
       /\ r.op = "set_model" => r.arg = First(r.with)
       /\ ~Busy("delete", r.on) /\ ~Busy("delete", r.with)
  /\ r.op = "delete" =>
       /\ r.ptr = IF Owned(handles[r.on].this) = {} THEN 0 ELSE First(r.on)
       /\ \A u \in Threads : running[u].op = "delete" /\ running[u].on = r.on => u = t
  /\ ~Races /\ "drops" \notin takes => \A h \in DOMAIN handles : Attaching(t, h) => Held(h)

Entered == \A t \in Threads : Inside(t)

(* The model a tagger in use shares its index with is held, as long as the *)
(* script keeps its models.                                                *)
Shares(g) ==
  /\ handles[g].class = "Tagger" /\ (Held(g) \/ InUse(g)) /\ handles[g].this # <<>>
  /\ natives[handles[g].this[1].ptr].frees = 0
  /\ natives[handles[g].this[1].ptr].mode = "TEST_SHARED"

Keeper(k, i) ==
  /\ handles[k].class = "Model" /\ Held(k) /\ handles[k].this # <<>>
  /\ natives[handles[k].this[1].ptr].frees = 0 /\ natives[handles[k].this[1].ptr].index = i
  /\ ~Busy("delete", k)

ModelsKept ==
  ~Races /\ "drops" \notin takes =>
    \A g \in DOMAIN handles : Shares(g) =>
      \E k \in DOMAIN handles : Keeper(k, natives[handles[g].this[1].ptr].index)

(* What becomes of every living object.                                    *)
Accounted ==
  \A p \in DOMAIN natives :
    Living(p) => \/ natives[p].lent \/ "owns" \in takes \/ Lost(p)
                 \/ \E h \in DOMAIN handles :
                      handles[h].state # "gone" /\ p \in Owned(handles[h].this)

IInv == /\ TypeOK /\ IndexesOwned /\ HeldOnce /\ Entered /\ ModelsKept
        /\ Accounted /\ FaultsEarned
=============================================================================
