------------------------------- MODULE Options -------------------------------
(***************************************************************************)
(* The command line of the programs and of the string that createTagger    *)
(* takes: Param::open (param.cpp 91-187), get and set (param.h 69-85).     *)
(* A word of the line is a record: its kind ("long", "short", "other",     *)
(* "dash" for a lone -, "stop" for --), the option it names, and what is   *)
(* attached to it: NoValue, EmptyValue (--name=) or a text.  Words and     *)
(* texts bear the number they spell, 0 if they spell none.                 *)
(* An option of the table has a name, a short name, a default (NoValue for *)
(* none) and says whether it wants an argument.                            *)
(***************************************************************************)
EXTENDS Integers, Sequences, FiniteSetsExt

NoValue    == [kind |-> "none", number |-> 0]
EmptyValue == [kind |-> "empty", number |-> 0]
Set1       == [kind |-> "text", number |-> 1]       \* what set<int>(name, 1) stores

(* Short names need not be unique: the first of the table counts.          *)
Named(opts, w) ==
  LET hit == {i \in DOMAIN opts : \/ w.kind = "long"  /\ opts[i].name = w.name
                                  \/ w.kind = "short" /\ opts[i].short = w.name}
  IN  IF hit = {} THEN 0 ELSE Min(hit)

ValueStays(i) == i + 1                       \* mutant: the value is read again
AfterValue(i) == i + 2

(* What open has read before word at: the settings, the files, the error   *)
(* (3: none).                                                              *)
Beginning(opts) ==
  [at |-> 1, rest |-> <<>>, error |-> 3,
   conf |-> [x \in {opts[i].name : i \in DOMAIN opts} |->
               opts[CHOOSE i \in DOMAIN opts : opts[i].name = x].default]]

(* One turn of the loop.  A missing argument is error 1, one too many      *)
(* error 2, an unknown option error 0; -- ends the loop and drops the      *)
(* words after it, a lone - is dropped.                                    *)
ReadWord(opts, words, r) ==
  LET n == Len(words)
      w == words[r.at]
      k == Named(opts, w)
      fails(e) == [r EXCEPT !.at = n + 1, !.error = e]
      sets(v, next) == [r EXCEPT !.at = next, !.conf = [@ EXCEPT ![opts[k].name] = v]]
  IN  CASE w.kind = "stop"  -> [r EXCEPT !.at = n + 1]
        [] w.kind = "dash"  -> [r EXCEPT !.at = @ + 1]
        [] w.kind = "other" -> [r EXCEPT !.at = @ + 1, !.rest = Append(@, w)]
        [] w.kind \in {"long", "short"} ->
             IF k = 0 THEN fails(0)
             ELSE IF ~opts[k].wants
             THEN IF w.value # NoValue THEN fails(2) ELSE sets(Set1, r.at + 1)
             ELSE IF w.value = EmptyValue \/ (w.value = NoValue /\ r.at = n) THEN fails(1)
             ELSE IF w.value # NoValue THEN sets(w.value, r.at + 1)
             ELSE sets(words[r.at + 1], AfterValue(r.at))

(* open: at most one turn for every word.                                  *)
Open(opts, words) ==
  LET after[n \in 0 .. Len(words)] ==
        IF n = 0 THEN Beginning(opts)
        ELSE IF after[n-1].at > Len(words) THEN after[n-1]
        ELSE ReadWord(opts, words, after[n-1])
  IN  after[Len(words)]

(* What it leaves behind, after an error too: the callers that ignore the  *)
(* result of open go on with it.                                           *)
Conf(opts, words)  == Open(opts, words).conf
Rest(opts, words)  == Open(opts, words).rest
Error(opts, words) == Open(opts, words).error

(* get<int>: 0 for an option that is not there and for a text that is not  *)
(* a number.                                                               *)
Get(conf, name) == IF name \in DOMAIN conf THEN conf[name].number ELSE 0
=============================================================================
