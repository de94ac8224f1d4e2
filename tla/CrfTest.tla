------------------------------- MODULE CrfTest -------------------------------
(***************************************************************************)
(* crf_test: crfpp_test and TaggerImpl::parse_stream (tagger.cpp 714-725,  *)
(* 844-904) over a decoder index that is mapped from the model file        *)
(* (feature_index.cpp 192-252, mmap.h 150-213).  Tags, templates and       *)
(* numbers of the model are copied when it is opened; the double array and *)
(* the weights are read from the mapping whenever a sentence is parsed.    *)
(* The tagger itself is in TaggerLifecycle, the answer in Decoder: here an *)
(* answer is the sentence and the model that gave it.                      *)
(***************************************************************************)
EXTENDS ModelFile, SentenceStream

CONSTANTS Job,         \* the command lines of crf_test
          Junk,        \* what a page may hold past the end of the file
          MaxJobs      \* bound on the number of runs

ASSUME JunkAssumption == Junk \subseteq Nat

ASSUME JobAssumption ==
  \A j \in Job : j.mode = "run" =>
    j.files \in Seq([there : BOOLEAN, lines : Seq(InputLine)])

VARIABLES
  tphase,     \* idle, mapped, output, input, parse
  job,
  mapped,     \* length of the mapping and where its parts begin
  decoder,    \* the DecoderFeatureIndex, NoModel when there is none
  nth, input, \* the file being read, and what is left of it
  out,        \* the answers written
  code,       \* what the last run returned
  jobs

testVars == <<tphase, job, mapped, decoder, nth, input, out, code, jobs>>

NoModel == [kind |-> "none"]
NoMap   == [size |-> 0, array |-> 0, weights |-> 0]
NoInput == [good |-> FALSE, rest |-> <<>>]
NoJob   == [mode |-> "none"]

TestInit ==
  /\ tphase = "idle" /\ job = NoJob
  /\ mapped = NoMap /\ decoder = NoModel
  /\ nth = 0 /\ input = NoInput /\ out = <<>> /\ code = 0 /\ jobs = 0

IsMapped == mapped # NoMap

(* The program ends: the tagger is closed and the mapping goes.            *)
Returns(rc) ==
  /\ tphase' = "idle" /\ code' = rc
  /\ mapped' = NoMap /\ decoder' = NoModel
-----------------------------------------------------------------------------
TestStart ==
  /\ tphase = "idle" /\ jobs < MaxJobs /\ jobs' = jobs + 1
  /\ job' \in Job
  /\ nth' = 0 /\ input' = NoInput /\ out' = <<>>
  /\ IF job'.mode = "run" THEN tphase' = "open" /\ UNCHANGED <<mapped, decoder, code>>
     ELSE Returns(-1)                        \* --version, --help

(* Mmap::open: the length is that of this moment.                          *)
MapModel(file) ==
  /\ tphase = "open"
  /\ IF file = <<>> THEN Returns(-1)
     ELSE /\ mapped' = [NoMap EXCEPT !.size = Len(file)]
          /\ tphase' = "mapped"
          /\ UNCHANGED <<decoder, code>>
  /\ UNCHANGED <<job, nth, input, out, jobs>>

(* openFromArray, which sees what the file holds by then; a cost factor    *)
(* that is not positive and an output that cannot be opened end the        *)
(* program too.                                                            *)
ReadModel(file) ==
  /\ tphase = "mapped"
  /\ \E junk \in Junk :
       IF Opens(file, mapped.size, junk) /\ job.cost /\ job.output
       THEN /\ decoder' = Index(file, junk)
            /\ mapped' = [mapped EXCEPT !.array = ArrayFrom(file, junk),
                                        !.weights = WeightsFrom(file, junk)]
            /\ tphase' = "input" /\ nth' = 1
            /\ UNCHANGED code
       ELSE Returns(-1) /\ UNCHANGED nth
  /\ UNCHANGED <<job, input, out, jobs>>

OpenInput ==
  /\ tphase = "input" /\ nth <= Len(job.files)
  /\ IF job.files[nth].there
     THEN /\ input' = [good |-> TRUE, rest |-> job.files[nth].lines]
          /\ tphase' = "parse"
          /\ UNCHANGED <<mapped, decoder, code>>
     ELSE Returns(-1) /\ UNCHANGED input
  /\ UNCHANGED <<job, nth, out, jobs>>

(* The model as the mapping has it now.                                    *)
Now(file) ==
  [decoder EXCEPT
     !.dic   = Region(file, mapped.array, mapped.weights - mapped.array, 0),
     !.alpha = Region(file, mapped.weights, decoder.maxid, 0)]

(* parse_stream: read, parse, toString.  A sentence that cannot be read or *)
(* parsed is not written, and the loop goes on with what follows.  Pages   *)
(* past the end of a file that became shorter cannot be read.              *)
ParseSentence(file) ==
  LET r  == Read(input.rest, decoder.xsize)
      n  == Len(r.tokens)
      ok == r.ok /\ ~Malformed(decoder, n)
  IN  /\ tphase = "parse" /\ input.good
      /\ IF ok /\ n > 0 /\ (Len(file) < mapped.size \/ decoder.y = <<>>)
         THEN tphase' = "fault" /\ UNCHANGED <<input, out>>
         ELSE /\ input' = [good |-> r.good, rest |-> r.rest]
              /\ out' = IF ok /\ n > 0
                        THEN Append(out, [tokens |-> r.tokens, by |-> Now(file)])
                        ELSE out
              /\ UNCHANGED tphase
      /\ UNCHANGED <<job, mapped, decoder, nth, code, jobs>>

EndOfInput ==
  /\ tphase = "parse" /\ ~input.good
  /\ nth' = nth + 1 /\ tphase' = "input"
  /\ UNCHANGED <<job, mapped, decoder, input, out, code, jobs>>

EndOfFiles ==
  /\ tphase = "input" /\ nth > Len(job.files)
  /\ Returns(0)
  /\ UNCHANGED <<job, nth, input, out, jobs>>

Testing(file) ==
  \/ MapModel(file) \/ ReadModel(file) \/ OpenInput \/ ParseSentence(file)
  \/ EndOfInput \/ EndOfFiles
=============================================================================
