# A TLA+ verification of the named-entity recogniser

The repository is a named-entity recogniser in three layers: Java programs over
OpenNLP that turn text into columns of tokens and features (`src/NLPTools`), the
conditional-random-field toolkit CRF++ that learns a tagger from such columns and
applies it (`src/CRF++`), and the Perl script that scores the result
(`src/conll-eval.pl`). This directory models the parts whose correctness rests on
an order of steps, on an invariant, or on an algorithm that must agree with a
simple definition. TLC checks small instances; TLAPS proves what it can for every
value of the constants.

Run a model with `tlc -config <cfg> <module>`, check proofs with `tlapm <module>.tla`.
`PROJECT.json` maps every definition to the source lines it stands for, gives for
every checked property a mutated definition that breaks it, and lists the hazards
with the properties aimed at them.

## 1. Inventory

| Component | State it keeps | Operations | What makes it correct | Model |
|---|---|---|---|---|
| Free lists (`freelist.h`) | blocks, cursor `li`/`pi` | `alloc`, `free`, `dup` | regions handed out are disjoint, and inside a block unless too long for one | `FreeList` |
| CRF training (`encoder.cpp` 68-93, 194-287, `thread.h`) | weights `alpha`, per-thread gradients, per-thread lists | start/join workers, reduce, decide, optimise | the gradient is that of the whole set at one point; no worker disturbs another; it ends | `ParallelTraining`, `BatchTraining` |
| MIRA training (`encoder.cpp` 95-192) | budgets, shrink counters, `converge` | visit a sentence, end of pass | convergence means something; budgets and set-aside rule hold | `MIRA` |
| L-BFGS (`lbfgs.cpp`, `lbfgs.h`) | ring of steps in `w_`, `iflag_`, line-search state | `optimize` called again and again | the recursion combines matching parts of the last steps | `LimitedMemory` |
| Feature dictionary (`feature_index.cpp`, `feature_cache.cpp`) | `dic_`, `maxid_`, cached rows | `getID`, `buildFeatures`, `shrink` | features own disjoint weights; rows hold current numbers | `FeatureDictionary` |
| Lattice programmes (`node.cpp`, `path.cpp`, `tagger.cpp` 506-664) | `alpha`, `beta`, `bestCost`, `prev` | forward, backward, expectation, Viterbi, gradient, collins | agree with sums and maxima over all labellings | `Lattice` |
| n-best search (`tagger.cpp` 403-455) | agenda | `initNbest`, `next` | labellings come in order and none is lost | `Decoder` |
| Tagger (`tagger.cpp`, `tagger.h`, `crfpp.h`) | model, allocator, sentence, rows, penalties, answer | `open`, `set_model`, `close`, `clear`, `add`, `set_penalty`, `parse`, `next`, `toString` | answers belong to the sentence held; models are owned once; what goes wrong has a call to blame | `TaggerLifecycle` |
| Evaluation (`conll-eval.pl`) | previous labels, `inCorrect`, counters | one pass over the lines | the counters are those of the definition | `ConllEval` |
| Encoder front end (`encoder.cpp` 288-526, `feature_index.cpp` 127-190) | sentences read, thread numbers, the phase of the run | read, shrink, train, delete, save, convert, error exits | every sentence of the file once, bound to its thread, deleted once | `Learn`, `SentenceStream` |
| Model file (`feature_index.cpp` 192-501, `mmap.h`) | header, tags, templates, array, weights; the mapping | `save`, `convert`, `open` | what is read is a whole model that was written | `ModelFile`, `ModelStore`, `Toolchain` |
| crf_test (`tagger.cpp` 216-251, 358-376, 714-725, 844-904) | model mapped, file and position | open, `parse_stream`, end of file and of files | every sentence of the files once, in order | `CrfTest`, `SentenceStream` |
| Double array (`darts.h`) | `array_`, `used_`, `next_check_pos_` | `build`, the three searches | finds exactly the keys built in, inside the array | `Darts` |
| Templates (`feature.cpp` 20-123) | none | `applyRule`, `getIndex` | macros mean the cells they name, or are refused | `Templates` |
| Command line (`param.cpp`, `param.h`) | `conf_`, `rest_` | `open`, `get`, `set` | the last setting of an option counts; files are the rest | `Options` |
| Bindings (`python/`, `perl/`, `ruby/`, `java/`) | per proxy: pointer(s) and ownership | a stub per method and language; constructors, deletion, collection | arguments arrive as given; objects are freed once, after their last use | `Wrapping`, `PythonWrapper`, `PerlWrapper`, `RubyWrapper`, `JavaWrapper`, `Bindings` |
| Java columns (`NER_extractor.java`, `Chunker.java`) | lists of words and labels | read the columns, list entities, gather chunks | every entity counted, no word lost | `Columns` |
| C API (`libcrfpp.cpp`), the old `swig/CRFPP_wrap.c`, OpenNLP wrappers, other Java programs, `merge-models.pl` | little | forwarding and I/O | - | not modelled, section 7 |

**Interactions.** `Encoder::learn` reads sentences into `TaggerImpl`s that share one
`EncoderFeatureIndex` (the dictionary) and one `Allocator` (free lists per thread and
the feature cache). Each sentence is bound to a thread number when it is read. After
`shrink`, `runCRF` starts one `CRFEncoderThread` per thread in every iteration; these
call `TaggerImpl::gradient`, which builds a lattice in the free lists of the sentence's
thread number, runs the lattice programmes and adds to the thread's own gradient. The
main thread joins, reduces and calls `LBFGS::optimize`, which moves `alpha` in place.
For tagging, a `Tagger` holds a `DecoderFeatureIndex` of its own or shares a `Model`'s,
and an `Allocator` of its own; `parse` uses the same lattice programmes and `next` the
n-best search. The output columns go to `conll-eval.pl`. `crf_learn` and `crf_test` are
two processes that meet only in the model file, which one writes in place and the other
maps. Scripts hold `Model`s and `Tagger`s through proxies of four languages, each with a
rule of its own for who frees what.

**What is hard here.** The workers share lists and weights without a lock. Numbers into
`alpha` are cached while `shrink` renumbers them. L-BFGS is a state machine spread over
calls and gotos, with a ring of slots that share one array. The A* search relies on
exact heuristics computed by another pass. A tagger keeps data of the last sentence
beside that of the next. The evaluator decides with a one-line memory. The model is
written under its final name, so that a crash leaves a part of one there and a reader may
open it while it grows. Java deletes objects while other threads use them. Nothing is
persisted during training and there is no network: a run that was killed starts anew, and
lost messages do not arise.

## 2. Modules, and how they correspond to the code

Every module opens with a comment that says which lines it models and what it leaves
out. An action is one operation of the code, or one turn of a loop where other threads
can come in between or where a property looks at the middle of the loop. Definitions
commented `mutant` are not part of any specification: they are deliberately wrong
variants of the definition that follows and serve to show that a property can fail.

- **`FreeList`** `li`, `pi`, `blocks` are the fields; `live` is a history of the regions
  handed out since `free()`. `Alloc` is `alloc` and `dup`, of any length, for the code
  compares none with the size of a block: a node asks for one cell, but `strdup` for the
  length of a string and its NUL, so that a line of 8191 characters asks for a whole block
  of 8192 and `add()` for as much as it is given. Once a region has left its block nothing
  is said of what follows (`Lost`).
- **`ParallelTraining`** Each worker's loop body is three steps (`BuildLattice`,
  `Accumulate`, `Eval`), since other workers run between them. A gradient is kept as a
  count: how often each sentence and the regulariser were added. `list[t]` is the
  sentence whose lattice occupies thread list `t`, `costs[s]` the version of `alpha` it
  was built from. L-BFGS answers 1, 0 or -1 freely. Creation of threads succeeds.
- **`BatchTraining`** is the abstract specification: each round evaluates the gradient
  of the whole set at one point, then moves the point or stops. `ParallelTraining`
  implements it under `Batch == INSTANCE BatchTraining WITH ...` (property `Implements`).
- **`MIRA`** keeps of the numbers only what control reads: whether a wrong parse is
  corrected, the size of the pull in units of the budget, whether the pass saw a
  violation. `shrink` has the width of its C type (`Wrap`), and `-H` is any of `Sizes`,
  below that width or not, since the program only asks that it be positive.
- **`LimitedMemory`** replaces vectors by the iteration they were computed in. The two
  loops of the recursion are one action per turn; the line search ends when it likes,
  within `maxfev`.
- **`FeatureDictionary`** keys are `1..K` in map order; a `U` feature owns `Y` weights,
  a `B` feature `Y*Y`. A row has a number per template that fired, and two templates
  may give one feature, as those of a bag of words do: it is then counted twice. `fired`
  remembers which keys a row was built from. `shrink` is modelled key by key and row by row;
  a number that is dropped leaves a mark (`Gone`) where the code closes the gap.
- **`Lattice`** has the dynamic programmes as recursive functions over natural costs,
  with powers of two for `exp`, so that sums are exact. The cut-off of `logsumexp`
  for far-apart arguments is therefore abstracted.
- **`Decoder`** is `parse()` and then `next()` one pop at a time; elements of equal
  score leave the queue in any order.
- **`TaggerLifecycle`** describes every result by its origin: a lattice by sentence,
  model and penalties, an answer by its lattice. Every public call is an action, and each
  that can leave what C++ defines has an operator for what it goes wrong on
  (`ParseFault`, `DrawFault`, `PrintFault`, `TextFault`): the fault is kept in `fault` and
  stops the model. `set_nbest`, `set_vlevel` and `set_model` only assign, as in the code;
  `parse` may fail in `buildFeatures`. A client that takes no liberties goes by
  `sdk/example.cpp`: clear, add, parse, read. The others, whose calls the header does not
  exclude, take some of seven liberties (the comment of the module lists them); `takes` is
  fixed by the initial state, as it is in `Bindings`.
- **`ConllEval`** has the tables of `endOfChunk`/`startOfChunk` as sets of pairs and one
  action per line. `gold` and `guess` are histories of the columns; an input is marked
  in one scheme, IOB or IOE, for no table separates an E from a following B.
- **`ModelFile`** the binary as a sequence of cells and the text as a sequence of lines:
  what `save` writes, what `openFromArray` accepts and reads, what `convert` makes of a
  text. Sizes count cells. Weights are 0, one lost in 16 decimals, one a float rounds, one exact.
- **`SentenceStream`** `read()` with the stop of `add2`, on lines that are their number of
  columns and their tag; separators, short lines and overlong lines are kinds of lines.
  **`Places`** the n-th of a set of numbers, by which modules count what a loop keeps.
- **`Learn`** one action per stage of `crfpp_learn`, one per sentence read and per cell
  written; `Kill` may come anywhere. What training finds is free, or a failure.
- **`CrfTest`** one action per stage of `crfpp_test`, one per sentence. The mapping has the
  length the file had when it was opened; past the end of the file a page holds anything
  (`Junk`). The stage `fault` is a read outside the mapping or a model without tags.
- **`ModelStore`** the abstract specification: a store holds one whole model or none, a
  reader loads it and answers by it. **`Toolchain`** runs `Learn` and `CrfTest` side by side
  and implements `ModelStore` (`Implements`).
- **`Darts`**, **`Templates`**, **`Options`**, **`Columns`** pure functions over records and
  sequences, one operator per function or loop body; `Algorithms` holds the reference
  definitions they are compared with, and `MCAlgorithms` their inputs. In `Darts` the
  recursion of `insert` is a function of the height above the leaves (`Inserting`), and each
  level files the children of a node one after the other (`Filed`).
- **`Wrapping`** what the SWIG stubs share, and what `crfpp.h` and `CRFPP.i` declare. A
  conversion yields the set of values an argument may become, empty when it is refused.
  **`PythonWrapper`**, **`PerlWrapper`**, **`RubyWrapper`**, **`JavaWrapper`** each have the
  conversions of their language, the table of their stubs, and what a proxy owns.
- **`Bindings`** a script with handles, the native objects and the feature indexes behind
  them, and the ownership rules of the language of the state. In Java a call reads the
  pointer in one step and uses it in another, and any thread, or the finalizer, may come
  between; the other languages make one call at a time. A fault stops the model, since C++
  says nothing of what follows.
- **`*Proofs`** hold the theorems and their proofs. `LearningProofs` has those of `MIRA`
  and of `LimitedMemory`, `FeatureDictionaryProofs` those of `FreeList` too, and of the
  templates of `Algorithms`, which make the keys of the dictionary: a proof module
  extends the modules it proves about, and so `MIRA`, `FreeList` and `Algorithms` name their
  specification `MiraSpec`, `CellsSpec`, `CasesSpec`, and likewise their initial and
  next-state relation. `SequentialProofs` has those of `ConllEval` and the other ones of
  `Algorithms`. The few lemmas on positions that several of them need are proved in each.

Composition: `ParallelTraining` uses what `FreeList` promises (a list emptied and refilled
holds one lattice) and what `LimitedMemory` promises (a reply per call);
`TaggerLifecycle` uses what `Decoder` promises (a drawn labelling is of the agenda's
lattice); `Learn` uses what `FeatureDictionary` and the two trainers promise, `CrfTest` what
`TaggerLifecycle` does, `Bindings` the ownership that `TaggerLifecycle` has in one tagger.
These promises are separate checks, not one product model; `Toolchain` alone is a product.

## 3. Runs

| Run | Instance | States | Shows |
|---|---|---|---|
| `free_list` | blocks of 5, requests 1-6, 3 blocks | 2644 | `RegionsSound` |
| `parallel_training` | 2 workers, 5 sentences, 5 iterations, L2 | 1361 | `LatticeIntact`, `GradientExact`, `Implements`, `Terminates` |
| `feature_dictionary` | 2 `U`, 2 `B` features, 2 tags, 3 rows of up to 3, `-f 2` | 301346 | `WeightsTiled`, `RowsCurrent`, `FrequentKept` |
| `decoder` | 2 tags, 1-3 tokens, all 0/1 path costs, one free node cost | 540166 | `MarginalsExact`, `ViterbiOptimal`, `NbestOrdered`, `NothingLost`, `CollinsDirection` |
| `mira` | 3 sentences, `-H` 2 or 5, a counter up to 3, budget 2, 7 passes | 106734 | `ConvergedOnAll`, `WithinBudget`, `ShrinksAfterH`, `Terminates` |
| `limited_memory` | msize 5, maxfev 20 (the code's), 13 iterations | 4504 | `RecursionReads`, `StepAndGradient` |
| `tagger_lifecycle` | own model of 2 tags, shared of 3, sentences up to 2 of 2 lines, 23 sets of liberties | 1187132 | `UndefinedEarned`, `AnswerCurrent`, `OwnedOnce` |
| `conll_eval` | 2 types, IOB and IOE, 4 lines | 2827962 | `ChunksCounted` |
| `toolchain` | 2 runs of `crf_learn`, 1 of `crf_test` beside them | 1185908 | `Implements`, `SentencesRead`, `OwnLists`, `DeletedOnce`, `AnswersInOrder` |
| `algorithms` | every input of bounded size, no steps | 43624 | `DartsExact`, `TextAgrees`, `TemplateExact`, `CommandLineMeans`, `EntitiesListed`, `ChunksExact`, `CallsAsDeclared` |
| `bindings` | 4 languages, 3 handles, 3 objects, 2 threads, up to 2 liberties | 2771146 | `FreedOnce`, `FaultsEarned`, `NoLeak`, `SameObject` |
| `tagger_penalty` | as `tagger_lifecycle`, the liberty `penalty` | 774 | a disagreement, section 6: `PenaltiesOfThisSentence` is violated |

The inductive invariants (`IInv`, `SearchInv`, ...) and what they contain, the type
invariants and `WeightsStable`, `AtMostFound` and `LiveDisjoint` among them, were model-checked on these instances before they were proved for every value of the
constants (section 4), and are not checked again by a run.

**Why the bounds are enough to be interesting.** `free_list`: a request that just fits,
one that just does not, one of a whole block and one longer, a partly empty block reused. `parallel_training`: the strides
are uneven (3 and 2 sentences) and five iterations leave room for a converge counter
that falls back before it reaches 3. `feature_dictionary`: kinds alternate in key order,
so every block moves when an earlier one goes, counts lie below, at and above 2, and two of
them may come from one row.
`decoder`: three tokens give a first, an inner and a last position; the costs have ties.
`mira`: 7 passes suffice to set a sentence aside, take all back and confirm, and for a
counter of values 0 to 3 to wrap, which for -H 5 it does before it gets there.
`limited_memory`: the ring of 5 wraps twice and is also used after a termination.
`tagger_lifecycle`: the wider shared model makes a row or penalty of the wrong width
show; two lines make a longer sentence after a shorter one; each liberty is taken alone and
with each other, but `penalty` only alone, for it multiplies the states by the penalties of
past sentences (the theorems have all sets of liberties). `conll_eval`: four lines
hold two adjacent chunks, a gap, and a chunk open at the end, in both columns.
`toolchain`: two runs let a model be written over another, or converted from a text that
a killed run left behind, while `crf_test` opens, maps and reads; training files have empty
sentences between two others, an overlong line, unequal columns, a feature below `-f`, a
template that cannot be expanded on the second sentence and one that training never
expands; test files a line short of a column in the middle of a sentence and an overlong
one. `algorithms`: keys of up to three characters over two letters make nodes that share
slots, prefixes and a full trie; numbers lie on both sides of every width. `bindings`:
three handles are a model, its tagger and another tagger to be given the model; two
threads are enough to race, and two liberties at a time to combine their effects.
The bounds on what the code leaves open are `MaxBlocks`, `MaxIter`, `MaxRows`, `MaxFires`,
`MaxLen`, `MaxOwned`, `MaxPenalized`, `MaxLines`, `MaxRuns`, `MaxJobs`, `MaxHandles` and `MaxNatives`; `Cells` is the
length of the double array. `MaxItr` is the code's own `-m`. In `tagger_lifecycle` the lines and in `bindings` the threads are
interchangeable, hence the symmetry; `SameObject` is an action property, which it does not
disturb.

**Fairness.** `ParallelTraining!FairSpec` has weak fairness of the main thread and of
each worker: the operating system schedules runnable threads, and no step of either
waits for anything but `join`. `MIRA!FairSpec` has weak fairness of `Next`: a sequential
loop keeps running. `Terminates` is checked under these. The other modules state no
liveness: their loops wait for a caller. `crf_test` does end on every input, but its loop
is over a finite file and nothing in it waits, so that there is nothing to show.

**Deadlock** is checked everywhere but in `toolchain` and `bindings`, whose actors stop when
their bounds are used up or, in `bindings`, at a fault; elsewhere the states in which the code has returned loop
through an action of their own (`Return`, `Reported`, `Failed`, `Over`, ...).

## 4. What is proved

All theorems hold for every value of the constants that the named assumption in each
module allows. Each follows the same line: an invariant `IInv`, `Init => IInv`,
`IInv /\ [Next]_vars => IInv'` with a lemma or step per action, then `IInv => property`.

| Module | Theorems | Why the strengthening is needed |
|---|---|---|
| `ParallelTrainingProofs` | `Inductive`, `LatticesIntact`, `GradientsExact`, `WeightsUnderNoWorker`, `Refinement` | `Phases` says who runs while main is where; `Strides` that worker t only visits numbers congruent t, hence its own list; `Shares` what it has added so far; `Reduced` how much the main thread has collected |
| `FeatureDictionaryProofs` | `CellsInductive`, `RegionsDisjoint`, `RegionsAlwaysSound` (of `FreeList`, for requests of any length) | a new region is disjoint from the old because all old ones lie before the cursor (`BeforeCursor`), and the push_back suffices because the cursor is at most one past the last block (`CursorInBlocks`); both hold until a request that is too long leaves the blocks, and only such a one does |
| `FeatureDictionaryProofs` | `Inductive`, `WeightsAlwaysTiled`, `RowsAlwaysCurrent` | during `shrink` the old numbering is kept beside the new (`Renumbered`) and each row is in one of them (`Rows`) |
| `FeatureDictionaryProofs` | `FrequentAlwaysKept` | the frequency of a key is the number of places of rows that hold it, of the row being read too (`Counts`); `shrink` has decided the keys behind its cursor and no other (`Decided`) |
| `DecoderProofs` | `SearchInvariant`, `ViterbiAlwaysOptimal`, `NbestAlwaysOrdered`, `NothingEverLost` | what Viterbi's recursion and walk back compute, for every length, gives that the heuristic is exact (`Admissible`, `Complete`); every agenda element is the end of a chain with its costs (`Chain`), and of every labelling not yet returned exactly one tail is in the agenda (`OneChain`) |
| `DecoderProofs` | `MarginalsAlwaysExact` (if `NaturalCosts`), `CollinsAlwaysRight` | the labellings that agree on positions j to i weigh together what can come before, times the stretch, times what can come after (`Summarised`): true of a whole labelling, and kept when one position more is summed out on either side (`OneLessOnTheLeft`, `OneLessOnTheRight`), hence of every stretch (`EveryStretch`), whose ends give Z and whose lengths 1 and 2 give the marginals of nodes and edges |
| `LearningProofs` | `PassesInductive`, `AlwaysConvergedOnAll`, `AlwaysWithinBudget`, `ShrinksExactly` (all of `MIRA`, for any `-H` and any width of the counter) | after a clean pass nothing still to come is set aside (`AllBack`); the counter is the number of right parses running while it can hold -H (`ShrinkIsStreak`) |
| `LearningProofs` | `Inductive`, `RecursionReadsLastSteps`, `StepsMatchGradients` (of `LimitedMemory`) | step p lives in slot (p-1) % M while it is recent (`Window`), and the cursor is where that says (`Cursor`) |
| `TaggerLifecycleProofs` | `Inductive`, `UndefinedAlwaysEarned`, `AnswersCurrent`, `AlwaysOwnedOnce` (for every set of liberties) | the model and the allocator are there (`Held`), rows, labels and lattice have the tags of the model held (`Context`), penalties are none or as long as this sentence (`Penalty`), and what can be read is of this sentence (`Parsed`): each up to the liberties that undo it |
| `SequentialProofs` | `Inductive`, `NeverAboveFound` | the chunk both columns are in is counted as found but not yet as correct (`Ahead`, `SameChunk`) |
| `SequentialProofs` | `ChunksAlwaysCounted` | the counters are the numbers of chunks of the lines so far, less the one that may still go on (`Tally`); a line ends or begins a chunk of the definition exactly when the tables say so (`Tables`, `ChunksOfType`) |
| `SequentialProofs` | `DartsAlwaysExact` | no states, but the recursion of `insert`: an insertion touches no slot in use and marks none with a begin in use (`Extends`), the slots that bear the begin of a node are those of its next codes and lead on to its children or hold its value (`Laid`); by induction over the brothers (`FiledTo`) and the height of the trie (`AllInserted`) this is so of every node when `build` is done (`Built`), wherever `insert` found room, and a walk meets exactly these nodes (`WalkReaches`) |
| `SequentialProofs` | `CommandLineAlwaysMeans` | when the loop stands at word i, the settings and the arguments are what the words before i say (`ReadTo`, `GoesOnAt`), or it stopped at the first word that halts it (`StoppedAt`); a word is a value exactly if the word before is an option that wants one and is none itself (`ConsumedNext`) |
| `SequentialProofs` | `ChunksAlwaysExact` | after word i, the chunks done and the open one hold the words so far outside O in order; in a sentence that follows the scheme the n-th of them is the stretch of the n-th B, and the open one, if any, begins at the last B (`GatheredTo`, `RightAt`) |
| `SequentialProofs` | `EntitiesAlwaysListed` | no loop, but two files: a row loaded is the line of its rank, and if no sentence begins inside an entity the rows of an entity are neighbouring lines (`RunOfLines`), so that entities among the rows and entities among the lines are one to one (`EntityOf`, `BeginOf`) |
| `SequentialProofs` | `TextAlwaysAgrees` | no states, but where each part of a text lies (`TextLaid`): the empty lines of a model without lost keys are exactly the four ends of its sections (`EmptiesAre`). A text cut before the fourth has too few of them (`TooShort`); one cut after it has too few numbers, whichever line is broken |
| `FeatureDictionaryProofs` | `TemplateAlwaysExact` | where each piece of a template lies among its characters (`PiecesLaid`); one turn of `applyRule` passes over one piece, and what it adds is the meaning of that piece (`PieceTurnIs`); so, from the last piece back to the first, the rest of the template becomes the meanings of the pieces that are left, or is refused at the first that is not acceptable (`Expanded`). What is read behind the NUL was begun by a macro not closed (`Unclosed`), since a turn that ends inside the template hands on a later place (`PassedOver`) |
| `SequentialProofs` | `CallsAlwaysAsDeclared` | no states, but the four tables of stubs, which are the declarations of `crfpp.h` whatever order the wrappers list them in (`PythonTableIs` and its like); the name and the number of arguments fix their types (`ArgsAre`), the receiver fixes the class (`OneRight`), and each conversion that is not bent yields the value itself or nothing (`PythonStraight` and its like), at every width, since a bit more doubles the numbers (`PowerDoubles`, `WidthsAre`) |
| `BindingsProofs` | `Inductive`, `NothingFreedTwice`, `FaultsAlwaysEarned`, `NothingLeaks`, `HandlesNeverMove` | every index has the owner its object names (`IndexesOwned`), no two handles own one object (`HeldOnce`), a call under way entered through a live handle (`Entered`), a model outlives its taggers unless a liberty was taken (`ModelsKept`), and a living object is lent, lost or owned by a handle (`Accounted`) |
| `ToolchainProofs` | `SentencesOwnLists`, `SentencesDeletedOnce` | the count of sentences is the length of `x`, and how often each was deleted follows from the phase and the reason of the end (`XInv`), of which two, the failing exits of `save()`, mean twice |
| `ToolchainProofs` | `SentencesAlwaysRead` | the stream stands between two lines of which the first is not a good one, and `x` holds the sentences that begin before it (`ReadSoFar`): a call of `read` goes to the next such place and adds one sentence or none (`RunIs`); the tags and columns of `openTagSet` stay those of the file (`Reading`) |
| `ToolchainProofs` | `CutRefused`, `WholeReadBack`, `ModelReadBack` | not of a state: for a model with any tags, templates, entries and weights, where each part of the file lies (`Layout`) follows from the header alone; for the templates, that those of one kind lie together (`ModelOK`) |
| `ToolchainProofs` | `PathWholeOrPart`, `ToolchainImplementsStore` (if `"in_place" \notin Liberties`) | whatever training, cut-off or text an index comes from, what is saved of it is a model that can be read back (`LearnInv`); while `save` writes, the file is a proper part of that model (`DiskInv`); the mapping lies within the file and the model seen through it is the one published (`TestInv`) |
| `ToolchainProofs` | `AnswersAlwaysInOrder` (if `"in_place" \notin Liberties` and every training file that is there has a token, `HasLines`) | what was written is the answers to the files before and to the sentences that begin before the place of the stream (`Answering`, `AnsweredSoFar`); the model a tagger holds has a tag and a number of columns (`ModelInv`), though `Convert` makes a model of any text that a kill may have cut (`Tagged`) |

The two refinement theorems, of `BatchTraining` and of `ModelStore`, are about
specifications that state no fairness: initial states map to initial states, steps to steps
or stutters. That of `ModelStore` needs no bound on what is trained or tested, only that the
lines of a training file are lines `read()` can meet and its templates a sequence (`TrainingAssumption`), that a page past
the end of a file reads as numbers (`JunkAssumption`), that the files of `crf_test` are such
lines too (`JobAssumption`), and that no model is written over one
that is mapped: without that TLC refutes it (section 6). Its invariants quantify over all
models, so TLC checks only the refinement itself.

`HandlesNeverMove` is the action property `SameObject`.

**Induction over positions.** The lattice programmes are functions recursive in the
position. That such a function exists and follows its equation is not taken for granted:
`Recursion` derives it from the least element of a set of naturals (`Least`, by the
well-foundedness of the order of `Nat`), and so do the inductions over the length of a
sentence (`UpTo`). The same two lemmas serve the numbering of the features in `Learn` and the recursions of
the double array.
Sums are recursive functions too: over positions (`SumUpTo`), over tags (`TagSum`) and over
finite sets (`SetSum`, with the number of elements as the measure). `SetSumTakes` shows that
the element `SetSum` happens to take first does not matter, `SetSumSplits` that disjoint
parts add up, `SetSumGroups` that a sum may be taken tag by tag; the last is what turns the
sum over all labellings into the recursions of alpha and beta (`Spread`, `Regroup`).

`MarginalsAlwaysExact` has the premise `NaturalCosts`: the costs of nodes and edges are
natural numbers. The exponential is taken to base 2 over the naturals, where a number
below 0 has none; a constant added to all costs of a lattice scales every sum alike. The
instance of `decoder` satisfies it, and TLC evaluates it there (`MCNaturalCosts`).
`CollinsAlwaysRight` needs no premise.

`DartsAlwaysExact` rests on `KeysAssumption`: keys are words over the alphabet, at least
one, in the order in which `std::map` hands them out, and `Cells` is enough for
Alphabet + 2 slots per prefix of a key and once more; the code's array grows instead. The
proof shows that whatever the search for room passes over, the next free place is never
further than that (`RoomIs`), and that `size()` covers every slot a search may look at.
The heuristic of 95% only decides where a search starts and does not enter.

`CommandLineAlwaysMeans` rests on `LinesAssumption`: the table of options, in which no two
have the same long name, and the five kinds of words. Looking for the proof showed that the two
descriptions of why a word is wrong overlapped, so that the reference did not fix which
error is reported; they are disjoint now. `ChunksAlwaysExact` and `EntitiesAlwaysListed`
rest on `TaggingsAssumption`: labels are B, I or O and a line has some number of columns.
The proof of the latter showed that a line of five columns or more, which the Java code
reads like one of four, was missing from the inputs.

`TextAlwaysAgrees` rests on `ModelsAssumption`: what training leaves, that is templates of
the two kinds, the keys of a `std::map`, none twice, and a weight for every id; nothing is
assumed of how many there are.

`TemplateAlwaysExact` rests on `TemplatesAssumption`: a sentence has some number of tokens
and columns, and a template line is made of macros, whose row and column are digits, as many
as one likes, and of characters other than %. For the overrun, nothing is assumed of the
line at all.

`CallsAlwaysAsDeclared` rests on `CallsAssumption`: an int is narrower than a long, as in the
builds the wrappers are made for on Unix; an argument is one of the kinds of values of
`Wrapping`; Perl has no object without a pointer, and neither Ruby nor Java calls a method of
nil. Looking for the proof showed that `Bent` did not name a Java integer below the
smallest long where a double is wanted; the inputs of `algorithms` now have one.

**Only model-checked.** `Terminates`: liveness under fairness and ENABLED are outside
what the prover handles. Every other property of the passing runs is stated by a theorem.

`AnswersAlwaysInOrder` has one premise about the world, `HasLines`: from a training file
without a token the code would write a model without tags, by way of `&x[0]` of an empty
vector (section 7), and a tagger would then parse with no label to give.

## 5. Order of the work, and what is open

Modelled first was what can go wrong silently in training (`FreeList`,
`ParallelTraining`, `FeatureDictionary`, `MIRA`, `LimitedMemory`), then decoding and
evaluation (`Decoder`, `TaggerLifecycle`, `ConllEval`), then the two programs around the
model file (`Toolchain`), the pure algorithms, and the bindings.

Open, most useful first: one model of several taggers on a shared model that parse and
change its cost factor; the words of an option string (`Param::open` on a text); the
growth of the double array.

## 6. Disagreements met

Shown by the run `tagger_penalty`, which TLC finds violated: `clear()` is to "clear all
context" (crfpp.h 303) but keeps the penalties, which then apply to the next sentence and
are too few when it is longer: `buildLattice` then reads past the end of `penalty_`, a fault
that `UndefinedEarned` has under the liberty `penalty`.

Met while translating, where the lines themselves decide:

- `-H` is the "number of iterations variable needs to be optimal before considered for
  shrinking" (encoder.cpp 446), but the counter is an `unsigned char` compared with an
  `unsigned short` (103, 124): with `-H` 256 or more no sentence is ever set aside.
  `ShrinksAfterH` and the theorem `ShrinksExactly` say both cases; the run `mira` has both.
- `LBFGS::optimize` returns 0 for "terminate" (lbfgs.h 107), which `runCRF` takes for a
  failure (encoder.cpp 278): training that reaches the optimum exactly saves no model.
- `parse(str, size1, result, size2)` never reads `str` (tagger.cpp 698; crfpp.h 331).
- `FreeList::alloc` compares no request with the size of a block (freelist.h 38-45). A line
  of 8191 characters, the longest that is read, as the first string of a tagger asks for a
  whole block and makes it read `freeList[1]` of a vector of one; a longer string given to
  `add()` (tagger.cpp 348) is copied past its block. `RegionsSound` says that no other
  requests go wrong.
- The sentences are deleted again when `save()` fails (encoder.cpp 419 after 414), which it
  does when the keys make no trie, when the model cannot be opened, and when the text cannot
  though the model is then whole at its path (feature_index.cpp 412-455); `DeletedOnce`
  states these as the exceptions. The sentence in hand when a file
  turns out malformed is not deleted at all (355).
- A template line that is neither U nor B is reported by a check whose result is unused
  (feature_index.cpp 147) and dropped. Both programs ignore the result of reading their
  command line (encoder.cpp 523, tagger.cpp 896).
- An overlong line ends the input without a word (tagger.cpp 363). A malformed number of an
  option becomes 0, which is accepted for `-c` (encoder.cpp 312).
- `-v` of `crf_test` is the verbosity, listed before `version` (tagger.cpp 110).
- Only the text form of a model: keys lose what follows a blank, weights below 16 decimals
  become 0, a cut inside the last weight passes, and a model without columns or weights is
  refused (feature_index.cpp 321-365, 492).
- `crfpp_prev_transition_cost` and `_vector` forward to the functions of the next
  transition (libcrfpp.cpp 231-242; crfpp.h 268); `crfpp_emittion_vector` is declared
  (crfpp.h 81) and another spelling defined.
- What `createTagger` returns is owned by no proxy in any language, and leaks; a
  constructor called again loses an object in Python and Ruby. A negative or too large
  number is wrapped or truncated by some wrappers (`Bent` in `Algorithms` lists them).
- `NERapp.display` iterates over an empty map (NERapp.java 61); `TestLabeler` joins lines
  without a separator (31); `NER_extractor` runs off its list when the last word is inside
  an entity (98-100) and joins an entity across a sentence boundary (28); `Chunker` joins an
  I label without a B to the next chunk (105); `Parser` fails on no tokens (156).

- What a `Tagger` goes wrong on, in the run `tagger_lifecycle`: `parse("")` under `-n` reads
  an agenda that was never made (`empty`), and so do `next` and `toString` after `set_nbest`
  (`options`); `set_model` after `close` finds no allocator to reuse (`closed`);
  `set_model` leaves rows of the old width, labels of the old model and nodes, which `parse`
  or `toString` before `clear` run past (`dirty`); `toString` at a verbose level after a
  `parse` that failed, or before one, dereferences null nodes (`unparsed`); `open` on a
  tagger that shares a model leaves `mode_` as it was, and the model opened is never
  deleted (`reopen`, in `OwnedOnce`).

In `Toolchain`, the liberty `in_place` violates `Implements`: a model written over one that
`crf_test` has mapped changes under it.

## 7. What is not modelled, and why

- Floating point: rounding, overflow of `exp`, the `logsumexp` cut-off, and the line
  search's interpolation (`mcstep`). Costs are exact or reduced to what control reads.
- String work: tokenising, the words of an option string (`Param::open` on a text, `load`),
  output formats; the sum of a macro's digits, an `int` without a bound.
- Failing thread creation or join (`thread.h` ignores both results), allocation failure,
  and an empty training set (`&x[0]` of an empty vector).
- Two taggers of one model that parse at the same time, or change its cost factor, which
  they share (tagger.h 167): `Bindings` has their lifetimes only.
- The growth of the double array (`resize`): `Darts` has it at full length from the start.
- Of a `Tagger`: the columns of a line, so a line of too few columns for a model that was set
  since; the value of a label, a tag or an option (the worst is taken).
- Errors of writing a model: `save` looks at none after it has opened the file, and so does
  not fail; a disk that fills leaves a part of a model, as a crash does (`Kill`).
- Byte order, alignment and `sizeof` in the model file: one build reads what it wrote.
- Of the wrappers: the texts of exceptions, the values that come back, the cast tables and
  the sharing of types between modules, `CRFPP_wrap.cxx` of Java leaving a string
  unreleased when a constructor throws (424).
- Options `-r`, `-d`, `-o` and the bracket tags of `conll-eval.pl`; the percentages printed.
- `libcrfpp.cpp` forwards calls; `swig/CRFPP_wrap.c` is a wrapper of an empty interface that
  no build file names; NERapp, TestLabeler and Resizer copy files;
  `merge-models.pl` and the OpenNLP wrappers are sequential file I/O.
