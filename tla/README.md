# TLA+ specifications of the Qore tree-sitter module

This directory holds the formal specifications of the `treesitter` binary module
for Qore: modules in TLA+, configurations for the model checker TLC, and proofs
checked by TLAPS. The code modelled is in `src/src/`; native tree-sitter, the
Qore runtime and the C++ library are not part of the repository and are modelled
only by what that code relies on.

## 1. The system

The module wraps tree-sitter in seven Qore classes. Each Qore object holds a
reference counted C++ object (`AbstractPrivateData`); scripts may share any
object between threads and may `delete` it explicitly at any time.

| Component | State | Operations | Interacts with |
|---|---|---|---|
| Trees, nodes, traversal cursors (`TreeSitterTree`, `TreeSitterNode`, `TreeSitterCursor`) | native `TSTree`; source text; in every borrower a `shared_ptr` whose deleter derefs the tree; the cursor's mutex | `getRootNode`, `copy`, `edit`, `getChangedRanges`; every way from a node to another; `getChildren`; `getCursor`; `reset`, `getCurrentNode`, `copy`, the goto functions | everything that returns nodes; deletes by the script |
| Query cursor (`TreeSitterQueryCursor`) | native cursor; reference on its query; owner of the tree it runs on; mutex | `exec`, `nextMatch`, `nextCapture`, `removeMatch`, range and limit settings | query (predicates), tree (source text), cancellation |
| Query (`TreeSitterQuery`) | native query; byte range, point range and depth settings; cache of regular expressions with a mutex | `execute`, `captures`, the setters, `resolveLocals`, introspection | node, metadata from `resolveLocals`, query file cache |
| Query file cache (`TreeSitterLanguages::getQuery`) | process wide map from canonical path to text; mutex | `getQuery`, `getHighlightQuery` | file system, sandbox policy of the calling program |
| Language registry (`TreeSitterLanguages`) | map filled once; flag | `getLanguage`, `getLanguageList`, `isLanguageSupported` | all constructors |
| Parser (`TreeSitterParser`) | native parser with language and included ranges; timeout; mutex | `parse`, `parseIncremental`, `setIncludedRanges`, `reset`, `setTimeout`, `copy` | makes trees |
| Lookahead iterator (`TreeSitterLookaheadIterator`) | native iterator; mutex | `reset`, `resetState`, `next`, getters | language registry |
| Entry points, generated SQL grammar, build and packaging | none at run time | | |

What is hard in it, and what makes it correct:

- *Lifetime.* A `TSNode`, a `TSTreeCursor` and a running `TSQueryCursor` borrow
  the memory of a tree. Deletes, temporaries, cancelled lists and cursors that
  move to another tree must never free it under a borrower, nor leak it.
- *Critical sections made of two steps.* `exec()` and `reset()` move the native
  handle and then the owner; other calls must never see them apart.
- *Shared iteration.* Several threads may take results from one cursor; a result
  is decided about after the native cursor has moved on.
- *Unlocked settings.* A query is configured and run without a lock.
- *A cache in front of a changing file system and different policies.*
- *Algorithms over flat data.* The predicates of a pattern are an array of steps
  with separators; scopes are a list found in one pass.
- *Long native calls.* Cancellation and timeouts while a loop or a parse runs.
- *Trees that are edited.* `edit()` changes a native tree in place and without a
  lock, while the source text kept beside it stays what was parsed.
- *Lazy initialisation without a lock*, and an iterator that changes over to
  another language while other threads use it.

The hazards are listed one by one, with the line where each bites and the
properties about it, in `PROJECT.json`.

## 2. Modules

| Module | Models | Checked by |
|---|---|---|
| `TreeLifetime` | the promise about native trees: users attach to live trees only, a tree is reclaimed when nobody uses it | refined by `TreeOwnership` |
| `TreeOwnership` | all wrappers, owners, reference counts, destructors and cursors' mutexes | `MCTreeOwnership` with two configurations |
| `ParserSession` | `TreeSitterParser` objects and their copies, shared by threads | through `IncrementalParsing` |
| `IncrementalParsing` | the trees parsers make, `edit()`, `copy()`, and parsing again from an edited tree; extends `ParserSession` | `MCIncrementalParsing` |
| `QueryCursorIteration` | one `TreeSitterQueryCursor` shared by threads, its limits included | `MCQueryCursorIteration` |
| `QueryExecution` | settings and runs of one shared `TreeSitterQuery` | `MCQueryExecution` |
| `QueryPredicates` | `evaluatePredicates()` with its regex cache, `collectDirectives()` | `MCQueryPredicates` |
| `LocalScopes` | `resolveLocals()` | itself |
| `QueryFileCache` | `getQuery()` | `MCQueryFileCache` |
| `LanguageRegistry` | the table of languages from module load on | through `LookaheadIteration` |
| `LookaheadIteration` | one `TreeSitterLookaheadIterator` shared by threads; extends `LanguageRegistry` | `MCLookaheadIteration` |
| `TreeOwnershipProofs`, `IncrementalParsingProofs`, `QueryCursorIterationProofs`, `QueryExecutionProofs`, `QueryPredicatesProofs`, `LocalScopesProofs`, `QueryFileCacheProofs`, `LookaheadIterationProofs` | theorems about the module each is named for | tlapm |

The `MC` modules only give values to constants, and declare symmetry for the
ownership runs; of the others most check liveness, for which TLC's symmetry is
unsound. Definitions that begin with the comment "Faulty:" are variants of the
definition after them with a plausible mistake (a missing `ref()`, a lock not
taken, a check done once). No specification uses them; put in place of the
original, each makes one property fail, which shows that the property depends
on that piece of code.

### TreeOwnership

`refs` is what the program counts, for Qore private data and for the control
blocks of the `shared_ptr`s that `getRootNode()` makes (`Owner`). The counted
pointers that really exist are state of their own: `objects` (held by a Qore
object), `tree` and `query` (members), and the frames of calls (`self`, `arg`,
`old`, `oldQuery`). `native` is what is borrowed without being counted. So
`CountsExact` compares two independent things, and a forgotten `ref()` is not
hidden by the model.

A call is a sequence of steps: dispatch references the object and its argument
(`Enter`, `EnterWithNode`), the method runs, and its references are given back
one at a time (`DropArg`, `DropSelf`). Giving back the last one runs the
destructor, whose members are the next references to give back (`DestroyWrapper`
to `DestroyOwner` to `DestroyNative`; a query cursor also `DerefQuery`).
`exec()` and `reset()` are `Lock`, `Bind` (native handle), `Adopt` (owner),
release of the old owner, `Unlock`, as in the code. `getChildren()` builds its
list object by object (`AppendChild`) and a cancellation releases them one by one
(`ReleaseChild`). The different ways to reach one node from another
(`getChild`, `getParent`, siblings, descendants) are one action: they copy the
same owner. The goto functions of a cursor stay in its tree and change nothing
here.

### ParserSession and IncrementalParsing

`ParserSession` has the parser objects, the native parser of each (`handle`, so
that a copy which shared one would show), their mutexes and the calls under way.
The native parser reads its included ranges when a parse begins and again as it
goes on, so a change under way would show in `RangesHoldForAParse`. A parse may
fail, and a list of ranges may be refused. `copy()` makes a native parser of its
own with the language of the original and none of its ranges, as the code does.

`IncrementalParsing` adds what comes out: `TreeSitterTree` objects with their
native tree and the source they keep. A native tree is one leaf for each byte,
the letter found there or `Changed`. `document` is the text a tree would stand
for after all the edits reported to it. An incremental parse takes over the
leaves that are not `Changed`; `IncrementalIsFresh` says that they still are
what a parse from nothing would find. A tree made from an old tree that was not
told of all changes, or that was edited while it was parsed from, has unknown
leaves (`Null`), and so do trees made from it: nothing is claimed of them. That
is a boundary of the claims and not of the behaviour, for the code lets a script
do both. `NodesReadTheirText` speaks of `getText()`, which reads the offsets of
the native tree in the source the object keeps: it is right when the tree is as
it was parsed or copied, and the code has nothing that makes it right after an
`edit()`.

### QueryCursorIteration

Results are positions in the stream of captures of a node, each naming its
match; the native cursor is what it has not handed out (`left`). `Take` hands one
out (a capture for `nextCapture()`, all captures of a match for `nextMatch()`)
before the cancellation check and the predicates; `Skip`, `Give`, `Abandon` and
`Cancelled` are the ways it ends. `given` and `lost` count what scripts saw. A
script is assumed to use one of the two ways of iteration after an `exec()`
(tree-sitter does not define mixing them).

The byte range, the point range and the start depth are three limits, each the
set of positions it lets through, and count together (`Allowed`). Each may be set
at any moment, the ranges also cleared, without touching the other two
(`SetLimit`, `ClearLimit`); they stay through `exec()`, and count for what has not
been handed out. `asked` and `inForce` are what scripts asked for, kept apart
from the native cursor's `limits`.

### QueryExecution

`CompleteResults` compares what a call returns with what the limits of its own
cursor let through, whichever these are; `LastSettingApplies` says which they are.
The depth is a flag and a number that is right without the flag, so a run takes
over the number stored last whatever happens meanwhile. The range is not: a run
takes it over as it was set last if no setter of the range is under way
(`stable`); setting the depth does not matter to it. What happens to a run that
overlaps a setter of the range is shown by `query_settings_torn`. A range that
ends at 0 has no end, one that ends before it starts is refused and leaves the
cursor as it was, unlimited (`NoLimit`): torn numbers can give either.

The members of the byte range and of the start depth are written (`SetHas`,
`SetStart`, `SetEnd`, `Clear`, `SetHasDepth`, `SetDepth`) and read
(`ApplyNothing`, `ApplyHas`, `ApplyStart`, `ApplyEnd`, `ApplyHasDepth`,
`ApplyDepth`) one by one, since nothing orders the two; each access alone is
taken to be atomic. The loops of `execute()` and `captures()` then run on a
cursor of their own. The point range is the same code on other members.
`disablePattern()` changes the native query that all runs use: a run under way
may or may not come to further matches of the pattern, and both outcomes are
allowed at each call, match by match.

### QueryPredicates

A pattern is written as a list of predicates, and `Flatten` makes the array of
steps tree-sitter hands out. The actions walk through the array by position.
The lookup, compilation and search of `#match?` are steps under the mutex of the
cache. `collectDirectives()` is the second walk through the same array, in one
step since it reads nothing that changes. `Means` gives the meaning of each
predicate as written, without the array. Only the first node captured by a name
counts, in the code and in `Means`. Metadata holds byte ranges, as in the code:
a node is marked when its range is, whichever node of that range was meant.

### LocalScopes

The captures come in source order, the outer one first, a definition before a
reference at the same place. The pass is `SeeScope`, `SeeDefinition`,
`SeeReference`, then `Resolve` for each reference. `LexicalScoping` does not speak of the pass:
it defines which definition is in force from the source alone, and says which
ranges are returned and that they come in source order. `ScopesKnowTheirOwn` is
about the list while the pass runs.

### QueryFileCache

One call is `Call` (name to path), `CheckRequest` (policy on the path),
`Resolve` (`realpath`), `LockToFind` (policy on the result, then the mutex),
`Hit` or `Miss`, `Read` without the mutex, `LockToStore`, `Publish` (`emplace`:
the first text stays). `Fail` is every error return. `Redirect` and `Rewrite`
let links, the query root and files change at any moment. A text remembers the
file it was written to, so returning the right bytes from the wrong file shows.
Aliases and unknown names are given by the constant `Canonical`.

### LanguageRegistry and LookaheadIteration

The table is filled name by name by whoever finds the flag unset; the flag is
set last, and neither is protected. `module_init()` makes the first call, and
the runtime lets scripts call the classes when it has returned. `TableNotShared`
depends on that order and on nothing else: registering the classes first (one of
the "Faulty:" definitions) breaks it.

The iterator finds its language before it takes the mutex, then exchanges
language, state and symbols of the native iterator one after another. A parse
state given by a script is an `int` that is cut to the width of a `TSStateId`
(`% Width`), and the native iterator refuses what its language does not have.

## 3. What is checked

Passing runs:

| Run | Question | Bounds |
|---|---|---|
| `ownership_of_trees` | Are counts exact, borrowed trees alive, nothing leaked, `TreeLifetime` implemented? | 2 trees, 2 owners, 2 nodes, 2 cursors, 2 threads: enough for a cursor to move between trees while another thread deletes both, and for two owners of one tree |
| `ownership_of_queries` | Does a query cursor never outlive its query, nor its tree? | 2 trees, 2 owners, 2 nodes, 1 query, 2 query cursors, 2 threads: the last reference on the query can go through either cursor |
| `query_file_cache` | One text per file, the right file, the caller's policy; do hits wait for reads of other callers? | 2 requests, 2 files, 2 versions, an alias, an unknown name, 2 programs, one of which may not read the second file; neither may make the second request |
| `cursor_iteration` | Is each result returned once, captures in source order, under the limits asked for, evaluated in its source, and cancellation seen? Does every call return? | streams of 4 and 3 captures of 3 matches, of which one passes: two that overlap, and two in a row that fail; a byte range and a start depth with one capture in common, the point range cleared and not set (it is handled as the byte range is); 2 threads; a look for a cancellation every 2 results instead of 100 |
| `query_execution` | Are results complete, and are the last settings the ones applied? | streams of 5 and 1 captures, 2 requested ranges, [0, 3) and [4, 6), whose mixtures have no end or are refused, start depths 1 and 2 of 3, one pattern that is disabled, 2 threads |
| `predicates` | Is the verdict the conjunction, are the directives the ones written, is each pattern compiled once? Does every evaluation end? | every predicate with every list of up to 2 of 6 arguments, longer lists for `any-of?`, 48 pairs of predicates, directives around a predicate, 3 matches (a missing capture, a doubled capture), with and without metadata, two nodes of one range, 2 threads |
| `local_scopes` | Is the result lexical scoping? | every source of 3 identifiers of 2 names, each captured in any way, with up to 3 nested or disjoint scopes |
| `parser_session` | Do ranges hold for a parse, is an incremental parse as good as a new one, do nodes read their text? Does every call return? | 2 parsers, one may be the copy of the other; 3 lists of ranges, one refused; texts of up to 2 bytes, a byte put in front; 2 trees; 2 threads |
| `lookahead_iteration` | Is the table alone while it is filled, do lookups agree, does a state fit its language, is each symbol handed out once? | 2 languages with 3 and 2 states, an alias, an unknown name; states -1, 1, 2 and 5 of a width of 4, so that -1 names no state and 5 is taken for 1; 2 threads |

Mutual exclusion and lifetimes are questions between pairs of actors, so two
threads and two of what they compete for show the interesting orders; what is
proved holds for any number anyway. Loops are cut at the first few results: one
iteration only looks at the result in hand and the number of results before it,
modulo the interval. `LocalScopes` stops when the call has returned, so its run
does not check deadlock.

Runs that show a disagreement between the code and what is written about it:

| Run | What is written | What happens |
|---|---|---|
| `query_settings_torn` | `README.md:43`: all classes are thread-safe | `setByteRange()` and a concurrent run: the run uses the start of one range with another's end, or with none (TLC's shortest trace: the start of the first request is in place, its end is not) |
| `query_loops_uncancellable` | `test/audits/node-lifetime.rst:111`: query and capture loops check cancellation every 100 iterations | the loops of `TreeSitterQuery::execute()` and `captures()` never do (those of the query cursor do) |
| `is_not_without_capture` | `QC_TreeSitterQuery.qpp:304`: for `#is-not?` the captured node is looked up in the metadata | `(#is-not? local)`, without a capture argument, looks nothing up and every match passes |

Read while modelling, without a run of its own because no behaviour over several
steps is involved:

- `QC_TreeSitterParser.qpp:151` says that a parse that takes longer than the
  timeout stops; `TreeSitterParser.cpp:122` stores the value, says so in a
  comment, and nothing but `getTimeout()` reads it.
- `QC_TreeSitterLookaheadIterator.qpp:59` says that an invalid state throws; the
  state is cut to 16 bits first, so 65537 is accepted as state 1. The model
  has the cut.
- The example at `QC_TreeSitterParser.qpp:129` reports an edit of three bytes at
  offset 0 although the change it is about lies further on; by
  `IncrementalIsFresh` only edits that are reported as they were make an
  incremental parse reliable.
- `#set!` without a value gives the value `True`, where `test/treesitter.qtest`
  speaks of string values only. The model follows the code.

### Fairness

Stated by the four specifications whose runs check a liveness property:
`QueryFileCache`, `QueryCursorIteration`, `QueryPredicates` and
`IncrementalParsing`. Weak fairness of a thread's steps inside a call: the
operating system keeps running a thread, and no call waits for the script.
Strong fairness of taking a mutex: a `std::mutex` promises no order, but one that
is released again and again is taken to be given to each waiter in the end. A
parse is taken to end some time (tree-sitter's parser does not loop). `Read`,
and a failure while reading, have no fairness: a read of the query file may
never come back, which is what `HitsNeverWaitForReads` is about. Starting calls,
cancelling threads, changing settings and changes of the file system have no
fairness either. `TreeOwnership`, `QueryExecution`, `LocalScopes` and
`LookaheadIteration` state none, since only safety is claimed of them.

## 4. What is proved

Each theorem holds for all values of the constants that satisfy the named
assumptions of the modules; the assumptions say that values of different kinds
differ and that the constants have the shape the comments give, and TLC
evaluates them on every run.

`TreeOwnershipProofs` (`DistinctKinds`, `NullIsNothing`, `FiniteKinds`):

- `TypeCorrect`, `CountsAreExact`, `BorrowsAreLive`, `OwnersMatch`,
  `QueriesOutlive`, `LocksAreAlive`, `NothingLeaks`: the invariants the runs check;
- `Refinement`: the specification implements `TreeLifetime`.

The inductive invariant `Inv` adds to the properties what each step relies on.
`CountsExact` alone is not inductive: whether a decrement frees the right thing
depends on what a frame holds at each step (`FramesTyped`), on who is inside
which mutex (`LocksHeld`), on lists being private until returned (`ListsOwned`),
on which members an allocated cell has (`MembersHeld`), and on the native tree of
a borrower being the one retained by its owner or, while it is being moved, by the
argument of the call (`BorrowRetained`). The counting argument is in a few lemmas:
setting one pointer of a finite function changes how often a cell is pointed to by
exactly one (`PointerSet`); a pointed-to cell is allocated (`Held`); a cell with
count one has no other pointer (`LastOne`). Then there is one lemma per action.
The step of the refinement needs that a tree with count one has no borrower
(`Reclaiming`).

`QueryFileCacheProofs` (`CanonicalNames`, `Policies`, `NullIsNothing`):
`TypeCorrect`, `CacheIsByFile`, and the action properties `AnswersAgree` and
`PolicyHolds`. The invariant says that what a call has read was written to the
file it will publish it for (`OwnTexts`) and which of its two questions the
policy has answered at each step (`PolicyAsked`); neither depends on what links
point to now, which is why the answers cannot be redirected.

`IncrementalParsingProofs` (`RangeLists`, `NullIsNothing`, `Texts`,
`NullIsNoTree`): `TypesOK`, `RangesHold`, `IncrementalFresh`, `NodesRead`. The
invariant says that no two objects share a native parser or a native tree
(`SessionInv`, `OwnTrees`), that a parse keeps its old tree (`OldTreesKept`), and that
a parse under way either knows that its text is the document of the old tree or
claims nothing (`KnownTexts`). Two lemmas carry the argument: an edit of leaves and
the same edit of a document agree byte by byte, and what an incremental parse
takes over from leaves that agree with a text is that text.

`QueryCursorIterationProofs` (`Streams`, `PositiveInterval`, `LimitsOfNodes`,
`NullIsNothing`): `TypesOK`, `ResultsOnce`, `OwnSource`, `Cancellable`. Scripts
may set any limits of the three kinds, in any combination. The invariant says who
is inside the mutex (`Locks`), that owner and native cursor differ only between the two stores of `exec()` (`Owners`), how long a
cancellation can wait, counted modulo the interval (`Waiting`), and that every
capture is in exactly one place: left, in the hands of one call, given, lost, or
passed over by limits that were in force (`Results`). For the order in which
captures are returned it says that those given lie before the one in hand and
that one before those left (`SourceOrder`).

`QueryExecutionProofs` (`Streams`, `Numbers`, `DepthsOfMatches`,
`NullIsNothing`): `TypesOK`, `DepthAsked`, `ResultsComplete` and the action
property `SettingsTakenOver`. The argument for the last: starting a setter of the
range takes the claim about the range away from every run that is taking settings
over (`AtRest`), so for those that keep it what was copied so far is what is still
set (`TakenOver`). That the range of a disturbed run is *not* one that was asked
for is what `query_settings_torn` shows; for the depth it cannot happen, and the
theorem claims it of every run, because a number that was never set means no limit,
with the flag or without (`Asked`). For `ResultsComplete` the
invariant (`Complete`) says, at each step of a loop and for every set of patterns
that the library may have left out, that what such a run should return is in the
results, in hand or still to come, and nothing else is (`Progress`), and that the
three lie one after the other in the stream (`Sorted`), so the list is in source
order without being sorted.

`QueryPredicatesProofs` (`Texts`, `Regexes`, `Inputs`, `RegexArguments`):
`TypeCorrect`, `VerdictsAreConjunctions`, `DirectivesComplete`,
`RegexCompiledOnce`, for patterns with any number of predicates and arguments.
`Inputs` gives the shape of what is evaluated, `RegexArguments` names the
strings used as regular expressions.

- The flat array holds one predicate after the other (`Layout`): each has a
  place, and from there the arguments it was written with up to a separator
  (`AtPlace`). One lemma for each kind of predicate then says that what its action
  decides by position is what `Means` says of it as written (`EqMeans`,
  `AnyOfMeans`, `IsMeans`, `MatchMeans`, `IgnoreMeans`).
- So a walk stands at the place of a predicate, or inside a `#match?` at one,
  and every predicate before it holds of the match (`WalkInv`). A walk that
  reached the end has seen them all; one that failed has found one that does
  not hold.
- The directives are put together from the end of the array, so a later one wins
  (`CollectsAll`). This is an induction over the places of the array, done on the
  least place where the claim would fail.
- What a call has not found in the cache stays missing until it compiles it,
  because the mutex covers both (`Missing`, `Locks`), and the number of
  compilations is one for what is in the cache and zero for the rest
  (`Counted`).

`LocalScopesProofs` (`Bounds`): `TypeCorrect`, `OwnDefinitions`,
`LocalsAreLexical`, for sources of any size and scopes of any depth. Captures at
one place differ in rank, so `Before` orders them totally, and how many come before a
capture is its place in the list (`Sorted`). Scopes nest, so the last one in the
list around a place is the smallest, which is what `Around` relies on
(`AroundFinds`). The invariant says of each place of the pass which scopes the
list has, in which order, and which definitions each of them was given
(`ListOf`), and which references wait or were answered (`Waiting`).
`LexicalScoping` alone says nothing before the call returns, and
`ScopesKnowTheirOwn` nothing of scopes missing from the list. At the end, a
scope of the list around a reference knows its name exactly if a definition is in
force there (`LocalMeans`).

`LookaheadIterationProofs` (`Known`, `NoLanguage`, `States`,
`NullIsNoIterator`): `TypesOK`, `TableFilledAlone`, `LookupsRight`, `StateFits`,
`SymbolsOnce`. The invariant says how far the one filling call is, by the state
of the module (`Registered`), which call holds what (`Calls`), and what the native
iterator is between and inside calls (`Positioned`).

Only model-checked: the liveness properties (`IterationsEnd`, `CallsReturn`,
`EvaluationsEnd`, `HitsNeverWaitForReads`), since fairness and `ENABLED` are beyond the prover.
Every safety invariant and action property that a passing run checks is proved.
What the library hands out is assumed in both cases (section 5).

What each claim leaves open: `ownership_of_trees` has no query cursors, whose
counts, borrows and `exec()` are checked by `ownership_of_queries` and
`cursor_iteration` and proved together with all other wrappers in
`TreeOwnershipProofs`. `IncrementalIsFresh` claims nothing of a parse from a tree
that is edited meanwhile, `NodesReadTheirText` nothing of trees edited since they
were made; the code orders neither. `LookupsAgree` would not notice the table being
filled twice, which is harmless alone; that nothing reads it meanwhile is
`TableNotShared`.

## 5. What is not modelled

- `getChangedRanges()` compares two native trees inside the library. The goto
  functions of a traversal cursor move inside one native tree. The match limit of
  a query cursor, `disableCapture()` and mixing both ways of iteration: what they do to
  results is only defined by the library. `setTimeout()` and `getTimeout()`: a
  member nothing else reads.
- Accessors without state, conversion to hashes and strings, names of
  exceptions, registration of classes, build and packaging.
- The generated grammar `grammars/sql/src/parser.c`. It is nearly all of the
  implementation by lines (306,945 of about 309,800) and has no logic of this
  module: tables for the native parser. Shares of modelled lines are to be read
  against the hand-written `src/src/`, about 4,800 lines with the headers and class
  definitions, where most of what keeps state is modelled and what is left are the
  accessors above.
- Native tree-sitter beyond what the code relies on: results in source order, a
  range limits results to what intersects it, ranges out of order are refused,
  predicates begin with a name, an edited tree marks what was put in, a lookahead
  iterator that has no more symbols still has a current one. A parse of text the
  parser refuses returns no tree. Ranges given to a query cursor directly are taken
  to be well formed.
- A file is read in one step, at the moment it is opened: a file rewritten in the
  middle of a read is not modelled, nor one that is swapped for another at its own
  canonical path after `realpath()` and before it is opened (links on the way to it
  are). Two calls of a script on a shared object (`next()`, then
  `getCurrentSymbol()`) are not one step in the code nor here, and no property claims
  anything of the pair.

## 6. Plan

Done: every component that keeps state at run time, but for the operations
named in section 5, with proofs of all safety properties.

Left, in this order:

1. A composition of `execute()` with the evaluation of predicates and with
   metadata from `resolveLocals()`, in which the metadata belongs to another tree
   than the run: what such a run can return.
2. An abstract specification of a shared stream of results with atomic calls, which
   `QueryCursorIteration` implements: what remains is a history variable for
   what a call under way has passed over.
3. A read of a query file in several chunks, as soon as a torn text can be told
   from a written one by something the code relies on.
