# The antlr4ts runtime in TLA+

A verification of the ANTLR 4 runtime for TypeScript (`src/src`, called "the
runtime" below): TLA+ modules for its parts, the TLC runs that check them on small
instances, and TLAPS proofs of what holds for every instance.

`PROJECT.json` maps every definition to the lines it models; this file says
what the parts are, which module models which, what the checks and the proofs show,
and what is left.

## 1. The system

The runtime turns characters into tokens and tokens into a parse tree, driven by
the augmented transition network (ATN) of a grammar. It is single-threaded and does
no I/O of its own: what is hard is state that several parts share and that is
changed step by step. The cursor of a token stream that fetches lazily, while its
source may throw; the three stacks a parser keeps for left-recursive rules, while
exceptions unwind; predictions computed on a network, cached, and used under other
circumstances than those they were computed in.

| part | state | operations | works with |
|---|---|---|---|
| token streams: `BufferedTokenStream`, `CommonTokenStream` | the tokens fetched, the cursor, whether EOF was fetched | `consume`, `seek`, `LA`/`LT`, `getText`, `getRange`, hidden tokens, `fill`, `tokenSource =` | pulls from a `TokenSource` (the lexer), serves the parser |
| ATN: `atn/ATN`, `ATNDeserializer` | states, transitions, their optimized ones, rules, decisions; the shared caches | `deserialize`, `nextTokens`, `getExpectedTokens` | read by all of the parts below |
| lookahead: `atn/LL1Analyzer` | none | `LOOK` | the error strategy, through `ATN.nextTokens` |
| prediction: `atn/ParserATNSimulator`, with `ATNConfigSet`, `PredictionContext`, `SemanticContext` | the DFA of every decision, the LL1 table | `adaptivePredict` | reads ahead in the token stream, the parser's contexts and precedence |
| parser: `Parser`, `ParserInterpreter` | ATN state, current context, precedence stack, parent-context stack, tree | `parse`, `reset`, `match`, `consume`, `enterRule`, `enterRecursionRule`, `pushNewRecursionContext`, `unrollRecursionContexts`, ... | token stream, prediction, error strategy |
| error strategy: `DefaultErrorStrategy`, `BailErrorStrategy` | recovery mode, last error's index and states, a context kept by `sync` | `sync`, `recoverInline`, `recover`, `reportError`, `reportMatch` | called by the parser, consumes through it |
| lexer: `Lexer`, `LexerATNSimulator` | modes, token under way, position, DFA | `nextToken`, `match`, `skip`, `more`, `pushMode`, ... | character stream; is a token source |
| DFA: `dfa/DFA`, `DFAState` | states, edges, start states by precedence | `addState`, `setTarget`, ... | both simulators |
| data structures: `misc/IntervalSet`, `BitSet`, `IntegerList`, `Array2DHashSet` | arrays | set, list and map operations | everywhere |
| text: `CodePointBuffer`, `ListTokenSource` | an array of code points; a list and a place in it | `append`; `nextToken` | character streams; a token source |
| rewriter: `TokenStreamRewriter` | programs of edits | `insertBefore`, `replace`, `delete`, `getText` | token stream |
| trees: walkers, visitors, patterns, XPath | none that lasts | walks, matches | finished trees |

What makes them correct:

- *Token streams.* The list is a prefix of what the source delivers; the cursor
  of a `CommonTokenStream` stands on a visible token; a client sees the stream that
  `IntStream.ts` and `TokenStream.ts` describe, whatever was fetched when.
- *Prediction.* The alternative predicted is the least one with which the rest of
  the input can be parsed; caching does not change it.
- *Parser.* Sentences of the grammar are accepted, and nothing else; the tree groups
  operators as the grammar says. Whatever the input, the contexts are those of the
  calls under way, every token is in the tree once, the parse ends, and errors are
  reported once.
- *Lexer.* The longest match, the first rule among equals; every character belongs to
  a token, was skipped, or was reported.
- *Data structures and rewriter.* They behave as sets, lists, maps and texts.

## 2. Modules

### Token streams

`TokenStream.tla` is the abstract stream: what `IntStream.ts` and `TokenStream.ts`
promise about `consume`, `seek`, `LA` and `LT`, over the visible tokens of the input
and without any buffer. `BufferedTokenStream.tla` is the code: `tokens`, `p` and
`fetchedEOF` as in `BufferedTokenStream.ts`; the constant `Filtering` says whether the
stream is a `CommonTokenStream`. Each action is a public operation, with everything
it fetches on the way. The token source may throw at any token (at most `MaxFaults`
times): an operation then ends where the exception leaves it. A `Sync` of the code is
part of each action that calls it.

`ImplementsTokenStream` is the refinement: the detailed stream, seen through the
visible tokens, takes the steps of the abstract one. It holds of a `CommonTokenStream`; a
plain stream promises less (`tryLB` does not fetch after a seek forward), so its run does
not check it. `HiddenRunsAreWhole` says that the hidden tokens next to a token are the whole
run up to the next one of the stream's channel, for each channel a client may ask for. The
sources are those a lexer is: the last token and only it is EOF, and it is on the default
channel.

### Parsing

`ATN.tla` describes a grammar's network and derives from it what the deserializer
does: the edges from a rule's stop state back to its callers, the tail calls, the
decisions of left-recursive loops. `LL1Analyzer.tla` is `LOOK`.
`ParserATNSimulator.tla` is `adaptivePredict` when nothing is cached, over configurations
and sets of them as `Configurations.tla` defines them.
`ParserInterpreter.tla` is the parser: it takes the two as parameters
(`NextTokensInContext`, `Predict`, and the sets `nextTokenWithinRule` that come with a
network), so that what is said of the parser can be proved without them.
`MCParserInterpreter.tla` puts them together on the small grammars of `SmallGrammars.tla`.
Of a network the module assumes what the deserializer verifies (`GrammarsAssumption`,
`IsATN`): every state belongs to a rule, transitions stay in it but for calls, a call is the
only transition of its state, and only stop states have none.

How the parser's module corresponds to the code:

- The variable `g` is the network of the grammar parsed with, which no step changes.
- The variable `parser` is a record with the fields of `Parser`,
  `ParserInterpreter` and `DefaultErrorStrategy`, and the tree as a sequence of contexts
  (`NewContext`); a context is known by its place. A reference in the code to a context
  is that number.
- A step is one turn of the loop of `parse()`: a visit to one state, with all it
  calls, matching and recovery in line included. A visit to a decision has two steps:
  `VisitDecisionState` (`sync` and the prediction, which sets `alt`) and the visit
  along the alternative.
- The code's exceptions are a value of the field `thrown`. A visit that ends with one
  is followed by `HandleException`, the catch clause of the loop (`reportError`,
  `recover` and the error node), and by nothing else.
- A child of a context is a rule, a terminal or an error, with the token's index; a
  token made up has the index -1, as in the code.
- The reports a listener would get are kept in `reports`: the kind, the token at
  which it was made, what was expected.
- `Bails` says whether the strategy is a `BailErrorStrategy`. A parse that it cancels ends
  at once, with the contexts and stacks as they were in the middle of the rules (`Cancel`).
- `ParseAgain` is what a client does after a parse, whichever way it ended: `reset()`, and
  the same input once more, with the strategy at hand or another one. The tree of the parse
  before stays where it is; `Fresh`, the new parser's state, is what only the first parse
  starts from, and `Reset` keeps what the code does not reset. `Courses` are the ways to go
  on: `AgainOrFallBack` is the default strategy twice, and the default one, then the bail
  strategy, then a new default one (the two stages of SLL and LL parsing, behind a parse to
  compare with).

The data that is abstracted: token texts, channels (the stream below is the one of
the first part: here `index` counts visible tokens), messages, hash codes. A predicate
has a fixed outcome per transition; a context is a set of stacks, where the code has a
graph that represents the same set; the optimised transitions of the network, which
`ATNOptimizer.tla` is about, are not used. In the simulation two
corners of the code are smoothed over: a configuration reached by two paths of one
closure is followed on both, where the code follows the first (`closureBusy`), and
the precedence filter compares with every configuration inside the loop, where the code
remembers the last context of each state. Settings are the defaults of the runtime:
LL mode, no global-context DFA, tail calls optimised but kept in local contexts.

### Prediction, cached

`PredictionDFA.tla` is what a parser's simulator remembers: for every decision the start
state, by precedence where there is one, and the edges, and the LL1 table of the ATN. A
behaviour is a sequence of predictions. `PredictByLL1Table` and `PredictByDFA` begin one;
a turn of the loops of `execDFA` and `execATN` is a step: `AcceptInDFA`, `FollowEdge`,
`LeaveDFA`, `Reach`; `RetryInFullContext` is `adaptivePredict` called again, whose
answers are not remembered with the runtime's settings. A DFA state is its set of
configurations: interning makes equal sets one state. Predicates, mode, precedence and
outer context are part of a request, so that a prediction meets what others under other
circumstances left behind. What the code computes is a parameter (`StartAt`, `TargetFrom`,
`FullStart`, `InFullContext`, `ExecATN`), for which `MCPredictionDFA.tla` gives the
simulation of `ParserATNSimulator.tla`; `Uncached`, the prediction with nothing remembered,
is made of them. Two of the assumptions are about that simulation, and the run evaluates
them for its scenarios: the precedence matters to the start sets of precedence decisions
only (`LevelsAreForPrecedence`), and what the local context refuses the full one refuses
(`RefusalsAgree`).

What configurations are made of has modules of its own, each with the objects of the code
where `Configurations.tla` has values:

| module | code | against |
|---|---|---|
| `PredictionContext` | the graph of contexts: `join` arm by arm, `appendContext`, `getChild`, `equals`, local and full | the sets of stacks that `Configurations` joins |
| `SemanticContext` | `and`, `or`, `eval`, `evalPrecedence`, with operands flattened and precedences reduced | the worlds a formula is true in |
| `ATNConfigSet` | `add` with its map of merged configurations and its list of unmerged ones, `addAll`, the read-only clone; configurations are objects in a heap and merged in place | the merge of all that was added |
| `ATNOptimizer` | `inlineSetRules`, `combineChainedEpsilons`, `optimizeSets`, a pass a step, round after round | the paths of the network as it was read |

`MCPrediction.tla` puts them next to the cache, except `ATNConfigSet`, which `MCSupport.tla` has.

### Lexing

`Lexer.tla` is what a lexer promises: `Lexer.nextToken` with its modes, `skip`, `more`,
types, channels, errors, exceptions and `reset`, over an ideal simulator. The matches at a
place of the text are a parameter (`Candidates`); the module says which of them is the
token: the longest, and of the longest the first rule's, where a rule that went through
a non-greedy loop counts with its shortest match only. `out` is everything that came out
of the text in order: tokens, and, with types of their own, what was skipped, what was in
error and what was lost to an exception.

`LexerATNSimulator.tla` is how the code finds it. The sets of configurations are a
parameter (`StartState`, `ReachableSet`), so that the module can be proved about without
them; `LexerConfigurations.tla` is how the code computes them, the closure depth first and
in the order in which the code's set keeps the configurations: that order is the priority
of rules and alternatives. The simulator adds two variables: `sim`, the fields
of the simulator and where it is in `execATN`, and `dfa`, for each mode the start state and
the edges found so far. One step is one turn of the loop of `execATN`; before it come
`MatchFromDFA` or `MatchATN` (`match`), after it one outcome of `failOrAccept` with the
rest of `nextToken`. A DFA state is the sequence of its configurations. What depends on a
predicate is marked and not kept in the DFA. The DFA outlives tokens, resets and texts.
Of the lexers `Lexer.tla` assumes (`LexersAreWellFormed`) that there is a first mode, that
rules have types of tokens, and that no character is EOF.

`ImplementsLexer` is the refinement: the simulator, seen while a match is under way as if
the stream still stood at its beginning, takes the steps of `Lexer.tla`.
`LexerWalks.tla` says what that asks of the sets: those met in reading a token find its matches.
`LexicalLanguage.tla` is the reference for `Candidates`: it tries every path through the
network, without any order, priority or cache. `MCLexer.tla` has the grammars;
`SerializedATN.tla` the shorthands both MC modules write networks with.

Characters are numbers, 1 ends a line. A predicate of the lexer holds at a set of columns
(`{getCharPositionInLine() == 0}?` and the like), a custom action records the index it
finds: these are what makes them depend on the place. Left out: texts of tokens, token
factories, the setters and overrides a subclass may use, predicates behind EOF (the code
throws), and the optimised edges. A closure that merges two equal configurations does so
in the model too; contexts are single stacks, which is all a lexer's set ever holds.

### Text, edits and containers

| module | code | against |
|---|---|---|
| `TokenStreamRewriter` | `insertBefore`, `insertAfter`, `replace`, `delete`, `rollback`, and `getText` of any interval, which reduces the program in place | the edits as they were issued |
| `CodePointBuffer` | the builder: `append`, `ensureRemaining`, the arrays of bytes, 16 and 32 bits, a surrogate kept between chunks | the code points of the whole text |
| `ListTokenSource` | `nextToken`, `line`, `charPositionInLine`, `inputStream` before, at and behind the end | where a lexer that reads the same text is |
| `BitSet` | every operation and query, on arrays of words with empty words at the end | sets of numbers |
| `IntervalSet` | every operation, on lists of intervals | `NumberSets`, refined |
| `IntegerList` | every operation of a list, on an array longer than the list | sequences |
| `HashTable` | `getOrAdd`, `put`, `putIfAbsent`, `get`, `expand`, `clear` | `KeyedElements`, a map, refined |

A container has two instances, the one an operation is called on and its argument, and
`Exchange` swaps them, so that an argument has been through anything the other has. A word
of `BitSet` has `W` bits, where the code has 16. A text of the rewriter is the tokens and the
numbers of the edits in order. Each of these classes is a set of operations that a caller may
call in any order, and stands alone; `MCSupport.tla` runs them next to the sets of
configurations and the plain token stream.

## 3. Runs

| run | what it checks | time |
|---|---|---|
| `CommonTokenStream` | every order of calls on a filtering stream, inputs of up to 3 tokens visible or hidden, one failure of the source: `TypeOK`, `BufferIsPrefix`, `CursorOnSymbol`, `HiddenRunsAreWhole`, `ImplementsTokenStream` | under a minute |
| `SupportClasses` | the sets of configurations, the stream without filtering, and the classes of the last table, in every order of calls | a minute |
| `ParserInterpreter` | eleven grammars, every sequence of tokens up to 4 to 6, parsed up to three times | a minute |
| `PredictionDFA` | two predictions one after the other, of every decision, lookahead, context, precedence, mode and outcome of predicates in six scenarios; and the graphs, the predicates and the optimizer | one to two minutes |
| `Lexer` | five lexers, every text up to 4 or 5 characters, two of them up to three short texts in turn with a reset at any token | a minute |
| `GetTextIsWhole` | finding: `getText()` before everything is fetched | violated |
| `LookBehindStopsAtStart` | finding: looking behind near the first token | violated |
| `ExpectedTokensFollow` | finding: a stale context in an error report | violated |
| `SetMatchesItsTokens` | finding: recovering at a set | violated |
| `InsertsWhatIsMissing` | finding: lookahead that forgets its caller | violated |
| `PredictionAssertions` | finding: the retry of `execATN` fails an assertion | violated |
| `LexerActionsInPlace` | finding: the cache keeps the place of an action | violated |

`MCPrediction` and `MCSupport` put parts that share no state next to each other: their
variable `under` is chosen at the start, a behaviour works with that part only, and the
variables of the others stay as they were. So the states of a run are the sum over its
parts, not their product, and an invariant of a part is stated as
`under = ... => Part!Invariant`.

*The properties of the parser.* `ContextsAreCalls` relates the three structures that
hold the calls under way; `LeavesAreInput` and `NodesSpanLeaves` relate the tree to the
input; `ReportsAdvance` says errors are not repeated; `AcceptsSentences` compares with
the language of the grammar, defined on the network by trying every choice (`Derives`);
`OperatorsBind` compares the shape of the tree with the precedences of the grammar;
`ParsesAreRepeatable` compares a parse with the first one of the same input, whatever was
left over in between; `Terminates` says each parse ends.

Two things are allowed for by name. When EOF is taken by a deletion, `matchedEOF`
is not set, so a rule whose last leaf is EOF may stop at the token before it
(`NodesSpanLeaves`). And what an error expects may differ the second time if the strategy
still tracks a context of the parse before (`tracked` in `ParsesAreRepeatable`, a finding).

*The grammars* are chosen for the ways through the code: `Loop` (synchronising at
loops), `Context` (a decision that needs the full context), `Set` (sets, wildcards, a
positive loop), `Dangling` (a true ambiguity, a conflict behind the end of a rule),
`Expression` (binary operators of two levels and a prefix), `RecursiveStart` (a parse
that starts in a left-recursive rule; right associativity), `Predicate` and
`HiddenPredicate` (a predicate the prediction sees, and one behind an action that it
does not see: the parser fails at it and has to get on), `Callers` and `Optional` (two
callers of a rule; an optional rule), `Twice` (an optional rule in a rule called twice: what
one parse tracks is met by the next).

*The properties of the prediction.* `CacheIsSound` says that every start state, edge and
entry of the LL1 table is what computing it here and now would give; `AnswersAreUncached`
that a prediction is the one made with nothing remembered, which is more: what is served
must also be asked for under the right key, precedence and outcome of predicates. It allows
for one case: where the start set of the full context accepts, `execATN` fails an assertion,
or refuses a conflict whose predicates all fail, while `execDFA`, which finds the conflict in
the cache, goes on with the full context. `CacheOnlyGrows` says nothing is taken back,
`PredictionsEnd` that each prediction returns. The scenarios: `Context` and `Dangling`
(conflicts decided by the full context, or not at all), `Expression` (start states by
precedence), `Predicated` and `Refused` (predicates that hold in one prediction and not in
the next), and `TwoWays`, where the full context accepts at once: it reaches the exception, and
is that of the finding.

*The structures of the prediction.* `GraphsAreStackSets`: joined in whatever order, a graph
has the stacks it ought to have, and a set of stacks has one graph only, so that `equals`
is right. `FormulasKeepTheirMeaning`: whatever is reduced and flattened, a formula holds in
the same worlds. `SetsAreMerged` and `StatesNeverChange`: what is merged in place is
complete, and does not reach into DFA states that hold the same objects (with three
states an object can be taken over twice). `PathsAreKept`:
optimized transitions match what the states' own do, except for the case of the finding.

*The properties of the support classes.* `EditsAreCarriedOut` compares the text with the
edits as they were issued, and a program that was reduced by texts with one that was not;
`CodePointsAreDecoded` compares with decoding the whole text at once, `EndIsPlaced` with a
lexer's line and column; `OperationsAreOnSets`, `ListsAreSequences`, and the refinements
`ListsAreSets` and `ElementsAreInterned` compare the containers with what they stand for,
`QueriesAnswerContent` and `ListsAreCanonical` with representations that should not matter.
Where the code does something else than the mathematical operation or than its documentation
says, the property says what it does and when. For bit sets and interval sets the comment
above the property lists these cases with the lines of the documentation, and each is a
finding (section 5): the ranges of `BitSet`, which have both their ends, `flip`, `andNot` and
`or` at the end of an array, the searches beyond it, the iterator, and the neighbours that
`IntervalSet.add` makes one interval of. Lists have no documentation of the two operations
that deviate (`removeRange`, `addAll`); the comment names them.

*The properties of the lexer.* `SpansTile` says that nothing of the text is lost or taken
twice, `PositionsAreTrue` that lines and columns survive reading ahead, `SameTokensAgain`
that `reset` forgets everything but the cache, `CacheIsTransparent` that the cache
answers what would be computed here and now, `ImplementsLexer` that the token is the one
promised. The lexers: `Keywords` (a keyword that is also an identifier; a rule that
fails behind the end of a line and has to come back), `Comments` (a non-greedy loop against
a longer match of another rule), `Modes` (a token of several rules, a stack of modes, a
token without characters, `popMode` on an empty stack, EOF in the middle of a token),
`Predicates` (at the beginning, in the middle and at the end of rules), `Calls` (fragments,
a tail call, actions in the middle and at the end, EOF in a rule). `KeywordsAgain` and
`ModesAgain` are two of them over several texts, `MidAction` is the one of the finding: a
custom action behind a loop.

*The bounds.* `FewTokens` gives each grammar the longest input: long enough for two
iterations of each loop, two nested operators with a third to the right, and two errors
with a match in between; every sequence of tokens up to it is parsed, right or
wrong. `MaxContexts` bounds the tree so that a parser that never ends has finitely
many states; the parses of the model stay below it, and `Terminates` fails if one
reached it. The streams' `MaxTokens = 3` gives hidden tokens before, between and behind
visible ones. `FewCharacters` gives each lexer texts in which a predicate or a cached edge
is met twice under different circumstances (the mutants of the cache need five
characters), `FewPasses` bounds how often a lexer starts on a text, `MaxEOFs = 2` asks
for EOF once more after the end. `MaxPredictions = 2` is a prediction that remembers and one
that finds it; what a third would find, the second finds if the first was another one.
`MaxLookahead = 2` reaches every conflict of the scenarios. In the structures: contexts of
two stacks of depth two have every arrangement of shared and different parents; four
objects and three DFA states let a configuration be merged in one set while others hold
it; `MaxEdits = 3` is two edits and one that meets what a text made of them; chunks of three
units, two of them, cut a pair in either place while the array is of any type and
capacity; words of two bits up to bit 4 give ranges within a word, over one border and
over two; four keys of which three share a bucket until the table expands.

*Fairness.* The parser's loop runs until it returns and nothing else runs
meanwhile, so weak fairness of `Visit`, the loop, is what the code gives: that the parser is
reset and parses again is up to its client. `KeepsRunning` writes it out: a visit is possible
as long as the parse runs below the bound, so there is always again a `<<Visit>>_vars` or a
state in which none is possible. TLC evaluates that in time, and the `ENABLED` of `WF_` not.
`RunsOn` is the same for the predictions: weak fairness of `Turn`, the loops of `execDFA` and
`execATN`, which are enabled unless nothing is asked for; no fairness says that another
prediction is. The other properties are safety properties
and their specifications have no fairness: a client need not call. A parser stops when its
courses are through, a lexer in the model when `MaxEOFs` is reached, predictions and
containers at their bounds: these runs do not look for deadlocks. Those of the token stream
alone do.

## 4. Proofs

Eight modules hold theorems. Each assumes of the constants what the module it is about
states as its named assumptions, which TLC evaluates on every run, and the hypotheses named
below, which say what a parameter computes where the code computes it by recursion over data.
The MC modules state those too, as assumptions about the instance at hand (`Simulated`,
`PredictionsAreAlternatives`, `SetsArePlain`, `MatchesAreFound`), which TLC evaluates for the
tokens, stacks, columns, offsets and texts of the run. In the lexer's rows `Spec` is
`SimulatorSpec`.

| module | theorem | says | hypothesis |
|---|---|---|---|
| `BufferedTokenStreamProofs` | `TypesAreCorrect` | `Spec => []TypeOK` | |
| | `BufferIsAlwaysPrefix` | `Spec => []BufferIsPrefix` | |
| | `CursorIsAlwaysOnSymbol` | `Spec => []CursorOnSymbol` | |
| | `HiddenRunsAreAlwaysWhole` | `Spec => []HiddenRunsAreWhole` | |
| | `CommonTokenStreamKeepsPromise` | `Spec => ImplementsTokenStream` | `Filtering` |
| `PredictionDFAProofs` | `TypeCorrect` | `Spec => []TypeOK` | |
| | `CacheSound` | `Spec => []CacheIsSound` | |
| | `CacheGrows` | `Spec => CacheOnlyGrows` | |
| | `AnswersAreAlwaysUncached` | `Spec => []AnswersAreUncached` | `Simulates` |
| `ATNConfigSetProofs` | `SetsAreAlwaysMerged` | `Spec => []SetsAreMerged` | `ReachableAreConfigurations` |
| | `StatesStayAsTheyWere` | `Spec => []StatesNeverChange` | `ReachableAreConfigurations` |
| `ParserContextsProofs` | `ReportsAlwaysAdvance` | `Spec => []ReportsAdvance` | |
| `ParserInterpreterProofs` | `ParserTypes` | `Spec => []TypeOK` | `PredictsAlternatives` |
| | `ContextsAreAlwaysCalls` | `Spec => []ContextsAreCalls` | `PredictsAlternatives` |
| `ParserTreeProofs` | `LeavesAreAlwaysInput` | `Spec => []LeavesAreInput` | `PredictsAlternatives` |
| | `NodesAlwaysSpanLeaves` | `Spec => []NodesSpanLeaves` | `PredictsAlternatives` |
| `LexerProofs` | `LexerTypes` | `Spec => []TypeOK` | `SetsAreOfTheATN` |
| | `SpansAlwaysTile` | `Spec => []SpansTile` | `SetsAreOfTheATN` |
| | `PositionsAreAlwaysTrue` | `Spec => []PositionsAreTrue` | `SetsAreOfTheATN` |
| | `CacheIsAlwaysTransparent` | `Spec => []CacheIsTransparent` | `SetsAreOfTheATN`, `UnmarkedSetsStay` |
| | `SameTokensAlwaysAgain` | `Spec => []SameTokensAgain` | `SetsAreOfTheATN`, `UnmarkedSetsStay` |
| | `SimulatorKeepsPromise` | `Spec => ImplementsLexer` | `SetsAreOfTheATN`, `UnmarkedSetsStay`, `SetsFindMatches` |

`ParserContextsProofs` also has the lemmas of `ParserInterpreterProofs`; `Counting` what several
proofs need of least elements and of how many elements of a set there are up to a number (the
first configuration that ends a rule; how many calls under way are of left-recursive rules).

**Token streams**, for every input, channel, filtering or not, number of failures and argument
of the calls. The invariant is `Good`: the types, the list as a prefix of the input with EOF
last and flagged, and the cursor on a symbol. The cursor's part is not inductive alone: that the
loops that look for the next visible token end on one needs the list to be a prefix that ends
with EOF, and the list's part needs to know that an operation fetches only at its end. There is
a lemma per helper (what `Sync`, `Fetch`, `NextTokenOnChannel`, `MoveTo` return and preserve),
then one step per action. `HiddenRunsAreAlwaysWhole` follows from the same invariant: the run
next to a token is read off the list, up to a token that is in the list or to its end,
and then the end is EOF.

The refinement maps a state to where a client sees the cursor (`Position`: `p`, and before the
first call the first visible token). What has to be shown is that `consume`, `seek`, `LA` and
`LT`, which walk over the list and fetch where it ends, move along the visible tokens of
the whole input: the lemmas relate the n-th visible token before and behind a place to what
the loops come to, then each method is a step of `TokenStream` or stutters, throwing
included. Without `Filtering` the theorem would be false: `tryLB` of the plain stream does not
fetch after a seek forward.

**Cached prediction**, for every ATN, every set of requests and number of predictions. The first
three theorems hold whatever a simulation computes. The soundness of the edges is
inductive by itself, that of the LL1 table is not: an entry is made when a loop has read one
token, and says something of the start state. The invariant adds what a loop's DFA state is
after no token and after one (`run.s` is the start state of the request's level, or its
successor), which holds because the edges and start states it followed are sound. From that an
entry equals what the start state and the one token decide, for every precedence-free decision
with this key; that two decisions have different keys needs `DecisionsAreNumbered`: numbers
tell decisions apart and fit in 16 bits. The code does not check the second (`decision << 16`):
with 65536 decisions and more the table would mix them up. `RequestsAreWellFormed` says that a
lookahead ends with EOF and has it nowhere else, which is what a token stream serves.
`CacheOnlyGrows` follows from soundness: where `Reach` sets an edge that is there, it sets it to
the same.

`AnswersAreAlwaysUncached` compares a prediction that goes through whatever others left in the
cache with one that starts with nothing. The invariant (`UInv`) adds that what is left to do
comes to the answer wanted (`OnCourse`): in each of the loops, on an edge, off the DFA, and in
the retry in full context. The hypothesis `Simulates` is what `ExecATN`, which is
recursive, is: from any set and token that the request leads to, its next turn is a turn of
the code's loop (`TurnOfExec`), over finitely many alternatives, which are numbers. What a
request leads to (`LeadsTo`) is what belongs to every family closed under the turns.
`LevelsAreForPrecedence` and `RefusalsAgree` are the assumptions about the simulation that TLC
evaluates for the run's scenarios; finiteness is needed for a conflict the full context refuses.

**Configuration sets**, for every configuration the closure may reach, in every order and number,
and every set of stop states. A set works on objects: `add` changes the object it merges into,
and the objects of a DFA state are taken over by the set after it. The invariant is `MInv`: the
set being filled is the merge of what was added (`IsMergeOf`: no two of its objects can be
merged, each is what its group of the added comes to, no group is missing, its flags are
theirs), and every list of a DFA state holds what it held, no two of its objects can be merged,
and while the closure adds none of them is in the set (`Cloned`). That a merge of merges is a
merge of all is `MergedIsMerge`, which rests on `JoinAgain`: in a local context, where a stack
stands for every longer one, contexts may be joined in any order. `SetsAreMerged` alone does not
show that a DFA state stays: skipped configurations are added while the set already holds some of
the same state's objects. That none of them is merged into is shown along the list that is
added (`AllAdded`): an object met earlier on it cannot be merged with a later one, and the others
are the closure's own. For EOF the set is built again of its own objects, none of which changes,
and is then the merge of those at stop states (`RebuiltOfStopped`).
`ReachableAreConfigurations` says that what the closure makes has these fields and a context
that is joined already; TLC evaluates it for the run.

**Parser.** `ReportsAlwaysAdvance` holds for every grammar, input, error strategy, lookahead and
prediction, with no hypothesis. The invariant is `Mended`: the reports are in the order of
the cursor, and every one is behind the cursor unless the parser is in error recovery mode, in
which nothing is reported. Each operation either keeps that mode or consumes before it leaves it.

`ParserTypes` and `ContextsAreAlwaysCalls` have the invariant `Sound`: the fields are well
typed, the contexts from the current one to the root and the two stacks of the left-recursive
rules are those of one chain of calls, and the current state is of the last call's rule.
Neither theorem is inductive without the other: where a return goes to is read from a context,
and in a left-recursive rule from a stack; what is read is a state, and one of the caller's
rule, only as the contexts are calls. `ParserContextsProofs` has what a call, a return and a
regrouping do to the chain, and that matching, reporting and recovery leave it.
`PredictsAlternatives` says that a prediction is no viable alternative or an alternative of its
decision. It leaves out the grammars in which the assertion of `PredictionAssertions` fails.

`LeavesAreAlwaysInput` and `NodesAlwaysSpanLeaves` have the invariant `TreeSound`: `Sound`, and
the tree laid along the tokens taken. These are counted from 0, EOF each time it is taken.
Every node that is complete has a span of them (`G`), over which its children follow one
another, and starts and stops where its span does; every context under way has the number it
began at, and its children so far lead to where the next one began, or to the number of tokens
taken (`Laid`). Matching moves the current context on by one token, a conjured token by none; a
call begins a context where its caller is; a return, and the regrouping of a left-recursive
rule, close a span. The chain of calls is needed because a left-recursive rule joins its
parent only when it ends: the contexts under way are then not linked by the tree, only by
`Sound`. A stop at EOF needs that a set `matchedEOF` means that as many tokens were taken as
there are and one more. `Leaves` is a recursion over the tree: that it reads off this spelling
is shown along the order in which the nodes were completed (`rank`), by the least node that
could be a counterexample.

**Lexer.** The first three theorems hold for every grammar, text and action of a rule, and
whatever is cached. The invariant is `IInv`: between two matches the stream is behind the last
piece of an output that tiles the text, or within a token that goes on (`Rests`); while a match
is under way the place to come back to has its true line and column and is between the beginning
of the match and the stream (`Follows`); what is cached are sets of the ATN (`Remembers`).
`SpansTile` and `PositionsAreTrue` need the second: the simulator reads ahead, fails, and sets
the stream to a place it recorded some turns earlier. `SetsAreOfTheATN` says that the sets that
arise (belong to every family with the start sets that is closed under symbols) are sets of the
ATN's configurations.

`CacheIsAlwaysTransparent` has the invariant `CInv`: every start state in the cache is what would
be computed at any column, every edge what would be computed at any column and at any offset in
a token that its origin arises at (`Anywhere`), and the set a match is at arises at its offset
(`InPlace`). Neither of the last two is inductive alone: a cached edge leads to the set of the
offset only because it is the right one. The hypothesis `UnmarkedSetsStay` is what the code
takes for granted when it keeps a set: one that is not marked as depending on a predicate
is the same at every column and at every offset its origin arises at. All lexers of the `Lexer`
run have it. A custom action records its offset in a configuration; if it stands in front of
other characters of its rule and behind strings of several lengths, it does not: this is the
finding of `LexerActionsInPlace`, whose lexer `SetsArePlain` leaves out by name.

`SameTokensAlwaysAgain` compares passes over a text between which there may be others, resets
at any token, and exceptions. A pass is followed turn by turn with nothing cached
(`Comes`: what the first call of `nextToken` comes to); the invariant `AInv` says that the
lexer is before its first call, in a state that begins a token like one just opened
(`Starting`: `reset` forgets the mode, the stack, the flag for the end), or that the course from
there comes to it, and that every earlier pass was such a course. A course has one way to go
on, so of two outputs of a text one is the beginning of the other. That a cached turn is a turn
of the course is `CacheIsTransparent`'s invariant `CInv`.

`SimulatorKeepsPromise` is the refinement: what the simulator's turns come to is the longest
match and of the longest the first rule's, with its actions run in place. `LexerWalks.tla` has
the sets met in reading a token as a walk from the start state on, and the hypothesis
`SetsFindMatches`: a set has an end of a rule where, and only where, a match that counts ends,
its first end is of the first rule matching there, and where nothing matches the walk ends
where the rules cannot go on. That is what the closures, recursive over the ATN, have to give;
`MatchesAreFound` has TLC evaluate it for every text, place and mode of the run. The
hypothesis leaves open one case, as the code does: where a rule matches up to the end of the
text and a later rule takes EOF as well, the set behind EOF is the later one, and its rule wins. The
invariant `RInv` says that the simulator is on the walk, and that every set of it that ends a
rule is ahead, or not behind the place to come back to (`Walks`). So at the end of a match that
place is the best match's. The executor runs the actions in one pass and seeks to the place
of each and back; `ExecuteInPlace` says that this is what running each at its place does.

**Only model-checked.** What a recursive definition computes is within reach only where an
order can be named along which to take a least counterexample (`Leaves`, the ranks of nodes); an
induction theorem with an operator as its parameter cannot be used. The closures of the
predictions and of the lexer, the joins of graphs and the language of a grammar are recursions
over several kinds of data at once, and so these stay with TLC: `AcceptsSentences`,
`OperatorsBind` and `ParsesAreRepeatable` (the language of a grammar, whole parses),
`GraphsAreStackSets`, `FormulasKeepTheirMeaning` and `PathsAreKept` (the graphs, the predicates
and the optimizer), `ListsAreSets`, `ElementsAreInterned` and the
other properties of the containers and the rewriter; and the hypotheses above, for the instances
the MC modules give. Liveness (`Terminates`, `PredictionsEnd`) stays with TLC as well.

## 5. What the models show of the code

Twenty findings are in `PROJECT.json`, each with the run that shows it and what is quoted.
Seven are violated properties of their own (the last seven runs of section 3). Thirteen are in
passing runs, whose property holds because it names the case:

| finding | property |
|---|---|
| `DefaultErrorStrategy.reset` leaves a tracked context to the next parse | `ParsesAreRepeatable` |
| the optimizer takes an empty rule for the token behind its call | `PathsAreKept` |
| `TokenStreamRewriter.getText` changes what later edits come to | `EditsAreCarriedOut` |
| `CodePointBuffer` writes a surrogate at the end of a chunk twice | `CodePointsAreDecoded` |
| `BitSet.andNot` clears bits beyond its argument's words | `OperationsAreOnSets` |
| `BitSet.or` loses the last word with bits when empty words follow | `OperationsAreOnSets` |
| the ranges of `BitSet` include `toIndex`, documented as exclusive | `OperationsAreOnSets` |
| `BitSet.flip` does not reach beyond the array | `OperationsAreOnSets` |
| `BitSet.previousSetBit` and `previousClearBit` go wrong from beyond the array | `QueriesAnswerContent` |
| `BitSet.nextClearBit` does not look beyond the array | `QueriesAnswerContent` |
| the iterator of a `BitSet` never ends if a word has its highest bit | `QueriesAnswerContent` |
| `IntervalSet.add` merges neighbours, documented as kept apart | `ListsAreCanonical` |
| `ListTokenSource` counts UTF-16 units in the column of a made-up EOF | `EndIsPlaced` |

Smaller things the models keep to:

- `IntegerList.removeRange` keeps the numbers it should remove; `addAll` of a list
  whose array has cells to spare throws.
- Not modelled, as the refusal of negative numbers is not: `BitSet.previousSetBit(-1)` and
  `previousClearBit(-1)` throw, where their comments (`BitSet.ts:482`, `521`) have -1 returned.
- Overlapping deletes of a rewriter throw like other overlapping replaces: the text of a
  delete is `""` and not undefined, so the case that combines them
  (`TokenStreamRewriter.ts:361`) is never met.
- `tryLB` of a plain stream does not fetch after a seek forward.
- `_parentContextStack` is not emptied after a parse that bailed out, which nothing notices.
- The lexer: an action that throws leaves the flag for the end of the input set; MORE at the
  end of the input ends with EOF, and the text before it is in no token; a fragment that
  went through a non-greedy loop drops the mark of it when it returns
  (`LexerATNSimulator.ts:405`), so the lexers of the runs, which are compared with what
  non-greedy loops promise, have such loops in token rules only.

## 6. Plan

Done: token streams, with their refinement proved; ATN, lookahead, prediction, parser,
recovery, the bail strategy, `reset` and later parses, with proofs of what the parser keeps and
of the tree it makes; cached prediction, proved sound and unnoticeable; lexer and its simulator,
with proofs of what becomes of the text and of the cache, that a text gives the same tokens
again, and that the simulator implements the lexer; the structures of the prediction and the
optimizer, with proofs of the sets of configurations; the containers, the rewriter, the code
point buffer, the list token source.

What would come next, in this order:

1. The refinements of the containers, `ListsAreSets` and `ElementsAreInterned`, as theorems.
2. Compositions: the parser upon a `CommonTokenStream` that fetches, and upon the cached
   prediction; the lexer as the source of a token stream.

## 7. Not modelled

- *Parts of modelled components.* The binary format of the ATN and its verification;
  predicates of a lexer behind EOF (the code throws); the full-context DFA
  (`enable_global_context_dfa`), the other prediction switches, `clearDFA`; forced decisions,
  listeners during the parse, trees switched off, tracing. `ATNConfig.contains`,
  `ATNConfigSet.clone(false)` and `LL1Analyzer.getDecisionLookahead`, which nothing calls while
  parsing. Rewriters of several programs, which share nothing.
- *Character streams.* An index into an array; the lexer takes them as its text.
- *Tree walkers, visitors, tree patterns, XPath.* Sequential walks over finished trees and
  matching of strings: no state that several steps relate.
- *Error listeners and messages, profiling, serialization to text, value objects,
  vocabularies.* They format, count and forward.
- The `*.tssoon` files are not ported yet and not part of the program.
