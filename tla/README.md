# shader-clippy: a TLA+ development

shader-clippy is a linter for HLSL and Slang shaders: a core library (`core/`) that parses a
text with tree-sitter, reflects it with Slang and builds control-flow graphs for some two
hundred rules; a command line (`cli/`) that lints files and rewrites them with `--fix`; a
language server (`lsp/`); and a VS Code extension (`vscode-extension/`). This directory
models the parts of it that keep state, model-checks them with TLC on small instances and
proves the theorems that matter most with TLAPS. Paths below are relative to `src/`.

## 1. Inventory

| Component | State it keeps | Operations | What is hard |
|---|---|---|---|
| Language server: `lsp/src/main.cpp`, `rpc/dispatcher.cpp`, `server/handlers.cpp`, `document/manager.cpp` | the registry of open documents (text, version, last diagnostics, lint times), the options of `initialize`, the shutdown and exit flags | the read loop; handlers for initialize, shutdown, codeAction, hover, didOpen, didChange, didSave, didClose, exit and two empty notifications; publish | the editor runs ahead of the server: everything it sends is about a document the server may not have reached. A batch of changes may be rejected half way. Byte and UTF-16 columns. The debounce gate. Throws while replying |
| LSP framing: `rpc/framing.cpp` | a byte stream and where the reader is in it | read_message, write_message | after a malformed or oversized message the reader may be in the middle of a body |
| Command line: `cli/src/main.cpp` | the files on disk, any_fatal, the worst severity | run_lint, run_lint_one, write_file | the file is read twice and written in place; failing reads and writes; a kill; somebody else's save |
| Rewriter: `core/src/rewriter.cpp` | accepted edits, conflicts, the copy under rewriting | apply: choose by priority, splice from the back | overlapping fixes; atomic fixes; offsets that move |
| Lint orchestrator: `core/src/lint.cpp` | none beyond a call | the AST, reflection, control-flow and IR stages | which stage is handed whose results |
| Reflection engine: `core/src/reflection/engine.cpp`, `slang_bridge.cpp` | a cache under a shared mutex; a pool of Slang sessions under another | reflect; acquire, compile, release | several callers miss together; sessions are not thread-safe; failures on every path; included files that change |
| IR engine: `core/src/ir/engine.cpp` | a cache of its own, filled from reflect() | analyze | two caches, two locks, one truth |
| Control-flow engine: `core/src/control_flow/engine.cpp` | a cache of graphs and their diagnostics | build_with_tree, take_diagnostics | concurrent builds; lookup of diagnostics by source id |
| Control-flow graph: `control_flow/cfg_builder.cpp`, `dominators.cpp`, `cfg_storage.cpp`, `rules/util/cfg_query.cpp`, `rules/util/liveness.cpp` | none beyond a call | build, dominators, the queries, the liveness of locals | unreachable blocks, loops, barriers inside structured statements; spans that two blocks share; sweeps that end too early |
| Uniformity: `control_flow/uniformity_analyzer.cpp` | none | a lattice over the graph, bounded inlining | joins, recursion |
| Suppressions: `core/src/suppress.cpp` | none | scopes of allow comments | block and line scopes, line endings, comments behind comments; what an editor's command inserts |
| Configuration: `core/src/config.cpp`, `lsp/src/config_resolver.cpp` | the file on disk | find, load, resolve | read anew for each lint |
| VS Code extension: `vscode-extension/src/*.ts` | one module-level client, status bar, binary cache directory | activate, restart, deactivate, download, suppress commands, fix-all | every `await` lets another command in; a window may be killed during a download; windows share the cache |
| Rules, rule utilities, parser, queries | none | pure functions of a tree, a reflection, a graph | none that is about state |

How they interact. The extension starts the server and talks to it over stdin and stdout;
the server and the command line both call `lint()`, the server in the handler of a
notification, the command line in its loop over files. `lint()` calls the three engines,
which live as long as the process, so everything they cache survives from one lint to the
next: this is the only shared state of the core. The command line hands the fixes of a lint
to `Rewriter::apply` and writes the result; the server hands them to the editor as code
actions, resolved to positions in the document's text.

What makes each correct, in a line: the server's registry follows the editor and what is on
display is of the text it claims to be; every request gets its answer; a fixed file is the
linted text with whole, non-overlapping, best fixes merged in; a lint is given the results
of its own text and profile; a Slang session has one user; the dominators and the liveness
the rules read off a graph are what the paths through the function say; an allow comment
silences what the documentation says it does; a window has one server, and the binary it
finds in the cache is a whole one.

`PROJECT.json` lists all of these as components, each hazard at its line, and for each
definition of a module the lines it stands for.

## 2. Modules

| Module | Models | State and actions |
|---|---|---|
| `LspServer` | the server as one process between two pipes | `docs` is `docs_`; `inbox`/`outbox` are stdin and stdout; one action per handler, `On...`, each with the whole handler (registry change, lint, publish, reply); `LeaveLoop` is the end of `run_server` |
| `LspSession` | an editor joined to it | the editor is external: it is what the server's registered handlers and advertised capabilities allow. `text`, `version`, `isOpen`, `shown` are its side of a document |
| `MCLspSession` | instances for TLC | |
| `LspSessionProofs`, `LspDisplayProofs` | theorems about `LspSession`, the second module on the first: the pipes; the registry's texts and what is displayed | |
| `Rewriter` | `Rewriter::apply` | one action per turn of each loop: `AcceptFix`, `SpliceEdit` |
| `CliFix` | `run_lint` with `--fix` over its files, joined to `Rewriter` | one action per thing that reads or writes the disk, the failures of each, `Killed`, and `OtherProgramSaves` |
| `MCCliFix`, `CliFixProofs` | instances; theorems | |
| `LintCaches` | `lint()` on several threads, the three engines, the session pool | one action per critical section or per stretch without a lock; `pc` is the place in `lint()` |
| `MCLintCaches`, `LintCachesProofs` | instances; theorems | |
| `CfgBuilder` | the walk of `cfg_builder.cpp` over one function | operators; `build_function` gives the graph |
| `Dominators` | `compute_dominators` | one action per turn of its loops: the search's stack, then the sweeps over `idom` |
| `DominatorSpec` | what `CfgInfo::dominates` promises | one action, `Answer`, over paths only |
| `CfgQueries` | `cfg_query.cpp` and the graph walks behind it | operators over a finished graph |
| `Reachability` | what a walk along edges comes to (`cfg_storage.cpp`) | an operator |
| `LivenessSweep` | the sweeps of `liveness.cpp` | one action per block of a sweep, over the tables the walk left |
| `LocalLiveness` | the walk of `liveness.cpp` | operators; `Extract` gives the tables |
| `ControlPasses` | the passes over one graph, joined: dominators, then sweeps | `pc` is the pass that runs; `PassSpec` is for any graph and tables |
| `ReachabilityProofs`, `ControlPassesProofs` | theorems about `Reachability` and `ControlPasses` | |
| `ShaderPaths` | the reference: which statement may run after which, from the tree alone | operators |
| `ControlFlow`, `MCControlFlow` | builder, walk and passes joined for one function, and what rules ask then; instances | the actions of `ControlPasses`, on the graph and the tables of the function |
| `Suppress`, `MCSuppress` | `scan` and `suppresses`, joined to the extension's suppress commands; instances | the text is the state, a command is an action |
| `SuppressProofs` | theorems about `Suppress` | |
| `Extension`, `MCExtension` | `extension.ts`, `server-binary.ts`, `download.ts`: windows, clients, servers, the cached binary; instances | one action per stretch between two awaits; `pc[w][o]` is the await at which a handler waits |
| `ExtensionProofs` | theorems about `Extension` | |

Abstractions that matter:

* **Texts.** In `LspServer` text *n* is the *n*-th text of the document, and `Scrambled` is
  any text the editor never had. An edit names the text it was made for, so an edit
  that meets another text is visibly wrong. In `Rewriter` a text is a sequence of bytes,
  because splicing is about offsets. In `LintCaches` a text is its fingerprint; two texts
  with one 64-bit fingerprint are not modelled.
* **Diagnostics** are what they were computed from (text, configuration, options) in
  `LspServer`, and lists of fixes in `CliFix`, where `Diagnoses` is any set of lists whose
  spans lie inside the linted text (`MadeFor`): they come from the parse tree of that
  text. `MadeFor` also says that a rule keeps the edits of one fix apart and that no rule
  inserts at the first byte that another one replaces; both are true of the rules there are.
* **Time** is a choice: the handler of a change reads the clock some `elapsed` ticks after
  it wrote it.
* **Throws.** A text with a multi-byte character cut in two may make `Json::dump` throw;
  whether it does is a choice. In a notification the throw is swallowed, in a request it
  ends the process.
* **Slang** compiles or fails; what it reports is identified with all it saw: the text, the
  profile and the included files at that time.
* **Threads** in `LintCaches`: today's command line and server call `lint()` from one
  thread. The engines are written for more (shared mutexes, second lookups, `try_emplace`)
  and `docs/decisions/0012` plans parallel lints in the server, so that contract is what
  is checked. One thread is the special case; the run `cfg_skip` uses it.

* **Syntax trees** (`CfgBuilder`) are what the builder sees of tree-sitter: kinds, spans and
  children. Statements the analyses tell apart are leaves (use, def, discard, barrier,
  return, test). Programs are written as shapes, `Place` gives every node its span, and no
  two nodes have the same one; the blocks the builder makes from one node do. `for` is a
  loop with its parts inside.
* **One local** stands for all in `LocalLiveness` and `LivenessSweep`: the analysis keeps sets of names and treats
  each name alone.
* **Tokens** (`Suppress`). A text is a sequence of code, braces, blanks, line ends and
  comments, one position each. A comment
  ends its line and a carriage return stands before a newline (`WellFormed`). The scanner and the
  commands read a comment differently, so it has two lists and each list a form: the *head* is
  where `parse_marker` looks, the *tail* stands behind other words, where only the commands' regular
  expression looks. `tight`, as `allow(a, b)`, is read by both; `spaced`, as `allow (a)`, by the scanner
  alone; `loose`, as `allow(,a)`, by the regular expression alone, and a rewrite makes it tight;
  `unclosed`, as `allow(a,`, by neither until a parenthesis follows. `Garbled` is an element that
  is no rule name and makes the scanner drop the list; a rewrite keeps it.
* **The language client** (`Extension`) is external, and is what the extension can see of it:
  start and stop answer later, stop refuses a client that is starting, and a server that
  dies is started again or given up. A client is named after the handler that made it. The
  cached file is three facts: it exists, it may be executed, it is whole.

Definitions named `Operation_Variant` are plausible bugs. No specification uses them; each
is there to show that a property fails when the operation is replaced by it
(`PROJECT.json`, "mutants").

## 3. Runs

Every run is `tlc -config X.cfg MCModule`.

| Run | Shows |
|---|---|
| `lsp_session` | Two documents against the server in every interleaving of the pipes. Replies come once each and in order (`OneReplyInOrder`); the registry is the set of open documents and, unless an edit was misplaced, holds the editor's text under its version (`OpenSetAgrees`, `RegistryFollows`); handlers never meet a document in a state they ignore silently (`NotesFitRegistry`); a closed document shows nothing (`ClosedMeansCleared`); what is shown after an open or a save is fresh (`SavedIsFresh`); a published version is that of its text (`VersionNamesText`); and code actions and hovers are about the diagnostics on display (`FixesFitTheDisplay`) |
| `lsp_liveness` | Every request is answered or the server has left; a save of a document that is left alone refreshes its display |
| `lsp_stale` | **violated**: a document that is edited and left alone becomes fresh |
| `cli_fix` | Which fixes are accepted (`AcceptedByPriority`, `FixesAreAtomic`, `AcceptedAreDisjoint`), what the user is told of the others (`ConflictsNameTheWinner`), what each splice touches (`EditsReplaceWhatTheRuleSaw`), and that the result is the merge of source and edits, defined without an order of splicing (`RewriteIsTheMerge`) |
| `cli_exit` | **violated**: an exit code of 0 or 1 means that no file is damaged |
| `cli_killed` | **violated**: a killed run leaves whole files |
| `caches` | Threads that miss together, fail, and compile around the edit of an included file: one user per session, the pool within its cap and never drained by a failure, sessions used for their profile only; every lint is given what the cache holds, for its own text and profile; the IR cache agrees with the reflection cache |
| `cfg_skip` | **violated**: the cfg-skip warnings a lint reports are of its own text |
| `control_flow` | The dominator iteration implements `DominatorSpec` (`DominatorsAsSpecified`, a refinement) and every pass ends (`AnalysisFinishes`). The queries and the liveness against the paths of the tree: what is in a loop (`LoopQueryIsBetween`), a discard that can still run (`DiscardIsNotMissed`), the sweeps against paths of the graph (`LivenessIsPathwise`), a read before any assignment (`ReadFirstIsLive`) |
| `cfg_barrier` | **violated**: `barrier_separates` is true of two statements that a barrier separates on every path |
| `suppress` | A marker covers at least its line or block and at most what the documentation gives it, `allow(*)` all of that (`ScopesAsDocumented`); the command for a line silences its line and no other, where the scanner reads the comment it leaves (`LineCommandTakesEffect`); and no command takes anything away that was suppressed (`CommandsOnlyAdd`) |
| `extension` | Handlers that interleave at their awaits, starts, stops and downloads that fail, servers that die, windows that are killed and opened again. Who owns a server (`OneServer`), what `findCached` takes (`CachedIsWhole`), and that the badge leaves "starting" (`BadgeSettles`) |

Bounds, and why they are enough:

* Sessions: two documents (symmetric), three texts each, batches of up to two changes of
  every kind (whole, exact, misplaced, out of range), two opens (so one document can be
  closed and opened again), one save, three requests, one change of the configuration
  file, at most four of these in one behaviour, and at most two unread messages when the
  user does the next thing. A reply or a publish can thus be unread behind or before any
  other message, and a rejected change can precede or follow any other. More documents do
  not interact: handlers touch one entry.
* `lsp_liveness` has one document, because a temporal formula rules symmetry out.
* `cli_fix`: a file of three bytes with up to three edits out of every range in it, in one, two or
  three fixes ranked by severity, rule and place; two edits decide an overlap, the third
  one makes acceptance depend on the order. A second file brings failures across files.
* `caches`: two threads, three lints, two texts, an unset and a set target over two
  profiles, three choices of stages, a pool of one (so that it is full with a session to
  release), one edit of an included file.

* `control_flow`: some 1500 functions. Every compound statement (if with and without else,
  with one or two arms, while, do, switch with plain and with braced cases) around every
  simple body, after and before every kind of statement, and around a body that itself
  holds a compound statement. Two levels give a loop in an arm, an arm in a loop, and dead
  code behind either; the graphs have up to a dozen blocks. A third level
  repeats what the walk does at the second, with another pair of blocks to hang on.
* `suppress`: texts of three lines out of twenty-five, under either line ending, and up to two
  commands after one another. Behind code a comment has a list of any form, in its head or its tail,
  with `Rule`, `OtherRule`, `*` or `Garbled` in it. A marker concerns its own line or the next one with code,
  so that three lines hold the marker, what is between, and what it concerns; nested
  blocks come on one line.
* `extension`: one window, opened twice, with two restarts beside activate and deactivate, and
  two faults (a server that dies or a window killed). Windows share the cached file only, and
  two handlers of one window download at once as two windows would; the second opening
  meets what a killed download left.

Deadlock is checked in `caches` alone, where `Rest` is the one place to stop. In the
other runs the program ends or the bounds run out.

Preconditions. Some properties leave out cases, and each case is named. Cases that
the code handles badly are in the list below. `Followed`: the tree has no barrier and no
braced switch (items 7 and 9), so the graph follows it. `BlankCr` and `BehindBlock`: a
line without code that ends in CR LF, blank or with block comments only (item 15), and a
marker with only a block comment before it on its line. `Readable`: the list of the line's
comment is where both look and in a form both read, or a rewrite makes it one (item 14). `Loose`:
some list is read by the regular expression alone. "overlap": a handler began
while another one of the window waited; the module-level client is then the last one's,
and the other's server is nobody's. "race", "torn": two downloads at once, and a write cut
short on Windows, where no mode bit tells a whole file from a half one. "refused": item 16.
"died": the server went away by itself.

Fairness (`FairSpec`, used by `lsp_liveness` and `lsp_stale`): weak fairness of the
server's step, because `run_server` blocks on stdin and on nothing else, and weak fairness
of the editor's reader, because an editor drains the pipe. Nothing is assumed of the user.
`ControlFlow` has weak fairness of `Next`: the passes are loops on one thread. `Extension` has
weak fairness of every handler's `Step`, because each await ends: `stop` gives up after two
seconds, a request after sixty, and a server that is started answers or dies. That a handler begins, that a
window closes, and that a dead server comes back is not assumed.

### Where the code and what is said of it differ

Each item is in `PROJECT.json` with the text it contradicts. Items 1, 3 to 5 and 7 have a run
that violates the text; the others were met while modelling, and the passing run named shows
the behaviour or leaves it out by a named precondition.

1. `lsp_stale` - `lsp/src/server/handlers.cpp:492`. `apply_changes` sets `last_change_time` to now, and
   the gate asked right after it measures from that same moment. Once a document was
   linted, a change is linted only if the clock moves by 150 ms within the handler; no
   timer follows. The comment above calls the gate sufficient.
2. `lsp/src/server/handlers.cpp:393`. In consequence, code actions and hovers
   resolve offsets of an old text in the new one, where the comment says the lookups resolve correctly
   (`AnswerFromView` has both texts in the reply).
3. `cfg_skip` - `core/src/control_flow/engine.cpp:158`. `take_diagnostics` goes by the source id,
   which is 1 for every lint of both drivers.
4. `cli_exit` - `cli/src/main.cpp:351`. `good()` is asked before the stream is flushed.
5. `cli_killed` - `cli/src/main.cpp:347`. The file is truncated and written in place; the design record
   says it is renamed into place.
6. `cli/src/main.cpp:566` exits 0 after notes, where two documents say 1.
7. `cfg_barrier` - `core/src/control_flow/cfg_builder.cpp:195`. A statement with a barrier anywhere below it is one block,
   the body of the function included, so no path has a barrier between two others and
   `barrier_separates` is always false, where the headers and a test say when it is true.
8. `core/src/rules/util/cfg_query.cpp:193`. `inside_loop` asks only whether the head dominates; the
   comment above it also asks for a way back (`LoopQueryIsBetween` says what is left).
9. `cfg_builder.cpp:304`. The cases of a switch are sought among its direct children. Where
   they are in braces none is walked and what follows the switch is unreachable.
10. `core/src/rules/util/liveness.cpp:591`. The span of an `if` is that of two blocks, and the reads of
    the condition are counted in the wrong one.
11. `core/src/control_flow/uniformity_analyzer.cpp:93`. Unknown joined with uniform is uniform, where the
    header promises to treat unknown as divergent. No run.
12. `core/src/suppress.cpp:389`. At the top of a file only `allow(*)` covers the
    file; a listed rule covers the next line or block, where the documentation gives it the file
    (`ScopesAsDocumented` bounds it from both sides).
13. `vscode-extension/src/extension.ts:399`. In consequence, the command that suppresses a
    rule for a file suppresses it for the next line or block.
14. `extension.ts:339`. A suppression appended to a line that ends in a comment is
    part of that comment; behind `allow (x)` too, which is a marker to the scanner and none to the
    command (`LineCommandTakesEffect` asks for the line only where `Readable` holds).
15. `suppress.cpp:263`. A line that is blank, or holds block comments only, and ends in CR LF counts
    as code, so a marker above it covers nothing (`BlankCr`).
16. `extension.ts:664`. `stop()` is awaited outside the `try`; when it fails the badge says "starting"
    until the next restart (`BadgeSettles` leaves it out).

## 4. Proofs

Theorems are of the form `Spec => []Property` (`SessionsComeBack` and `CommandsKeepSuppressions` are
action properties), but
for `DominatorsRefine`, a refinement, and `ReachIsLeast`, about an operator. They hold for every
value of the constants that satisfies the named assumptions. The assumptions say that the
sentinels differ from the values they stand beside, that bounds are naturals, the
pool's cap is positive and the sessions are finitely many, and that what the
instance supplies (argv, texts, diagnoses) has its type. TLC evaluates them in the runs.

`LspSessionProofs`

* `TypeCorrect`. The types of all the editor's and the server's variables; the one hard leaf is
  `ApplyChanges`, whose result is typed whatever happens to a batch.
* `HandlersMeetTheirDocument`, `RegistryHasOpenDocuments`, `ClosedDocumentsAreCleared`.
  None is inductive alone: what the registry is *now* follows from what the editor
  *will have said* when the pipe is read. The invariant is about the
  pipes: the last note about a document says whether it is open (`LastNoteDecides`), the first
  one fits the registry (`FirstNoteFits`), notes alternate in between (`NotesAlternate`),
  and the last publish about a closed document is the clearing one
  (`LastPublishClears`). The proof is by document and by what happens to the two pipes:
  a step reads a note, writes a note, or displays a publish.
* `RepliesComeInOrder`. Adds to `OneReplyInOrder` that the ids in use are smaller than the next
  one (`IdsAreOld`). Reading a request moves its id from one pipe to the other, and reading a
  reply takes the smallest one off the list.

`LspDisplayProofs`

* `RegistryKeepsUp`. The registry lags behind the editor by the edits in the pipe, so the invariant
  (`Follows`) reads the pipe as a chain: the last edit leaves the editor's text under its version
  (`LastEditIsCurrent`), each one is made for the text that the one before it leaves
  (`EditsChain`), the first for the registry's (`StartsRight`), and in a document in sync an edit
  that may miss has a whole text after it (`Mended`). That a batch made for a
  text lands whole on it (`ApplyExact`) is shown on its first change that would not, which is
  the well-ordering of the naturals and no induction.
* `VersionsNameTheirText`. Versions rise from the registry along the edits in the pipe to the
  editor (`Ordered`); what the editor will have seen is not ahead of the registry, and if level with
  it is of its text, unless a whole text is still on its way (`Named`).
* `SavesAreFresh`. The last note about a settled document is an open or a save, or else what will
  be seen is fresh (`Settles`). The options of the lint are fixed before the first open, since
  nothing precedes the answer to `initialize` (`HelloFirst`).

`CliFixProofs`

* `TypeCorrect`; `NoFixIsSplit`, `NoTwoFixesOverlap` and `TheBetterFixWins`, for any list of fixes:
  the invariant `Acceptance` adds that the fixes dealt with have a higher priority than
  those left, for which the priority must be a strict total order (`PriorityIsAnOrder`).
* `LosersAreTold`. Every dropped fix has one conflict, and that conflict names an accepted edit
  of a better fix. The code stops at the first accepted edit that clashes; that there is a
  first one, and only one, is the well-ordering of the naturals (`SmallestKey`, `OneOverlap`). The
  invariant adds that conflicts speak of fixes already dealt with.
* `SplicesHitTheirText`: while splices come from the back, the copy agrees with the source up to the end of each edit that is
  left, because edits are disjoint and the one that starts last is spliced first. This
  rests on `NoTwoFixesOverlap` and `MadeFor`.
* `RewriteMerges`: what `apply` returns is in `Merge`, which knows no order of splicing. The invariant
  (`Woven`) is that the copy is at any time the merge of the source with the edits spliced so far, none of which
  starts in front of one that is left. A splice then adds one edit in front of all others (`MergeOfOneMore`):
  it joins the order of the edits at its offset as the first, and the text behind its end is the same
  with it and without it (`SplicedFlatten`). `Merge` flattens sequences with a recursive function of the library,
  whose equation holds because the function exists (`FlattenExists`, see `ReachabilityProofs`).

`LintCachesProofs`

* `TypeCorrect` carries what a thread must hold where it is.
* `OneUserPerSession`, `SessionsFitTheirLint`: together with `PoolFits` (a pooled session is filed
  under the profile it was made for) they are inductive.
* `PoolStaysWithinCap`, by cardinalities of finite sets; `SessionsComeBack`, an action property,
  from the session invariants.
* `AnswersStayCanonical`, `AnswersFitTheirLint`, `IrStaysWithReflection`: the invariant `AnswerInv` adds that what
  is pending before the IR is stored is what the reflection cache holds. It is inductive
  since reflection entries never change once stored.

`ExtensionProofs`

* `TypeCorrect`.
* `CachedFileIsWhole`. What is in the cache can only be judged by where the writers are, which
  `CacheInv` adds. As long as no two downloads met, one handler at most is between fetch and
  chmod, in all windows (`OneDownload`); while it fetches or writes, no file has the
  mode bit on Unix (`NoModeYet`); it comes to chmod with a whole file (`WholeAtChmod`); and
  a file that is not whole on Windows was torn or is being written (`TornOrBusy`).
* `OneServerPerWindow`. `ServerInv` adds, for a window whose handlers did not overlap: one handler
  at most is waiting; the client it stops is the module-level one, and nothing else is
  stopping; while it searches nothing lives; and the one it starts is the module-level one.

`SuppressProofs`, for any well-formed texts (`TextsAreWellFormed`) and any names of
rules that differ (`RulesDiffer`). The inductive invariant is that the text stays well formed
(`TextStaysWellFormed`); the rest is about one text, or a text and what a command makes of it.

* `ScopesFollowTheDocs`. The scanner walks and returns a range; the documentation speaks of lines and
  blocks. Between the two stands `Silences(src, m, p)`, which says with quantifiers when the marker
  at *m* covers the token at *p*. The range is `Silences` (`ScopeIs`): `next_code_line` is a
  recursive function, which exists by the argument of `ReachIsLeast` (`WalkToCode`), and the
  last line on which its value would not be `Silences` cannot exist (`WalkFinds`); the brace that ends a
  block is where the counts are first level, and that is where the depth is first not
  positive, since it falls by one at most (`DepthFallsToZero`). What a marker should reach, its
  line or block, and the file for `allow(*)` before any code, is `Silences` too (`ReachesIs`), and
  this is where the two exceptions are needed and no others.
* `LineCommandReachesItsLine`, `CommandsKeepSuppressions`. Each command puts tokens in at one
  place, as a line at the top or at the end of a line (`Moved`; nothing is put in where only a comment
  is changed, and what it allowed it still allows: `ChangedIs`, `ReplacedIs`). Lines, depth, blank lines and the first code behind a marker are the same before and after
  for tokens that were there (`OneLineMoves`, `InsideMoves`, `FindsMoves`, `FirstCodeMoves`), so
  `Silences` is (`SilencesMoves`), and what is silenced grows by what the new marker covers
  (`CoveredMoves`). A token is known by its number among the code, for positions move.

`ReachabilityProofs`

* `ReachIsLeast`. `Reach` returns the least set that holds the start and is closed under the
  edges. `Reach` is a recursive function, so that what the prover sees is a `CHOOSE` of a
  function with the recursive equation. That there is one is shown by the least counterexample
  (`NoFirst`): a smallest number of steps for which no function on the walks that short
  satisfies the equation cannot exist. This is the form all arguments over numbers take
  here, since the library's induction rules take an operator and cannot be applied.

`ControlPassesProofs`, about `PassSpec`: the passes over *any* graph that the builder can hand
over (`GraphOK`: successors and predecessors mirror each other, the entry is block 1) and
any tables.

* `TypeCorrect`, with `DominatorsRefine` as one invariant, `PassInv`. It goes with the code, pass by
  pass.
  - The search (`DfsInv`): a block is on the stack, finished, or not seen; the stack is a path
    from the entry; a finished block's successors are finished before it or are below it on the stack; and what a path
    avoiding *a* comes to is known for all finished blocks (`PathsKnown`). When the stack is
    empty the finished blocks are the reachable ones, each is numbered once
    (`Numbers`), and each but the entry has a predecessor with a higher number (`SearchDone`).
  - The parents (`Tree`): a parent has a higher number, so that climbs end at the entry
    (`IntersectClimbs`), and a block on every path to *b* is on every path to *b*'s parent, or
    is *b*. `intersect` of two blocks lies above both and below whatever dominates both (`IntersectMeets`).
    A turn of a sweep keeps this whatever order it meets the predecessors in (`TurnKeepsTree`).
  - The end: in a sweep that changed nothing every parent is the meet of all predecessors
    (`LastSweepSettles`). Then the climb from *b* is closed in the way paths are, so it holds no more
    and no less than *b*'s dominators (`ClimbsAreDominators`).
* `DominatorsRefine`: `PassSpec` implements the safety part of `DominatorSpec`: the step that ends
  the last sweep is `Answer`, every other one a stutter. That the answer comes, the
  fairness part of `DominatorsAsSpecified`, is TLC's.
* `BoundIsNeverMet`, `LivenessOverPaths`. The sweeps only add blocks (`LiveInv`), so that a sweep with a
  change leaves one more of at most twice as many as there are blocks, and `max_iters` is more than that: what
  ends the loop is a sweep without a change. Every block in the sets is there for
  a path, and the blocks that a sweep without a change leaves out are closed under the edges that
  carry liveness, so no path is missed.

`ControlFlow` runs the same actions on the graph and the tables of a function. Two facts join
them to these theorems, and both are conjuncts of `TypeOK`, which the run checks: the builder's graph satisfies
`GraphOK`, and the walk's tables are in `Tables`.

Model-checked only:

* Liveness (`EveryRequestAnswered`, `SaveRefreshes`, `AnalysisFinishes`, `BadgeSettles`), which is out of
  the prover's reach as is anything about ENABLED.
* `FixesFitTheDisplay` of `lsp_session`: the pairing of the registry's list with the display.
* `BarrierBetweenSeparates`, which the run refutes.
* The other properties of `control_flow` (`LoopQueryIsBetween`, `DiscardIsNotMissed`, `ReadFirstIsLive`): they compare the graph with a tree of any depth, and the walks over trees are
  RECURSIVE operators, which the prover cannot open.

## 5. Not modelled, and why

* **The rules** and the queries they run: about 200 functions of a tree, a reflection or a
  graph, without state, and some 35 000 of the 48 000 lines of the implementation. Nothing in one
  depends on another or on an earlier lint; a model of one would repeat its pattern and
  say nothing that the rule's unit tests do not. They are the inputs of `CliFix`,
  `LspServer` and `LintCaches`, and it is why the share of the lines that the map covers
  stays small.
* **Framing, JSON and the parsing of ids.** They matter for malformed input, which no editor
  writes. `LspServer` takes whole, well-formed messages from a client that keeps the
  protocol, and the reader's trouble with other input is left to its tests.
* **The uniformity analyzer and `light_dataflow.cpp`.** A classification of expressions by name
  and text, with no regard to the graph: its answer is its lists of intrinsics and
  semantics. What of it differs from its documentation is item 11.
* **Syntax errors inside a function.** One function per text, and an `ERROR` node makes its
  graph a skipped one; what tree-sitter does to repair a text is outside the repository.
* **The conversions of the server** (diagnostics, ranges, edits to JSON): pure. The pair of a
  diagnostics list and a text that they are given is modelled.
* **Fix-all, decorations, menus and the rule catalogue of the extension**: they show what the
  editor has. The archive formats of the download: parsing.
* **The AST stage and the severity filter of `lint()`**: pure maps over diagnostics.
* **`ReflectionEngine::clear_cache`**: called by tests only.
* **The TOML reader, the glob matching, output formats, argument parsing and the other
  subcommands**: parsing and printing.
* **Concurrent writers to one file** of the command line between truncation and write: their
  bytes would mix, and nothing can be said of the result.

## 6. What is left

1. The three properties of `control_flow` that compare a graph with its tree: the walks of
   `CfgBuilder` and `ShaderPaths` would have to be recursive functions over a set of trees, and the
   induction that the builder's graph has the tree's paths is one over data.
2. `Framing` as token classes, should the server ever read from anything but an editor.
