# CodeWiki: a TLA+ model of the code index and what is built on it

CodeWiki parses a project's sources into a graph of symbols in a SQLite file
(`.codewiki/codewiki.db`), resolves the references between them, keeps the graph
current while the user edits, and serves it to editors and agents.  This
directory models the store and the processes that share it, the walk that
extracts symbols, the resolution of references and framework routes, the queries
and searches, the server, and the files of other programs that the installer
edits.  `PROJECT.json` says for every definition which lines of the code it
models ("map"), lists the hazards with the properties that would catch them, and
names for every property a plausible bug that breaks it ("mutants").

## Inventory

| Component (crate) | State it keeps | Operations | Interacts with | Hard behaviour | What makes it correct | Modelled |
|---|---|---|---|---|---|---|
| index store (`codewiki-storage`) | `files`, `nodes`, `edges`, `unresolved_refs` | `store_extraction_batch`, `delete_file`, `update_file_metadata`, `commit_resolved_batch` | extraction, sync, resolution, each over its own connection | cascades, hash gate, check before `BEGIN` | foreign keys; a row names the text of its nodes | `IndexStore` (partly) |
| full-text rows, migrations, snapshot | `nodes_fts`, triggers, `schema_versions`, the database files | open, migrate, bulk load, snapshot, restore | every process | statements outside transactions, waits that end, renames under open files | search finds what is stored; an interrupted migration is repaired | `Database` (partly) |
| sync cycle (`sync_loop.rs`) | `.sync.lock`, locals of the run | `run_sync_cycle` | store, extraction; feeds resolution | lock on every path, change tiers against racing edits | one cycle at a time; a stale file is noticed; no work without a change | `SyncSystem` |
| live sync (`live_sync.rs`, `watcher.rs`), MCP server | change channel, thread, shutdown channel, cached handles | `watcher_thread`, `stop`, `resolve_handle` | sync cycle, host | drained batches, stop while syncing, two calls opening one project | no edit is lost; the server ends; one handle per project | `ServeLifecycle` (formatting of answers left out) |
| extraction orchestrator | batches of a cycle | `process_changes`, `index_all_with_flush` | store, disk | read and stat at different times, one file failing | what is stored is what was read | in `SyncSystem` (partly) |
| language extractors (`codewiki-extraction`) | scope stack of the walk | `walk_node`, language hooks | store | push and pop by hand, ids computed twice | the batch is a tree; a call is charged to the innermost declaration | `Languages`, `AstWalker` (partly) |
| resolution driver (`util.rs`, `batch.rs`) | caches, fetched references, resolved edges | `run_resolution[_incremental]`, `run_until_empty_parallel`, `commit_chunk` | store, resolver | outside the lock, retries, threads and channels | nothing resolvable is left, no edge twice, no stale edge | `SyncSystem`, `ResolvePipeline` (partly) |
| reference resolver | name indexes | `resolve_one`, structural pass | driver | ranking, a pre-filter before the cascade | the nearest node; the order of storage decides nothing | `NameMatching`, `ReferenceResolver`, `StructuralInterfaces` |
| framework resolvers | route nodes, manifests | `detect`, `extract`, `resolve` of 16 resolvers | driver, store | regular expressions over text, prefixes and scopes of other classes, routes that live apart from their files | a route has the path and handler its declaration says | ten modules, see below (partly) |
| graph traversal and web view | none | `GraphTraverser`, aggregated queries, `neighborhood`, `impact`, `file_graph` | store | two marks in one walk, budgets, truncation | exact reachability; nothing is cut off silently | `GraphQueries`, `GraphAnswers` (row-listing routes left out) |
| search, context, explore | none | `search`, `find_relevant_context`, `explore` | store | four tiers with filters of their own, merged scores | filters hold, exact name first | `FullTextSearch`, `ContextRanking`, `SearchSystem` |
| installer, git hooks | marker blocks and keys in files of the user | install, uninstall, init, uninit | the user, other versions | text is edited by searching it; kills between files | what the user wrote stays; nothing is doubled or left | `EditedTexts`, `AgentTargets` (partly) |
| commands (`codewiki-cli`) | processes | `index`, `sync`, `serve` | everything above | which command takes which lock | the user is told the truth | `SyncSystem`, `Database` |
| node cache, edit builder, tree cache, event coalescing, import resolver | - | - | called by tests only | - | - | no, see the end |
| test, parity and benchmark tools | - | - | - | - | - | no |

How they meet: the watcher, `codewiki sync` of a git hook and `codewiki index`
are processes over one index; a cycle holds an advisory lock, resolution and
`index` do not.  A cycle extracts (walker), stores (store), and its result
selects what resolution looks at (driver, resolver, frameworks).  The server
answers from the same tables through connections of its own (graph, search).

## Modules, state and actions

Each module begins with what its data stand for.  MC modules only give
constants their values; where a cfg alone does that (`serve`, two edits and two
calls that name the same other project), there is none.

### Index, sync and resolution passes

* `IndexStore` - the four tables and what each storage call does to them in its
  one transaction.  A *text* is one content a file can have and stands for its
  SHA-256; the constants `Defs`, `Uses` and `Local` say what the extractor finds
  in it.  A node id hashes path, kind, name and line: here `<<file, symbol>>`.
  `edges` is a bag: the table has no UNIQUE constraint beyond its own id.
* `SyncSystem` - watcher threads (`Live`), `codewiki sync` (`Cli`), `codewiki
  index` (`Indexer`), the user (`Edit`, `Erase`), the operating system (`Crash`,
  `Restart`).
* `SyncProperties` - what they promise; `MCSync` - the instance for TLC.
* `ResolveDrain` - what a full pass promises of the queue `unresolved_refs`.
* `ResolvePipeline` - how `run_until_empty_parallel` does it, its properties and
  the refinement mapping; `MCResolve` - the instance.

| `SyncSystem` | Code |
|---|---|
| `files`, `nodes`, `edges`, `refs`, `gen` | the four tables and the AUTOINCREMENT id of `unresolved_refs` |
| `lock` | the advisory lock on `.codewiki/.sync.lock` |
| `trigger` | a batch in `FileWatcher::changes_rx` |
| `pc` | where the thread is in `run_sync_cycle` (`classify` .. `again`), in resolution (`scope` .. `commit`) or in `index` (`gather`) |
| `left`, `work`, `gone`, `src`, `batch` | the loops of the cycle: files still to handle, files to extract, removed paths, texts read, records waiting for `update_file_metadata` |
| `cache`, `todo`, `joins`, `chosen`, `ok`, `tries` | warmed caches, fetched references, structural edges, resolved edges, those whose ends exist, attempts of `commit_chunk` |
| `Noop` .. `EndCycle` | one action for each step of the cycle that another process or the user can come between |
| `ScopeFull` .. `GiveUpCommit` | scope decision, warm-up, fetch, look-up of the ends, transaction, retry |

| `ResolvePipeline` | Code |
|---|---|
| `phase`, `cursor`, `page`, `fetched` | the calling thread: before the scope, in it, after `drop(tx)`, returned |
| `todo`, `chan`, `writer`, `buf`, `tries` | shards, channel, writer thread and its locals; a *copy* `<<page, id>>` is a row in memory, so that a row fetched twice would be two copies |
| `handled` | copies a committed transaction was for |
| `FetchPage` .. `Join`, `Work(w)`, `Writer` | the three kinds of thread |

### Database file

`Database` - the file, by inode, with who has it open; opening and migrating it
as a list of statements that commit one by one (`todo`); the bulk load that drops
the triggers of the full-text index, rebuilds it and makes the triggers again
(`LoadFile`, file by file, into the `draft` of its transaction); `sync`'s single
stores beside it; kills between any two statements; a load that fails;
`snapshot`, and `restore`, which renames the file under the feet of whoever has
it open.  A statement of an open or a load may wait for another writer, and the
wait ends after `busy_timeout` (`Waits`, `OpenBusy`, `LoadBusy`): `?` leaves the
rest undone.  `torn` marks files whose index may lag because something came
between the statements of a load.

What a file holds is followed until two processes share it in a way that the code
does not control.  There are two such ways, both marked by `spoiled`: processes
that migrate one file at the same moment (`Races`), and a restore under a process
that has the file open (`Astray`), since only `codewiki.db` is renamed and the
`-wal` and `-shm` files stay under their names for whoever opens the new one.  A
process that has a spoiled file open is `lost`: its statements may find anything,
and all that is followed is that it ends.  What then becomes of the file, and
whether SQLite notices, is open; a snapshot of it is spoiled too.

### Server

`ServeLifecycle` - `serve --mcp`: the debouncer (`buffer`, `Batch`, `Emit`), the
channel (`queue`), the live-sync thread (`thread`: select, drain, cycle, walked,
hook, gone), the handle whose drop sends the stop and joins (`shutdown`, `main`),
and tool calls that look a project up, open it and store it under a mutex that
is not held while the handle is opened (`handles`, `call`).  Edits are numbers;
0 (`Noise`) is a write of the thread's own below `.codewiki`.  `walked`, `spent`
and `lost` record which edits a walk covered, a failing cycle met, or notify
never delivered.

### Extraction

* `Languages` - the `LanguageConfig` tables and hooks for TypeScript, JavaScript,
  Python, Rust, C#, Go and C++.
* `AstWalker` - `walk_node`: the recursion is the stack `todo`, where `Pop`
  stands for the `scope.pop()` after a declaration's children; one action per
  kind of declaration or language hook.

### Resolution of one reference

* `NameMatching` - the five tiers of `name_matcher.rs` and their confidences (an
  integer, 200 times the code's).  What `warm_caches` read is a *scan*: a set of
  entries, each a node and its place `<<file, position>>`.  An index is the subset
  with a key, "the first" the entry with the least place.
* `ReferenceResolver` - the pre-filter, the cascade and the choice of
  `resolve_one`; files are stored in any order.
* `StructuralInterfaces` - which Go types satisfy which interfaces.
* `ResolverProofs` - the theorems about the three.

### Frameworks

* `CommentStripper` - `strip_comments`, character by character, because its
  properties are about characters.
* `RouteScanners` (FastAPI, Flask, Django, Express, Go, Laravel, Rails, Spring,
  Vapor), `AspNetScanner`, `DecoratorScanners` (NestJS, Angular) - a file is a
  sequence of statements, a scanner what its regular expressions make of them.
* `RouterConfigs` - nested route objects of vue-router and Angular.
* `FileRoutes` - routes by the place of a file in Nuxt, SvelteKit and Next.js.
* `CargoWorkspace` - crates, members and path dependencies.
* `FrameworkRules` - `detect()` and `resolve()` of all resolvers, as the marks
  they look for and rules in their order.
* `RouteManifests` - the life of route nodes in the index: edits, `sync`,
  `index`, and `extract()` file by file, with the record of the manifest that
  lets a run skip what looks the same.
* `FrameworkSystem` - composes these: samples that grow piece by piece, and the
  project of `RouteManifests` beside them.

### Graph, search

* `GraphQueries` - `GraphTraverser`.  A connection answers one query at a time.
  The depth-first functions are a work list; entering a node puts its edges in
  front of what its callers have left.
* `GraphAnswers` - the aggregated queries, the three subgraph routes of the web
  view, the expansion of a context search.
* `FullTextSearch`, `ContextRanking` - query language, tiers, scores (units of
  1/6000), channels and merging; bm25 and tokenisation are constants.
* `SearchSystem` - an index that grows and the tools that ask it, with the
  clusters of `explore`.

### Files of the user

* `EditedTexts` - blocks between markers in markdown, hooks, TOML and YAML.
* `AgentTargets` - an install or uninstall of Claude, Cursor, Codex, opencode,
  Hermes or the git hooks as a list of steps, one per file.  Files of agents are
  written with a rename: a kill or a failing write leaves a prefix of the steps.
  Hooks are written in place (`git_hooks.rs:147`, `:199`): `StoppedInHook` leaves
  some of the lines and part of the next (`CutLine`).  Two versions of the
  program; the user writes, deletes a block, loses an end marker, breaks a JSON
  file or writes one that parses to no object (`WriteList`).

### Abstractions

* Several references between the same two symbols count as one, and in
  `SyncSystem` a pass is committed in one chunk and fetched at one instant;
  `ResolvePipeline` has the pages and chunks.
* In `SyncSystem` it is open which of the nodes that answer a name is picked;
  `ReferenceResolver` says which.
* In `SyncSystem` a change on disk always reaches the channel of a running
  watcher; `ServeLifecycle` has the debouncer and its losses.
* Classification of all files (stat, row, hash) is one step after the walk; so
  is each scope query.  No decision reads the inode column, which is left out.
* SQLite transactions are atomic and durable; a busy database is a fault.
* Texts are statements or tokens with the properties the regular expressions
  test; wording, order of output and formatting are left out.

## Runs

| Run | Instance and bounds | What it shows |
|---|---|---|
| `sync_watcher` | two files with two texts each, one watcher, 3 edits, fairness | `EdgesJustified`, `OwnReferencesKept`, `QuietMeansResolved`, `StaleIsDetectable`, `NoDuplicateReferences`, `RowMatchesNodes`; `CurrentMeansNoop`; `Converges` |
| `sync_beside` | watcher, one `sync`, one `index`; one edit, fault, crash; a file without recorded mtime | `LockHeld`, `ForeignKeys` |
| `resolve_pipeline` | five references, two workers, pages of 2, channel of 1, chunks of 2, 3 faults, fairness | `NothingLost`, `ImplementsDrain`, `Terminates` |
| `database` | one process that loads, one that stores, one node, two texts, migrations 5 and 6, one crash or restore, 3 rowids | `SearchSound`, `OpensWell` |
| `serve` | two edits, one lost event, one failing cycle, one re-index, two calls for one project, fairness | `NoMissedChange`, `EndsBetweenCycles`, `SharedHandle`, `LiveSyncServes` |
| `extraction` | every syntax tree of up to five nodes the grammars give in seven languages | `BatchStores`, `ScopesMatch`, `DocsNextBelow` |
| `resolution` | up to three of six files in five languages in every order; small Go packages | `NearestWins`, `PrefilterKeeps`, `AnswersStable`, `GoRule` |
| `frameworks` | samples of a few pieces for each framework; a project of two files with two routes and two bodies, 3 edits | `TextsRead`, `RoutesFound`, `RulesHold`, `NoGhostRoutes` |
| `graph_queries` | every part of three pools of edges over six nodes, depths 1, 2, 6, limits 2, 7 | `TraversalsExact`, `DependantsFound`, `BudgetsKept`, `ViewsHonest` |
| `search` | up to four of eight symbols in every order of insertion | `AnswersAsAsked`, `RankingKept`, `ClustersApart` |
| `agents` | six kinds of targets with empty, foreign and old content, two versions, 4 steps | `OwnKept`, `EndsAsSaid`, `InstallIsStable` |
| `sync_lost_edges` | one watcher, 1 edit | refuted: `DependantsResolved` |

A property that is a conjunction (`SearchSound == TypeOK /\ SearchExact`) groups
what is about one question; the parts are stated and commented beside it.

Why the bounds are enough: each property is violated within them by the mutants,
and by construction of the instances the interesting cases happen.

* `sync_*`: `a1` uses the symbol `y` of `b` by its name, `a2` by a qualified
  name, `b1` uses its own `y`, `b2` has a byte-order mark (its size on disk and
  in the index differ), and `y` is a type whose methods cover the interface `x`
  of `a`.  With `CoarseClock` an edit may leave the mtime as it was.
  `FallbackDivisor` (10 in the code) and `CommitRetries` (3) are 1, so that with
  two files both the incremental and the full pass happen, and a commit both is
  retried and gives up.  Three edits are an edit, one during the cycle it
  causes, and one during resolution.
* `resolve_pipeline`: a pass takes up to three pages, both workers block on the
  full channel, the last chunk is partial, and three faults suffice for a chunk
  that is committed at the second attempt and another that is given up while a
  worker still sends.
* `database`: one node in two texts tells a missing full-text row from a stale
  one; migration 6 is the one that rewrites the index.  `c1` loads and `c2`
  stores and deletes, both open and migrate: every interleaving of a load with a
  store or an open, of an open with an open, and of a restore with each.  Two
  loads beside each other are left to the theorems, which are about any number of
  processes in any roles.
* `serve`: two edits are one that is drained with a burst and one that comes
  after the drain; two calls meet in the unlocked part of `resolve_handle`.
* `graph_queries`: six nodes hold a container with a member, a cycle, a diamond,
  a test and three files that import each other; depth 6 never cuts, 1 and 2 do.
* `extraction`: five nodes are a declaration in a declaration with a comment, a
  call beside and inside it.
* `resolution`: of the six files two end on the same path (`lib/db/store.ts`,
  `src/db/store.ts`, asked for as `db/store.ts`), a TypeScript and a Python file
  hold a class `User` with a `get`, and every file has a `save` of another kind, place
  or language; three at a time give every pair beside a third.
* `frameworks`: the three edits of the project are one before a run, one while
  `extract()` is at work, and one that takes it back.  Two bodies give a text that
  differs from another in something else than its routes.
* `agents`: four steps are install, user, other version, uninstall.
* `search`: eight symbols tell the tiers and merging apart.  Limits of the caller
  are small; the inner ones (20 symbols of a term, 50 candidates and 5 symbols of a name
  in the fuzzy tier) stand in the definitions and are never reached.

The deadlock check is off where the system really stops: when the user makes no
further edit, a pass has ended, the server has exited, a walk is finished, or the
steps allowed to the user of the installer are used up.

### Fairness

* `SyncSystem`: weak fairness of the steps of a running process (`Work`: no step
  waits for another process, the lock is tried once and never waited for) and of
  a watcher with a batch in its channel (`recv` returns).  Nothing obliges the
  user to edit, to run a command or to start a stopped server again.
* `ResolvePipeline`: weak fairness of the caller, of each worker and of the
  writer, threads of one process.  The writer is no thread of the rayon pool, so
  a pool full of blocked senders does not keep the channel from draining.
* `ServeLifecycle`: weak fairness of the start, of the debouncer's timer
  (`Emit`), of the live-sync thread and of the stop once stdin has closed.
  Nothing obliges the host to close stdin or the user to edit.

## Theorems

Each holds for every value of the constants that satisfies the named
assumptions, which TLC evaluates in the runs (`TextAssumption`,
`SystemAssumption`, `PipelineAssumption`, `RootAssumption`, `CallAssumption`,
those of `Database`, `TreeAssumption`, `ProjectAssumption`, `QnameAssumption`,
`AskedAssumption`, `GoAssumption`).

| Theorem | Statement | Argument |
|---|---|---|
| `SyncProofs!TypeCorrect` | `Spec => []TypeOK` | inductive as it stands |
| `SyncProofs!LockExcludes` | `[]LockHeld` | inductive with `TypeOK` |
| `SyncProofs!ForeignKeysHold` | `[]ForeignKeys` | inductive with `TypeOK`, from lemmas about `Rewrite`, `DeleteFile` and `CommitResolved`: what a cascade leaves and what a transaction inserts |
| `SyncProofs!RowsMatch` | `SoundStorage => (Spec => []RowMatchesNodes)` | `RowMatchesNodes` is not inductive: `update_file_metadata` overwrites a row without looking at the nodes.  `IndexInv` adds that a record waiting for it names the text already stored, which needs that nobody else stores in between (`LockHeld`) |
| `EdgeProofs!EdgesStandOnTexts` | `Alone => (Spec => []EdgesJustified)` | `EdgesInv` adds that every waiting reference is made by the stored text of its file (`RefsMade`) and that what a pass holds in memory - fetched references, structural edges, resolved edges - is justified by the texts stored now (`PendingJustified`), which holds because the one process does not store while it resolves |
| `EdgeProofs!ReferencesOnce` | `Alone /\ Apart => (Spec => []NoDuplicateReferences)` | `OnceInv` adds that no two rows are the same reference (`RefsUnique`), that a waiting reference has none of the edges it could become (`Open`), and that a resolved edge in memory stands for a waiting reference (`PendingStands`) |
| `EdgeProofs!StaleIsFound` | `LengthsDiffer => (Spec => []StaleIsDetectable)` | `RecordsInv`: what is on disk, in a row, in a batch or read into memory is a text of its file; a record has the size of its text and is stamped no later than the next edit.  Any number of syncs, `index` runs, faults and crashes |
| `EdgeProofs!WorkIsNeeded` | `Indexer = {} => (Spec => CurrentMeansNoop)` | `NewSinceWalk`: a row of a file that the walk did not meet is older than the file, since nobody else writes rows while the lock is held |
| `EdgeProofs!OwnAreKept` | `Alone => (Spec => []OwnReferencesKept)` | `PendingSound`: the warmed names are the stored nodes, a resolved edge joins stored nodes and answers its references, so the commit that deletes them inserts it; `OwnKeptInside` says what is kept from inside the store |
| `EdgeProofs!RestIsResolved` | `Undisturbed => (Spec => []QuietMeansResolved)` | `AwaitedInv`: a stored reference whose very name a stored node carries is of a changed file, or names a node of one, and from the fetch on it is in the hands of the process; what the process has in hand it has from its classification (`InHand`) |
| `ResolveProofs!NothingIsLost` | `[]NothingLost` | a copy is in exactly one of shard, channel, buffer and committed set |
| `ResolveProofs!PipelineDrains` | `Spec => ImplementsDrain` | the refinement.  Not handled twice: `OneCopy` (the cursor only grows past what it has read, so the pages are disjoint) and `OnePlace`.  `Ok` means drained: `AllFetched` (ids are never reused and a short page is the last), `Flushed`, `NothingLost`; with `Stages` and `Settled` they are `PipelineInv` |
| `ServeProofs!OneHandle` | `[]SharedHandle` | `CallInv`: an answer that is a handle is the one in the cache, and an entry of the cache is never replaced |
| `ServeProofs!StopsBetweenCycles` | `[]EndsBetweenCycles` | `ThreadInv`: after the stop is sent only the thread that was already draining begins a cycle, since the select sees the stop first |
| `ServeProofs!NothingMissed` | `[]NoMissedChange` | `ChangeInv`: while the thread watches, an edit that is neither buffered, queued, walked, failed nor lost exists only between the drain and the walk, and that walk covers it |
| `RouteProofs!RoutesOfTheText` | `ProjectSpec => []NoGhostRoutes` | inductive with the types: a run of `Reextract` takes away the routes of a file with its text and ends its race; `Extract` adds routes of the text on disk, which is the indexed one unless it marks the file as raced |
| `DatabaseProofs!SearchIsSound` | `Spec => []SearchSound` | `Inv` says what each process has still to do and what of it the file shows already: `OlderInv`, `SixInv`, `SchemaInv` walk through the statements of an open, `RunInv` and `DraftInv` through those of a load, `LockInv` that a transaction belongs to a live loader, `LostInv` that exactly the processes with a spoiled file are lost, `TurnInv` that no two of the others are opening a file that is not current; `IndexInv` that a file with migration 6 has an exact index unless a process that is going to rebuild it has it open (`Rebuilds`) or it is torn, `SnapInv` the same of the copy |
| `DatabaseProofs!OpensAreWell` | `Spec => OpensWell` | the same invariant: an open that has run all its statements has left the whole schema, whatever an earlier open or load that was cut off had left before (`MigrateInv`, with `TurnInv`: nobody else changes the schema meanwhile), and the next statement of an open never meets what would make it fail (`OpeningNeverFails`) |
| `WalkerProofs!BatchesStore` | `LinesApart /\ TypesNamed => (Spec => []BatchStores)` | `WalkInv`: what is left to walk hangs below what has been walked, each node once (`Seen`), so that every id of the batch is of another node of the tree (`Batch`, `SourceOnce`); for each `Pop` to come there is a scope above the file (`Deep`); what a hook adds at a type starts at the id the walk gives it in that step (`TypeKindIs`).  Over the tables of all seven languages (`DeclaredAre`, `HookedAre`) |
| `WalkerProofs!ScopesAreKept` | `LinesApart /\ TypesNamed /\ (every tree: Regular) => (Spec => []ScopesMatch)` | `ScopeInv` beside `WalkInv`: the list of what is left to walk is read level by level (`Levels`), and the scope in force where a node is taken up is that of the innermost declaration around it (`Placed`), so each `Pop` takes away what its own declaration pushed; each declaration hangs below its owner (`Owned`), carries its path (`Titled`), and each call is charged at its place once (`Charged`, `Joined`) |
| `WalkerProofs!CommentsAreNext` | `LinesApart /\ TypesNamed /\ (every tree: Written) => (Spec => []DocsNextBelow)` | `DocsInv` beside `WalkInv`: what `extract_docstring` takes is a run of comments that ends right above the declaration, or above what it comes first in (`Documents`, from the recursion over siblings: between two of them stands nothing, `NextSibling`); such a run is of one declaration only (`DocumentsOne`); and the walk goes down the text (`Onwards`), so that it comes to no declaration twice |
| `ResolverProofs!NearestIsTaken` | `[]NearestWins` | `ScoreRange`: a node of the file scores 150 at least when its language is the reference's and any other 85 at most, one of the language 50 at least and a foreign one of another file -45 at most; `FindBest` takes a greatest score |
| `ResolverProofs!PrefilterIsSafe` | `[]PrefilterKeeps` | tier by tier: the name under which a tier finds a node (`QualifiedShape`, `MethodCallShape`, `ExactNameShape`) is one of the parts that the filter looks up, since with one separator its first place (the filter's `split_once`) is its last (the tiers' `rsplit`) |
| `ResolverProofs!AnswersAreStable` | `[]AnswersStable` | whether a tier answers, and how sure it is, is a matter of the set of nodes and not of their places (`SameMatch`), and grows with that set (`TriesGrow`), so that a larger project answers in an earlier tier or the same (`MatchGrows`); a permutation has the same nodes (`Reordered`) |
| `ResolverProofs!GoRuleHolds` | `[]GoRule` | between plain methods name and arity tell all (`PlainSignature`), so that the inclusion of signatures is that of methods |

The conditions are real, each of them excludes cases in which the statement is
false:

* `SoundStorage` - no `index`, no failing storage call, no orphan edge from the
  extractor; `Alone` - that and a single process.  The section below describes
  what happens otherwise.  Kills are not excluded: the theorems hold for any
  number of crashes and restarts.
* `Apart` - the extractor leaves no reference for an edge it makes itself.
* `LengthsDiffer` - two texts of a file differ in length, the byte-order mark
  counted on disk and not in the record: an edit between read and stat that keeps
  the length is never noticed.
* `Indexer = {}` - an `index` beside a sync can add a file that was created after
  the walk, which the sync then counts as gone.  TLC finds it in `sync_beside`
  when the user may edit once more.
* `Undisturbed` - `Alone`, no kills, and the resolver accepts a symbol for its own
  name.  A kill between the end of a cycle and its commit leaves references that
  only a later cycle over the same files takes up (`live_sync.rs:224`).
* `LinesApart` - no two declarations of one kind and name stand on one line: an id
  is a hash of just these (`generate_node_id`), and the batch would have it twice.
* `TypesNamed` - a TypeScript or C# type declaration has a name, as the grammars
  say: the hook would else anchor its references at a node that is never made.
* `Regular` - an `impl` is Rust's, and a C# file has one file-scoped namespace at
  most, as the language demands: a second one would be put in force inside the
  first and hung below the file.
  `ScopesMatch` itself speaks of trees without a `LocalItem`, see Extraction below.
* `Written` - a tree is in the order of its text, heads of a declaration before its
  body and nothing inside a comment; and no declaration with a doc comment begins
  with a second one that takes the same comment through its parent, or that starts
  on a later line (`typedef` and `struct X` on two lines, say: the comment would
  skip the alias and go to the struct).
* `ProjectAssumption` - ids are unique (the primary key), and the first node of a
  file is its own; `QnameAssumption` - a qualified name is the scopes and the name
  joined by `::`, or a path, but for route nodes; `AskedAssumption` - a reference is
  of a node of its file; `GoAssumption` - a package declares an interface once, as
  the Go compiler demands.
* `Ambiguous`, in `GrowthKeepsResolved` - a name that is a path resolves while one
  file ends on it (`suffix_matches.len() == 1`); a second such file takes the answer
  away.  TLC finds it in `resolution` when the exception is dropped.

The theorems about the database need none: that two processes migrate one file, or
share a write-ahead log after a restore, is in the model, as what spoils a file.
The exceptions of `SearchSound` are in its statement: a torn index.

`SearchSound`, `OpensWell` and the properties of the sync come with any number of
files, texts, processes, crashes, restores and versions in the history of the file;
the migrations themselves are the six of the code.

Only model-checked: liveness (`Converges`, `Terminates`, `LiveSyncServes`), which
the prover cannot do; `AgentTargets`, the search, graph and framework
properties, which are about what recursive operators and folds compute and would
need induction over data.

## What the code does and its documentation or a reader would not expect

`sync_lost_edges` is the finding in `PROJECT.json`: `README.md:476` says that
direct dependants of a changed file are re-resolved; re-extracting a file deletes
the edges of others into it, whose references are gone, until those files change
too.  The rest was met while modelling; the models contain the behaviour, and
where a property would fail for it, the property is stated for the other cases.

**Sync.**  A watcher whose trigger meets a lock taken by `codewiki sync` spends
it: with a second process `Converges` fails.  Resolution outside the lock can
commit an edge of a text that another process has replaced (`EdgesJustified`
fails).  A failed store followed by its metadata leaves a row whose hash protects
stale nodes (`RowMatchesNodes` fails with faults).  Full passes insert structural
edges again; incremental passes do not restore those of a changed file.  `index`
beside other processes duplicates references and overwrites rows.  An edit
between read and stat with the same length is never noticed.  A `sync` after a
kill between cycle and resolution reports an up-to-date index.

**Database.**  A load that is cut off beside another writer leaves nodes that
search does not find.  Every open writes (`schema.sql:12`), and `busy_timeout` is
5 s (`connection.rs:40`): beside a longer bulk load an open fails, and a load whose
`BEGIN`, rebuild or triggers wait that long ends with the triggers dropped.  Each
migration is said to be "wrapped in a transaction" (`migrations.rs:167`) and is
not; after a crash that does no harm because they can be repeated, but two
processes that migrate one file at the same moment fail each other's statements
or drop what the other has filled.  `restore` renames `codewiki.db` and leaves
`codewiki.db-wal` and `-shm` (`snapshot.rs:72`): a running server stays attached to
the renamed file and shares the log with those who open the new one, and
`codewiki.db.pre-restore` lacks what a killed process had left in the log.  Two
failing restores lose the original.

**Server.**  No watchdog is spawned, so a server outlives a killed host whose
pipe stays open (`ppid_watchdog.rs:1`).  The cache of handles is keyed by the path
as given, and handles stay attached after `uninit`.  Whether there is an index is
decided at the start only, and a server that starts again does not look for
edits it missed.  Changes of configuration files alone trigger no cycle.

**Resolution.**  Nothing inserts into `name_cache`, `node_cache` and `file_cache`
outside tests, so the import strategy and nearly all `resolve()` of frameworks
never answer; of the "3-strategy cascade" (`resolver.rs:3`) the name matcher is
left, and the promotion of edge kinds (`resolver.rs:5`) is not there.  `resolve_one`
asks all frameworks, detected or not.  `.mjs`, `.cjs`, `.pyi`, `.pyw` and `.kts`
have a language and no language group.  Two foreign candidates fall below the
threshold that one passes.  A second file that ends on a path, or whose name
begins with a file name, unresolves the references that had found the first.
Names with dots never match by qualified suffix; a
suffix may start inside a word; the pre-filter drops fuzzy matches, `./` paths and
names with several separators.  The id `from->target` of an edge is shared by two
kinds.  Go parameters are cut at the first `)`, embedded interfaces ignored.

**Frameworks.**  Routes are deleted with the nodes of their file and not restored
by a later full `index` that finds the same number of them; an incremental run
extracts again only when `setup.py` changed among enough files.  `extract()` reads
the disk after the files were stored (`util.rs:282`): when a file changes in
between, its new routes stand beside its old nodes, and when the user then undoes
the edit, the hash gate (`storage_impl.rs:360`) skips the file and they stay until
it changes again.  `raced` records these files; `NoGhostRoutes` exempts them.  A route object
without `path`, or with children before it, takes the path of its first child.  A
plain class in NestJS, and a controller without `[Route]` in ASP.NET, takes the
scope of the one before; the first `MapGroup` of a variable name counts in every
method.  Angular's constructor injection into an undecorated class starts at an id
that no node has.  Express arrow functions and inline Go handlers give names
like `res` and `Context` as handlers; stacked Flask routes are lost; `export
default function` components are not exported; Cargo globs never expand and the
cache of a workspace is never rebuilt.  `strip_comments` keeps strings although
its header says they are blanked, and `read_balanced` counts closers of any kind.

**Extraction.**  `impl Type<T>` takes an argument of the type for the type; an
`impl` without a plain name pops no scope, and the type of an `impl` is looked up
by its plain name alone: with an `impl`, `struct` or `enum` inside a function or
another item (`LocalItem`) what follows can be charged to a scope that is not
around it; two declarations of one kind and name
on a line share an id.  Calls in initialisers of module variables, fields,
parameter defaults and C# top-level statements are lost.  Go package variables
and enum members are never emitted.  An attribute between `///` and `fn` loses the
doc comment.

**Graph and search.**  The impact tool's "within {depth} hop(s)"
(`tools/impact.rs:45`) is not kept below containers.  `file_graph` does not notice
that it was cut off at exactly its limit.  `path::x` is a filter that matches
nothing; `path:` and `name:` apply after truncation; a filter `kind:` widens the
tool's own; repeated words repeat answers.  Questions of one term are not sorted
again after merging.  `explore` says that complete source is included when it is
not, and `get_code` reads the lines of a stale index from the disk of today.

**Installer.**  `uninit` leaves the hooks (`git_hooks.rs:237` says it removes
them).  Hooks are written in place (`git_hooks.rs:147`, `:199`): a kill or a full
disk during the write loses lines of the user, and a begin marker that is cut in
two stays for ever.  A JSON file that parses to something else than an object
(`shared.rs:80`) counts as empty and is replaced without a copy by an install of
Claude or Cursor; opencode's install panics on it (`opencode.rs:143`).  The model
takes what stands under the keys that codewiki writes to be objects.  A `.jsonc`
that appears after an install hides opencode's `.json` from an uninstall.  A hook,
YAML or JSON file that is not UTF-8 is read as empty and
overwritten.  In Codex's file a `[[array]]` or comment after codewiki's table goes
with it; Hermes' `cli: [..]` gets a duplicate key; Claude's migration glues the next
header to the end marker.  A second broken JSON file overwrites the copy of the
first.  Empty objects of the user are pruned.  Hooks are not installed where
`.git` is a file.

## Not modelled

* Node cache (`get_node_by_id`, `get_code` of the handle), edit builder and tree
  cache, `coalesce_events`, `import_resolver.rs`, `path_aliases.rs`: no command,
  tool or route reaches them; only their tests do.
* The serial `run_until_empty`, used only when the name index was not warmed,
  and its pages by OFFSET.
* The worker pool and progress channel of `index`; metadata rows, statistics.
* Extractors without tree-sitter (Vue, Svelte, Razor, Liquid, DFM), WASM grammars,
  and the other native languages, whose tables alone differ; docstrings of
  Python; metadata of Angular nodes.
* Rendering of tool answers, the HTTP layer and the routes that list rows, choosing
  of targets, prompts, `doctor`, `setup`, `upgrade`, terminal UI.
* A rebuild of the full-text index that fails after its load committed, other than
  on a wait that ends.
* What a database file holds after two processes migrated it at once, or after a
  restore under a process that had it open.
* Test, parity and benchmark tools.

## Plan

Done: everything in the table of runs and of theorems.  What would come next:
an abstract index as a reader sees it (each file shows one of the texts it had)
and `SyncSystem` shown to implement it; what an install leaves alone (`OwnKept`) step by step
instead of as a fold; the serial fallback of resolution; the worker pool of `index`;
extractors without a syntax tree.
