# Verification of mcpsmithy

mcpsmithy is a server for the Model Context Protocol whose tools are written in
a configuration file. It fetches the sources the configuration names (local
globs, git repositories, files and archives over HTTP, scraped pages), cuts them
into chunks, keeps a BM25 index of them in memory and answers tool calls from
templates that may search that index. Sources can be refreshed on an interval
and the configuration reloaded while clients are connected, so most of what can
go wrong is in what runs at the same time.

## The system

| part | code | state it keeps | operations | talks to |
|---|---|---|---|---|
| search index | `internal/search/index.go` | chunks, document frequencies, postings, lengths, under an RWMutex; `LiveIndex`, an atomic pointer to one | `Merge`, `Search`, `Len`, `Get`, `Swap` | merged into by the pipeline, searched by templates |
| source pipeline | `internal/project/project.go`, `internal/project/sources/` | directories under `.mcpsmithy`, the live index, a fresh one in a refresh round, four slots | `Build`, `processSources`, `processEntry`, `refreshLoop`, `Fetch` and `Read` of each kind | origins (HTTP, the git binary), the file system, the index |
| tool server | `internal/server/server.go` | engine, registered tools, a mutex; the table of tools in the MCP SDK | `New`, `SwapEngine`, tool calls, `Serve` | the SDK, the engine |
| hot reload | `pkg/cmd/serve.go` | known modification time, debounce timer, reload goroutines | `watchConfig`, `reload` | the configuration file, `tools.New`, `SwapEngine` |
| tool engine | `internal/tools/` | tools, parsed templates, sandbox | `New` (which starts a pipeline), `Execute` | index, conventions, file system, HTTP |
| template functions | `internal/tools/templating.go` | none | `grep`, `search_for`, `http_get`, `http_post`, `file_read` | live index, conventions, credentials |
| scrape | `internal/project/sources/scrape.go` | queue, visited set, page count of one fetch | `Fetch` | HTTP, the file system |
| archive extraction | `internal/project/sources/http.go` | the wrapper directory of one archive | `Fetch` from the response on | the file system |
| conventions | `internal/conventions/` | a second index, made once | `BuildIndex`, `ForPath` | templates |
| configuration | `internal/config/` | the document while it is walked | parse, defaults, validation by struct tags | everything |
| credentials | `internal/auth/` | the loaded store | `Load`, `Apply`, netrc | HTTP sources and templates |
| setup assistant, command line, documentation generator | `internal/setup/`, `pkg/cmd/`, `cmd/` | none | wiring | |

The parts with the hard behaviour are the first four:

* a worker of the pipeline fetches, reads and merges in steps between which the
  process may be killed (the directories stay), a refresh round may start over
  the same directories, and the pointer it merges through may be swapped;
* four workers at most run at once and a git clone has no timeout;
* a reload runs in a goroutine of its own, which a later change does not stop;
* the pipeline of an engine that a reload replaced goes on refreshing the same
  directories, until the process ends;
* a tool call finds its handler, and loads the engine it runs on, in two steps.

`PROJECT.json` lists the hazards of the code, each at its line, with the
properties that cover it.

## The modules

**SearchScore** holds the pure part of `Index.Search` and `indexChunk`: how
often a term is counted in a chunk (title three times, tag five times), the
BM25 sum, the choice of the best results. The logarithm and the division of the
formula are replaced by integers with the same order and the same zeroes: what
is kept is which terms count, that a score is positive exactly when a chunk
holds a term, and that chunks the index does not know have none.

**SearchIndex** is `Index` with goroutines that merge and search. `Merge` is
four steps under the write lock (append the chunks, index them one by one,
finish), `Search` three under the read lock, the lock an external RWMutex with
Go's preference for a waiting writer. **IndexContract** is what a caller may
rely on: a merge and a search each happen at one moment. SearchIndex implements
it (`Linearizable`, an INSTANCE with a refinement mapping).

**SourcePipeline** is a process that runs `serve` or `sources pull`: `Build` to
`Exit`, any number of times over the same disk. `pc[l][s]` is where the worker
of source `s` is in the initial or in the refresh round:

| action | code |
|---|---|
| `Build`, `Exit` | the commands start and end, by any cause, at any step |
| `Begin` | the worker gets a slot; `skipFetch` looks at the directory |
| `Clear` | `RemoveAll` of the directory, which may fail half-way |
| `Open` | the origin answers and the directory is made |
| `Finish`, `Fail` | the transfer ends well or badly (git removes its clone, the others leave what they have) |
| `Read` | the files that match are read, the index pointer is loaded |
| `Merge` | `Index.Merge`, atomic by `Linearizable` |
| `Close`, `Tick`, `Swap` | the channel of `Build` is closed; the ticker starts a refresh round; its index is swapped in |

A directory is absent, partial or whole. When both rounds write the same
directory, what each does there is recorded with the other (`torn`), and a torn
transfer may leave anything. Local files are always whole. `Read` is one step,
at the moment the pointer is loaded; the code chunks the documents between reading
them and that. The contents of the directory could differ between the two moments
only while the other round has it too, and of rounds that overlapped no property
says anything about contents. A file that cannot be read is skipped, which the state
of the directory does not show.

**ToolServer** is `SwapEngine`, by several goroutines, and tool calls. Each
call of the SDK is one step, since the SDK locks its own table; between them
clients see any mixture. The engine of a swap is known by its goroutine.

**HotReload** extends ToolServer with the watcher: it polls, sets the timer,
and each firing of it starts a reload that loads, builds and swaps. Edits and
removals of the file come at any moment, with a modification time that may not
advance (`CoarseClock`).

**ReloadPipelines** takes the other side of a reload: every `tools.New` starts
a pipeline on the context of the process. One remote source is followed through
any number of engines; its directory is seen as the URLs that its files come
from, which may differ between configurations, and a step that changes the
directory marks the rounds it disturbs. Its removal may fail half-way
(`ClearFails`), where the disk refuses or another pipeline is writing to it.
**MCReload** runs it beside HotReload.

**ScrapeCrawl** is the loop of a scrape's `Fetch`: `Visit` and `Skip` take the
first page of the queue, which answers or not; `Return` and `Cancel` end the
walk. A URL is a record of origin, path, final slash and query, so that
`normalizeURL`, `seedPrefix` and `urlToFilename` are operators on it (`Norm`,
`SeedDir`, `File`). What the pages link to is any of a set of sites.

**ArchiveExtract** is `Fetch` of an HTTP source from the response on: the choice
between archive and file, then `Entry` by entry, with the first directory taken
for the wrapper and cut (`Wrapper`, `Stripped`) and files in each other's way.
**Credentials** is a request from `Load` of the credentials file to its answer:
the hosts of the file in any order and spelling, the allow list of schemes and
hosts, `Store.Apply`, `parseNetrc` line by line and the statuses that each caller
wants. The client of a source has no `CheckRedirect`, so net/http follows redirects
with the headers of the first request (`Redirected`) and takes the ones it calls
sensitive off from where a redirect has led out of the first host's domain
(`Carried`); a template's client follows none. **MCFetch** has the constants of
the three that meet the network.

**SchemaProcess** is `schema.Process`: an explicit stack of calls of `walk` over
a tree of structs, whose fields and tags are those of `internal/config/v1`. The
first walk fills in defaults and checks fields, the second checks whole structs.
A call of `walk` works on a copy that is put back at its end (`WalkOut`), as
`walkMap` does. `unsound` stands for the checks of a tool that ToolCall models.
A document is what decoding yields: every struct in it hangs, by fields that hold
structs, on the root (`DocumentAssumption`).

**SearchFor** is `search_for`: the length, the load of the pointer and the
search are three steps, between which the pipeline merges into any index and
makes another one live.

**ToolCall** is a tool from its definition to its answers. `Load` is what
`schema.Process` does with it: defaults, the checks of its parameters and the
dry run of its template; `Call`, `Param`, `Render` and `Answer` are the phases
of `Execute`, with the loop over the parameters one turn at a time. A Go value
is its dynamic type, its text and its number. Of a template its uses of keys are
kept in their order, each with the type of the function it is passed to and the
values of other keys on which the branches it is in are taken (`Reached`): the dry
run executes those of the zero values, a call those of its own. Of its output the
widths of the characters are kept.

**MarkdownChunks** is `chunkMarkdown` line by line (`Heading`, `Text`, `End`)
behind `stripFrontmatter` (`Strip`); **GrepSpans** is the loop of `grepFunc`
that joins spans of lines. Both are checked against a definition of what they
should yield that has no loop. **MCEngine** runs the five machines of the engine
and the three of its fetches beside each other.

In a composite of machines that share nothing (MCReload, MCEngine) each behaviour
gives one of them something to do, so that their states do not multiply.

The theorems are in **SourcePipelineProofs**, **ToolServerProofs** (with HotReload
and ReloadPipelines), **SearchIndexProofs**, **FetchProofs** (of ScrapeCrawl,
ArchiveExtract and Credentials), **ToolCallProofs**, **EngineProofs** (of GrepSpans,
SearchFor and MarkdownChunks) and **SchemaProofs**; **DataLemmas** has what several of them need about sums and
recursive functions. Modules named **MC...** give the constants of the runs.

## What is checked

| run | configuration | what it shows |
|---|---|---|
| `search_index` | two mergers, two searchers, up to two chunks of three shapes, fair | `Linearizable`: merges and searches are atomic; `MergedIsRebuilt`: an index merged in any order holds what building it at once would; `ScoresInRange`: no score divides by or counts what is not there yet; `CallsReturn`: both sides finish |
| `pipeline` | a local, an always-fetched git and an ifNotPresent archive source, two slots, two processes, one refresh that may overlap | `ServedChangesBySwap`, `DoneMeansServed`, `OncePerIndex`, `AlwaysIndexesWhole`, `CachedContentKept` |
| `pipeline_live` | a clone that may hang, a scrape, a local source that is not indexed, started outside of the project, fair | `OthersEnd`, `RefreshEnds` |
| `hot_reload` | three edits, three reloads, one client, three tools; or three engines of three configurations of one source; fair | `OfferedIsEngine`, `UnknownOnlyAcrossSwap`, `ServedBuilds`, `QuietIsCurrent`, `CallReturns`, `Settles`; of the pipelines left behind `ServesOwn`: an index filled by an undisturbed fetch is of its own configuration's source, and `SettlesOnOwn`: an always-fetched source is served in the end, unless an older pipeline still writes there |
| `engine` | 11,163 definitions of a tool, sound and not, with branches or without, and five sets of arguments; documents of four lines; texts of seven lines; configurations with what is left out and wrong in every tagged field; three chunks, two conventions, two indexes | `ConstraintsHold`, `AuthorDecides`: what a template is executed on; `DryRunPredicts`: what a template that passed can still fail for; `CutIsTight`; `ChunksAreSections`; `GrepIsWindow`; `ReportIsExact`: every default is filled in and exactly the errors are reported, however deep; `AcceptedIsSound`: what the rest relies on holds in an accepted configuration; `AnswersFromOneIndex` |
| | and 441 sites of seven URLs: two seeds of which one is repeated, two spellings of a page, pages that differ in the query, a page out of scope, one without text, four pages, depth two, fair; archives of up to three of eleven entries; netrc files of up to four lines, credentials files of two spellings of a host, redirects to four hosts | `NoPageTwice`, `WalkIsReach`: what is requested is exactly what is in reach; `PagesLimited`; `Returns`; `ArchiveIsKept`: an archive with a wrapper is there without it, entry for entry, and what one without it loses is named; `AuthIsOfHost`: a request carries what the files say of its host, and what of that a redirect takes along |

Seven runs find a property that the documentation states and the code breaks:

| run | property | what the code does |
|---|---|---|
| `pull_policy` | `PullRefetches` (`docs/development/architecture.md:85`) | `sources pull` obeys the pull policy: it keeps a directory that is there |
| `paths` | `PathsRelative` (`internal/search/chunk.go:12`) | after a refresh the paths of fetched sources are absolute |
| `locals` | `LocalsServed` (`docs/development/architecture.md:62`) | four hanging clones keep a local source from ever being indexed |
| `hot_reload_doc` | `HotReloads` (`pkg/cmd/serve.go:20`) | an edit before the watcher's first Stat is never served |
| `scrape_files` | `EachPageSaved` (`internal/project/sources/scrape.go:68`) | two pages that differ in their query are saved under one file name |
| `tool_default` | `DefaultsRender` (`docs/user/reference/config/README.md:785`) | the documented tool `ci_log` is accepted, and fails whenever its numbers are left to their defaults: an int is passed where `grep` takes a float64 |
| `tool_branch` | `NoKeyMissed` (`internal/config/v1/types.go:270`) | the dry run, which is to catch undeclared references, executes only the branches of the zero values: a key that is not declared, within an `if` on a parameter, is first missed in a call |

`OncePerIndex`, `AlwaysIndexesWhole` and `CachedContentKept` are stated for
rounds that do not overlap. When the interval elapses while the initial round
still runs, a late worker of that round merges into the index the refresh has
swapped in, and both rounds write the same directories: the model does this,
and the properties fail without that condition. `QuietIsCurrent` names the
races that leave an older configuration in service: overlapping reloads, a
write that does not advance the modification time, one before the first Stat.
`SettlesOnOwn` excepts a pipeline left behind that refreshes and writes the
directory (`Undisputed`): nothing ends it before the process does, and the two
take turns for good. `DryRunPredicts` leaves the branches to `tool_branch` that
the dry run did not take.

Three statements follow the code where a text of the repository says otherwise
or nothing, and hide nothing by that:

* `AcceptedIsSound` lets a docs entry name any source when the configuration
  declares none. `internal/config/v1/types.go:235` says that it "must match a key in
  project.sources"; the code asks for a match only if there is something to match
  (`internal/config/schema/process.go:83`), and so does its test
  (`internal/config/schema/process_test.go:507`). With a declared source every
  reference must be of one.
* `AuthIsOfHost` says of a redirect what net/http does: outside of the domain of its
  host, a request of a source keeps every header that is not sensitive. A
  credential with a `header` of its own (`internal/auth/credentials.go:139`) thus
  goes along to a host that the credentials file does not name; nothing promises that
  it does not.
* `PagesLimited` counts the pages that answered, as the code does, and
  `ChunksAreSections` takes a document up to a line that is longer than the
  scanner's buffer: neither limits pages that fail nor says that nothing is lost.

### Bounds

Two processes are enough for one to find what the other left, and one refresh
for every pair of rounds that can be alive together (a second refresh waits for
the first). Two slots for three sources make one wait. Three reloads let two
overlap after a third. A depth of two and a limit of four pages over seven URLs
let a page be found on a long and on a short way, and both limits bite.
Documents of four lines of eleven kinds hold front matter with a section behind
it, a closing --- with a heading, text or blanks on its line, or a heading of each of three levels and text. Three engines of
three configurations let two pipelines that were left behind meet the served
one. Three entries are a wrapper, a file and one in its way or outside; four
lines of a netrc file hold an entry, a macro with its end and another entry. Three
requests (`MaxRequests`, ten in net/http) lead out of the domain and back. Two
indexes let one `search_for` see one swap, and merges into the old and the new.
Seven lines
with up to two lines of context let spans overlap, touch and stay apart. A KB is
four bytes and the default limit two of them, so that outputs of a few
characters are cut in the middle of one.
`MaxStarts`, `MaxRefresh`, `MaxChunks`, `MaxEngines`, `MaxIndexes` and `MaxWrites`
are the only bounds in guards; each ends its behaviours, so deadlock is not
checked where they do.

### Fairness

Workers, reloads and calls are goroutines, so each enabled step is weakly fair.
Nothing makes a user start a command, edit the file or call a tool, and nothing
makes the process exit or the interval elapse. A transfer ends unless its source
is in `Hang`: the HTTP clients have timeouts, git has none. In ReloadPipelines
requests end and intervals elapse (`PipesFairness`), since a pipeline with an
interval refreshes as long as the process runs. The walk of a scrape is one loop,
whose steps are fair together.

## What is proved

Assumptions: `PipelineAssumption`, `ServerAssumption`, `ReloadAssumption`,
`ReloadPipelinesAssumption`, `SearchForAssumption`, `ToolAssumption`,
`GrepAssumption`, `ChunkAssumption` and `ProcessAssumption` of the index,
`ChunkAssumption` of MarkdownChunks, `CrawlAssumption`, `DownloadAssumption`,
`RequestAssumption` and `DocumentAssumption`, which say what the constants are. The
theorems hold for any number of sources, slots, rounds, tools, reloads, engines,
calls, chunks, merges, parameters, lines, pages, archive entries, hosts and structs. `IndexIsLinearizable`
has a hypothesis besides (`ScoreIsNumber`): the score of a term is a number.
TLC could not evaluate it, because it speaks of all numbers; the one the run uses
has it, and the theorem asks nothing else of the formula.

### The source pipeline

* `TypeCorrect`: `TypeOK` of the pipeline, by cases on its actions.
* `DoneIsServed`, `ServedIsFinal`: `DoneMeansServed` and `ServedChangesBySwap`.
  Neither is inductive. `ServedInv` adds that a process that is down is clean,
  that the initial round has ended once the channel is closed and the refresh
  round is idle between refreshes (`RoundsInOrder`), that a worker about to merge
  holds the index of its own round (`MergesHome`), and that one that says it has
  merged left an entry (`HasMerged`). `WorkerStep` states once what all seven
  worker actions have in common, so that preservation is proved once for them.
* `MergesOnce`, `AlwaysHeals`, `CacheIsKept`: `OncePerIndex`,
  `AlwaysIndexesWhole` and `CachedContentKept`. `RoundInv` adds to `ServedInv`,
  for rounds that do not overlap: a refresh has begun only after the initial
  round (`Apart`), so no worker is disturbed while it writes (`Untorn`); a
  source that is always fetched is whole when it is read and merged (`Healed`);
  one that is not is written only where nothing whole is (`Spared`); an index has
  entries only of workers that have merged into it (`Sourced`), so none can come
  twice. `OneRound` says that busy workers are all of one round, and
  `WorkerEffect` what a step of a lone round's worker does to its directory.

### The tool server under hot reload

* `OffersOneEngine`, `UnknownIsStale`, `ReloadTyped`: `OfferedIsEngine`,
  `UnknownOnlyAcrossSwap` and `TypeOK` of HotReload (with `ReloadTypes`: the time
  of the file is no later than the writes count). `ServerInv` says that the mutex is
  held by exactly the swapper that is inside, that the SDK offers exactly what is
  registered, all of it of the engine that runs, and that a call's handler is one
  of an engine that had the tool. `ReloadUsesServer` shows that a behaviour of
  HotReload is one of ToolServer, so what is proved of the server holds for it.
* `OnlyBuiltIsServed`, `QuietServesFile`: `ServedBuilds` and `QuietIsCurrent`.
  `HotInv` adds that a reload is inside SwapEngine exactly while it swaps, with a
  version that has an engine (`SwapsBuilt`), and, unless reloads overlapped or a
  write was not to be seen, that reloads come one by one (`OneByOne`), that
  nothing happens before the first Stat (`Fresh`), and that once the last write
  was seen and its timer has fired, the one reload there is holds the file's
  version or it is served already (`Coming`).
* `PipesTyped`, `FetchedIsOwn`: `PipesTypeOK` and `ServesOwn`. `PipesInv` adds
  `Good`: what is in the directory while a pipeline fetches undisturbed, stage by
  stage, for each of the pipelines. `DisturbingKeeps` shows that a change to the
  directory leaves every other pipeline good, because it marks it.

### The search index

* `IndexTypeCorrect`, `MergesRebuild`, `SearchesStayInRange`: `TypeOK`,
  `MergedIsRebuilt` and `ScoresInRange`. `IndexInv` follows the lock: who holds it
  and in which step (`LockHeld`); the batch of a merge that is under way is at the
  end of the chunks, behind those that have a length (`JobsKept`); lengths and
  postings are those of the chunks posted so far, one by one (`LengthsKept`,
  `PostingsKept`); a search has read the number of chunks there are (`CallsKept`).
  Between two merges all chunks are posted, which is what `NewIndex` does. The total
  and the average length are sums over sequences (DataLemmas).
* `IndexIsLinearizable`: the refinement of IndexContract. `ScoreInv` adds that a search
  has, for each chunk, the sum of the scores of the terms it is past, in the index
  that `NewIndex` would build; `ContractStep` maps `MergeFinish` to the contract's
  merge, `SearchReturn` to its search and every other step to a stutter.

### Scrapes

* `CrawlTypeCorrect`, `PagesOnce`, `LimitHolds`: `CrawlTypeOK`, `NoPageTwice` and
  `PagesLimited`. `CrawlInv` says that every URL that was queued was asked for or is
  queued still, and none of them twice (`Asked`, `Distinct`). `FreshFits` is what the
  recursion over the links of a page yields.
* `WalkReaches`: `WalkIsReach`. The code keeps a depth only while a page is queued;
  `BreadthFirst` says that there is a depth for every page that ever was, with the
  queue in order of it, and that what a fetched page links to is at most one further
  (unless the depth ends it): a page is found first along a shortest way. `LevelsFound`
  compares this with `Reach`, level by level.

### Archives

* `ArchivesAreKept`: `ArchiveIsKept`. A place in the tree depends on the wrapper,
  which is known only when the first entry with a slash has come (`TopIsFirst`), so
  `ArchiveInv` speaks of the place that was used for an entry, `Used`, and shows that
  a wrapper found later does not change it. Every file is at the place used for the
  entry it holds (`FilesAreUsed`); every entry read so far whose place is within the
  directory has a file there, its own or that of a later entry (`UsedAreFiles`).
  `PlaceBelow` and `SamePlace` say what `..` and `.` in a name do to the place of a
  name and of its rest. The second half of the property is about files that have a
  place whether or not their first directory is cut; an attempt to prove it for the
  others showed that it does not hold for them.

### Credentials

* `AuthAlwaysOfHost`: `AuthIsOfHost`. In the credentials file, each host that
  `Load` has come to has the credential of one of its spellings (`Loaded`). For
  netrc, the property reads the file as a whole, by the positions of its
  definitions, and the parser reads it pair by pair with a current entry; `Reads`
  relates the two after any prefix: an entry is there if a definition began it, it is
  the current one while no later definition began another (`Open`), and each of its
  values is that of the last definition it owns (`IsValue`). `WordsRead` is one pair,
  `LineRead` one line, by induction over its pairs, and `MacroNext` what a line in a
  macro does. A redirect changes no header of the first request; what it carries is
  those, or those that are not sensitive once one has led out of the domain, and the
  last host asked is outside only if one has.

### The configuration

* `ReportsExactly`: `ReportIsExact`. `SchemaInv` follows the stack of walks by the set
  of structs a walk has come to. In the first walk each is a frame of the stack or is
  done with; what a walk is past has its default and its errors reported
  (`Settled`), and what it leads to has been come to. At the end of a walk the set is
  closed under what its structs hold, so it is every struct (`AllReached`, from
  `DocumentAssumption`). References are checked while other fields still get their
  defaults: `ErrorsKept` shows that this does not change what a check says, because
  fields that hold structs have no default and keys never change. In the second walk all
  fields are final and the structs' errors are counted likewise (`StructsInv`).
* `AcceptedAlwaysSound`: `AcceptedIsSound`, from the above and the tags of each type,
  which `Table` and the `...Rows` lemmas list: what is required is there, at most one
  member of a group is set, a relation leads to a convention, a docs entry to a
  declared source if there is one. `OnePlace`: structs of one type hang at
  one place, so the keys a reference is checked against are those of all of them.

### A tool's call

* `CallTypeCorrect`, `AuthorAlwaysDecides`, `ConstraintsAlwaysHold`: `TypeOK`,
  `AuthorDecides` and `ConstraintsHold`. `CallInv` adds that the definition in use
  passed the checks (an enumeration excludes a minimum, no parameter has the engine's
  name), and that the parameters the loop is past have a value that meets their
  constraints (`PastMeets`); a later turn gives values only to names that have none.
* `DryRunAlwaysPredicts`: `DryRunPredicts`. `ValuesFrom` says where a value can come
  from: the client, a default, or the zero value of a parameter of that name. A name
  of several parameters has in the dry run the zero value of the last of them
  (`DryContextIs`), which is why the property excuses such names (`Excused`). A
  branch that the dry run took and that the call takes was executed there, on the
  same keys; of a use in any other the property says that it was not (`Untried`).
* `CutAlwaysTight`: `CutIsTight`. The bytes of a text are the sum of the widths of its
  characters, and the next character adds at most four.

### Template functions

* `GrepPrintsWindow`: `GrepIsWindow`. `GrepInv` adds `SpansInOrder`: no span
  begins behind the one of the next line or ends behind the reach of the last
  line looked at, so a span that touches can only be the last, and joining the
  two loses nothing.
* `SectionsAreChunked`: `ChunksAreSections`. `ChunkInv` says that while lines are
  read the scanner is in the section of one heading (`InSection`): the path at each
  level is the one above that heading (`AtLevel`), the body is what stands behind it
  (`BodyOf`), and the chunks are those of what is kept before it, at the positions
  that counting them gives (`ListsTo`).
* `AnswersAreOfOneIndex`: `AnswersFromOneIndex`. `SearchInv` adds that the
  indexes live since the call began are noted as they are and the one being
  searched is among them (`HeldIsLive`), and what is listed at each step
  (`SoFar`); `FoundProperties` is what a search returns, by the cardinality of
  what matches.

### Inductions over data

The induction theorems of the library take an operator, which the provers cannot
instantiate. DataLemmas puts an induction as the choice of a least counterexample
(`LeastNat`, `AllNat`), in which only sets of numbers occur, and shows that the
recursions the model uses have a solution (`RecursionExists`, `SumsExist`), from which
sums over sets and sequences get their usual laws.

### Only model-checked

* liveness: `CallsReturn`, `OthersEnd`, `RefreshEnds`, `CallReturns`, `Settles`,
  `SettlesOnOwn`, `Returns`. Fairness and ENABLED are out of the prover's reach;
* the seven properties that the code breaks, each by a counterexample.

Every invariant, action property and refinement that a run checks is a theorem.

## Not modelled, and the plan

What could be added, in this order:

* the step from the safety of a pipeline to its liveness, as far as it can be said
  without fairness: that a worker that has not ended has an enabled step or waits for
  a slot that another one holds, and a measure that every step of a round lowers;
* `ForPath` of the conventions, whose globs are matched by a third party's library
  and which keeps no state besides the index that search_for is checked with;
* local sources whose files come and go between the expansion of a glob and the
  reading of what it matched; the model has them whole.

Left out for good:

* tokenizing and stemming, conversion of HTML, templates (text/template), parsing
  of YAML, `buildJSONSchema`, the documentation generator with `describe.go`, flag
  parsing: formatting or third party code with no state to get wrong;
* the setup assistant, a server of fixed documents, and the wiring of commands;
* the sandbox (`internal/tools/sandbox.go`): path resolution against the links of
  the file system, one pure function of a string and a tree per call;
* the shutdown of the HTTP transport, which the SDK and net/http do.
