# Verification of pi-jev-wiki

TLA+ modules, TLC configurations and TLAPS proofs for the parts of pi-jev-wiki (`src/` and `eval/`,
TypeScript and JavaScript) whose correctness depends on the order in which sessions, daemons, model
calls and file operations happen. Paths below are relative to the repository's `src/` unless they begin
with `docs/`, `skills/`, `eval/` or name a file at the repository's root.

1. The system  2. Modules  3. What is checked  4. What is proved  5. Behaviours worth knowing
6. What is not modelled  7. Plan

## 1. The system

pi-jev-wiki is an extension of the pi coding agent. Every session (one agent process) loads it; many
sessions work on the same wiki directory at once, and nothing coordinates them but files. A wiki is a
directory of markdown pages whose frontmatter lists *claims* with a status, generated files derived
from the pages (`index.md`, `toc.md`, the shards, the manifest), and a state directory with a lock
file, the review queue, the sync baseline, the ledger and a raw-source index. Jev, a remote decision
model, gives verdicts; code turns verdicts and thresholds into actions. Beside it, `eval/` is a harness
that runs paid agents in copies of a repository, with and without the wiki, and compares them.

| component | state it keeps | operations | interacts with | module |
|---|---|---|---|---|
| Wiki lock (`wiki/lock.ts`) | the lock file `{pid, ts}` | `withWikiLock`, `isLocked` | everything that mutates shared files | `WikiLock` |
| Index, log, queue (`wiki/toc.ts`, `wiki/manifest.ts`, `review.ts`) | `index.md`, `toc.md`, shards, manifest, `log.md`, review items | `updateIndex`, `appendLog`, `enqueueReview`, `resolveReview` | lock; finalize, remove, lint, sync, ingest | `AtomicStore`, `WikiStore` |
| Pages and their listing (`wiki/layout.ts`, `extension.ts`) | one markdown file per page | finalize, remove, the index part of lint | no lock on pages: writer, sync, review, lint all rewrite them | `WikiToc` |
| Sync (`sync.ts`, `git.ts`) | `sync.json`: the last synced commit | `syncWiki` | git, Jev, pages, queue | `WikiUpkeep` |
| Review (`extension.ts`, `review.ts`) | none | list, resolve, confirm | the user, pages, queue, ledger | `WikiUpkeep`, `WikiLint` |
| Ingest and insights (`extension.ts`, `pipeline/`) | raw files, `raw-index` by hash, session log | `ingestSource`, `processInsights`, `promoteRecurring` | Jev, the session model, queue, pages | `Insights`, `Adjudication` |
| Page writer (`pipeline/write.ts`) | none | `writeAcceptedPages` | a model, pages, index, queue | `Insights` |
| Automatic capture (`extension.ts`, `pipeline/capture.ts`) | guards and cadence variables per process, `pending-capture.md` | the hooks, `autoCapture`, finalize | insights, registry, the user | `AutoCapture` |
| Shared embedder (`vector/embedder/`) | one daemon per agent directory: lock file, socket; one client per session | hello, embed, shutdown; peek, stop, ensure | vector index, query | `Embedder` |
| Vector index (`vector/index.ts`, `vector/sqlite.ts`) | SQLite rows by (wiki, path, key), state per wiki | `indexWiki`, `forgetWikiIndex`, reset, `knn` | embedder, pages, registry | `VectorIndex` |
| Registry (`vector/registry.ts`) | `wikis.json` | register, enable, remove | capture routing, search, index | `VectorIndex` |
| Search and automatic retrieval (`wiki/search.ts`, `auto-retrieve.ts`) | an in-process BM25 cache, the last query | `wiki_ask`, the hook before a prompt, fuse, judge, gate | embedder, Jev, pages | `Retrieval`, `Ranking` |
| Jev client (`jev.ts`) | usage totals | `systemOne` with retries, `mapLimit` | the network | `Retrieval` |
| Lint (`lint.ts`) | none | unbacked claims, contradictions, duplicates, rewrites | index, queue, ledger, Jev, pages | `WikiLint`, `WikiToc` |
| Ledger, metrics, triage | append-only journals | append, read, summarise | everything writes them | in `WikiLint`, `Insights` where a decision reads them |
| A/B harness (`eval/`) | `results.jsonl`, patches, judgements, copies | run, resume, judge, report | git, npm, pi, graders | `EvalRun` |
| Configuration, settings, structure, doctor, local provider, `packages/pi-wiki-eval`, `scripts/` | JSON files, reports | load, report, release, test | | not modelled, section 6 |

What is hard, and so what the properties are about:

* **Interleaving.** All shared files are read, changed and written by several processes. Some of these
  updates are inside the lock (index, log, queue), some are not (pages, sync state, registry, raw files).
* **Staleness.** Pages, queue items, the ledger, the directory listing are read before awaits that take
  seconds or minutes (Jev, a model, the embedder, a user's answer) and used, or written back, after them.
* **Crashes and partial failure.** A session may die, and any await may throw, between two writes; one
  of four concurrent adjudications, or one half of a search, may fail alone.
* **Timeouts.** The lock and the embedder's files are taken over from owners that look dead; a request
  to Jev is repeated while the budget of the query it belongs to runs out.
* **Bounds.** `maxClaims` per sync, `maxCandidates` per judgement, the room of a brief, retries.

What makes each component correct, in short: the lock excludes (as far as it does, section 3.1) and is
never lost for good; updates of shared files lose nothing and derived files follow their source; the
index converges to the pages; the sync baseline never passes unchecked changes; claims that were
invalidated are asked about; critical claims are settled only by a user; only backed claims reach a
page and what is undecided reaches the queue; captures are paced, routed by what was edited and wait to
be filed; vectors of two models are never mixed and rows belong to the wiki whose name they carry;
nothing is injected into a prompt without a verdict; lint asks about every claim written past the
pipeline and about no other; an evaluated agent never sees the answer, and what is counted is its work.
`PROJECT.json` lists each hazard with its line and the properties that cover it, or why none does.

## 2. Modules

| module | extends | models |
|---|---|---|
| `WikiLock` | | `withWikiLock` with takeover, timeouts, crashes and time |
| `AtomicStore` | | abstract: the index, the log and the queue as sets, each update one step |
| `WikiStore` | `WikiLock` | the same updates as the code makes them, inside the lock; refines `AtomicStore` |
| `WikiToc` | | pages, `index.md` and the calls that keep them together |
| `WikiUpkeep` | | `wiki_sync` and `wiki_review` over the claims of a page |
| `Adjudication` | | the decision about one claim, as operators: `decideClaim`, `chooseTarget`, `resolveWriterMode` |
| `Insights` | `Adjudication` | `wiki_ingest`, `wiki_insights`, the page writer, recurring candidates |
| `AutoCapture` | | the hooks, their guards, routing, pending captures |
| `Embedder` | | the embedder daemons and their clients |
| `VectorIndex` | | the registry, the rows and the runs that keep them |
| `Ranking` | | fusion, reranking and brief, as operators |
| `Retrieval` | `Ranking` | the cache of pages, the search, Jev's judgement with retries, the gate |
| `WikiLint` | | `wiki_lint` against ledger, queue, reviews and writers |
| `EvalRun` | | the runner, its copies, resuming, the judge, the choice of rows |
| `...Proofs` (8) | the module named, TLAPS | theorems, section 4; `WikiStoreProofs` has those about `WikiLock` and `WikiToc`, `VectorIndexProofs` those about `Embedder`, `InsightsProofs` those about `Adjudication`, `RetrievalProofs` those about `Ranking` |
| `MC...` | the module named | instances for TLC |

How they compose: `WikiStore` is built on `WikiLock`, and shows that an update under the lock is one
step (`UpdatesAreAtomic`) as long as no lock is taken from its holder. `WikiToc`, `WikiUpkeep`,
`Insights` and `WikiLint` take such an update as one step on that ground. `AutoCapture` ends where
`Insights` begins: what processing a batch accepts is any number of insights. `Insights` applies the
operators of `Adjudication` to Jev's verdicts, `Retrieval` those of `Ranking` to what a search finds.

Operators introduced by a comment `Mutant:` are not used by any specification. Each is a definition as
a plausible mistake would have written it; replacing the definition after it by the mutant makes TLC
report the property named in `PROJECT.json`, which shows that the property depends on that line.

History variables (what happened, for the properties) are marked so where they are declared.

### 2.1 WikiLock

A member of `Proc` is a chain of calls of `withWikiLock`. Its `pc` is the next await: `open` (create
exclusively), `write` (the JSON), `fn` (the mutation), `release` (the `finally`), and for a caller that
found the file `read`, `decide`, `remove`. The lock file is its creator, whether its content is written,
and its age. `evicted` is a history variable: the holders whose own file another caller deleted. Ages and
waits saturate one above the bound the code compares them with, so the clock is unbounded and the state
space finite without a constraint. `Crash` leaves the file behind; `WriteFails` is a full disk.

### 2.2 AtomicStore and WikiStore

A file is a set (of page entries, log blocks or review items), an update one of *upsert*, *remove*,
*append*, *enqueue*, *resolve*. `WikiStore` splits it into `ReadFile`, `WriteFile` and, for the index,
`WriteToc` and `WriteManifest`, and runs them inside `WikiLock`'s `fn` phase; a caller may die at each.
`lost` becomes true with the first eviction. `UpdatesAreAtomic` is `AtomicStore`'s specification under
the refinement mapping *store -> store*, for as long as `lost` is false: every write is one abstract
update, every other step a stutter.

### 2.3 WikiToc

Pages have versions; the index has, for each page, the version it describes. A finalize or a lint reads
pages first and takes the lock for `updateIndex` afterwards, a remove deletes the files first. Any call
may be cut short after any of its steps (`MaxFailures`).

### 2.4 WikiUpkeep

The claims of one page with their statuses; git as the sequence `commits` of what each commit
writes and deletes (a rename deletes the old name); `Changed` is what `git diff --diff-filter=ACMR` lists, so
not the deleted; the baseline; the queue of review items. `SyncStart`, `SyncDiff`, `SyncCollect`, `SyncJudge` (one Jev
verdict), `SyncWritePage`, `SyncFinish` are the awaits of `syncWiki` in order, `ReviewStart`,
`UserAnswers`, `ReviewRead`, `ReviewApply`, `ReviewResolve` those of `wiki_review`. `Abandon` ends a
call anywhere: a crash, or a Jev call, a git call or a write that throws. A Jev verdict is any verdict.
`SyncDiff` takes the baseline or a ref the agent gives, and git may refuse; `SyncCollect` checks `MaxClaims`
claims, `SyncSkip` is a page that cannot be read. `settled` is a history variable that no guard reads: the
commit up to which each claim was checked, or left out by a sync that moved the baseline there (`omitted`
is what a sync is leaving out). The first sync of a wiki takes its claims as checked, as the code does.
A commit gives a file a content it never had: a file that is changed back between two syncs is not modelled.

### 2.5 Embedder

`Daemon` is a set of process slots. A starting daemon loads the model, reads the pid in the lock file,
removes it, creates it exclusively, listens, and on `EADDRINUSE` probes, unlinks and listens again: each
step an action, in this order. A process that ends without cleaning up leaves files owned by `Dead`.
`Stop` is the shutdown request and the idle exit; `Kill` a SIGKILL. A client is the one client object a
session has for its configuration, with one socket (`conn`) and one attempt to connect (`link`, the
promise `connecting`) for all its calls (`Caller`: a warm-up, queries, an index run). `Embed` sends the
request if there is a socket, compared or not, and joins or makes the attempt otherwise; `Attach`, `Check`
(with eviction of a daemon of another identity), `Spawn`, `Verify` and `GiveUp` are the attempt; `Answer`
and `RequestFails` end a request, with one retry per call. `Drop` is the method `drop` and what the
rejected promises do next: the requests beside it are retried or fail, and the handshake under way starts a
daemon or fails the calls that wait for it. `Peek` and `StopEmbedder` are the status check and the stop
command, which share the socket; a socket that an attach replaces stays open, and what was sent over it
is still answered (`sent`). A warm-up is a call without vectors; its missing retry is not modelled.
Assumptions about time, all from the code's constants: the idle time is longer than a call needs to
reach a daemon it has found; the deadline of `waitForDaemon` is longer than a start. An answer of a living
daemon that comes too late, to a hello or to a request, is one of the `MaxFaults`.

### 2.6 Adjudication and Insights

`Adjudication` has `decideClaim`, `chooseTarget` and `resolveWriterMode` as operators over records of
Jev's answers, with the thresholds of the configuration as constants; scores are hundredths.

In `Insights` a call is an ingest or a capture, in any session. An ingest goes through `CheckDuplicate`,
`ChooseName`, `StoreRaw`, `IndexRaw`, `Extract`; a capture begins with its insights. Each claim of the
batch is a job of its own (`mapLimitLocal` runs four at once): `Judge`, `QueueClaim` (review or dispute),
`ReadToAmend` and `WriteAmended` (a reinforced or superseded claim on its page), `LogClaim`. Then
`ReadLog`, `RaiseRecurring`, `NotePromoted` (promoteRecurring), and the writer, page by page:
`StartWriting`, `ReadTarget`, `WriteGroup`, `ListWritten`, `FlagWritten` (numbers the model invented).
`FailCall` and `FailJob` are whatever throws; the other workers of a batch go on, as they do in the
code. A page is the set of its claims; the prose is left out, but for the numbers in it.

### 2.7 AutoCapture

A process goes through sessions (`Enter`, `SwitchSession`, `Restart`), in which messages and edits
come in. `SettleTask`, `SettleCommit` and `Compact` are the hooks: they test the guards (`MayCapture`)
and begin a capture, a record in `captures`, which is sifted, routed and processed later, when the
session may be another one (`FindNothing`, `Proceed`, `Accept`, `FailCapture`). What it accepts is a
brief: `WritePending` puts it into the wiki's `pending-capture.md`, `Tell` shows it to the session
(`TellNobody` in a process without a UI: there it is in the file only), `Finalize` deletes the file. The debounce is the time until `CoolDown`.

### 2.8 VectorIndex

The registry is read (`ReadRegistry`, `Discover`, `Unregister`) and rewritten (`WriteRegistry`) in two
steps; adoption of discovered wikis repeats this for each. The store has one row per (wiki, page); a run
of `indexWiki` is `Scan` (pages and hashes), `Prune`, `Upsert`, `Finish` (purge of other identities, state);
a rebuild of all goes on with the next wiki of the list it read at first. `Reindex` is the finalize's
run over its pages. `Searched` is the condition `knn` puts on a row; `HasWarmIndex` that of the callers.

### 2.9 Ranking and Retrieval

`Ranking` is `rrfFuse`, the reranking of `judgeRetrieval`, `dedupeByPage` and `renderBrief`, over hits
of pages and chunks. A sort or a filter is a sequence taken at the indices of an `Order`, the one
arrangement of them in which nothing precedes what it should follow; a fusion is the map of the code after
each result, as a recursive function. So both can be reasoned about. `Fusions` and `Judgements` tabulate
what these operators give for all rankings and answers there are. In `Retrieval` the cache of pages is loaded by the query and by a rival search of
the same process (`Check` the fingerprint, `List`, `ReadDoc` for each page, `Install`), while pages are
written and deleted and files cannot be read at times (`Flaky`). A query is one of the hook (`Prompt`) or of `wiki_ask` (`Ask`), by keyword, meaning
or both; its halves end or fail on their own (`LexicalEnds`, `SemanticEnds`), are fused (`Fuse`) and judged.
`JevAnswers`, `JevFails`, `Retry`, `JevRefuses` are `systemOne`; `Expire` is the hook's budget or an abort.
The rankings a semantic index may return are a constant; those of a keyword search are all orders.

### 2.10 WikiLint

A lint reads the pages (`Start`), then the ledger (`ReadLedger`), queues what has no accepting entry
(`Enqueue`), has pairs judged (`Relate`), reads and writes the pages it marked (`Reread`, `Rewrite`),
and judges pairs that might be one claim (`Compare`, `Merge`). `Fail` ends it anywhere. Around it, a
claim is filed (`Accept`, `File`, `FileRecord`), written by hand, finalized, synced and reviewed. The ledger
is what lint finds in it: `accepted` and `named`, with lint's own understanding of a name
(`lint.ts:219-222`): an entry whose words hold the path of the page and, for a claim with an id, the id
or the claim's first sixty characters, as a part of whatever they are. Constants say which claims that
confuses: `Loose` are found with the path alone (no id, or one that a path has in it), `Mentions[c]` with
the page and the id of `c` (the same id, or `c1` of `c10`; not `c` itself, if its id has an upper-case
letter, since the values are lower-case), `Quotes[c]` with its first words. The words of agents' notes and
of insights, which might name anything, are left out; the reason of an item, which a review without a note
repeats, is in (`ReviewRecord`).

### 2.11 EvalRun

`Invoke` starts the runner, always with `--resume`; `NextCell` takes the next cell that is not
recorded. `Clone`, `Exclude`, `Strip`, `Check` prepare the copy, a set of the things in it that matter;
`Agent`, `SavePatch`, `Quality`, `InstallGraders`, `Grade`, `AppendRow` are the rest of a cell, in the
order of `run.mjs`. `Abort` is a crash or an error anywhere. `JudgeStart`, `JudgeSample`, `JudgeAppend`,
`JudgeEnd` are `judge.mjs`, beside the runner; `Latest` and `Counted` are the rows `report.mjs` takes.
`packages` are the dependency directories that `Strip` leaves in the copy (`linkDependencies`), `LinkDeps`
says whether they are links, so that an installation goes to the repository's own, and `DepsIgnored`
whether the repository's `.gitignore` hides them in a copy, where a link is not a directory.

## 3. What is checked

Twelve runs, eleven that pass, in between a few seconds and four minutes with two workers, and one
that shows a disagreement. `TypeOK` is the first conjunct of an invariant of every run, but for
`WikiLock`, `WikiStore` and `WikiUpkeep`, where it is proved (section 4).

### 3.1 The lock

`WikiLock_calls` (three callers, one of which may die; stale and waiting times of one tick, so that a
holder may be younger than, at, and above the limit): two mutations overlap only after an eviction
(`OverlapOnlyAfterEviction`); the first eviction is always the takeover branch and never a release
(`ReleaseEvictsOnlyAfterEviction`); every call ends once the others have stopped calling
(`CallTerminates`); a lock left behind is deleted as long as somebody keeps calling
(`OrphanedLockIsReclaimed`). Three callers are needed: one that was evicted, its evictor and the owner
of the file that the evicted one's release deletes. The lock does not exclude altogether (section 5),
so all that follows about updates under it is stated *until the first lock is deleted under its holder*.

### 3.2 Shared files

`WikiStore_atomic` (two callers, one of which may die; one page, one key; zero bounds for the times, so
that every age is either fresh or stale): `UpdatesAreAtomic`, the refinement; `OneOpenItemPerKey`, no
claim is open twice; `TocFollowsIndex`, `toc.md` and the manifest describe `index.md` unless an update is
at work or died between them. The constraint `UntilFirstEviction` cuts behaviours after the first
eviction, where all of these are vacuous by their premise.

### 3.3 Index and pages

`WikiToc_converge` (two sessions, two pages, two versions, one failed call): `IndexConverges`, once the
pages rest and lint keeps running, every page is listed with what it says. Lint is needed, not just
finalize: a finalize may list what it read before the lock.

### 3.4 Sync and review

`WikiUpkeep_sessions` (two sessions that sync and review, one of them with a user; two claims, two commits of
one file each at any moment, one claim checked per sync, one review item, a git that fails and calls cut short
anywhere; three of the four verdicts and two of the five resolutions, the ones that take different ways;
symmetry over claims): `BaselineIsChecked`, the baseline passes no change of a claim's files that was not
checked, unless a sync left the claim out or the files were deleted since, however the two syncs and the
commits overlap; `InvalidatedIsQueued`, a claim that a sync invalidated has an open item;
`CriticalItemsAreConfirmed`, a critical item is resolved only as a user confirmed, though sessions share the
queue. The exceptions of the first are what the code does against its documentation (section 5). The same
properties are proved for any number of sessions, claims, commits and items.

### 3.5 Embedder

`Embedder_calls` (two daemon slots; two clients, one with two calls at a time, the other with one call
and with status checks and stops; at the start no files, files of dead processes, or a daemon of any
identity; one kill, stop or late answer): `CheckedVectorsMatch`, a request gets vectors of another identity
only if it went over a connection nobody had compared, and in a session that does not peek a foreign
daemon is connected only as long as its hello is under way; `OneEmbedderServes`, until a daemon is killed
the daemon that serves is the one that clients reach, although two may pass the lock file;
`CallsAreServed`, a call that is made again and again sends its request again and again, to the right
daemon if the session does not peek. Two slots suffice for the races of the election, which are between two
starting daemons or a starting and a stopping one. A stale socket at the start counts as the one fault.

### 3.6 Ingest, insights and the writer

`Insights_batches` (three ingests, two of the same source and two of one title; three captures; any
selection of them with two claims in all, so two claims of one batch or one of each of two calls; one
failing step; a text recurs at two; seven verdicts, one for each way through `decideClaim` and each
relation): `PagesAreBacked`, what the writer files is backed and not critical, in mode auto only, and marked
user-stated, until it is superseded, exactly if it was filed on somebody's word, also where a stale copy
of a page is written back;
`OpenQuestionsAreQueued`, an undecided claim, a contradiction and an invented number wait in the queue
when the call has ended; `RecurringIsRaised`, what came up often enough and was never taken is raised,
though calls read the log before the others have written theirs; `NothingIngestedIsDropped`, a source
called a duplicate is adjudicated by somebody, and the raw index leads to a file that holds the source
unless two calls took one name; `LossesAreStaleWrites`, a page loses a claim only to a call that had read
it before it changed, or to a new page that took its name. The interesting cases need two claims: two
jobs that rewrite one page, two calls that promote one group, two ingests of one source. A call that fails
leaves questions unasked and sources unadjudicated (section 5): two of these properties say "when the call
has ended", "unless a step failed".

### 3.7 Automatic capture

`AutoCapture_sessions` (two processes; the first goes through two sessions with two messages and an edit
in each, cadence task or commit, one commit, one compaction or failure; the second only finalizes; two
briefs): `CapturesArePaced`, the debounce and the message count hold for what was captured, not only for
what was begun; `RoutedByItsEdits`, a brief is in the wiki of the directory or in one its session edited,
unless the session was left with the capture in flight; `BriefsWait`, an accepted insight is shown, or in
the file, until its session is over, and after that lost only to another brief or to a finalize by
somebody who has not seen it. Which processes have a UI is left open: without one the brief is never
shown, and may be lost that way while its session goes on; `TasksAreCaptured` (liveness), the messages of a session that settles its
tasks are captured in the end, also after failures. The case of two edited wikis with no owner is not reached in this
instance: one edit is allowed.

### 3.8 Vector index

`VectorIndex_sessions` (two processes, interchangeable; three roots, two registered; two pages, one
edit; four names; two runs, so two at a time or one after the other; one choice of another model; two
changes of the registry; one reset, failure or death): `RowsStayHome`, the rows under the name of a wiki
are of its own pages and the name is nobody else's, unless a registration was lost or the wiki was
removed under a run; `UndisturbedRunsAreExact`, what an undisturbed run leaves is exactly the active
claims, whatever failed before, under whatever identity. A lost update needs two processes and two
changes, a wrong row a name that is used again: all fit.

`VectorIndex_userstated` (violation, `ActiveClaimsAreFound`): pages spell a status `user-stated`
(`chunks.ts:26`), the search looks for `user_stated` (`sqlite.ts:245`), so what the user stated is
embedded and stored, and never found by meaning. The finding in `PROJECT.json` quotes the lines.

### 3.9 Search and automatic retrieval

`Retrieval_prompts` (two pages, one of which exists at first and cannot be read at times, two writes; three results at most, two of
them judged, room for one; one retry; semantic rankings empty or of three chunks, two of one page):
`CacheCoversTheWiki`, while the fingerprint is unchanged the cache misses no page but
one that could not be read, though pages are written while they are read and a rival loads the same cache; `FusionIsSound`, nothing is lost or counted
twice, and a page and its chunks have one entry; `InjectedIsBacked`, only a judgement that holds injects,
only candidates that are not unhelpful, the best of each page, and none is left out for a worse one
(a run without a semantic half included, section 5);
`AsksDegrade`, an ask shows what was found whatever becomes of the judgement; `EveryQueryEnds`
(liveness). Three results and two judged are the smallest numbers with a candidate that is not judged.

### 3.10 Lint

`WikiLint_passes` (two claims on two pages that share a file and most of their words, one without an
id, one written by hand; on its page a third, filed before, whose id holds that of the other; one lint at a
time, with and without fixes and Jev): `FiledClaimsAreNotQueued`,
an accepted claim is never queued for want of an entry, because the ledger is written before the page and
read after it; `UnbackedAreRaised` (liveness), a claim with an id that was written past the pipeline gets
an item, unless a sync or a review enters in the ledger something about it, or about a claim that lint
cannot tell from it (that exception is a shortcoming of the code: section 5); `RewritesLoseOnlyLateEdits`, a rewritten page loses only what was written between its second
reading and its writing (a second lint would only be one more writer: the theorem is for any number);
`UnbackedSettle` (liveness), lint and review come to rest, if the agent does not
answer "out of scope" for ever, for the claims that are found in entries about them. Contradictions and duplicates have no such property: the code raises
them again (section 5).

### 3.11 The A/B harness

`EvalRun_resume` (one card, three arms, one repeat, one sample; two faults, a card that leaves notes or a
grader in a copy among them):
`AnswerIsHidden`, no agent starts in a copy with the target commit, a remote, a grader or the notes, nor a
control arm with the wiki; `PatchIsTheAgents`, of what the harness and the tooling put into the agent's
tree no grader and no setting is in a patch, and nothing of the wiki's before the judge, but dependencies
that git does not ignore there (as in the run) are in both, against what the code says of itself
(section 5); `PairsShareDependencies`, the valid rows that one run adds ran and were graded with
the same dependencies; `JudgedIsCounted`, what is judged is what counts, however runs, resumes and judges
interleave; `EveryCellIsMeasured` (liveness), every cell has a valid row in the end, if flawed
cards are put right. Two faults: one to spoil an attempt and one to interrupt its repetition. A second card
adds cells of other names and nothing the arms of one card have not.

### 3.12 Fairness

Weak fairness unless said otherwise; what is not listed is never forced to happen.

* `WikiLock`: every caller takes the next step of a call it is in, and time passes; nobody is forced to
  call, or to die. `WikiToc`: a call goes on once begun, and lint is run again and again (the premise "as
  long as lint runs" of the property). `Embedder`: processes and clients take the next step of what they
  are at, a request is answered or fails, a daemon that nobody is connected to gets idle. A living daemon is
  late only `MaxFaults` times: a client whose every hello comes too late never connects. `CallsAreServed`
  has the premise that from some time on the serving daemons own their socket: two daemons that both
  replace the same stale socket may delete each other's, and then the one without a file keeps the lock
  until it gets idle.
* `AutoCapture`: a capture goes on or fails (every await has a timeout or an error), a brief is
  delivered, tasks go on settling, ten minutes pass. `Retrieval`: the cache is loaded or the load fails, the
  search takes its next step. `EvalRun`: the runner goes on or aborts, and is resumed.
* `WikiLint`: a lint goes on or fails. Strong fairness says what the property's sentence presupposes of
  the agent and of luck: lint with `autoFix` is asked for again and again, does not fail before the
  ledger or the queue every time, and an open item that is there again and again is reviewed at some time.
* `WikiStore`, `WikiUpkeep`, `Insights`, `VectorIndex`: none, their properties are safety properties.

For a step of a program this is what an operating system and an event loop give every process that is
not suspended for ever.

### 3.13 Bounds

Commits, items, versions, edits, runs, briefs, failures and faults are bounded by constants named
`Max...` in guards; each constant's comment says what it counts. `Limit`, `MaxCandidates`, `Room`,
`MaxRetries`, `Enough`, `Recurs`, `MaxClaims`, `MaxPairs` and `MaxMerges` are no bounds of the models but
parameters of the code, with smaller values. `CHECK_DEADLOCK FALSE` stands where the bounds let
everything come to rest: calls that all ended (`Insights`), events that are used up (`AutoCapture`,
`VectorIndex`). A state constraint is used once (section 3.2), symmetry in `WikiUpkeep` and `VectorIndex`,
which check no liveness.

## 4. What is proved

For every value of the constants that satisfies the named assumptions of the modules (`NoOne` is no
caller, bounds are natural numbers, thresholds are scores, subsets are subsets). Each invariant below is
of the form *types and a strengthening*, proved of the initial states and of every action.

* `WikiStoreProofs`, about the lock: `TypeCorrect`, `Ownership`, `OverlapNeedsEviction`, `ReleaseIsInnocent`.
  The inductive invariant is `TypeOK /\ OwnsFileOrEvicted`: a holder that was not evicted owns the file, so
  two such holders are equal, and a release deletes another's file only if the releaser was evicted.
  About the files: `StoreTypeCorrect`, `UpdatesImplementAtomicStore`, `TocFollows`,
  `NoClaimOpenTwice`. Every step of the store is a step of the lock or leaves its variables alone
  (`StoreStepIsLockStep`), so the lock's invariants carry over. The strengthening `Inside` says that
  while no lock was lost, what a caller between read and write holds is what the file contains; it is
  inductive because two callers inside would both own the lock (`Alone`). Each write is then `Apply` of
  the current content: an abstract step.
  About the listing (`WikiToc`): `TocTypeCorrect`, what the calls hold fits the step they are at, and the
  lock belongs to the call between `index.md` and the manifest.
* `WikiUpkeepProofs`: `UpkeepTypeCorrect`, `CriticalItemsNeedTheUser` (with `PastTheGate`: a session
  past the gate with a critical item has its user's yes, or wants to defer; items never become
  critical or change their claim), `InvalidatedClaimsAreQueued` (with `CopiesAreQueued`: already the
  private copies a session will write back have open items for what they invalidate),
  `BaselineNeverPassesUncheckedClaims` (with `SyncsAreSound`: what a sync is still going to check or leaves
  out covers every change up to the HEAD it saw, which is not before the commit it will make the baseline).
* `InsightsProofs`, about the operators of `Adjudication`: `DecisionIsAnAction` (every combination of answers
  leads to one of the eight actions), `AcceptedIsBacked`, `SensitiveIsRejected`, `GroundingIsMonotone` (where
  nobody vouches for a claim), `TargetFits`, `CriticalIsNotAutomatic`, and `NewPageConfidenceIsUnused`: the
  second test of `chooseTarget` for a single winner can never apply, so the setting has no effect.
* `InsightsProofs`, about the calls: `InsightsTypeCorrect`, `WrittenClaimsAreBacked`, `QuestionsAreQueued`,
  `RecurringIsPromoted`, `IngestedIsKept`, `OnlyStaleWritesLose` (an action property) and `FreeNameIsFree`, for
  any number of calls, sources, claims of a source, pages and failures. The inductive invariant `InsightsInv`
  has one part for each property, beside the types and `Control`, which says how far the jobs of a call are
  at each of its points. `Rightful`: not only what is on a page was filed by right, also what a call holds of
  a page and will write back (a copy may be stale, and is then no worse than stale); that an accepted claim
  is backed comes from `AcceptedIsBacked`. `Asked`: a job that is past a question has queued it, and what the
  writer flagged is remembered until it is queued. `Promoting`: without failures, a text that came up often
  enough and is neither accepted nor promoted has a call that is still going to look at the log, or has seen
  it; each call looks after it has written its own entries, which is why the last one cannot miss it. `Kept`:
  an entry of the raw index leads to a file with the source, or two calls were given one name. Assumed of
  the constants (`InputsAreGiven`): a text is alike itself and alikeness is an equivalence, `Recurs` is not
  zero, the claims of a source are texts, what pages hold at first are texts.
* `WikiLintProofs`: `LintTypeCorrect`, `AcceptedClaimsAreNotQueued`, `LateEditsAreAllThatIsLost`. For the
  second the strengthening is `FiledAreAccepted`: a claim that is not written by hand is in the ledger
  wherever it turns up, on the page, in the writer's hand, in the copies of a lint; with
  `UnbackedAreByHand`, about what is to be queued. The third, an action property, rests on
  `FreshUnlessLate`: between reading a page again and writing it, what lint holds of it is what is on it, but
  for the claims somebody changed since; another lint that writes the page back is one of those somebodies,
  so any number of lints may run.
* `EvalRunProofs`: `HarnessTypeCorrect`, `AnswerStaysHidden`, `PatchesLeaveOutTheHarness`,
  `PairsShareTheirDependencies`, `JudgementsAreOfWhatCounts`, `PlanIsInjective`. `Prepared` says what each step of the preparation guarantees, up to the
  check, which is the step everything rests on; `Sound` that the runner's cell is one of the plan and a
  patch exists where there is a row; `DepsStand` that the valid rows of a run have the dependencies the next
  agent will find. That the last row of a cell exists (`HasLast`) is well-foundedness of the integers.
  `JudgementsAreOfWhatCounts` rests on `NotRunAgain`, the runner does not come to a cell that has a valid row:
  so neither the row nor the patch of what counts is replaced, and what the judge has in hand stays what
  counts. That needs `PlanIsInjective`, from the arithmetic of the rotated arms, and both have the hypothesis
  that no arm is named twice (`ArmsNamedOnce`), which the code does not see to (section 5).

* `VectorIndexProofs`: `IndexTypeCorrect`, `RowsAreOfTheirWiki`, `UndisturbedRunsRepair` and
  `FreeNameIsUnused`, for any number of sessions, wikis, pages and presets. The inductive invariant `IndexInv`
  has four parts beside the types. `Housed`: whatever the store or a run has to do with a name (a row, a run
  under way, a place in the list of a rebuild), the name is registered for just that root, unless it is
  shaky. That alone is not inductive: a session that has read the registry may write it without the name.
  `Vacated` says that when a name is on its way out, its rows are gone and no run has to do with it: this is
  what the order of forgetWikiIndex and unregisterWiki buys, and what a lost update or a run under way takes
  away. `RunsAreRight`: on the pages on which a run was not disturbed, what it read is what the pages hold, and
  the row is as the run will leave it, or is one it still has to store or to remove; so `Disturb` leaves
  nothing out that matters, and two runs that read the same may overlap. The last part is
  `UndisturbedRunsAreExact` itself. Assumed (`IndexIsConfigured`): more names than roots (`uniqueName` counts
  on without end), nothing registered twice at first, finitely many roots.
  About the embedder (`Embedder`): `EmbedderTypeCorrect`, `HandshakeProtects`, `SocketElectsOne`. The first
  needs that whatever a client is connected to serves. `HandshakeProtects` rests on
  `ConnectionsAreChecked`: a client whose connection was compared is connected to a daemon of its own
  identity and attempts nothing, and a client that never peeks has compared its connection or is about to;
  `LoseKeeps` is the lemma about `drop`, whichever calls it hits. `SocketElectsOne`
  rests on `SocketsAreLive`: until a daemon is killed no socket file is stale, the daemon it names
  serves, and so nobody is about to unlink one and listen again.
* `AutoCaptureProofs`: `CapturesAreKept`, `CaptureTypeCorrect`, `CapturesFollowEdits`, `AcceptedBriefsWait` and
  `CapturesKeepTheirPace` (an action property), for any number of processes, sessions, wikis, messages and
  briefs, and any cadence. The inductive invariant `CaptureInv` begins with the types, which say more than
  types: at most one capture of a process is in flight, and none without the flag. Everything rests on that.
  `CapturesGuarded`: a capture in flight passed the guards, and they are as they were, since only the end of
  a capture moves them; so what advances them is paced although it began long before. `CapturesRouted`: a
  capture belongs to the session that is running or to one that was left with it in flight, and is routed
  by what that session edited. `BriefsKept`: a brief that reached the file is there until it is overwritten or
  deleted, and one that was shown is known to its session until that is over: a finalize before that files it.
  One that was never shown is of a session that is over or of a process without a UI.
* `RetrievalProofs`: `SearchesAreSound`, `SearchTypeCorrect`, `FreshCacheIsComplete`, `FusionsAreSound`,
  `InjectionsAreBacked` and `AsksShowWhatTheyFound`, for any pages, semantic rankings, weights, limits,
  answers and room. The inductive invariant `SearchInv` has two parts. `CacheInv`, about the cache: a
  fingerprint is never later than the last write, and a page that is there and not newer than the
  fingerprint is in the cache as it is, could not be read, or is still to be read by the load that has the fingerprint. It is
  inductive because the fingerprint is taken before the pages are listed, and a write gets a later time than
  any fingerprint there is; a load that a rival overtakes is no exception. `QueryInv`, about a search: what it
  has of each half is a ranking there may be, and what an ended search shows is what it found, what a
  judgement of that ranks, or nothing.
  What the operators of `Ranking` do is proved once, for any sequences of hits, and the theorems follow from
  it. An `Order` exists and lists every index once (`SortedOrderExists`: put everything at the place that as
  many precede it as come before it), so a sort or a filter gives the same hits again (`ByScoreLists`,
  `PickedLists`). `AddResultMerges`: one more result adds its score and nothing else, whether it meets its
  own entry, absorbs that of its page or is new, and leaves the entries apart; `FusionMerges` carries that
  over all the results by well-foundedness of the numbers, and `RrfFuseIsSound` through the sort. `RerankedIs`:
  a reranking is a rearrangement, by falling relevance. `BriefIs`: of every page with a helpful hit the brief
  has the best, or is full of hits that are as good. The totals are cardinalities of sets of units
  (`TotalSplits`, `TotalRenamed`), so a sum over a sequence needs no induction. Assumed
  (`SearchIsConfigured`): finitely many pages, a limit and at least one judged candidate, weights for as many
  ranks as a search returns.

Every safety invariant and action property that a passing run checks is stated by one of these theorems.
Only model-checked is the liveness (`CallTerminates`, `OrphanedLockIsReclaimed`, `IndexConverges`,
`CallsAreServed`, `TasksAreCaptured`, `EveryQueryEnds`, `UnbackedAreRaised`, `UnbackedSettle`,
`EveryCellIsMeasured`), which the prover does not do: it has neither `ENABLED` nor fairness.

## 5. Behaviours worth knowing

Found while modelling. Only the first is stated as a property of a run that fails
(`VectorIndex_userstated`); the others are why properties are stated with the exceptions they have.

The lock and what it protects

* `lock.ts:54-67`: the lock file is created and filled by two awaits; a waiter that reads it in between
  takes the empty file for a broken lock and deletes it, and both mutate. A waiter whose file was released
  meanwhile, or two waiters that saw the same stale lock, delete a successor's. `CHANGELOG.md:423` says
  "shared-state mutations are atomic across sessions": they are, until the first such eviction.
* `toc.ts:177`, `vector/catalog.ts:116`: an update that dies between `index.md` and the manifest leaves a
  manifest that nothing reports as stale; `entriesHash` is written and never compared.
* `extension.ts:1376`: a finalize that read a page before its removal lists it again afterwards;
  `extension.ts:1682`: a removal that dies before the index leaves the entry. In both cases a second
  `wiki_remove` refuses the page as missing, lint only reports it, and the entry stays (`README.md:68`:
  "delete obsolete pages and their TOC entries").

Sync and review

* `docs/wiki/wiki/invariants/failure-loop-safety.md:25`: "Sync persists progress incrementally, so its baseline
  never advances past claims that were not actually checked." It advances once, at the end, and past these:
  `sync.ts:160`, the affected claims beyond the first `maxClaims`; `git.ts:41`, the claims whose files were
  deleted or renamed (`--diff-filter=ACMR` does not list them, so the claim stays as it is and is never asked
  about); `git.ts:42`, every claim if `git diff` fails, which looks like "no change"; `sync.ts:110`, the claims
  of a page that cannot be read; `sync.ts:144`, what lies before a ref the agent gives (`extension.ts:1449`:
  "later runs check all commits since then"). `BaselineIsChecked` has these and no other exceptions.
* `sync.ts:273`: a sync writes back the frontmatter it read before its Jev calls, over the status a review,
  a writer or another sync gave a claim meanwhile.
* `extension.ts:1551`: the gate looks at the criticality of one item; a claim with a critical dispute and a
  second item that is not critical is settled through the latter without a user
  (`docs/wiki/wiki/decisions/review-escalation.md:77`).
* `sync.ts:223`, `review.ts:155`: a sync turns a `user-stated` claim into `needs_recheck` and an accepted
  review turns that into `verified`, against `skills/llm-wiki/SKILL.md:67`.

Embedder and vector index

* `embedder/client.ts:275`: an embed takes whatever socket is there. The status check leaves one that nobody
  compared (`client.ts:159`); and `attach` sets it (`client.ts:214`) before the hello of `reach` is answered,
  so a call beside another one's handshake (the warm-up of `extension.ts:2254` is not awaited, the first
  query follows) sends its request to a daemon that may turn out to be foreign, and takes the answer.
  `protocol.ts:5-6` says a client "must refuse to use the daemon's vectors". `CheckedVectorsMatch` has
  exactly these requests as its exception.
* `embedder/client.ts:194-198`: a call that fails rejects the requests of the calls beside it and a pending
  handshake. A handshake of `waitForDaemon` that is rejected fails every call that waits for it.
* `embedder/server.ts:60-74`: the lock file does not arbitrate between two daemons that start at once
  (each removes what the other created); the socket does, unless both find a stale one.
* `vector/registry.ts`: two updates at once lose one, after which two roots may share a name; through the
  fixed name of the temporary file they may also fail.
* `extension.ts:1949`: a wiki that is removed while it is indexed, or waits in a rebuild of all, is indexed
  all the same, and its rows stay under a name another wiki may take.
* `extension.ts:1739`, `1914` call a reset safe while pi is running: one during a run leaves an index that
  counts as warm and lacks rows until the next rebuild. So do the rows of an interrupted build: a
  finalize then adds its own pages only. A finalize also ignores `enabled`.
* A claim's status is no part of the hash of its chunk: where it changes alone, the row keeps the old one.
* Two chunks of a page with one key overwrite each other, and rebuilds alternate between them.

Ingest, insights, writer

* `extension.ts:466`: a source is recorded as ingested before its claims are extracted and adjudicated; when
  that fails, it is never ingested again, and the questions its claims raised are asked of nobody.
* `layout.ts:99-103`: a free name is found and written in two steps; two calls may take the same and the
  later overwrites the earlier.
* `pipeline/write.ts:187`: a new page takes its name without looking, and overwrites a page of this name
  unread (`README.md:48`, `skills/llm-wiki/SKILL.md:206`). A claim filed as stated by the user always gets
  a new page.
* An insight that supersedes a claim retires it even when the insight itself is not accepted.
* Two calls may promote one group of recurring candidates twice.
* With a trust tier, better grounding can turn an accepted claim into one that goes to review: this is
  the premise of `GroundingIsMonotone`. `newPageConfidence` has no effect.

Automatic capture

* A capture that fails does not advance the guards, and is tried again at the next trigger
  (`docs/wiki/wiki/invariants/failure-loop-safety.md:11` says otherwise); an answer of the model that does
  not parse does advance them.
* `extension.ts:2496`: a commit counts as seen before the capture is declined (one in flight, no new
  message), and is then never captured (`docs/DESIGN.md:469-472`).
* The message count is not reset with a session: a session with the count of the last capture is passed over.
  After a compaction the same transcript may be captured twice (`docs/DESIGN.md:465-466`).
* `pending-capture.md` holds one brief per wiki: the next one overwrites it, and a finalize deletes it. In a
  process without a UI (`if (ctx.hasUI)`, `extension.ts:2502` and 2529) nothing else holds the brief, and
  another capture of the same session replaces it before anybody was told, although `CHANGELOG.md:394` has
  "pending-capture handoff when no follow-up" and `docs/DESIGN.md:467-468` has the insights "handed to the agent".
* A capture in flight when the session changes is routed by the edits of the next session. Only the first
  twenty edited files are looked at, and edits that span several wikis give a warning only when the evidence
  of an insight points away from the session's wiki (`extension.ts:2384-2406`).

Search and automatic retrieval

* `jev.ts:159`: an abort and a timeout of the caller are retried with backoff like any failure, so a query
  goes on for seconds after its budget (`README.md:209`: "bounded by `budgetMs`"); and the outcome is then
  "error", not the "timeout" of `docs/plans/AUTO-RETRIEVAL.md:170`.
* The hook remembers a query before it has found anything: a retrieval that failed is not tried again for
  the same query. Only the last one is remembered.
* A candidate beyond `maxCandidates` keeps the midpoint, which counts as helpful: it may be injected.
* The keyword cache does not see renames that keep the time of modification, and may keep a page that was
  created and deleted during a load. A page whose file cannot be read is left out (`search.ts:82-84`)
  under a fingerprint that is installed all the same: a cache that looks fresh lacks the page, and does so
  until something is written. `CacheCoversTheWiki` has these pages as its exception.
* A hybrid search whose semantic half fails, or finds nothing, goes on with keyword matches
  (`search.ts:364-367`), and the hook injects what Jev judges helpful of them, with the line "Note: these are
  keyword matches only" (`auto-retrieve.ts:134, 243`) and the outcome "injected".
  `docs/plans/AUTO-RETRIEVAL.md:154` says: "A run whose vector half is empty while an index exists is
  `outcome: "degraded"` and must not inject", and lists that outcome at 170. `InjectedIsBacked` holds of such
  runs too: it is about the judgement behind what is injected, not about where the candidates came from.

Lint

* A contradiction marks both claims as disputed in lint's own copy; `lint.ts:331-335` reads the page again and
  writes that, so no claim ever becomes disputed, while the report counts the page as fixed
  (`README.md:30`, `docs/DESIGN.md:334`).
* A claim without an id counts as reviewed as soon as any entry has the path of its page
  (`docs/wiki/wiki/decisions/lint-queues-unbacked-claims.md`: lint queues "an active claim with no accepted
  ledger entry and no prior review reference").
* A claim with an id counts as reviewed, and is never raised, although the ledger knows nothing of it, when an
  entry with the path of its page holds its id as a part of anything (`lint.ts:219-222`): a sync or a review
  of `c10` answers for `c1`, one of any claim for another with the same id on its page (`pipeline/write.ts:192`
  numbers from `c1` again with every write to a page), an entry for `topic/rfc1.md` for every `c1` of that
  page, and the review of a duplicate, whose reason quotes the other claim, for all that begin like it. The
  values are lower-case and the id is not: a claim with an upper-case letter in its id is not found in the
  entries about it and is queued again after every review but an acceptance.
* "Out of scope" leaves no trace lint would find, so the claim is queued again with the next lint.
  Contradictions and duplicates that were settled are raised again, too. A review between the resolution and
  its ledger entry may see the claim queued once more.

The A/B harness

* Dependencies that an invalid attempt changed are the baseline of the resumed run; what is installed without
  changing a lockfile or a listing is not noticed (`eval/arms.mjs:166-195`).
* A valid row that is contaminated counts as finished for `--resume`, and is left out by the report.
* An arm named twice in `--arms` is run twice under one name, in one run of the harness
  (`eval/run.mjs:274-275, 298-308`): the second patch replaces the first while the first row still counts,
  and `JudgedIsCounted` fails in between. The run names each arm once.
* Two cards with the same `id` are cells of one name, too (`eval/run.mjs:294-308` compares no ids): in the
  model a card is its place in `--tasks`, so distinct ids are assumed.
* "Taken before any grader is installed, so the patch is the agent's work and nothing else"
  (`eval/arms.mjs:308-310`), and the judge "sees code-only diffs" (`eval/judge.mjs:11`): not the
  dependencies. `linkDependencies` leaves links to `node_modules`, `web/node_modules` and `.venv` in the
  copy (`eval/arms.mjs:424`), git takes a link for a file, an ignore line for directories
  (`node_modules/`, as in this repository's `.gitignore:4`) does not match it, `git add -A` stages it and
  `codeOnlyPatch` drops only the wiki and `.pi`. All arms have the same links, so the comparison is not
  biased by them. `PatchIsTheAgents` has them as its exception.
* An agent that commits its work has an empty patch. A flawed card stops every cell behind it.
* A sample of the judge counts as taken if any record of it exists: arms that are run later
  (`eval/pipeline.mjs:90-139` runs a part first) are never judged on it.
* A crash leaves the copy behind. A child that was killed for its time but whose own children hold its
  output never ends `spawnCapture` (`eval/lib.mjs:181-190`).

## 6. What is not modelled

* Rendering and parsing (markdown tables, frontmatter, JSON), paths and names, the wording of prompts, briefs
  and reports; the arithmetic of scores, embeddings and statistics. What depends on a score is a choice, or a
  constant relation (`Alike`, `Overlap`), or a number where its order matters (`Adjudication`, `Ranking`).
* Inside modelled components: Windows pipes and the daemon's job queue, in which interactive jobs always go
  first; `dryRun` of sync; the catalog's other flags; moved wikis (`setWikiRoot`), the
  scan for wikis; `buildAutoQuery`, the `qmd` fallback, search over all wikis, `wiki_toc`; the reports of
  lint (broken links, orphans, backlog); `--force`, `--allow-unverified-arm`, the rubrics, `pipeline.mjs`,
  `candidates.mjs` and `grade-check.mjs` of the harness.
* Components: the local embedding provider (download and inference behind one call), structure and doctor
  (they report), `wiki_status`, `wiki_setup`, `wiki_triage`, metrics and their summaries, the loading and
  merging of settings, which are constants here; `packages/pi-wiki-eval` (reads recorded sessions, writes a
  report), `scripts/` (tests and releases). None of them decides anything another component relies on.

## 7. Plan

Done: everything of section 2. What would add most, in this order:

1. The daemon's job queue: two classes, batches that are sent again after a timeout; starvation.
2. `pipeline.mjs` on top of `EvalRun`: pilots, stages, and what they leave for the judge.
3. Several edited wikis in one session of `AutoCapture`, with the evidence of insights and the warning.
