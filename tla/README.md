# HyperSearch: TLA+ verification project

HyperSearch is a local search and research system: a FastAPI service (`src/apps/api`) in
front of SearXNG and of a local language model, a browser UI (`src/apps/ui`), a Tauri desktop
launcher that runs the containers (`src/apps/desktop`), and a Windows installer
(`src/installer`).  This directory models the parts with state and concurrency in TLA+,
checks them with TLC on small instances and proves their main invariants with TLAPS for every
instance.  `PROJECT.json` maps every definition to the lines it stands for and lists the runs,
the mutants that show each property can fail, the hazards and the findings.

## 1. Inventory

Paths below are relative to `src/apps/api/hypersearch_api` unless they say otherwise.

| Part | State it keeps | Operations | Interacts with | Hard behaviour |
|---|---|---|---|---|
| Hot cache (`services/cache_service.py`) | memory store or Valkey, lock table `_singleflight` | `get_json`, `set_json`, `coalesce`, `invalidate_namespace` | search, research, admin router | tasks interleave at awaits, locks are collected while others wait, loads straddle invalidations, a sweep fails midway |
| Result collection (`services/search_service.py`, `dedupe_service.py`, `ranking_service.py`) | results of one search | plan, page loop, dedupe, rank, cut | SearXNG client | rounding and clamping, duplicates across pages, a page fails |
| Search service (`services/search_service.py`, `fetch_service.py`) | caches of searches, pages, extracts, summaries; fetch semaphore | `execute` under four cache policies | cache, fetch, extract, synthesize, storage | hydration tasks, three kinds of locks, cancellation by research, freshness |
| Provider registry (`services/provider_service.py`, `storage/sqlite.py`, `lifespan.py`) | profiles, default, LLM switch (rows); adapters, health cache (memory) | seed, update, set default, switch, probe | storage, LLM adapters | crash between seed rows, probes racing with a rebuild, environment against stored choices |
| Research service (`services/research_service.py`) | cache of answers, history rows | `execute` | search, registry, synthesis, storage | deadlines, a silent or dying provider, configuration changing between awaits |
| Synthesis (`services/synthesize_service.py`) | none between calls | batches, synopses, consolidation, refinement, final answer, retries with smaller prompts, search summaries, session titles | LLM adapters | each of many calls may fail, come back blank or be too long; no source may be lost on the way |
| Storage (`storage/sqlite.py`, `storage/migrations`) | SQLite file, one shared connection and its transaction, a lock | migrations, profiles, settings, presets, history, retention, VACUUM, close | event loop and worker threads | crash in a migration, a failed write without rollback, threads between two statements, shutdown without the lock |
| Access control (`auth.py`) | none | `require_access`, `require_local_access` | every route | combinations of proxy, LAN mode and token |
| Launcher (`src/apps/desktop/src-tauri/src/main.rs`) | action lock, close-confirmation flag, image names in the compose `.env` | start, stop, restart, start at sign-in, local build fallback, LAN mode, close | Docker, containers, shell window; the same files and containers as the installer | threads, timeouts, actions refused while another runs, commands that outlive the process |
| Desktop shell (`src/apps/desktop/src/App.tsx`) | action in progress, session windows | run action, wait for readiness | launcher commands | polling against actions |
| Search UI (`src/apps/ui/src/app/App.tsx`) | sessions in localStorage | create, resume, save, prune | API | several windows on one store, quota |
| Installer core (`src/installer/windows/HyperSearchInstallerCore.ps1`) | state of a run and its summary, RunOnce entry, profile, image names | phases from WSL to the stack | Windows, Docker, LM Studio, the launcher | reboot and resume, failing phases, readiness, images changing hands between two phases |
| Normalizer, SearXNG client, adapters, routers, metrics, installation wizard, lab and release scripts | none that outlives a call | | | pure functions, I/O or tooling: not modelled |

What makes each part correct:

* **Cache**: one load per key however many callers; callers are never stuck; the lock table
  does not leak; an invalidation is not undone by what was already under way, except where the
  code cannot prevent it.
* **Collection**: enough pages are planned for the target, pages are not given up early, and the
  best results are returned.
* **Search**: bypass and refresh are really fresh, bypass leaves no trace, what is cached is in
  the history, and no combination of locks and permits is a deadlock.
* **Registry**: one default at most, adapters and health follow the table, a start never undoes a
  choice among the providers.
* **Research**: ends whatever its upstreams do, caches answers only, records what it replies.
* **Synthesis**: each source is reviewed exactly once, what was noted about one that the model
  failed on reaches the answer, every call ends, and an answer is called complete only when the
  model gave it.
* **Installer and launcher**: backend actions never overlap and a confirmed close always closes;
  nothing that needs Docker runs before it is ready, images count as verified all or nothing, and
  a setup that claims success has seen the stack answer.
* **Storage**: migrations survive being interrupted, calls take effect whole, a row that was
  written stays, preset names stay distinct.

## 2. Plan

Written in this order, each with its proofs before the next: `Coalesce`, `Collection`,
`Providers`, `Search`, `Research`, `Storage`, `Synthesis` with its contract, then `Machine`,
`Installer` and `Launcher`, composed by `Desktop`, and last `CoalesceContract`, which joins the
cache and the searches that use it.  `SingleFlight` and `InvalidationHolds` are not part of that
contract: they need the exemptions the code makes (disturbed keys, aborted sweeps), which would
make it as large as the module.  The plan of the first stage also had `Sessions`, the store of the
browser UI, and `Access`, the decision table of `auth.py`, which were not written: section 6 says
why.

## 3. Modules

Each component has a module with its state, actions and properties, an `MC...` module with the
values TLC uses, one `.cfg` per run, and a `...Proofs` module.  Definitions preceded by "Mutant:"
are wrong variants of the one that follows them; no specification uses them.

### Coalesce

`CacheService`, used by many asyncio tasks.  `pc`, `key`, `ref`, `got` and `started` are a task's
place and locals (a request Valkey has not applied when its task is cancelled is taken to be lost
with the connection); `table` is `_singleflight`; `owner` and `queue` are the `asyncio.Lock` objects,
whose identities are reused when nobody refers to them; `store` is the cache.  `valkey` is what
`connect` found at start.  A step runs from one await that can suspend to the next.  The memory backend never suspends, so a call is one step
with the code around it; a Valkey call is three (sent, applied, resumed).  A value is represented
by the generation (number of invalidations) in which its load began.  `disturbed` and `flights`
are history variables that count loads in a busy period of a key.

### CoalesceContract

What `coalesce` promises to those who call it at once, without lock objects, queues and the table:
who is `inside` for a key, who of them is `holding` a lock, and which keys are `forked`, that is,
may have a second lock.  A newcomer waits only if somebody is there and gets in only if nobody is;
a waiter takes the lock when nobody holds it; on a forked key either may come in beside another,
until all have left.  `Coalesce` implements it (`Contract`, `KeepsContract`): a key is forked while
somebody is inside with a lock that is not the one of the table.  `Search` is written against it:
the guards of its lock steps are the contract's `MayWait`, `MayEnter` and `MayTake`, its `Fork` says
when a key is forked, and its steps are proved to be steps of the contract for the keys of
searches, pages and summaries together.  What is proved of `Search` so rests on nothing about the
locks that the cache service does not keep.

### Collection

One uncached search: `AskPage`, `PageFails`, `Finish` over the list of raw results.  A result
is its signature, score and position.  SearXNG is external and may answer with any page of the
configured set, whatever size was asked for.  The settings are any integers, as `config.py` checks
none.  The history variable `full` says that every page
brought as many new results as it was asked for.

### Providers

Tables `provider_configs` and `app_settings` (`profile`, `llm`), the adapters and the health
cache.  Handlers are synchronous up to their first await, so `SetDefault` and `UpdateProfile` are
single steps with the rebuild of the adapters; `SeedProfile` is one row, because each row is a
commit and the process may die (`Stop`) after any of them.  Only `healthcheck()` suspends:
`ProbeStart`, `ProbeEnd`.  `raced` remembers which providers were being probed at the last rebuild.

### Search

`SearchService.execute` with its hydration tasks.  It runs on the memory backend, the interleavings
of Valkey are in `Coalesce`.  `Inside` and `Holding` say who is inside `coalesce` for a search, a
page or a summary and who has its lock, permits of the semaphore belong to whoever fetches
(`Fetching`).  As `Coalesce` shows in detail, a leaver drops the entry of the lock table while others
still wait, and newcomers then make a second lock; `forked` says for what that may be so.  Every
datum carries the epoch in which it came from the web, and a reply the oldest among its data, so
freshness can be stated.  A cancellation may come at any point (research does it through
`wait_for`); it cancels the hydration tasks with the request.  An exception does not: `gather` hands
on the first one and leaves the other tasks running (`Raise`; of what a task calls only the
extraction raises, fetching makes pages of its errors).  They go on to take page locks and permits and
to write caches for a request that is `failed`, and `Working` counts such a request among those at
work; its slot is taken until they have ended (`Leave`).  A request fetches pages and extracts text, as
those of research do; one that does neither is a special case without `hydrate`.

### Research

`ResearchService.execute` from search to reply while the LLM switch changes (`Switch`).  What was found stands for URLs and texts.  Health check, model listing,
lookup and synthesis are separate steps since each ends in an await.  `elapsed` says that `timeout_ms` has passed.  Which provider is
configured is not distinguished: a wrong one is one of the ways to fail.

### Storage

`Database` from start to exit.  `boot`, `version` and `line` say where a start is; `CheckMigration`,
`RunStatement` and `RecordMigration` are the three parts of a migration, with `executescript`'s
commit at its beginning, and `Init` is a new database or one that an earlier release left.  Then
`Thread`s, the event loop's and those of `to_thread`, make calls: `Request`, `Enter` (the lock),
`Execute` for every statement, `Commit`, `Reply`.  Calls of the event loop keep it from doing
anything else (`LoopBusy`).  `disk` is what has been committed and `view` what the connection sees,
different while a transaction is `open`.  A statement or a commit `Fails` without a rollback by the
code; SQLite may have rolled back by itself.  `dirty` (history) says that the open transaction holds
what a failed call left.  `Cancel` is the research budget giving up a search that waits for its row:
the thread is an `orphan` and goes on.  `Close` comes without the lock once no request is left, so
with orphans at most.  `Crash` may come anywhere.  `owed` (history) are the rows somebody was told are
written.

Tables are what the properties tell apart: which profiles exist and are the default, history rows,
names of presets.  Settings are a write without content, and seeding one that exists writes nothing.
An update of a profile is an upsert; whether a profile is enabled is left open (`Refuse`).
A crash is one of the process: with WAL and `synchronous=NORMAL` a power failure may lose commits,
which is not modelled.

### Synthesis and SynthesisContract

`SynthesizeService`, one call at a time since it keeps nothing between them.  `at` is the await of
the language model the call is at; documents are numbers and a text is the set of those it has
something about, with `Words` for anything else and `Mark` when it says that it was truncated.
How long texts are is left open, so any may be too long (`Fitted`).  `Begin` starts a synthesis, a
search summary or a title; `Verified` is the health check before it.  `Retry` is the next attempt of
`_chat` with a smaller prompt.  `BatchReviewed` and `BatchFails` go through the batches (`Chunk`),
`Consolidated` and `ConsolidationFails` merge their synopses, `Refined` rewrites the question,
`Answered` and `FinalFails` end in the answer or a degraded one.

`SynthesisContract` is what its callers are promised: documents are reviewed in any grouping, each
once, before there is an answer; the reply is one of the model, or a degraded one with the notes
about documents it failed on unless it is truncated.  The instance `Contract` of `Synthesis` maps
the detailed state to it, and `KeepsContract` is the refinement.

### Machine, Installer, Launcher and Desktop

`Machine` is what the wizard and the launcher both see and change: Docker's engine, the images it
has, the names of images in the compose `.env` and the containers.  Images are told apart by the name
the two of HyperSearch's own have: this release's or an earlier one's at ghcr.io, which setup writes
into the `.env`; the local build's, which the launcher writes; and names no `.env` is given, those of
Docker Hub and of the build that made the media.  `Installer` is one run of
`Invoke-HyperSearchInstallation`: `run.step` is the phase, `run.grade` the worst status so far.
The phases that only copy, configure or download are there for their statuses.  The repair pass
(`DockerNotReady`, `InstallDocker`), archives loaded one by one (`LoadArchive`), an exception in any
phase (`Throws`) and the end of the process (`Killed`) have actions of their own; a run that WSL
holds up, blocked or deferred to a resume after the reboot, is `held`.  What a run expects and verifies
is what the manifests on the media record, of which any may be unreadable, and only without one what
the `.env` names (`Expectable`); the code compares neither with the other, and when the payload is
missing the `.env` keeps the names of whoever wrote it last (`Runtime`).  What is started is always what
the `.env` names, and `docker compose up` pulls it when it is missing (`CanUp`).  `Launcher` has threads
under `lock`; `Act` is a click or the start at sign-in, `Ready`, `DownEnds`, `UpEnds`, `BuildEnds`
and `Rename` what an action does, `CloseRequested` to `Leave` the closing thread.  The docker
command of a thread is under way while the thread is at it, and is `stray` when its launcher has
gone.  `Desktop` declares the variables of both and lets them take turns, with Docker starting and
stopping and a `Restart` of Windows between any two steps.

Simplified: one launcher and one wizard at a time (nothing in the code keeps a second launcher
away, and each has its own lock); one stray command, the last; the two writes of `Rename` and those
of a setup phase are one step, and two programs rewriting the same `.env` in the same instant is
left out; images are never removed; Caddy, Valkey and SearXNG have
the same images in every release and come with HyperSearch's own; a lock that a panic poisoned does not occur.

## 4. Runs

| Run | Instance | Shows |
|---|---|---|
| `coalesce` | 3 tasks, 1 key, 3 locks, either backend, fair | `NobodyForgotten`, `SingleFlight`, `TableLive`, `CallsEnd`, the refinement `KeepsContract` |
| `coalesce_sweep` | 2 tasks, 2 keys of one namespace, 2 invalidations, either backend | `InvalidationHolds` |
| `collection` | at most 7 results a page, 3 pages, pages of 2 for small targets; targets 1 to 22; pages of up to 7 results with 2 scores | `FullPagesSuffice`, `ShortfallIsHonest`, `BestReturned` |
| `providers` | 2 providers, 3 endpoints (1 remote), 4 environments, 1 probing task | `AdaptersMatch`, `HealthIsCurrent`, `ChoicesSurvive` |
| `search_policy` | 2 requests, 1 query, 1 URL, 4 policies, 2 epochs | `FreshReplies`, `CachedIsRecorded`, `BypassLeavesNoTrace` |
| `search_live` | 2 requests, 2 queries that share a URL, 1 permit, tasks that raise, fair | types with no task of a cancelled search left, `NobodyStranded`, `SearchesEnd` |
| `research` | 2 requests, 2 sets of sources, fair | `OnlyAnswersCached`, `RepliesAreRecorded`, `ResearchEnds` |
| `synthesis` | up to 6 documents in batches of 2, or of 3 from 6 on; 1 call at a time, fair | `SynthesisEnds`, the refinement `KeepsContract` |
| `desktop` | 3 choices of options, media with this release's names and with Docker Hub's only, an action thread and the closing one, stop and restart, fair | `Serialized`, `CloseEnds`, `ImagesVerified`, `NoPullNeeded`, `HonestResult` |
| `storage` | 2 threads, 2 profiles, 1 row, 2 presets, 1 name | `RecordedIsApplied`, `UpIsRecorded`, `HistoryIsDurable`, `OneDefault`, `AllOrNothing`, `NoNamesakes` |

Why the bounds are enough.  Three tasks are the fewest that show the hazard of the lock table (a
leaver, a waiter and a newcomer with a second lock); a third lock identity makes reuse possible.
Two invalidations distinguish a value that is one generation late from one that was never removed.
The settings of `collection` put every clamp on both sides of its bound, and one page may hold more
(7) than three pages of two: the shipped 50, 5 and 10 meet there with equality, but the environment
may set others.  Two providers suffice to move the default and to take it away.
Two epochs distinguish old from new.  Two searches of two URLs with one permit are the smallest
that could wait for each other; they ask for no summary, whose lock is taken last of all and whose
holder waits for the model only.  Two threads are one between two statements and one that comes
in between, two presets of one name two of the same name.  Six documents are the fewest that
make full and short batches of both sizes.  The choices of `desktop` are the standard setup, one
that pulls images and starts nothing, and one without Docker and images; a `.env` left by an
earlier release is in the proofs only (`Found`), where it makes `NoPullNeeded` promise nothing; one action thread and the closing one
are two that want the lock, and a start is a restart without its first command.
The proofs remove the bounds for the safety properties.  Some of what is proved has no run of its
own because another run's property says as much: `EachReviewedOnce` and `NotesKept` are what the
contract of `synthesis` demands of an answer, and that `Providers` keeps one default follows from the
`OneDefault` of `storage`, whose calls are the statements that write it.

Bounds: `MaxGen` (invalidations; none in `coalesce`, two in `coalesce_sweep`) and `MaxEpoch`
(changes of the web).  Each is a guard of the one action that counts.  `Outcome` says whether
fetches and the model may succeed, fail or both: both in `search_policy`, success only in
`search_live`, where a failure takes the same steps and only stores another page.  Deadlock is
checked except in `Collection`, where a search ends.  `Storage` has no counter: rows, presets and
profiles are sets, and a row that is deleted may be written again.

Fairness.  `Coalesce`: a task that can advance does (loaders carry timeouts, Valkey answers, the
event loop is fair); nobody is forced to call, and nothing has to expire or be cancelled.
`Search`: upstreams answer or time out, and `asyncio.Lock` and `asyncio.Semaphore` serve waiters
first-in first-out while the model leaves their order open, so a request that can again and again
take a step of its own (`Moves`) or get what it waits for (`Obtains`) takes one: strong fairness,
one condition per request, as a search has finitely many steps.  A lock counts as free only when
nobody holds one for that key: being let in because there may be a second lock is never forced.  `Research`: only its own deadlines are fair; SearXNG and
the provider may stay silent for ever.  `Synthesis`: every
call of the model ends, as the HTTP client gives up on silence.  `Desktop`: docker commands and the
event loop come to an end (`run_command` has no timeout: one that never ends is not modelled), and
the closing thread, which blocks in `lock()`, gets the lock if it is free again and again (strong
fairness); that Docker starts, that setup proceeds or that anybody clicks is not assumed.  `Storage` has no
liveness property and assumes nothing.

### Where documents and code disagree

Each of these runs is expected to find its property violated.

| Run | The document says | The code does |
|---|---|---|
| `research_provider` | `docs/api.md:15`: an unavailable provider does not fail the request | an error of the second model listing does |
| `research_deadline` | `docs/api.md:16`: `timeout_ms` is the overall budget | it bounds the search only |

More were met while modelling.  The models do as the code does, no property says the opposite, and
no run is spent on them:

* `docs/deployment.md:50` and `README.md:47` start the service search-only by
  `HYPERSEARCH_LLM_ENABLED=false`; once the switch has been stored, the stored value wins
  (`lifespan.py:50`, `Providers!SeedLlm`).  `ChoicesSurvive` therefore speaks of profiles and the
  default, and leaves the switch out.
* `docs/deployment.md:14` and `docs/ops.md:48` say that a release does not build images on the user's
  machine; when the registry cannot be reached the launcher does (`main.rs:888-909`,
  `Launcher!BuildEnds`), as `docs/release_candidate_deployment.md:9` says of setup.
* `docs/windows_installation_wizard_1_1_design.md:63` has a standard install avoid Docker Hub pulls.
  Setup verifies the images that the media's manifests record (`HyperSearchInstallerCore.ps1:1346`)
  and starts those the `.env` names (lines 713-714), and never compares the two: with a manifest that
  cannot be read, media built for Docker Hub only or a `.env` that kept an earlier release's names,
  `docker compose up` pulls after a successful verification.  `NoPullNeeded` is stated for runs that
  verified this release's images, with no earlier release's names in the `.env`.
* `docs/research_reliability_ui_polish_2026-05-08.md:14` keeps fallbacks out of the synthesis cache,
  and summaries of searches that fall back are cached there (`Search!Summarized`).

## 5. Proofs

All from the assumptions on constants named in each module, for any number of tasks, keys,
requests, URLs, providers and any settings.

* `CoalesceProofs`.  `IInv` is `TypeOK`, `Structure` (who is where holds what: the owner of a lock
  is past it, a lock serves one key, the table entry belongs to somebody inside), `QuietKeys` and
  `Flights`.  `SingleFlight` alone is not inductive: two tasks inside with different locks would
  load twice.  `Undisturbed` adds that as long as nothing went wrong either the value is in the
  store or everybody inside waits on the lock of the table.  Invalidation has an argument of its
  own, through `LoadsKnown`: a load from an older generation is one of an exempt key.  `Lines` says that
  the queue of a lock holds exactly the tasks that wait for it, each once, and that its owner is
  inside and past the queue; with it `NobodyForgotten` says for every waiting task that somebody is
  at work: the owner, or the head of the queue when the lock is free.  `Implements` maps each step to
  steps of the contract, key by key: a waiting task is never alone with a lock nobody holds, a
  newcomer with a lock of its own finds the key empty or forked.
* `CollectionProofs`.  With `full`, what has been collected is at least the number of pages times
  the page size (`FullPagesAddUp`); the rest is arithmetic about the plan (`PlanCovers`), for any
  integers as settings.  A target that fits one page of the settings is asked for in pages of ten; where
  `MaxResultsPerPage` exceeds `PageSize * MaxPages` the plan may miss it, by the difference at most, and
  that is the second case of `FullPagesSuffice`.  The shipped settings meet with equality, and have no
  such target.
  `BestReturned` is about ranks, that is, about how many results come before one: whoever comes
  before another has a smaller rank, since the set counted is a proper subset (`FS_Subset`), so the
  cut at the first `n` ranks never parts with a better one.
* `ProvidersProofs`.  `WantedIsDefault` (seeding only ever appoints the default that is there),
  `Seeded` (what is not to do yet has a row) and `ProbesKnown` (a probe with an old adapter is of a
  raced provider) make the other properties inductive; `ChoicesSurvive` follows as an action
  property: a profile that has a row is not seeded again, and
  none is inserted as another default.
* `SearchProofs`.  `Untainted` follows a request that reads no cache through its phases.  Tasks of a
  failed search take part in everything that is proved of locks, permits and progress.
  `NobodyStranded` is freedom from deadlock as an invariant: who waits for a lock of the contract does
  so because of a holder (`KeepsLocks`), and locks are taken in one order.  From a search that waits
  for another's reply to its loader, which waits for a page, to that page's loader, which waits for a
  permit, to whoever fetches, are three steps, and fetching and asking the model wait for nobody.
* `ResearchProofs`.  `Recording` ties rows and answers to the phases of a request; `Undecided` (no
  answer before there is something to record) carries `ResearchAdvances`.
* `StorageProofs`.  `Migrated` (what is recorded or pending has taken effect, and so has the script
  up to its line) carries the two properties of migrations.  `Cleared` carries `OneDefault`: a default
  is only added to a table that was cleared under the same lock, and a call that failed in between
  leaves a table without one, whoever commits it.  For the calls, `Seen` relates `view`
  to `disk`: equal outside transactions and whenever the lock is free and nothing is dirty; what is
  owed is in both, which is why neither a commit nor a rollback loses it; namesakes in `view` are
  namesakes on `disk`.  `Working` says of every thread which statements its call may be at and
  (`Progress`) what it has done to the tables so far, which is what makes its commit one whole call.
  Only the owner of the lock changes what others rely on (`OthersWork`), and whoever is in a call
  when the connection closes is writing a row for nobody (`CloseKeeps`).

* `SynthesisProofs`.  `Staging` says what the batches so far have reached (`handled = 1 .. next`)
  and that the notes are in every text carried along that is not marked; the next batch continues
  where the last ended (`ChunkContinues`), for any sizes, so `AdvanceHolds`.  `Implements` maps each step of
  the service to a step of the contract or a stutter.  `Ahead` counts the steps a call may still
  take: batches to go, phases and smaller budgets left.
* `DesktopProofs`.  `LockHeld` (who is past taking the lock has it) makes `Serialized` inductive.
  `NoPullNeeded` needs both programs: `NamedIsThere` says that the launcher names a local build only
  when it is there, `FlagInv` ties the flags of a run to its phase, so that what was verified is here.
  It is proved for any `Media` and any names `Found` in the `.env`.  Images only come (`ImagesCome`, `DoneBrings`), so what was
  verified stays.  `GradeInv` carries `HonestResult` from the stack to the summary.  `GatesHold`, for
  which no run is kept, follows from `FlagInv` too.  `HolderProceeds` says that the launcher's lock is
  always in the hands of a thread that can go on or whose docker command is under way; `Left` counts
  the steps of an action, `Remaining` those of a setup, repair pass and archives included.

Liveness.  `CallsEnd`, `SearchesEnd`, `ResearchEnds`, `SynthesisEnds` and `CloseEnds` are only
model-checked: fairness and ENABLED are beyond the prover.  What is proved for every instance are
their safety halves, where a mistake would be one of the code: that whoever waits has somebody at
work before it (`NoLostWakeup`, `NoCircle`, `LockIsWorked`), and that a step at work brings the end
closer (`Finite`, `SetupIsFinite`, `ActionsAreFinite`, and the three theorems `Advancing`).
`CallsAdvance`, `SearchesAdvance` and `ResearchAdvances` are action properties that measure how far a
call, a search with its tasks, or a request is from its end (`Distance`, `TaskDistance`) and say that
no step of anybody takes it back: in `Coalesce` whoever waits is never overtaken in its queue
(`Before`), in `Research` an answer once there is not replaced.  That a step which can be taken is
taken is left to TLC.

## 6. Not modelled

* String work (normalising queries, signatures, the wording of prompts, HTML extraction), HTTP and
  process I/O, logging and metrics, the installation wizard's form, lab and release scripts,
  container configuration, routers that call one operation.
* Access control: each request is decided by itself from strings and networks, nothing is
  remembered, and unit tests enumerate the cases.
* The browser UI: React state and a best-effort store in localStorage.  Its hazards are in
  `PROJECT.json`; no document says what must hold of the store, so a model could only restate it.
* The desktop shell: a view of the launcher, whose lock decides.
* In modelled parts: the row `llm_disabled_reason` and draft provider tests, which decide nothing;
  TTL values (expiry may come at any time); Valkey's failures inside `Search`; LAN mode, exports and
  window state of the launcher, which run no backend action; what LM Studio, the profile and the
  model download of the installer do beyond their statuses; the options of a resumed setup, which
  the wizard asks for again.
