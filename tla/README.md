# Orphanarr: specifications and proofs

Orphanarr finds finished downloads that no *arr application manages and, once
the user has approved a plan, copies or hard-links them into a media library.
It never modifies a download, never overwrites anything in a library, and can
undo what it did. This directory holds TLA+ modules of the parts of the program
that keep state, the TLC runs that check them on small instances, and theorems
about them that TLAPS checks for every instance. `src/` in PROJECT.json is the
root of the repository.

## The system

One process, one SQLite connection, one goroutine per HTTP request and one for
the scan ticker.

| Component | Source | State | Operations |
|---|---|---|---|
| Startup, shutdown | `cmd/orphanarr/main.go` | - | open the store, repair (Reconcile), Reload, serve, scan on a ticker |
| Pipeline: handlers | `internal/pipeline/execute.go` | `execMu` | Execute, Undo, Reconcile, ApplyConfig, TestClient |
| Pipeline: scan | `internal/pipeline/pipeline.go` | `scanMu`, clients, libraries, settings | Reload, ScanNow, savePlan |
| Journal | `internal/pipeline/journal.go` | the flat `journal.ndjson` | Before, After |
| Executor | `internal/exec/exec.go` | the steps of one run | Preflight, Run, Rollback, Reconcile |
| Store | `internal/store/*.go` | orphan, plan, plan_step, client, library, setting, event | one statement or transaction each |
| Write guard | `internal/fsx/guard.go`, `os.go` | source roots, library roots, dry-run | every mutation of the filesystem |
| Scan predicate, overlap | `internal/scan/*.go` | the index of one scan | Evaluate, Overlap.Add, AddPeersNamed, Transitive |
| Probe | `internal/probe/probe.go` | outcome per (download root, library root) | Probe, EnsureProbed, Writable |
| qBittorrent adapter | `internal/client/*.go` | loggedIn, failed, capabilities | login, getJSON, Probe, ListItems, MarkFiled |
| Settings | `internal/config/config.go` | settings rows | Load |
| Classify, layout | `internal/classify`, `internal/layout` | none (pure) | Classify, Build |
| API, UI | `internal/api`, `internal/web` | none | one route per operation above |

How they interact: `ScanNow` (under `scanMu`) lists every client, evaluates
each item, and saves one draft plan per orphan. A request to execute a plan runs
`Execute` (under `execMu`), which drives the executor; the executor reaches the
disk only through the guard, and journals each step in the store before and
after it. `Undo` runs the executor's Rollback over the rows that say
`created_by_us`. Since the two mutexes differ, a scan and an execution
interleave; settings and roots change under both, with locks of their own.

What is hard: a crash or a power cut between any two calls; writes whose error
is dropped; the user, other programs and the download client working in the
same directories; settings and roots that change under a running handler; a
scan racing an execution over the same plan; retries of what was already done.

What makes each part correct:

* Executor and journal: a destination is never overwritten; what is under a final
  name is the planned content; only what this plan placed is removed; a step that
  placed a file says so in its row, across crashes and resumes.
* Store: a claim on a file is never erased; the user's decisions on an orphan stay;
  one live plan per orphan.
* Handlers and startup: every handler returns, and no plan or row stays in progress
  after a restart.
* Scan: a payload is planned once, and never when an *arr owns it; every settled orphan
  is found.
* Guard: no write under a download root, none outside a library, none in dry-run.
* Probe: a cached answer is the kernel's; no probe file stays behind.
* Adapter: a session that expired is renewed once and not for ever; a wrong password
  is not tried again.
* Settings: the copies of one value agree once no request is under way.
* Classify, layout: a type no other comes near; no two files of a plan with one destination; a
  plan that needs no review is sure of what it files.

## Modules

| Module | What it is |
|---|---|
| `PlanExec` | one plan from approval to undo: `exec.go`, `execute.go`, `journal.go`, and the store and guard as far as they reach |
| `Library` | the abstract promise to the owner of a library; `PlanExec` implements it |
| `MCPlanExec` | the bounds of the runs of `PlanExec` |
| `PlanExec_proofs`, `PlanExecEnds_proofs` | the theorems about `PlanExec`: what it does to the library, and what its handlers leave behind |
| `PlanQueue` | orphans and plans in the store while scans, handlers, the user's Ignore and restarts interleave: `ScanNow` and `savePlan` of `pipeline.go`, `execute.go`, `store/plans.go` |
| `MCPlanQueue` | the bounds of its runs |
| `PlanQueue_proofs` | the theorems about `PlanQueue` |
| `ScanPass` | what one scan after another makes of the torrents of several clients: `ScanNow` of `pipeline.go`, `Evaluate` of `scan/predicate.go` |
| `Overlap` | which torrents are one payload: `Overlap` of `scan/predicate.go`, as operators over a relation |
| `MCScanPass` | the contents, clients and bounds of its runs |
| `ScanPass_proofs`, `Overlap_proofs` | the theorems about `ScanPass`, and the facts about chains they rest on |
| `PlanMaking` | what one turn of the loop of `ScanNow` makes of an item: verdict, layout, review, plan |
| `Release`, `Classify`, `Layout` | the pure functions it calls: `classify/release`, `classify`, `layout` |
| `MCPlanMaking` | the names, payloads, libraries and thresholds of its runs |
| `PlanMaking_proofs` | the theorems about `PlanMaking` and what it is made of |
| `Roots` | the copies of settings, libraries and download roots that the process keeps, and the probe: `ApplyConfig`, `Reload`, `probe.go`, `fsx/guard.go`, the handlers of `api` that change them |
| `MCRoots` | the roots and bounds of its runs |
| `Roots_proofs` | the theorems about `Roots` |
| `Login` | the session of a qBittorrent adapter under several goroutines: `client/qbittorrent.go`, `SetClients` |
| `MCLogin`, `Login_proofs` | the goroutines of its run, and the theorems about it |

How they divide a scan and an execution: `Login` says when a listing succeeds,
`ScanPass` which items a scan works on, `PlanMaking` what it makes of one,
`PlanQueue` what it writes to the store, `Roots` which method the plan gets,
and `PlanExec` what executing it does to the disk.

### PlanExec

`Execute`, `Undo` and the startup repair exclude each other (`execMu`, and
`main.go` runs the repair before it serves), so one program counter `pc` and the
handler's own copy of the steps (`mem`, the `[]exec.Step`) stand for all of them.
One action is one database statement or one filesystem call:

    ExecuteStart -> Before -> Mkdir -> Check -> Link | Create -> CopyEnds -> Verify
      -> Sync -> Publish -> Unlink -> After -> AppendFlat -> (next step)
      -> RecordStep* -> Finish -> MarkFiled
    UndoStart -> (UndoVerify -> UndoRemove -> UndoDir)* -> UndoFinish -> UndoMark
    Boot -> BootStat* -> BootWrite* -> BootRelease -> BootReload

`rows` and `planStatus` are the database, `files`, `partial` and `dir` the
library directory, `src` the download, `flat` the flat journal, `roots`,
`srcRooted` and `dry` what the guard and the settings hold. Around the handlers
the process may die (`Killed`, and `PowerLost`, which also loses data that was
not synced), the user may add, replace or delete a destination (`UserTouches`),
the download client may rewrite, replace or delete a source (`SourceChanges`),
a database write may fail (a disjunct of the action), and the settings may change
(`SetDryRun`, `ReloadReset` and `ReloadAdd`, the two halves of a Reload that
running handlers can see between).

Abstractions. A file is one of a few kinds: nothing, the user's of the recorded
size or of another, ours complete, ours not synced, ours torn, a link to the
inode of the plan or to a later one. Every step of a plan files into one
directory. Names 0..`MaxSuffix` of each step are told apart: name 0 is the
planned destination, each further one adds " (2)"; the name after the last is
taken as occupied. Preflight's arithmetic is its two outcomes. A source that
changes keeps or changes its size alike: the size check of `copy` is one of the
failures of `CopyFails`. The write of `executing`, and those of the orphan's
state, are taken to succeed.

### Library

Names, what each holds, the undo record, the names ever put, and a count of the
user's own edits. The program places a file at a free name, removes only names on
record, and records only names it put; a step that is none of these must be the
user's, and is counted as such. `PlanExec` maps to it by forgetting everything but the kinds of
files and the claims of the rows (`ImplementsLibrary`).

### PlanQueue

Two processes over the store. The scan (`scanMu`) goes

    ScanStart (the ignores are read) -> ScanList -> ScanItem ->
      ScanUpsert -> ScanCheck (UnresolvedPlanFor) -> ScanOpen (OpenPlanFor) ->
      ScanSave (SavePlan) -> ScanItem ... -> ScanEnd

and a handler (`execMu`)

    ExecRead -> Preflight -> (StepBefore -> StepPlace | StepSkip | StepFail ->
      StepAfter)* -> RunEnd -> Record -> Finish -> Filed -> Tag
    UndoRead -> UndoStep* -> UndoFinish -> UndoMark

one action per statement of the store, so that each can come between any two of
the other; the store has one connection (`SetMaxOpenConns(1)`), and SavePlan is
one transaction. `Ignore` is the route of that name. `Crash` loses what both held
in memory, and `Boot` is Reconcile. What a handler does on disk is `PlanExec`'s;
here a step places a file at a free destination, skips a taken one, or fails, and
step s of every plan of an orphan has the same destination. An orphan stands for
one fingerprint. Which items `ScanList` keeps, and the verdict on each, are free
choices, short of the tag and the ignores. A handler is asked for plans in the
statuses `Offered`: the UI offers Execute on drafts, and its Resume on blocked and
failed plans. `moved`, `wish` and `sWish` are history: they record what the
properties speak of and no action reads them.

### ScanPass and Overlap

    ScanStart -> (ClientFails | ListItems -> ReadItem* -> ClientDone)* -> Gate
      -> (Collapsed | BlockOne | WorkOne)* -> ScanEnd

`ScanStart` reads the ages and the ignores that the scan goes by; `ReadItem` is the
body of the loop over a client's items, in the order of the code (a failed call, a
category, `Evaluate`); `Gate` is `AddPeersNamed`; the three actions of the loop are
its `continue`s. `cands`, `peers`, `blocked`, `cause` and `claimed` are the
variables of those names in `ScanNow` (`cause` for the names of the reasons), `rank`
the order in which items were read, which both loops go by. `age`, `state` and `plan`
are the store; `age` is the time since `first_seen_at`. Between any two steps a torrent
may change its category or complete, a plan may be filed, the user may ignore an
orphan, the process may die and start with another window, and time passes (`Tick`).

`Overlap` unites the three legs of the gate (path, inode, fingerprint) in one
relation and gives `Peers`, `Transitive` and `Blocked` over it. The code follows a
worklist with a set of visited items; the model says what it computes, the least
set that is closed under the relation.

Abstractions. What the clients and the disk say of the torrents' files (`content`)
is chosen once for a behaviour, so a file does not vanish between being listed and
being indexed. Ages stop at `MaxAge`. A turn of the loop over candidates is one
step: the order of its statements and what can come between them is `PlanQueue`'s.
A handler files a plan, or fails and leaves it waiting, in one step; there is no
Undo. A client that does not report categories is not scanned (`CanScan`) and does
not occur. Reads of the store succeed. An item that is tagged, ignored or unsettled
is not in the index, in the code as in the model, so a chain through it is not seen.

### PlanMaking, Release, Classify and Layout

    ClassifyItem -> BuildItem -> NeedReview -> Explain -> SavePlan
       (Fails, NoLibrary, LAYOUT_REFUSED, Skips: the `continue`s of the loop)

`Classify` and `Layout` translate the rules as functions: `Decide` is `Classify` of
the code, with its early returns in their order, `Signals` the three groups of
weighted signals, `Top2` the race of the scores, `Enrich` the fields of a type, `Build` the
destinations with one builder per type. `Release` says what a name yields.
Weights are in hundredths, so sums are exact; the code compares them with an epsilon
to the same end. The thresholds are those the scan began with (`rules`); `AutoFile` is
read again from the live settings, twice and unlocked, so `SetConfig` may come
between `NeedReview` and `Explain`.

Abstractions. A name is given by what its patterns find in it: its marks, its episode
notation, where its year stands, its halves. A path component is a sequence
of words, a file a pair of directory and base name with an extension, the words of its name
and the episode they hold. A number in a name is a word of its own, that of `Numeral`: an episode's
marker is `<<"S", "1", "E", "2">>`, and a list that repeats one episode (`S01E01E01`) is named as
that episode. So the regular expressions, their order within one
pattern group, the cleaning of titles, edition tags and the refusal of an empty component
are left out. One extension stands for each family, one platform for all.

### Roots

Any number of requests at a time, one action per critical section or call:

    PutSettings -> LoadConfig -> SetConfig -> SetDryRun -> (probe) -> ShowConfig
    SaveLibrary | DeleteLibrary | SaveClient | DeleteClient -> ListClients ->
      ListLibraries -> ResetLibraryRoots -> AddLibraryRoot* -> SetLibraries -> (probe)
    (probe) = ProbeAllPairs -> (PickPair -> CreateWrite -> RemoveWrite
      | PickPair -> CreateSrc -> RemoveOld -> LinkProbe -> RemoveDst -> RemoveSrc -> CachePut)* -> PairsDone
    Scan -> SkipItem | EnsureProbed -> (probe of one pair) -> KeepPlan
    Execute -> Place

`dbDry`, `dbLibs` and `dbMaps` are the store, `cfgDry`, `guardDry` and `uiDry` the three
copies of dry-run, `roots` and `guardLibs` the guard's, `libs` the pipeline's libraries,
`cache` and `writable` what was probed, `files` the probe files on disk, `plan` and `ran`
the method a plan was given and how its execution ended. The store may fail under a
request (`ReadFails`, `PutSettingsFails`), and the process may die at any
point (`Crash`) and starts again with a reload. `clash` is history: which kinds of
overlap have happened; the properties say which of them each promise survives.

Abstractions. Which pairs link and which mounts are read-only does not change. The
download roots are nested around the one source that matters, so the deepest
registered one is its root. A library is of one media type. Of a placement only what the
guard and the method decide of it is kept; the rest is `PlanExec`. The registration
of a client's mappings is one step with the reading of the libraries before it. Probing the
clients (`SetClients`) is `Login`.

### Login

    List | MarkFiled | SaveClient | Reload | TestClient ->
      (LoggedIn | Latched | Accepted | Refused) -> Served | GivesUp | Lost
      | Forbidden -> ClearSession -> (login once more) -> Served | GivesUp | Lost

`loggedIn`, `failed`, `categories` and `tags` are the fields of `qbClient`, `scannable` and
`current` those of `ClientEntry`; `session`, `fails` and `banned` the server. `login` holds the
adapter's mutex until the server has answered, so it is one step; between the request that is
refused, the clearing of the flag and the new login, others may come. Saving a client or a
library makes a new adapter with a cookie jar of its own, and probes it request by request;
a scan or an execution under way keeps the old one. The answers of the two
generations of the server (200 with "Ok." or "Fails.", 204 and 401) are what they mean. `expired`,
`spoiled`, `harmed`, `rejected` and `ended` are history.

Abstractions. API keys, which need no session, are left out; a client without a user name is
`Open`. One client; its adapter is installed as its probe ends. Bodies that
cannot be decoded and other statuses are `Lost`.

## Runs

| Run | Instance | Shows |
|---|---|---|
| `faults` | 2 steps, 3 policies, 2 runs, 1 undo, two of: failed writes, settings, user, source | the safety properties without crashes |
| `crash` | 2 steps, one of them without a recorded identity, skip and suffix, 2 runs, 1 undo, 2 crashes or 1 crash and one other surprise | recovery, liveness, refinement |
| `queue` | 1 orphan, plans of 2 steps, 3 scans, 3 handlers, a crash, an Ignore | no interleaving erases a claim or duplicates a plan behind a handler's back; done means placed; an Ignore holds; lost files cost crashes |
| `swept` `stuck` | as `crash`, both steps identified | each finds the code at odds with one of its comments |
| `scan` | 3 torrents in 2 clients, 3 contents, windows of 0 and 1, a cap of 1 plan, one event of any of 6 kinds | a payload is one unit of work, nothing linked with an owned torrent is worked on, a block names its owner, a known item settles whatever restarts come |
| `settle` | as `scan`, without events | finds the code at odds with one of its comments |
| `making` | 33 payloads, some 600 names, 3 libraries, 2 sets of thresholds, one change of AutoFile | no file is forgotten, files keep apart, plans that need no review are sure, reviews have reasons |
| `truncated` | as `making` | finds the code at odds with one of its comments |
| `roots` | 2 requests beside the start, 2 nested download roots (one read-only), 1 library, 8 mixes of requests, failures and crashes | the copies of settings and roots agree, downloads stay protected, cached answers are true |
| `leftover` | as `roots`, one crash and no request | finds the code at odds with one of its comments |
| `login` | 4 goroutines of one kind each, 2 adapters, 2 passwords, a ban after 2 rejections, 2 troubles | one rejection per adapter, errors have causes, a client that may be listed is listed again |

Bounds. Two steps tell "before, at and after the failing step" apart, and give
Rollback an order; two names per step are enough for one suffix, the second of
which the model takes as a collision. `Bound` caps each kind of event and
`MaxSurprises` their sum: two surprises in any order, at any point of two
executions and an undo, cover every pair of hazards listed in PROJECT.json (a
failed write, then a resume; a crash, then a crash in the repair). `crash` leaves
failed writes and settings to `faults`, which leaves crashes to `crash`.

`queue` has one orphan: a scan works on its items one after the other and no
statement on plans touches two orphans. Three scans are what a lost decision
takes (one to plan, one to race, one to show the damage), three handlers what a
plan takes to be executed, resumed and undone.

`scan` has three torrents because a chain takes three: the two contents `Chain` and
`Alias` link a and c only through b, by a fingerprint and a path or by an inode and a
fingerprint, and none of the legs alone sees either chain. In the third one torrent
cannot be mapped and one is not fit. Two clients give an order of reading, and a client that
fails while the other answers. Ages of 0 and 1 tell "as old as the window" from "younger". One event in the
midst of a scan, together with every initial choice of categories and completeness,
is what a stale reading takes.

`making` has a payload for each shape the rules tell apart (single and several files, samples, no
common root, discs, parts, mixed families, companions, the limits of 2 and 3 files), each
under names that match none, one or two of the patterns that compete, with each notation of an episode
and each place of a year. The functions have no state, so what matters is the product, not its
depth. The thresholds are the shipped ones and a lower pair.

`roots` has two requests because every promise is broken, or kept, by a pair of them,
beside a scan or an execution; the start is a third goroutine. Two nested download roots
are what "the deepest" takes, and one of them read-only what a probe may not
confuse; each budget lists what meets in one behaviour, since all at once is out of reach.

`login` has two adapters, an old one in use and the new one of a reload; two troubles are what a listing
that recovers from one expiry takes to fail at the second; a ban after two rejections
makes one adapter's rejection harmless and two adapters' not.

Deadlock is checked in the runs of `ScanPass`, where the ticker always starts another
scan. It is off in the others: once the bounds are used up the environment stops, and
a program that is idle with nothing asked of it stops too.

Fairness. `FairSpec` has weak fairness of `Progress`: a goroutine that can run
does, and a container that died is started again. Nothing is assumed of the
user, of requests, or of settings. The copy loop is one action that ends: a
source that never ends is outside the model. In `ScanPass` it has weak fairness of `Scan`,
since the loop of `main.go` starts a scan at each tick and ScanNow runs to its end,
and of `Tick`: time passes. In `Login` it has weak fairness of each goroutine's `Step`, since a request is
answered or times out after 30 seconds, and of `List`, which the ticker's scans repeat; nothing
is assumed of the server, the network or the user.

### The runs that end in a violation

* `swept` - `exec.go:551` says the partial is always swept. `main.go` runs the
  repair before any library root is registered, the guard refuses the removal,
  and the partial makes the next attempt at the step fail.
* `stuck` - `execute.go:275` says a crashed plan does not stay at `executing`.
  It does when no row is in progress, since Reconcile then returns early.
* `settle` - `pipeline.go:395` says the settle window is measured from the persisted
  `first_seen_at`, so that items do settle. The row that holds it is written only
  for an item that `Evaluate` has kept, and `Evaluate` drops an item that has not
  settled: with a window other than 0 a new item is dropped by every scan.
  `KnownSettles` shows that an item with a row (one first seen under a window of 0)
  does settle, across restarts.
* `leftover` - `probe.go:245` says a leftover of an interrupted probe would read as
  "cannot hardlink" for ever. The leftover in the library root is removed first; the one
  in the download root is not, the exclusive creation fails on it, and every later process
  remembers the pair as separate mounts. `CacheIsTrue` shows that without a crash or a
  probe that is disturbed a cached answer is the kernel's.
* `truncated` - `sanitize.go:203` says the structural marker is preserved. `buildTV`
  passes the title and the episode as one stem and no marker, so a title
  that fills the name cuts the episode off, and the episodes of a season share a destination.

### Other behaviours the models have

Each was met while modelling; the properties named except it or bound it.

* A file published just before a crash is marked done by the repair but not as
  ours, and Undo passes it by (`exec.go:517`); `UndoRecordCost` bounds how many such files
  there can be. A copy is compared by size before Undo removes it (`exec.go:437` speaks of the
  mtime as well).
* Resuming a failed plan that has placed files makes it blocked when the preflight refuses
  (`execute.go:137`); `plans.go:180` says a blocked plan has placed nothing. Undo
  then refuses it for its status, and SavePlan for its claims.
* Execute can take a draft on between UnresolvedPlanFor and OpenPlanFor: neither sees it,
  and the scan adds a second plan (`pipeline.go:604` says it must not). `NoDuplicate` shows
  that this race is the only way.
* A handler that is at work on an orphan overwrites the user's Ignore as it ends, although
  `plans.go:47` says it will be skipped by future scans. `IgnoreHolds` shows that this is the only way.
* ScanNow trims the category when it decides what enters the overlap index (`pipeline.go:382`),
  the predicate does not (`predicate.go:79`): a torrent in the category " " is neither a candidate
  nor an owner, and one with its content is planned.
* Overlapping torrents collapse into one plan within a scan (`OneUnitPerPayload`), not across
  scans: one that completes later and is read earlier gets a draft of its own
  (`DESIGN.md:2149`).
* A scan with an unreachable client goes on planning, where DESIGN.md 3.5
  (strict_multi_client) would suspend it; a draft stays when a later scan blocks
  its orphan; rewritten drafts count against the cap of plans per run.
* Two saves of settings that overlap can leave the settings, the guard and the UI with
  different values of dry-run for good, since each sets them one after the other
  (`DryRunAgrees` excepts it). Two reloads that overlap can leave a deleted library
  open to the guard, or a library listed twice (`LibrariesAgree`). During any reload the guard knows no
  library for a moment, and an execution under way fails (`OutcomeForCause`).
* `savePlan` probes a pair it has no answer for, so a scan does write probe files, which
  `pipeline.go:187` says it no longer does; and the `os.Link` of the probe does
  not pass through the guard.
* Every reload, of a library too, makes a new adapter without the latch, and
  posts credentials again that were rejected (`qbittorrent.go:28`: never auto-retry). `OneRejection`
  is per adapter.
* A movie's `Movie.en.srt` and `Subs/en.srt` share a destination, so do two subtitles of one
  episode, two books of one torrent with the same extension, and tracks of a directory
  that is not a disc, or is not right below one (`cd1/bonus/01.flac` and `cd2/bonus/01.flac`: only
  the directories of discs at the end of a path are kept, `layout.go:326`). So do a file whose name
  has the torrent's episode and one whose name has none, and an episode list and a span with
  the same ends. `Alike` names each of these, and `NamesKeptApart` says that there are no others. A file without an episode, an `.nfo` say, makes the
  layout refuse a whole season pack. `pathSegments` counts the torrent's own directory,
  so an audiobook of several files gets it as its author. A payload of nothing but samples
  becomes a plan without steps.

## Proofs

Every safety property that a passing run checks is a theorem: what the run shows on a small instance holds for every number of steps, names, orphans,
plans, torrents, clients, goroutines and adapters, and for every bound, from the assumptions on
the constants alone. Few of the properties are inductive. What each needs beside itself is an
invariant that says where the handler, the scan or the request stands; TLC checked each of these
before it was proved.

`PlanExec_proofs`:

* `TypeCorrect`: `Spec => []TypeOK`.
* `PublishedIsPlannedHolds`: no copy under a final name is torn or wrong. `CopyInv` adds what the
  partial of the current step holds at each stage of `copy`, and that no file is ever unsynced.
* `NeverOverwritesHolds`: from `TypeOK` and `CopyInv` (a power cut changes no
  name, since nothing unsynced was published).
* `OnlyClaimedRemovedHolds`: adds `HandlerInv`: from death to the end of the
  startup the guard knows no library root, so the repair can remove nothing; and
  Undo holds the rows as stored, and only those that claim their name.
* `ClaimedWasPlacedHolds`: adds `ClaimInv`, which follows a claim from the
  instant a file is placed to its row: what the handler holds claims only what
  was placed, and the steps still to come claim nothing yet. It speaks of
  histories without a failed write; the counters show that such a history stays so.
* `ImplementsLibraryHolds`: where no database write fails, every plan implements
  `Library`. Every step is one of: a stutter, a change of the record (allowed
  because of `ClaimedWasPlaced`), a placement at a free name, a removal of a
  claimed name, the user's.

`PlanExecEnds_proofs`, what is so when a handler has returned:

* `NoPartialLeftHolds`: `SweepInv` says that short of a crash and a change of settings the only
  partial there can be is that of the current step, at the stages of `copy` that own one.
* `DoneStepWasPlacedHolds`: `PlacedInv` says the same of three places: the row, the handler's copy
  of it, and the step that After is about to write.
* `NoRowLeftInProgressHolds`: `ProgressInv` counts the rows in progress and the steps held in
  progress at each stage: a row left so by a crash is in the list of the repair until it is settled,
  and what a run holds so is the step it is at.
* `UndoneLeavesNothingClaimedHolds`: `UndoneInv` says that what Rollback has gone through is gone, and
  that an undone plan has only the startup at work on it, which keeps the claims and places nothing.
  A file of ours can come to be at a name only by being placed (`OursAppear`), whatever the user does.
* `UndoRecordCostHolds`, `FlatJournalCostHolds`: they bound numbers of files by numbers of mishaps, so the
  invariant `CostInv` does as well: `Owed` are the files of ours that neither a row that is done nor the
  step just placed accounts for, and each step of the program adds at most one name to it, and none
  unless it counts a crash, a change of settings or a failed write. `KeptInv` is needed for the
  other steps: a row that is done is held as stored and is not worked on, so no one takes a name off the record.
* `DuplicateCostHolds`: there is at most one name of a step that is on record or just placed
  (`OneInOrder`), so of two files of a step all but one are owed. `Owes` maps each second file to
  itself if it is owed and to the lowest file of its step otherwise; the map is an injection of the
  duplicates into `Owed` (`DuplicatesOwe`), which is no larger than the mishaps.

`PlanQueue_proofs`:

* `QueueTypeCorrect`: `Spec => []TypeOK`.
* `ClaimsNeverErasedHolds`: a row with `created_by_us` keeps it whatever a scan
  and a handler do. A scan is easy: SavePlan counts the claims in its own
  transaction. A handler writes rows from the copy it read at the start, so the
  invariant `MemoryKnows` is needed: at each point of a run, a row that is claimed
  in the store is claimed in the handler's memory or was not part of the run.
* `DoneMeansPlacedHolds`: a plan is done when its files are placed. `DoneInv` says that a run which
  has met no failure has placed or found every step it has treated (`TreatedPlaced`), and that the steps not
  in its list were placed before it began (`RestPlaced`).
* `IgnoreIsSticky` and `NoDuplicateHolds` are action properties about what a scan writes after it
  has read. `ScanInv` keeps what it read for as long as it may act on it: the ignores that were set
  when it began are the ones it skips, and what UnresolvedPlanFor and OpenPlanFor said was so when they were asked, and
  is so still unless a handler has moved the orphan's plans since (`moved`).
* `LostFileCostHolds`: counts again. `OwnFiles` says that every file is at the destination of a plan that
  placed it, and the unclaimed ones grow by at most one name a step, and only by a crash.

`ScanPass_proofs`:

* `ScanTypeCorrect`: `Spec => []TypeOK`.
* `OneUnitPerPayloadHolds` and `OwnedIsBlockedHolds`, from the invariant `Loop`: what is
  blocked is what the gate said and nothing read since has changed it; what is claimed is what is
  linked with something worked on; and a candidate that was treated is blocked,
  claimed or worked on. It rests on two facts of `Overlap_proofs`: being linked is
  symmetric and transitive (`ReachBack`, `ReachSame`), so payloads are classes,
  and the gate blocks a class as a whole (`BlockedWhole`). `Reach` being a least
  closed set, these need no induction.
* `CauseIsOwnerHolds`: the torrent that a block names is one of the category that owns the payload. The
  gate takes the first in rank of those that reach the item, so the proof needs that a finite rank
  has a least (`ForemostExists`) and that the owner so found is linked (`NamedOwns`); `CauseInv` adds
  that nothing is blocked between two loops.

`Roots_proofs`, each promise together with the trace (`clash`) of the overlaps that break it:

* `TypeCorrect`: `Spec => []TypeOK`, with `Shape`: what a goroutine at each stage still holds.
* `SourcesStayArmed` (`SourcesInv`): a mapping that the guard does not protect is one that a reload
  under way has read, or is still to read.
* `LibrariesHold` (`LibInv`): a reload that is alone fills the guard with what the store holds; `OneLoad`
  says that two leave a trace.
* `DryRunHolds` (`DryInv`): a settings request that is alone carries the stored value from copy to copy, and
  at each stage it is known which copies have it.
* `CacheHolds` (`ProbeInv`): an undisturbed probe owns the files it makes, so its link says what the kernel would.
* `OutcomeHasCause` (`PlanInv`, `RefuseInv`): the method of a plan is that of the deepest root that holds its source,
  which a probe has answered for; execution is refused only for a change on the way.
* `WetIsProbed` (`WetInv`): dry-run is off only where the pairs have been probed. Each goroutine
  that turns it off, or adds a pair, is followed from what it read to its last probe.

`Login_proofs`:

* `TypeCorrect`: `Spec => []TypeOK`. It needs `Room`, that the server counts rejections below its
  limit until it bans, and `Used`: nobody uses an adapter that has not been made, so a new
  one starts with clean flags.
* `RejectedOnce`: `Spec => []OneRejection`. The invariant is `Once`: an adapter that had a rejection
  is latched, and one that is not made yet had none. The latch is set in the step that is refused and
  no step takes it back, so no other goroutine that waits for the mutex posts again.
* `FailureHasCause`: a listing fails only for a cause it met itself. `CauseInv` follows each request
  from its start: what it has met so far, that its adapter works unless something has harmed or latched it, and
  that one not yet made has no flag set. The first form of the property was false with three adapters, which the
  run with two could not show. An attempt can be refused although its credentials are right, once the attempts of
  other adapters got the program banned; the refusal latches the adapter and so spoils every request of it.
  `spoiled` in `Refused` says so now.

`PlanMaking_proofs`:

* `ReviewReasonedHolds`: `ScanNow` reads AutoFile twice without a lock. `ReviewInv` separates what it decides alone
  from `Doubtful`, what asks for a review whatever it says: with a doubt both readings agree; without one they
  agree unless the settings have changed between them.
* `PlansAreSureHolds`: the decision is a fold over the types of sums over the signals. A fold is a recursive function
  over finite sets; `FoldExists` shows by the smallest set without a value that there is one, so `ScoreIs` and
  `Top2Leads` say of `Score` and `Top2` what a reader expects: the best leads, and no other
  score exceeds the second. `Fair` is what every signal the code can add satisfies: a weight that is a
  number, and for a film no more than the year of its name and video that is half of its payload; without video
  the year's 55 stay below 85. `Confident` is the same for the name: no case of `scoreConfidence` without a season
  or a year reaches 85. `SureInv` carries the verdict and the parse to the plan.
* `NoFileForgottenHolds` and `TypeCorrect` (`TypeInv`): what is kept and what is skipped are the files at two sets of
  positions, each the complement of the other. `ElementsAtAre` says that the files at some positions are as many as these, from
  the ranks of positions: they rise (`RankRises`), and none is without a position (`RankHas`).
  `ExtIsKept` goes through the builders: none changes an extension.
* `NamesKeptApartHolds`: two files of a plan share a destination only if what tells them apart is something their
  type's layout drops, or a name was cut. `LaidOut` says that what the loop has placed is `Build` of the item as it was read, and that
  the torrent's episode is the one in its name. Then one lemma for each builder: `Sanitize` works word by word, so two names come out
  alike exactly if each pair of words does (`SameClean`); a name without a word that is too long was
  not cut (`SameName`); no two positions have one marker (`MarkersApart`), and no word of a marker is replaced (`MarkKept`), so
  files of a series that meet have one episode (`TVApart`); a companion's name is the rest of its own behind
  the film's, or its own (`MovieApart`); the discs above a file are those of its destination (`TailIs`). The first form
  of the property held in the run of that time and was false: `Alike` took discs anywhere in a path for kept, and
  the attempt to prove it led to the payload of two discs with a directory below each, which the run has now.
* `UncutEpisodeSurvivesHolds`: the run `truncated` finds an episode without its number; the theorem says that
  truncation is the only way there: a name that is not cut ends with the marker of its file's episode
  (`EpisodeNamed`), in every plan (`PlanLaidOut`).

Assumptions on constants beyond types: `SourceAssumption` of `Roots` says that two download roots of the
same depth are one. The roots of interest are those that hold the plan's source; they are prefixes of one path, and
`probe.go` and `guard.go` take the longest. `NamesAssumption` of `PlanMaking` says that what a pattern finds in a name is
one of the notations of `release.go`, and that it holds the numbers this notation has groups for (`WellFormed`: one for an
episode, two for a span); `PayloadsAssumption` says the same of each file. `NumeralAssumption` says that no two numbers are written
alike, which `%02d` sees to, and that a number is not a word that is cut or replaced. `RulesAssumption` says that
`pdf_default` is a comic, an ebook or none (`pipeline.go:328`). A payload is a
sequence of at least one file, no two of them with one path.

Only model-checked are the liveness properties `HandlersReturn`, `KnownSettles` and `Recovers`, which are
beyond the prover.

## Plan

In this order:

1. `PlanExec`, `Library` and their theorems (done).
2. `PlanQueue`, its runs and its theorems (done).
3. `ScanPass`, `Overlap` and their theorems (done).
4. `Roots` and its theorems (done).
5. `Login` and its theorems (done).
6. `PlanMaking`, `Classify`, `Layout`, `Release` and their theorems (done).

## Not modelled

Decoding of client responses, HTTP routing and authentication, formatting,
logging and events, the web page: they change none of the state above.
The regular expressions and the cleaning of names are strings put together character by
character, which the models replace by what a name yields. The values of settings other than dry-run,
AutoFile, the thresholds and the cap of plans; the check that a library lies inside a download root and that a
path has no symlinks (the guard refuses more, never less); free space beyond its two
outcomes; the two unused parts of the code (`CaseInsensitive`, `SanitizeRelPath`).

Liveness under fairness is out of the prover's reach, as are recursive definitions; there are none of the latter here.
