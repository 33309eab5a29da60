# A formal model of mistarr

mistarr fills the game library of a MiSTer from torrents its user supplies: it reads DAT files,
matches the files of `.torrent` sources to the entries of the DATs, has a download client
(Transmission or rtorrent) fetch the wanted files, verifies them by hash and places them under
`games/`. It runs beside the emulated core on a small ARM board with little RAM and an exFAT
card, so it pauses for a running core and is cut off from power without notice. The program is
`src/crates/mistarr-server` with four library crates. This directory holds TLA+ models of its
concurrent and crash-prone parts, TLC configurations that check them, and proofs of some of
their properties.

## 1. Inventory

Where a component is modelled, the module is named. Paths are under
`src/crates/mistarr-server/src/` unless they start with another crate.

### Job scheduler (`jobs/mod.rs`, `jobs/stop.rs`, `db/jobs.rs`; module `Scheduler`)

* **State**: the `jobs` table (`queued`, `running`, `paused`, and the finished states), one
  channel per lane (heavy, background, fetch, light), a worker per lane, a `CancelSet`, the set
  `taken` of rows a batch took from the lane, the shutdown flag.
* **Operations**: `enqueue` (join an open row or insert one, then dispatch it), the lane loop,
  `execute` (gate, running, body, checkpoints, end), `cancel`, `reconcile` and `revive` at start,
  `run_inline` for the job of the startup, `stop`, `prune`.
* **Interactions**: HTTP handlers and watchers submit; job bodies hold at checkpoints for the
  core gate; the DAT import takes other queued imports along as a batch (`dat_import/batch.rs`).
* **Hard**: a request is an insert and a dispatch with an await between; batch and lane race for
  a row; a finished job is written by its worker while requests join it; crash between any two.
* **Right when**: every accepted request is carried out or kept for the next start, no row has
  two workers, ended rows stay, a core that stays loaded brings held lanes to rest.

### Core gate (`jobs/watch/gate.rs`, `corename.rs`; part of `Scheduler`)

* **State**: the running core's name, the user's override. **Operations**: `set_corename`,
  `set_override`, `end_run_now`. **Interactions**: lanes and batches wait on it, the client's
  limits follow it. **Right when**: an override lasts as the API says.

### Database in RAM and the swap of its file (`db/ram.rs`, `db/ram/swap.rs`, `db/mod.rs`, `app.rs`; modules `WholeStore`, `DbSwap`)

* **State**: the database file, its WAL, the copy `.new`, the kept `.old` and the marker of a
  swap on the card; the writer, the reader, the write turn; what is in RAM.
* **Operations**: write and read, checkpoint, a migration or an import on a copy in RAM, the
  compacted copy, `install_file`, `replace_with`, `finish_swap` and `clean_leftovers` at start.
* **Hard**: a kill or a power cut between any two file operations; exFAT may lose both names of
  a rename; a WAL beside another file corrupts it; the recovery may itself be cut.
* **Right when**: a start finds one whole database with all that was firm, nothing is ever
  served from a fresh or a mixed file, and what readers see never goes back.

### Downloads, transfer, poller, release (`db/downloads.rs`, `jobs/transfer.rs`, `jobs/watch/poll.rs`, `jobs/import.rs`, `db/deferred.rs`, `jobs/watch/core_limits.rs`; module `Transfers`)

* **State**: the `downloads` rows and the source's `client_id`; the torrent in the client and
  its selection; the work kept under `client.deferred`.
* **Operations**: want, unwant, cancel, retry; the `Transfer` and `Deselect` jobs; the poll; an
  import's end and the release of a torrent nobody needs; freezing the client for a core,
  thawing it and replaying the kept work.
* **Hard**: four tasks read rows, call the client and write rows, none of it in one transaction;
  calls fail with or without effect; the torrent vanishes; the process dies.
* **Right when**: a rom has one open download, ended downloads stay ended, what is started stays
  selected, a queued download is tried until it leaves the queue, kept work is done.

### Import and placement (`jobs/import.rs`, `jobs/import/*.rs`, `incoming/*.rs`; module `Imports`)

* **State**: staged files, a scratch directory, `games/`, `files` rows, `import_log`, the watch's
  events, the import jobs in the heavy lane.
* **Operations**: wake, hash, quarantine, place by renames with a rollback, record, settle
  downloads that asked for another version.
* **Interactions**: the poller and the cancels publish what the watch hears; the scan of the same
  lane records files too; the end of an import releases the torrent.
* **Hard**: a crash between the renames and the record; a disc waits for all its tracks while
  they fail, are cancelled or are wanted again; a wake that comes while a job is at work.
* **Right when**: a file is recorded verified only with the bytes that verified, a good copy is
  never lost, a disc lands together, and no download stays `importing` for good.

### The client while a core runs (`jobs/watch/core_limits.rs`, `freeze.rs`, `client.rs`, `jobs/detect_client.rs`; module `CoreLimits`)

* **State**: the client's limits and process; `client.saved_limits`, `client.previous_limits` and
  the file `client.frozen`; the handle in use and its hold; what the following task believes.
* **Operations**: lower the limits or stop the process for a core, put both back for the menu, set
  aside the limits of a client no longer used, resume at start what an earlier process stopped.
* **Interactions**: follows the gate and the settings; a detection swaps the client under it; the
  poller and the `Transfer` job do not call a client that is held.
* **Hard**: read, store and lower are three steps, each may fail or be the last before a kill;
  the client restarts, or is resumed by hand; a stop is sent by a thread that outlives its task.
* **Right when**: the client's own limits are never lost nor mistaken, a stopped client is always
  on record, a clean stop leaves none stopped, and the gate's last word is what ends up applied.

### Sources (`jobs/source_import.rs`, `bind_source.rs`, `remap.rs`, `jobs/matching.rs`, `db/sources.rs`, `db/candidates.rs`, `mistarr-sources`; module `Sources`)

* **State**: `sources`, `torrent_files`, `torrent_candidates`, the torrents in the client.
* **Operations**: import a dropped `.torrent`, resolve a magnet, bind a source to a platform by
  overlap or by choice, map its files to roms, prove a file by its hash, map again when DATs
  change, switch off, delete.
* **Hard**: a plan is made from rows read before; the user's choice races an automatic bind; two
  jobs may own a magnet's row; ids of deleted sources come again.
* **Right when**: the user's last choice stands, a proof by hash is never undone by a guess, every
  source comes to be mapped under the last catalogue, and a resolved magnet downloads nothing.

### Drop folders, uploads and URL fetch (`jobs/drop_watch.rs`, `intake.rs`, `incoming/*.rs`, `http/dats.rs`, `http/fetch.rs`, `jobs/url_fetch/`; modules `DropFolder`, `UrlFetch`)

* **State**: `dats/` and `sources/` with `loaded/` and `rejected/`, what the watcher remembers,
  claimed names, a token and two temporary files per fetch, in RAM or on the card.
* **Operations**: poll, import, upload, retry a rejected file; post and cancel a fetch, receive,
  check, rewrite, look once more, place; the clean-up at start.
* **Hard**: a name is claimed by an empty file and filled later; a token is tied to its job by the
  request and by the job; a spool changes place under its writer when memory runs short.
* **Right when**: a file taken in is never lost or written over, an answered cancel is heeded,
  no temporary file stays, every file that can be imported is imported or rejected.

### Library scan (`jobs/scan.rs`, `jobs/matching.rs`, `db/files.rs`, `db/scan_progress.rs`, `jobs/import/rename.rs`; module `Library`)

* **State**: the directories of a platform, `files`, `scan_progress`, the roms listed.
* **Operations**: discover, hash in batches, store with the progress, delete rows of vanished
  files, match again after a DAT load, count discs, rename a misnamed file.
* **Hard**: the heavy lane scans while the background lane changes the roms; a scan resumes from
  its progress; directories become unreadable between two looks.
* **Right when**: no row of a file that is there is lost, a directory marked done has its rows
  stored, and once all is quiet the rows say what the files are.

### CHD images (`jobs/chd.rs`, `db/chd.rs`, `jobs/scan.rs`; module `Images`)

* **State**: a `files` row per track of an image that is identified, or one row that says why it is
  not (`off`, `pending`, `no_layout`, `failed`, `unreadable`); `chd_tracks`, the cache of tracks by
  header and size; `chd_failures`, by time of change too; the setting `[scan] chd_tracks`.
* **Operations**: a scan reads headers and queues the `chd_tracks` job, which decodes what a live DAT
  has the layout of and yields the heavy lane to a scan; a DAT load has the rest looked at again;
  the setting turns waiting rows off and on; a start applies it.
* **Hard**: a decode lasts minutes, while the file is written over, DATs are loaded and the setting
  changes; a copy under way has its final header and size; the scan decides and writes apart.
* **Right when**: no image waits while the setting is off, and once all is quiet every image has its
  tracks or the reason that is true.

### Catalogue and selection (`db/dats.rs`, `db/dat_stage.rs`, `db/titles/`, `db/groups.rs`, `jobs/dat_import/`, `mistarr-core/src/select.rs`; modules `Selection`, `Catalog`)

* **State**: `dat_versions` with their families, `titles` with parents, roots and picks, the
  preferences in effect and stored.
* **Operations**: stage a DAT, decide what it is, replace a version, retire what it no longer lists,
  bind or remove it, share groups between DATs, recompute the groups and their picks.
* **Hard**: deciding, parsing and storing are apart; a recompute holds at checkpoints between its
  passes while handlers change titles; versions of a family come in any order.
* **Right when**: the live titles are those of the newest versions, every group has the pick its
  preferences name, and a title's wants outlive its DAT versions.

### Other parts

* **Arcade catalogue** (`jobs/arcade.rs`): rebuilt from files a scan recorded.
* **Events, status and progress**, **HTTP API**, **configuration**, **launching**, **hardening**,
  **doctor**, the **web interface** and the **fixture** generator: I/O, formatting or tables.
* **Naming, hashing, DAT and torrent parsing** (`mistarr-core`, `mistarr-sources`) and the **client
  protocols** (`mistarr-clients`): pure conversions; the other models use their results.

## 2. Modules

| module | models | proved in |
| --- | --- | --- |
| `Scheduler` | the job scheduler, the gate and DAT import batches | `SchedulerProofs` |
| `WholeStore` | what the database file promises | |
| `DbSwap` | the database, its RAM copy and the swap; refines `WholeStore` | `DbSwapProofs` |
| `Transfers` | the downloads of one source and its torrent | `TransfersProofs` |
| `Imports` | the import of one catalog entry | `ImportsProofs` |
| `CoreLimits` | how the client is held while a core runs | `CoreLimitsProofs` |
| `Sources` | sources, their binding and the mapping of their files | `SourcesProofs` |
| `DropFolder` | a watched folder, uploads, retries and imports of its files | `CatalogProofs` |
| `UrlFetch` | a URL fetched into such a folder; EXTENDS `DropFolder` | `CatalogProofs` |
| `Library` | the scan of a platform, beside DAT loads and renames | `LibraryProofs` |
| `Images` | CHD images, their scan and their decoding; EXTENDS `Library` | `LibraryProofs` |
| `Selection` | the pick of a group, pure | |
| `Catalog` | DAT versions, titles, groups and picks; EXTENDS `Selection` | `CatalogProofs` |
| `MC...` | small instances for TLC | |

`CoreLimits` to `Catalog`, and `Imports`, are parameterised by `Cases`: a case says what there is at
first and, in `budget`, how often each kind of disturbance may come. `Init` picks a case, which stays
in `given`. So one run looks at many small instances, each with the disturbances that meet in it.

### Scheduler

One row of the table is `rows[id]`; ids grow as in SQLite. A request is `Request` (the
transaction of `enqueue`) and `Dispatch` (the send), with `Leave` for a caller dropped between
them. A lane's worker is a `pc`: `recv`, `gate`, `start`, `run`, `held`, and for the background
lane the stages of a batch (`take`, `claim`, `batch`, `bheld`, `release`, `settle`). `Lane` and the
join rule `Dedupe` are those of the code. `Faults` says which of a dropped caller, a failing row
write, an aborted lane and a crash may happen. A row write that fails leaves the row as it was
and the worker goes on as the code does: a job that cannot be marked running again after a pause
fails, with its row as it was paused (`UnpauseFails`); so does the lead of a batch that cannot be
marked paused or running, which then gives its followers back (`BatchMarkFails`), while a follower
that cannot be marked keeps its state (`Written`). The job's body is its checkpoints and its end;
what it computes is not in the model.

`owed` has the requests `NoRequestLost` speaks of: those accepted and not started, of a kind a restart runs again and
that joins jobs yet to start or waiting at the gate. A start takes a request off it, and so does `UnpauseFails`, where
no other row stands for the request: the code loses it there (section 5), and the property sets it aside.

Abstracted: publishing of events and status; batch pauses write their rows in one step where the
code loops; pruning's age limit (only rows nothing refers to go, as in the code's hour of grace).

### DbSwap

Each file operation is a step. `dir` is the directory as a running process sees it and `synced`
as it was at its last sync: a kill keeps `dir`, a power cut picks either, and any prefix of the WAL
that was not synced (the database runs with `synchronous = NORMAL`). A torn rename loses both
names, and a file operation may fail; a behaviour starts with one of the budgets in `Limits`, so
many crashes, torn renames and failures, and `budget` counts what is left. `WholeStore` has
`acked`, what was reported as stored, and `firm`, what a power cut cannot take; `KeepsStore` is
the refinement.

Abstracted: what is in a database is the set of units of work it holds; WAL salts are generation
numbers; whether there is room, memory or another process at the file is nondeterministic;
a failing sync of a directory is not modelled.

`AlwaysRecoverable` and `ServesAgain` are claimed only while no file operation
has failed (`Calm`). When the rename back of a failed swap fails too, the clean-up removes `.new`
and leaves `.old` as the only copy; a rename torn after that may lose it. `OneDatabase`,
`ReadsNeverGoBack` and `KeepsStore` are claimed of every behaviour.

### Transfers

Each transaction and each call to the client is a step of the task that makes it: `light` (the
worker of the light lane), `heavy` (the importer), `poll`, `gate`. What a task has read
and not used is in `sel`, `picked` and `snap`. A call the client takes has its effect (`Call`); one
that fails has it or not (`Fault`, at most `MaxFaults` times, and any call while frozen).

Abstracted: one source, as the others are instances of their own; one rom per title and one file
per rom; a verified file of a rom is a `done` row of it; whether a mismatch's title is still wanted
is nondeterministic; magnets, seed policies other than `none` and one that keeps seeding, the
settling of another version, discs and the removal of a source are left out; a call in flight at a
freeze fails and has no effect later.

### Imports

One entry: a disc of `Tracks` tracks or a single file. `Init` chooses its kind, which of its roms the
DAT calls bad dumps (`dumps`), what the torrent really has for each rom, what is in `games/` already and one of the budgets in `Cases`, so many
wants, cancels, failures, kills. `row` is the download table, `bus` and `list` are the watch
(`Hear`, `Lag`, `Submit`), `queue` and `job` the import jobs of the heavy lane. `job.at` is where
the body stands: `survey` reads the rows, `hash` takes the staged files in turn, `prepare` runs the
staging step, `move` the renames, `undo` and `discard` clear the scratch directory and the
originals, `record`, `finish` and `fail` are transactions. Each step is one transaction or one file
operation. Contents are four: `raw`, `made` (what the staging step makes of `raw`), `spoilt` (what
it makes of its own output), `bad`; `Right` is what the core needs.

What lands is recorded as `FileState` says: `verified`, or `bad` where the rom is a bad dump; the download is done
in both cases. `bad` is not `verified`: the rom counts as missing (`Want` opens a download for it again), a new
delivery is placed over it, and nothing counts it as placed. A scan (`Scan`) looks at the tracks of a disc together and each
time, and calls one that is no bad dump verified only where all tracks are there and none is a bad dump (`Whole`), so it takes
`verified` from what an import recorded on a disc with a bad dump. Any other file is looked at by itself, and not again
once it is verified.

Abstracted: the hash of a file is its content; a wanted entry stays wanted unless its DAT version
goes; a crash is a kill (what a power cut takes from the card is in `DbSwap` for the database only).
Left out: files that are another version of the entry, romsets, MRA files, zipped discs, a library
file removed by hand, names (the state `misnamed`), the rematch of files after a DAT is removed (in `Library`), and the release
of the torrent (in `Transfers`). What is in `games/` are the files at the places of the entry's roms, no others. `Err` stands for every refused database operation and for a cancel of the job.
`missed` remembers that a wake was lost; see `ImportEnds` below.

### CoreLimits

One task follows the gate; a pass of it is `pass.at` with its locals, a step of it one call to the
client, one write, one file operation or one signal. `rate` and `proc` are the clients, `saved`,
`previous` and `record` what is stored, `mem` what the task believes. A stop is sent by a thread of
its own (`stopper`). Settings, detections, restarts of the client, failing calls and writes, clean
stops and kills are budgeted.

Abstracted: waits (a retry or a check of a held client may come at any time); a rate is one of
`0..NoRate`, with 0 for a held direction; `Tick` and `Day` are the ages of a kept limit at which it
is due and given up. Left out: limits another user of the client changes meanwhile, and an error of
the record file other than the refusal `refuse`.

### Sources

`rows` are the sources by id, an id being the lowest above all others. The background lane runs one
`job` with its locals, `light` is the running `ResolveMagnet`, `api` a `DELETE` under way, `follow`
what a catalogue change has still to start. Matching is a relation given by the case: what a file
fits by name, nearly, and what it is by its hash. `asked` is the user's last choice for a source.

Abstracted: queue order is free; of a candidate only that it exists (not its confidence level); a remap
is written in a piece for each kind of change (matches, candidates that go, candidates that come), where
the code also cuts at a size. Left out: retries that clear `bad`.

### DropFolder and UrlFetch

`DropFolder` has the folder by name, `watch` (what the watcher has seen and reported), the import
jobs `rows` and `import` (the one that runs), and `owner`, where each request that places a file stands: write, claim,
fill, enqueue. `fate` remembers what happened to each content. `UrlFetch` adds the token (`slot`),
the fetch lane (`fetchLane`), the temporary files (`path`, `temps`) and where each fetch is. The case is
`chosen` and what is left of its disturbances `spare` here, since one proof module extends `Catalog` too.

Abstracted: a content stands for size and time of change as well; a name a live request has
claimed is filled before two polls see it empty; the last look of a torrent's copy and its last
write are one step. Left out: a clean shutdown, copies of a retry across devices, a kill between
`hard_link` and `unlink`, DAT batches (in `Scheduler`).

### Library

`disk` is what lies on the card, `rows` the `files` table by path, `saved` the directories an unfinished
scan has done, `scan` the running scan (its directory, the batch not yet written, the rows to keep),
`bg` the load and the recompute of the background lane. A unit of a scan is a directory, or the
directories of a disc. `touched` and `closed` remember what changed or was out of reach meanwhile. A rename is two steps, the
file's and the row's, and a scan may begin or end between them; the row's is refused when another row
took the new path, and fails when it has to delete a row the log still names.

Abstracted: a file has one hash; a rom one name; the deletion of missing rows is one write; looking
up, hashing and classifying a file are one step, as are reading what is done and the discovery of a
unit. Left out: other versions of a title, headers, the recompute inside a load in RAM, rows in states an import sets.

### Images

`Images` adds the images of a disc platform to `Library`; its actions conjoin those of the scan, the
loads and the kill (`WalkBegin`, `LoadImages`, `KillImages`) or leave the images alone (`Apart`). `box`
and `tracks` are an image's rows, `walk` what the scan has listed, read (`WalkRead`) and written
(`WalkStore`), `chd` the job with the row it is at: `page`, `row`, `decode`, then `reason` or `record`,
and `yield`. `on` is the setting and `apply` the part of its request still to come. A content's header is
`HeadOf`: that of the finished file while it is being copied. `late` remembers the images given
`no_layout` when a DAT had their layout.

Abstracted: an image has one track and a directory of its own; its layout is its size; the decode is one step that
reads the file as it was, as neither, or not at all if it changed. Left out: `.chd` files that a DAT lists whole,
cue rows, resuming past image directories, a newer decoder.

### Catalog and Selection

`dats` is the table of versions, `loads` their order of loading, `titles` the titles by id, `queue`
and `job` the background lane, `saved`, `prefs` and `change` the settings request. An import is
`StartImport` (decide), `Store` (decide again and write) and `FinishImport`; a recompute is
`StartRecompute`, `Pick` (a page of groups) and the pauses between. `Selection` is the order in which
`select.rs` ranks the variants of a group.

Abstracted: one platform; loads have distinct times; the queue's order is free; a name is its
`place` among all names; the revision itself stands for its dense rank; the cancels of downloads
that a retired title brings are in `Transfers`, the passes that match files again in `Library`.

## 3. Runs

| run | instance | shows |
| --- | --- | --- |
| `scheduler_batch` | 2 DAT imports, 4 ids, crashes | `NothingStranded`, `OneWorker` |
| `scheduler_faults` | 3 jobs (a DAT import, a recompute, a URL fetch), 3 ids, all faults | `NoRequestLost`: a request keeps an open row |
| `scheduler_live` | 2 jobs on 2 lanes, two cores | `EveryJobEnds`, `HeldLaneRests` |
| `swap` | 1 write, 1 import, a migration; a database, none, or a stale `.new` alone; four budgets | `OneDatabase`, `AlwaysRecoverable`, `ReadsNeverGoBack`, `ServesAgain`, and the refinement `KeepsStore` |
| `transfers_calm` | 2 roms, 2 rows, a lost torrent | `StartedIsSelected`, `OneOpenRow`, `EndedStays` |
| `transfers_faults` | 1 rom, 2 faults, a freeze, a loss, a crash | `QueuedLeaves`, `KeptWorkEnds` |
| `imports` | a disc of 2 tracks, a file, a zipped and a rewritten one, also as bad dumps, 3 rows; thirteen cases | `VerifiedIsRight`, `DoneIsPlaced`, `GoodStays`, `DiscTogether`, `ImportEnds` |
| `limits` | 2 clients at 2 addresses; five cases elsewhere, six on the board | `OwnIsKept`, `StoppedIsKnown`, `GateIsFollowed` |
| `sources` | 2 platforms, 3 roms, 2 torrents of 2 files, 2 ids; eleven cases | `ChoiceStands`, `ProofStands`, `SourcesSettle` |
| `library` | 2 files, a zip member, 2 directories, 2 images, 2 roms; twelve cases | `LosesNoRow`, `DoneIsStored`, `Settles`, `WaitsAsSet`, `ImagesSettle` |
| `catalog` | 5 DATs in 6 files of two publishers, 2 preferences; five cases | `ListIsCurrent`, `PicksFollow`, `GroupsHold`, `NewestWins`, `KeepsWants` |
| `url_fetch` | 2 names, 4 contents, 2 uploads, 2 fetches; eleven cases | `CancelHeeded`, `NothingLeft`, `KeepsFiles`, `EachSettles` |

**Why the bounds are enough.** Two jobs and three or four ids make a row that is joined, one that
waits behind it, and a fresh row after a finished one; a batch needs a lead and one follower. Under faults a third job adds
the kind that joins a paused row.
A swap has nine file operations. Its budgets (crashes, torn renames, failures) are (2,1,0): a cut
and a cut of its recovery, one inside a rename; (1,2,0): a rename and then its recovery's torn;
(0,1,1) and (1,0,2): failures, and a cut among them. A third crash would cut a state that is again
one of these. Two roms give a started row beside one that is queued,
cancelled or retried; a third adds no new state of the torrent's selection. Two tracks and three
rows make a disc with one track there, waited for, failed, retried or wanted again, and one with a bad dump that is
imported over what is there; a third track would be in one of the states of the second. Two kills cut an import and the import of the restart (of the zipped file).
Two clients make one in use and one set aside; two cores in a row let a pass meet the next change.
Two source ids make an id that is given again; one file that fits two roms and one that fits none
but nearly make a match, a candidate and a proof. A batch of two rows (`FlushRows`) leaves one in
hand at a kill, and a `Chunk` of one pauses a recompute between two rows. Two images make one that is decoded
while the other waits or changes. Two versions, one without
digits, one of another publisher and one that joins the family by a newer rule make every outcome of
the decision on a DAT. Two names make a clash and its numbered variant, two fetches one that waits.

**The cases.** Each `MC` module names its cases and says what each is for. A case combines the two or three
disturbances that act on the same state; all of them at once would be too many states and show
no step the cases do not have. `imports` cuts every kind of plan but the rewriting one, `limits` has another client behind each address, `library` loads
no DAT that changes the hashes of a rom listed before, `transfers_calm` has no freeze: there the
claims fail, see section 5.

**Claims that set something apart.** `AlwaysRecoverable` and `ServesAgain` hold while no file operation has failed.
`NoRequestLost` sets apart a request that joined a paused job whose row then cannot be marked running again (`UnpauseFails`).
`DoneIsPlaced` asks of a file only that it is in `games/`, not what is recorded of it, once the DAT version is removed, and
allows `unverified` beside it on a disc with a bad dump, which a scan makes so. `ImportEnds` sets apart the removal of a DAT version and a lost wake (`missed`); `PicksFollow` and `GroupsHold` a
recompute that was lost, or joined by one that had read older titles (`missed`), and `GroupsHold` clones of clones; `NothingLeft` uploads
whose client went away and fetches that failed in the write after a move to the card (`stray`);
`KeepsFiles` names robbed of their claim (`robbed`) and `EachSettles` files put back within one poll
(`putback`); `SourcesSettle` magnets whose `.torrent` was dropped meanwhile, by its cases; `StoppedIsKnown`, of a clean
stop, signals that failed; `ImagesSettle` images given `no_layout` too late (`late`).
Each is a thing the code does, told in section 5.

**Deadlock** is checked for `Transfers`. The others may stop: a process that is down need not be
started, ids, crashes and other budgets are used up, and when everything is imported, mapped or
picked and the user wants nothing more there is no step left.

**Fairness.** The tasks of the server are tokio tasks: a task that can go on is polled, so each
has weak fairness for its steps. A job's body ends only under the premise `BodiesEnd`.
`DbSwap` assumes the launcher starts a process that is down and that a swap which waits for
readers gets its turn (strong fairness of `Close`; reads are short and the lock is fair).
`Imports` assumes weak fairness of the lane's worker and of the watch. `Transfers` assumes nothing
of a thaw: its liveness properties have `<>[]here` as a premise. `CoreLimits` assumes that the task's
timers fire, threads end and a server that is down is started. `Sources` assumes in addition that every resolving
source gets its turn (strong fairness of `ResolveStart`: the poller asks for each again and again).
`Library` assumes that the timer asks for a scan again and again (`scan.interval`, a day unless
configured) and that the gate opens; with `Images`, that neither the scan nor the decoding is passed over
for ever (strong fairness of `WalkBegin` and `ChdBegin`: the heavy lane is a queue). `UrlFetch` assumes that the watcher polls. No module assumes
anything of the user or of the client's progress.

## 4. Proofs

### Scheduler

`SchedulerProofs` proves, for every set of jobs, every bound and every choice of faults:

* `TypeCorrect`: `Spec => []TypeOK`.
* `OneWorkerAlways`: `Spec => []OneWorker`.
* `FinishedRowStays`: `Spec => FinishedStays`.

The inductive invariant `IInv` is `TypeOK` with five parts, needed because `OneWorker` says nothing
of ids that are not held yet: an id is in one place (`Once`: a call that has inserted its row, a
channel, a worker); what is on its way has an open row on its lane, unless a batch took it
(`Routed`); what is held is open and no batch's (`Worked`); what a batch holds is taken and open
(`Batched`); nothing is under way before the lanes open (`Phases`). Each action has a lemma; the
lemmas on rows, channels and places are shared. The assumptions are those `Scheduler` names,
which TLC evaluates on every run.

On top of it, under the same assumptions:

* `NoRequestIsLost`: `Spec => []NoRequestLost`.

A row leaves the states a request waits in when its run starts, which takes the request off `owed`.
`UnpauseFails`, which ends a paused row without a start, takes off the request of that row where no other stands for it,
and its lemma shows that it loses no other. So the
steps to fear are those that end, delete or overwrite a row without a start, and each needs a fact of its own: what a worker or a batch holds beyond its start is running or paused at a
checkpoint, and only an import that may batch leads one (`AtWork`, with `Batched`), so the end of its run
takes no queued row away (past its pauses, also those whose writes failed, it says only that the row is not queued,
and a batching job joins queued rows alone); only a URL fetch, which no restart keeps, is cancelled before it starts
(`Flags`); a row `reconcile` deletes as a repeat has a queued one of its job before it (`Met`), and one
it fails is of a kind nobody owes; a new row takes an id no row has. One lemma (`CoveredStays`) says that a step which
changes one row loses nothing unless that row itself does.

and, on top of that:

* `NothingIsStranded`: `NoStrays /\ Spec => []NothingStranded`, where `NoStrays` excludes the two faults that
  do strand a row (section 5), a caller dropped inside `enqueue` and a failing write. Aborts and crashes may come.

Beside the property itself the induction needs that a worker between two jobs holds none (`Idle`), so that
receiving overwrites nothing; that a follower of a batch is still in its call or its channel (`Ready`), so
that one given back is run by its lane; that open lanes stay open before the shutdown, so that what is dispatched
arrives; and what `reconcile` has sent so far (`Sending`).

### DbSwap

`DbSwapProofs` proves, for every set of writes and imports and every set of limits on kills, power cuts, torn
renames and failures, and with a database that has the schema or not:

* `TypeCorrect`: `Spec => []TypeOK`.
* `ServesOneDatabase`: `Spec => []OneDatabase`.
* `StartRecovers`: `Spec => []AlwaysRecoverable`.
* `ReadsOnlyGrow`: `Spec => ReadsNeverGoBack`.
* `ImplementsStore`: `Spec => KeepsStore`, that is `Store!Spec`.

`AlwaysRecoverable` speaks of what the next start would find, so it is far from inductive: a power cut goes back to
the directory as it was synced, the recovery's own renames may be torn, and the premise `Calm` may stop to hold. The
invariant says instead what a directory may look like whatever comes (`Sound`, of the card as it is and as it
was synced): with the database, that is whole, holds what is firm and has only its own frames beside it; without
it the marker is there, and the copy and the old file, as far as they are there, are whole and hold what is firm;
both are there as long as no rename was torn and no operation failed, one of them after one torn rename. `Stored`
says that whatever file a start takes from the card as it is has all that was reported as stored, `SameDb` that
but for the renames the synced database is the one in use, `Fresh` what may lie on a card that never had one. The
rest is what the swap knows at each of its steps: the served file holds exactly what was stored (`Serving`), the
copy has it all and `.new` is the copy (`Copied`), which names there are (`Renamed`), and that the database's
name is missing on the way back only when an operation failed (`Backed`).

Every action has a lemma. They rest on one for each thing a step does to the card: nothing (`CardStays`), something
beside the database (`CardBeside`), a checkpoint (`Checkpointed`), a transaction (`Logged`), a rename onto the
database's name (`NamedDb`). The refinement maps the steps of the files to those of the store (`Kinds`): opening
to `Open`, a transaction and the reopening after a swap to `Commit`, a checkpoint to `Harden`, a failed reopening to
`Break`, a kill or power cut to `Cut`, and every other step, each one of the swap before its reopening among them,
to a stutter.

### Transfers

`TransfersProofs` proves, for every set of roms and files, every bound and every choice of faults,
which includes the freezes, replays and crashes:

* `TypeCorrect`: `Spec => []TypeOK`.
* `OneOpenAlways`: `Spec => []OneOpenRow`.
* `EndedAlways`: `Spec => EndedStays`.
* `SelectedUntilReplay`: `Spec /\ [][~Replay]_vars => []StartedIsSelected`.
* `StartedAlwaysSelected`: `NoFaults => (Spec => []StartedIsSelected)`.

`OneOpenRow` with the types is inductive, but a step may move many rows at once. The proof goes
through one lemma on rows: when every row keeps its rom and moves along an edge of `can_become`
(or does not move), and a row that becomes open is the only open one of its rom before and after,
the step is a `RowStep`, and a `RowStep` preserves `OneOpenRow` and never moves an ended row but
by a retry. Each action is shown to be a `RowStep`, and only `Want`, `Retry` and `WantAgain` open
a row, each behind a guard that says its rom has none.

A replay of the gate deselects rows that were started since it read the selection (section 5), and
`SelectedUntilReplay` says that nothing else does: calls that fail with or without their effect, a frozen
client, crashes and lost torrents leave every started row's file selected. Its invariant `EInv` says
what the tasks have in hand. From its read of the source to the start of its rows, a pass of the light lane
holds a selection with the files of every started row and of the rows it will start (`InHand`): the
lane is alone in starting rows, and wants and retries only queue them. Until it was sent the torrent has the
earlier selection, which has the files of every started row as well. None of the rows of the pass runs yet
(`Waiting`), so failing them ends none that the poller has read. The rows of the poller were not
queued again since it read them (`Polled`), so its write starts none whose file is not selected.
`NoFaults` is what the run `transfers_calm` sets, `MaxFaults = 0` and `MaxFrozen = 0`: no work is ever
kept then, and the gate has nothing to replay.

### Imports

`ImportsProofs` proves, for every number of tracks, every bound on rows and every set of cases:

* `TypeCorrect`: `Spec => []TypeOK`.
* `VerifiedAlwaysRight`: `NoCutRewrite => (Spec => []VerifiedIsRight)`.
* `DoneAlwaysPlaced`: `NoCutRewrite => (Spec => []DoneIsPlaced)`.
* `GoodAlwaysStays`: `NoCutRewrite => (Spec => GoodStays)`.
* `DiscAlwaysTogether`: `NoCutRewrite => (Spec => DiscTogether)`.

`NoCutRewrite` says that the cases of an entry whose file is rewritten have no kill; the code spoils that file
when it is killed between rewriting and renaming it (section 5), and all other entries may be killed at any step.

`IInv` is the types with `Owned` (a job at work is some download's) and `Known`, what the job knows at each of its
places: a download whose staged file it has passed is found or verified; once there is a plan, each of its roms is still to
be moved, has landed, or was verified when the plan was made; when there was nothing to place, all are verified. No step
of anyone else takes that from it while it is at work (`OthersStep`; a scan is a job of the same lane), the steps that
only read keep it (`ReadStep`), and `SettleKnown` has the steps that write what became of the rows. `Knows` also says
which rows a step makes done: only those of the job, and only where its rom has landed or is verified (`JobsDone`).

All but the types share `CInv`, which adds where the files are: a staged file is the torrent's (`Sourced`), a scratch
file is well made, and a rewriting plan has one only from its step to its rename (`Scratching`); the job read all
roms or none (`Reading`), which is why a disc whose version is removed under it still lands together; what it found
is staged while it looks (`Looking`), and while it places every rom has a good copy and is to be moved or in place
(`Placing`, which needs `VerifiedIsRight` for the roms the plan keeps, so these are proved at once); what landed
is right (`Landing`), and at the discard all that was found is in place (`Clearing`).

`DoneIsPlaced` needs more. It is not inductive: the step that writes `done` looks at no file, and what is recorded of a
done download is not for good, since a later scan may call its track unverified. So that its rom is in `games/`
cannot rest on what is recorded. It rests on `InPlace`, that every rom of the entry is there: a rename only brings what the
core needs, so nothing undoes it (`InPlaceStays`); once a job has nothing left to move, it holds (`Ending`, from
`Placing`); and so it holds where a download is done (`DoneHere`). What is recorded is then right in the step
that makes the download done (`BecomeDone`), and after it only a scan changes it, as the property allows
(`RecordedStays`). `NoCutRewrite` is needed since the job of a restart may record, and end as done, what a cut rewriting plan spoilt.

### CoreLimits

`CoreLimitsProofs` proves, for every set of addresses, clients and rates and every set of cases, with any budget of
changes of the gate and the settings, detections, failing calls, writes and signals, restarts, stops and kills:

* `TypeCorrect`: `Spec => []TypeOK`.
* `StoppedIsAlwaysKnown`: `Spec => []StoppedIsKnown`.
* `OwnIsAlwaysKept`: `OwnClients => (Spec => []OwnIsKept)`.

`OwnClients` says that no case has two addresses with the same client behind them. The code spoils the own limits of
a client it knows under two (section 5), so the theorem is about everything else; so is every case of the run.

`StoppedIsKnown` relates a process, a file, a published hold and the place of a task, each changed by another actor
(`SInv`). `Frozen` is its core: only the process of the record may be stopped, the task that has looked at the record
believes it, and while the thread of a stop is under way the record is the one it wrote, or none. The
steps to fear are those that take the record away, and each needs that no client is stopped when it does: `thawed`
follows the signal that resumed it, and a thread whose signal failed had stopped nothing (`Threads` ties the thread
to the place the pass waits at). `Stopped` says that a record survives a clean stop only by a failed signal, and `Local` what
the locals of a pass are where it uses them.

`OwnIsKept` needs to know which record counts. `Covered` says that each limit not in force is in the record in use if that
is the client's, and else in what is set aside under its address; what is set aside is the task's copy once it has
one, since a list that was put back is not yet written when the record in use changes (`Memory`). `Reading` says that what
a pass has read of a client is its own, because a limit is read only while its record, or its absence, says that it is
the client's; `Writing` that all that is about to be changed is stored, and that a limit is forgotten only when it is
in force again; `Returned` that what the tries put back is in force. The clause of `dropped` is needed for the record in
use too: limits given up after a day are read back as the client's own.

### UrlFetch

The last part of `CatalogProofs` proves, for every set of names, contents, requests and fetches and every case:

* `CancelIsHeeded`: `FetchSpec => []CancelHeeded`.
* `FilesAreKept`: `FetchSpec => []KeepsFiles`.
* `NothingIsLeft`: `FetchSpec => []NothingLeft`.

`FolderTypes` are the types. `HeedInv` says what a fetch at each of its places knows: a token that is
cancelled and tied has its job told to stop, one that is cancelled and not tied has a request or a
job still to tie it, and a fetch past its last look was not cancelled before it. `FolderInv` is that a
content has one place, a claimed name one owner, and an import the file its row names, so no step
that fills, moves or removes a name touches what another holds. `TempInv` is that the path of a
fetch is one of its temporary files and the only one but for the rewrite that is being made. The
steps of `DropFolder` are shown once to be steps on the folder, those of `UrlFetch` one by one.

### Library and Images

`LibraryProofs` proves, for every platform, set of files, directories, images and roms, batch size and set of cases:

* `ScanKnows`: `ImagesSpec => []LibraryInv`.
* `TypeCorrect`: `ImagesSpec => []TypeOK`, the types, one row for an id and the size of a batch.
* `KeepsRows`: `ImagesSpec => LosesNoRow`.
* `StoresDone`: `ImagesSpec => DoneIsStored`.
* `RowsFollowSetting`: `ImagesSpec => []WaitsAsSet`.

It assumes what `LibraryAssumption` says of the directories: one lies in itself, and on a disc platform in one top directory,
which lies in no other. Neither action property can be seen from the step it speaks of: that step deletes what the walk
did not see, or forgets the progress, and whether that is right was settled by every step before it, some of an earlier
process. `LibraryInv` is the types and `ScanInv`, what a scan knows:

* `SavedStored`: a directory that `scan_progress` has as done has a row, of its size and time, for each file that lay there
  untouched. This is what a resume relies on, so it is kept after a kill and a cancel too.
* `Accounted`: each such file is in a directory still to come, or is in the rows to keep and has its row, or
  is in hand: among the files listed and not read, the tracks read, or the batch. `ReadRight` says that what is in
  hand agrees with the file, `HandsFit` which of these there are at each place of the walk.
* `Spared`: a row under a directory that could not be read is kept, or the directory is known as unreadable,
  or is still to come, when the walk will find it so.

A step that is none of the scan's keeps all this if it disturbs only files it counts as touched; `BesideScan` says
so once, for copies, deletions, renames, loads, removals and recomputes, of which the last three change no
size and no time of a row (`RematchStays`). A batch is written row by row, each matched again if its rom was
retired, and `CommitStores` says what is in the table then: what the batch has of its files, the last of it if
it has one twice, and elsewhere sizes and times as they were. The steps of the walk have a lemma each.

`TypeCorrect` adds `FitInv`: one row for an id, what a scan could not read, and the length of its batch. A row keeps its id
while its size and time stay (`SameStamp`), a new row's is above those of the table and of the new rows before it in the
batch (`NewIds`), and a rename that moves a row to a name another row has takes that one away first (`RenameIds`). No run lists
`TypeOK`: TLC would have to enumerate the functions of `ScanState` to evaluate it.

The attempt to prove this found four places where `Library` was not what the code does, or claimed too much, none of which
its cases met; two cases were added that do (`Raced`, `Emptied`). A rename is two steps: one whose file was
moved before a scan began and whose row is written after the scan read the file takes away, or moves, the row the scan stored, so the
rows a rename changes count as touched. A row renamed into a directory that could not be read is not one the scan
knows of, nor need it: the file was moved there, so the directory was readable; it leaves `closed`. A
rename to the name of a row that is gone fails, with its file moved, when the import log names that row (section 5). And a
directory of a disc platform that is empty and cannot be read is a unit of the scan: the listing does not look into it.

An image: a scan decides on it in one step and stores it in another, and the setting may change between. The write
settles what it stores by the setting as it is then, which is what the proof goes through, step by step: `Reasoned` says that an
image's other row gives a reason, `Decided` that the job never has `off` in hand.

### Sources

`SourcesProofs` proves, for every set of torrents, platforms and roms, every highest id and every set of cases:

* `TypeCorrect`: `Spec => []TypeOK`.
* `ChoiceAlwaysStands`: `Spec => []ChoiceStands`.
* `ProofsAlwaysStand`: `Spec => ProofStands`.

It assumes that `Ignore` and `Automatic` are two choices and no platforms, which they are in the request
(`SourcesAssumption`). Neither property is inductive. Both need how the parts of a row belong together
(`Good`): a platform, a choice that waits and a proof are had only with a file list, a source that
resolves has none, an unbound one has no platform, and what is proved of a file is what it is. So an import that
finds the row of a magnet, which writes its file list anew and binds it to the best platform, can undo
neither a choice nor a proof: there is none yet. `Stands` adds to the choice that the row's `user` flag tells
whether it is automatic, which is all the re-bind after a catalogue change looks at. A re-map reads a
source's platform, and forgets proofs, plans and writes in transactions of their own; that the source is
still on that platform, or gone, is `OnPlatform`. It holds because what moves a bound source is a job of
the same lane: the re-bind in between takes unbound ones and a resolved magnet had no platform. So the proofs it
forgets are of roms that are gone or of another platform, and the pieces of its plan leave files alone that
were proved since.

The proof first says what each operator does to a row (`MappedRow`, `AppliedRow`, `WrittenRow`, ...): the
new row is `Good`, has the same torrent, and the old one's proofs outlive it (`Outlive`). `TableSteps` and
`ChangedRow` carry that to the tables, and each action has a lemma of its own.

### Catalog

`CatalogProofs` proves, for every set of DATs, files, games and preferences, every rule for family keys and every set
of cases:

* `TypeCorrect`: `Spec => []TypeOK`.
* `ListStaysCurrent`: `Spec => []ListIsCurrent`.
* `PicksAreRight`: `Spec => []PicksFollow`.
* `GroupsStay`: `Spec => []GroupsHold`.
* `OnlyNewerReplace`: `Spec => NewestWins`.
* `WantsStay`: `Spec => KeepsWants`.

The assumptions are `CatalogAssumption`, among them that a file's games have names of their own (`put_title` stores a
repeated name over the earlier), and `NoneAssumption`, that `None` is no row and no job.

The first half is what the operators do. Ranks are totally ordered (`BelowTotal`, `BelowTransitive`), so a group with
a title to show has exactly one best (`SelectOne`); a recompute leaves every group its pick (`RecomputedPicks`);
linking and re-rooting give two titles one root exactly when they had one target, and the root has it too
(`RootsOfTargets`); a load gives each game its row or a new one (`LoadedRows`), which needs that new ids count on from
the last (`Numbered`); the numbers of versions are their own (`StoredNumbers`), so there is one largest (`LargestOne`).
The second half is what each step does to the tables (`StoreStep`, `EndOf` and `StopOf` for removals and restarts, `SamePicks` for
wants), and then the invariants:

* `Base`: the types, that `loads` orders the versions (`LoadsOrdered`) and that titles belong to versions.
* `ListInv` for `ListIsCurrent`. An import on the card decides whether to stage from what it sees, and the store decides
  again; between them a handler may have removed or bound a version. `StaleDecision` is what an import that did not stage may
  meet: its version is not current, and if it has come to be bound, either nothing of its family is current any more or it is
  older than what is. So the store leaves it without titles, never with those of another version beside it.
* `PicksInv` for `PicksFollow`: the picks are right for the preferences in effect, or something is still to come that
  will make them so (`Owed`): a queued recompute, a settings request about to queue one, a removal's follow-up, or a recompute that has
  started under these preferences. `PrefsInv` is why a job that started under others cannot spoil it: it leaves a follow-up.
* `GroupsInv` for `GroupsHold`, likewise, with `NumbersOnce` and parents that are rows (`ParentsIn`). A step that
  owes no recompute must leave the groups right by itself: what it stops was not current, and a version it makes
  current without filling it has no titles, so no title's kin changes and the largest version, if it has a twin, is the same.
* `NamesInv` for `KeepsWants`: until families are joined a family has one row of a name.

Proving `GroupsHold` showed that its first form was too strong: with a DAT that lists a clone of a clone, and no
other DAT, a group's root is in another group, since `recompute.rs:248` copies `parent_id` (section 5). It now sets
these titles apart, and the rest is as before.

### Only model-checked

Liveness: `EveryJobEnds`, `HeldLaneRests`, `ServesAgain`, `QueuedLeaves`, `KeptWorkEnds`, `ImportEnds`, `GateIsFollowed`,
`SourcesSettle`, `Settles`, `ImagesSettle` and `EachSettles`, since the prover does not handle fairness. Every invariant
and every action property of the runs is a theorem, `StartedIsSelected`, `GoodStays` and others under the premises their
theorems state. `Hits` counts files, but no theorem of `Sources` depends on which platform fits best.

## 5. Seen while modelling

What the code does against its own words, or against what one would expect. Each follows from steps
of a model; no run claims the opposite.

**Scheduler.** `Scheduler::enqueue` inserts the row, awaits the write and then dispatches on the
caller's future (`jobs/mod.rs:397`); `POST /system/scan` awaits it directly, so a handler dropped with
its connection in between leaves a queued row in no lane, and later requests join it until the next
start. A Run now may be ended after new heavy work was queued (`jobs/mod.rs:574`). A request for a scan, a recompute, the tracks of
CHDs or the arcade catalogue joins a job that is paused at the gate, "whose run still covers the request" (`jobs/mod.rs:105`); when the
write that marks the job running again fails (`jobs/mod.rs:249`, `jobs/stop.rs:205`), the job ends failed and the request with it:
it was answered and no row stands for it.

**Transfers.** `release_source` reads that nothing of the source is selected and then removes the
torrent and clears its client id (`jobs/import.rs:1279`); a download started in between stays
`transferring` in a source the poller passes over, while `docs/DOWNLOAD-CLIENTS.md:196` says "A torrent
the client no longer has fails its downloads." A file selected because its row was queued stays
selected when the row is cancelled (`jobs/transfer.rs:328`). The replay of a kept Deselect may
deselect a row just started (`jobs/watch/core_limits.rs:632`).

**Imports.** The scratch directory of an import that was killed is not removed, and `Roots::read`
prefers what it finds there to the staged file (`jobs/import/place.rs:146`): the job of the restart
rewrites its own first output and records it verified; `place.rs:81` speaks of "an empty scratch
directory". `retire` cancels a disc's waiting tracks without an event (`db/dats.rs:451`), so those that
are importing are not looked at before the next start; `docs/ARCHITECTURE.md:619` says a cancelled
download also wakes them. `disc` counts only importing tracks as present (`jobs/import.rs:851`), so a
disc with a verified track always fails; `import.rs:832` says "Tracks an earlier attempt already placed count as present."
An import of a bad dump records it `bad` and ends the download `done` (`import.rs:1207`); since only a verified file counts as
placed (`import.rs:407`), the rom still counts as missing, and wanting it again from a client that still holds the file as moved
ends in a failed download. On a disc with a bad dump an import records the other tracks verified, and the next scan calls them
unverified (`jobs/matching.rs:257`).

**CoreLimits.** When the gate changes while the limits set aside under one address are put back, the
pass goes on and may read the client through its other address and store the gate's rate as its
own (`core_limits.rs:876`); `docs/DOWNLOAD-CLIENTS.md:286` says "a held value is never saved as the
client's own". With an own limit of 0 kbps enabled, `lowered` returns the wanted rate
(`core_limits.rs:222`). A detection that probed before the freeze ends after it, against
`docs/DOWNLOAD-CLIENTS.md:303`. A kill between the two writes of `take_back` leaves a record twice.
Limits dropped after a day of failed tries (`core_limits.rs:896`) leave the client with the gate's, which a later
pass at that client reads and stores as its own.

**Sources.** A `.torrent` dropped while its magnet resolves binds the source at once
(`source_import.rs:224`), and no job then stops the torrent that was started for its file list, which
fetches every file; `docs/ARCHITECTURE.md:389` says the torrent is stopped first. A magnet that is
disabled while it resolves is passed over in the same way. A `DELETE` between the client's add and
`set_client_id` leaves a running torrent nobody owns. The id of a deleted newest source is given
again (`migrations/0025_torrent_paths.sql:10`), and a `ResolveMagnet` under way may write the old
torrent's list to the new source. A failing `client.stop` is only logged (`source_import.rs:551`). A
kill between the import's transaction and the move makes the file a duplicate of itself, which goes
to `rejected/`. A choice stored by a request that is dropped before its job is queued waits for the
next one.

**DropFolder and UrlFetch.** An import queued for an earlier file of a name may take a live request's
empty claim to `rejected/`, after which another file of that name is written over (`place.rs:88` says
"so no file is ever replaced"). When a write fails right after a spool moved to the card, the file on
the card stays until the next start (`spool.rs:192`; `spool.rs:78` says "removed when dropped unless
placed"). A retried file that is put back within one poll and whose import then fails is not
reported again before a restart (`drop_watch.rs:17`). A file replaced while its import runs is moved
to `loaded/` unread. A kill between a DAT's import and its move imports it again.

**Library.** A scan's batch may hold the match of a file against a rom whose hashes a DAT load changes
before the batch is written; `commit_unit` looks again only at rows whose rom is retired
(`scan.rs:561`), while `db/files.rs:905` says "so no file stays verified against hashes it does not
have". A request for a scan joins one that is held at a checkpoint (`jobs/mod.rs:105`) and has passed
what was asked for. A rename marks the file verified without a look at its content
(`import/rename.rs:96`); one that races the hash of the same file may leave a verified row without a
rom. A rename to a name whose row is left over deletes that row with `files::delete`, which does not clear the import log's
reference as `delete_ids` does (`db/files.rs:372`, `:635`), and foreign keys are on (`db/mod.rs:821`): when the log
names the row the transaction fails after the file was moved, and the old row stays until a scan. Discs count retired roms (`matching.rs:258`). A flat file that could not be read is not hashed
until its size or time changes. A kill between the removal of a DAT and its follow-up
(`http/dats.rs:226`) leaves rows matched to retired roms. A cancelled scan leaves its progress.

**Images.** A scan reads that an image's row says `no_layout` (`jobs/chd.rs:181`) and writes it with its batch
(`scan.rs:555`); the job decides the same and writes it later (`jobs/chd.rs:943`). A DAT load's recheck in between is
lost, as is one that comes while the setting is off for a moment (`jobs/chd.rs:563`): the image stays
`no_layout` though a DAT has its layout, until the next DAT change, while `docs/VERIFICATION.md:421` says it "is
checked again after the platform's DATs change". A `chd_tracks` run that is held takes in a request whose images
lie behind its cursor; if it then only skips, it ends without them until the next scan (`jobs/chd.rs:640`). A
settings request dropped before `apply_setting` (`app.rs:375`) leaves the rows as they were until a scan or a start. A
recompute that matches old tracks again removes the row of the image that replaced theirs, until the next scan.

**Catalog.** A recompute held with the old preferences absorbs the settings change's request
(`jobs/mod.rs:105`). A settings request dropped between storing, applying and queueing leaves the
picks of the old preferences (`app.rs:355`). An import that staged against a version which is then removed
still deletes what it thought older. A queued bind revives a removed version. A DAT dropped again
after its family was joined prefers its own row (`titles/mod.rs:261`). With a single DAT, a group's
root is its `parent_id` without a new root for groups that lost theirs (`recompute.rs:248`).

## 6. Not modelled

The models map some 11,320 lines of the 87,500 of the implementation. The rest is mostly not theirs to model: some 25,000 of
them are inline tests; SQL migrations, parsers (DAT, torrent, bencode, XML, CHD),
formatting, HTTP routing, the doctor, the benchmarks and the generator of synthetic libraries keep no
state of their own or change none concurrently. What keeps state and is still left out:

* the **arcade catalogue**, rebuilt from MRA files in one transaction;
* **events** and their replay ring, and the progress shown;
* in `Imports`, files that are another version of an entry, romsets and MRA files;
* **launching** a core and the wizard's choice of an address.
