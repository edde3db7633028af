# ScrapeGoat: specifications

ScrapeGoat is a NextUI pak that downloads artwork, manuals and cheats for a ROM library.  The part of
it that is hard to get right is not the downloading: it is a queue worked on by several threads while
the user adds, cancels, edits and clears; a handoff of that queue between two processes that share
nothing but a few files; a git checkout that is read while git commands come and go; folder mappings that
have to agree in memory, in a file and in the jobs already queued; requests that are retried, interrupted
and cut off while they write a file.  This directory holds TLA+ models of these five parts, of what counts
as a game and of which cheat file a game gets, their TLC runs, and proofs.

Names in the modules are those of the source where TLA+ allows it: `queue_clear_done` is
`QueueClearDone`, `g_items` is `items`.  `PROJECT.json` gives for every definition the lines it models.

## 1. The system

| Component (source) | State | Operations | What is hard | What makes it correct |
|---|---|---|---|---|
| Download queue (`queue.c`) | `g_items`, `g_next_item_id`, `g_dirty`, `g_manager_started`, `g_worker_running`, `g_interrupt`, the batch lists; threads and their private copies of items | add (three kinds), clear, cancel all, handoff snapshot, mapping edit, shutdown, load; the manager's passes; worker, lead and cheat steps | threads keep an index over calls that take minutes and no lock; an interrupt flag that is set, joined on and cleared; failures of every `pthread_create` | nobody's index goes stale, one thread per item, one result per item, no item left behind, every stop ends with no thread left |
| Background daemon (`daemon.c`) | `queue.json`, `daemon.pid`, `daemon.lock`, `daemon.control`; the daemon's own queue | launch, ready report, poll loop, snapshot, stop, handoff, exit; `daemon_is_running`, `daemon_cleanup`, `daemon_cleanup_all` | two processes, each of which may be killed between any two system calls; timeouts that race an exit; files that say less than they seem to | one owner of the queue at a time, no job lost, every wait gives up |
| UI and application flow (`ui.c`, `main.c`) | what the user sees; which screen | startup takeover, restore, status screen and stop, exit to background | decides on the answer of `daemon_is_running`, which is stale as soon as it is given | never runs a queue beside a daemon; always gets to a screen |
| ScreenScraper client (`screenscraper.c`) | credentials, the cancel callback, the temporary file of a download; API statistics | `ss_search_rom`, `ss_download_media`, `http_get`, console scraper | retries, quota answers, cancellation in the middle, a partial body | each request ends in one of found, not found, failed, cancelled; a file that appears is whole |
| Cheat repository (`cheats.c`, and `process_cheat_item` in `queue.c`) | a git clone shared by application and daemon, its lock file, a cache of directory listings | ensure checked out, update, list, match, copy | the lock shared with the other process; readiness remembered after a failed update; listings freed while in use; one number for all the rules of a match | nobody reads the clone while git rewrites it; the match is the one the rules name |
| Systems and mappings (`systems.c`, the mapping screens of `ui.c`) | the catalogue, the overrides in memory, `system_overrides.json` with `.rejected` and `.tmp` | init, resolve, suggest, set tag, set folder, hide, clear | commit in memory and on disk must agree; a file that was not understood must not lose the user's overrides; queued jobs have captured a platform | what the screen shows is what the next start loads; an edit changes what it is meant to and nothing else |
| Device (`device.c`) | settings file, library scan | console scan, ROM scan, artwork paths, file to hash; load and save settings | what is a game is decided at two places; a save that is cut off | list and worker agree; settings survive a crash |
| Program entry (`main.c`) | - | chooses application or daemon | order of init and shutdown | - |

How they interact.  The UI thread (or the daemon's main thread) calls the public functions of `queue.c`;
every call takes `g_mutex` for each critical section and may start or join the manager thread.  The
manager scans for kinds of idle work, starts the cheat thread, makes the first request of each batch
itself (it learns the permitted number of threads from it), then starts the pool, and joins all of them
before it scans again.  Workers call the client through a cancel callback that reads `g_interrupt`.  When
the user leaves with work pending, `run_app` takes a handoff snapshot (which stops all threads) and
`daemon_launch` writes it to `queue.json`, forks and re-executes the program, and waits for one byte on a
pipe.  The next application start asks the daemon for the queue through `daemon.control`, polls
`daemon.pid` for ten seconds, and loads `queue.json`.  Each item captures, when it is added, the platform
`systems.c` resolves for its folder; a mapping is edited only while no item is unfinished, after
`queue_begin_mapping_edit` has stopped the threads.

## 2. The modules

| Module | What it is |
|---|---|
| `ScrapeQueue` | `queue.c` inside one process: the caller, the manager, the lead request, the pool and the cheat thread, with all calls and flags |
| `JobBoard` | what the queue promises, without threads, indices or flags |
| `ScrapeQueueJobs` | `ScrapeQueue` implements `JobBoard` (the refinement mapping) |
| `MCScrapeQueue` | small instances: saved queues |
| `ScrapeQueueInv` | the inductive invariant of `ScrapeQueue` |
| `ScrapeQueueProofs`, `ScrapeQueueSafety`, `ScrapeQueueResults` | its proofs: types; stages and claims; results, ids, flags and interrupts, and that it implements `JobBoard` |
| `DaemonHandoff` | application, daemons and their files, with crashes and failing writes; the refinement mapping to `JobRelay` |
| `JobRelay` | what the handoff promises while nobody dies: one list, one owner at a time |
| `MCDaemonHandoff` | small instances, with the daemons interchangeable |
| `DaemonHandoffProofs` | the inductive invariant of `DaemonHandoff`, its proofs, and that it implements `JobRelay` |
| `CheatRepo` | the git checkout of the cheat database, its lock, the git commands, the cached lists, the cheat thread and the calls that stop it, clear the checkout or drop the lists |
| `CheatRepoProofs` | the inductive invariant of `CheatRepo` and the proofs of its invariants |
| `CheatMatch` | the list of one directory of the database and the choice of a game's cheat file |
| `MCCheatMatch` | files and games like those `README.md` of the repository names |
| `CheatMatchProofs` | the choice follows the rules, for any names |
| `SystemMappings` | catalogue, overrides, the steps of a save, restarts, and the jobs that captured a platform |
| `MappingScreens` | what the picker and the settings screens offer of it |
| `MappingStore` | what the mappings promise: a store with atomic edits |
| `MCSystemMappings` | a small card, three versions of the pak, five files a user may have |
| `SystemMappingsProofs` | its invariants, the completeness of the screens, and that it implements `MappingStore` |
| `RomLibrary` | what is a console folder and a game, where its artwork lies, which file is hashed |
| `MediaRequest` | the artwork requests of several games at once, on a card of `RomLibrary` |
| `MCMediaRequest` | small cards and what the server knows |
| `MediaRequestProofs` | the inductive invariant of `MediaRequest` and the proofs of its invariants, for any card |

### ScrapeQueue

One action is what happens between two points at which another thread can see or change something: one
critical section, one load or store of `g_interrupt`, or the return of one network or git call.

* The caller's position is `ui`.  `QueueAdd` appends under the mutex and goes to `ensure`, where
  `EnsureManagerStarted`, `SpawnManager` and `SpawnManagerFails` are the rest of
  `ensure_manager_started`.  A stop is `BeginStop` (or `BeginShutdown`, `ShutdownInterrupts`), the wait
  in `StopManagerForTransition` (which may only proceed when the manager has exited), and the matching
  `Finish...` with the reset under the mutex.  `StartFromFile` and `LaunchFailed` are
  `queue_load_items` as the program uses it: at startup, and after a failed launch.
* The manager's position is `mgr`: `loop`, `scan`, then one stage per kind of work that was found,
  and the joins.  `batch` is the shared list the pool draws from.
* `job[t]` is the stack of a thread: the index it claimed, the id in its copy, what its last call
  returned.  `Lead` is the manager while it makes the first request of a batch.
* Requests return any of their possible results; what the file or picture contains is abstracted.
  `CheatListReturns` and `RecordCheatList` are separate, because the code tests `g_interrupt` before it
  takes the mutex to store the result.

### DaemonHandoff

* `app` is the one application process (`main`, `check_daemon_on_startup`, `run_app`), `daemon[d]` one
  process per launch.  A dead daemon's lock is released by the system; its files stay.
* One action is one change of, or one look at, the shared files.  `IsRunning(yes, no)` is a call of
  `daemon_is_running` with the places it leads to; if the pid in the file is dead, `Cleanup` follows
  as a step of its own and removes whatever is there by then.
* `fopen` of `daemon.pid` and the number appearing in it are two steps (`DaemonOpenPid`,
  `DaemonWritePid`).  A lock file is named after its creator: two daemons exclude each other only if they
  locked the same file (`LockFile`).
* A job is absent, pending, finished (with whatever result) or skipped.  What the owner's threads do
  is `AppFinishes` and `DaemonFinishes`; `ScrapeQueue` is the detailed account of it.
* `Faults` names what may go wrong besides timing: `app_crash`, `daemon_crash`, `write_fails` (the code
  is told), `disk_full` (the code does not look), `pid_reuse`, `slow_orphan`, `sigterm`.

### CheatRepo

* `thread` is the cheat thread inside `ensure_cheat_list` (`open`, then `clone`, or `fetch` and `merge`, then
  `checkout` and `build`, and `git` while a command runs, all under `g_cheat_state_mutex`), and after it, when
  it holds a pointer to a list and no lock (`listed`, `match`).  `ScrapeQueue` has the same thread with its item
  and its status; there all of this is one call, `CheatListReturns`.
* `OpenRepo` is the look for `.git`, which is taken without the lock; asking for the lock is a step of its own
  (`UpdateRepo`, `EnsureCheckedOut`).  `RunGit` starts the command, or is refused: BUSY says that somebody has the
  lock, an error of `open` or `flock` on the lock file (the fault `lock_fails`) says nothing about it.  The
  reaction is `AfterClone`, `AfterUpdate` and so on, where the code treats BUSY, failed and cancelled differently.
* `cmd` is the git process that has the repository lock: it runs, has begun to write (`works`), is through
  (`ok`, `failed`) or was killed (`cancelled`).  `KillGit` reaches git and not its helpers.  `GitReturns` is the end of
  the pipe, which they share, and so a step after the kill.  After `Crash` the command goes on as an orphan with
  the lock, because the child inherits the descriptor.
* git itself is external: `GitWorks`, `Outcome` and `OrphanEnds` say what a command that is at work, done, failed
  or killed leaves in `.git` and in a directory of the database (absent, partial, full).  The stated ones are the
  outcomes the code has to live with, among them a clone that fails and removes what it made; which of them git
  produces is not predicted.  The maintenance git may detach after a fetch (`gc --auto`) is not modelled.
* `BeginClear` to `Invalidate` is `clear_cheat_cache`: the deletion entry by entry without the lock,
  then the two critical sections of `queue_invalidate_cheat_repo_state`.
* `Faults`: `crash` (the process is killed), `clear_fails` (an entry cannot be removed), `lock_fails`.  `lapses` is a
  history variable, not state of the program: which command of a dead process ran when this one began, whether
  a lock could not be asked for, whether the last clearing failed.  Two properties name it where the code is
  not guarded, see "What the violations show".

### CheatMatch

* A name has words and tags.  Words keep capitals and punctuation; `Token` says what normalisation makes of
  one.  The tags are the items of all parentheses.  `Parts` splits at the word `_`.
* `ReadEntry` is one round of the `readdir` loop of `build_cheat_list`, in any order; `list` has for each
  title the candidates in the order they were added, which is what decides between equal scores.
* `MatchCheat`, `CompareNext` and `BestIsFound` are the loop of `match_cheat`; the score is the code's
  arithmetic.  `Tier`, `IsTitleOf` and `Choices` are the rules as `README.md:293-320` of the repository
  states them, with no score in them.
* `DropList` is `clear_cheat_repo_state_locked`; the next list may be of an updated directory.

### SystemMappings, MappingScreens

* `LoadCatalogue`, `LoadOverrides`, `ToJson`, `Compact` translate the loading and saving functions;
  a file is absent, unreadable, garbage, or a record with well-formed and malformed entries.  `FolderKey` and
  `AbsolutePath` work on sequences of path components, with `.` and `..`.
* `mem` is the static state of `systems.c`, `call` the mutation that runs.  `OpenBackup` to `Publish` are
  the file operations of `ov_persist` and the publication by `commit`, each of which may fail, and between
  any two of which `End` may come: the end of the program and its death are the same to the files.
* `Outside` is what happens between two starts: another version of the pak, folders that come and go, a file
  the user edits.  `changed` marks a job whose card or pak was changed after it was queued.
* `QueueAdd` captures a platform as the adders of `queue.c` do.  `EnsureMappingEditAllowed` is the check of
  `ui.c`, which `ScrapeQueue` has in detail as the mapping edit with its stop.
* `MappingScreens` has the suggestions in their four stages, the search, and the rows of the two screens.
  Names and search texts are tokens: a platform has the set of texts it answers to.  The `qsort` of the
  platforms by name is left to be any order: what the screens offer, and how often, does not depend on it.

### RomLibrary, MediaRequest

* A card is a function from paths to kinds of entries.  `ScanRoms` and `ScanConsoleDirs` are the scans;
  `RomFromItem` is how a worker makes the same game of a queue item (`queue.c:178`), `HashTargets` the file
  whose digest is asked for.  The scans are pure: a set of games for a card.
* An item's position is `pc`: claimed, searching by hash or by name, fetching, then `OpenTmp`, `WriteHead`,
  `WriteTail` and `Rename`, with `Unlink` on the paths that give up.  `Requesting` is one attempt of
  `http_get`: answered, failed for good, to be retried, or interrupted.
* `.media` holds names, temporaries and inodes, so that a temporary two requests opened, or one that was renamed
  while it is still written, is the same file.  `Stop` and `Resume` raise and lower the flag the cancel
  callback reads; `Crash` is the death of the program.
* `server` is what ScreenScraper knows of a game by its hash and by its name; only its media matter.  `Usable`
  are those the settings ask for: with a url, of a listed type, and of a listed region or the first of its type.  A
  game whose file cannot be read has no hash and is asked for by name alone (`README.md:33`), which is what
  `VerdictsAreTrue` says of it.
* Every failing write is taken to be reported.  The code sees to it itself but for a JPEG that the application converts,
  where it relies on `IMG_SavePNG` (`screenscraper.c:680-687`).
* `Interrupted` leaves an item as the pool does.  The manager's own request turns a cancelled download into an
  error (`queue.c:631`); that is in `ScrapeQueue`, see `queue_interrupted`.

In all modules a definition `Name_Slip` is `Name` with one plausible programming error.  No
specification uses it; `PROJECT.json` lists which property it breaks, which shows that the property is
able to fail on its run.

## 3. The runs

| Run (configuration) | Checks | Instance | Size |
|---|---|---|---|
| `queue_safety` (`QueueSafety`) | `TypeOK`, `UniqueIds`, `StartedMeansAlive`, `ClaimsStayValid`, `ExclusiveClaims`, `NoDuplicateWork`, `NothingStuck`, `StoppedIsQuiet`, `ResultsAreFinal`, `ChangesAreDirty`, `WorkersKeepInterruptedItems`, `ImplementsJobBoard`, `WorkIsFinished`, `StopsComplete`, under `FairSpec` | two pool threads, lead, cheat thread; all kinds; 2 items, 2 ROMs; three saved queues | 384 k states |
| `queue_interrupted` (`QueueInterrupted`) | `InterruptedItemsSurvive`: violated | one item | - |
| `handoff_safety` (`HandoffSafety`) | `TypeOK`, `OneOwner`, `OwnerIsSeen`, `NothingLost` | 1 job, 2 launches; crashes, failing writes, pid reuse, SIGTERM | 690 k |
| `handoff_relay` (`HandoffRelay`) | `ImplementsRelay`, `HandoffsEnd` under `FairSpec` | 2 jobs, 2 launches, no faults | 580 k |
| `handoff_stop` (`HandoffStop`) | `StopIsHonoured`: violated | 1 job, 1 launch, no faults | - |
| `cheat_safety` (`CheatSafety`) | `TypeOK`, `ListsAreAlive`, `RepoIsQuiet`, `UpdateBeforeLists`, `RepoIsThere`, `StopReturns` under `FairSpec` | 2 directories, 1 cache entry, all faults | 850 k |
| `cheat_cancelled` (`CheatCancelled`) | `ListsAreWhole`: violated | as above, no faults | - |
| `cheat_match` (`CheatMatch`) | `MatchFollowsRules` | 14 files, up to 3 in the directory in any order; 4 games, 2 priorities | 27 k |
| `cheat_plain` (`CheatPlain`) | `PlainFirstInTier`: violated | one game of two regions | - |
| `mapping_safety` (`MappingSafety`) | `TypeOK`, `MemoryIsFile`, `RefusedIsKept`, `JobsMatchMappings`, `ScreensAreComplete`, `SaveKeepsTheRest`, `EditsTakeEffect`, `ImplementsStore` | 3 folders, 3 platforms, 3 paks, 5 files; 2 saves, 1 job | 594 k |
| `media_safety` (`MediaSafety`) | `TypeOK`, `MediaIsWhole`, `VerdictsAreTrue`, `LibraryIsComplete`, `RequestsEnd` | two cards (loose files, disc folders), 3 kinds of server, 2 threads, 2 retries, 2 stops, deaths or repeats | 502 k |
| `media_collision` (`MediaCollision`) | `MediaIsWhole`: violated | two files of one display name | - |

Why the bounds are enough.  *Queue*: a stale index needs two items (one moves when the other goes); a
double claim needs two threads that saw the same idle item, and the pool, the lead and the cheat thread
are there together.  A forced item comes from one of the saved queues.  `MaxId` ends the adding
when an id is to be given out that is larger, but not when the array is full, which the adders see by
themselves (`QueueAdd`); the saved queues bring items in any status, and ids, that would have taken longer.  Of two
items the lead takes one, so the two pool threads compete but do not both work in this run; the proofs are for any
number of threads, items and ids.  The wrap of the 32-bit id after four
billion adds is outside.  *Handoff*: the application may start any number of times, so one job
and two launches give daemon-application-daemon chains with a crash at every point, including a second
launch while files of the first are left.  The second job in `handoff_relay` is for lists in which one job
is done and another pending.  *Cheat database*: two directories and one entry fill the cache and leave one
outside; a list in use and a command for another directory exist side by side.  Processes come and go without
end, so that every fault meets every other.  The proofs are for any
number of both.  *Match*: the loop compares
candidates one by one, so two show every tie and three the effect of a later one; there is a file for every
tier, plain and for a device.  *Mappings*: two folders share a suffix and a third has its own, so that a tag
edit reaches one folder and not the other; a second save meets what the first left, including a backup that was
refused; the paks differ in platforms and defaults, and one is broken.  The path of the card is relative, with
dots.  *Media*: two threads are two writers; two retries are a first and a last one; two events are a stop
and a death, or a repeat after either; a game is known by its hash, by its name, or by both with nothing to
take, and the hash may be impossible to compute.  Deadlock is checked
everywhere but for the media: a closed process stutters explicitly (`Closed`), an application that is off can
always be started, mappings that may not be edited any more can still be restarted.  In `media_safety`
every request may have its verdict and no event be left: that is the end and no hang, as `RequestsEnd` says.

Fairness.  *Queue*: the scheduler runs every thread, every request ends (curl has timeouts, git is
killed on an interrupt), so each thread's steps and the rest of a call are weakly fair.  Strong fairness is
assumed of `ManagerSpawnCheat` only: `pthread_create` does not fail every time.  Nothing is assumed of
what the user calls.  That git calls end is what `CheatRepo` looks at, with one exception below.  *Handoff*: the application's own steps and the daemon's poll loop run on, and the
threads of an owner get their jobs done; nothing is assumed of how long a daemon takes to start, to stop
its threads or to exit, which is why `HandoffsEnd` says that waits give up.  *Cheat database*: the
cheat thread and the main thread run on; a git command may hang for ever.  `StopReturns` rests on the kill,
and, as the thread reads the pipe to its end, on the helpers git has started: they are told to give up a
connection that stands still for 30 seconds (`HelpersEnd`).  What a merge starts, to fetch what the filtered clone
left out, is not told so (`cheats.c:545-550`), and a killed merge is excepted from the property.
*Media*: the steps of each game's request are weakly fair: curl gives up after 30 seconds at the latest, the
rest are local file operations.  Nothing is assumed of the server, which may answer busy each time.

### What the violations show

* `queue_interrupted`.  `queue.h` promises that a handoff resets unfinished work to idle.  The pool threads
  do so, but the manager's own first request takes "cancelled" for a failure and records an error
  (`queue.c:631` and `781`); the daemon then will not try that item again.
  `WorkersKeepInterruptedItems` is the same promise for the pool alone, and holds.
* `handoff_stop`.  The status screen is reached only after a handoff was requested and did not happen in
  ten seconds.  A daemon that has read the handoff never reads the stop the user then confirms: the queue
  comes back with its jobs pending, and they run.
* `cheat_cancelled`.  `ensure_system_checked_out` takes a directory that exists for a complete one.  After a
  `sparse-checkout` that was killed by a cancel, or lost the network, the part that was written is all
  that is ever searched: other games are reported as not found.
* `cheat_plain`.  `README.md:312` says that within each tier plain files are preferred over device-specific ones.
  The point for a plain file weighs as much as one more shared region or one place in the priority: for a
  `(USA, Europe)` game a `(USA, Europe) (Action Replay)` file and a plain `(Europe)` file have 1002 points each, and
  the order of `readdir` decides.  `MatchFollowsRules` has what does hold, and is proved: among files of one tier and
  one merit (as many shared regions, or the same place in the priority) the plain one is taken.
* `media_collision`.  The temporary of a download is named after the folder and the display name, while the
  queue tells games apart by path.  `Game.cue` beside `Game.bin`, or `Game.gba` beside `Game.zip`, are two
  items with one temporary, and one worker renames what the other still writes.  The manager makes the first request of
  a batch alone, so a third item has to lead the batch.  The picture is torn when it appears; it stays so, and counts
  as existing artwork from then on, if the second writer fails or dies, or if the two bodies differ.

More follows from the models that no run states:

* With `disk_full`, `NothingLost` fails: `serialize_queue` does not look at the results of `fputs`, `fflush`,
  `fsync` and `fclose` (`daemon.c:175-178`), and a torn file is renamed over the good snapshot.  So does
  `OwnerIsSeen`: the daemon does not look at whether `daemon.pid` could be written, and that file is all
  `daemon_is_running` reads.
* When an entry cannot be deleted, `clear_cheat_cache` returns without `queue_invalidate_cheat_repo_state`
  (`ui.c:1975-1980`), and the next use does not download the database again.  `RepoIsThere` does not claim the time from such a
  clearing to the next one, mapping edit or end.
* A process that starts while the clone of a dead one runs may see its `.git` (`queue.c:433`), before the clone
  fails and removes it: the fetch then fails, not with BUSY, and the queue calls a repository ready that is gone.
  `RepoIsThere` does not claim it for such a process.
* `acquire_repo_lock` returns an error and not BUSY when the lock file cannot be opened or locked
  (`cheats.c:360-364`, `373`), and `queue.c:441` only gives way to BUSY: beside the command of a dead process the checkout is
  then read while it is written.  `RepoIsQuiet` does not claim this one case (`OrphanIsUnseen`).
* `README.md:34` promises that work can be cancelled at any time.  The kill of a merge does not reach what git has
  started to fetch blobs, and that has no time limit: the cancellation may have to wait for it.
  `StopReturns` does not claim the return from a killed merge.
* With `slow_orphan` (the application is killed during the launch and started again before its daemon
  reports) `daemon_cleanup_all` removes a lock file that is held, and the next daemon locks a new one.

## 4. The proofs

### The queue

These proofs are of `Spec` of `ScrapeQueue`, for any ROMs, any finite set of pool threads, any
`MaxItems`, any saved queues, and assume only what `ScrapeQueue` assumes of its constants: the thread
names differ, kinds and force flags are what they are called, the bounds are natural numbers, and a saved
queue fits the array and has distinct ids and no two unfinished items for one key.  The last is what
the theorems themselves show of a queue that is saved, so loading preserves it.

| Theorem | Says |
|---|---|
| `TypeCorrect` | `TypeOK`, including the bound of the array |
| `StopIsQuiet` | after the join in a transition no thread is left |
| `ClaimsAreValid`, `ClaimsAreExclusive` | a thread's index names its own unfinished item, and nobody else's |
| `NoWorkTwice`, `IdsAreUnique` | no two unfinished items for one key; ids are unique |
| `ResultsStay` | a finished item never changes (an action property) |
| `StartedIsAlive` | between calls `g_manager_started` means a live manager |
| `NothingStaysBehind` | an item in a working status has a thread, or an interrupt that will reset it |
| `ChangesAreSeen` | whoever changes the items leaves the queue dirty (an action property) |
| `WorkersKeepItems` | a pool thread that was cut off leaves every item alone (an action property) |
| `QueueIsAJobBoard` | every step is a step of `JobBoard` or a stutter |
| `QueueIsSafe` | the whole inductive invariant `QueueInv` |

The argument.  None of these is inductive alone.  `Stages` ties every thread to the stage of the manager
that joins it, and the manager to the interval between its start and the join of a transition; from it
alone `StopIsQuiet` follows, for any number of threads.  `Flags` says that no caller ever finds
`g_manager_started` set beside a manager that is leaving.  `Claims` says that indices held by threads
are good and distinct; its steps need `Stages`, because clear, cancel, handoff and load are only allowed
to move or rewrite items when no thread holds one, and it needs `RejectsAreIdle`, because the manager
rejects leftovers of a batch without claiming them.  `Identity` (ids below the next id, distinct, no
twins) needs only types.  `ScrapeQueueProofs` proves types action by action, `ScrapeQueueSafety` first
shows what a step of each thread can touch (`RequesterEffect`, `CheatsEffect`, `WorkerTakeEffect`), then
`Stages` and `Claims`; `ScrapeQueueResults` has `Identity`, `Flags` and the theorems that combine them.

`Interrupts` is what `NothingStaysBehind` and the job board rest on: `g_interrupt` is set only between a
stop's first critical section and its reset, no thread says it was cancelled without it, and a mapping
edit finds no unfinished item to stop for.  `Moves` then sums up every step of a thread: it takes an item,
goes on with it, settles it, abandons it to an interrupt, or touches none.  The last four theorems are
read off that list.  In the refinement the holders of the board are the ids in the copies of the threads; the
resets of a stop are the board's `Requeue` and `CancelAll`, which are only allowed while nobody holds a job, and
`Stages` is why nobody does.

### The handoff

`DaemonHandoffProofs` is about `Spec` of `DaemonHandoff` for any jobs and any number of launches.

| Theorem | Says | Faults allowed |
|---|---|---|
| `HandoffTypes` | `TypeOK` | all |
| `QueueHasOneOwner` | `OneOwner`: no two daemons, nor a daemon beside the application, work | all but `slow_orphan`, `disk_full` |
| `OwnersAreSeen` | `daemon_is_running` says yes as long as a daemon has work | the same |
| `HandedJobsStay` | `NothingLost`: a job handed over stays in `queue.json` or with a live owner | the same |
| `HandoffIsARelay` | every step is a step of `JobRelay` or a stutter | `pid_reuse`, `sigterm` |

The two faults that are not allowed (`FaultsCovered`) are those with which the properties fail, as section 3 says;
crashes of either process at any point, writes that fail with an error, reused pids and signals are covered.

The argument.  A daemon that has been forked has no pid in `daemon.pid` for a while, and `daemon_is_running` would
call it dead.  `Ownership` says that during this time the application that forked it is still in
`daemon_launch` and waits for it, or is dead and does not come back before the daemon reports (that is what
`slow_orphan` denies); that every other live daemon has its pid in the file; and that there is one live
daemon at most.  So the application gets to its queue, or to a launch, only when no daemon is alive, and the stale
files it removes are nobody's.  Then only one process writes `queue.json` at a time, and the second part of
`Inv` says what the file has in each of its positions: every job of the owner that is not newer than the last
snapshot.  A job that is gone was added to a running application that died, which is what `NothingLost` allows.
In the refinement the list is the owner's in memory, or the file's between owners.

### The cheat database

`CheatRepoProofs` is about `Spec` of `CheatRepo` for any finite set of directories, any positive size of
the cache and any of the faults.

| Theorem | Says |
|---|---|
| `CheatTypes` | `TypeOK`, including the bound of the cache |
| `ListsStayAlive` | a list the cheat thread uses is never freed |
| `RepoStaysQuiet` | no deletion touches the checkout while it is read, and no command, but for a dead process's beside a lock that could not be asked for |
| `UpdatesComeFirst` | no update while a list is cached |
| `ReadyRepoIsThere` | outside the clear screen a repository called ready exists, unless the last clearing failed or a dead process's clone ran when this process began |

The argument.  `CommandInv` says that a command the thread does not wait for, a dead process's, keeps
this process from believing in the repository: it becomes ready only after a clone or an update, for
which this process had the lock, or could not ask for it, and then `lapses` says so.  `MemoryInv` says that lists exist only of a ready repository and that
the thread's own list stays; `ClearInv` that the main thread deletes and drops only while no item is
unfinished, which holds because only the main thread adds items.  Together they are inductive with the
types; `ReadyRepoIsThere` adds `ThereInv`, that an update runs only where `.git` exists, or lapsed.

### The match

`CheatMatchProofs` is about `Spec` of `CheatMatch` for any words and tags, any directories and games, and any
priority of at most 43 regions, which is what 32 saved entries, the 10 known regions and "cus" can make.
`ChoicesFollowRules` is `MatchFollowsRules`.  `ListInv` says that the candidates of a title are
exactly the files read so far that bear it, `ScanInv` that the best so far is at least as good as each one
compared; `ScoresOfTiers` gives the interval of scores of every tier, and they do not meet: 1001 and more, 500
to 501, 58 to 101, 50 to 51, 0 to 1.  `PartsAssumption`, that a part of a name is not the whole of it, is true of
all words and assumed because it needs induction over sequences; the run evaluates it.

### The mappings

`SystemMappingsProofs` is about `Spec` of `SystemMappings` for any catalogues, cards, suffixes, contents of
the user's file and bounds.  Assumed is that "no platform" is not an id; that cards are finite sets of the
names, none of which is empty, `.` or `..`; that the platforms of a catalogue that loads are a sequence, with
their ids among `Ids`, and so are the candidates of a suffix; that a path, and a key in the user's file, is a
sequence of components; that the limits of the screens are natural numbers; and that the user's file has finitely
many entries and is one of the kinds `load_overrides` distinguishes.

`ScreensStayComplete` has one hypothesis, `RomsAreReachable`: the walk of `absolute_path` to the ROM directory is
not refused by the guard for that very directory, which is not the root of the file system.  With an
`SDCARD_PATH` that leaves the ROM directory again, such as `/mnt/SDCARD/Roms/..`, every folder is refused and
has no key, so that the list of Settings has no row to edit.  The instance of `mapping_safety` has a relative path
with `..`, and fulfils it.

| Theorem | Says |
|---|---|
| `MappingTypes` | `TypeOK`: overrides only name platforms of the loaded catalogue |
| `MemoryAgreesWithFile` | between calls memory is what the next start loads |
| `RefusedFilesStay` | a file that was not taken over is never destroyed by a save |
| `JobsKeepTheirPlatform` | a queued job's platform is the one in effect for its folder |
| `RestStays` | `SaveKeepsTheRest`: beside the edited entry a save loses nothing the file said, unless `.rejected` has all of it |
| `EditsAreSeen` | `EditsTakeEffect`: a published edit is seen by the folders it is meant for, and by no other |
| `ScreensStayComplete` | `ScreensAreComplete`: picker and Settings offer everything once, and each of it can be edited |
| `MappingsAreAStore` | every step is a step of `MappingStore` or a stutter |

The argument.  What is written is read back as it was (`LoadReadsBack`), so memory and file can only
differ between the rename and the publication, where the proposal is in both (`FileInv`).  A refused file
is unchanged as long as its backup is due, and the flag is only lowered when `.rejected` has all of it
(`BackupInv`).  An edit begins without jobs and no job is added beside it (`JobsInv`).  In the refinement
an edit happens at the rename: from then on a death or a restart finds the new mappings.

For the edits the invariant is strengthened by three parts.  What a call is about to save is what is in effect
with one entry changed (`ProposalInv`); a file that is not in `.rejected` was taken over completely
(`RestInv`); and the keys of folders are paths (`KeysInv`).  What was taken over is in the next file as well if
`load_overrides` would take it over again, which asks that the path made of a safe key has this key
(`KeyRoundTrip`).  `absolute_path` walks a path part by part: `WalkSteps`, by induction over the natural numbers,
says that the walk exists, `SafeTail` that names without dots are appended to where it has come.

For the screens `Lists(s, S)` says that a sequence has each member of a set once.  `SetToSeq` lists a finite set;
a filter (`KeepLists`), a beginning (`TakeLists`), what is added of a second sequence (`AddLists`), a translation
that keeps things apart (`MapLists`) and one list after another of other things (`ConcatLists`) list what they
should.  `Keep` and `AddNew` are recursive functions; that they exist, and what they list, is an induction over
the length again.  The rest is putting the screens together: suggestions match, and the other rows are
what matches without them; the keys of folders are their names (`CardKeys`) and so are different; overrides and
suffix defaults stay finite (`FiniteInv`); and the way from a key to a path leads back
(`KeysLeadBack`, which says more than `KeyRoundTrip` by the hypothesis).

### The media requests

`MediaRequestProofs` is about `Spec` of `MediaRequest` for any finite card, any servers, types, regions, numbers
of threads, retries and events.  A card has a console folder, all folders on the way to an entry, and no empty
names.  The theorems about requests assume `DistinctFiles`: no two games of the card have one artwork
file.  `media_collision` shows what happens to those that do.

| Theorem | Says |
|---|---|
| `MediaTypes` | `TypeOK`: attempts stay within the retries, and no two names are one file but a temporary and the name it gets |
| `MediaStaysWhole` | a file under `.media` is one media of its game from the first byte to the last |
| `VerdictsStayTrue` | a finished game has the best media there is for it; the name of a game not found leads to nothing usable, nor does its hash if it could be computed |
| `LibraryStaysComplete` | `LibraryIsComplete`: the scan lists every game once, and a worker makes the same game of its item |

The argument.  With distinct files the temporaries are distinct as well, and only the request that opened one
writes to it, so what a rename publishes is what this request wrote: a whole body.  A request that gives up leaves
its temporary or removes it, and the next one truncates it before it writes.  That the body is the
right one is `resolve_media`: `ChosenIsBest` says that the first type and the best region are chosen,
`NothingIsMissed` that no choice means nothing usable.  A name and its temporary take two of the three inodes
the model has for a game, so an `open` always finds a free one.

The scan calls itself for the folders of a folder.  `FolderIsScanned` says that a call lists what is below its
folder (`Below`, a set of paths with no recursion in it) if the calls for the folders in it do; a card has a longest
path (`DepthIsBounded`), and by induction from there upwards every function the recursion can mean lists what
is below every folder (`ScanIsUnique`).  That `Below` satisfies the recursion is the same lemma.  The rest is about
single games: `RowComesBack` compares a row with what `build_rom_from_item` makes of its path and name.

### Only model-checked

Liveness (`WorkIsFinished`, `StopsComplete`, `HandoffsEnd`, `StopReturns`, `RequestsEnd`), which is out of
the prover's reach.  Every other property of a passing run is stated by a theorem.

## 5. What is not modelled

* Failing `malloc`; fixed buffers that cut off long names; the text of error messages; API statistics and
  quotas; file contents.  A request of `ScrapeQueue` returns one of its results, whatever the reason;
  `MediaRequest` is the account of the reasons.
* A cheat item whose system has no cheat directory takes the same path as one whose list fails.
* The JSON of a job in `queue.json`: the models say that a snapshot is read back as it was written, or as
  nothing when it is torn.  `fsync` of the directory is not modelled either.
* The unlinks of one `daemon_cleanup` are one step, and so are the `read` of the pid and the `kill` that
  probes it.  No new daemon can appear between them while `slow_orphan` is off, because only the
  application launches one.
* The contents of git's output.  Two processes on one checkout appear as a process and the orphaned git of a
  dead one; `DaemonHandoff` is about the application and the daemon being alive at once.
* The settings: `save_settings` writes in place (`device.c:1015`), and a death in the middle loses them; that
  is in the list of hazards without a property.  The labels of `map.txt`, sorting, reading archives, the
  digest, the URLs and the JSON of requests.
* `scrape_console` (`screenscraper.c` 992-1195) and `download_cheats_for_console` (`cheats.c` 1024-1203) have
  no caller; the cheat viewer (`cheats.c` 1205-1289) only reads.
* A power cut: what was renamed or written is taken to stay.  Only a death of the process is modelled.
* Drawing, input, the vendored libraries, build scripts and the catalogue generator are left out for good.

## 6. Plan

Done: all modules of section 2 with their runs; the proofs of every invariant, action property and refinement of
`ScrapeQueue`, `DaemonHandoff`, `CheatRepo`, `CheatMatch`, `MediaRequest` and `SystemMappings`.  Next:

1. The settings file with a save that is cut off.
