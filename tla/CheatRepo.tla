------------------------------ MODULE CheatRepo ------------------------------
(***************************************************************************)
(* The cheat database: the git checkout on the card, the git command that  *)
(* works on it under the repository lock, the lists the queue caches in    *)
(* memory (queue.c), the one cheat thread that uses them, and the calls of *)
(* the application's main thread that stop the thread, clear the checkout  *)
(* or drop the lists.                                                      *)
(*                                                                         *)
(* A process killed while git runs leaves git running: the child inherits  *)
(* the locked descriptor (cheats.c does not mark it close-on-exec), so the *)
(* flock lives as long as the command.  Git has helpers that outlive it,   *)
(* and the thread waits for the end of a pipe they have inherited as well. *)
(* A game is known by the directory of the database its item was queued    *)
(* with.                                                                   *)
(*                                                                         *)
(* A definition Name_Slip is Name with one plausible programming error;    *)
(* no specification uses it.  It shows that a property can fail.           *)
(***************************************************************************)
EXTENDS Naturals, FiniteSets

CONSTANTS
    Dirs,       \* libretro directories items are queued for
    NoDir,      \* no directory
    MaxCache,   \* MAX_CHEAT_CACHE
    Faults      \* what may go wrong: "crash", "clear_fails", "lock_fails"

ASSUME DirsAssumption == IsFiniteSet(Dirs) /\ NoDir \notin Dirs
ASSUME CacheAssumption == MaxCache \in Nat \ {0}
ASSUME FaultsAssumption == Faults \subseteq {"crash", "clear_fails", "lock_fails"}

VARIABLES
    git,        \* the .git directory: "none", "partial" or "ok"
    files,      \* cht/<dir> for each directory: "absent", "partial" or "full"
    cmd,        \* the git command that holds the lock: [name, dir, state]
    ready,      \* g_cheat_repo_ready
    cached,     \* the directories with a valid entry in g_cheat_cache
    pending,    \* the directories with an idle cheat item
    thread,     \* cheat_thread_fn: [pc, dir]
    ui,         \* the main thread: [pc, op]
    lapses      \* history: what this process met that the code does not guard against

disk   == <<git, files>>
memory == <<ready, cached>>
proc   == <<ui, lapses>>
vars   == <<git, files, cmd, ready, cached, pending, thread, ui, lapses>>

NoCmd     == [name |-> "none", dir |-> NoDir, state |-> "none"]
NoThread  == [pc |-> "none", dir |-> NoDir]
Ready     == [pc |-> "ready", op |-> "none"]
Off       == [pc |-> "off", op |-> "none"]

\* g_interrupt is set from stop_manager_for_transition until the join.
Interrupt == ui.pc = "stopping"
LockIsFree == cmd.name = "none"
Goto(pc) == thread' = [thread EXCEPT !.pc = pc]

\* g_cheat_state_mutex is held through the whole of ensure_cheat_list.
StateMutexIsFree ==
    thread.pc \notin {"open", "clone", "fetch", "merge", "git", "checkout", "build"}

-----------------------------------------------------------------------------
(* The cheat thread.                                                       *)

StartThread ==
    /\ ui.pc # "off" /\ thread.pc = "none"
    /\ pending # {} /\ ~Interrupt
    /\ thread' = [pc |-> "find", dir |-> NoDir]
    /\ UNCHANGED <<disk, cmd, memory, pending, proc>>

FindCheat ==
    /\ thread.pc = "find"
    /\ \/ /\ Interrupt \/ pending = {}
          /\ thread' = NoThread
          /\ UNCHANGED pending
       \/ /\ ~Interrupt
          /\ \E d \in pending :
                /\ pending' = pending \ {d}
                /\ thread' = [pc |-> "list", dir |-> d]
    /\ UNCHANGED <<disk, cmd, memory, proc>>

(* ensure_cheat_list returned NULL.  The item is recorded as failed, or    *)
(* left as it is when the interrupt is the reason.                         *)
GiveUp ==
    /\ thread' = [pc |-> "find", dir |-> NoDir]
    /\ pending' = IF Interrupt THEN pending \union {thread.dir} ELSE pending

\* process_cheat_item keeps an existing file, or has no directory to look in.
SkipCheat ==
    /\ thread.pc = "list"
    /\ thread' = [pc |-> "find", dir |-> NoDir]
    /\ UNCHANGED <<disk, cmd, memory, pending, proc>>

\* ensure_cheat_list under g_cheat_state_mutex: a cached list, or the repository first.
EnsureCheatList ==
    /\ thread.pc = "list"
    /\ Goto(IF thread.dir \in cached THEN "listed"
            ELSE IF ready THEN "checkout" ELSE "open")
    /\ UNCHANGED <<disk, cmd, memory, pending, proc>>

(* What the thread does with the result of a git command.  An update that  *)
(* failed or was cancelled is no obstacle, only a locked repository is.    *)
AfterClone(ret) ==
    IF ret = "ok" THEN ready' = TRUE /\ Goto("checkout") /\ UNCHANGED pending
                  ELSE GiveUp /\ UNCHANGED ready
AfterUpdate_BusyIsFine(ret) == ready' = TRUE /\ Goto("checkout") /\ UNCHANGED pending
AfterUpdate(ret) ==
    IF ret = "busy" THEN GiveUp /\ UNCHANGED ready
                    ELSE ready' = TRUE /\ Goto("checkout") /\ UNCHANGED pending
\* Fetched: done if HEAD is FETCH_HEAD already, else the merge follows.
AfterFetch(ret) ==
    \/ AfterUpdate(ret)
    \/ ret = "ok" /\ Goto("merge") /\ UNCHANGED <<ready, pending>>
AfterAdd(ret) ==
    /\ IF ret = "ok" THEN Goto("build") /\ UNCHANGED pending ELSE GiveUp
    /\ UNCHANGED ready
After(name, ret) ==
    \/ name = "clone" /\ AfterClone(ret)
    \/ name = "fetch" /\ AfterFetch(ret)
    \/ name = "merge" /\ AfterUpdate(ret)
    \/ name = "add" /\ AfterAdd(ret)

(* run_repo_git_streaming: busy when another command has the lock; failed  *)
(* when there is no pipe or no process, for a clone without git before the *)
(* lock is asked for, and when the lock file cannot be opened or locked,   *)
(* which says nothing of who has the lock.                                 *)
RunGit(name) ==
    \/ /\ LockIsFree
       /\ cmd' = [name |-> name, dir |-> thread.dir, state |-> "runs"]
       /\ Goto("git")
       /\ UNCHANGED <<ready, pending, lapses>>
    \/ /\ UNCHANGED <<cmd, lapses>>
       /\ \/ ~LockIsFree /\ After(name, "busy")
          \/ (LockIsFree \/ name = "clone") /\ After(name, "failed")
    \/ /\ "lock_fails" \in Faults
       /\ After(name, "failed")
       /\ lapses' = lapses \union {"no_lock"}
       /\ UNCHANGED cmd

\* is_repo_initialized looks for .git, and has no lock yet.
OpenRepo ==
    /\ thread.pc = "open"
    /\ Goto(IF git = "none" THEN "clone" ELSE "fetch")
    /\ UNCHANGED <<disk, cmd, memory, pending, proc>>
\* init_cheat_repo, or the two commands of update_cheat_repo.
UpdateRepo ==
    /\ thread.pc \in {"clone", "fetch", "merge"}
    /\ RunGit(thread.pc)
    /\ UNCHANGED <<disk, cached, ui>>

\* ensure_system_checked_out: a directory that exists is taken for complete.
EnsureCheckedOut ==
    /\ thread.pc = "checkout"
    /\ \/ /\ files[thread.dir] # "absent"
          /\ Goto("build")
          /\ UNCHANGED <<cmd, ready, pending, lapses>>
       \/ files[thread.dir] = "absent" /\ RunGit("add")
    /\ UNCHANGED <<disk, cached, ui>>

\* build_cheat_list, and the entry it fills in the cache if there is room.
CacheHasRoom_OffByOne == Cardinality(cached) <= MaxCache
CacheHasRoom == Cardinality(cached) < MaxCache
BuildCheatList ==
    /\ thread.pc = "build"
    /\ \/ /\ CacheHasRoom /\ files[thread.dir] # "absent"
          /\ cached' = cached \union {thread.dir}
          /\ Goto("listed")
          /\ UNCHANGED pending
       \/ /\ ~CacheHasRoom \/ files[thread.dir] = "absent"
          /\ GiveUp
          /\ UNCHANGED cached
    /\ UNCHANGED <<disk, cmd, ready, proc>>

\* Back in process_cheat_item, without the mutex but with a pointer to the list.
UseCheatList ==
    /\ thread.pc = "listed"
    /\ IF Interrupt THEN GiveUp ELSE Goto("match") /\ UNCHANGED pending
    /\ UNCHANGED <<disk, cmd, memory, proc>>
MatchAndCopy ==
    /\ thread.pc = "match"
    /\ thread' = [pc |-> "find", dir |-> NoDir]
    /\ UNCHANGED <<disk, cmd, memory, pending, proc>>

-----------------------------------------------------------------------------
(* The git command, a process of its own.                                  *)

Waiting == thread.pc = "git"
HasGit  == git # "none"
Running == cmd.state \in {"runs", "works"}

(* A command at work: the new repository or directory is there, still      *)
(* incomplete.  A clone refuses to begin in a directory with files in it.  *)
GitWorks ==
    /\ Running
    /\ \/ /\ cmd.name = "clone" /\ ~HasGit
          /\ cmd.state = "works" \/ \A d \in Dirs : files[d] = "absent"
          /\ git' = "partial"
          /\ UNCHANGED files
       \/ /\ cmd.name = "add" /\ HasGit /\ files[cmd.dir] = "absent"
          /\ files' = [files EXCEPT ![cmd.dir] = "partial"]
          /\ UNCHANGED git
    /\ cmd' = [cmd EXCEPT !.state = "works"]
    /\ UNCHANGED <<memory, pending, thread, proc>>

(* How it leaves the card.  A clone that fails removes what it made, if it *)
(* is not killed; add succeeds too when the database has no such directory;*)
(* a merge completes what a killed clone left, when git gets over that.    *)
Outcome(ret) ==
    \/ ret = "ok" /\ cmd.name = "fetch" /\ HasGit /\ UNCHANGED disk
    \/ ret = "ok" /\ cmd.name = "clone" /\ HasGit /\ cmd.state = "works"
       /\ git' = "ok" /\ UNCHANGED files
    \/ ret = "ok" /\ cmd.name = "merge" /\ HasGit
       /\ git' = "ok" /\ UNCHANGED files
    \/ ret = "ok" /\ cmd.name = "add" /\ HasGit
       /\ \/ files' = [files EXCEPT ![cmd.dir] = "full"]
          \/ files[cmd.dir] = "absent" /\ UNCHANGED files
       /\ UNCHANGED git
    \/ ret = "failed" /\ cmd.name = "clone" /\ cmd.state = "works"
       /\ git' = "none" /\ UNCHANGED files
    \/ ret = "failed" /\ UNCHANGED disk
GitExits ==
    /\ Running
    /\ \E ret \in {"ok", "failed"} :
          Outcome(ret) /\ cmd' = [cmd EXCEPT !.state = ret]
    /\ UNCHANGED <<memory, pending, thread, proc>>

(* run_git_streaming kills the command when it sees the interrupt; that    *)
(* reaches git and none of its helpers.  Whatever git did, the call is     *)
(* cancelled then.                                                         *)
Killable_NotUpdates == cmd.name \notin {"fetch", "merge"}
Killable == TRUE
KillGit ==
    /\ Waiting /\ Interrupt /\ Killable
    /\ cmd.state # "cancelled"
    /\ cmd' = [cmd EXCEPT !.state = "cancelled"]
    /\ UNCHANGED <<disk, memory, pending, thread, proc>>

(* The pipe ends with the last process that has it: the lock is released   *)
(* and the thread goes on.                                                 *)
GitReturns ==
    /\ Waiting /\ ~Running
    /\ After(cmd.name, cmd.state)
    /\ cmd' = NoCmd
    /\ UNCHANGED <<disk, cached, proc>>

\* The command of a process that is gone, with its helpers.
OrphanEnds ==
    /\ cmd.name # "none" /\ ~Waiting /\ ~Running
    /\ cmd' = NoCmd
    /\ UNCHANGED <<disk, memory, pending, thread, proc>>

-----------------------------------------------------------------------------
(* The application's main thread.                                          *)

\* queue_add_cheat; one waiting game of a directory stands for all of them.
AddCheat(d) ==
    /\ ui.pc = "ready" /\ d \notin pending
    /\ pending' = pending \union {d}
    /\ UNCHANGED <<disk, cmd, memory, thread, proc>>

\* No item is unfinished: queue_is_active, queue_has_unfinished_work.
QueueIsIdle_NoneWaiting == pending = {}
QueueIsIdle == pending = {} /\ thread.dir = NoDir

\* clear_cheat_cache: refused while there is work, then it deletes without the lock.
BeginClear ==
    /\ ui.pc = "ready" /\ QueueIsIdle
    /\ ui' = [pc |-> "clearing", op |-> "clear"]
    /\ UNCHANGED <<disk, cmd, memory, pending, thread, lapses>>
ClearRemoves ==
    /\ ui.pc = "clearing"
    /\ \/ /\ HasGit
          /\ git' = IF git = "ok" THEN "partial" ELSE "none"
          /\ UNCHANGED files
       \/ \E d \in Dirs :
          /\ files[d] # "absent"
          /\ files' = [files EXCEPT ![d] = IF @ = "full" THEN "partial" ELSE "absent"]
          /\ UNCHANGED git
    /\ UNCHANGED <<cmd, memory, pending, thread, proc>>
ClearEnds ==
    /\ ui.pc = "clearing"
    /\ ~HasGit /\ \A d \in Dirs : files[d] = "absent"
    /\ ui' = [ui EXCEPT !.pc = "invalidate"]
    /\ UNCHANGED <<disk, cmd, memory, pending, thread, lapses>>
(* An entry cannot be removed, or an orphan adds one meanwhile: the error  *)
(* is shown and the state in memory stays.                                 *)
ClearFails ==
    /\ ui.pc = "clearing"
    /\ "clear_fails" \in Faults \/ cmd.name # "none"
    /\ ui' = Ready
    /\ lapses' = lapses \union {"clear_failed"}
    /\ UNCHANGED <<disk, cmd, memory, pending, thread>>

\* clear_cheat_repo_state_locked
ClearState_KeepsReady == cached' = {} /\ UNCHANGED ready
ClearState_KeepsLists == ready' = FALSE /\ UNCHANGED cached
ClearState == ready' = FALSE /\ cached' = {}
DropState == ClearState /\ lapses' = lapses \ {"clear_failed"}

\* queue_invalidate_cheat_repo_state looks at the queue under one lock ...
CheckInvalidate ==
    /\ ui.pc = "invalidate"
    /\ ui' = IF QueueIsIdle THEN [ui EXCEPT !.pc = "drop"] ELSE Ready
    /\ UNCHANGED <<disk, cmd, memory, pending, thread, lapses>>
\* ... and clears the state under another.
Invalidate ==
    /\ ui.pc = "drop" /\ StateMutexIsFree
    /\ DropState
    /\ ui' = Ready
    /\ UNCHANGED <<disk, cmd, pending, thread>>

(* queue_cancel_all, queue_begin_mapping_edit and the end of the program   *)
(* set g_interrupt and join the manager, which joins the cheat thread.     *)
BeginStop(op) ==
    /\ ui.pc = "ready"
    /\ op = "mapping" => QueueIsIdle
    /\ ui' = [pc |-> "stopping", op |-> op]
    /\ UNCHANGED <<disk, cmd, memory, pending, thread, lapses>>
Joined_NoWait == TRUE
Joined == thread.pc = "none"
EndStop ==
    /\ ui.pc = "stopping" /\ Joined
    /\ pending' = {}
    /\ IF ui.op = "cancel" THEN UNCHANGED <<memory, lapses>> ELSE DropState
    /\ ui' = IF ui.op = "quit" THEN Off ELSE Ready
    /\ UNCHANGED <<disk, cmd, thread>>

\* The process is killed; its git command is not.
Crash ==
    /\ "crash" \in Faults
    /\ ui.pc # "off"
    /\ ClearState
    /\ pending' = {} /\ thread' = NoThread /\ ui' = Off
    /\ UNCHANGED <<disk, cmd, lapses>>
\* A new process, with the work a saved queue brings.  An old command may still run.
Start ==
    /\ ui.pc = "off"
    /\ ui' = Ready
    /\ lapses' = {cmd.name} \ {"none"}
    /\ pending' \in SUBSET Dirs
    /\ UNCHANGED <<disk, cmd, memory, thread>>

-----------------------------------------------------------------------------
Init ==
    /\ git = "none" /\ files = [d \in Dirs |-> "absent"]
    /\ cmd = NoCmd
    /\ ready = FALSE /\ cached = {}
    /\ pending = {} /\ thread = NoThread /\ ui = Ready
    /\ lapses = {}

ThreadStep ==
    \/ StartThread \/ FindCheat \/ SkipCheat \/ EnsureCheatList
    \/ OpenRepo \/ UpdateRepo \/ EnsureCheckedOut \/ BuildCheatList
    \/ UseCheatList \/ MatchAndCopy \/ KillGit
UiStep ==
    \/ BeginClear \/ ClearRemoves \/ ClearEnds \/ ClearFails
    \/ CheckInvalidate \/ Invalidate \/ EndStop
Next ==
    \/ ThreadStep \/ UiStep
    \/ GitWorks \/ GitExits \/ GitReturns \/ OrphanEnds
    \/ \E d \in Dirs : AddCheat(d)
    \/ \E op \in {"cancel", "mapping", "quit"} : BeginStop(op)
    \/ Crash \/ Start

Spec == Init /\ [][Next]_vars

(* The threads of a live process keep running.  Nothing is assumed of git: *)
(* a command may hang for ever on a network that answers nothing.  When it *)
(* has been killed its helpers end: they are told to give up a connection  *)
(* that stands still (http.lowSpeedTime), but for those a merge starts to  *)
(* fetch what the filtered clone left out (cheats.c:546-550).              *)
HelpersEnd == cmd.name # "merge" /\ GitReturns
FairSpec == Spec /\ WF_vars(ThreadStep) /\ WF_vars(UiStep) /\ WF_vars(HelpersEnd)

-----------------------------------------------------------------------------
GitNames == {"clone", "fetch", "merge", "add"}
Commands ==
    {NoCmd} \union
    [name : GitNames, dir : Dirs,
     state : {"runs", "works", "ok", "failed", "cancelled"}]
ThreadStates ==
    {NoThread, [pc |-> "find", dir |-> NoDir]} \union
    [pc : {"list", "open", "clone", "fetch", "merge", "git",
           "checkout", "build", "listed", "match"},
     dir : Dirs]
CacheFits == cached \subseteq Dirs /\ Cardinality(cached) <= MaxCache

(* The types of the variables, and the bound of g_cheat_cache: the thread  *)
(* has a directory exactly while it has an item, a command while it runs.  *)
TypeOK ==
    /\ git \in {"none", "partial", "ok"}
    /\ files \in [Dirs -> {"absent", "partial", "full"}]
    /\ cmd \in Commands
    /\ ready \in BOOLEAN
    /\ CacheFits
    /\ pending \subseteq Dirs
    /\ thread \in ThreadStates
    /\ ui \in {Ready, Off} \union
          [pc : {"stopping"}, op : {"cancel", "mapping", "quit"}] \union
          [pc : {"clearing", "invalidate", "drop"}, op : {"clear"}]
    /\ lapses \subseteq GitNames \union {"no_lock", "clear_failed"}

(* process_cheat_item uses the pointer ensure_cheat_list gave it after the *)
(* mutex is released (queue.c:496-512).  The main thread frees the lists   *)
(* in three places; it never frees one the cheat thread still looks at.    *)
ListsAreAlive == thread.pc \in {"listed", "match"} => thread.dir \in cached

(* While the cheat thread indexes a directory or copies a file out of it   *)
(* no git command, of this process or of a dead one, and no deletion works *)
(* on the checkout: the lock is not held then, so it follows from BUSY     *)
(* being final and from the order in which commands run.  The one way      *)
(* around it: an update that could not ask for the lock at all counts as   *)
(* an update that failed (queue.c:441), and a dead process's command runs. *)
OrphanIsUnseen == "no_lock" \in lapses /\ lapses \intersect GitNames # {}
RepoIsQuiet ==
    thread.pc \in {"build", "listed", "match"} =>
        (LockIsFree \/ OrphanIsUnseen) /\ ui.pc # "clearing"

(* A list holds paths into the checkout.  The checkout is cloned, fetched  *)
(* or merged only while no list is cached: whatever makes the queue update *)
(* again (g_cheat_repo_ready) has also dropped the lists.                  *)
UpdateBeforeLists ==
    Waiting /\ cmd.name \in {"clone", "fetch", "merge"} => cached = {}

(* The promise of the dialog in clear_cheat_cache that the database is     *)
(* downloaded again on the next use: once the screen is left, the queue    *)
(* does not believe in a repository that is not there.  It may do so until *)
(* the next clear, if this one failed half way (ui.c:1975 leaves before    *)
(* the memory is dropped), and when the clone of a dead process removed    *)
(* what it had made after the thread saw it (queue.c:433).                 *)
RepoIsThere ==
    /\ ready /\ ui.pc \notin {"clearing", "invalidate", "drop"}
    /\ lapses \intersect {"clone", "clear_failed"} = {}
    => HasGit

(* A game with cheats in the database is found when its name matches       *)
(* (README.md, How Matching Works): no list is built from a directory that *)
(* git had not finished.                                                   *)
ListsAreWhole == thread.pc = "build" => files[thread.dir] # "partial"

(* Cancelling, editing a mapping and quitting return, also when git hangs  *)
(* on the network: the command is killed, its helpers give up, the thread  *)
(* leaves.  Only for what a killed merge has started the thread may have   *)
(* to wait for ever.                                                       *)
StopReturns ==
    ui.pc = "stopping" ~>
        \/ ui.pc # "stopping"
        \/ Waiting /\ cmd.name = "merge" /\ cmd.state = "cancelled"
=============================================================================
