---------------------------- MODULE DaemonHandoff ----------------------------
(***************************************************************************)
(* Who owns the download queue: the application (ui.c, main.c) or a        *)
(* background daemon it launched when it quit (daemon.c).  They share only *)
(* files: queue.json, daemon.pid, daemon.lock and daemon.control.          *)
(*                                                                         *)
(* Either process may die between any two steps, the application may be    *)
(* started again at any moment it does not run, and any wait may run into  *)
(* its timeout.  One step is one change of the files that the other process*)
(* can observe (the unlinks of one cleanup are one step); what a process   *)
(* does inside its own queue is ScrapeQueue, here a job is absent, pending,*)
(* finished (with any result) or skipped.                                  *)
(*                                                                         *)
(* Faults switches on what must not always be assumed:                     *)
(*   "app_crash", "daemon_crash"  the process is killed;                   *)
(*   "write_fails"  a file cannot be created or renamed, and the code is   *)
(*                  told so;                                               *)
(*   "disk_full"    the content of queue.json or daemon.pid cannot be      *)
(*                  written, which the code does not look at;              *)
(*   "pid_reuse"    the pid of a dead daemon is given to another process;  *)
(*   "slow_orphan"  the application was killed while it launched a daemon, *)
(*                  and is started again before that daemon got to report; *)
(*   "sigterm"      the system asks the daemon to end.                     *)
(*                                                                         *)
(* A definition Name_Slip is Name with one plausible programming error     *)
(* that Slip names; no specification uses it.  It shows that a property    *)
(* can fail.                                                               *)
(***************************************************************************)
EXTENDS Naturals, FiniteSets

CONSTANTS
    Jobs,       \* the items the user may queue
    Daemons,    \* processes that may be forked: bounds the launches
    Faults

AllFaults == {"app_crash", "daemon_crash", "slow_orphan", "write_fails", "disk_full",
              "pid_reuse", "sigterm"}
ASSUME FaultsAssumption == Faults \subseteq AllFaults
ASSUME NamesAssumption  == {"none", "empty"} \intersect Daemons = {}

JobStates == {"absent", "pending", "finished", "skipped"}
Queues  == [Jobs -> JobStates]
NoQueue == [j \in Jobs |-> "absent"]
Pending(q) == {j \in Jobs : q[j] = "pending"}
SkipPending_Cancelled(q) == [j \in Jobs |-> IF q[j] = "pending" THEN "cancelled" ELSE q[j]]
SkipPending(q) == [j \in Jobs |-> IF q[j] = "pending" THEN "skipped" ELSE q[j]]

VARIABLES
    app,        \* [pc, then: where a cleanup goes on, queue, child, stopAsked]
    daemon,     \* for each daemon [pc, queue, snap, dirty, cmd, ready: what it
                \* reported, lock: the file it holds]
    disk,       \* [queue, pid, lock, control]; a lock file is named after its creator
    reused      \* daemons whose pid another process has now

vars == <<app, daemon, disk, reused>>

-----------------------------------------------------------------------------
(* Processes and files.                                                    *)

Alive(d) == daemon[d].pc \notin {"none", "exited", "dead"}
Starting(d) == daemon[d].pc \in {"boot", "pid", "pidopen", "load", "loaded"}
AppGoto(pc) == app' = [app EXCEPT !.pc = pc]
DaemonGoto(d, pc) == daemon' = [daemon EXCEPT ![d].pc = pc]

(* serialize_queue writes a temporary file and renames it; fputs, fflush   *)
(* and fsync may fail unnoticed, and a torn file is read as no items.      *)
Torn == IF "disk_full" \in Faults THEN {NoQueue} ELSE {}
\* What it may leave in queue.json for a caller that ignores its result.
Saved(q) == {q} \union Torn \union (IF "write_fails" \in Faults THEN {disk.queue} ELSE {})

Cleaned_WithQueue ==
    [queue |-> NoQueue, pid |-> "none", lock |-> "none", control |-> "none"]

\* daemon_cleanup keeps queue.json, daemon_cleanup_all does not.
Cleaned == [disk EXCEPT !.pid = "none", !.lock = "none", !.control = "none"]
CleanedAll == [Cleaned EXCEPT !.queue = NoQueue]

(* daemon_is_running: no pid file, or one without a number or with that of *)
(* a dead process, means no; the latter two are followed by daemon_cleanup,*)
(* which removes whatever is there by then.                                *)
PidAnswers == disk.pid \in Daemons /\ (Alive(disk.pid) \/ disk.pid \in reused)
Stale == disk.pid # "none" /\ ~PidAnswers

\* One call of it: go to yes, or to no, by way of "cleanup" if the file is stale.
IsRunning(yes, no) ==
    /\ app' = IF PidAnswers THEN [app EXCEPT !.pc = yes]
              ELSE IF Stale THEN [app EXCEPT !.pc = "cleanup", !.then = no]
              ELSE [app EXCEPT !.pc = no]
    /\ UNCHANGED <<daemon, disk, reused>>
Cleanup ==
    /\ app.pc = "cleanup"
    /\ disk' = Cleaned
    /\ AppGoto(app.then)
    /\ UNCHANGED <<daemon, reused>>

-----------------------------------------------------------------------------
(* The application starts: check_daemon_on_startup.                        *)

AppOff == [pc |-> "off", then |-> "off", queue |-> NoQueue, child |-> "none",
           stopAsked |-> FALSE]

StartApp ==
    /\ app.pc = "off"
    /\ "slow_orphan" \notin Faults => \A d \in Daemons : ~Starting(d)
    /\ app' = [AppOff EXCEPT !.pc = "check"]
    /\ UNCHANGED <<daemon, disk, reused>>
AppCrash ==
    /\ "app_crash" \in Faults /\ app.pc # "off"
    /\ app' = AppOff
    /\ UNCHANGED <<daemon, disk, reused>>

CheckDaemon == app.pc = "check" /\ IsRunning("request", "import")

(* daemon_request_handoff: tmp + rename; it returns false when that fails. *)
RequestHandoff ==
    /\ app.pc = "request"
    /\ \/ disk' = [disk EXCEPT !.control = "handoff"] /\ AppGoto("wait")
       \/ "write_fails" \in Faults /\ AppGoto("recheck") /\ UNCHANGED disk
    /\ UNCHANGED <<daemon, reused>>

WaitForHandoff_NoTimeout == app.pc = "wait" /\ IsRunning("wait", "restore")
WaitForHandoff_Impatient ==
    app.pc = "wait" /\ (IsRunning("wait", "restore") \/ IsRunning("restore", "restore"))

(* daemon_takeover_worker polls for 10 seconds.                            *)
WaitForHandoff ==
    /\ app.pc = "wait"
    /\ IsRunning("wait", "restore") \/ IsRunning("recheck", "restore")
RecheckDaemon == app.pc = "recheck" /\ IsRunning("status", "restore")

(* The status screen: the user may stop the daemon (daemon_on_stop), which *)
(* waits for its exit for 10 seconds, and leaves the screen.               *)
RequestStop ==
    /\ app.pc = "status"
    /\ disk' = [disk EXCEPT !.control = "stop"]
    /\ app' = [app EXCEPT !.pc = "stopwait", !.stopAsked = TRUE]
    /\ UNCHANGED <<daemon, reused>>
WaitForStop ==
    /\ app.pc = "stopwait"
    /\ IsRunning("stopwait", "status") \/ IsRunning("status", "status")
LeaveStatus == app.pc = "status" /\ IsRunning("off", "restore")

(* restore_daemon_queue: load what queue.json holds, then remove every     *)
(* file.  Nothing to load: they are removed only if a daemon was there.    *)
RestoreQueue ==
    /\ app.pc \in {"import", "restore"}
    /\ app' = [app EXCEPT !.pc = IF app.pc = "import" /\ disk.queue = NoQueue
                                 THEN "menu" ELSE "restored",
                          !.queue = disk.queue]
    /\ UNCHANGED <<daemon, disk, reused>>
CleanupAll ==
    /\ app.pc = "restored"
    /\ disk' = CleanedAll
    /\ AppGoto("menu")
    /\ UNCHANGED <<daemon, reused>>

-----------------------------------------------------------------------------
(* The application runs, and quits: run_app and daemon_launch.             *)

AppWorks == app.pc \in {"restored", "menu"}

\* The user adds a job, and the workers finish one.
AddJob(j) ==
    /\ app.pc = "menu" /\ app.queue[j] = "absent"
    /\ app' = [app EXCEPT !.queue[j] = "pending"]
    /\ UNCHANGED <<daemon, disk, reused>>
AppFinishes(j) ==
    /\ AppWorks /\ app.queue[j] = "pending"
    /\ app' = [app EXCEPT !.queue[j] = "finished"]
    /\ UNCHANGED <<daemon, disk, reused>>

\* Nothing is pending, or the user cancels what is.
QuitApp ==
    /\ app.pc = "menu"
    /\ app' = AppOff
    /\ UNCHANGED <<daemon, disk, reused>>

\* Exit to Background: queue_handoff_snapshot stops the workers; daemon_launch.
QuitToBackground ==
    /\ app.pc = "menu" /\ Pending(app.queue) # {}
    /\ AppGoto("save")
    /\ UNCHANGED <<daemon, disk, reused>>
LaunchSave ==
    /\ app.pc = "save"
    /\ \/ \E q \in {app.queue} \union Torn :
             disk' = [disk EXCEPT !.queue = q] /\ AppGoto("uncommand")
       \/ "write_fails" \in Faults /\ AppGoto("failed") /\ UNCHANGED disk
    /\ UNCHANGED <<daemon, reused>>
LaunchUncommand ==
    /\ app.pc = "uncommand"
    /\ disk' = [disk EXCEPT !.control = "none"]
    /\ AppGoto("fork")
    /\ UNCHANGED <<daemon, reused>>
LaunchFork ==
    /\ app.pc = "fork"
    /\ \/ \E d \in Daemons :
            /\ daemon[d].pc = "none"
            /\ DaemonGoto(d, "boot")
            /\ app' = [app EXCEPT !.pc = "launching", !.child = d]
       \/ AppGoto("failed") /\ UNCHANGED daemon      \* pipe or fork failed
    /\ UNCHANGED <<disk, reused>>

(* The parent reads one byte; the end of file means the child is gone.     *)
LaunchReady ==
    /\ app.pc = "launching" /\ daemon[app.child].ready = "yes"
    /\ app' = AppOff
    /\ UNCHANGED <<daemon, disk, reused>>
LaunchNotReady ==
    /\ app.pc = "launching"
    /\ daemon[app.child].ready = "no" \/ (daemon[app.child].ready = "none" /\ ~Alive(app.child))
    /\ AppGoto("failed")
    /\ UNCHANGED <<daemon, disk, reused>>
\* daemon_cleanup_all, and the snapshot is loaded again.
LaunchFailed ==
    /\ app.pc = "failed"
    /\ disk' = CleanedAll
    /\ app' = [app EXCEPT !.pc = "menu", !.child = "none"]
    /\ UNCHANGED <<daemon, reused>>

-----------------------------------------------------------------------------
(* The daemon: daemon_main.                                                *)

NewDaemon == [pc |-> "none", queue |-> NoQueue, snap |-> NoQueue, dirty |-> FALSE,
              cmd |-> "none", ready |-> "none", lock |-> "none"]

\* It reports failure and ends; the pid file stays.
Refuses(d) == daemon' = [daemon EXCEPT ![d] =
                            [@ EXCEPT !.pc = "dead", !.ready = "no",
                                      !.lock = "none"]]

(* open(daemon.lock, O_CREAT) and flock(LOCK_NB); exec may fail before.    *)
Unwritten == IF "disk_full" \in Faults THEN {disk.pid} ELSE {}
LockFile(d) == IF disk.lock = "none" THEN d ELSE disk.lock
LockIsFree(d) == \A e \in Daemons : daemon[e].lock # LockFile(d)
DaemonLock(d) ==
    /\ daemon[d].pc = "boot"
    /\ \/ Refuses(d) /\ UNCHANGED disk
       \/ /\ LockIsFree(d)
          /\ disk' = [disk EXCEPT !.lock = LockFile(d)]
          /\ daemon' = [daemon EXCEPT ![d] =
                           [@ EXCEPT !.pc = "pid", !.lock = LockFile(d)]]
    /\ UNCHANGED <<app, reused>>

(* fopen truncates daemon.pid, fclose writes the number.  Nothing looks at *)
(* whether either worked.                                                  *)
DaemonOpenPid(d) ==
    /\ daemon[d].pc = "pid"
    /\ \E pid \in {"empty"} \union Unwritten : disk' = [disk EXCEPT !.pid = pid]
    /\ DaemonGoto(d, "pidopen")
    /\ UNCHANGED <<app, reused>>
DaemonWritePid(d) ==
    /\ daemon[d].pc = "pidopen"
    /\ \E pid \in (IF disk.pid = "empty" THEN {d} ELSE {disk.pid}) \union Unwritten :
          disk' = [disk EXCEPT !.pid = pid]
    /\ DaemonGoto(d, "load")
    /\ UNCHANGED <<app, reused>>

(* Read queue.json; with nothing in it, or no catalogue, it refuses.  From *)
(* queue_load_items on its workers run.                                    *)
DaemonLoad(d) ==
    /\ daemon[d].pc = "load"
    /\ \/ Refuses(d)
       \/ /\ disk.queue # NoQueue
          /\ daemon' = [daemon EXCEPT ![d] =
                           [@ EXCEPT !.pc = "loaded", !.queue = disk.queue,
                                     !.dirty = TRUE]]
    /\ UNCHANGED <<app, disk, reused>>

(* daemon_report_ready: with the parent gone, SIGPIPE ends the daemon.     *)
DaemonReady(d) ==
    /\ daemon[d].pc = "loaded"
    /\ daemon' = IF app.pc = "launching" /\ app.child = d
                 THEN [daemon EXCEPT ![d] =
                          [@ EXCEPT !.pc = "run", !.ready = "yes"]]
                 ELSE [daemon EXCEPT ![d] =
                          [@ EXCEPT !.pc = "dead", !.lock = "none"]]
    /\ UNCHANGED <<app, disk, reused>>

DaemonWorks(d) == daemon[d].pc \in {"loaded", "run", "write", "final"}
DaemonOwns(d)  == daemon[d].pc \in {"run", "write", "final"}
DaemonHolds(d) == DaemonOwns(d) \/ daemon[d].pc = "finalwrite"
DaemonFinishes(d, j) ==
    /\ DaemonWorks(d) /\ daemon[d].queue[j] = "pending"
    /\ daemon' = [daemon EXCEPT ![d] =
                     [@ EXCEPT !.queue[j] = "finished", !.dirty = TRUE]]
    /\ UNCHANGED <<app, disk, reused>>

(* The poll loop: leave on a command or when nothing is pending; otherwise *)
(* take a snapshot if something changed, and write it.                     *)
Orders == ({disk.control} \ {"none"}) \union (IF "sigterm" \in Faults THEN {"stop"} ELSE {})
DaemonReadsCommand(d) ==
    /\ daemon[d].pc = "run"
    /\ \E cmd \in Orders : daemon' = [daemon EXCEPT ![d] =
                                         [@ EXCEPT !.pc = "final",
                                                   !.cmd = cmd]]
    /\ UNCHANGED <<app, disk, reused>>
DaemonIsDone(d) ==
    /\ daemon[d].pc = "run" /\ Pending(daemon[d].queue) = {}
    /\ DaemonGoto(d, "final")
    /\ UNCHANGED <<app, disk, reused>>
DaemonSnapshot(d) ==
    /\ daemon[d].pc = "run" /\ daemon[d].dirty
    /\ daemon' = [daemon EXCEPT ![d] =
                     [@ EXCEPT !.pc = "write", !.snap = daemon[d].queue,
                               !.dirty = FALSE]]
    /\ UNCHANGED <<app, disk, reused>>
DaemonWrite(d) ==
    /\ daemon[d].pc = "write"
    /\ \E q \in Saved(daemon[d].snap) : disk' = [disk EXCEPT !.queue = q]
    /\ DaemonGoto(d, "run")
    /\ UNCHANGED <<app, reused>>

DaemonEnds_UnlinksPid(d) ==
    /\ daemon[d].pc = "final"
    /\ LET q == daemon[d].queue
           last == IF daemon[d].cmd = "stop" THEN SkipPending(q) ELSE q
       IN  daemon' = [daemon EXCEPT ![d] =
                         [@ EXCEPT !.pc = "finalwrite", !.queue = last,
                                   !.snap = last]]
    /\ disk' = [disk EXCEPT !.pid = "none"]
    /\ UNCHANGED <<app, reused>>
DaemonEnds_OldSnapshot(d) ==
    /\ daemon[d].pc = "final"
    /\ daemon' = [daemon EXCEPT ![d].pc = "finalwrite"]
    /\ UNCHANGED <<app, disk, reused>>

(* The end: a stop cancels what is pending, a handoff resets it; the final *)
(* snapshot, with the workers stopped or out of work, is written.          *)
DaemonEnds(d) ==
    /\ daemon[d].pc = "final"
    /\ LET q == daemon[d].queue
           last == IF daemon[d].cmd = "stop" THEN SkipPending(q) ELSE q
       IN  daemon' = [daemon EXCEPT ![d] =
                         [@ EXCEPT !.pc = "finalwrite", !.queue = last,
                                   !.snap = last]]
    /\ UNCHANGED <<app, disk, reused>>
DaemonFinalWrite(d) ==
    /\ daemon[d].pc = "finalwrite"
    /\ \E q \in Saved(daemon[d].snap) : disk' = [disk EXCEPT !.queue = q]
    /\ DaemonGoto(d, "uncommand")
    /\ UNCHANGED <<app, reused>>

\* Then the files go: control, the lock, its file, and the pid file last.
DaemonUncommand(d) ==
    /\ daemon[d].pc = "uncommand"
    /\ disk' = [disk EXCEPT !.control = "none"]
    /\ DaemonGoto(d, "unlock")
    /\ UNCHANGED <<app, reused>>
DaemonUnlock(d) ==
    /\ daemon[d].pc = "unlock"
    /\ daemon' = [daemon EXCEPT ![d] =
                     [@ EXCEPT !.pc = "unlinklock", !.lock = "none"]]
    /\ UNCHANGED <<app, disk, reused>>
DaemonUnlinkLock(d) ==
    /\ daemon[d].pc = "unlinklock"
    /\ disk' = [disk EXCEPT !.lock = "none"]
    /\ DaemonGoto(d, "unlinkpid")
    /\ UNCHANGED <<app, reused>>
DaemonUnlinkPid(d) ==
    /\ daemon[d].pc = "unlinkpid"
    /\ disk' = [disk EXCEPT !.pid = "none"]
    /\ DaemonGoto(d, "exited")
    /\ UNCHANGED <<app, reused>>

DaemonCrash(d) ==
    /\ "daemon_crash" \in Faults /\ Alive(d)
    /\ daemon' = [daemon EXCEPT ![d] = [@ EXCEPT !.pc = "dead", !.lock = "none"]]
    /\ UNCHANGED <<app, disk, reused>>
PidReused(d) ==
    /\ "pid_reuse" \in Faults
    /\ daemon[d].pc \in {"exited", "dead"} /\ d \notin reused
    /\ reused' = reused \union {d}
    /\ UNCHANGED <<app, daemon, disk>>

-----------------------------------------------------------------------------
Init ==
    /\ app = AppOff
    /\ daemon = [d \in Daemons |-> NewDaemon]
    /\ disk = [queue |-> NoQueue, pid |-> "none", lock |-> "none", control |-> "none"]
    /\ reused = {}

\* What the application does without the user.
AppStep ==
    \/ CheckDaemon \/ Cleanup \/ RequestHandoff \/ WaitForHandoff \/ RecheckDaemon
    \/ WaitForStop \/ RestoreQueue \/ CleanupAll
    \/ LaunchSave \/ LaunchUncommand \/ LaunchFork
    \/ LaunchReady \/ LaunchNotReady \/ LaunchFailed
User ==
    \/ StartApp \/ RequestStop \/ LeaveStatus \/ QuitApp \/ QuitToBackground
    \/ \E j \in Jobs : AddJob(j)
Work ==
    \E j \in Jobs : AppFinishes(j) \/ \E d \in Daemons : DaemonFinishes(d, j)
DaemonStep(d) ==
    \/ DaemonLock(d) \/ DaemonOpenPid(d) \/ DaemonWritePid(d) \/ DaemonLoad(d)
    \/ DaemonReady(d) \/ DaemonReadsCommand(d) \/ DaemonIsDone(d)
    \/ DaemonSnapshot(d) \/ DaemonWrite(d) \/ DaemonEnds(d) \/ DaemonFinalWrite(d)
    \/ DaemonUncommand(d) \/ DaemonUnlock(d) \/ DaemonUnlinkLock(d) \/ DaemonUnlinkPid(d)
Failure == AppCrash \/ \E d \in Daemons : DaemonCrash(d) \/ PidReused(d)

Next == AppStep \/ User \/ Work \/ Failure \/ \E d \in Daemons : DaemonStep(d)
Spec == Init /\ [][Next]_vars

(* The application and the poll loop run on; the workers finish a request  *)
(* (curl and git are bounded).  How long the daemon takes to stop them, to *)
(* exit or to start is left open, and so is what the user does.            *)
DaemonLoop(d) ==
    DaemonReadsCommand(d) \/ DaemonIsDone(d) \/ DaemonSnapshot(d) \/ DaemonWrite(d)
Fairness ==
    /\ WF_vars(AppStep) /\ WF_vars(Work)
    /\ \A d \in Daemons : WF_vars(DaemonLoop(d))
FairSpec == Spec /\ Fairness

-----------------------------------------------------------------------------
(* Properties.                                                             *)

AppPcs == {"off", "check", "cleanup", "request", "wait", "recheck", "status", "stopwait",
           "import", "restore", "restored", "menu", "save", "uncommand", "fork",
           "launching", "failed"}
DaemonPcs == {"none", "boot", "pid", "pidopen", "load", "loaded", "run", "write", "final",
              "finalwrite", "uncommand", "unlock", "unlinklock", "unlinkpid", "exited", "dead"}
Commands == {"none", "handoff", "stop"}

TypeOK ==
    /\ app \in [pc : AppPcs, then : AppPcs, queue : Queues,
                child : Daemons \union {"none"}, stopAsked : BOOLEAN]
    /\ daemon \in [Daemons -> [pc : DaemonPcs, queue : Queues, snap : Queues,
                               dirty : BOOLEAN, cmd : Commands,
                               ready : {"none", "yes", "no"}, lock : Daemons \union {"none"}]]
    /\ disk \in [queue : Queues, pid : Daemons \union {"none", "empty"},
                 lock : Daemons \union {"none"}, control : Commands]
    /\ reused \subseteq Daemons

(* The queue has one owner: no second daemon, and no application beside a  *)
(* daemon, works on it (daemon.lock, daemon.pid and the order in which     *)
(* they are written and removed).  A daemon whose parent died before it    *)
(* reported ready counts only from then on: the report ends it.            *)
OneOwner ==
    /\ \A d, e \in Daemons : DaemonOwns(d) /\ DaemonOwns(e) => d = e
    /\ \A d \in Daemons : ~(AppWorks /\ DaemonOwns(d))

(* daemon.h: daemon_is_running "returns true if a background daemon is     *)
(* currently running".  From the moment a daemon is responsible for the    *)
(* queue until its last snapshot is in the file, whoever asks is told so,  *)
(* whatever old pid files and their cleanups come in between.              *)
OwnerIsSeen == \A d \in Daemons : DaemonHolds(d) => PidAnswers

Known(j) ==
    \/ app.queue[j] # "absent" \/ disk.queue[j] # "absent"
    \/ \E d \in Daemons : DaemonHolds(d) /\ daemon[d].queue[j] # "absent"

(* A job handed to the background is never lost: whoever dies, and whatever*)
(* launch fails, it stays in queue.json or with a live owner.  Only an     *)
(* application that holds it itself can drop it, by quitting or dying.     *)
NothingLost ==
    [][\A j \in Jobs : Known(j) /\ ~Known(j)' =>
          app.queue[j] # "absent" /\ app.pc # "launching" /\ app'.pc = "off"]_vars

(* ui.c: once the user stopped the background work, "pending items will be *)
(* skipped": none of them comes back to be scraped.                        *)
StopIsHonoured ==
    [][app.pc = "restore" /\ app.stopAsked /\ app'.pc = "restored"
        => Pending(app'.queue) = {}]_vars

(* A start of the application gets to the menu, to the status screen or to *)
(* its end whatever the daemon does: every wait for it gives up.           *)
StartupEnds == app.pc = "check" ~> app.pc \in {"menu", "status", "off"}

(* A daemon leaves its loop when it is told to or runs out of work.        *)
DaemonsEnd == \A d \in Daemons : daemon[d].pc = "run" ~> daemon[d].pc \notin {"run", "write"}

(* Neither process waits for the other for ever.                           *)
HandoffsEnd == StartupEnds /\ DaemonsEnd

-----------------------------------------------------------------------------
(* As an implementation of JobRelay.                                       *)

(* The daemon owns the queue from queue_load_items to its last snapshot in *)
(* the file, the application from its own load to the report of the daemon *)
(* it launches; else it lies in queue.json.                                *)
Holders == {d \in Daemons : DaemonWorks(d) \/ DaemonHolds(d)}
AppHolds ==
    \/ app.pc \in {"restored", "menu", "save", "uncommand", "fork", "failed"}
    \/ app.pc = "launching" /\ daemon[app.child].ready # "yes"

owner == IF Holders # {} THEN "daemon" ELSE IF AppHolds THEN "app" ELSE "nobody"
list == IF Holders # {} THEN daemon[CHOOSE d \in Holders : TRUE].queue
        ELSE IF AppHolds THEN app.queue ELSE disk.queue

Relay == INSTANCE JobRelay

(* Without failures every step hands the list on as it is, changes one     *)
(* pending job of the owner's, or skips the rest: a result recorded by the *)
(* daemon is there after the takeover, and the other way round.            *)
ImplementsRelay == Relay!Spec
=============================================================================
