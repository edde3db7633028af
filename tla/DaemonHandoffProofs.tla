------------------------- MODULE DaemonHandoffProofs -------------------------
(***************************************************************************)
(* Safety of the handoff for any jobs and any number of launches, and that *)
(* it implements JobRelay.  The argument: a daemon that could be mistaken  *)
(* for a dead one is still watched by the application that forked it, every*)
(* other live daemon has its pid in daemon.pid, so the application starts, *)
(* restores, runs or launches only while no daemon is alive.  Then nobody  *)
(* writes queue.json under anybody else, and it names every job at hand.   *)
(***************************************************************************)
EXTENDS DaemonHandoff, TLAPS

\* TypeOK, one set for each variable.
Apps == [pc : AppPcs, then : AppPcs, queue : Queues,
         child : Daemons \union {"none"}, stopAsked : BOOLEAN]
Procs == [pc : DaemonPcs, queue : Queues, snap : Queues, dirty : BOOLEAN,
          cmd : Commands, ready : {"none", "yes", "no"},
          lock : Daemons \union {"none"}]
Disks == [queue : Queues, pid : Daemons \union {"none", "empty"},
          lock : Daemons \union {"none"}, control : Commands]

(* The types of the variables, one by one, before and after a step.        *)
LEMMA TypeParts ==
    TypeOK <=> /\ app \in Apps /\ daemon \in [Daemons -> Procs]
               /\ disk \in Disks /\ reused \subseteq Daemons
BY DEF TypeOK, Apps, Procs, Disks

LEMMA TypePartsPrimed ==
    TypeOK' <=> /\ app' \in Apps /\ daemon' \in [Daemons -> Procs]
                /\ disk' \in Disks /\ reused' \subseteq Daemons
BY DEF TypeOK, Apps, Procs, Disks

(* An empty list is a list.                                                *)
LEMMA NoQueueType == NoQueue \in Queues
BY DEF NoQueue, Queues, JobStates

(* The places of a daemon that has been forked.                            *)
LEMMA PcTypes ==
    {"boot", "pid", "pidopen", "load", "loaded", "run", "write", "final",
     "finalwrite", "uncommand", "unlock", "unlinklock", "unlinkpid", "exited",
     "dead"} \subseteq DaemonPcs
BY DEF DaemonPcs

(* Nobody runs and no file exists at first.                                *)
LEMMA InitTypes == Init => TypeOK
<1> SUFFICES ASSUME Init PROVE TypeOK
  OBVIOUS
<1> USE NoQueueType
<1>1. app \in Apps
  BY DEF Init, AppOff, Apps, AppPcs
<1>2. daemon \in [Daemons -> Procs]
  BY DEF Init, NewDaemon, Procs, DaemonPcs, Commands
<1>3. disk \in Disks
  BY DEF Init, Disks, Commands
<1> QED
  BY <1>1, <1>2, <1>3, TypeParts DEF Init

(* A daemon's record is replaced as a whole.                               *)
LEMMA PutTypes ==
    ASSUME TypeOK, NEW d \in Daemons, NEW r \in Procs, daemon' = [daemon EXCEPT ![d] = r]
    PROVE  daemon' \in [Daemons -> Procs]
BY TypeParts

LEMMA GotoEffect ==
    ASSUME TypeOK, NEW d \in Daemons, NEW pc, DaemonGoto(d, pc)
    PROVE  /\ daemon'[d] = [daemon[d] EXCEPT !.pc = pc]
           /\ daemon'[d].pc = pc /\ daemon'[d].ready = daemon[d].ready
           /\ daemon'[d].queue = daemon[d].queue /\ daemon'[d].snap = daemon[d].snap
           /\ \A e \in Daemons : e # d => daemon'[e] = daemon[e]
<1>1. daemon \in [Daemons -> Procs]
  BY TypeParts
<1>2. /\ daemon'[d] = [daemon[d] EXCEPT !.pc = pc]
      /\ \A e \in Daemons : e # d => daemon'[e] = daemon[e]
  BY <1>1 DEF DaemonGoto
<1> QED
  BY <1>1, <1>2 DEF Procs

(* What the actions are made of keeps the types.                           *)
LEMMA GotoTypes ==
    ASSUME TypeOK
    PROVE  /\ \A pc \in AppPcs : AppGoto(pc) => app' \in Apps
           /\ \A d \in Daemons, pc \in DaemonPcs :
                  DaemonGoto(d, pc) => daemon' \in [Daemons -> Procs]
           /\ \A d \in Daemons : Refuses(d) => daemon' \in [Daemons -> Procs]
           /\ Cleaned \in Disks /\ CleanedAll \in Disks
           /\ AppOff \in Apps
<1>1. ASSUME NEW pc \in AppPcs, AppGoto(pc) PROVE app' \in Apps
  BY <1>1, TypeParts DEF AppGoto, Apps
<1>2. ASSUME NEW d \in Daemons, NEW pc \in DaemonPcs, DaemonGoto(d, pc)
      PROVE  daemon' \in [Daemons -> Procs]
  BY <1>2, TypeParts DEF DaemonGoto, Procs
<1>3. ASSUME NEW d \in Daemons, Refuses(d) PROVE daemon' \in [Daemons -> Procs]
  <2>1. [daemon[d] EXCEPT !.pc = "dead", !.ready = "no", !.lock = "none"] \in Procs
    BY PcTypes, TypeParts DEF Procs
  <2> QED
    BY <1>3, <2>1, PutTypes DEF Refuses
<1>4. Cleaned \in Disks /\ CleanedAll \in Disks
  BY TypeParts, NoQueueType DEF Cleaned, CleanedAll, Disks, Commands
<1>5. AppOff \in Apps
  BY NoQueueType DEF AppOff, Apps, AppPcs
<1> QED
  BY <1>1, <1>2, <1>3, <1>4, <1>5

(* The types, action by action.                                            *)
LEMMA AppStepTypes == ASSUME TypeOK, AppStep PROVE TypeOK'
<1> USE TypeParts, TypePartsPrimed, GotoTypes
<1>1. ASSUME NEW yes \in AppPcs, NEW no \in AppPcs, IsRunning(yes, no)
      PROVE  app' \in Apps
  <2>1. "cleanup" \in AppPcs
    BY DEF AppPcs
  <2> QED
    BY <1>1, <2>1 DEF IsRunning, Apps
<1>2. CASE CheckDaemon
  BY <1>1, <1>2 DEF CheckDaemon, IsRunning, AppPcs
<1>3. CASE Cleanup
  BY <1>3 DEF Cleanup, Apps
<1>4. CASE RequestHandoff
  BY <1>4 DEF RequestHandoff, AppPcs, Disks, Commands
<1>5. CASE WaitForHandoff
  BY <1>1, <1>5 DEF WaitForHandoff, IsRunning, AppPcs
<1>6. CASE RecheckDaemon
  BY <1>1, <1>6 DEF RecheckDaemon, IsRunning, AppPcs
<1>7. CASE WaitForStop
  BY <1>1, <1>7 DEF WaitForStop, IsRunning, AppPcs
<1>8. CASE RestoreQueue
  BY <1>8 DEF RestoreQueue, Apps, AppPcs, Disks
<1>9. CASE CleanupAll
  BY <1>9 DEF CleanupAll, AppPcs
<1>10. CASE LaunchSave
  BY <1>10, NoQueueType DEF LaunchSave, Torn, Apps, AppPcs, Disks
<1>11. CASE LaunchUncommand
  BY <1>11 DEF LaunchUncommand, AppPcs, Disks, Commands
<1>12. CASE LaunchFork
  BY <1>12 DEF LaunchFork, Apps, AppPcs, DaemonPcs
<1>13. CASE LaunchReady
  BY <1>13 DEF LaunchReady
<1>14. CASE LaunchNotReady
  BY <1>14 DEF LaunchNotReady, AppPcs
<1>15. CASE LaunchFailed
  BY <1>15 DEF LaunchFailed, Apps, AppPcs
<1> QED
  BY <1>2, <1>3, <1>4, <1>5, <1>6, <1>7, <1>8, <1>9, <1>10, <1>11, <1>12,
     <1>13, <1>14, <1>15 DEF AppStep

LEMMA UserTypes == ASSUME TypeOK, User PROVE TypeOK'
<1> USE TypeParts, TypePartsPrimed, GotoTypes
<1>1. CASE StartApp
  BY <1>1 DEF StartApp, Apps, AppPcs
<1>2. CASE RequestStop
  BY <1>2 DEF RequestStop, Apps, AppPcs, Disks, Commands
<1>3. CASE LeaveStatus
  <2>1. {"off", "restore", "cleanup"} \subseteq AppPcs
    BY DEF AppPcs
  <2> QED
    BY <1>3, <2>1 DEF LeaveStatus, IsRunning, Apps
<1>4. CASE QuitApp
  BY <1>4 DEF QuitApp
<1>5. CASE QuitToBackground
  BY <1>5 DEF QuitToBackground, AppPcs
<1>6. ASSUME NEW j \in Jobs, AddJob(j) PROVE TypeOK'
  BY <1>6 DEF AddJob, Apps, Queues, JobStates
<1> QED
  BY <1>1, <1>2, <1>3, <1>4, <1>5, <1>6 DEF User

LEMMA WorkTypes == ASSUME TypeOK, Work PROVE TypeOK'
<1> USE PcTypes, TypeParts, TypePartsPrimed
<1>1. ASSUME NEW j \in Jobs, AppFinishes(j) PROVE TypeOK'
  BY <1>1 DEF AppFinishes, Apps, Queues, JobStates
<1>2. ASSUME NEW j \in Jobs, NEW d \in Daemons, DaemonFinishes(d, j) PROVE TypeOK'
  <2>1. daemon[d].queue \in Queues
    BY DEF Procs
  <2>2. [daemon[d].queue EXCEPT ![j] = "finished"] \in Queues
    BY <2>1 DEF Queues, JobStates
  <2>3. [daemon[d] EXCEPT !.queue[j] = "finished", !.dirty = TRUE] \in Procs
    BY <2>2 DEF Procs
  <2>4. daemon' \in [Daemons -> Procs]
    BY <1>2, <2>3, PutTypes DEF DaemonFinishes
  <2> QED
    BY <1>2, <2>4 DEF DaemonFinishes
<1> QED
  BY <1>1, <1>2 DEF Work

LEMMA FailureTypes == ASSUME TypeOK, Failure PROVE TypeOK'
<1> USE PcTypes, TypeParts, TypePartsPrimed, GotoTypes
<1>1. CASE AppCrash
  BY <1>1 DEF AppCrash
<1>2. ASSUME NEW d \in Daemons, DaemonCrash(d) PROVE TypeOK'
  <2>1. [daemon[d] EXCEPT !.pc = "dead", !.lock = "none"] \in Procs
    <3>1. daemon[d] \in Procs
      OBVIOUS
    <3> QED
      BY ONLY <3>1, PcTypes DEF Procs
  <2> QED
    BY <1>2, <2>1, PutTypes DEF DaemonCrash
<1>3. ASSUME NEW d \in Daemons, PidReused(d) PROVE TypeOK'
  BY <1>3 DEF PidReused
<1> QED
  BY <1>1, <1>2, <1>3 DEF Failure

LEMMA DaemonTypes == ASSUME TypeOK, NEW d \in Daemons, DaemonStep(d) PROVE TypeOK'
<1>0. daemon[d] \in Procs
  BY TypeParts
<1> USE PcTypes, TypeParts, TypePartsPrimed, GotoTypes
<1>1. ASSUME NEW q \in Queues PROVE Saved(q) \subseteq Queues
  BY <1>1, NoQueueType DEF Saved, Torn, Disks
<1>2. CASE DaemonLock(d)
  <2>1. LockFile(d) \in Daemons
    BY DEF LockFile, Disks
  <2>2. CASE Refuses(d) /\ UNCHANGED disk
    BY <1>2, <2>2 DEF DaemonLock
  <2>3. CASE /\ disk' = [disk EXCEPT !.lock = LockFile(d)]
             /\ daemon' = [daemon EXCEPT ![d] =
                              [@ EXCEPT !.pc = "pid", !.lock = LockFile(d)]]
    <3>1. [daemon[d] EXCEPT !.pc = "pid", !.lock = LockFile(d)] \in Procs
      BY ONLY <1>0, <2>1, PcTypes DEF Procs
    <3>2. daemon' \in [Daemons -> Procs]
      BY <2>3, <3>1, PutTypes
    <3>3. disk' \in Disks
      BY <2>1, <2>3 DEF Disks
    <3> QED
      BY <1>2, <3>2, <3>3 DEF DaemonLock
  <2> QED
    BY <1>2, <2>2, <2>3 DEF DaemonLock
<1>3. CASE DaemonOpenPid(d)
  BY <1>3 DEF DaemonOpenPid, Unwritten, Disks
<1>4. CASE DaemonWritePid(d)
  BY <1>4 DEF DaemonWritePid, Unwritten, Disks
<1>5. CASE DaemonLoad(d)
  <2>1. disk.queue \in Queues
    BY DEF Disks
  <2>2. daemon' \in [Daemons -> Procs]
    <3>1. CASE daemon' = [daemon EXCEPT ![d] =
                            [@ EXCEPT !.pc = "loaded", !.queue = disk.queue,
                                      !.dirty = TRUE]]
      <4>1. [daemon[d] EXCEPT !.pc = "loaded", !.queue = disk.queue, !.dirty = TRUE]
              \in Procs
        BY ONLY <1>0, <2>1, PcTypes DEF Procs
      <4> QED
        BY <3>1, <4>1, PutTypes
    <3> QED
      BY <1>5, <3>1 DEF DaemonLoad
  <2> QED
    BY <1>5, <2>2 DEF DaemonLoad
<1>6. CASE DaemonReady(d)
  <2>1. /\ [daemon[d] EXCEPT !.pc = "run", !.ready = "yes"] \in Procs
        /\ [daemon[d] EXCEPT !.pc = "dead", !.lock = "none"] \in Procs
    BY ONLY <1>0, PcTypes DEF Procs
  <2>2. daemon' \in [Daemons -> Procs]
    BY <1>6, <2>1, PutTypes DEF DaemonReady
  <2> QED
    BY <1>6, <2>2 DEF DaemonReady
<1>7. CASE DaemonReadsCommand(d)
  <2>1. Orders \subseteq Commands
    BY DEF Orders, Disks, Commands
  <2>2. daemon' \in [Daemons -> Procs]
    <3>1. PICK cmd \in Commands :
             daemon' = [daemon EXCEPT ![d] = [@ EXCEPT !.pc = "final",
                                                       !.cmd = cmd]]
      BY <1>7, <2>1 DEF DaemonReadsCommand
    <3>2. [daemon[d] EXCEPT !.pc = "final", !.cmd = cmd] \in Procs
      BY ONLY <1>0, cmd \in Commands, PcTypes DEF Procs
    <3> QED
      BY <3>1, <3>2, PutTypes
  <2> QED
    BY <1>7, <2>2 DEF DaemonReadsCommand
<1>8. CASE DaemonIsDone(d)
  BY <1>8 DEF DaemonIsDone
<1>9. CASE DaemonSnapshot(d)
  <2>1. [daemon[d] EXCEPT !.pc = "write", !.snap = daemon[d].queue, !.dirty = FALSE]
          \in Procs
    BY ONLY <1>0, PcTypes DEF Procs
  <2>2. daemon' \in [Daemons -> Procs]
    BY <1>9, <2>1, PutTypes DEF DaemonSnapshot
  <2> QED
    BY <1>9, <2>2 DEF DaemonSnapshot
<1>10. CASE DaemonWrite(d)
  BY <1>1, <1>10 DEF DaemonWrite, Procs, Disks
<1>11. CASE DaemonEnds(d)
  <2>1. ASSUME NEW q \in Queues PROVE SkipPending(q) \in Queues
    BY <2>1 DEF SkipPending, Queues, JobStates
  <2>2. ASSUME NEW last \in Queues,
               daemon' = [daemon EXCEPT ![d] =
                             [@ EXCEPT !.pc = "finalwrite", !.queue = last,
                                       !.snap = last]]
        PROVE  daemon' \in [Daemons -> Procs]
    <3>1. [daemon[d] EXCEPT !.pc = "finalwrite", !.queue = last, !.snap = last] \in Procs
      BY ONLY <1>0, last \in Queues, PcTypes DEF Procs
    <3> QED
      BY <2>2, <3>1, PutTypes
  <2>3. daemon[d].queue \in Queues
    BY DEF Procs
  <2> QED
    BY <1>11, <2>1, <2>2, <2>3 DEF DaemonEnds
<1>12. CASE DaemonFinalWrite(d)
  BY <1>1, <1>12 DEF DaemonFinalWrite, Procs, Disks
<1>13. CASE DaemonUncommand(d)
  BY <1>13 DEF DaemonUncommand, Disks, Commands
<1>14. CASE DaemonUnlock(d)
  <2>1. [daemon[d] EXCEPT !.pc = "unlinklock", !.lock = "none"] \in Procs
    BY ONLY <1>0, PcTypes DEF Procs
  <2>2. daemon' \in [Daemons -> Procs]
    BY <1>14, <2>1, PutTypes DEF DaemonUnlock
  <2> QED
    BY <1>14, <2>2 DEF DaemonUnlock
<1>15. CASE DaemonUnlinkLock(d)
  BY <1>15 DEF DaemonUnlinkLock, Disks
<1>16. CASE DaemonUnlinkPid(d)
  BY <1>16 DEF DaemonUnlinkPid, Disks
<1> QED
  BY <1>2, <1>3, <1>4, <1>5, <1>6, <1>7, <1>8, <1>9, <1>10, <1>11, <1>12,
     <1>13, <1>14, <1>15, <1>16 DEF DaemonStep

(* The variables of both processes and the files keep their shape, with any*)
(* of the faults: no job gets a state queue.json has no word for.          *)
THEOREM HandoffTypes == Spec => []TypeOK
<1>1. TypeOK /\ [Next]_vars => TypeOK'
  <2>1. TypeOK /\ UNCHANGED vars => TypeOK'
    BY DEF TypeOK, vars
  <2> QED
    BY <2>1, AppStepTypes, UserTypes, WorkTypes, FailureTypes, DaemonTypes DEF Next
<1> QED
  BY <1>1, InitTypes, PTL DEF Spec

-----------------------------------------------------------------------------
(* Who is alive, and what the files say of it.                             *)

\* Where the application takes every daemon for dead.
NotRunning == {"cleanup", "import", "restore", "restored", "menu", "save",
               "uncommand", "fork", "failed"}
\* Where daemon.pid is not yet the daemon's.
Early == {"boot", "pid", "pidopen"}

\* One daemon at most is alive, and the application is not at work beside it;
\* a daemon that starts is watched, or its parent has died.
OneProcess ==
    /\ \A d, e \in Daemons : Alive(d) /\ Alive(e) => d = e
    /\ \A d \in Daemons : Alive(d) => app.pc \notin NotRunning
    /\ \A d \in Daemons : Starting(d) =>
           app.pc = "off" \/ (app.pc = "launching" /\ app.child = d)
    /\ app.pc = "launching" =>
           app.child \in Daemons /\ \A d \in Daemons : Alive(d) => d = app.child
\* daemon.pid is that of the live daemon.
PidFile ==
    /\ \A d \in Daemons : Alive(d) /\ daemon[d].pc \notin Early => disk.pid = d
    /\ \A d \in Daemons : daemon[d].pc = "pidopen" => disk.pid = "empty"
    /\ app.pc = "cleanup" => app.then \in {"import", "restore", "status"}
\* The byte in the pipe to the parent.
Reports ==
    /\ \A d \in Daemons : Starting(d) \/ daemon[d].pc = "none" => daemon[d].ready = "none"
    /\ \A d \in Daemons : daemon[d].ready = "no" => ~Alive(d)
    /\ \A d \in Daemons : Alive(d) /\ ~Starting(d) => daemon[d].ready = "yes"

Ownership == OneProcess /\ PidFile /\ Reports

(* No process, no pid file, no report at first.                            *)
LEMMA InitOwnership == Init => Ownership
BY NamesAssumption DEF Init, AppOff, NewDaemon, Ownership, OneProcess, PidFile,
   Reports, NotRunning,
   Early, Alive, Starting

(* Whoever is told that no daemon runs, is told so because none is alive.  *)
LEMMA IsRunningOwnership ==
    ASSUME TypeOK, Ownership, app.pc \notin {"off", "launching"},
           NEW yes \in {"request", "wait", "recheck", "status", "stopwait", "off"},
           NEW no \in {"import", "restore", "status"}, IsRunning(yes, no)
    PROVE  Ownership'
<1> USE TypeParts DEF Ownership
<1>1. ~PidAnswers => \A d \in Daemons : ~Alive(d)
  BY DEF OneProcess, PidFile, PidAnswers, Early, Starting
<1>2. OneProcess'
  BY <1>1 DEF IsRunning, OneProcess, Alive, Starting, NotRunning, Apps
<1>3. PidFile' /\ Reports'
  BY <1>1 DEF IsRunning, PidFile, Reports, Alive, Starting, Early, NotRunning, Apps
<1> QED
  BY <1>2, <1>3

(* The application removes or writes files only while no daemon is alive.  *)
LEMMA AppStepOwnership ==
    ASSUME TypeOK, Ownership, AppStep
    PROVE  Ownership'
<1> USE TypeParts DEF Ownership
<1> USE DEF OneProcess, PidFile, Reports, Alive, Starting, Early, NotRunning, Apps
<1>1. CASE CheckDaemon
  BY ONLY <1>1, TypeOK, Ownership, IsRunningOwnership DEF CheckDaemon
<1>2. CASE Cleanup
  BY <1>2 DEF Cleanup, AppGoto, Cleaned
<1>3. CASE RequestHandoff
  BY <1>3 DEF RequestHandoff, AppGoto, Disks
<1>4. CASE WaitForHandoff
  BY ONLY <1>4, TypeOK, Ownership, IsRunningOwnership DEF WaitForHandoff
<1>5. CASE RecheckDaemon
  BY ONLY <1>5, TypeOK, Ownership, IsRunningOwnership DEF RecheckDaemon
<1>6. CASE WaitForStop
  BY ONLY <1>6, TypeOK, Ownership, IsRunningOwnership DEF WaitForStop
<1>7. CASE RestoreQueue
  BY <1>7 DEF RestoreQueue
<1>8. CASE CleanupAll
  BY <1>8 DEF CleanupAll, AppGoto
<1>9. CASE LaunchSave
  BY <1>9 DEF LaunchSave, AppGoto, Disks
<1>10. CASE LaunchUncommand
  BY <1>10 DEF LaunchUncommand, AppGoto, Disks
<1>11. CASE LaunchFork
  <2>1. CASE AppGoto("failed") /\ UNCHANGED daemon
    BY <1>11, <2>1 DEF LaunchFork, AppGoto
  <2>2. ASSUME NEW d \in Daemons, daemon[d].pc = "none", DaemonGoto(d, "boot"),
               app' = [app EXCEPT !.pc = "launching", !.child = d]
        PROVE  Ownership'
    <3>1. /\ daemon'[d].pc = "boot" /\ daemon'[d].ready = daemon[d].ready
          /\ \A e \in Daemons : e # d => daemon'[e] = daemon[e]
      BY ONLY <2>2, GotoEffect, TypeOK
    <3>2. /\ app'.pc = "launching" /\ app'.child = d
          /\ disk' = disk
      BY <1>11, <2>2 DEF LaunchFork
    <3>3. \A e \in Daemons : ~Alive(e)
      BY <1>11 DEF LaunchFork
    <3>4. daemon[d].ready = "none"
      BY <2>2
    <3>5. OneProcess'
      BY ONLY <3>1, <3>2, <3>3, <2>2 DEF OneProcess, Alive, Starting, NotRunning
    <3>6. PidFile'
      BY ONLY <3>1, <3>2, <3>3 DEF PidFile, Alive, Early
    <3>7. Reports'
      BY ONLY <3>1, <3>4, Reports DEF Reports, Alive, Starting
    <3> QED
      BY ONLY <3>5, <3>6, <3>7 DEF Ownership
  <2> QED
    BY ONLY <1>11, <2>1, <2>2 DEF LaunchFork
<1>12. CASE LaunchReady
  BY <1>12 DEF LaunchReady, AppOff
<1>13. CASE LaunchNotReady
  BY <1>13 DEF LaunchNotReady, AppGoto
<1>14. CASE LaunchFailed
  BY <1>14 DEF LaunchFailed, CleanedAll, Cleaned
<1> QED
  BY ONLY <1>1, <1>2, <1>3, <1>4, <1>5, <1>6, <1>7, <1>8, <1>9, <1>10, <1>11,
     <1>12, <1>13, <1>14, AppStep DEF AppStep

(* It is started again only when no daemon is in the middle of its start.  *)
LEMMA UserOwnership ==
    ASSUME TypeOK, Ownership, User, "slow_orphan" \notin Faults
    PROVE  Ownership'
<1> USE TypeParts DEF Ownership
<1> USE DEF OneProcess, PidFile, Reports, Alive, Starting, Early, NotRunning, Apps
<1>1. CASE StartApp
  BY <1>1 DEF StartApp, AppOff
<1>2. CASE RequestStop
  BY <1>2 DEF RequestStop, Disks
<1>3. CASE LeaveStatus
  BY ONLY <1>3, TypeOK, Ownership, IsRunningOwnership DEF LeaveStatus
<1>4. CASE QuitApp
  BY <1>4 DEF QuitApp, AppOff
<1>5. CASE QuitToBackground
  BY <1>5 DEF QuitToBackground, AppGoto
<1>6. ASSUME NEW j \in Jobs, AddJob(j) PROVE Ownership'
  BY <1>6 DEF AddJob
<1> QED
  BY ONLY <1>1, <1>2, <1>3, <1>4, <1>5, <1>6, User DEF User

(* Work is no matter of ownership.                                         *)
LEMMA WorkOwnership ==
    ASSUME TypeOK, Ownership, Work
    PROVE  Ownership'
<1> USE TypeParts DEF Ownership
<1> USE DEF OneProcess, PidFile, Reports, Alive, Starting, Early, NotRunning, Apps
<1>1. ASSUME NEW j \in Jobs, AppFinishes(j) PROVE Ownership'
  BY <1>1 DEF AppFinishes
<1>2. ASSUME NEW j \in Jobs, NEW d \in Daemons, DaemonFinishes(d, j) PROVE Ownership'
  BY <1>2 DEF DaemonFinishes, Procs
<1> QED
  BY <1>1, <1>2 DEF Work

(* A dead process frees its place, and a reused pid gives nobody one.      *)
LEMMA FailureOwnership ==
    ASSUME TypeOK, Ownership, Failure
    PROVE  Ownership'
<1> USE TypeParts DEF Ownership
<1> USE DEF OneProcess, PidFile, Reports, Alive, Starting, Early, NotRunning, Apps
<1>1. CASE AppCrash
  BY <1>1 DEF AppCrash, AppOff
<1>2. ASSUME NEW d \in Daemons, DaemonCrash(d) PROVE Ownership'
  BY <1>2 DEF DaemonCrash, Procs
<1>3. ASSUME NEW d \in Daemons, PidReused(d) PROVE Ownership'
  BY <1>3 DEF PidReused
<1> QED
  BY <1>1, <1>2, <1>3 DEF Failure

(* A daemon that refuses is dead, and has said no.                         *)
LEMMA RefusesOwnership ==
    ASSUME TypeOK, Ownership, NEW d \in Daemons, Refuses(d), UNCHANGED <<app, disk>>
    PROVE  Ownership'
<1> USE DEF Ownership, OneProcess, PidFile, Reports, Alive, Starting, Early,
NotRunning
<1>1. /\ daemon'[d].pc = "dead" /\ daemon'[d].ready = "no"
      /\ \A e \in Daemons : e # d => daemon'[e] = daemon[e]
  BY TypeParts DEF Refuses, Procs
<1>2. OneProcess'
  BY <1>1
<1>3. PidFile' /\ Reports'
  BY <1>1
<1> QED
  BY <1>2, <1>3

(* A daemon writes daemon.pid before it loads, and removes it as it exits. *)
LEMMA DaemonOwnership ==
    ASSUME TypeOK, Ownership, NEW d \in Daemons, DaemonStep(d), "disk_full" \notin Faults
    PROVE  Ownership'
<1> USE TypeParts DEF Ownership
<1> USE DEF OneProcess, PidFile, Reports, Alive, Starting, Early, NotRunning, Procs
<1>1. CASE DaemonLock(d)
  <2>1. CASE /\ disk' = [disk EXCEPT !.lock = LockFile(d)]
             /\ daemon' = [daemon EXCEPT ![d] =
                              [@ EXCEPT !.pc = "pid", !.lock = LockFile(d)]]
    <3>1. /\ daemon'[d].pc = "pid" /\ daemon'[d].ready = daemon[d].ready
          /\ \A e \in Daemons : e # d => daemon'[e] = daemon[e]
          /\ disk'.pid = disk.pid /\ app' = app
      BY <1>1, <2>1 DEF DaemonLock, Disks
    <3> QED
      BY <1>1, <3>1 DEF DaemonLock
  <2> QED
    BY ONLY <1>1, <2>1, RefusesOwnership, TypeOK, Ownership DEF DaemonLock
<1>2. CASE DaemonOpenPid(d)
  BY <1>2 DEF DaemonOpenPid, Unwritten, DaemonGoto, Disks
<1>3. CASE DaemonWritePid(d)
  BY <1>3 DEF DaemonWritePid, Unwritten, DaemonGoto, Disks
<1>4. CASE DaemonLoad(d)
  <2>1. CASE daemon' = [daemon EXCEPT ![d] =
                          [@ EXCEPT !.pc = "loaded", !.queue = disk.queue,
                                    !.dirty = TRUE]]
    <3>1. /\ daemon'[d].pc = "loaded" /\ daemon'[d].ready = daemon[d].ready
          /\ \A e \in Daemons : e # d => daemon'[e] = daemon[e]
          /\ disk' = disk /\ app' = app
      BY <1>4, <2>1 DEF DaemonLoad
    <3> QED
      BY <1>4, <3>1 DEF DaemonLoad
  <2> QED
    BY ONLY <1>4, <2>1, RefusesOwnership, TypeOK, Ownership DEF DaemonLoad
<1>5. CASE DaemonReady(d)
  BY <1>5 DEF DaemonReady
<1>6. CASE DaemonReadsCommand(d)
  <2>1. /\ daemon'[d].pc = "final" /\ daemon'[d].ready = daemon[d].ready
        /\ \A e \in Daemons : e # d => daemon'[e] = daemon[e]
    BY <1>6 DEF DaemonReadsCommand
  <2> QED
    BY <1>6, <2>1 DEF DaemonReadsCommand
<1>7. CASE DaemonIsDone(d)
  BY <1>7 DEF DaemonIsDone, DaemonGoto
<1>8. CASE DaemonSnapshot(d)
  BY <1>8 DEF DaemonSnapshot
<1>9. CASE DaemonWrite(d)
  BY <1>9 DEF DaemonWrite, DaemonGoto, Disks
<1>10. CASE DaemonEnds(d)
  BY <1>10 DEF DaemonEnds
<1>11. CASE DaemonFinalWrite(d)
  BY <1>11 DEF DaemonFinalWrite, DaemonGoto, Disks
<1>12. CASE DaemonUncommand(d)
  BY <1>12 DEF DaemonUncommand, DaemonGoto, Disks
<1>13. CASE DaemonUnlock(d)
  BY <1>13 DEF DaemonUnlock
<1>14. CASE DaemonUnlinkLock(d)
  BY <1>14 DEF DaemonUnlinkLock, DaemonGoto, Disks
<1>15. CASE DaemonUnlinkPid(d)
  BY <1>15 DEF DaemonUnlinkPid, DaemonGoto, Disks
<1> QED
  BY ONLY <1>1, <1>2, <1>3, <1>4, <1>5, <1>6, <1>7, <1>8, <1>9, <1>10, <1>11,
     <1>12, <1>13, <1>14, <1>15, DaemonStep(d) DEF DaemonStep

-----------------------------------------------------------------------------
(* Who knows which jobs.                                                   *)

\* Two lists of the same jobs, in whatever state each is.
SameJobs(q, r) == \A j \in Jobs : q[j] = "absent" <=> r[j] = "absent"
\* Where the application has no list of its own.
Without == {"off", "check", "cleanup", "request", "wait", "recheck", "status",
            "stopwait", "import", "restore"}

\* What queue.json has of the application's jobs.
AppJobs ==
    /\ app.pc \in Without => app.queue = NoQueue
    /\ app.pc \in {"menu", "save"} => disk.queue = NoQueue
    /\ app.pc \in {"uncommand", "fork"} => disk.queue = app.queue
    /\ app.pc = "launching" => SameJobs(disk.queue, app.queue)
    /\ app.pc = "launching" /\ daemon[app.child].ready # "yes" => disk.queue = app.queue
    /\ app.pc \in {"restored", "failed"} =>
           \A j \in Jobs : disk.queue[j] # "absent" => app.queue[j] # "absent"
HoldsJobs(d) == daemon[d].pc \in {"loaded", "run", "write", "final", "finalwrite"}
\* What queue.json has of a daemon's jobs, and its snapshot of them.
DaemonJobs ==
    /\ \A d \in Daemons : HoldsJobs(d) => SameJobs(daemon[d].queue, disk.queue)
    /\ \A d \in Daemons : daemon[d].pc \in {"write", "finalwrite"} =>
           SameJobs(daemon[d].snap, disk.queue)
    /\ \A d \in Daemons : daemon[d].pc = "finalwrite" => daemon[d].snap = daemon[d].queue

JobsKept == AppJobs /\ DaemonJobs

(* There are no jobs at first.                                             *)
LEMMA InitJobs == Init => JobsKept
BY DEF Init, AppOff, NewDaemon, JobsKept, AppJobs, DaemonJobs, HoldsJobs, Without

(* The daemons and queue.json as before.                                   *)
LEMMA SameDaemons ==
    ASSUME DaemonJobs, daemon' = daemon, disk'.queue = disk.queue
    PROVE  DaemonJobs'
BY DEF DaemonJobs, HoldsJobs, SameJobs

(* Asking for the daemon changes no list.                                  *)
LEMMA IsRunningJobs ==
    ASSUME TypeOK, JobsKept, app.pc \in Without,
           NEW yes \in Without, NEW no \in Without, IsRunning(yes, no)
    PROVE  JobsKept'
<1>1. /\ app'.pc \in Without /\ app'.queue = app.queue
      /\ daemon' = daemon /\ disk' = disk
  BY TypeParts DEF IsRunning, Apps, Without
<1> QED
  BY <1>1 DEF JobsKept, AppJobs, DaemonJobs, HoldsJobs, Without, SameJobs

(* The application writes queue.json before a launch, and removes it when  *)
(* it has the jobs itself.                                                 *)
LEMMA AppStepJobs ==
    ASSUME TypeOK, Ownership, JobsKept, "disk_full" \notin Faults, AppStep
    PROVE  JobsKept'
<1> USE TypeParts, IsRunningJobs DEF JobsKept, AppJobs, DaemonJobs, Without, Apps
<1>1. ASSUME daemon' = daemon, disk'.queue = disk.queue PROVE DaemonJobs'
  BY ONLY <1>1, JobsKept, SameDaemons DEF JobsKept
<1>2. ASSUME app.pc \in NotRunning, UNCHANGED daemon PROVE DaemonJobs'
  <2>1. \A d \in Daemons : ~HoldsJobs(d) /\ daemon[d].pc # "write"
    BY <1>2 DEF Ownership, OneProcess, Alive, HoldsJobs
  <2> QED
    BY <1>2, <2>1 DEF HoldsJobs
<1>3. CASE CheckDaemon
  BY <1>3 DEF CheckDaemon
<1>4. CASE Cleanup
  BY <1>2, <1>4 DEF Cleanup, AppGoto, Cleaned, Ownership, PidFile, NotRunning, Disks
<1>5. CASE RequestHandoff
  <2>1. /\ daemon' = daemon /\ disk'.queue = disk.queue
        /\ app'.queue = app.queue /\ app'.pc \in Without
    BY <1>5 DEF RequestHandoff, AppGoto, Disks
  <2> QED
    BY <1>1, <1>5, <2>1 DEF RequestHandoff
<1>6. CASE WaitForHandoff
  BY <1>6 DEF WaitForHandoff
<1>7. CASE RecheckDaemon
  BY <1>7 DEF RecheckDaemon
<1>8. CASE WaitForStop
  BY <1>8 DEF WaitForStop
<1>9. CASE RestoreQueue
  BY <1>1, <1>9 DEF RestoreQueue
<1>10. CASE CleanupAll
  BY <1>2, <1>10 DEF CleanupAll, CleanedAll, Cleaned, AppGoto, NotRunning, Disks
<1>11. CASE LaunchSave
  BY <1>2, <1>11 DEF LaunchSave, AppGoto, Torn, NotRunning, NoQueue, Disks
<1>12. CASE LaunchUncommand
  BY <1>2, <1>12 DEF LaunchUncommand, AppGoto, NotRunning, Disks
<1>13. CASE LaunchFork
  <2>1. CASE AppGoto("failed") /\ UNCHANGED daemon
    BY <1>1, <1>13, <2>1 DEF LaunchFork, AppGoto
  <2>2. ASSUME NEW d \in Daemons, daemon[d].pc = "none", DaemonGoto(d, "boot"),
               app' = [app EXCEPT !.pc = "launching", !.child = d]
        PROVE  JobsKept'
    <3>1. /\ daemon'[d].pc = "boot"
          /\ \A e \in Daemons : e # d => daemon'[e] = daemon[e]
      BY ONLY <2>2, GotoEffect, TypeOK
    <3>2. /\ app'.pc = "launching" /\ app'.queue = app.queue /\ disk' = disk
          /\ app.pc = "fork"
      BY <1>13, <2>2 DEF LaunchFork
    <3>3. AppJobs'
      BY <3>2 DEF SameJobs
    <3>4. DaemonJobs'
      BY <3>1, <3>2 DEF HoldsJobs, SameJobs
    <3> QED
      BY <3>3, <3>4
  <2> QED
    BY ONLY <1>13, <2>1, <2>2 DEF LaunchFork
<1>14. CASE LaunchReady
  BY <1>1, <1>14 DEF LaunchReady, AppOff
<1>15. CASE LaunchNotReady
  BY <1>1, <1>15 DEF LaunchNotReady, AppGoto
<1>16. CASE LaunchFailed
  BY <1>2, <1>16 DEF LaunchFailed, CleanedAll, Cleaned, NotRunning, Disks
<1> QED
  BY ONLY <1>3, <1>4, <1>5, <1>6, <1>7, <1>8, <1>9, <1>10, <1>11, <1>12, <1>13,
     <1>14, <1>15, <1>16, AppStep DEF AppStep

(* New jobs are the application's until it launches a daemon.              *)
LEMMA UserJobs ==
    ASSUME TypeOK, Ownership, JobsKept, User
    PROVE  JobsKept'
<1> USE TypeParts, IsRunningJobs DEF JobsKept, AppJobs, DaemonJobs, Without, Apps
<1>1. ASSUME daemon' = daemon, disk'.queue = disk.queue PROVE DaemonJobs'
  BY ONLY <1>1, JobsKept, SameDaemons DEF JobsKept
<1>2. CASE StartApp
  BY <1>1, <1>2 DEF StartApp, AppOff
<1>3. CASE RequestStop
  <2>1. /\ daemon' = daemon /\ disk'.queue = disk.queue
        /\ app'.queue = app.queue /\ app'.pc \in Without
    BY <1>3 DEF RequestStop, Disks
  <2> QED
    BY <1>1, <1>3, <2>1 DEF RequestStop
<1>4. CASE LeaveStatus
  BY <1>4 DEF LeaveStatus
<1>5. CASE QuitApp
  BY <1>1, <1>5 DEF QuitApp, AppOff
<1>6. CASE QuitToBackground
  BY <1>1, <1>6 DEF QuitToBackground, AppGoto
<1>7. ASSUME NEW j \in Jobs, AddJob(j) PROVE JobsKept'
  BY <1>1, <1>7 DEF AddJob
<1> QED
  BY ONLY <1>2, <1>3, <1>4, <1>5, <1>6, <1>7, User DEF User

(* A finished job is still a job.                                          *)
LEMMA WorkJobs ==
    ASSUME TypeOK, Ownership, JobsKept, Work
    PROVE  JobsKept'
<1> USE TypeParts DEF JobsKept
<1>1. ASSUME NEW j \in Jobs, AppFinishes(j) PROVE JobsKept'
  <2>1. DaemonJobs'
    BY <1>1 DEF AppFinishes, DaemonJobs, HoldsJobs, SameJobs
  <2>2. AppJobs'
    BY <1>1 DEF AppFinishes, AppWorks, AppJobs, Apps, Queues, Without
  <2> QED
    BY <2>1, <2>2
<1>2. ASSUME NEW j \in Jobs, NEW d \in Daemons, DaemonFinishes(d, j) PROVE JobsKept'
  <2>1. /\ \A e \in Daemons : daemon'[e].pc = daemon[e].pc /\
               daemon'[e].ready = daemon[e].ready /\ daemon'[e].snap = daemon[e].snap
        /\ \A e \in Daemons : e # d => daemon'[e] = daemon[e]
        /\ daemon'[d].queue = [daemon[d].queue EXCEPT ![j] = "finished"]
        /\ daemon[d].queue \in Queues
        /\ daemon[d].queue[j] = "pending"
        /\ daemon[d].pc \in {"loaded", "run", "write", "final"}
        /\ app' = app /\ disk' = disk
    BY <1>2 DEF DaemonFinishes, DaemonWorks, Procs
  <2>2. SameJobs(daemon'[d].queue, daemon[d].queue)
    BY <2>1 DEF SameJobs, Queues
  <2>3. DaemonJobs'
    <3>1. ASSUME NEW e \in Daemons, HoldsJobs(e)'
          PROVE  SameJobs(daemon[e].queue, disk.queue)'
      <4>1. SameJobs(daemon'[e].queue, daemon[e].queue)
        BY <2>1, <2>2 DEF SameJobs
      <4>2. SameJobs(daemon[e].queue, disk.queue)
        BY <2>1, <3>1 DEF DaemonJobs, HoldsJobs
      <4> QED
        BY <2>1, <4>1, <4>2 DEF SameJobs
    <3>2. ASSUME NEW e \in Daemons, daemon'[e].pc \in {"write", "finalwrite"}
          PROVE  SameJobs(daemon[e].snap, disk.queue)'
      BY <2>1, <3>2 DEF DaemonJobs, SameJobs
    <3>3. ASSUME NEW e \in Daemons, daemon'[e].pc = "finalwrite"
          PROVE  daemon'[e].snap = daemon'[e].queue
      BY <2>1, <3>3 DEF DaemonJobs
    <3> QED
      BY <3>1, <3>2, <3>3 DEF DaemonJobs
  <2>4. AppJobs'
    BY <2>1 DEF AppJobs, SameJobs, Ownership, OneProcess
  <2> QED
    BY <2>3, <2>4
<1> QED
  BY <1>1, <1>2 DEF Work

(* What a dead process knew is in queue.json.                              *)
LEMMA FailureJobs ==
    ASSUME TypeOK, Ownership, JobsKept, Failure
    PROVE  JobsKept'
<1> USE TypeParts DEF JobsKept
<1>1. CASE AppCrash
  BY <1>1 DEF AppCrash, AppOff, AppJobs, DaemonJobs, HoldsJobs, SameJobs
<1>2. ASSUME NEW d \in Daemons, DaemonCrash(d) PROVE JobsKept'
  <2>1. /\ daemon'[d].pc = "dead" /\ daemon'[d].ready = daemon[d].ready
        /\ \A e \in Daemons : e # d => daemon'[e] = daemon[e]
        /\ app' = app /\ disk' = disk
    BY <1>2 DEF DaemonCrash, Procs
  <2>2. DaemonJobs'
    BY <2>1 DEF DaemonJobs, HoldsJobs, SameJobs
  <2>3. AppJobs'
    BY <2>1 DEF AppJobs, SameJobs, Ownership, OneProcess
  <2> QED
    BY <2>2, <2>3
<1>3. ASSUME NEW d \in Daemons, PidReused(d) PROVE JobsKept'
  BY <1>3 DEF PidReused, AppJobs, DaemonJobs, HoldsJobs, SameJobs
<1> QED
  BY <1>1, <1>2, <1>3 DEF Failure

(* A daemon that moves on with what it has.                                *)
LEMMA DaemonMoves ==
    ASSUME TypeOK, Ownership, JobsKept, NEW d \in Daemons,
           app' = app, disk'.queue = disk.queue,
           \A e \in Daemons : e # d => daemon'[e] = daemon[e],
           HoldsJobs(d)' => HoldsJobs(d) /\ daemon'[d].queue = daemon[d].queue,
           daemon'[d].pc \notin {"write", "finalwrite"},
           daemon[d].ready = "yes" => daemon'[d].ready = "yes"
    PROVE  JobsKept'
<1>1. DaemonJobs'
  BY DEF JobsKept, DaemonJobs, HoldsJobs, SameJobs
<1>2. AppJobs'
  BY DEF JobsKept, AppJobs, SameJobs, Ownership, OneProcess
<1> QED
  BY <1>1, <1>2 DEF JobsKept

(* A daemon that reported ready is alone with its list and the file.       *)
LEMMA DaemonWritesJobs ==
    ASSUME TypeOK, Ownership, JobsKept, NEW d \in Daemons,
           Alive(d), ~Starting(d), app' = app,
           SameJobs(disk'.queue, disk.queue),
           \A e \in Daemons : e # d => daemon'[e] = daemon[e],
           HoldsJobs(d)' => SameJobs(daemon'[d].queue, disk'.queue),
           daemon'[d].pc \in {"write", "finalwrite"} => SameJobs(daemon'[d].snap,
           disk'.queue),
           daemon'[d].pc = "finalwrite" => daemon'[d].snap = daemon'[d].queue,
           daemon'[d].ready = daemon[d].ready
    PROVE  JobsKept'
<1>1. \A e \in Daemons : e # d => ~Alive(e)
  BY DEF Ownership, OneProcess
<1>2. app.pc \notin NotRunning /\ (app.pc = "launching" => app.child = d)
  BY DEF Ownership, OneProcess
<1>3. daemon[d].ready = "yes"
  BY DEF Ownership, Reports
<1>4. DaemonJobs'
  <2>1. \A e \in Daemons : e # d =>
            ~HoldsJobs(e)' /\ daemon'[e].pc \notin {"write", "finalwrite"}
    BY <1>1 DEF Alive, HoldsJobs
  <2> QED
    BY <2>1 DEF DaemonJobs
<1>5. AppJobs'
  BY <1>2, <1>3 DEF JobsKept, AppJobs, SameJobs, NotRunning
<1> QED
  BY <1>4, <1>5 DEF JobsKept

(* A daemon loads, snapshots and writes one set of jobs.                   *)
LEMMA DaemonStepJobs ==
    ASSUME TypeOK, Ownership, JobsKept, "disk_full" \notin Faults,
           NEW d \in Daemons, DaemonStep(d)
    PROVE  JobsKept'
<1> USE TypeParts, DaemonMoves DEF Procs, HoldsJobs
<1>1. ASSUME Refuses(d), UNCHANGED <<app, disk>>, daemon[d].ready = "none" PROVE JobsKept'
  <2>1. /\ daemon'[d].pc = "dead"
        /\ \A e \in Daemons : e # d => daemon'[e] = daemon[e]
    BY <1>1 DEF Refuses
  <2> QED
    BY <1>1, <2>1
<1>2. daemon[d].pc \in {"boot", "load"} => daemon[d].ready = "none"
  BY DEF Ownership, Reports, Starting
<1>3. ASSUME daemon[d].pc \in {"run", "write", "final", "finalwrite"}
      PROVE  Alive(d) /\ ~Starting(d)
  BY <1>3 DEF Alive, Starting
<1>4. \A q, r, s \in Queues : SameJobs(q, r) /\ SameJobs(r, s) => SameJobs(q, s)
  BY DEF SameJobs
<1>5. CASE DaemonLock(d)
  <2>1. CASE /\ disk' = [disk EXCEPT !.lock = LockFile(d)]
             /\ daemon' = [daemon EXCEPT ![d] =
                              [@ EXCEPT !.pc = "pid", !.lock = LockFile(d)]]
    BY <1>5, <2>1 DEF DaemonLock, Disks
  <2> QED
    BY <1>1, <1>2, <1>5, <2>1 DEF DaemonLock
<1>6. CASE DaemonOpenPid(d)
  BY <1>6 DEF DaemonOpenPid, DaemonGoto, Disks
<1>7. CASE DaemonWritePid(d)
  BY <1>7 DEF DaemonWritePid, DaemonGoto, Disks
<1>8. CASE DaemonLoad(d)
  <2>1. CASE daemon' = [daemon EXCEPT ![d] =
                          [@ EXCEPT !.pc = "loaded", !.queue = disk.queue,
                                    !.dirty = TRUE]]
    <3>1. /\ daemon'[d].pc = "loaded" /\ daemon'[d].ready = daemon[d].ready
          /\ daemon'[d].queue = disk.queue
          /\ \A e \in Daemons : e # d => daemon'[e] = daemon[e]
          /\ disk' = disk /\ app' = app
      BY <1>8, <2>1 DEF DaemonLoad
    <3>2. DaemonJobs'
      BY <3>1 DEF JobsKept, DaemonJobs, SameJobs
    <3>3. AppJobs'
      BY <3>1 DEF JobsKept, AppJobs, SameJobs, Ownership, OneProcess
    <3> QED
      BY <3>2, <3>3 DEF JobsKept
  <2> QED
    BY <1>1, <1>2, <1>8, <2>1 DEF DaemonLoad
<1>9. CASE DaemonReady(d)
  BY <1>9 DEF DaemonReady
<1>10. CASE DaemonReadsCommand(d)
  BY <1>10 DEF DaemonReadsCommand
<1>11. CASE DaemonIsDone(d)
  BY <1>11 DEF DaemonIsDone, DaemonGoto
<1>12. CASE DaemonSnapshot(d)
  <2>1. /\ daemon'[d].pc = "write" /\ daemon'[d].snap = daemon[d].queue
        /\ daemon'[d].queue = daemon[d].queue /\ daemon'[d].ready = daemon[d].ready
        /\ \A e \in Daemons : e # d => daemon'[e] = daemon[e]
        /\ app' = app /\ disk' = disk /\ daemon[d].pc = "run"
    BY <1>12 DEF DaemonSnapshot
  <2>2. SameJobs(daemon[d].queue, disk.queue) /\ SameJobs(disk.queue, disk.queue)
    BY <2>1 DEF JobsKept, DaemonJobs, SameJobs
  <2> QED
    BY <1>3, <2>1, <2>2, DaemonWritesJobs
<1>13. ASSUME daemon[d].pc \in {"write", "finalwrite"}, NEW q \in Saved(daemon[d].snap)
      PROVE  SameJobs(q, disk.queue) /\ SameJobs(daemon[d].queue, q)
  BY <1>13 DEF Saved, Torn, JobsKept, DaemonJobs, SameJobs
<1>14. CASE DaemonWrite(d)
  <2>1. /\ daemon'[d].pc = "run" /\ daemon'[d].queue = daemon[d].queue
        /\ daemon'[d].ready = daemon[d].ready
        /\ \A e \in Daemons : e # d => daemon'[e] = daemon[e]
        /\ app' = app /\ daemon[d].pc = "write"
        /\ disk'.queue \in Saved(daemon[d].snap)
    BY <1>14 DEF DaemonWrite, DaemonGoto, Disks
  <2> QED
    BY <1>3, <1>13, <2>1, DaemonWritesJobs
<1>15. CASE DaemonEnds(d)
  <2> DEFINE q == daemon[d].queue
             last == IF daemon[d].cmd = "stop" THEN SkipPending(q) ELSE q
  <2>1. /\ daemon'[d].pc = "finalwrite" /\ daemon'[d].queue = last
        /\ daemon'[d].snap = last /\ daemon'[d].ready = daemon[d].ready
        /\ \A e \in Daemons : e # d => daemon'[e] = daemon[e]
        /\ app' = app /\ disk' = disk /\ daemon[d].pc = "final"
    BY <1>15 DEF DaemonEnds
  <2>2. SameJobs(q, disk.queue) /\ SameJobs(disk.queue, disk.queue)
    BY <2>1 DEF JobsKept, DaemonJobs, SameJobs
  <2>3. SameJobs(last, disk.queue)
    BY <2>2 DEF SkipPending, SameJobs
  <2> QED
    BY <1>3, <2>1, <2>2, <2>3, DaemonWritesJobs
<1>16. CASE DaemonFinalWrite(d)
  <2>1. /\ daemon'[d].pc = "uncommand"
        /\ daemon'[d].ready = daemon[d].ready
        /\ \A e \in Daemons : e # d => daemon'[e] = daemon[e]
        /\ app' = app /\ daemon[d].pc = "finalwrite"
        /\ disk'.queue \in Saved(daemon[d].snap)
    BY <1>16 DEF DaemonFinalWrite, DaemonGoto, Disks
  <2> QED
    BY <1>3, <1>13, <2>1, DaemonWritesJobs
<1>17. CASE DaemonUncommand(d)
  BY <1>17 DEF DaemonUncommand, DaemonGoto, Disks
<1>18. CASE DaemonUnlock(d)
  BY <1>18 DEF DaemonUnlock
<1>19. CASE DaemonUnlinkLock(d)
  BY <1>19 DEF DaemonUnlinkLock, DaemonGoto, Disks
<1>20. CASE DaemonUnlinkPid(d)
  BY <1>20 DEF DaemonUnlinkPid, DaemonGoto, Disks
<1> QED
  BY ONLY <1>5, <1>6, <1>7, <1>8, <1>9, <1>10, <1>11, <1>12, <1>14, <1>15, <1>16,
     <1>17, <1>18, <1>19, <1>20, DaemonStep(d) DEF DaemonStep

-----------------------------------------------------------------------------
\* The inductive invariant.
Inv == TypeOK /\ Ownership /\ JobsKept

\* Anything may fail but the two ways in which the code loses its way: a parent
\* killed during a launch, and a disk that is full without an error.
FaultsCovered == {"slow_orphan", "disk_full"} \intersect Faults = {}

(* Every step keeps the invariant.                                         *)
LEMMA InvStep == ASSUME Inv, [Next]_vars, FaultsCovered PROVE Inv'
<1> USE DEF Inv, FaultsCovered
<1>1. CASE UNCHANGED vars
  <2>1. app' = app /\ daemon' = daemon /\ disk' = disk /\ reused' = reused
    BY <1>1 DEF vars
  <2>2. TypeOK'
    BY <2>1 DEF TypeOK
  <2>3. Ownership'
    BY <2>1 DEF Ownership, OneProcess, PidFile, Reports, Alive, Starting, Early,
       NotRunning
  <2>4. JobsKept'
    BY <2>1 DEF JobsKept, AppJobs, DaemonJobs, HoldsJobs, SameJobs
  <2> QED
    BY <2>2, <2>3, <2>4
<1>2. CASE AppStep
  BY <1>2, AppStepTypes, AppStepOwnership, AppStepJobs
<1>3. CASE User
  BY <1>3, UserTypes, UserOwnership, UserJobs
<1>4. CASE Work
  BY <1>4, WorkTypes, WorkOwnership, WorkJobs
<1>5. CASE Failure
  BY <1>5, FailureTypes, FailureOwnership, FailureJobs
<1>6. ASSUME NEW d \in Daemons, DaemonStep(d) PROVE Inv'
  BY <1>6, DaemonTypes, DaemonOwnership, DaemonStepJobs
<1> QED
  BY <1>1, <1>2, <1>3, <1>4, <1>5, <1>6 DEF Next

(* The invariant holds, whoever is killed when.                            *)
THEOREM HandoffIsSafe == ASSUME FaultsCovered PROVE Spec => []Inv
<1>1. Init => Inv
  BY InitTypes, InitOwnership, InitJobs DEF Inv
<1>2. Inv /\ [Next]_vars => Inv'
  BY InvStep
<1> QED
  BY <1>1, <1>2, PTL DEF Spec

(* OneOwner, for daemon.pid and the order of its writes: never two daemons,*)
(* or a daemon beside the application, work on one queue.                  *)
THEOREM QueueHasOneOwner == ASSUME FaultsCovered PROVE Spec => []OneOwner
<1>1. Inv => OneOwner
  BY DEF Inv, OneOwner, Ownership, OneProcess, DaemonOwns, Alive, AppWorks,
     NotRunning
<1> QED
  BY <1>1, HandoffIsSafe, PTL

(* OwnerIsSeen: daemon_is_running answers yes as long as a daemon has work *)
(* that is not in queue.json for good, whatever stale files were removed.  *)
THEOREM OwnersAreSeen == ASSUME FaultsCovered PROVE Spec => []OwnerIsSeen
<1>1. Inv => OwnerIsSeen
  BY DEF Inv, OwnerIsSeen, Ownership, PidFile, DaemonHolds, DaemonOwns, Alive,
     Early,
         PidAnswers
<1> QED
  BY <1>1, HandoffIsSafe, PTL

-----------------------------------------------------------------------------
(* A job that anybody knows is the application's or in queue.json.         *)
LEMMA KnownIsStored ==
    ASSUME Inv, NEW j \in Jobs
    PROVE  Known(j) <=> app.queue[j] # "absent" \/ disk.queue[j] # "absent"
BY DEF Inv, Known, JobsKept, DaemonJobs, HoldsJobs, SameJobs, DaemonHolds,
   DaemonOwns

(* No step of a daemon adds a job to queue.json or drops one.              *)
LEMMA DaemonKeepsJobs ==
    ASSUME Inv, FaultsCovered, NEW d \in Daemons, DaemonStep(d)
    PROVE  app' = app /\ SameJobs(disk'.queue, disk.queue)
<1> USE TypeParts DEF Inv, Disks
<1>1. CASE UNCHANGED <<app, disk>>
  BY <1>1 DEF SameJobs
<1>2. CASE DaemonLock(d)
  BY <1>2 DEF DaemonLock, SameJobs
<1>3. CASE DaemonOpenPid(d)
  BY <1>3 DEF DaemonOpenPid, SameJobs
<1>4. CASE DaemonWritePid(d)
  BY <1>4 DEF DaemonWritePid, SameJobs
<1>5. CASE DaemonWrite(d) \/ DaemonFinalWrite(d)
  <2>1. disk'.queue \in Saved(daemon[d].snap) /\ app' = app
    BY <1>5 DEF DaemonWrite, DaemonFinalWrite
  <2>2. SameJobs(daemon[d].snap, disk.queue)
    BY <1>5 DEF DaemonWrite, DaemonFinalWrite, JobsKept, DaemonJobs
  <2> QED
    BY <2>1, <2>2 DEF Saved, Torn, FaultsCovered, SameJobs
<1>6. CASE DaemonUncommand(d)
  BY <1>6 DEF DaemonUncommand, SameJobs
<1>7. CASE DaemonUnlinkLock(d)
  BY <1>7 DEF DaemonUnlinkLock, SameJobs
<1>8. CASE DaemonUnlinkPid(d)
  BY <1>8 DEF DaemonUnlinkPid, SameJobs
<1> QED
  BY ONLY <1>1, <1>2, <1>3, <1>4, <1>5, <1>6, <1>7, <1>8, DaemonStep(d)
     DEF DaemonStep, DaemonLoad, DaemonReady, DaemonReadsCommand, DaemonIsDone,
         DaemonSnapshot, DaemonEnds, DaemonUnlock

(* One step loses a job only where the application ends with it.           *)
LEMMA NothingLostStep ==
    ASSUME Inv, FaultsCovered, [Next]_vars, NEW j \in Jobs, Known(j), ~Known(j)'
    PROVE  app.queue[j] # "absent" /\ app.pc # "launching" /\ app'.pc = "off"
<1> DEFINE Stored == app.queue[j] # "absent" \/ disk.queue[j] # "absent"
<1>1. Stored
  BY KnownIsStored
<1>2. ~Stored'
  BY DEF Known
<1> HIDE DEF Stored
<1> USE TypeParts DEF Inv, Apps, Disks
<1>3. ASSUME NEW yes, NEW no, IsRunning(yes, no) PROVE FALSE
  BY <1>1, <1>2, <1>3 DEF Stored, IsRunning
<1>4. ASSUME disk'.queue = disk.queue, app'.queue = app.queue PROVE FALSE
  BY <1>1, <1>2, <1>4 DEF Stored
<1>5. ASSUME disk'.queue = NoQueue, app'.queue = app.queue,
             app.pc \in {"restored", "failed"}
      PROVE  FALSE
  BY <1>1, <1>2, <1>5 DEF Stored, JobsKept, AppJobs
<1>6. ASSUME app' = AppOff, disk' = disk
      PROVE  app.queue[j] # "absent" /\ app.pc # "launching" /\ app'.pc = "off"
  BY <1>1, <1>2, <1>6 DEF Stored, JobsKept, AppJobs, AppOff, NoQueue, SameJobs
<1>7. CASE UNCHANGED vars
  BY <1>4, <1>7 DEF vars
<1>8. CASE AppStep
  <2>1. CASE CheckDaemon \/ WaitForHandoff \/ RecheckDaemon \/ WaitForStop
    BY ONLY <1>3, <2>1 DEF CheckDaemon, WaitForHandoff, RecheckDaemon, WaitForStop
  <2>2. CASE Cleanup \/ RequestHandoff \/ LaunchUncommand \/ LaunchFork \/ LaunchNotReady
    BY <1>4, <2>2 DEF Cleanup, Cleaned, RequestHandoff, LaunchUncommand, LaunchFork,
                      LaunchNotReady, AppGoto
  <2>3. CASE RestoreQueue
    BY <1>1, <1>2, <2>3 DEF RestoreQueue, Stored, JobsKept, AppJobs, Without,
       NoQueue
  <2>4. CASE CleanupAll \/ LaunchFailed
    BY <1>5, <2>4 DEF CleanupAll, LaunchFailed, CleanedAll, Cleaned, AppGoto
  <2>5. CASE LaunchSave
    BY <1>1, <1>2, <2>5 DEF LaunchSave, Torn, FaultsCovered, AppGoto, Stored,
       JobsKept, AppJobs, NoQueue
  <2>6. CASE LaunchReady
    BY <1>6, <2>6 DEF LaunchReady
  <2> QED
    BY ONLY <1>8, <2>1, <2>2, <2>3, <2>4, <2>5, <2>6 DEF AppStep
<1>9. CASE User
  <2>1. CASE StartApp
    BY <1>1, <1>2, <2>1 DEF StartApp, AppOff, Stored, JobsKept, AppJobs, Without,
       NoQueue
  <2>2. CASE RequestStop \/ QuitToBackground
    BY <1>4, <2>2 DEF RequestStop, QuitToBackground, AppGoto
  <2>3. CASE LeaveStatus
    BY ONLY <1>3, <2>3 DEF LeaveStatus
  <2>4. CASE QuitApp
    BY <1>6, <2>4 DEF QuitApp
  <2>5. ASSUME NEW k \in Jobs, AddJob(k) PROVE FALSE
    BY <1>1, <1>2, <2>5 DEF AddJob, Stored, Queues
  <2> QED
    BY ONLY <1>9, <2>1, <2>2, <2>3, <2>4, <2>5 DEF User
<1>10. CASE Work
  <2>1. ASSUME NEW k \in Jobs, AppFinishes(k) PROVE FALSE
    BY <1>1, <1>2, <2>1 DEF AppFinishes, Stored, Queues
  <2>2. ASSUME NEW k \in Jobs, NEW d \in Daemons, DaemonFinishes(d, k) PROVE FALSE
    BY <1>4, <2>2 DEF DaemonFinishes
  <2> QED
    BY ONLY <1>10, <2>1, <2>2 DEF Work
<1>11. CASE Failure
  BY ONLY <1>4, <1>6, <1>11 DEF Failure, AppCrash, DaemonCrash, PidReused
<1>12. ASSUME NEW d \in Daemons, DaemonStep(d) PROVE FALSE
  BY <1>1, <1>2, <1>12, DaemonKeepsJobs DEF Stored, SameJobs
<1> QED
  BY ONLY <1>7, <1>8, <1>9, <1>10, <1>11, <1>12, [Next]_vars DEF Next

(* NothingLost: whoever dies, and whatever launch fails, a job that was    *)
(* handed over stays in queue.json or with a live owner.                   *)
THEOREM HandedJobsStay == ASSUME FaultsCovered PROVE Spec => NothingLost
<1>1. Inv /\ [Next]_vars =>
        [\A j \in Jobs : Known(j) /\ ~Known(j)' =>
            app.queue[j] # "absent" /\ app.pc # "launching" /\ app'.pc = "off"]_vars
  BY NothingLostStep
<1> QED
  BY <1>1, HandoffIsSafe, PTL DEF Spec, NothingLost

-----------------------------------------------------------------------------
\* Nobody is killed and no file fails; a reused pid and SIGTERM are no failures.
NothingFails == Faults \subseteq {"pid_reuse", "sigterm"}
\* Then the parent of a daemon that starts is there.
Launched == \A d \in Daemons : Starting(d) => app.pc = "launching"
RelayInv == Inv /\ Launched

(* It waits until the daemon has reported.                                 *)
LEMMA LaunchedStep == ASSUME RelayInv, NothingFails, Next PROVE Launched'
<1> USE TypeParts DEF Apps, Inv, RelayInv, Launched
<1>1. ASSUME daemon' = daemon, app'.pc = app.pc \/ app.pc # "launching"
      PROVE  Launched'
  BY <1>1 DEF Starting
<1>2. ASSUME NEW yes, NEW no, IsRunning(yes, no), app.pc # "launching"
      PROVE  Launched'
  BY <1>1, <1>2 DEF IsRunning
<1>3. CASE AppStep
  <2>1. CASE CheckDaemon \/ WaitForHandoff \/ RecheckDaemon \/ WaitForStop
    BY <1>2, <2>1 DEF CheckDaemon, WaitForHandoff, RecheckDaemon, WaitForStop
  <2>2. CASE \/ Cleanup \/ RequestHandoff \/ RestoreQueue \/ CleanupAll
             \/ LaunchSave \/ LaunchUncommand \/ LaunchFailed
    BY <1>1, <2>2 DEF Cleanup, RequestHandoff, RestoreQueue, CleanupAll, LaunchSave,
           LaunchUncommand, LaunchFailed, Ownership, PidFile
  <2>3. CASE LaunchFork
    <3>1. CASE UNCHANGED daemon
      BY <1>1, <2>3, <3>1 DEF LaunchFork
    <3>2. CASE app' = [app EXCEPT !.pc = "launching", !.child = app'.child]
      BY <3>2
    <3> QED
      BY <2>3, <3>1, <3>2 DEF LaunchFork
  <2>4. CASE LaunchReady \/ LaunchNotReady
    <3>1. ~Starting(app.child) /\ app.child \in Daemons /\ daemon' = daemon
      BY <2>4 DEF LaunchReady, LaunchNotReady, Ownership, OneProcess, Reports,
         Alive, Starting
    <3>2. \A d \in Daemons : ~Starting(d)
      BY <2>4, <3>1 DEF LaunchReady, LaunchNotReady, Ownership, OneProcess, Alive,
         Starting
    <3> QED
      BY <3>1, <3>2 DEF Starting
  <2> QED
    BY ONLY <1>3, <2>1, <2>2, <2>3, <2>4 DEF AppStep
<1>4. CASE User
  <2>1. CASE LeaveStatus
    BY <1>2, <2>1 DEF LeaveStatus
  <2> QED
    BY <1>1, <1>4, <2>1 DEF User, StartApp, RequestStop, QuitApp,
       QuitToBackground, AddJob
<1>5. CASE Work
  <2>1. ASSUME NEW j \in Jobs, AppFinishes(j) PROVE Launched'
    BY <1>1, <2>1 DEF AppFinishes
  <2>2. ASSUME NEW j \in Jobs, NEW d \in Daemons, DaemonFinishes(d, j) PROVE Launched'
    BY <2>2 DEF DaemonFinishes, Starting, Procs
  <2> QED
    BY ONLY <1>5, <2>1, <2>2 DEF Work
<1>6. CASE Failure
  BY <1>1, <1>6 DEF Failure, AppCrash, DaemonCrash, PidReused, NothingFails
<1>7. ASSUME NEW d \in Daemons, DaemonStep(d) PROVE Launched'
  <2>1. app' = app /\ \A e \in Daemons : e # d => daemon'[e] = daemon[e]
    <3> USE <1>7 DEF Procs
    <3>1. CASE DaemonLock(d) \/ DaemonLoad(d) \/ DaemonReady(d)
      BY <3>1 DEF DaemonLock, DaemonLoad, DaemonReady, Refuses
    <3>2. CASE \/ DaemonOpenPid(d) \/ DaemonWritePid(d) \/ DaemonIsDone(d) \/ DaemonWrite(d)
               \/ DaemonFinalWrite(d) \/ DaemonUncommand(d) \/ DaemonUnlinkLock(d)
               \/ DaemonUnlinkPid(d)
      BY <3>2 DEF DaemonOpenPid, DaemonWritePid, DaemonIsDone, DaemonWrite,
             DaemonFinalWrite, DaemonUncommand, DaemonUnlinkLock, DaemonUnlinkPid,
             DaemonGoto
    <3>3. CASE \/ DaemonReadsCommand(d) \/ DaemonSnapshot(d) \/ DaemonEnds(d) \/ DaemonUnlock(d)
      BY <3>3 DEF DaemonReadsCommand, DaemonSnapshot, DaemonEnds, DaemonUnlock
    <3> QED
      BY ONLY <3>1, <3>2, <3>3, <1>7 DEF DaemonStep
  <2>2. Starting(d)' => Starting(d)
    <3> USE <1>7 DEF Procs, Starting
    <3>1. CASE DaemonLock(d) \/ DaemonLoad(d) \/ DaemonReady(d) \/ DaemonOpenPid(d) \/ DaemonWritePid(d)
      BY <3>1 DEF DaemonLock, DaemonLoad, DaemonReady, DaemonOpenPid, DaemonWritePid
    <3>2. CASE \/ DaemonIsDone(d) \/ DaemonWrite(d)
               \/ DaemonFinalWrite(d) \/ DaemonUncommand(d) \/ DaemonUnlinkLock(d)
               \/ DaemonUnlinkPid(d)
      BY <3>2 DEF DaemonIsDone, DaemonWrite,
             DaemonFinalWrite, DaemonUncommand, DaemonUnlinkLock, DaemonUnlinkPid,
             DaemonGoto
    <3>3. CASE DaemonReadsCommand(d)
      <4>1. daemon'[d].pc = "final"
        BY <3>3 DEF DaemonReadsCommand
      <4> QED
        BY <4>1
    <3>4. CASE DaemonSnapshot(d)
      <4>1. daemon'[d].pc = "write"
        BY <3>4 DEF DaemonSnapshot
      <4> QED
        BY <4>1
    <3>5. CASE DaemonEnds(d)
      <4>1. daemon'[d].pc = "finalwrite"
        BY <3>5 DEF DaemonEnds
      <4> QED
        BY <4>1
    <3>6. CASE DaemonUnlock(d)
      BY <3>6 DEF DaemonUnlock
    <3> QED
      BY ONLY <3>1, <3>2, <3>3, <3>4, <3>5, <3>6, <1>7 DEF DaemonStep
  <2> QED
    BY <2>1, <2>2 DEF Starting
<1> QED
  BY ONLY <1>3, <1>4, <1>5, <1>6, <1>7, Next DEF Next

(* The abstract list when a daemon has it, before and after a step.        *)
LEMMA DaemonView ==
    ASSUME Inv, NEW d \in Daemons, HoldsJobs(d)
    PROVE  owner = "daemon" /\ list = daemon[d].queue
<1>1. Holders = {d}
  BY DEF Inv, Ownership, OneProcess, Alive, Holders, HoldsJobs, DaemonWorks,
     DaemonHolds,
         DaemonOwns
<1> QED
  BY <1>1 DEF owner, list

LEMMA DaemonViewPrimed ==
    ASSUME Inv', NEW d \in Daemons, HoldsJobs(d)'
    PROVE  owner' = "daemon" /\ list' = daemon'[d].queue
<1>1. Holders' = {d}
  BY DEF Inv, Ownership, OneProcess, Alive, Holders, HoldsJobs, DaemonWorks,
     DaemonHolds,
         DaemonOwns
<1> QED
  BY <1>1 DEF owner, list

(* The abstract list when no daemon has it, before and after a step.       *)
LEMMA NoDaemonView ==
    ASSUME \A d \in Daemons : ~HoldsJobs(d)
    PROVE  /\ AppHolds => owner = "app" /\ list = app.queue
           /\ ~AppHolds => owner = "nobody" /\ list = disk.queue
<1>1. Holders = {}
  BY DEF Holders, HoldsJobs, DaemonWorks, DaemonHolds, DaemonOwns
<1> QED
  BY <1>1 DEF owner, list

LEMMA NoDaemonViewPrimed ==
    ASSUME \A d \in Daemons : ~HoldsJobs(d)'
    PROVE  /\ AppHolds' => owner' = "app" /\ list' = app'.queue
           /\ ~AppHolds' => owner' = "nobody" /\ list' = disk'.queue
<1>1. Holders' = {}
  BY DEF Holders, HoldsJobs, DaemonWorks, DaemonHolds, DaemonOwns
<1> QED
  BY <1>1 DEF owner, list

(* The relay starts with an empty list that nobody has.                    *)
LEMMA RelayStarts == Init => Relay!Init
<1> SUFFICES ASSUME Init PROVE Relay!Init
  OBVIOUS
<1>1. \A d \in Daemons : ~HoldsJobs(d)
  BY DEF Init, NewDaemon, HoldsJobs
<1>2. ~AppHolds /\ disk.queue = NoQueue
  BY DEF Init, AppOff, AppHolds
<1> QED
  BY <1>1, <1>2, NoDaemonView DEF Relay!Init, NoQueue

(* The application takes the list over, or changes nothing of it.          *)
LEMMA AppStepRelay ==
    ASSUME Inv, Inv', NothingFails, AppStep
    PROVE  Relay!PassOn \/ UNCHANGED <<owner, list>>
<1> USE TypeParts DEF Inv, Apps, Disks
<1>1. ASSUME daemon' = daemon, disk'.queue = disk.queue, app'.queue = app.queue,
             AppHolds' <=> AppHolds
      PROVE  UNCHANGED <<owner, list>>
  BY <1>1 DEF owner, list, Holders, DaemonWorks, DaemonHolds, DaemonOwns
<1>2. ASSUME app.pc \in NotRunning PROVE \A d \in Daemons : ~HoldsJobs(d)
  BY <1>2 DEF Ownership, OneProcess, Alive, HoldsJobs
<1>3. ASSUME app.pc \in NotRunning, daemon' = daemon, app'.queue = app.queue,
             AppHolds, AppHolds'
      PROVE  UNCHANGED <<owner, list>>
  <2>1. \A d \in Daemons : ~HoldsJobs(d) /\ ~HoldsJobs(d)'
    BY <1>2, <1>3 DEF HoldsJobs
  <2> QED
    BY <1>3, <2>1, NoDaemonView, NoDaemonViewPrimed
<1>4. ASSUME app.pc \in Without, NEW yes \in Without, NEW no \in Without, IsRunning(yes, no)
      PROVE  UNCHANGED <<owner, list>>
  <2>1. app'.pc \in Without /\ app'.queue = app.queue /\ daemon' = daemon /\ disk' = disk
    BY <1>4 DEF IsRunning, Without
  <2> QED
    BY <1>1, <1>4, <2>1 DEF AppHolds, Without
<1>5. CASE CheckDaemon \/ WaitForHandoff \/ RecheckDaemon \/ WaitForStop
  BY <1>4, <1>5 DEF CheckDaemon, WaitForHandoff, RecheckDaemon, WaitForStop, Without
<1>6. CASE Cleanup
  <2>1. app'.pc \in Without /\ app.pc \in Without
    BY <1>6 DEF Cleanup, AppGoto, Ownership, PidFile, Without
  <2> QED
    BY <1>1, <1>6, <2>1 DEF Cleanup, Cleaned, AppGoto, AppHolds, Without
<1>7. CASE RequestHandoff
  BY <1>1, <1>7 DEF RequestHandoff, AppGoto, AppHolds
<1>8. CASE RestoreQueue
  <2>1. app.pc \in NotRunning /\ ~AppHolds /\ daemon' = daemon /\ app'.queue = disk.queue
        /\ AppHolds'
    BY <1>8 DEF RestoreQueue, NotRunning, AppHolds
  <2>2. \A d \in Daemons : ~HoldsJobs(d) /\ ~HoldsJobs(d)'
    BY <1>2, <2>1 DEF HoldsJobs
  <2> QED
    BY <2>1, <2>2, NoDaemonView, NoDaemonViewPrimed DEF Relay!PassOn
<1>9. CASE CleanupAll \/ LaunchSave \/ LaunchUncommand \/ LaunchFailed
  BY <1>3, <1>9 DEF CleanupAll, LaunchSave, LaunchUncommand, LaunchFailed, AppGoto,
         AppHolds, NotRunning
<1>10. CASE LaunchFork
  <2>1. CASE AppGoto("failed") /\ UNCHANGED daemon
    BY <1>3, <1>10, <2>1 DEF LaunchFork, AppGoto, AppHolds, NotRunning
  <2>2. ASSUME NEW d \in Daemons, daemon[d].pc = "none", DaemonGoto(d, "boot"),
               app' = [app EXCEPT !.pc = "launching", !.child = d]
        PROVE  UNCHANGED <<owner, list>>
    <3>1. daemon[d].ready = "none"
      BY <2>2 DEF Ownership, Reports
    <3>2. /\ daemon'[d].pc = "boot" /\ daemon'[d].ready = "none"
          /\ \A e \in Daemons : e # d => daemon'[e] = daemon[e]
      BY <2>2, <3>1 DEF DaemonGoto, Procs
    <3>3. AppHolds /\ AppHolds' /\ app'.queue = app.queue /\ app.pc \in NotRunning
      BY <1>10, <2>2, <3>2 DEF LaunchFork, AppHolds, NotRunning
    <3>4. \A e \in Daemons : ~HoldsJobs(e) /\ ~HoldsJobs(e)'
      BY <1>2, <3>2, <3>3 DEF HoldsJobs
    <3> QED
      BY <3>3, <3>4, NoDaemonView, NoDaemonViewPrimed
  <2> QED
    BY ONLY <1>10, <2>1, <2>2 DEF LaunchFork
<1>11. CASE LaunchReady
  <2>1. ~AppHolds /\ ~AppHolds' /\ daemon' = daemon /\ disk' = disk
    BY <1>11 DEF LaunchReady, AppHolds, AppOff
  <2> QED
    BY <2>1 DEF owner, list, Holders, DaemonWorks, DaemonHolds, DaemonOwns
<1>12. CASE LaunchNotReady
  BY <1>1, <1>12 DEF LaunchNotReady, AppGoto, AppHolds
<1> QED
  BY ONLY <1>5, <1>6, <1>7, <1>8, <1>9, <1>10, <1>11, <1>12, AppStep DEF AppStep

(* The user adds to the list or drops it with the application.             *)
LEMMA UserRelay ==
    ASSUME Inv, Inv', NothingFails, User
    PROVE  Relay!Next \/ UNCHANGED <<owner, list>>
<1> USE TypeParts DEF Inv, Apps, Disks
<1>1. ASSUME daemon' = daemon, disk'.queue = disk.queue, app'.queue = app.queue,
             AppHolds' <=> AppHolds
      PROVE  UNCHANGED <<owner, list>>
  BY <1>1 DEF owner, list, Holders, DaemonWorks, DaemonHolds, DaemonOwns
<1>2. ASSUME app.pc = "menu", daemon' = daemon
      PROVE  /\ \A d \in Daemons : ~HoldsJobs(d) /\ ~HoldsJobs(d)'
             /\ owner = "app" /\ list = app.queue
  <2>1. \A d \in Daemons : ~HoldsJobs(d) /\ ~HoldsJobs(d)'
    BY <1>2 DEF Ownership, OneProcess, NotRunning, Alive, HoldsJobs
  <2> QED
    BY <1>2, <2>1, NoDaemonView DEF AppHolds
<1>3. CASE StartApp
  BY <1>1, <1>3 DEF StartApp, AppOff, AppHolds, JobsKept, AppJobs, Without
<1>4. CASE RequestStop \/ QuitToBackground
  BY <1>1, <1>4 DEF RequestStop, QuitToBackground, AppGoto, AppHolds
<1>5. CASE LeaveStatus
  <2>1. app'.pc \in Without /\ app'.queue = app.queue /\ daemon' = daemon /\ disk' = disk
    BY <1>5 DEF LeaveStatus, IsRunning, Without
  <2> QED
    BY <1>1, <1>5, <2>1 DEF LeaveStatus, AppHolds, Without
<1>6. CASE QuitApp
  <2>1. ~AppHolds' /\ disk'.queue = NoQueue /\ app.pc = "menu" /\ daemon' = daemon
    BY <1>6 DEF QuitApp, AppOff, AppHolds, JobsKept, AppJobs
  <2> QED
    BY <1>2, <2>1, NoDaemonViewPrimed DEF Relay!Next, Relay!Drop, NoQueue
<1>7. ASSUME NEW j \in Jobs, AddJob(j) PROVE Relay!Add(j)
  <2>1. /\ app.pc = "menu" /\ daemon' = daemon /\ AppHolds' /\ app.queue[j] = "absent"
        /\ app'.queue = [app.queue EXCEPT ![j] = "pending"]
    BY <1>7 DEF AddJob, AppHolds
  <2> QED
    BY <1>2, <2>1, NoDaemonViewPrimed DEF Relay!Add
<1> QED
  BY ONLY <1>3, <1>4, <1>5, <1>6, <1>7, User DEF User, Relay!Next

(* Whoever has the list finishes a job of it.                              *)
LEMMA WorkRelay ==
    ASSUME Inv, Inv', NEW j \in Jobs,
           AppFinishes(j) \/ \E d \in Daemons : DaemonFinishes(d, j)
    PROVE  Relay!Finish(j)
<1> USE TypeParts DEF Inv, Apps
<1>1. CASE AppFinishes(j)
  <2>1. /\ app.pc \in NotRunning /\ daemon' = daemon /\ AppHolds /\ AppHolds'
        /\ app.queue[j] = "pending"
        /\ app'.queue = [app.queue EXCEPT ![j] = "finished"]
    BY <1>1 DEF AppFinishes, AppWorks, AppHolds, NotRunning
  <2>2. \A d \in Daemons : ~HoldsJobs(d) /\ ~HoldsJobs(d)'
    BY <2>1 DEF Ownership, OneProcess, Alive, HoldsJobs
  <2> QED
    BY <2>1, <2>2, NoDaemonView, NoDaemonViewPrimed DEF Relay!Finish
<1>2. ASSUME NEW d \in Daemons, DaemonFinishes(d, j) PROVE Relay!Finish(j)
  <2> DEFINE rec == [daemon[d] EXCEPT !.queue[j] = "finished", !.dirty = TRUE]
  <2>1. daemon' = [daemon EXCEPT ![d] = rec]
    BY <1>2 DEF DaemonFinishes
  <2>2. rec.pc = daemon[d].pc /\ rec.queue = [daemon[d].queue EXCEPT ![j] = "finished"]
    BY DEF Procs
  <2>3. daemon'[d].pc = daemon[d].pc
        /\ daemon'[d].queue = [daemon[d].queue EXCEPT ![j] = "finished"]
    BY <2>1, <2>2
  <2>4. /\ HoldsJobs(d) /\ HoldsJobs(d)'
        /\ daemon[d].queue[j] = "pending"
        /\ daemon'[d].queue = [daemon[d].queue EXCEPT ![j] = "finished"]
    BY <1>2, <2>3 DEF DaemonFinishes, DaemonWorks, HoldsJobs
  <2> QED
    BY <2>4, DaemonView, DaemonViewPrimed DEF Relay!Finish
<1> QED
  BY <1>1, <1>2

(* A daemon gets the list as it loads, and gives it back as it writes the  *)
(* last snapshot; a stop skips the rest.                                   *)
LEMMA DaemonRelay ==
    ASSUME RelayInv, RelayInv', NothingFails, NEW d \in Daemons, DaemonStep(d)
    PROVE  Relay!PassOn \/ Relay!SkipRest \/ UNCHANGED <<owner, list>>
<1> USE TypeParts DEF RelayInv, Inv, Procs, Disks
<1>1. ASSUME HoldsJobs(d), HoldsJobs(d)', daemon'[d].queue = daemon[d].queue
      PROVE  UNCHANGED <<owner, list>>
  BY <1>1, DaemonView, DaemonViewPrimed
<1>2. \A e \in Daemons : e # d => ~HoldsJobs(e)
  <2>1. Alive(d)
    BY DEF DaemonStep, Alive, DaemonLock, DaemonOpenPid, DaemonWritePid, DaemonLoad,
           DaemonReady, DaemonReadsCommand, DaemonIsDone, DaemonSnapshot,
           DaemonWrite,
           DaemonEnds, DaemonFinalWrite, DaemonUncommand, DaemonUnlock,
           DaemonUnlinkLock,
           DaemonUnlinkPid
  <2> QED
    BY <2>1 DEF Ownership, OneProcess, HoldsJobs, Alive
<1>3. ASSUME \A e \in Daemons : e # d => daemon'[e] = daemon[e], ~HoldsJobs(d), ~HoldsJobs(d)',
             app' = app, AppHolds' <=> AppHolds, disk'.queue = disk.queue
      PROVE  UNCHANGED <<owner, list>>
  <2>1. \A e \in Daemons : ~HoldsJobs(e) /\ ~HoldsJobs(e)'
    BY <1>2, <1>3 DEF HoldsJobs
  <2> QED
    BY <1>3, <2>1, NoDaemonView, NoDaemonViewPrimed
<1>4. Starting(d) => app.pc = "launching" /\ app.child = d /\ daemon[d].ready = "none"
                     /\ AppHolds
  BY DEF Launched, Ownership, OneProcess, Reports, AppHolds
<1>5. Alive(d) /\ ~Starting(d) => ~AppHolds /\ daemon[d].ready = "yes"
  BY DEF Ownership, OneProcess, Reports, AppHolds, NotRunning
<1>6. ASSUME Starting(d), ~HoldsJobs(d), app' = app, disk'.queue = disk.queue, ~HoldsJobs(d)',
             daemon'[d].ready # "yes",
             \A e \in Daemons : e # d => daemon'[e] = daemon[e]
      PROVE  UNCHANGED <<owner, list>>
  BY <1>3, <1>4, <1>6 DEF AppHolds
<1>7. ASSUME daemon[d].pc \in {"boot", "load"}, Refuses(d), UNCHANGED <<app, disk>>
      PROVE  UNCHANGED <<owner, list>>
  <2>1. /\ Starting(d) /\ ~HoldsJobs(d) /\ ~HoldsJobs(d)' /\ daemon'[d].ready = "no"
        /\ \A e \in Daemons : e # d => daemon'[e] = daemon[e]
    BY <1>7 DEF Refuses, Starting, HoldsJobs
  <2> QED
    BY <1>6, <1>7, <2>1
<1>8. CASE DaemonLock(d)
  <2>1. CASE /\ disk' = [disk EXCEPT !.lock = LockFile(d)]
             /\ daemon' = [daemon EXCEPT ![d] =
                              [@ EXCEPT !.pc = "pid", !.lock = LockFile(d)]]
    <3>1. /\ Starting(d) /\ ~HoldsJobs(d) /\ ~HoldsJobs(d)'
          /\ daemon'[d].ready = daemon[d].ready
          /\ disk'.queue = disk.queue /\ app' = app
          /\ \A e \in Daemons : e # d => daemon'[e] = daemon[e]
      BY <1>8, <2>1 DEF DaemonLock, Starting, HoldsJobs
    <3> QED
      BY <1>4, <1>6, <3>1
  <2> QED
    BY <1>7, <1>8, <2>1 DEF DaemonLock
<1>9. CASE DaemonOpenPid(d) \/ DaemonWritePid(d)
  <2>1. /\ Starting(d) /\ ~HoldsJobs(d) /\ ~HoldsJobs(d)'
        /\ daemon'[d].ready = daemon[d].ready
        /\ disk'.queue = disk.queue /\ app' = app
        /\ \A e \in Daemons : e # d => daemon'[e] = daemon[e]
    BY <1>9 DEF DaemonOpenPid, DaemonWritePid, DaemonGoto, Starting, HoldsJobs
  <2> QED
    BY <1>4, <1>6, <2>1
<1>10. CASE DaemonLoad(d)
  <2>1. CASE daemon' = [daemon EXCEPT ![d] =
                          [@ EXCEPT !.pc = "loaded", !.queue = disk.queue,
                                    !.dirty = TRUE]]
    <3>1. Starting(d) /\ ~HoldsJobs(d) /\ HoldsJobs(d)' /\ daemon'[d].queue = disk.queue
      BY <1>10, <2>1 DEF DaemonLoad, Starting, HoldsJobs
    <3>2. owner = "app" /\ list = app.queue
      BY <1>2, <1>4, <3>1, NoDaemonView
    <3>3. disk.queue = app.queue
      BY <1>4, <3>1 DEF JobsKept, AppJobs
    <3> QED
      BY <3>1, <3>2, <3>3, DaemonViewPrimed DEF Relay!PassOn
  <2> QED
    BY <1>7, <1>10, <2>1 DEF DaemonLoad
<1>11. CASE DaemonReady(d)
  <2>1. HoldsJobs(d) /\ HoldsJobs(d)' /\ daemon'[d].queue = daemon[d].queue
    BY <1>4, <1>11 DEF DaemonReady, Starting, HoldsJobs
  <2> QED
    BY <1>1, <2>1
<1>12. CASE DaemonReadsCommand(d)
  <2>1. HoldsJobs(d) /\ HoldsJobs(d)' /\ daemon'[d].queue = daemon[d].queue
    BY <1>12 DEF DaemonReadsCommand, HoldsJobs
  <2> QED
    BY <1>1, <2>1
<1>13. CASE DaemonIsDone(d) \/ DaemonSnapshot(d) \/ DaemonWrite(d)
  <2>1. daemon[d].pc \in {"run", "write"} /\ daemon'[d].pc \in {"run", "write", "final"}
        /\ daemon'[d].queue = daemon[d].queue
    <3>1. CASE DaemonIsDone(d) \/ DaemonWrite(d)
      BY <3>1 DEF DaemonIsDone, DaemonWrite, DaemonGoto
    <3>2. CASE DaemonSnapshot(d)
      BY <3>2 DEF DaemonSnapshot
    <3> QED
      BY <1>13, <3>1, <3>2
  <2>2. HoldsJobs(d) /\ HoldsJobs(d)'
    BY <2>1 DEF HoldsJobs
  <2> QED
    BY <1>1, <2>1, <2>2
<1>14. CASE DaemonEnds(d)
  <2>1. HoldsJobs(d) /\ HoldsJobs(d)'
        /\ daemon'[d].queue = IF daemon[d].cmd = "stop" THEN SkipPending(daemon[d].queue)
                              ELSE daemon[d].queue
    BY <1>14 DEF DaemonEnds, HoldsJobs
  <2> QED
    BY <1>1, <2>1, DaemonView, DaemonViewPrimed DEF Relay!SkipRest, SkipPending
<1>15. CASE DaemonFinalWrite(d)
  <2>1. /\ HoldsJobs(d) /\ ~HoldsJobs(d)' /\ app' = app /\ daemon'[d].ready = daemon[d].ready
        /\ \A e \in Daemons : e # d => daemon'[e] = daemon[e]
        /\ disk'.queue \in Saved(daemon[d].snap) /\ Alive(d) /\ ~Starting(d)
        /\ daemon[d].pc = "finalwrite"
    BY <1>15 DEF DaemonFinalWrite, DaemonGoto, HoldsJobs, Alive, Starting
  <2>2. disk'.queue = daemon[d].queue
    BY <2>1 DEF Saved, Torn, NothingFails, JobsKept, DaemonJobs
  <2>3. ~AppHolds'
    BY <1>5, <2>1 DEF AppHolds, Ownership, OneProcess
  <2>4. \A e \in Daemons : ~HoldsJobs(e)'
    BY <1>2, <2>1 DEF HoldsJobs
  <2> QED
    BY <2>1, <2>2, <2>3, <2>4, DaemonView, NoDaemonViewPrimed DEF Relay!PassOn
<1>16. CASE DaemonUncommand(d) \/ DaemonUnlock(d) \/ DaemonUnlinkLock(d) \/ DaemonUnlinkPid(d)
  <2>1. /\ ~HoldsJobs(d) /\ ~HoldsJobs(d)' /\ app' = app /\ daemon'[d].ready = daemon[d].ready
        /\ \A e \in Daemons : e # d => daemon'[e] = daemon[e]
        /\ disk'.queue = disk.queue /\ Alive(d) /\ ~Starting(d)
    <3> USE DEF HoldsJobs, Alive, Starting
    <3>1. CASE DaemonUncommand(d)
      BY <3>1 DEF DaemonUncommand, DaemonGoto
    <3>2. CASE DaemonUnlock(d)
      BY <3>2 DEF DaemonUnlock
    <3>3. CASE DaemonUnlinkLock(d)
      BY <3>3 DEF DaemonUnlinkLock, DaemonGoto
    <3>4. CASE DaemonUnlinkPid(d)
      BY <3>4 DEF DaemonUnlinkPid, DaemonGoto
    <3> QED
      BY <1>16, <3>1, <3>2, <3>3, <3>4
  <2>2. AppHolds' <=> AppHolds
    BY <1>5, <2>1 DEF AppHolds, Ownership, OneProcess
  <2> QED
    BY <1>3, <2>1, <2>2
<1> QED
  BY ONLY <1>8, <1>9, <1>10, <1>11, <1>12, <1>13, <1>14, <1>15, <1>16, DaemonStep(d)
     DEF DaemonStep

(* Every step is a step of the relay, or nothing to it.                    *)
LEMMA RelayStep ==
    ASSUME RelayInv, RelayInv', NothingFails, [Next]_vars
    PROVE  [Relay!Next]_<<owner, list>>
<1>1. CASE UNCHANGED vars
  BY <1>1 DEF vars, owner, list, Holders, DaemonWorks, DaemonHolds, DaemonOwns,
     AppHolds
<1>2. CASE AppStep
  BY <1>2, AppStepRelay DEF RelayInv, Relay!Next
<1>3. CASE User
  BY <1>3, UserRelay DEF RelayInv
<1>4. CASE Work
  BY <1>4, WorkRelay DEF Work, RelayInv, Relay!Next
<1>5. CASE Failure
  <2>1. app' = app /\ daemon' = daemon /\ disk' = disk
    BY <1>5 DEF Failure, AppCrash, DaemonCrash, PidReused, NothingFails
  <2> QED
    BY <2>1 DEF owner, list, Holders, DaemonWorks, DaemonHolds, DaemonOwns, AppHolds
<1>6. ASSUME NEW d \in Daemons, DaemonStep(d) PROVE [Relay!Next]_<<owner, list>>
  BY <1>6, DaemonRelay DEF Relay!Next
<1> QED
  BY <1>1, <1>2, <1>3, <1>4, <1>5, <1>6 DEF Next

(* ImplementsRelay: while nothing fails, the list goes from hand to hand as*)
(* it is, each job is finished or skipped once and stays so.               *)
THEOREM HandoffIsARelay == ASSUME NothingFails PROVE Spec => ImplementsRelay
<1>1. FaultsCovered
  BY DEF FaultsCovered, NothingFails
<1>2. Init => Launched
  BY DEF Init, NewDaemon, Launched, Starting
<1>3. RelayInv /\ [Next]_vars => RelayInv'
  <2>1. RelayInv /\ Next => Launched'
    BY LaunchedStep
  <2>2. Launched /\ UNCHANGED vars => Launched'
    BY DEF Launched, Starting, vars
  <2> QED
    BY <1>1, <2>1, <2>2, InvStep DEF RelayInv
<1>4. Init => RelayInv
  BY <1>2, InitTypes, InitOwnership, InitJobs DEF RelayInv, Inv
<1>5. RelayInv /\ RelayInv' /\ [Next]_vars => [Relay!Next]_<<owner, list>>
  BY RelayStep
<1> QED
  BY <1>3, <1>4, <1>5, RelayStarts, PTL DEF Spec, ImplementsRelay, Relay!Spec
=============================================================================
