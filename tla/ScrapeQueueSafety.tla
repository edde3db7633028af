-------------------------- MODULE ScrapeQueueSafety --------------------------
(* QueueInv is inductive, and the safety theorems that follow from it.     *)
EXTENDS ScrapeQueueProofs

-----------------------------------------------------------------------------
(* Stages: one step of one thread leaves every stage as it is.             *)

\* Where a thread may be, by what kind of thread it is.
PcsOf(t) == IF t = CheatThread THEN CheatPcs
            ELSE IF t = Lead THEN RequestPcs ELSE RequestPcs \union {"top"}

LEMMA ThreadStep ==
    ASSUME TypeOK, Stages, NEW t \in Threads, job[t].pc # "none",
           NEW r \in JobType, r.pc \in PcsOf(t), job' = [job EXCEPT ![t] = r],
           mgr'.pc = mgr.pc, UNCHANGED <<started, ui>>
    PROVE  Stages'
<1>1. /\ CheatThread \in Threads /\ Lead \in Threads /\ Lead # CheatThread
      /\ \A w \in Workers : w \in Threads /\ w # Lead /\ w # CheatThread
  BY ThreadsAssumption DEF Threads
<1>2. \A u \in Threads : job'[u] = IF u = t THEN r ELSE job[u]
  BY DEF TypeOK
<1>3. t \in Workers \/ t = Lead \/ t = CheatThread
  BY DEF Threads
<1>4. mgr.pc # "none" /\ ui.pc # "startup"
  BY <1>3 DEF Stages, CheatStage, ManagedUi
<1>5. /\ \A w \in Workers : job'[w].pc \in RequestPcs \union {"top"}
      /\ job'[Lead].pc \in RequestPcs
      /\ job'[CheatThread].pc \in CheatPcs
  BY <1>1, <1>2, <1>3 DEF Stages, PcsOf
<1>6. /\ \A w \in Workers : job'[w].pc # "none" => mgr'.pc = "join"
      /\ job'[Lead].pc # "none" => mgr'.pc = "lead"
      /\ job'[CheatThread].pc # "none" => mgr'.pc \in CheatStage
  BY <1>1, <1>2, <1>3 DEF Stages
<1>. QED
  BY <1>4, <1>5, <1>6 DEF Stages

(* What a requesting thread does to its own locals.                        *)
LEMMA RequesterEffect ==
    ASSUME TypeOK, NEW t \in Workers \union {Lead}, Requester(t)
    PROVE  /\ job[t].pc # "none"
           /\ \E r \in JobType : r.pc \in PcsOf(t) /\ job' = [job EXCEPT ![t] = r]
           /\ mgr'.pc = mgr.pc
           /\ UNCHANGED <<nextId, flagVars, ui, batch>>
<1>1. t \in Threads /\ t # CheatThread
  BY ThreadsAssumption DEF Threads
<1>. DEFINE Moves(r) == r \in JobType /\ r.pc \in PcsOf(t) /\ job' = [job EXCEPT ![t] = r]
<1>2. Resume(t) \in JobType /\ Resume(t).pc \in PcsOf(t)
  BY <1>1, ResumeType DEF Resume, At, PcsOf, RequestPcs
<1>3. At("none") \in JobType /\ At("none").pc \in PcsOf(t)
  BY <1>1, AtType, Names DEF At, PcsOf, RequestPcs
<1>4. \A pc \in RequestPcs, ret \in Rets :
        Holding(t, pc, ret) \in JobType /\ Holding(t, pc, ret).pc \in PcsOf(t)
  <2>1. RequestPcs \subseteq JobPcs
    BY Names DEF RequestPcs
  <2>. QED
    BY <1>1, <2>1, HoldingType DEF TypeOK, Holding, PcsOf
<1>5. CASE ClaimItem(t)
  <2>1. CASE job' = [job EXCEPT ![t] = Resume(t)]
    BY <1>2, <1>5, <2>1 DEF ClaimItem
  <2>2. CASE Claimable(job[t].idx, KindOf(t))
    <3>. DEFINE r == [pc |-> "search", idx |-> job[t].idx,
                      id |-> items[job[t].idx].id, ret |-> "none"]
    <3>1. job' = [job EXCEPT ![t] = r]
      BY <1>1, <1>5, <2>2 DEF ClaimItem
    <3>2. items[job[t].idx] \in Item /\ job[t].idx \in Nat
      BY <2>2, ItemAt DEF TypeOK, Claimable
    <3>3. r \in JobType /\ r.pc \in PcsOf(t)
      BY <1>1, <3>2, Names DEF Item, JobType, PcsOf, RequestPcs
    <3>. QED
      BY <1>5, <3>1, <3>3 DEF ClaimItem
  <2>. QED
    BY <1>5, <2>1, <2>2 DEF ClaimItem
<1>6. CASE SearchReturns(t)
  <2>1. PICK ret \in {"found", "not_found", "failed", "cancelled"} :
          job' = [job EXCEPT ![t] = Holding(t, "searched", ret)]
    BY <1>6 DEF SearchReturns
  <2>. QED
    BY <1>4, <1>6, <2>1, Names DEF SearchReturns, RequestPcs, queueVars
<1>7. CASE RecordSearch(t)
  <2>1. \/ job' = [job EXCEPT ![t] = At("none")]
        \/ job' = [job EXCEPT ![t] = Resume(t)]
        \/ job' = [job EXCEPT ![t] = Holding(t, "download", "none")]
    BY <1>7 DEF RecordSearch
  <2>2. mgr'.pc = mgr.pc
    BY <1>7 DEF RecordSearch, TypeOK
  <2>3. Holding(t, "download", "none") \in JobType
        /\ Holding(t, "download", "none").pc \in PcsOf(t)
    BY <1>4, Names DEF RequestPcs
  <2>. QED
    BY <1>2, <1>3, <1>7, <2>1, <2>2, <2>3 DEF RecordSearch
<1>8. CASE DownloadReturns(t)
  <2>1. PICK ret \in {"ok", "failed", "cancelled"} :
          job' = [job EXCEPT ![t] = Holding(t, "downloaded", ret)]
    BY <1>8 DEF DownloadReturns
  <2>. QED
    BY <1>4, <1>8, <2>1, Names DEF DownloadReturns, RequestPcs, queueVars
<1>9. CASE RecordDownload(t)
  <2>1. job' = [job EXCEPT ![t] = At("none")] \/ job' = [job EXCEPT ![t] = Resume(t)]
    BY <1>9 DEF RecordDownload
  <2>. QED
    BY <1>2, <1>3, <1>9, <2>1 DEF RecordDownload
<1>. QED
  BY <1>5, <1>6, <1>7, <1>8, <1>9 DEF Requester

LEMMA CheatsEffect ==
    ASSUME TypeOK, Cheats
    PROVE  /\ job[CheatThread].pc # "none"
           /\ \E r \in JobType : /\ r.pc \in PcsOf(CheatThread)
                                 /\ job' = [job EXCEPT ![CheatThread] = r]
           /\ UNCHANGED <<nextId, flagVars, ui, mgr, batch>>
<1>. DEFINE c == CheatThread
            i == job[c].idx
<1>1. c \in Threads /\ c # Lead /\ PcsOf(c) = CheatPcs
  BY ThreadsAssumption DEF Threads, PcsOf
<1>2. Resume(c) \in JobType /\ Resume(c).pc \in CheatPcs
  BY <1>1, ResumeType DEF Resume, At, CheatPcs
<1>3. At("none") \in JobType /\ At("none").pc \in CheatPcs
  BY AtType, Names DEF At, CheatPcs
<1>4. CASE ClaimItem(c)
  <2>1. CASE job' = [job EXCEPT ![c] = Resume(c)]
    BY <1>1, <1>2, <1>4, <2>1 DEF ClaimItem
  <2>2. CASE Claimable(i, KindOf(c))
    <3>. DEFINE r == [pc |-> "list", idx |-> i, id |-> items[i].id, ret |-> "none"]
    <3>1. job' = [job EXCEPT ![c] = r]
      BY <1>1, <1>4, <2>2 DEF ClaimItem
    <3>2. items[i] \in Item /\ i \in Nat
      BY <2>2, ItemAt DEF TypeOK, Claimable
    <3>3. r \in JobType /\ r.pc \in CheatPcs
      BY <3>2, Names DEF Item, JobType, CheatPcs
    <3>. QED
      BY <1>1, <1>4, <3>1, <3>3 DEF ClaimItem
  <2>. QED
    BY <1>4, <2>1, <2>2 DEF ClaimItem
<1>5. CASE CheatFind
  <2>1. CASE job' = [job EXCEPT ![c] = At("none")]
    BY <1>1, <1>3, <1>5, <2>1 DEF CheatFind, queueVars
  <2>2. CASE \E n \in IdleOf("cheat") : job' = [job EXCEPT ![c] = ClaimAt(n)]
    <3>1. PICK n \in IdleOf("cheat") : job' = [job EXCEPT ![c] = ClaimAt(n)]
      BY <2>2
    <3>2. ClaimAt(n) \in JobType /\ ClaimAt(n).pc \in CheatPcs
      BY IdleOfType, ClaimType DEF TypeOK, ClaimAt, CheatPcs
    <3>. QED
      BY <1>1, <1>5, <3>1, <3>2 DEF CheatFind, queueVars
  <2>. QED
    BY <1>5, <2>1, <2>2 DEF CheatFind
<1>6. CASE CheatListReturns
  <2>1. \/ job' = [job EXCEPT ![c] = Resume(c)]
        \/ \E ret \in {"failed", "ok"} : job' = [job EXCEPT ![c] = Holding(c, "listed", ret)]
    BY <1>6 DEF CheatListReturns
  <2>2. \A ret \in {"failed", "ok"} : Holding(c, "listed", ret) \in JobType
    BY <1>1, HoldingType, Names DEF TypeOK
  <2>3. \A ret : Holding(c, "listed", ret).pc \in CheatPcs
    BY DEF Holding, CheatPcs
  <2>. QED
    BY <1>1, <1>2, <1>6, <2>1, <2>2, <2>3 DEF CheatListReturns
<1>8. CASE RecordCheatList
  <2>1. \/ job' = [job EXCEPT ![c] = Resume(c)]
        \/ job' = [job EXCEPT ![c] = Holding(c, "match", "none")]
    BY <1>8 DEF RecordCheatList
  <2>2. Holding(c, "match", "none") \in JobType
    BY <1>1, HoldingType, Names DEF TypeOK
  <2>3. Holding(c, "match", "none").pc \in CheatPcs
    BY DEF Holding, CheatPcs
  <2>. QED
    BY <1>1, <1>2, <1>8, <2>1, <2>2, <2>3 DEF RecordCheatList
<1>7. CASE CheatMatchReturns
  BY <1>1, <1>2, <1>7 DEF CheatMatchReturns
<1>. QED
  BY <1>4, <1>5, <1>6, <1>7, <1>8 DEF Cheats

LEMMA WorkerTakeEffect ==
    ASSUME TypeOK, NEW w \in Workers, WorkerTake(w)
    PROVE  /\ job[w].pc = "top"
           /\ \E r \in JobType : r.pc \in {"none", "claim"} /\ job' = [job EXCEPT ![w] = r]
           /\ batch'.kind = batch.kind /\ batch'.left \subseteq batch.left
           /\ UNCHANGED <<queueVars, flagVars, ui, mgr>>
<1>1. w \in Threads
  BY DEF Threads
<1>2. CASE job' = [job EXCEPT ![w] = At("none")] /\ UNCHANGED batch
  <2>1. At("none") \in JobType /\ At("none").pc = "none"
    BY AtType, Names DEF At
  <2>. QED
    BY <1>2, <2>1 DEF WorkerTake
<1>3. CASE \E i \in batch.left : /\ job' = [job EXCEPT ![w] = ClaimAt(i)]
                                 /\ batch' = [batch EXCEPT !.left = @ \ {i}]
  <2>1. PICK i \in batch.left : /\ job' = [job EXCEPT ![w] = ClaimAt(i)]
                                /\ batch' = [batch EXCEPT !.left = @ \ {i}]
    BY <1>3
  <2>2. ClaimAt(i) \in JobType /\ ClaimAt(i).pc = "claim"
    BY ClaimType DEF TypeOK, ClaimAt
  <2>3. batch'.kind = batch.kind /\ batch'.left \subseteq batch.left
    BY <2>1 DEF TypeOK
  <2>. QED
    BY <1>3, <2>1, <2>2, <2>3 DEF WorkerTake
<1>. QED
  BY <1>2, <1>3 DEF WorkerTake

-----------------------------------------------------------------------------
(* Stages: the manager moves from stage to stage.                          *)

(* While the manager moves, the caller stays where it is, and threads are  *)
(* only found in the stages that allow them.                               *)
LEMMA ManagerStep ==
    ASSUME Stages, mgr.pc # "none", UNCHANGED <<started, ui>>,
           /\ \A w \in Workers : job'[w].pc \in RequestPcs \union {"top"}
           /\ job'[Lead].pc \in RequestPcs
           /\ job'[CheatThread].pc \in CheatPcs,
           /\ \A w \in Workers : job'[w].pc # "none" => mgr'.pc = "join"
           /\ job'[Lead].pc # "none" => mgr'.pc = "lead"
           /\ job'[CheatThread].pc # "none" => mgr'.pc \in CheatStage
    PROVE  Stages'
<1>1. ui.pc \in ManagedUi /\ started
  BY DEF Stages
<1>2. ui.pc # "startup"
  BY <1>1 DEF ManagedUi
<1>. QED
  BY <1>1, <1>2 DEF Stages

(* The end of a batch, with no requester left.                             *)
LEMMA EndBatchStep ==
    ASSUME TypeOK, EndBatch
    PROVE  /\ mgr'.pc = StageAfter(batch.kind) /\ mgr'.pc \in CheatStage
           /\ batch'.kind = batch.kind /\ batch'.left = {}
<1>1. StageAfter(batch.kind) \in CheatStage
  BY DEF StageAfter, CheatStage
<1>2. mgr'.pc = StageAfter(batch.kind)
  BY DEF EndBatch, TypeOK
<1>. QED
  BY <1>1, <1>2 DEF EndBatch, TypeOK

LEMMA StagesManager == ASSUME TypeOK, Stages, Manager PROVE Stages'
<1>1. /\ CheatThread \in Threads /\ Lead \in Threads /\ Lead # CheatThread
      /\ \A w \in Workers : w \in Threads /\ w # Lead /\ w # CheatThread
  BY ThreadsAssumption DEF Threads
<1>. DEFINE Quiet == \A t \in Threads : job[t].pc = "none"
            NoRequests == \A t \in Workers \union {Lead} : job[t].pc = "none"
<1>2. mgr.pc \in {"loop", "scan", "spawn", "exit"} => Quiet
  BY DEF Stages, CheatStage, Threads
<1>3. mgr.pc \in {"artwork", "manual", "reject", "joincheat"} => NoRequests
  BY DEF Stages
<1>4. CASE ManagerLoop
  <2>1. mgr.pc = "loop" /\ UNCHANGED <<started, ui, job>>
    BY <1>4 DEF ManagerLoop, flagVars
  <2>. QED
    BY <1>1, <1>2, <2>1, ManagerStep DEF Stages
<1>5. CASE ManagerScan
  <2>1. mgr.pc = "scan" /\ UNCHANGED <<started, ui, job>>
    BY <1>5 DEF ManagerScan, flagVars
  <2>. QED
    BY <1>1, <1>2, <2>1, ManagerStep DEF Stages
<1>6. CASE ManagerSpawnCheat \/ ManagerNoCheat
  <2>1. mgr.pc = "spawn" /\ mgr'.pc = "artwork" /\ UNCHANGED <<started, ui>>
    BY <1>6 DEF ManagerSpawnCheat, ManagerNoCheat, ManagerGoto, flagVars, TypeOK
  <2>2. \A t \in Threads : \/ job'[t].pc = "none"
                           \/ t = CheatThread /\ job'[t].pc = "find"
    BY <1>2, <1>6, <2>1 DEF ManagerSpawnCheat, ManagerNoCheat, At, TypeOK
  <2>3. "artwork" \in CheatStage /\ "none" \in RequestPcs
        /\ "none" \in CheatPcs /\ "find" \in CheatPcs
    BY DEF CheatStage, RequestPcs, CheatPcs
  <2>. QED
    BY <1>1, <2>1, <2>2, <2>3, ManagerStep
<1>7. ASSUME NEW kind \in {"artwork", "manual"}, ManagerCollect(kind) PROVE Stages'
  <2>1. mgr.pc = kind /\ NoRequests /\ UNCHANGED <<started, ui>>
    BY <1>3, <1>7 DEF ManagerCollect, flagVars
  <2>2. mgr'.pc \in {"manual", "joincheat", "lead", "reject"}
    BY <1>7 DEF ManagerCollect, ManagerGoto, StageAfter, TypeOK
  <2>3. job' = job \/ (mgr'.pc = "lead" /\ \E i : job' = [job EXCEPT ![Lead] = ClaimAt(i)])
    BY <1>7 DEF ManagerCollect, ManagerGoto, TypeOK
  <2>4. CASE job' = job
    BY <1>1, <2>1, <2>2, <2>4, ManagerStep DEF Stages, CheatStage
  <2>5. CASE mgr'.pc = "lead" /\ \E i : job' = [job EXCEPT ![Lead] = ClaimAt(i)]
    <3>1. PICK i : job' = [job EXCEPT ![Lead] = ClaimAt(i)]
      BY <2>5
    <3>2. /\ job'[Lead].pc = "claim"
          /\ \A t \in Threads : t # Lead => job'[t] = job[t]
      BY <1>1, <3>1 DEF TypeOK, ClaimAt
    <3>3. "claim" \in RequestPcs /\ "lead" \in CheatStage
      BY DEF RequestPcs, CheatStage
    <3>. QED
      BY <1>1, <2>1, <2>5, <3>2, <3>3, ManagerStep DEF Stages
  <2>. QED
    BY <2>3, <2>4, <2>5
<1>8. CASE ManagerReject
  <2>1. mgr.pc = "reject" /\ UNCHANGED <<started, ui, job>>
    BY <1>8 DEF ManagerReject, flagVars
  <2>2. mgr'.pc \in CheatStage
    BY <1>8, <2>1, EndBatchStep DEF ManagerReject, CheatStage
  <2>. QED
    BY <1>1, <1>3, <2>1, <2>2, ManagerStep DEF Stages
<1>9. CASE ManagerFanOut
  <2>1. mgr.pc = "lead" /\ job[Lead].pc = "none" /\ UNCHANGED <<started, ui>>
    BY <1>9 DEF ManagerFanOut, flagVars
  <2>2. \A w \in Workers : job[w].pc = "none"
    BY <2>1 DEF Stages
  <2>3. CASE EndBatch /\ UNCHANGED job
    BY <1>1, <2>1, <2>2, <2>3, EndBatchStep, ManagerStep DEF Stages
  <2>4. CASE /\ ManagerGoto("join")
             /\ \E W \in SUBSET Workers :
                   job' = [t \in Threads |-> IF t \in W THEN At("top") ELSE job[t]]
    <3>1. PICK W \in SUBSET Workers :
             job' = [t \in Threads |-> IF t \in W THEN At("top") ELSE job[t]]
      BY <2>4
    <3>2. mgr'.pc = "join" /\ "join" \in CheatStage
      BY <2>4 DEF ManagerGoto, TypeOK, CheatStage
    <3>3. /\ \A w \in Workers : job'[w].pc \in {"none", "top"}
          /\ job'[Lead] = job[Lead] /\ job'[CheatThread] = job[CheatThread]
      BY <1>1, <2>2, <3>1 DEF At
    <3>. QED
      BY <1>1, <2>1, <3>2, <3>3, ManagerStep DEF Stages, RequestPcs
  <2>. QED
    BY <1>9, <2>3, <2>4 DEF ManagerFanOut
<1>10. CASE ManagerJoinWorkers
  <2>1. /\ mgr.pc = "join" /\ \A w \in Workers : job[w].pc = "none"
        /\ EndBatch /\ UNCHANGED <<started, ui, job>>
    BY <1>10 DEF ManagerJoinWorkers, flagVars
  <2>. QED
    BY <1>1, <2>1, EndBatchStep, ManagerStep DEF Stages
<1>11. CASE ManagerJoinCheat
  <2>1. /\ mgr.pc = "joincheat" /\ job[CheatThread].pc = "none"
        /\ UNCHANGED <<started, ui, job>>
    BY <1>11 DEF ManagerJoinCheat, CheatJoined, flagVars
  <2>. QED
    BY <1>1, <1>3, <2>1, ManagerStep DEF Stages
<1>12. CASE ManagerExit
  <2>1. mgr.pc = "exit" /\ UNCHANGED <<started, ui, job>>
    BY <1>12 DEF ManagerExit
  <2>. QED
    BY <1>1, <1>2, <2>1, ManagerStep DEF Stages
<1>. QED
  BY <1>4, <1>5, <1>6, <1>7, <1>8, <1>9, <1>10, <1>11, <1>12 DEF Manager

-----------------------------------------------------------------------------
(* Stages: the calls of the API.                                           *)

\* No manager: whatever the caller does, no thread appears.
LEMMA CallStep ==
    ASSUME Stages, UNCHANGED job, mgr'.pc = mgr.pc,
           mgr.pc # "none" => started' /\ ui'.pc \in ManagedUi,
           ui'.pc = "spawn" => started',
           ui'.pc = "startup" => items' = <<>>
    PROVE  Stages'
  BY DEF Stages

LEMMA StagesCalls == ASSUME TypeOK, Stages, Calls PROVE Stages'
<1>1. CASE StartEmpty
  <2>1. /\ ui.pc = "startup" /\ ui'.pc = "ready"
        /\ UNCHANGED <<started, mgr, job>>
    BY <1>1 DEF StartEmpty, flagVars, threadVars
  <2>. QED
    BY <2>1, CallStep DEF Stages, ManagedUi
<1>2. ASSUME NEW s, NEW lost, QueueLoadItems(s, lost), ui.pc \in {"startup", "handed"}
      PROVE  Stages'
  <2>1. ui'.pc \in {"ensure", "ready"} /\ UNCHANGED <<started, mgr, job>>
    BY <1>2 DEF QueueLoadItems, flagVars, threadVars
  <2>. QED
    BY <1>2, <2>1, CallStep DEF Stages, ManagedUi
<1>3. ASSUME NEW type \in Kinds, NEW rom \in Roms, NEW force \in Forces,
             QueueAdd(type, rom, force)
      PROVE  Stages'
  <2>1. ui'.pc = "ensure" /\ UNCHANGED <<started, mgr, job>>
    BY <1>3 DEF QueueAdd, UiGoto, TypeOK, flagVars, threadVars
  <2>. QED
    BY <2>1, CallStep DEF Stages, ManagedUi
<1>4. CASE QueueClearDone \/ QueueCheckDirty
  <2>1. ui.pc = "ready" /\ UNCHANGED <<started, ui, mgr, job>>
    BY <1>4 DEF QueueClearDone, QueueCheckDirty, UiReady, flagVars, threadVars
  <2>. QED
    BY <2>1, CallStep DEF Stages, ManagedUi
<1>5. ASSUME NEW op \in {"cancel", "handoff", "mapping"}, BeginStop(op) PROVE Stages'
  <2>1. ui'.pc = "stopping" /\ UNCHANGED <<started, mgr, job>>
    BY <1>5 DEF BeginStop, threadVars
  <2>. QED
    BY <2>1, CallStep DEF Stages, ManagedUi
<1>6. CASE BeginShutdown
  <2>1. ui'.pc = "closing" /\ UNCHANGED <<started, mgr, job>>
    BY <1>6 DEF BeginShutdown, threadVars
  <2>. QED
    BY <2>1, CallStep DEF Stages, ManagedUi
<1>7. CASE EndMappingEdit
  <2>1. /\ ui.pc = "editing" /\ ui'.pc = "ready"
        /\ UNCHANGED <<started, mgr, job>>
    BY <1>7 DEF EndMappingEdit, flagVars, threadVars
  <2>. QED
    BY <2>1, CallStep DEF Stages, ManagedUi
<1>. QED
  BY <1>1, <1>2, <1>3, <1>4, <1>5, <1>6, <1>7 DEF Calls, StartFromFile, LaunchFailed

(* The join: no manager is left, and with it no other thread.              *)
LEMMA JoinedIsQuiet ==
    ASSUME TypeOK, Stages, ManagerJoined
    PROVE  \A t \in Threads : job[t].pc = "none"
<1>1. mgr.pc \in {"none", "exited"}
  BY DEF Stages, ManagerJoined
<1>. QED
  BY <1>1 DEF Stages, CheatStage, Threads

LEMMA StagesInCall == ASSUME TypeOK, Stages, InCall PROVE Stages'
<1>1. CASE EnsureManagerStarted
  <2>1. /\ ui.pc = "ensure" /\ UNCHANGED <<mgr, job>> /\ (started => started')
        /\ ui'.pc = IF started THEN "ready" ELSE "spawn"
        /\ ui'.pc = "spawn" => started'
    BY <1>1 DEF EnsureManagerStarted, UiGoto, TypeOK, flagVars, threadVars
  <2>. QED
    BY <2>1, CallStep DEF Stages, ManagedUi
<1>2. CASE SpawnManager
  <2>1. /\ ui.pc = "spawn" /\ ui'.pc = "ready" /\ mgr'.pc = "loop"
        /\ UNCHANGED <<started, job>>
    BY <1>2 DEF SpawnManager, ManagerGoto, UiGoto, TypeOK, flagVars
  <2>2. mgr.pc = "none" /\ started
    BY <2>1 DEF Stages, ManagedUi
  <2>. QED
    BY <2>1, <2>2 DEF Stages, ManagedUi, CheatStage
<1>3. CASE SpawnManagerFails
  <2>1. ui.pc = "spawn" /\ ui'.pc = "ready" /\ UNCHANGED <<mgr, job>>
    BY <1>3 DEF SpawnManagerFails, UiGoto, TypeOK, threadVars
  <2>. QED
    BY <2>1, CallStep DEF Stages, ManagedUi
<1>4. CASE ShutdownInterrupts
  <2>1. /\ ui.pc = "closing" /\ UNCHANGED <<started, mgr, job>>
        /\ ui'.pc = IF started THEN "stopping" ELSE "finish"
    BY <1>4 DEF ShutdownInterrupts, UiGoto, TypeOK, queueVars, threadVars
  <2>. QED
    BY <2>1, CallStep DEF Stages, ManagedUi
<1>5. CASE StopManagerForTransition
  <2>1. /\ ManagerJoined /\ mgr'.pc = "none" /\ ui'.pc = "finish" /\ UNCHANGED job
    BY <1>5 DEF StopManagerForTransition, UiGoto, TypeOK
  <2>2. \A t \in Threads : job'[t].pc = "none"
    BY <2>1, JoinedIsQuiet
  <2>. QED
    BY <2>1, <2>2 DEF Stages, Threads, RequestPcs, CheatPcs
<1>6. CASE FinishCancel
  <2>1. ui.pc = "finish" /\ ui'.pc = "ready" /\ UNCHANGED <<mgr, job>>
    BY <1>6 DEF FinishCancel, threadVars
  <2>. QED
    BY <2>1, CallStep DEF Stages, ManagedUi
<1>7. CASE FinishHandoff \/ FinishMapping \/ FinishShutdown
  <2>1. /\ ui.pc = "finish" /\ ui'.pc \in {"handed", "ready", "editing", "closed"}
        /\ UNCHANGED <<mgr, job>>
    BY <1>7 DEF FinishHandoff, FinishMapping, FinishShutdown, UiGoto, TypeOK, threadVars
  <2>. QED
    BY <2>1, CallStep DEF Stages, ManagedUi
<1>. QED
  BY <1>1, <1>2, <1>3, <1>4, <1>5, <1>6, <1>7 DEF InCall

LEMMA StagesInit == Init => Stages
  BY ThreadsAssumption DEF Init, Stages, At, Threads, RequestPcs, CheatPcs

LEMMA StagesNext == ASSUME TypeOK, Stages, [Next]_vars PROVE Stages'
<1>1. CASE Calls
  BY <1>1, StagesCalls
<1>2. CASE InCall
  BY <1>2, StagesInCall
<1>3. CASE Closed \/ UNCHANGED vars
  BY <1>3 DEF Closed, Stages, vars
<1>4. CASE Manager
  BY <1>4, StagesManager
<1>5. ASSUME NEW t \in Workers \union {Lead}, Requester(t) PROVE Stages'
  BY <1>5, RequesterEffect, ThreadStep DEF Threads, flagVars
<1>6. ASSUME NEW w \in Workers, WorkerTake(w) PROVE Stages'
  <2>1. w \in Threads /\ PcsOf(w) = RequestPcs \union {"top"}
    BY ThreadsAssumption DEF Threads, PcsOf
  <2>. QED
    BY <1>6, <2>1, WorkerTakeEffect, ThreadStep DEF flagVars, RequestPcs
<1>7. CASE Cheats
  BY <1>7, CheatsEffect, ThreadStep DEF Threads, flagVars
<1>. QED
  BY <1>1, <1>2, <1>3, <1>4, <1>5, <1>6, <1>7 DEF Next

LEMMA StagesAlways == Spec => [](TypeOK /\ Stages)
  BY TypeInit, TypeNext, StagesInit, StagesNext, PTL DEF Spec

(* After a stop, a handoff, a mapping edit or a shutdown no thread of the  *)
(* queue is left, for any number of pool threads: the join of the manager  *)
(* is enough, because the manager joins its threads stage by stage.        *)
THEOREM StopIsQuiet == Spec => []StoppedIsQuiet
<1>1. Stages => StoppedIsQuiet
  BY DEF Stages, StoppedIsQuiet, NoThreads, ManagerAlive, Threads, ManagedUi, CheatStage
<1>. QED
  BY <1>1, StagesAlways, PTL

-----------------------------------------------------------------------------
(* Claims.  A step of a thread either works on the one item it holds or    *)
(* now claims, or gives its item up (or has none) and changes no item.     *)

\* At most the status of item i changes.
OnlyStatus(i) ==
    /\ DOMAIN items' = DOMAIN items
    /\ \A j \in DOMAIN items :
          /\ items'[j].id = items[j].id /\ items'[j].type = items[j].type
          /\ items'[j].rom = items[j].rom
          /\ j # i => items'[j] = items[j]
OthersStay(t) == \A u \in Threads : u # t => job'[u] = job[u]

Works(t, i) ==
    /\ i \in DOMAIN items
    /\ (Working(t) /\ i = job[t].idx) \/ Claimable(i, KindOf(t))
    /\ OnlyStatus(i) /\ OthersStay(t)
    /\ Working(t)' => /\ job'[t].idx = i /\ job'[t].id = items[i].id
                      /\ items'[i].status \in Active
Rests(t) == UNCHANGED items /\ OthersStay(t) /\ ~Working(t)'

LEMMA StatusOnly ==
    ASSUME TypeOK, NEW i, NEW status \in Statuses, SetStatus(i, status)
    PROVE  OnlyStatus(i) /\ (i \in DOMAIN items => items'[i].status = status)
<1>1. /\ DOMAIN items' = DOMAIN items
      /\ \A j \in DOMAIN items :
            items'[j] = IF j = i THEN [items[j] EXCEPT !.status = status] ELSE items[j]
  BY SetStatusEffect DEF TypeOK
<1>2. \A j \in DOMAIN items : items[j] \in Item
  BY ItemAt DEF TypeOK
<1>. QED
  BY <1>1, <1>2 DEF OnlyStatus, Item

LEMMA JobStays ==
    ASSUME TypeOK, NEW t \in Threads, NEW r, job' = [job EXCEPT ![t] = r]
    PROVE  OthersStay(t) /\ job'[t] = r
  BY DEF TypeOK, OthersStay

(* Recording a result, or moving on to the next call.                      *)
LEMMA RecordWorks ==
    ASSUME TypeOK, Claims, NEW t \in Threads, Working(t),
           NEW status \in Statuses, SetStatus(job[t].idx, status),
           NEW r, job' = [job EXCEPT ![t] = r],
           r.pc \in WorkingPcs => /\ status \in Active
                                  /\ r.idx = job[t].idx /\ r.id = job[t].id
    PROVE  Works(t, job[t].idx)
<1>1. job[t].idx \in DOMAIN items /\ items[job[t].idx].id = job[t].id
  BY DEF Claims, ClaimsStayValid
<1>2. /\ OnlyStatus(job[t].idx) /\ items'[job[t].idx].status = status
      /\ OthersStay(t) /\ job'[t] = r
  BY <1>1, StatusOnly, JobStays
<1>. QED
  BY <1>1, <1>2 DEF Works, Working

(* A call returns: nothing but the thread's own locals changes.            *)
LEMMA ReturnWorks ==
    ASSUME TypeOK, Claims, NEW t \in Threads, Working(t), UNCHANGED items,
           NEW pc, NEW ret, job' = [job EXCEPT ![t] = Holding(t, pc, ret)]
    PROVE  Works(t, job[t].idx)
<1>1. /\ job[t].idx \in DOMAIN items /\ items[job[t].idx].id = job[t].id
      /\ items[job[t].idx].status \in Active
  BY DEF Claims, ClaimsStayValid
<1>2. OthersStay(t) /\ job'[t] = Holding(t, pc, ret)
  BY JobStays
<1>. QED
  BY <1>1, <1>2 DEF Works, Working, OnlyStatus, Holding

LEMMA GivesUp ==
    ASSUME TypeOK, NEW t \in Threads, UNCHANGED items,
           NEW r, r.pc \notin WorkingPcs, job' = [job EXCEPT ![t] = r]
    PROVE  Rests(t)
  BY JobStays DEF Rests, Working

LEMMA IdlePcs ==
    /\ \A t : Resume(t).pc \notin WorkingPcs
    /\ At("none").pc \notin WorkingPcs
    /\ \A i : ClaimAt(i).pc \notin WorkingPcs
  BY DEF Resume, At, ClaimAt, WorkingPcs

LEMMA ClaimWorks ==
    ASSUME TypeOK, NEW t \in Threads, ClaimItem(t)
    PROVE  (\E i \in DOMAIN items : Works(t, i)) \/ Rests(t)
<1>. DEFINE i == job[t].idx
<1>1. CASE Claimable(i, KindOf(t))
  <2>1. PICK s \in IF t = CheatThread THEN {"cloning", "matching"} ELSE {"searching"} :
          SetStatus(i, s)
    BY <1>1 DEF ClaimItem
  <2>2. s \in Active /\ s \in Statuses /\ i \in DOMAIN items
    BY <1>1, <2>1 DEF Active, Statuses, Claimable
  <2>3. OnlyStatus(i) /\ items'[i].status = s
    BY <2>1, <2>2, StatusOnly
  <2>4. OthersStay(t) /\ job'[t].idx = i /\ job'[t].id = items[i].id
    BY <1>1, JobStays DEF ClaimItem
  <2>. QED
    BY <1>1, <2>2, <2>3, <2>4 DEF Works
<1>2. CASE ~Claimable(i, KindOf(t))
  BY <1>2, IdlePcs, GivesUp DEF ClaimItem
<1>. QED
  BY <1>1, <1>2

LEMMA RequesterWorks ==
    ASSUME TypeOK, Claims, NEW t \in Workers \union {Lead}, Requester(t)
    PROVE  (\E i \in DOMAIN items : Works(t, i)) \/ Rests(t)
<1>1. t \in Threads
  BY DEF Threads
<1>2. Working(t) => job[t].idx \in DOMAIN items
  BY <1>1 DEF Claims, ClaimsStayValid
<1>. DEFINE i == job[t].idx
<1>3. CASE ClaimItem(t)
  BY <1>1, <1>3, ClaimWorks
<1>4. CASE SearchReturns(t)
  <2>1. Working(t) /\ UNCHANGED items
    BY <1>4 DEF SearchReturns, Working, WorkingPcs, queueVars
  <2>2. \E ret : job' = [job EXCEPT ![t] = Holding(t, "searched", ret)]
    BY <1>4 DEF SearchReturns
  <2>. QED
    BY <1>1, <1>2, <2>1, <2>2, ReturnWorks
<1>5. CASE RecordSearch(t)
  <2>0. Working(t)
    BY <1>5 DEF RecordSearch, Working, WorkingPcs
  <2>1. CASE job[t].ret = "cancelled"
    BY <1>1, <1>5, <2>1, IdlePcs, GivesUp DEF RecordSearch
  <2>2. CASE job[t].ret \in {"not_found", "failed"}
    <3>1. \E s \in {"error", "not_found"} : SetStatus(i, s)
      BY <1>5, <2>2 DEF RecordSearch
    <3>2. job' = [job EXCEPT ![t] = Resume(t)]
      BY <1>5, <2>2 DEF RecordSearch
    <3>. QED
      BY <1>1, <1>2, <2>0, <3>1, <3>2, Names, IdlePcs, RecordWorks
  <2>3. CASE job[t].ret = "found"
    <3>1. /\ SetStatus(i, "downloading") /\ "downloading" \in Statuses
          /\ "downloading" \in Active
          /\ job' = [job EXCEPT ![t] = Holding(t, "download", "none")]
      BY <1>5, <2>3, Names DEF RecordSearch, Active
    <3>2. /\ Holding(t, "download", "none").idx = job[t].idx
          /\ Holding(t, "download", "none").id = job[t].id
      BY DEF Holding
    <3>. QED
      BY <1>1, <1>2, <2>0, <3>1, <3>2, RecordWorks
  <2>. QED
    BY <1>5, <2>1, <2>2, <2>3 DEF RecordSearch
<1>6. CASE DownloadReturns(t)
  <2>1. Working(t) /\ UNCHANGED items
    BY <1>6 DEF DownloadReturns, Working, WorkingPcs, queueVars
  <2>2. \E ret : job' = [job EXCEPT ![t] = Holding(t, "downloaded", ret)]
    BY <1>6 DEF DownloadReturns
  <2>. QED
    BY <1>1, <1>2, <2>1, <2>2, ReturnWorks
<1>7. CASE RecordDownload(t)
  <2>0. Working(t)
    BY <1>7 DEF RecordDownload, Working, WorkingPcs
  <2>1. CASE job' = [job EXCEPT ![t] = At("none")] /\ UNCHANGED items
    BY <1>1, <2>1, IdlePcs, GivesUp
  <2>2. CASE /\ \E s \in {"done", "error"} : SetStatus(i, s)
             /\ job' = [job EXCEPT ![t] = Resume(t)]
    BY <1>1, <1>2, <2>0, <2>2, Names, IdlePcs, RecordWorks
  <2>. QED
    BY <1>7, <2>1, <2>2 DEF RecordDownload
<1>. QED
  BY <1>3, <1>4, <1>5, <1>6, <1>7 DEF Requester

LEMMA CheatsWork ==
    ASSUME TypeOK, Claims, Cheats
    PROVE  (\E i \in DOMAIN items : Works(CheatThread, i)) \/ Rests(CheatThread)
<1>. DEFINE c == CheatThread
            i == job[c].idx
<1>1. c \in Threads
  BY DEF Threads
<1>2. Working(c) => i \in DOMAIN items
  BY <1>1 DEF Claims, ClaimsStayValid
<1>3. CASE ClaimItem(c)
  BY <1>1, <1>3, ClaimWorks
<1>4. CASE CheatFind
  <2>1. /\ UNCHANGED items
        /\ \/ job' = [job EXCEPT ![c] = At("none")]
           \/ \E n : job' = [job EXCEPT ![c] = ClaimAt(n)]
    BY <1>4 DEF CheatFind, queueVars
  <2>. QED
    BY <1>1, <2>1, IdlePcs, GivesUp
<1>5. CASE CheatListReturns
  <2>0. Working(c)
    BY <1>5 DEF CheatListReturns, Working, WorkingPcs
  <2>1. CASE UNCHANGED items /\ job' = [job EXCEPT ![c] = Resume(c)]
    BY <1>1, <2>1, IdlePcs, GivesUp
  <2>2. CASE /\ SetStatus(i, "skipped")
             /\ job' = [job EXCEPT ![c] = Resume(c)]
    BY <1>1, <1>2, <2>0, <2>2, Names, IdlePcs, RecordWorks
  <2>3. CASE /\ UNCHANGED items
             /\ \E ret : job' = [job EXCEPT ![c] = Holding(c, "listed", ret)]
    BY <1>1, <1>2, <2>0, <2>3, ReturnWorks
  <2>. QED
    BY <1>5, <2>1, <2>2, <2>3 DEF CheatListReturns
<1>7. CASE RecordCheatList
  <2>0. Working(c)
    BY <1>7 DEF RecordCheatList, Working, WorkingPcs
  <2>1. CASE /\ SetStatus(i, "error")
             /\ job' = [job EXCEPT ![c] = Resume(c)]
    BY <1>1, <1>2, <2>0, <2>1, Names, IdlePcs, RecordWorks
  <2>2. CASE /\ SetStatus(i, "matching")
             /\ job' = [job EXCEPT ![c] = Holding(c, "match", "none")]
    <3>1. /\ "matching" \in Statuses /\ "matching" \in Active
          /\ Holding(c, "match", "none").idx = i /\ Holding(c, "match", "none").id = job[c].id
      BY Names DEF Active, Holding
    <3>. QED
      BY <1>1, <1>2, <2>0, <2>2, <3>1, RecordWorks
  <2>. QED
    BY <1>7, <2>1, <2>2 DEF RecordCheatList
<1>6. CASE CheatMatchReturns
  <2>0. Working(c)
    BY <1>6 DEF CheatMatchReturns, Working, WorkingPcs
  <2>1. /\ \E s \in {"done", "not_found", "error"} : SetStatus(i, s)
        /\ job' = [job EXCEPT ![c] = Resume(c)]
    BY <1>6 DEF CheatMatchReturns
  <2>. QED
    BY <1>1, <1>2, <2>0, <2>1, Names, IdlePcs, RecordWorks
<1>. QED
  BY <1>3, <1>4, <1>5, <1>6, <1>7 DEF Cheats

-----------------------------------------------------------------------------
(* Claims are preserved.                                                   *)

(* Items other than the one a thread works on are not claimed by it, and   *)
(* the one it works on is nobody else's.                                   *)
LEMMA NobodyElse ==
    ASSUME TypeOK, Claims, NEW t \in Threads, NEW i, Works(t, i),
           NEW u \in Threads, u # t, Working(u)
    PROVE  job[u].idx # i
<1>1. job[u].idx \in DOMAIN items /\ items[job[u].idx].status \in Active
  BY DEF Claims, ClaimsStayValid
<1>2. CASE Working(t) /\ i = job[t].idx
  BY <1>2 DEF Claims, ExclusiveClaims
<1>3. CASE Claimable(i, KindOf(t))
  BY <1>1, <1>3 DEF Claimable, Active
<1>. QED
  BY <1>2, <1>3 DEF Works

LEMMA KindStays ==
    ASSUME batch'.kind = batch.kind, NEW t
    PROVE  KindOf(t)' = KindOf(t)
  BY DEF KindOf

LEMMA WorkKeepsClaims ==
    ASSUME TypeOK, Stages, Claims, NEW t \in Threads, job[t].pc # "none",
           NEW i \in DOMAIN items, Works(t, i),
           batch'.kind = batch.kind, batch'.left \subseteq batch.left, mgr'.pc = mgr.pc
    PROVE  Claims'
<1>. DEFINE Good(u) == /\ job[u].idx \in DOMAIN items
                       /\ items[job[u].idx].id = job[u].id
                       /\ items[job[u].idx].type = KindOf(u)
                       /\ items[job[u].idx].status \in Active
<1>1. ASSUME NEW u \in Threads, u # t, Working(u)' PROVE Good(u)' /\ job'[u].idx # i
  <2>1. job'[u] = job[u] /\ Working(u)
    BY <1>1 DEF Works, OthersStay, Working
  <2>2. Good(u) /\ job[u].idx # i
    BY <1>1, <2>1, NobodyElse DEF Claims, ClaimsStayValid
  <2>3. items'[job[u].idx] = items[job[u].idx] /\ job[u].idx \in DOMAIN items'
    BY <2>2 DEF Works, OnlyStatus
  <2>. QED
    BY <2>1, <2>2, <2>3, KindStays
<1>2. ASSUME Working(t)' PROVE Good(t)' /\ job'[t].idx = i
  <2>1. /\ job'[t].idx = i /\ job'[t].id = items[i].id /\ items'[i].status \in Active
        /\ i \in DOMAIN items' /\ items'[i].id = items[i].id
        /\ items'[i].type = items[i].type
    BY <1>2 DEF Works, OnlyStatus
  <2>2. items[i].type = KindOf(t)
    BY DEF Works, Claims, ClaimsStayValid, Claimable
  <2>. QED
    BY <2>1, <2>2, KindStays
<1>3. ClaimsStayValid'
  BY <1>1, <1>2 DEF ClaimsStayValid
<1>4. ExclusiveClaims'
  <2>1. ASSUME NEW u \in Threads, NEW v \in Threads, u # t, v # t,
               Working(u)', Working(v)', job'[u].idx = job'[v].idx
        PROVE  u = v
    <3>1. job'[u] = job[u] /\ job'[v] = job[v] /\ Working(u) /\ Working(v)
      BY <2>1 DEF Works, OthersStay, Working
    <3>. QED
      BY <2>1, <3>1 DEF Claims, ExclusiveClaims
  <2>. QED
    BY <1>1, <1>2, <2>1 DEF ExclusiveClaims
<1>5. RejectsAreIdle'
  <2>. SUFFICES ASSUME mgr.pc = "reject", NEW j \in batch.left
                PROVE  /\ j \in DOMAIN items' /\ items'[j].type = batch.kind
                       /\ items'[j].status = "idle"
    BY DEF RejectsAreIdle
  <2>1. j \in DOMAIN items /\ items[j].type = batch.kind /\ items[j].status = "idle"
    BY DEF Claims, RejectsAreIdle
  <2>2. t = CheatThread
    BY DEF Stages, Threads
  <2>3. items[i].type = "cheat"
    BY <2>2 DEF Works, Claims, ClaimsStayValid, Claimable, KindOf
  <2>4. j # i
    BY <2>1, <2>3 DEF TypeOK
  <2>. QED
    BY <2>1, <2>4 DEF Works, OnlyStatus
<1>. QED
  BY <1>3, <1>4, <1>5 DEF Claims

LEMMA RestKeepsClaims ==
    ASSUME Claims, NEW t \in Threads, Rests(t),
           batch'.kind = batch.kind, batch'.left \subseteq batch.left, mgr'.pc = mgr.pc
    PROVE  Claims'
<1>1. \A u \in Threads : Working(u)' => u # t /\ job'[u] = job[u] /\ Working(u)
  BY DEF Rests, OthersStay, Working
<1>2. ClaimsStayValid'
  BY <1>1, KindStays DEF Rests, Claims, ClaimsStayValid
<1>3. ExclusiveClaims'
  BY <1>1 DEF Claims, ExclusiveClaims
<1>4. RejectsAreIdle'
  BY DEF Rests, Claims, RejectsAreIdle
<1>. QED
  BY <1>2, <1>3, <1>4 DEF Claims

(* Nobody works: nothing to keep.                                          *)
LEMMA QuietClaims ==
    ASSUME \A t \in Threads : job[t].pc = "none", mgr.pc # "reject"
    PROVE  Claims
  BY DEF Claims, ClaimsStayValid, ExclusiveClaims, RejectsAreIdle, Working, WorkingPcs

(* Steps that leave every item and every working thread alone, except that *)
(* threads that were not working may start or end.                         *)
LEMMA SameWorkKeepsClaims ==
    ASSUME Claims, UNCHANGED items,
           \A t \in Threads : Working(t)' => /\ Working(t) /\ job'[t] = job[t]
                                             /\ KindOf(t)' = KindOf(t),
           mgr'.pc = "reject" => mgr.pc = "reject" /\ UNCHANGED batch
    PROVE  Claims'
<1>1. ClaimsStayValid'
  BY DEF Claims, ClaimsStayValid
<1>2. ExclusiveClaims'
  BY DEF Claims, ExclusiveClaims
<1>3. RejectsAreIdle'
  BY DEF Claims, RejectsAreIdle
<1>. QED
  BY <1>1, <1>2, <1>3 DEF Claims

LEMMA NotRejecting ==
    \A kind : StageAfter(kind) # "reject" /\ StageAfter(kind) \in {"manual", "joincheat"}
  BY DEF StageAfter

LEMMA ClaimsManager == ASSUME TypeOK, Stages, Claims, Manager PROVE Claims'
<1>1. /\ CheatThread \in Threads /\ Lead \in Threads /\ Lead # CheatThread
      /\ \A w \in Workers : w \in Threads /\ w # Lead /\ w # CheatThread
      /\ \A t \in Threads : t \in Workers \/ t = Lead \/ t = CheatThread
  BY ThreadsAssumption DEF Threads
<1>2. CASE ManagerLoop \/ ManagerScan \/ ManagerNoCheat \/ ManagerJoinCheat \/ ManagerExit
  <2>1. UNCHANGED <<items, batch, job>> /\ mgr'.pc # "reject"
    BY <1>2 DEF ManagerLoop, ManagerScan, ManagerNoCheat, ManagerJoinCheat, ManagerExit,
                ManagerGoto, TypeOK, queueVars
  <2>. QED
    BY <2>1, SameWorkKeepsClaims DEF Working, KindOf
<1>3. CASE ManagerSpawnCheat
  <2>1. /\ UNCHANGED <<items, batch>> /\ mgr'.pc # "reject"
        /\ job' = [job EXCEPT ![CheatThread] = At("find")]
    BY <1>3 DEF ManagerSpawnCheat, ManagerGoto, TypeOK, queueVars
  <2>2. OthersStay(CheatThread) /\ job'[CheatThread].pc \notin WorkingPcs
    <3>1. At("find").pc \notin WorkingPcs
      BY DEF At, WorkingPcs
    <3>. QED
      BY <1>1, <2>1, <3>1, JobStays
  <2>. QED
    BY <2>1, <2>2, SameWorkKeepsClaims DEF Working, KindOf, OthersStay
<1>4. ASSUME NEW kind \in {"artwork", "manual"}, ManagerCollect(kind) PROVE Claims'
  <2>1. \A t \in Threads : t # CheatThread => job[t].pc = "none"
    BY <1>1, <1>4 DEF ManagerCollect, Stages
  <2>2. \/ UNCHANGED job
        \/ \E i : job' = [job EXCEPT ![Lead] = ClaimAt(i)]
    BY <1>4 DEF ManagerCollect
  <2>3. \A t \in Threads : Working(t)' => job'[t] = job[t] /\ Working(t)
    BY <1>1, <2>2, JobStays, IdlePcs DEF Working, OthersStay
  <2>4. \A t \in Threads : Working(t) => t = CheatThread
    BY <2>1 DEF Working, WorkingPcs
  <2>5. \A t \in Threads : Working(t)' => KindOf(t)' = KindOf(t)
    BY <2>3, <2>4 DEF KindOf
  <2>6. UNCHANGED items
    BY <1>4 DEF ManagerCollect, queueVars
  <2>7. CASE mgr'.pc # "reject"
    BY <2>3, <2>5, <2>6, <2>7, SameWorkKeepsClaims
  <2>8. CASE mgr'.pc = "reject"
    <3>1. batch' = [kind |-> kind,
                    left |-> IF kind \in mgr.todo /\ ~interrupt THEN IdleOf(kind) ELSE {}]
      BY <1>4, <2>8, NotRejecting DEF ManagerCollect, ManagerGoto, TypeOK
    <3>2. RejectsAreIdle'
      BY <2>6, <3>1 DEF RejectsAreIdle, IdleOf
    <3>3. ClaimsStayValid' /\ ExclusiveClaims'
      BY <2>3, <2>5, <2>6 DEF Claims, ClaimsStayValid, ExclusiveClaims
    <3>. QED
      BY <3>2, <3>3 DEF Claims
  <2>. QED
    BY <2>7, <2>8
<1>5. CASE ManagerReject
  <2>1. CASE EndBatch /\ UNCHANGED items
    <3>1. mgr'.pc # "reject" /\ batch'.kind = batch.kind /\ UNCHANGED job
      BY <1>5, <2>1, EndBatchStep, NotRejecting DEF ManagerReject
    <3>. QED
      BY <2>1, <3>1, KindStays, SameWorkKeepsClaims DEF Working
  <2>2. CASE \E i \in batch.left : /\ SetStatus(i, "error")
                                   /\ batch' = [batch EXCEPT !.left = @ \ {i}]
    <3>1. PICK i \in batch.left : /\ SetStatus(i, "error")
                                  /\ batch' = [batch EXCEPT !.left = @ \ {i}]
      BY <2>2
    <3>2. mgr.pc = "reject" /\ UNCHANGED job
      BY <1>5 DEF ManagerReject
    <3>3. batch'.kind = batch.kind /\ batch'.left = batch.left \ {i}
      BY <3>1 DEF TypeOK
    <3>4. OnlyStatus(i)
      BY <3>1, StatusOnly, Names
    <3>5. items[i].status = "idle"
      BY <3>1, <3>2 DEF Claims, RejectsAreIdle
    <3>6. \A t \in Threads : Working(t) =>
             job[t].idx # i /\ items'[job[t].idx] = items[job[t].idx]
      BY <3>4, <3>5 DEF Claims, ClaimsStayValid, OnlyStatus, Active
    <3>7. ClaimsStayValid'
      BY <3>2, <3>3, <3>4, <3>6, KindStays
      DEF Claims, ClaimsStayValid, Working, OnlyStatus
    <3>8. ExclusiveClaims'
      BY <3>2 DEF Claims, ExclusiveClaims, Working
    <3>9. RejectsAreIdle'
      BY <3>2, <3>3, <3>4 DEF Claims, RejectsAreIdle, OnlyStatus
    <3>. QED
      BY <3>7, <3>8, <3>9 DEF Claims
  <2>. QED
    BY <1>5, <2>1, <2>2 DEF ManagerReject
<1>6. CASE ManagerFanOut
  <2>1. mgr'.pc # "reject" /\ batch'.kind = batch.kind /\ UNCHANGED items
    BY <1>6, EndBatchStep, NotRejecting DEF ManagerFanOut, ManagerGoto, TypeOK, queueVars
  <2>2. \A t \in Threads : job'[t] = job[t] \/ job'[t] = At("top")
    BY <1>6 DEF ManagerFanOut
  <2>3. "top" \notin WorkingPcs
    BY DEF WorkingPcs
  <2>. QED
    BY <2>1, <2>2, <2>3, KindStays, SameWorkKeepsClaims DEF Working, At
<1>7. CASE ManagerJoinWorkers
  <2>1. /\ mgr'.pc # "reject" /\ batch'.kind = batch.kind
        /\ UNCHANGED <<items, job>>
    BY <1>7, EndBatchStep, NotRejecting DEF ManagerJoinWorkers, queueVars
  <2>. QED
    BY <2>1, KindStays, SameWorkKeepsClaims DEF Working
<1>. QED
  BY <1>2, <1>3, <1>4, <1>5, <1>6, <1>7 DEF Manager

(* The caller's steps that leave the items alone.                          *)
CallerLeavesItems ==
    \/ StartEmpty \/ QueueCheckDirty \/ BeginShutdown \/ EndMappingEdit
    \/ \E op \in {"cancel", "handoff", "mapping"} : BeginStop(op)
    \/ EnsureManagerStarted \/ SpawnManager \/ SpawnManagerFails
    \/ ShutdownInterrupts \/ StopManagerForTransition \/ FinishMapping

LEMMA LeavesItems ==
    ASSUME TypeOK, CallerLeavesItems
    PROVE  /\ UNCHANGED <<items, nextId, batch, job>>
           /\ mgr'.pc \in {mgr.pc, "loop", "none"}
<1>1. CASE SpawnManager
  BY <1>1 DEF SpawnManager, ManagerGoto, TypeOK, queueVars
<1>2. CASE StopManagerForTransition
  BY <1>2 DEF StopManagerForTransition, TypeOK, queueVars
<1>3. CASE StartEmpty \/ QueueCheckDirty \/ BeginShutdown \/ EndMappingEdit
  BY <1>3 DEF StartEmpty, QueueCheckDirty, BeginShutdown, EndMappingEdit, queueVars, threadVars
<1>4. CASE EnsureManagerStarted \/ SpawnManagerFails \/ ShutdownInterrupts \/ FinishMapping
  BY <1>4 DEF EnsureManagerStarted, SpawnManagerFails, ShutdownInterrupts, FinishMapping,
              queueVars, threadVars
<1>5. CASE \E op \in {"cancel", "handoff", "mapping"} : BeginStop(op)
  BY <1>5 DEF BeginStop, queueVars, threadVars
<1>. QED
  BY <1>1, <1>2, <1>3, <1>4, <1>5 DEF CallerLeavesItems

(* The caller's steps that need a queue without threads.                   *)
CallerNeedsQuiet ==
    StartFromFile \/ LaunchFailed \/ FinishCancel \/ FinishHandoff \/ FinishShutdown

LEMMA NeedsQuiet ==
    ASSUME TypeOK, Stages, CallerNeedsQuiet
    PROVE  /\ \A t \in Threads : job[t].pc = "none" /\ job'[t].pc = "none"
           /\ mgr.pc = "none" /\ mgr'.pc = "none"
<1>1. ui.pc \in {"startup", "handed", "finish"} /\ UNCHANGED <<mgr, job>>
  BY DEF CallerNeedsQuiet, StartFromFile, LaunchFailed, QueueLoadItems, FinishCancel,
         FinishHandoff, FinishShutdown, threadVars
<1>2. mgr.pc = "none"
  BY <1>1 DEF Stages, ManagedUi
<1>3. \A t \in Threads : job[t].pc = "none"
  BY <1>2 DEF Stages, CheatStage, Threads
<1>. QED
  BY <1>1, <1>2, <1>3

(* An item is put at the end, with a fresh id.                             *)
LEMMA AddEffect ==
    ASSUME TypeOK, NEW type \in Kinds, NEW rom \in Roms, NEW force \in Forces,
           QueueAdd(type, rom, force)
    PROVE  /\ DOMAIN items' = 1 .. Len(items) + 1 /\ DOMAIN items = 1 .. Len(items)
           /\ Len(items) \in Nat
           /\ \A i \in 1 .. Len(items) : items'[i] = items[i]
           /\ items'[Len(items) + 1] = [id |-> nextId, type |-> type, rom |-> rom,
                                        force |-> force, status |-> "idle"]
<1>. DEFINE item == [id |-> nextId, type |-> type, rom |-> rom,
                     force |-> force, status |-> "idle"]
<1>1. item \in Item
  BY KindsAssumption, Names DEF Item, TypeOK
<1>2. items' = Append(items, item) /\ items \in Seq(Item)
  BY DEF QueueAdd, TypeOK
<1>. HIDE DEF item
<1>3. /\ Append(items, item) \in Seq(Item) /\ Len(Append(items, item)) = Len(items) + 1
      /\ \A i \in 1 .. Len(items) : Append(items, item)[i] = items[i]
      /\ Append(items, item)[Len(items) + 1] = item
  BY <1>1, <1>2, AppendProperties
<1>4. DOMAIN items = 1 .. Len(items) /\ Len(items) \in Nat
      /\ DOMAIN items' = 1 .. Len(items')
  BY <1>2, <1>3, LenProperties
<1>. QED
  BY <1>2, <1>3, <1>4 DEF item

LEMMA ClaimsCaller == ASSUME TypeOK, Stages, Claims, Calls \/ InCall PROVE Claims'
<1>1. CASE CallerLeavesItems
  <2>1. UNCHANGED <<items, batch, job>> /\ mgr'.pc \in {mgr.pc, "loop", "none"}
    BY <1>1, LeavesItems
  <2>. QED
    BY <2>1, SameWorkKeepsClaims DEF Working, KindOf
<1>2. CASE CallerNeedsQuiet
  <2>1. (\A t \in Threads : job[t].pc = "none")' /\ mgr'.pc # "reject"
    BY <1>2, NeedsQuiet
  <2>2. \A t \in Threads : ~Working(t)'
    BY <2>1 DEF Working, WorkingPcs
  <2>3. ClaimsStayValid'
    BY <2>2 DEF ClaimsStayValid
  <2>4. ExclusiveClaims'
    BY <2>2 DEF ExclusiveClaims
  <2>5. RejectsAreIdle'
    BY <2>1 DEF RejectsAreIdle
  <2>. QED
    BY <2>3, <2>4, <2>5 DEF Claims
<1>3. ASSUME NEW type \in Kinds, NEW rom \in Roms, NEW force \in Forces,
             QueueAdd(type, rom, force)
      PROVE  Claims'
  <2>1. UNCHANGED <<mgr, batch, job>>
    BY <1>3 DEF QueueAdd, threadVars
  <2>2. \A i \in DOMAIN items : i \in DOMAIN items' /\ items'[i] = items[i]
    <3>1. /\ DOMAIN items' = 1 .. Len(items) + 1 /\ DOMAIN items = 1 .. Len(items)
          /\ Len(items) \in Nat /\ \A i \in 1 .. Len(items) : items'[i] = items[i]
      BY <1>3, AddEffect
    <3>. QED
      BY <3>1
  <2>3. ClaimsStayValid' /\ ExclusiveClaims'
    BY <2>1, <2>2 DEF Claims, ClaimsStayValid, ExclusiveClaims, Working, KindOf
  <2>4. RejectsAreIdle'
    BY <2>1, <2>2 DEF Claims, RejectsAreIdle
  <2>. QED
    BY <2>3, <2>4 DEF Claims
<1>4. CASE QueueClearDone
  <2>1. UNCHANGED <<mgr, batch, job>>
    BY <1>4 DEF QueueClearDone, threadVars
  <2>2. \A i \in DOMAIN items : items[i].status \in Terminal
    BY <1>4 DEF QueueClearDone, HasUnfinished, Unfinished
  <2>3. \A t \in Threads : ~Working(t)'
    BY <2>1, <2>2 DEF Claims, ClaimsStayValid, Working, Active, Terminal
  <2>4. RejectsAreIdle'
    BY <2>1, <2>2 DEF Claims, RejectsAreIdle, Terminal
  <2>. QED
    BY <2>3, <2>4 DEF Claims, ClaimsStayValid, ExclusiveClaims
<1>. QED
  BY <1>1, <1>2, <1>3, <1>4 DEF Calls, InCall, CallerLeavesItems, CallerNeedsQuiet

LEMMA ClaimsInit == Init => Claims
<1>. SUFFICES ASSUME Init PROVE Claims
  OBVIOUS
<1>1. (\A t \in Threads : job[t].pc = "none") /\ mgr.pc # "reject"
  BY DEF Init, At
<1>. QED
  BY <1>1, QuietClaims

LEMMA ClaimsNext == ASSUME TypeOK, Stages, Claims, [Next]_vars PROVE Claims'
<1>1. CASE Calls \/ InCall
  BY <1>1, ClaimsCaller
<1>2. CASE Closed \/ UNCHANGED vars
  BY <1>2 DEF Closed, Claims, ClaimsStayValid, ExclusiveClaims, RejectsAreIdle, Working,
              KindOf, vars
<1>3. CASE Manager
  BY <1>3, ClaimsManager
<1>4. ASSUME NEW t \in Workers \union {Lead}, Requester(t) PROVE Claims'
  <2>1. t \in Threads
    BY DEF Threads
  <2>2. job[t].pc # "none" /\ mgr'.pc = mgr.pc /\ UNCHANGED batch
    BY <1>4, RequesterEffect
  <2>. QED
    BY <1>4, <2>1, <2>2, RequesterWorks, WorkKeepsClaims, RestKeepsClaims
<1>5. ASSUME NEW w \in Workers, WorkerTake(w) PROVE Claims'
  <2>1. w \in Threads
    BY DEF Threads
  <2>2. /\ batch'.kind = batch.kind /\ batch'.left \subseteq batch.left
        /\ UNCHANGED <<items, mgr>>
        /\ \E r : r.pc \in {"none", "claim"} /\ job' = [job EXCEPT ![w] = r]
    BY <1>5, WorkerTakeEffect DEF queueVars
  <2>3. Rests(w)
    BY <2>1, <2>2, GivesUp DEF WorkingPcs
  <2>. QED
    BY <2>1, <2>2, <2>3, RestKeepsClaims
<1>6. CASE Cheats
  <2>1. CheatThread \in Threads
    BY DEF Threads
  <2>2. job[CheatThread].pc # "none" /\ UNCHANGED <<mgr, batch>>
    BY <1>6, CheatsEffect
  <2>. QED
    BY <1>6, <2>1, <2>2, CheatsWork, WorkKeepsClaims, RestKeepsClaims
<1>. QED
  BY <1>1, <1>2, <1>3, <1>4, <1>5, <1>6 DEF Next

LEMMA ClaimsAlways == Spec => [](TypeOK /\ Stages /\ Claims)
  BY TypeInit, TypeNext, StagesInit, StagesNext, ClaimsInit, ClaimsNext, PTL DEF Spec

(* A thread that comes back from a request finds its own item at its index *)
(* and still unfinished, for any number of pool threads: set_item_status   *)
(* needs no other check than its bounds.                                   *)
THEOREM ClaimsAreValid == Spec => []ClaimsStayValid
<1>1. Claims => ClaimsStayValid
  BY DEF Claims
<1>. QED
  BY <1>1, ClaimsAlways, PTL

(* The test of IDLE in claim_item is enough: lead, workers and cheat       *)
(* thread never share an item, however the batches overlap.                *)
THEOREM ClaimsAreExclusive == Spec => []ExclusiveClaims
<1>1. Claims => ExclusiveClaims
  BY DEF Claims
<1>. QED
  BY <1>1, ClaimsAlways, PTL
=============================================================================
