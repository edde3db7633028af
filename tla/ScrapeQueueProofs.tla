-------------------------- MODULE ScrapeQueueProofs --------------------------
(* Proofs about ScrapeQueue, for every set of ROMs, kinds and pool threads *)
(* and every bound.                                                        *)
EXTENDS ScrapeQueueInv, SequenceTheorems, FiniteSetTheorems, TLAPS

-----------------------------------------------------------------------------
(* Lemmas about the helpers.                                               *)

(* set_item_status and set_item_error change one status at most: the queue *)
(* keeps its length, its ids, its kinds, its ROMs and the other statuses.  *)
LEMMA SetStatusEffect ==
    ASSUME items \in Seq(Item), dirty \in BOOLEAN,
           NEW i, NEW status \in Statuses, SetStatus(i, status)
    PROVE  /\ items' \in Seq(Item) /\ Len(items') = Len(items)
           /\ DOMAIN items' = DOMAIN items
           /\ \A j \in DOMAIN items :
                 items'[j] = IF j = i THEN [items[j] EXCEPT !.status = status] ELSE items[j]
           /\ dirty' \in BOOLEAN
<1>1. CASE i \in DOMAIN items
  <2>. DEFINE item == [items[i] EXCEPT !.status = status]
  <2>1. items' = [items EXCEPT ![i] = item]
    BY <1>1 DEF SetStatus
  <2>2. i \in 1 .. Len(items) /\ items[i] \in Item
    BY <1>1, ElementOfSeq, LenProperties
  <2>3. item \in Item
    BY <2>2 DEF Item
  <2>. HIDE DEF item
  <2>4. items' \in Seq(Item) /\ Len(items') = Len(items)
    BY <2>1, <2>2, <2>3, ExceptSeq
  <2>. QED
    BY <1>1, <2>1, <2>4, LenProperties DEF SetStatus, item
<1>2. CASE i \notin DOMAIN items
  BY <1>2, LenProperties DEF SetStatus
<1>. QED
  BY <1>1, <1>2

(* The resets of a cancel and of a handoff rewrite only unfinished items.  *)
LEMMA SetUnfinishedEffect ==
    ASSUME NEW s \in Seq(Item), NEW status \in Statuses
    PROVE  /\ SetUnfinished(s, status) \in Seq(Item)
           /\ Len(SetUnfinished(s, status)) = Len(s)
           /\ DOMAIN SetUnfinished(s, status) = DOMAIN s
<1>1. \A i \in 1 .. Len(s) : s[i] \in Item
  BY ElementOfSeq, LenProperties
<1>2. DOMAIN s = 1 .. Len(s) /\ Len(s) \in Nat
  BY LenProperties
<1>3. SetUnfinished(s, status) = [i \in 1 .. Len(s) |->
          IF Unfinished(s[i]) THEN [s[i] EXCEPT !.status = status] ELSE s[i]]
  BY <1>2 DEF SetUnfinished
<1>4. \A i \in 1 .. Len(s) :
        (IF Unfinished(s[i]) THEN [s[i] EXCEPT !.status = status] ELSE s[i]) \in Item
  BY <1>1 DEF Item
<1>. QED
  BY <1>2, <1>3, <1>4, IsASeq

(* A load keeps the sequence and turns unfinished items idle or failed.    *)
LEMMA LoadedItemsEffect ==
    ASSUME NEW s \in Seq(Item), NEW lost
    PROVE  /\ LoadedItems(s, lost) \in Seq(Item)
           /\ Len(LoadedItems(s, lost)) = Len(s)
           /\ DOMAIN LoadedItems(s, lost) = DOMAIN s
<1>1. \A i \in 1 .. Len(s) : s[i] \in Item
  BY ElementOfSeq, LenProperties
<1>2. DOMAIN s = 1 .. Len(s) /\ Len(s) \in Nat
  BY LenProperties
<1>. DEFINE status(i) == IF s[i].type = "cheat" /\ i \in lost THEN "error" ELSE "idle"
            item(i) == IF Unfinished(s[i]) THEN [s[i] EXCEPT !.status = status(i)] ELSE s[i]
<1>3. LoadedItems(s, lost) = [i \in 1 .. Len(s) |-> item(i)]
  BY <1>2 DEF LoadedItems
<1>4. \A i \in 1 .. Len(s) : item(i) \in Item
  <2>1. \A i : status(i) \in Statuses
    BY DEF Statuses, Terminal
  <2>. QED
    BY <1>1, <2>1 DEF Item
<1>. HIDE DEF item
<1>. QED
  BY <1>2, <1>3, <1>4, IsASeq

(* Idle items of a kind are named by positions of the queue.               *)
LEMMA IdleOfType ==
    ASSUME items \in Seq(Item), NEW k
    PROVE  IdleOf(k) \subseteq DOMAIN items /\ IdleOf(k) \subseteq Nat
  BY LenProperties DEF IdleOf

(* The values of a thread's locals, and the updates the actions make.      *)
LEMMA Names ==
    /\ {"none", "top", "find", "claim", "search", "searched", "download", "downloaded",
        "list", "listed", "match"} \subseteq JobPcs
    /\ {"none", "found", "not_found", "failed", "cancelled", "ok"} \subseteq Rets
    /\ {"idle", "searching", "downloading", "cloning", "matching", "done", "not_found",
        "error", "skipped"} \subseteq Statuses
    /\ {"startup", "ready", "ensure", "spawn", "stopping", "closing", "finish", "handed",
        "editing", "closed"} \subseteq UiPcs
    /\ {"none", "cancel", "handoff", "mapping", "shutdown"} \subseteq UiOps
    /\ {"none", "loop", "scan", "spawn", "artwork", "manual", "lead", "reject", "join",
        "joincheat", "exit", "exited"} \subseteq MgrPcs
  BY DEF JobPcs, WorkingPcs, Rets, Statuses, Active, Terminal, UiPcs, UiOps, MgrPcs

LEMMA AtType == ASSUME NEW pc \in JobPcs PROVE At(pc) \in JobType
  BY Names DEF At, JobType

LEMMA ResumeType == ASSUME NEW t PROVE Resume(t) \in JobType
  BY Names, AtType DEF Resume

LEMMA ClaimType == ASSUME NEW i \in Nat PROVE ClaimAt(i) \in JobType
  BY Names DEF ClaimAt, JobType

LEMMA HoldingType ==
    ASSUME job \in [Threads -> JobType], NEW t \in Threads,
           NEW pc \in JobPcs, NEW ret \in Rets
    PROVE  Holding(t, pc, ret) \in JobType
  BY DEF JobType, Holding

LEMMA JobUpdate ==
    ASSUME job \in [Threads -> JobType], NEW t \in Threads, NEW r \in JobType
    PROVE  [job EXCEPT ![t] = r] \in [Threads -> JobType]
  OBVIOUS

LEMMA ItemAt == ASSUME items \in Seq(Item), NEW i \in DOMAIN items
                PROVE  items[i] \in Item /\ i \in Nat
  BY ElementOfSeq, LenProperties

-----------------------------------------------------------------------------
(* Type correctness.                                                       *)

LEMMA TypeInit == Init => TypeOK
<1>. SUFFICES ASSUME Init PROVE TypeOK
  OBVIOUS
<1>1. items \in Seq(Item) /\ Len(items) <= MaxItems
  BY BoundsAssumption, EmptySeq DEF Init
<1>2. job \in [Threads -> JobType]
  BY Names, AtType DEF Init
<1>3. ui \in [pc : UiPcs, op : UiOps]
  BY Names DEF Init
<1>4. mgr \in [pc : MgrPcs, todo : SUBSET AllKinds, threads : Nat]
  BY Names DEF Init
<1>5. batch \in [kind : {"artwork", "manual"}, left : SUBSET Nat]
  BY DEF Init
<1>. QED
  BY <1>1, <1>2, <1>3, <1>4, <1>5 DEF Init, TypeOK

LEMMA TypeRequester ==
    ASSUME TypeOK, NEW t \in Threads, Requester(t)
    PROVE  TypeOK'
<1>. USE DEF TypeOK
<1>1. CASE ClaimItem(t)
  <2>. DEFINE i == job[t].idx
  <2>1. CASE Claimable(i, KindOf(t))
    <3>1. PICK s \in IF t = CheatThread THEN {"cloning", "matching"} ELSE {"searching"} :
             SetStatus(i, s)
      BY <1>1, <2>1 DEF ClaimItem
    <3>2. s \in Statuses
      BY <3>1, Names
    <3>3. items[i].id \in Nat
      BY <2>1, ItemAt DEF Claimable, Item
    <3>4. job' \in [Threads -> JobType]
      <4>. DEFINE r == [pc |-> IF t = CheatThread THEN "list" ELSE "search",
                        idx |-> i, id |-> items[i].id, ret |-> "none"]
      <4>1. job' = [job EXCEPT ![t] = r]
        BY <1>1, <2>1 DEF ClaimItem
      <4>2. i \in Nat
        BY DEF JobType
      <4>3. r \in JobType
        BY <3>3, <4>2, Names DEF JobType
      <4>. HIDE DEF r
      <4>. QED
        BY <4>1, <4>3, JobUpdate
    <3>. QED
      BY <1>1, <3>1, <3>2, <3>4, SetStatusEffect DEF ClaimItem, flagVars
  <2>2. CASE ~Claimable(i, KindOf(t))
    BY <1>1, <2>2, ResumeType, JobUpdate DEF ClaimItem, flagVars
  <2>. QED
    BY <2>1, <2>2
<1>2. CASE SearchReturns(t)
  <2>1. job' \in [Threads -> JobType]
    BY <1>2, Names, HoldingType, JobUpdate DEF SearchReturns
  <2>. QED
    BY <1>2, <2>1 DEF SearchReturns, queueVars, flagVars
<1>3. CASE RecordSearch(t)
  <2>. DEFINE i == job[t].idx
  <2>1. CASE job[t].ret = "cancelled"
    BY <1>3, <2>1, Names, AtType, JobUpdate DEF RecordSearch, flagVars
  <2>2. CASE job[t].ret \in {"not_found", "failed"}
    <3>1. SetStatus(i, IF job[t].ret = "failed" THEN "error" ELSE "not_found")
      BY <1>3, <2>2 DEF RecordSearch
    <3>2. (IF job[t].ret = "failed" THEN "error" ELSE "not_found") \in Statuses
      BY Names
    <3>3. job' = [job EXCEPT ![t] = Resume(t)]
      BY <1>3, <2>2 DEF RecordSearch
    <3>. QED
      BY <1>3, <2>2, <3>1, <3>2, <3>3, SetStatusEffect, ResumeType, JobUpdate
      DEF RecordSearch, flagVars
  <2>3. CASE job[t].ret = "found"
    <3>1. SetStatus(i, "downloading") /\ "downloading" \in Statuses
      BY <1>3, <2>3, Names DEF RecordSearch
    <3>2. Cardinality(Workers) \in Nat
      BY ThreadsAssumption, FS_CardinalityType
    <3>3. mgr' \in [pc : MgrPcs, todo : SUBSET AllKinds, threads : Nat]
      BY <1>3, <2>3, <3>2 DEF RecordSearch
    <3>4. job' \in [Threads -> JobType]
      BY <1>3, <2>3, Names, HoldingType, JobUpdate DEF RecordSearch
    <3>. QED
      BY <1>3, <2>3, <3>1, <3>3, <3>4, SetStatusEffect DEF RecordSearch, flagVars
  <2>. QED
    BY <1>3, <2>1, <2>2, <2>3 DEF RecordSearch
<1>4. CASE DownloadReturns(t)
  <2>1. job' \in [Threads -> JobType]
    BY <1>4, Names, HoldingType, JobUpdate DEF DownloadReturns
  <2>. QED
    BY <1>4, <2>1 DEF DownloadReturns, queueVars, flagVars
<1>5. CASE RecordDownload(t)
  <2>. DEFINE i == job[t].idx
  <2>1. CASE job[t].ret = "cancelled" /\ t # Lead
    BY <1>5, <2>1, Names, AtType, JobUpdate DEF RecordDownload, flagVars
  <2>2. CASE job[t].ret # "cancelled" \/ t = Lead
    <3>1. SetStatus(i, IF job[t].ret = "ok" THEN "done" ELSE "error")
      BY <1>5, <2>2 DEF RecordDownload
    <3>2. (IF job[t].ret = "ok" THEN "done" ELSE "error") \in Statuses
      BY Names
    <3>3. job' = [job EXCEPT ![t] = Resume(t)]
      BY <1>5, <2>2 DEF RecordDownload
    <3>. QED
      BY <1>5, <2>2, <3>1, <3>2, <3>3, SetStatusEffect, ResumeType, JobUpdate
      DEF RecordDownload, flagVars
  <2>. QED
    BY <2>1, <2>2
<1>. QED
  BY <1>1, <1>2, <1>3, <1>4, <1>5 DEF Requester

LEMMA TypeWorkerTake == ASSUME TypeOK, NEW w \in Workers, WorkerTake(w) PROVE TypeOK'
<1>. USE DEF TypeOK
<1>1. w \in Threads
  BY DEF Threads
<1>2. job' \in [Threads -> JobType]
  <2>1. CASE job' = [job EXCEPT ![w] = At("none")]
    BY <1>1, <2>1, Names, AtType, JobUpdate
  <2>2. CASE \E i \in batch.left : job' = [job EXCEPT ![w] = ClaimAt(i)]
    BY <1>1, <2>2, ClaimType, JobUpdate
  <2>. QED
    BY <2>1, <2>2 DEF WorkerTake
<1>3. batch' \in [kind : {"artwork", "manual"}, left : SUBSET Nat]
  BY DEF WorkerTake
<1>. QED
  BY <1>2, <1>3 DEF WorkerTake, queueVars, flagVars

LEMMA TypeCheats ==
    ASSUME TypeOK, CheatFind \/ CheatListReturns \/ RecordCheatList \/ CheatMatchReturns
    PROVE  TypeOK'
<1>. USE DEF TypeOK
<1>. DEFINE c == CheatThread
            i == job[c].idx
<1>1. c \in Threads
  BY DEF Threads
<1>2. CASE CheatFind
  <2>1. job' \in [Threads -> JobType]
    <3>1. CASE job' = [job EXCEPT ![c] = At("none")]
      BY <1>1, <3>1, Names, AtType, JobUpdate
    <3>2. CASE \E n \in IdleOf("cheat") : job' = [job EXCEPT ![c] = ClaimAt(n)]
      BY <1>1, <3>2, IdleOfType, ClaimType, JobUpdate
    <3>. QED
      BY <1>2, <3>1, <3>2 DEF CheatFind
  <2>. QED
    BY <1>2, <2>1 DEF CheatFind, queueVars, flagVars
<1>3. CASE CheatListReturns
  <2>1. job' \in [Threads -> JobType]
    BY <1>1, <1>3, Names, ResumeType, HoldingType, JobUpdate DEF CheatListReturns
  <2>2. CASE UNCHANGED <<items, dirty>>
    BY <1>3, <2>1, <2>2 DEF CheatListReturns, flagVars
  <2>3. CASE SetStatus(i, "skipped")
    BY <1>3, <2>1, <2>3, Names, SetStatusEffect DEF CheatListReturns, flagVars
  <2>. QED
    BY <1>3, <2>2, <2>3 DEF CheatListReturns
<1>5. CASE RecordCheatList
  <2>1. job' \in [Threads -> JobType]
    BY <1>1, <1>5, Names, ResumeType, HoldingType, JobUpdate DEF RecordCheatList
  <2>2. PICK s \in {"error", "matching"} : SetStatus(i, s)
    BY <1>5 DEF RecordCheatList
  <2>3. s \in Statuses
    BY Names
  <2>. QED
    BY <1>5, <2>1, <2>2, <2>3, SetStatusEffect DEF RecordCheatList, flagVars
<1>4. CASE CheatMatchReturns
  <2>1. job' \in [Threads -> JobType]
    BY <1>1, <1>4, ResumeType, JobUpdate DEF CheatMatchReturns
  <2>2. PICK s \in {"done", "not_found", "error"} : SetStatus(i, s)
    BY <1>4 DEF CheatMatchReturns
  <2>3. s \in Statuses
    BY Names
  <2>. QED
    BY <1>4, <2>1, <2>2, <2>3, SetStatusEffect DEF CheatMatchReturns, flagVars
<1>. QED
  BY <1>2, <1>3, <1>4, <1>5

MgrType   == [pc : MgrPcs, todo : SUBSET AllKinds, threads : Nat]
BatchType == [kind : {"artwork", "manual"}, left : SUBSET Nat]

LEMMA GotoType ==
    ASSUME mgr \in MgrType, NEW pc \in MgrPcs, ManagerGoto(pc) PROVE mgr' \in MgrType
  BY DEF ManagerGoto, MgrType

LEMMA StageType == ASSUME NEW kind PROVE StageAfter(kind) \in MgrPcs
  BY Names DEF StageAfter

LEMMA EndBatchType ==
    ASSUME mgr \in MgrType, batch \in BatchType, EndBatch
    PROVE  mgr' \in MgrType /\ batch' \in BatchType
<1>1. StageAfter(batch.kind) \in MgrPcs
  BY StageType
<1>. QED
  BY <1>1 DEF EndBatch, MgrType, BatchType

LEMMA TypeManager == ASSUME TypeOK, Manager PROVE TypeOK'
<1>. DEFINE Rest == /\ items \in Seq(Item) /\ Len(items) <= MaxItems /\ nextId \in Nat
                    /\ dirty \in BOOLEAN /\ started \in BOOLEAN
                    /\ running \in BOOLEAN /\ interrupt \in BOOLEAN
                    /\ ui \in [pc : UiPcs, op : UiOps]
<1>1. /\ Rest /\ mgr \in MgrType /\ batch \in BatchType
      /\ job \in [Threads -> JobType]
  BY DEF TypeOK, MgrType, BatchType
<1>2. /\ Rest' /\ mgr' \in MgrType /\ batch' \in BatchType
      /\ job' \in [Threads -> JobType]
  <2>1. CASE ManagerLoop
    <3>1. ManagerGoto("scan") \/ ManagerGoto("exit")
      BY <2>1 DEF ManagerLoop
    <3>2. mgr' \in MgrType
      BY <1>1, <3>1, Names, GotoType
    <3>. QED
      BY <1>1, <2>1, <3>2 DEF ManagerLoop, queueVars, flagVars
  <2>2. CASE ManagerScan
    <3>1. IdleKinds \subseteq AllKinds
      <4>1. \A i \in DOMAIN items : items[i].type \in AllKinds
        BY <1>1, ItemAt DEF Item
      <4>. QED
        BY <4>1 DEF IdleKinds
    <3>2. (IF IdleKinds = {} THEN "loop" ELSE "spawn") \in MgrPcs
      BY Names
    <3>3. mgr' = [mgr EXCEPT !.pc = IF IdleKinds = {} THEN "loop" ELSE "spawn",
                             !.todo = IdleKinds]
      BY <2>2 DEF ManagerScan
    <3>4. mgr' \in MgrType
      BY <1>1, <3>1, <3>2, <3>3 DEF MgrType
    <3>. QED
      BY <1>1, <2>2, <3>4 DEF ManagerScan, queueVars, flagVars
  <2>3. CASE ManagerSpawnCheat
    <3>1. mgr' \in MgrType
      BY <1>1, <2>3, Names, GotoType DEF ManagerSpawnCheat
    <3>2. job' \in [Threads -> JobType]
      BY <1>1, <2>3, Names, AtType, JobUpdate DEF ManagerSpawnCheat, Threads
    <3>. QED
      BY <1>1, <2>3, <3>1, <3>2 DEF ManagerSpawnCheat, queueVars, flagVars
  <2>4. CASE ManagerNoCheat
    <3>1. mgr' \in MgrType
      BY <1>1, <2>4, Names, GotoType DEF ManagerNoCheat
    <3>. QED
      BY <1>1, <2>4, <3>1 DEF ManagerNoCheat, queueVars, flagVars
  <2>5. ASSUME NEW kind \in {"artwork", "manual"}, ManagerCollect(kind)
        PROVE  /\ Rest' /\ mgr' \in MgrType /\ batch' \in BatchType
               /\ job' \in [Threads -> JobType]
    <3>. DEFINE found == IF kind \in mgr.todo /\ ~interrupt THEN IdleOf(kind) ELSE {}
    <3>0. found \subseteq Nat
      BY <1>1, IdleOfType
    <3>1. mgr' \in MgrType
      BY <1>1, <2>5, Names, GotoType, StageType DEF ManagerCollect
    <3>2. batch' \in BatchType
      BY <1>1, <2>5, <3>0 DEF ManagerCollect, BatchType
    <3>3. job' \in [Threads -> JobType]
      <4>1. Lead \in Threads
        BY DEF Threads
      <4>2. job' = job \/ \E i \in found : job' = [job EXCEPT ![Lead] = ClaimAt(i)]
        BY <2>5 DEF ManagerCollect
      <4>. QED
        BY <1>1, <3>0, <4>1, <4>2, ClaimType, JobUpdate
    <3>. QED
      BY <1>1, <2>5, <3>1, <3>2, <3>3 DEF ManagerCollect, queueVars, flagVars
  <2>6. CASE ManagerReject
    <3>1. CASE EndBatch /\ UNCHANGED <<items, dirty>>
      BY <1>1, <2>6, <3>1, EndBatchType DEF ManagerReject, flagVars
    <3>2. CASE \E i \in batch.left :
                 /\ SetStatus(i, "error")
                 /\ batch' = [batch EXCEPT !.left = @ \ {i}]
                 /\ UNCHANGED mgr
      <4>1. PICK i \in batch.left : /\ SetStatus(i, "error")
                                    /\ batch' = [batch EXCEPT !.left = @ \ {i}]
        BY <3>2
      <4>2. batch' \in BatchType
        BY <1>1, <4>1 DEF BatchType
      <4>3. "error" \in Statuses
        BY Names
      <4>. QED
        BY <1>1, <2>6, <3>2, <4>1, <4>2, <4>3, SetStatusEffect DEF ManagerReject, flagVars
    <3>. QED
      BY <2>6, <3>1, <3>2 DEF ManagerReject
  <2>7. CASE ManagerFanOut
    <3>1. job' \in [Threads -> JobType]
      <4>1. At("top") \in JobType
        BY Names, AtType
      <4>. QED
        BY <1>1, <2>7, <4>1 DEF ManagerFanOut
    <3>2. mgr' \in MgrType /\ batch' \in BatchType
      BY <1>1, <2>7, Names, GotoType, EndBatchType DEF ManagerFanOut
    <3>. QED
      BY <1>1, <2>7, <3>1, <3>2 DEF ManagerFanOut, queueVars, flagVars
  <2>8. CASE ManagerJoinWorkers
    BY <1>1, <2>8, EndBatchType DEF ManagerJoinWorkers, queueVars, flagVars
  <2>9. CASE ManagerJoinCheat
    <3>1. mgr' \in MgrType
      BY <1>1, <2>9, Names DEF ManagerJoinCheat, MgrType
    <3>. QED
      BY <1>1, <2>9, <3>1 DEF ManagerJoinCheat, queueVars, flagVars
  <2>10. CASE ManagerExit
    <3>1. mgr' \in MgrType
      BY <1>1, <2>10, Names, GotoType DEF ManagerExit
    <3>. QED
      BY <1>1, <2>10, <3>1 DEF ManagerExit, queueVars
  <2>. QED
    BY <2>1, <2>2, <2>3, <2>4, <2>5, <2>6, <2>7, <2>8, <2>9, <2>10 DEF Manager
<1>. QED
  BY <1>2 DEF TypeOK, MgrType, BatchType

LEMMA UiGotoType ==
    ASSUME ui \in [pc : UiPcs, op : UiOps], NEW pc \in UiPcs, UiGoto(pc)
    PROVE  ui' \in [pc : UiPcs, op : UiOps]
  BY DEF UiGoto

(* A load, of a file or of a snapshot taken back, gives a queue of the     *)
(* same size and a fresh next id.                                          *)
LEMMA LoadType ==
    ASSUME TypeOK, NEW s \in Seq(Item), Len(s) <= MaxItems, NEW lost, QueueLoadItems(s, lost)
    PROVE  TypeOK'
<1>. USE DEF TypeOK
<1>1. items' \in Seq(Item) /\ Len(items') <= MaxItems
  BY LoadedItemsEffect DEF QueueLoadItems
<1>2. nextId' \in Nat
  <2>1. \A i \in DOMAIN s : s[i] \in Item
    BY ElementOfSeq, LenProperties
  <2>2. \A i \in DOMAIN s : s[i].id \in Nat
    BY <2>1 DEF Item
  <2>3. \A i \in DOMAIN s : s[i].id + 1 \in Nat
    BY <2>2
  <2>. QED
    BY <2>3 DEF QueueLoadItems, SkipLoadedIds
<1>3. ui' \in [pc : UiPcs, op : UiOps]
  BY Names DEF QueueLoadItems
<1>. QED
  BY <1>1, <1>2, <1>3 DEF QueueLoadItems, flagVars, threadVars

LEMMA TypeCalls == ASSUME TypeOK, Calls PROVE TypeOK'
<1>. USE DEF TypeOK
<1>1. CASE StartEmpty
  <2>1. ui' \in [pc : UiPcs, op : UiOps]
    BY <1>1, Names DEF StartEmpty
  <2>. QED
    BY <1>1, <2>1 DEF StartEmpty, queueVars, flagVars, threadVars
<1>2. CASE StartFromFile
  BY <1>2, SavedAssumption, LoadType DEF StartFromFile
<1>3. ASSUME NEW type \in Kinds, NEW rom \in Roms, NEW force \in Forces,
             QueueAdd(type, rom, force)
      PROVE  TypeOK'
  <2>. DEFINE item == [id |-> nextId, type |-> type, rom |-> rom,
                       force |-> force, status |-> "idle"]
  <2>1. item \in Item
    BY KindsAssumption, Names DEF Item
  <2>2. items' = Append(items, item)
    BY <1>3 DEF QueueAdd
  <2>. HIDE DEF item
  <2>3. items' \in Seq(Item) /\ Len(items') = Len(items) + 1
    BY <2>1, <2>2, AppendProperties
  <2>4. Len(items') <= MaxItems
    BY <1>3, <2>3, BoundsAssumption, LenProperties DEF QueueAdd, Full
  <2>5. ui' \in [pc : UiPcs, op : UiOps]
    BY <1>3, Names, UiGotoType DEF QueueAdd
  <2>6. nextId' \in Nat /\ dirty' \in BOOLEAN
    BY <1>3 DEF QueueAdd
  <2>. QED
    BY <1>3, <2>3, <2>4, <2>5, <2>6 DEF QueueAdd, flagVars, threadVars
<1>4. CASE QueueClearDone
  <2>1. items' \in Seq(Item) /\ Len(items') <= MaxItems
    BY <1>4, EmptySeq, BoundsAssumption DEF QueueClearDone
  <2>. QED
    BY <1>4, <2>1 DEF QueueClearDone, flagVars, threadVars
<1>5. CASE QueueCheckDirty
  BY <1>5 DEF QueueCheckDirty, flagVars, threadVars
<1>6. ASSUME NEW op \in {"cancel", "handoff", "mapping"}, BeginStop(op) PROVE TypeOK'
  <2>1. ui' \in [pc : UiPcs, op : UiOps]
    BY <1>6, Names DEF BeginStop
  <2>. QED
    BY <1>6, <2>1 DEF BeginStop, StopFlag, queueVars, threadVars
<1>7. CASE BeginShutdown
  <2>1. ui' \in [pc : UiPcs, op : UiOps]
    BY <1>7, Names DEF BeginShutdown
  <2>. QED
    BY <1>7, <2>1 DEF BeginShutdown, queueVars, threadVars
<1>8. CASE EndMappingEdit
  <2>1. ui' \in [pc : UiPcs, op : UiOps]
    BY <1>8, Names DEF EndMappingEdit
  <2>. QED
    BY <1>8, <2>1 DEF EndMappingEdit, queueVars, flagVars, threadVars
<1>9. CASE LaunchFailed
  BY <1>9, LoadType DEF LaunchFailed
<1>. QED
  BY <1>1, <1>2, <1>3, <1>4, <1>5, <1>6, <1>7, <1>8, <1>9 DEF Calls

LEMMA TypeInCall == ASSUME TypeOK, InCall PROVE TypeOK'
<1>. USE DEF TypeOK
<1>1. CASE EnsureManagerStarted
  <2>1. ui' \in [pc : UiPcs, op : UiOps]
    BY <1>1, Names, UiGotoType DEF EnsureManagerStarted
  <2>2. started' \in BOOLEAN /\ running' \in BOOLEAN /\ interrupt' \in BOOLEAN
    BY <1>1 DEF EnsureManagerStarted, flagVars
  <2>. QED
    BY <1>1, <2>1, <2>2 DEF EnsureManagerStarted, queueVars, threadVars
<1>2. CASE SpawnManager
  <2>1. ui' \in [pc : UiPcs, op : UiOps]
    BY <1>2, Names, UiGotoType DEF SpawnManager
  <2>2. mgr' \in [pc : MgrPcs, todo : SUBSET AllKinds, threads : Nat]
    BY <1>2, Names DEF SpawnManager, ManagerGoto
  <2>. QED
    BY <1>2, <2>1, <2>2 DEF SpawnManager, queueVars, flagVars
<1>3. CASE SpawnManagerFails
  <2>1. ui' \in [pc : UiPcs, op : UiOps]
    BY <1>3, Names, UiGotoType DEF SpawnManagerFails
  <2>. QED
    BY <1>3, <2>1 DEF SpawnManagerFails, queueVars, threadVars
<1>4. CASE ShutdownInterrupts
  <2>1. ui' \in [pc : UiPcs, op : UiOps]
    BY <1>4, Names, UiGotoType DEF ShutdownInterrupts
  <2>2. interrupt' \in BOOLEAN
    BY <1>4 DEF ShutdownInterrupts
  <2>. QED
    BY <1>4, <2>1, <2>2 DEF ShutdownInterrupts, queueVars, threadVars
<1>5. CASE StopManagerForTransition
  <2>1. ui' \in [pc : UiPcs, op : UiOps]
    BY <1>5, Names, UiGotoType DEF StopManagerForTransition
  <2>2. mgr' \in [pc : MgrPcs, todo : SUBSET AllKinds, threads : Nat]
    BY <1>5, Names DEF StopManagerForTransition
  <2>3. interrupt' \in BOOLEAN /\ started' \in BOOLEAN /\ running' \in BOOLEAN
    BY <1>5 DEF StopManagerForTransition
  <2>. QED
    BY <1>5, <2>1, <2>2, <2>3 DEF StopManagerForTransition, queueVars
<1>6. CASE FinishCancel
  <2>1. ui' \in [pc : UiPcs, op : UiOps]
    BY <1>6, Names DEF FinishCancel
  <2>2. items' \in Seq(Item) /\ Len(items') <= MaxItems
    BY <1>6, Names, SetUnfinishedEffect DEF FinishCancel
  <2>. QED
    BY <1>6, <2>1, <2>2 DEF FinishCancel, threadVars
<1>7. CASE FinishHandoff
  <2>1. ui' \in [pc : UiPcs, op : UiOps]
    BY <1>7, Names, UiGotoType DEF FinishHandoff
  <2>2. items' \in Seq(Item) /\ Len(items') <= MaxItems
    BY <1>7, Names, SetUnfinishedEffect DEF FinishHandoff, HandoffItems
  <2>3. dirty' \in BOOLEAN
    BY <1>7 DEF FinishHandoff
  <2>. QED
    BY <1>7, <2>1, <2>2, <2>3 DEF FinishHandoff, flagVars, threadVars
<1>8. CASE FinishMapping
  <2>1. ui' \in [pc : UiPcs, op : UiOps]
    BY <1>8, Names DEF FinishMapping
  <2>. QED
    BY <1>8, <2>1 DEF FinishMapping, queueVars, flagVars, threadVars
<1>9. CASE FinishShutdown
  <2>1. ui' \in [pc : UiPcs, op : UiOps]
    BY <1>9, Names, UiGotoType DEF FinishShutdown
  <2>2. items' \in Seq(Item) /\ Len(items') <= MaxItems
    BY <1>9, EmptySeq, BoundsAssumption DEF FinishShutdown
  <2>. QED
    BY <1>9, <2>1, <2>2 DEF FinishShutdown, flagVars, threadVars
<1>. QED
  BY <1>1, <1>2, <1>3, <1>4, <1>5, <1>6, <1>7, <1>8, <1>9 DEF InCall

LEMMA TypeStutter == ASSUME TypeOK, UNCHANGED vars PROVE TypeOK'
  BY DEF TypeOK, vars

LEMMA TypeNext == ASSUME TypeOK, [Next]_vars PROVE TypeOK'
<1>1. Lead \in Threads /\ CheatThread \in Threads /\ Workers \subseteq Threads
  BY DEF Threads
<1>2. CASE Calls
  BY <1>2, TypeCalls
<1>3. CASE InCall
  BY <1>3, TypeInCall
<1>4. CASE Closed \/ UNCHANGED vars
  BY <1>4, TypeStutter DEF Closed
<1>5. CASE Manager
  BY <1>5, TypeManager
<1>6. CASE Requester(Lead)
  BY <1>1, <1>6, TypeRequester
<1>7. ASSUME NEW w \in Workers, WorkerTake(w) \/ Requester(w) PROVE TypeOK'
  BY <1>1, <1>7, TypeWorkerTake, TypeRequester
<1>8. CASE Cheats
  <2>1. ClaimItem(CheatThread) => Requester(CheatThread)
    BY DEF Requester
  <2>. QED
    BY <1>1, <1>8, <2>1, TypeRequester, TypeCheats DEF Cheats
<1>. QED
  BY <1>2, <1>3, <1>4, <1>5, <1>6, <1>7, <1>8 DEF Next

(* Whatever the threads do, every variable keeps its type and the queue    *)
(* stays within QUEUE_MAX_ITEMS.                                           *)
THEOREM TypeCorrect == Spec => []TypeOK
  BY TypeInit, TypeNext, PTL DEF Spec
=============================================================================
