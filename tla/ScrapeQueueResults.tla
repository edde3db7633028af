-------------------------- MODULE ScrapeQueueResults --------------------------
(* What the queue promises about its items: one unfinished item per ROM    *)
(* and kind of work, one item per id, results that stay, no item left in a *)
(* working state, and with all of that the job board of JobBoard.          *)
EXTENDS ScrapeQueueSafety, ScrapeQueueJobs

-----------------------------------------------------------------------------
(* Every step that neither adds, loads nor frees items narrows the queue:  *)
(* the items stay where they are and only unfinished ones change status.   *)

Narrows(s, t) ==
    /\ DOMAIN t = DOMAIN s
    /\ \A i \in DOMAIN s :
          /\ t[i].id = s[i].id /\ t[i].type = s[i].type /\ t[i].rom = s[i].rom
          /\ Unfinished(s[i]) \/ t[i] = s[i]

LEMMA NarrowsKeepsTwins ==
    ASSUME NEW s, NEW t, Narrows(s, t), NoTwins(s) PROVE NoTwins(t)
<1>1. \A i \in DOMAIN s : Unfinished(t[i]) => Unfinished(s[i])
  BY DEF Narrows
<1>. QED
  BY <1>1 DEF Narrows, NoTwins

LEMMA NarrowsKeepsIds ==
    ASSUME NEW s, NEW t, Narrows(s, t), IdsDistinct(s) PROVE IdsDistinct(t)
  BY DEF Narrows, IdsDistinct

LEMMA SetUnfinishedNarrows ==
    ASSUME NEW s \in Seq(Item), NEW status \in Statuses
    PROVE  Narrows(s, SetUnfinished(s, status))
<1>1. \A i \in DOMAIN s : s[i] \in Item
  BY ElementOfSeq, LenProperties
<1>2. SetUnfinished(s, status) = [i \in DOMAIN s |->
          IF Unfinished(s[i]) THEN [s[i] EXCEPT !.status = status] ELSE s[i]]
  BY DEF SetUnfinished
<1>. QED
  BY <1>1, <1>2 DEF Narrows, Item

LEMMA LoadedNarrows ==
    ASSUME NEW s \in Seq(Item), NEW lost
    PROVE  Narrows(s, LoadedItems(s, lost))
<1>1. \A i \in DOMAIN s : s[i] \in Item
  BY ElementOfSeq, LenProperties
<1>. DEFINE status(i) == IF s[i].type = "cheat" /\ i \in lost THEN "error" ELSE "idle"
<1>2. LoadedItems(s, lost) = [i \in DOMAIN s |->
          IF Unfinished(s[i]) THEN [s[i] EXCEPT !.status = status(i)] ELSE s[i]]
  BY DEF LoadedItems
<1>. HIDE DEF status
<1>. QED
  BY <1>1, <1>2 DEF Narrows, Item

LEMMA WorkNarrows ==
    ASSUME TypeOK, Claims, NEW t \in Threads, NEW i \in DOMAIN items, Works(t, i)
    PROVE  Narrows(items, items')
<1>1. Unfinished(items[i])
  BY DEF Works, Claims, ClaimsStayValid, Claimable, Unfinished, Active, Terminal
<1>. QED
  BY <1>1 DEF Works, OnlyStatus, Narrows

LEMMA SameNarrows == ASSUME UNCHANGED items PROVE Narrows(items, items')
  BY DEF Narrows

LEMMA ManagerNarrows ==
    ASSUME TypeOK, Claims, Manager
    PROVE  Narrows(items, items') /\ UNCHANGED nextId
<1>1. CASE ManagerReject
  <2>1. CASE UNCHANGED items
    BY <1>1, <2>1, SameNarrows DEF ManagerReject
  <2>2. CASE mgr.pc = "reject" /\ \E i \in batch.left : SetStatus(i, "error")
    <3>1. PICK i \in batch.left : SetStatus(i, "error")
      BY <2>2
    <3>2. Unfinished(items[i])
      BY <2>2, <3>1 DEF Claims, RejectsAreIdle, Unfinished, Terminal
    <3>3. OnlyStatus(i)
      BY <3>1, StatusOnly, Names
    <3>. QED
      BY <1>1, <3>2, <3>3 DEF ManagerReject, OnlyStatus, Narrows
  <2>. QED
    BY <1>1, <2>1, <2>2 DEF ManagerReject
<1>2. CASE ~ManagerReject
  <2>1. UNCHANGED <<items, nextId>>
    BY <1>2 DEF Manager, ManagerLoop, ManagerScan, ManagerSpawnCheat, ManagerNoCheat,
                ManagerCollect, ManagerFanOut, ManagerJoinWorkers, ManagerJoinCheat,
                ManagerExit, queueVars
  <2>. QED
    BY <2>1, SameNarrows
<1>. QED
  BY <1>1, <1>2

(* All the steps of the queue, by what they do to its items.               *)
LEMMA StepKinds ==
    ASSUME TypeOK, Stages, Claims, [Next]_vars
    PROVE  \/ Narrows(items, items') /\ UNCHANGED nextId
           \/ LaunchFailed
           \/ \E type \in Kinds, rom \in Roms, force \in Forces : QueueAdd(type, rom, force)
           \/ items' = <<>> /\ UNCHANGED nextId
           \/ StartFromFile
<1>. DEFINE Quiet == Narrows(items, items') /\ UNCHANGED nextId
<1>1. CASE Manager
  BY <1>1, ManagerNarrows
<1>2. ASSUME NEW t \in Workers \union {Lead}, Requester(t) PROVE Quiet
  <2>1. t \in Threads
    BY DEF Threads
  <2>2. UNCHANGED nextId
    BY <1>2, RequesterEffect
  <2>. QED
    BY <1>2, <2>1, <2>2, RequesterWorks, WorkNarrows, SameNarrows DEF Rests
<1>3. ASSUME NEW w \in Workers, WorkerTake(w) PROVE Quiet
  BY <1>3, SameNarrows DEF WorkerTake, queueVars
<1>4. CASE Cheats
  <2>1. CheatThread \in Threads
    BY DEF Threads
  <2>2. UNCHANGED nextId
    BY <1>4, CheatsEffect
  <2>. QED
    BY <1>4, <2>1, <2>2, CheatsWork, WorkNarrows, SameNarrows DEF Rests
<1>5. CASE Closed \/ UNCHANGED vars
  BY <1>5, SameNarrows DEF Closed, vars
<1>6. CASE CallerLeavesItems
  BY <1>6, LeavesItems, SameNarrows
<1>7. CASE FinishCancel \/ FinishHandoff
  <2>1. \E status \in {"skipped", "idle"} : items' = SetUnfinished(items, status)
    BY <1>7 DEF FinishCancel, FinishHandoff, HandoffItems
  <2>2. Narrows(items, items')
    BY <2>1, SetUnfinishedNarrows, Names DEF TypeOK
  <2>. QED
    BY <1>7, <2>2 DEF FinishCancel, FinishHandoff
<1>8. CASE QueueClearDone \/ FinishShutdown
  BY <1>8 DEF QueueClearDone, FinishShutdown
<1>. QED
  BY <1>1, <1>2, <1>3, <1>4, <1>5, <1>6, <1>7, <1>8
  DEF Next, Calls, InCall, CallerLeavesItems

-----------------------------------------------------------------------------
(* Identity.                                                               *)

LEMMA IdsAre == ASSUME NEW s \in Seq(Item), NEW i \in DOMAIN s PROVE s[i].id \in Nat
<1>1. s[i] \in Item
  BY ElementOfSeq, LenProperties
<1>. QED
  BY <1>1 DEF Item

LEMMA LoadKeepsIdentity ==
    ASSUME NEW s \in Seq(Item), NoTwins(s), IdsDistinct(s), NEW lost,
           QueueLoadItems(s, lost)
    PROVE  Identity'
<1>1. Narrows(s, items')
  BY LoadedNarrows DEF QueueLoadItems
<1>2. NoTwins(items') /\ IdsDistinct(items')
  BY <1>1, NarrowsKeepsTwins, NarrowsKeepsIds
<1>3. \A i \in DOMAIN items' : items'[i].id < nextId'
  <2>. SUFFICES ASSUME NEW i \in DOMAIN items' PROVE items'[i].id < nextId'
    OBVIOUS
  <2>1. i \in DOMAIN s /\ items'[i].id = s[i].id
    BY <1>1 DEF Narrows
  <2>2. nextId' > s[i].id
    BY <2>1 DEF QueueLoadItems, SkipLoadedIds
  <2>. QED
    BY <2>1, <2>2
<1>. QED
  BY <1>2, <1>3 DEF Identity

LEMMA IdentityNext ==
    ASSUME TypeOK, Stages, Claims, Identity, [Next]_vars
    PROVE  Identity'
<1>1. CASE Narrows(items, items') /\ UNCHANGED nextId
  <2>1. NoTwins(items') /\ IdsDistinct(items')
    BY <1>1, NarrowsKeepsTwins, NarrowsKeepsIds DEF Identity
  <2>2. \A i \in DOMAIN items' : items'[i].id < nextId'
    BY <1>1 DEF Narrows, Identity
  <2>. QED
    BY <2>1, <2>2 DEF Identity
<1>2. CASE LaunchFailed
  BY <1>2, LoadKeepsIdentity DEF LaunchFailed, TypeOK, Identity
<1>3. CASE StartFromFile
  BY <1>3, SavedAssumption, LoadKeepsIdentity DEF StartFromFile
<1>4. CASE items' = <<>> /\ UNCHANGED nextId
  BY <1>4 DEF Identity, NoTwins, IdsDistinct
<1>5. ASSUME NEW type \in Kinds, NEW rom \in Roms, NEW force \in Forces,
             QueueAdd(type, rom, force)
      PROVE  Identity'
  <2>. DEFINE n == Len(items) + 1
  <2>1. /\ DOMAIN items' = 1 .. n /\ DOMAIN items = 1 .. Len(items) /\ Len(items) \in Nat
        /\ \A i \in 1 .. Len(items) : items'[i] = items[i]
        /\ items'[n] = [id |-> nextId, type |-> type, rom |-> rom,
                        force |-> force, status |-> "idle"]
    BY <1>5, AddEffect
  <2>2. nextId' = nextId + 1 /\ ~AlreadyQueued(type, rom) /\ nextId \in Nat
    BY <1>5 DEF QueueAdd, TypeOK
  <2>3. \A i \in DOMAIN items' : i = n \/ (i \in DOMAIN items /\ items'[i] = items[i])
    BY <2>1
  <2>4. \A i \in DOMAIN items : items[i].id < nextId /\ items[i].id \in Nat
    BY IdsAre DEF Identity, TypeOK
  <2>5. items'[n].id = nextId /\ items'[n].type = type /\ items'[n].rom = rom
    BY <2>1
  <2>6. IdsDistinct(items')
    BY <2>2, <2>3, <2>4, <2>5 DEF IdsDistinct, Identity
  <2>7. NoTwins(items')
    BY <2>2, <2>3, <2>5 DEF NoTwins, Identity, AlreadyQueued
  <2>8. \A i \in DOMAIN items' : items'[i].id < nextId'
    BY <2>2, <2>3, <2>4, <2>5
  <2>. QED
    BY <2>6, <2>7, <2>8 DEF Identity
<1>. QED
  BY <1>1, <1>2, <1>3, <1>4, <1>5, StepKinds

LEMMA IdentityInit == Init => Identity
  BY DEF Init, Identity, NoTwins, IdsDistinct

LEMMA IdentityAlways == Spec => [](TypeOK /\ Stages /\ Claims /\ Identity)
  BY TypeInit, TypeNext, StagesInit, StagesNext, ClaimsInit, ClaimsNext, IdentityInit,
     IdentityNext, PTL DEF Spec

(* The dedupe of the adders is enough: no reset, handoff or load brings a  *)
(* second unfinished item for a ROM and kind of work into the queue.       *)
THEOREM NoWorkTwice == Spec => []NoDuplicateWork
<1>1. Identity => NoDuplicateWork
  BY DEF Identity, NoDuplicateWork
<1>. QED
  BY <1>1, IdentityAlways, PTL

(* Ids stay unique over adds, clears, handoffs and loads (as long as the   *)
(* 32-bit counter does not wrap): the progress screen can address by id.   *)
THEOREM IdsAreUnique == Spec => []UniqueIds
<1>1. Identity => UniqueIds
  BY DEF Identity, UniqueIds
<1>. QED
  BY <1>1, IdentityAlways, PTL

-----------------------------------------------------------------------------
(* Results.                                                                *)

LEMMA NarrowsIsFinal ==
    ASSUME NEW s, NEW t, Narrows(s, t), IdsDistinct(s),
           NEW i \in DOMAIN s, NEW j \in DOMAIN t, t[j].id = s[i].id, ~Unfinished(s[i])
    PROVE  t[j] = s[i]
<1>1. j \in DOMAIN s /\ s[j].id = s[i].id
  BY DEF Narrows
<1>2. j = i
  BY <1>1 DEF IdsDistinct
<1>. QED
  BY <1>1, <1>2 DEF Narrows

LEMMA FinalStep ==
    ASSUME TypeOK, Stages, Claims, Identity, [Next]_vars,
           NEW i \in DOMAIN items, NEW j \in DOMAIN items',
           items'[j].id = items[i].id, ~Unfinished(items[i])
    PROVE  items'[j] = items[i]
<1>1. CASE Narrows(items, items')
  BY <1>1, NarrowsIsFinal DEF Identity
<1>2. CASE LaunchFailed
  <2>1. Narrows(items, items')
    BY <1>2, LoadedNarrows DEF LaunchFailed, QueueLoadItems, TypeOK
  <2>. QED
    BY <2>1, NarrowsIsFinal DEF Identity
<1>3. CASE StartFromFile
  <2>1. items = <<>>
    BY <1>3 DEF StartFromFile, Stages
  <2>. QED
    BY <2>1
<1>4. CASE items' = <<>>
  BY <1>4
<1>5. ASSUME NEW type \in Kinds, NEW rom \in Roms, NEW force \in Forces,
             QueueAdd(type, rom, force)
      PROVE  items'[j] = items[i]
  <2>. DEFINE n == Len(items) + 1
  <2>1. /\ DOMAIN items' = 1 .. n /\ DOMAIN items = 1 .. Len(items) /\ Len(items) \in Nat
        /\ \A k \in 1 .. Len(items) : items'[k] = items[k]
        /\ items'[n] = [id |-> nextId, type |-> type, rom |-> rom,
                        force |-> force, status |-> "idle"]
    BY <1>5, AddEffect
  <2>2. items[i].id < nextId /\ items[i].id \in Nat
    BY IdsAre DEF Identity, TypeOK
  <2>3. j \in DOMAIN items /\ items'[j] = items[j]
    <3>1. items'[n].id = nextId
      BY <2>1
    <3>. QED
      BY <2>1, <2>2, <3>1
  <2>4. j = i
    BY <2>3 DEF Identity, IdsDistinct
  <2>. QED
    BY <2>3, <2>4
<1>. QED
  BY <1>1, <1>2, <1>3, <1>4, <1>5, StepKinds

(* A finished item keeps its result until it is removed, whatever late     *)
(* threads, cancels, handoffs and loads do.                                *)
THEOREM ResultsStay == Spec => ResultsAreFinal
<1>. DEFINE Final == \A i \in DOMAIN items, j \in DOMAIN items' :
                        /\ items'[j].id = items[i].id
                        /\ ~Unfinished(items[i])
                        => items'[j] = items[i]
<1>1. (TypeOK /\ Stages /\ Claims /\ Identity) /\ [Next]_vars => [Final]_vars
  BY FinalStep
<1>2. ResultsAreFinal <=> [][Final]_vars
  BY DEF ResultsAreFinal
<1>. HIDE DEF Final
<1>. QED
  BY <1>1, <1>2, IdentityAlways, PTL DEF Spec

-----------------------------------------------------------------------------
(* Flags.                                                                  *)

LEMMA FlagsStay ==
    ASSUME Flags, UNCHANGED <<started, running, interrupt, ui>>, mgr'.pc = mgr.pc
    PROVE  Flags'
  BY DEF Flags

LEMMA FlagsManager == ASSUME TypeOK, Stages, Flags, Manager PROVE Flags'
<1>1. mgr.pc # "none"
  BY DEF Manager, ManagerLoop, ManagerScan, ManagerSpawnCheat, ManagerNoCheat,
         ManagerCollect, ManagerReject, ManagerFanOut, ManagerJoinWorkers,
         ManagerJoinCheat, ManagerExit
<1>2. ui.pc \in ManagedUi /\ started
  BY <1>1 DEF Stages
<1>3. CASE ManagerLoop
  <2>1. /\ UNCHANGED <<started, running, interrupt, ui>>
        /\ mgr'.pc = IF running /\ ~interrupt THEN "scan" ELSE "exit"
    BY <1>3 DEF ManagerLoop, ManagerGoto, TypeOK, flagVars
  <2>. QED
    BY <1>2, <2>1 DEF Flags, ManagedUi
<1>4. CASE ManagerExit
  <2>1. mgr.pc = "exit" /\ UNCHANGED <<started, interrupt, ui>>
    BY <1>4 DEF ManagerExit
  <2>2. ui.pc \notin {"ready", "ensure"}
    BY <1>2, <2>1 DEF Flags
  <2>. QED
    BY <1>2, <2>1, <2>2 DEF Flags, ManagedUi
<1>5. CASE ~ManagerLoop /\ ~ManagerExit
  <2>1. UNCHANGED <<started, running, interrupt, ui>>
    BY <1>5 DEF Manager, ManagerScan, ManagerSpawnCheat, ManagerNoCheat, ManagerCollect,
                ManagerReject, ManagerFanOut, ManagerJoinWorkers, ManagerJoinCheat, flagVars
  <2>2. mgr'.pc \notin {"none", "exit", "exited"}
    <3>1. CASE ManagerReject \/ ManagerFanOut \/ ManagerJoinWorkers
      <4>1. CASE EndBatch
        BY <4>1, EndBatchStep, NotRejecting
      <4>2. CASE mgr.pc = "reject" /\ UNCHANGED mgr
        BY <4>2
      <4>3. CASE ManagerGoto("join")
        BY <4>3 DEF ManagerGoto, TypeOK
      <4>. QED
        BY <3>1, <4>1, <4>2, <4>3 DEF ManagerReject, ManagerFanOut, ManagerJoinWorkers
    <3>2. CASE ~ManagerReject /\ ~ManagerFanOut /\ ~ManagerJoinWorkers
      BY <1>5, <3>2 DEF Manager, ManagerScan, ManagerSpawnCheat, ManagerNoCheat,
                        ManagerCollect, ManagerJoinCheat, ManagerGoto, StageAfter, TypeOK
    <3>. QED
      BY <3>1, <3>2
  <2>. QED
    BY <1>2, <2>1, <2>2 DEF Flags, ManagedUi
<1>. QED
  BY <1>3, <1>4, <1>5

LEMMA FlagsCaller == ASSUME TypeOK, Stages, Flags, Calls \/ InCall PROVE Flags'
<1>1. CASE StartEmpty \/ EndMappingEdit
  BY <1>1 DEF StartEmpty, EndMappingEdit, Flags, flagVars
<1>2. CASE StartFromFile \/ LaunchFailed
  <2>1. /\ ui.pc \in {"startup", "handed"} /\ UNCHANGED <<started, running, interrupt>>
    BY <1>2 DEF StartFromFile, LaunchFailed, QueueLoadItems, flagVars
  <2>2. ui'.pc \in {"ensure", "ready"}
    BY <1>2 DEF StartFromFile, LaunchFailed, QueueLoadItems
  <2>. QED
    BY <2>1, <2>2 DEF Flags
<1>3. ASSUME NEW type \in Kinds, NEW rom \in Roms, NEW force \in Forces,
             QueueAdd(type, rom, force)
      PROVE  Flags'
  <2>1. /\ ui.pc = "ready" /\ ui'.pc = "ensure"
        /\ UNCHANGED <<started, running, interrupt, mgr>>
    BY <1>3 DEF QueueAdd, UiReady, UiGoto, TypeOK, flagVars, threadVars
  <2>. QED
    BY <2>1 DEF Flags
<1>4. CASE QueueClearDone \/ QueueCheckDirty
  <2>1. UNCHANGED <<started, running, interrupt, ui, mgr>>
    BY <1>4 DEF QueueClearDone, QueueCheckDirty, flagVars, threadVars
  <2>. QED
    BY <2>1, FlagsStay
<1>5. CASE BeginShutdown \/ \E op \in {"cancel", "handoff", "mapping"} : BeginStop(op)
  BY <1>5 DEF BeginShutdown, BeginStop, Flags
<1>6. CASE EnsureManagerStarted
  <2>1. CASE started
    <3>1. /\ ui.pc = "ensure" /\ ui'.pc = "ready"
          /\ UNCHANGED <<started, running, interrupt, mgr>>
      BY <1>6, <2>1 DEF EnsureManagerStarted, UiGoto, TypeOK, flagVars, threadVars
    <3>. QED
      BY <3>1 DEF Flags
  <2>2. CASE ~started
    <3>1. ui'.pc = "spawn" /\ running' /\ ~interrupt'
      BY <1>6, <2>2 DEF EnsureManagerStarted, UiGoto, TypeOK
    <3>. QED
      BY <3>1 DEF Flags
  <2>. QED
    BY <2>1, <2>2
<1>7. CASE SpawnManager
  <2>1. /\ ui.pc = "spawn" /\ ui'.pc = "ready" /\ mgr'.pc = "loop"
        /\ UNCHANGED <<started, running, interrupt>>
    BY <1>7 DEF SpawnManager, ManagerGoto, UiGoto, TypeOK, flagVars
  <2>. QED
    BY <2>1 DEF Flags
<1>8. CASE SpawnManagerFails
  BY <1>8 DEF SpawnManagerFails, Flags
<1>9. CASE ShutdownInterrupts
  <2>1. /\ UNCHANGED started /\ ui'.pc = IF started THEN "stopping" ELSE "finish"
    BY <1>9 DEF ShutdownInterrupts, UiGoto, TypeOK
  <2>. QED
    BY <2>1 DEF Flags
<1>10. CASE StopManagerForTransition \/ FinishCancel
  BY <1>10 DEF StopManagerForTransition, FinishCancel, Flags
<1>11. CASE FinishHandoff \/ FinishMapping \/ FinishShutdown
  <2>1. ui.pc = "finish" /\ UNCHANGED started
    BY <1>11 DEF FinishHandoff, FinishMapping, FinishShutdown, flagVars
  <2>2. ~started'
    BY <2>1 DEF Flags
  <2>. QED
    BY <2>2 DEF Flags
<1>. QED
  BY <1>1, <1>2, <1>3, <1>4, <1>5, <1>6, <1>7, <1>8, <1>9, <1>10, <1>11 DEF Calls, InCall

LEMMA FlagsNext == ASSUME TypeOK, Stages, Flags, [Next]_vars PROVE Flags'
<1>1. CASE Calls \/ InCall
  BY <1>1, FlagsCaller
<1>2. CASE Closed \/ UNCHANGED vars
  BY <1>2, FlagsStay DEF Closed, vars
<1>3. CASE Manager
  BY <1>3, FlagsManager
<1>4. ASSUME NEW t \in Workers \union {Lead}, Requester(t) PROVE Flags'
  BY <1>4, RequesterEffect, FlagsStay DEF flagVars
<1>5. ASSUME NEW w \in Workers, WorkerTake(w) PROVE Flags'
  BY <1>5, FlagsStay DEF WorkerTake, flagVars
<1>6. CASE Cheats
  BY <1>6, CheatsEffect, FlagsStay DEF flagVars
<1>. QED
  BY <1>1, <1>2, <1>3, <1>4, <1>5, <1>6 DEF Next

(* An add that finds a manager started never waits for one that is on its  *)
(* way out, and a stop joins exactly the manager that runs.                *)
THEOREM StartedIsAlive == Spec => []StartedMeansAlive
<1>1. Init => Flags
  BY DEF Init, Flags
<1>2. Spec => [](TypeOK /\ Stages /\ Flags)
  BY <1>1, TypeInit, TypeNext, StagesInit, StagesNext, FlagsNext, PTL DEF Spec
<1>3. Stages /\ Flags => StartedMeansAlive
  BY DEF Stages, Flags, StartedMeansAlive
<1>. QED
  BY <1>2, <1>3, PTL

-----------------------------------------------------------------------------
(* What a step of a thread is for the item it holds.                       *)

Takes(t, i) ==
    /\ ~Working(t) /\ Claimable(i, KindOf(t)) /\ OnlyStatus(i) /\ items'[i].status \in Active
    /\ Working(t)' /\ job'[t].idx = i /\ job'[t].id = items[i].id
Continues(t) ==
    /\ Working(t) /\ OnlyStatus(job[t].idx) /\ items'[job[t].idx].status \in Active
    /\ Working(t)' /\ job'[t].idx = job[t].idx /\ job'[t].id = job[t].id
Settles(t) ==
    /\ Working(t) /\ OnlyStatus(job[t].idx) /\ items'[job[t].idx].status \in Terminal
    /\ ~Working(t)'
Abandons(t) == Working(t) /\ interrupt /\ UNCHANGED items /\ ~Working(t)'
Pauses(t) == ~Working(t) /\ UNCHANGED items /\ ~Working(t)'

Moves(t) ==
    /\ OthersStay(t)
    /\ (\E i : Takes(t, i)) \/ Continues(t) \/ Settles(t) \/ Abandons(t) \/ Pauses(t)

LEMMA RecordMoves ==
    ASSUME TypeOK, Claims, NEW t \in Threads, Working(t),
           NEW status \in Statuses, SetStatus(job[t].idx, status),
           NEW r, job' = [job EXCEPT ![t] = r],
           \/ status \in Active /\ r.pc \in WorkingPcs /\ r.idx = job[t].idx /\ r.id = job[t].id
           \/ status \in Terminal /\ r.pc \notin WorkingPcs
    PROVE  Moves(t)
<1>1. job[t].idx \in DOMAIN items
  BY DEF Claims, ClaimsStayValid
<1>2. /\ OnlyStatus(job[t].idx) /\ items'[job[t].idx].status = status
      /\ OthersStay(t) /\ job'[t] = r
  BY <1>1, StatusOnly, JobStays
<1>. QED
  BY <1>2 DEF Moves, Continues, Settles, Working

LEMMA ReturnMoves ==
    ASSUME TypeOK, Claims, NEW t \in Threads, Working(t), UNCHANGED items,
           NEW pc \in WorkingPcs, NEW ret, job' = [job EXCEPT ![t] = Holding(t, pc, ret)]
    PROVE  Moves(t)
<1>1. job[t].idx \in DOMAIN items /\ items[job[t].idx].status \in Active
  BY DEF Claims, ClaimsStayValid
<1>2. OthersStay(t) /\ job'[t] = Holding(t, pc, ret)
  BY JobStays
<1>. QED
  BY <1>1, <1>2 DEF Moves, Continues, Working, OnlyStatus, Holding

LEMMA ClaimMoves == ASSUME TypeOK, NEW t \in Threads, ClaimItem(t) PROVE Moves(t)
<1>. DEFINE i == job[t].idx
<1>0. ~Working(t)
  BY DEF ClaimItem, Working, WorkingPcs
<1>1. CASE Claimable(i, KindOf(t))
  <2>1. PICK s \in IF t = CheatThread THEN {"cloning", "matching"} ELSE {"searching"} :
          SetStatus(i, s)
    BY <1>1 DEF ClaimItem
  <2>2. s \in Active /\ s \in Statuses /\ i \in DOMAIN items
    BY <1>1, <2>1 DEF Active, Statuses, Claimable
  <2>3. OnlyStatus(i) /\ items'[i].status = s
    BY <2>1, <2>2, StatusOnly
  <2>. DEFINE r == [pc |-> IF t = CheatThread THEN "list" ELSE "search",
                    idx |-> i, id |-> items[i].id, ret |-> "none"]
  <2>4. OthersStay(t) /\ job'[t] = r
    <3>1. job' = [job EXCEPT ![t] = r]
      BY <1>1 DEF ClaimItem
    <3>. HIDE DEF r
    <3>. QED
      BY <3>1, JobStays
  <2>5. r.pc \in WorkingPcs /\ r.idx = i /\ r.id = items[i].id
    BY DEF WorkingPcs
  <2>. QED
    BY <1>0, <1>1, <2>2, <2>3, <2>4, <2>5 DEF Moves, Takes, Working
<1>2. CASE ~Claimable(i, KindOf(t))
  <2>1. UNCHANGED items /\ OthersStay(t) /\ job'[t] = Resume(t)
    BY <1>2, JobStays DEF ClaimItem
  <2>. QED
    BY <1>0, <2>1, IdlePcs DEF Moves, Pauses, Working
<1>. QED
  BY <1>1, <1>2

\* A thread that was interrupted leaves its item as it is.
LEMMA AbandonMoves ==
    ASSUME TypeOK, NEW t \in Threads, Working(t), interrupt, UNCHANGED items,
           NEW r, r.pc \notin WorkingPcs, job' = [job EXCEPT ![t] = r]
    PROVE  Moves(t)
  BY JobStays DEF Moves, Abandons, Working

LEMMA RequesterMoves ==
    ASSUME TypeOK, Claims, Interrupts, NEW t \in Workers \union {Lead}, Requester(t)
    PROVE  Moves(t)
<1>1. t \in Threads
  BY DEF Threads
<1>. DEFINE i == job[t].idx
<1>2. job[t].ret = "cancelled" => interrupt
  BY <1>1 DEF Interrupts
<1>3. CASE ClaimItem(t)
  BY <1>1, <1>3, ClaimMoves
<1>4. CASE SearchReturns(t)
  <2>1. Working(t) /\ UNCHANGED items /\ "searched" \in WorkingPcs
    BY <1>4 DEF SearchReturns, Working, WorkingPcs, queueVars
  <2>2. \E ret : job' = [job EXCEPT ![t] = Holding(t, "searched", ret)]
    BY <1>4 DEF SearchReturns
  <2>. QED
    BY <1>1, <2>1, <2>2, ReturnMoves
<1>5. CASE RecordSearch(t)
  <2>0. Working(t)
    BY <1>5 DEF RecordSearch, Working, WorkingPcs
  <2>1. CASE job[t].ret = "cancelled"
    BY <1>1, <1>2, <1>5, <2>0, <2>1, IdlePcs, AbandonMoves DEF RecordSearch
  <2>2. CASE job[t].ret \in {"not_found", "failed"}
    <3>1. PICK s \in {"error", "not_found"} : SetStatus(i, s)
      BY <1>5, <2>2 DEF RecordSearch
    <3>2. job' = [job EXCEPT ![t] = Resume(t)] /\ s \in Statuses /\ s \in Terminal
      BY <1>5, <2>2, Names DEF RecordSearch, Terminal
    <3>. QED
      BY <1>1, <2>0, <3>1, <3>2, IdlePcs, RecordMoves
  <2>3. CASE job[t].ret = "found"
    <3>. DEFINE r == Holding(t, "download", "none")
    <3>1. /\ SetStatus(i, "downloading") /\ "downloading" \in Statuses
          /\ "downloading" \in Active /\ job' = [job EXCEPT ![t] = r]
      BY <1>5, <2>3, Names DEF RecordSearch, Active
    <3>2. r.pc \in WorkingPcs /\ r.idx = job[t].idx /\ r.id = job[t].id
      BY DEF Holding, WorkingPcs
    <3>. HIDE DEF r
    <3>. QED
      BY <1>1, <2>0, <3>1, <3>2, RecordMoves
  <2>. QED
    BY <1>5, <2>1, <2>2, <2>3 DEF RecordSearch
<1>6. CASE DownloadReturns(t)
  <2>1. Working(t) /\ UNCHANGED items /\ "downloaded" \in WorkingPcs
    BY <1>6 DEF DownloadReturns, Working, WorkingPcs, queueVars
  <2>2. \E ret : job' = [job EXCEPT ![t] = Holding(t, "downloaded", ret)]
    BY <1>6 DEF DownloadReturns
  <2>. QED
    BY <1>1, <2>1, <2>2, ReturnMoves
<1>7. CASE RecordDownload(t)
  <2>0. Working(t)
    BY <1>7 DEF RecordDownload, Working, WorkingPcs
  <2>1. CASE job[t].ret = "cancelled" /\ job' = [job EXCEPT ![t] = At("none")] /\ UNCHANGED items
    BY <1>1, <1>2, <2>0, <2>1, IdlePcs, AbandonMoves
  <2>2. CASE /\ \E s \in {"done", "error"} : SetStatus(i, s)
             /\ job' = [job EXCEPT ![t] = Resume(t)]
    <3>1. PICK s \in {"done", "error"} : SetStatus(i, s)
      BY <2>2
    <3>2. s \in Statuses /\ s \in Terminal
      BY Names DEF Terminal
    <3>. QED
      BY <1>1, <2>0, <2>2, <3>1, <3>2, IdlePcs, RecordMoves
  <2>. QED
    BY <1>7, <2>1, <2>2 DEF RecordDownload
<1>. QED
  BY <1>3, <1>4, <1>5, <1>6, <1>7 DEF Requester

LEMMA CheatsMove == ASSUME TypeOK, Claims, Cheats PROVE Moves(CheatThread)
<1>. DEFINE c == CheatThread
            i == job[c].idx
<1>1. c \in Threads
  BY DEF Threads
<1>3. CASE ClaimItem(c)
  BY <1>1, <1>3, ClaimMoves
<1>4. CASE CheatFind
  <2>1. /\ UNCHANGED items /\ ~Working(c)
        /\ \E r : r.pc \notin WorkingPcs /\ job' = [job EXCEPT ![c] = r]
    BY <1>4, IdlePcs DEF CheatFind, queueVars, Working, WorkingPcs
  <2>. QED
    BY <1>1, <2>1, JobStays DEF Moves, Pauses, Working
<1>5. CASE CheatListReturns
  <2>0. Working(c)
    BY <1>5 DEF CheatListReturns, Working, WorkingPcs
  <2>1. CASE UNCHANGED items /\ job' = [job EXCEPT ![c] = Resume(c)] /\ interrupt
    BY <1>1, <2>0, <2>1, IdlePcs, AbandonMoves
  <2>2. CASE /\ SetStatus(i, "skipped")
             /\ job' = [job EXCEPT ![c] = Resume(c)]
    <3>1. "skipped" \in Statuses /\ "skipped" \in Terminal
      BY Names DEF Terminal
    <3>. QED
      BY <1>1, <2>0, <2>2, <3>1, IdlePcs, RecordMoves
  <2>3. CASE /\ UNCHANGED items
             /\ \E ret : job' = [job EXCEPT ![c] = Holding(c, "listed", ret)]
    <3>1. "listed" \in WorkingPcs
      BY DEF WorkingPcs
    <3>. QED
      BY <1>1, <2>0, <2>3, <3>1, ReturnMoves
  <2>. QED
    BY <1>5, <2>1, <2>2, <2>3 DEF CheatListReturns
<1>7. CASE RecordCheatList
  <2>0. Working(c)
    BY <1>7 DEF RecordCheatList, Working, WorkingPcs
  <2>1. CASE /\ SetStatus(i, "error")
             /\ job' = [job EXCEPT ![c] = Resume(c)]
    <3>1. "error" \in Statuses /\ "error" \in Terminal
      BY Names DEF Terminal
    <3>. QED
      BY <1>1, <2>0, <2>1, <3>1, IdlePcs, RecordMoves
  <2>2. CASE /\ SetStatus(i, "matching")
             /\ job' = [job EXCEPT ![c] = Holding(c, "match", "none")]
    <3>. DEFINE r == Holding(c, "match", "none")
    <3>1. /\ "matching" \in Statuses /\ "matching" \in Active
          /\ r.pc \in WorkingPcs /\ r.idx = job[c].idx /\ r.id = job[c].id
      BY Names DEF Active, Holding, WorkingPcs
    <3>2. job' = [job EXCEPT ![c] = r]
      BY <2>2
    <3>. HIDE DEF r
    <3>. QED
      BY <1>1, <2>0, <2>2, <3>1, <3>2, RecordMoves
  <2>. QED
    BY <1>7, <2>1, <2>2 DEF RecordCheatList
<1>6. CASE CheatMatchReturns
  <2>0. Working(c)
    BY <1>6 DEF CheatMatchReturns, Working, WorkingPcs
  <2>1. /\ \E s \in {"done", "not_found", "error"} : SetStatus(i, s)
        /\ job' = [job EXCEPT ![c] = Resume(c)]
    BY <1>6 DEF CheatMatchReturns
  <2>2. {"done", "not_found", "error"} \subseteq Statuses \intersect Terminal
    BY Names DEF Terminal
  <2>. QED
    BY <1>1, <2>0, <2>1, <2>2, IdlePcs, RecordMoves
<1>. QED
  BY <1>3, <1>4, <1>5, <1>6, <1>7 DEF Cheats

LEMMA WorkerPauses == ASSUME TypeOK, NEW w \in Workers, WorkerTake(w) PROVE Moves(w)
<1>1. PICK r \in JobType : r.pc \in {"none", "claim"} /\ job' = [job EXCEPT ![w] = r]
  BY WorkerTakeEffect
<1>2. /\ w \in Threads /\ UNCHANGED items
      /\ job[w].pc \notin WorkingPcs /\ r.pc \notin WorkingPcs
  BY <1>1, WorkerTakeEffect DEF Threads, queueVars, WorkingPcs
<1>. QED
  BY <1>1, <1>2, JobStays DEF Moves, Pauses, Working

-----------------------------------------------------------------------------
(* Nobody reports a cancelled request without an interrupt, nobody finds   *)
(* the interrupt set outside a stop, and a mapping edit finds no work.     *)

Answers(t) ==
    job'[t].ret = "cancelled" => interrupt /\ job'[t].pc \in {"searched", "downloaded"}

LEMMA RequesterAnswers ==
    ASSUME TypeOK, NEW t \in Workers \union {Lead}, Requester(t) PROVE Answers(t)
<1>1. t \in Threads
  BY DEF Threads
<1>2. job \in [Threads -> JobType]
  BY DEF TypeOK
<1>3. Resume(t).ret = "none" /\ At("none").ret = "none"
  BY DEF Resume, At
<1>4. CASE ClaimItem(t)
  BY <1>1, <1>2, <1>3, <1>4 DEF ClaimItem, Answers
<1>5. CASE SearchReturns(t) \/ DownloadReturns(t)
  BY <1>1, <1>2, <1>5 DEF SearchReturns, DownloadReturns, Holding, Answers
<1>6. CASE RecordSearch(t)
  BY <1>1, <1>2, <1>3, <1>6 DEF RecordSearch, Holding, Answers
<1>7. CASE RecordDownload(t)
  BY <1>1, <1>2, <1>3, <1>7 DEF RecordDownload, Answers
<1>. QED
  BY <1>4, <1>5, <1>6, <1>7 DEF Requester

LEMMA CheatsAnswer == ASSUME TypeOK, Cheats PROVE Answers(CheatThread)
<1>. DEFINE c == CheatThread
<1>1. c \in Threads /\ job \in [Threads -> JobType]
  BY DEF Threads, TypeOK
<1>2. Resume(c).ret = "none" /\ At("none").ret = "none" /\ \A i : ClaimAt(i).ret = "none"
  BY DEF Resume, At, ClaimAt
<1>3. \E r : job' = [job EXCEPT ![c] = r] /\ r.ret # "cancelled"
  <2>1. CASE ClaimItem(c)
    BY <1>2, <2>1 DEF ClaimItem
  <2>2. CASE CheatFind
    BY <1>2, <2>2 DEF CheatFind
  <2>3. CASE CheatListReturns
    BY <1>2, <2>3 DEF CheatListReturns, Holding
  <2>4. CASE RecordCheatList
    BY <1>2, <2>4 DEF RecordCheatList, Holding
  <2>5. CASE CheatMatchReturns
    BY <1>2, <2>5 DEF CheatMatchReturns
  <2>. QED
    BY <2>1, <2>2, <2>3, <2>4, <2>5 DEF Cheats
<1>. QED
  BY <1>1, <1>3 DEF Answers

LEMMA InterruptsKept ==
    ASSUME Interrupts, UNCHANGED <<interrupt, ui>>, Narrows(items, items'),
           \A t \in Threads : job'[t] = job[t] \/ Answers(t)
    PROVE  Interrupts'
<1>1. ~HasUnfinished => ~HasUnfinished'
  BY DEF HasUnfinished, Narrows
<1>2. \A t \in Threads : Answers(t)
  BY DEF Interrupts, Answers
<1>. QED
  BY <1>1, <1>2 DEF Interrupts, Answers

LEMMA ManagerFlags == ASSUME Manager PROVE UNCHANGED <<interrupt, ui>>
  BY DEF Manager, ManagerLoop, ManagerScan, ManagerSpawnCheat, ManagerNoCheat, ManagerCollect,
         ManagerReject, ManagerFanOut, ManagerJoinWorkers, ManagerJoinCheat, ManagerExit,
         flagVars

LEMMA CallerKeepsJobs == ASSUME Calls \/ InCall PROVE UNCHANGED job
  BY DEF Calls, InCall, StartEmpty, StartFromFile, QueueLoadItems, QueueAdd, QueueClearDone,
         QueueCheckDirty, BeginStop, BeginShutdown, EndMappingEdit, LaunchFailed,
         EnsureManagerStarted, SpawnManager, SpawnManagerFails, ShutdownInterrupts,
         StopManagerForTransition, FinishCancel, FinishHandoff, FinishMapping,
         FinishShutdown, threadVars

LEMMA InterruptsManager == ASSUME TypeOK, Claims, Interrupts, Manager PROVE Interrupts'
<1>1. Narrows(items, items')
  BY ManagerNarrows
<1>2. UNCHANGED <<interrupt, ui>>
  BY ManagerFlags
<1>3. \A t \in Threads : job'[t] = job[t] \/ job'[t].ret = "none"
  <2>0. job \in [Threads -> JobType] /\ Lead \in Threads /\ CheatThread \in Threads
    BY DEF TypeOK, Threads
  <2>1. CASE ManagerSpawnCheat
    BY <2>0, <2>1 DEF ManagerSpawnCheat, At
  <2>2. ASSUME NEW kind \in {"artwork", "manual"}, ManagerCollect(kind)
        PROVE  \A t \in Threads : job'[t] = job[t] \/ job'[t].ret = "none"
    BY <2>0, <2>2 DEF ManagerCollect, ClaimAt
  <2>3. CASE ManagerFanOut
    <3>1. \A t \in Threads : job'[t] = job[t] \/ job'[t] = At("top")
      BY <2>3 DEF ManagerFanOut
    <3>. QED
      BY <3>1 DEF At
  <2>. QED
    BY <2>1, <2>2, <2>3
    DEF Manager, ManagerLoop, ManagerScan, ManagerNoCheat, ManagerReject,
        ManagerJoinWorkers, ManagerJoinCheat, ManagerExit
<1>. QED
  BY <1>1, <1>2, <1>3, InterruptsKept DEF Answers

LEMMA InterruptsCaller ==
    ASSUME TypeOK, Stages, Claims, Interrupts, Calls \/ InCall PROVE Interrupts'
<1>0. ui \in [pc : UiPcs, op : UiOps] /\ interrupt \in BOOLEAN
  BY DEF TypeOK
<1>1. UNCHANGED job
  BY CallerKeepsJobs
<1>2. ASSUME ~interrupt, interrupt' => ui'.pc = "stopping",
             ui'.op = "mapping" => ~HasUnfinished' /\ ui'.pc \in {"stopping", "finish", "editing"}
      PROVE  Interrupts'
  BY <1>1, <1>2 DEF Interrupts
<1>3. CASE StartEmpty \/ EndMappingEdit
  <2>1. ui.pc \in {"startup", "editing"} /\ UNCHANGED interrupt /\ ui'.op = "none"
    BY <1>3 DEF StartEmpty, EndMappingEdit, flagVars
  <2>. QED
    BY <2>1, <1>2 DEF Interrupts
<1>4. CASE StartFromFile \/ LaunchFailed
  <2>1. ui.pc \in {"startup", "handed"} /\ UNCHANGED interrupt /\ ui'.op = "none"
    BY <1>4 DEF StartFromFile, LaunchFailed, QueueLoadItems, flagVars
  <2>. QED
    BY <2>1, <1>2 DEF Interrupts
<1>5. CASE \/ QueueClearDone \/ QueueCheckDirty \/ BeginShutdown
           \/ \E type \in Kinds, rom \in Roms, force \in Forces : QueueAdd(type, rom, force)
  <2>1. /\ ui.pc \in {"ready", "handed"} /\ UNCHANGED interrupt
        /\ \/ UNCHANGED ui \/ UiGoto("ensure")
           \/ ui' = [pc |-> "closing", op |-> "shutdown"]
    <3>1. CASE QueueClearDone \/ QueueCheckDirty \/ BeginShutdown
      BY <3>1 DEF QueueClearDone, QueueCheckDirty, BeginShutdown, UiReady, flagVars
    <3>2. CASE \E type \in Kinds, rom \in Roms, force \in Forces : QueueAdd(type, rom, force)
      BY <3>2 DEF QueueAdd, UiReady, flagVars
    <3>. QED
      BY <1>5, <3>1, <3>2
  <2>2. ui'.op \in {ui.op, "shutdown"}
    BY <1>0, <2>1 DEF UiGoto
  <2>. QED
    BY <2>1, <2>2, <1>2 DEF Interrupts
<1>6. ASSUME NEW op \in {"cancel", "handoff", "mapping"}, BeginStop(op) PROVE Interrupts'
  <2>1. /\ ui.pc = "ready" /\ ui'.pc = "stopping" /\ ui'.op = op /\ UNCHANGED items
        /\ op = "mapping" => ~HasUnfinished
    BY <1>6 DEF BeginStop, UiReady, queueVars
  <2>2. op = "mapping" => ~HasUnfinished'
    BY <2>1 DEF HasUnfinished
  <2>. QED
    BY <2>1, <2>2, <1>2 DEF Interrupts
<1>7. CASE EnsureManagerStarted \/ SpawnManager \/ SpawnManagerFails
  <2>1. /\ ui.pc \in {"ensure", "spawn"} /\ ui'.op = ui.op
        /\ ~interrupt' \/ UNCHANGED interrupt
    BY <1>0, <1>7 DEF EnsureManagerStarted, SpawnManager, SpawnManagerFails, UiGoto, flagVars
  <2>. QED
    BY <2>1, <1>2 DEF Interrupts
<1>8. CASE ShutdownInterrupts
  <2>1. /\ ui.pc = "closing" /\ ui'.op = ui.op
        /\ \/ interrupt' /\ ui'.pc = "stopping"
           \/ UNCHANGED interrupt
    BY <1>0, <1>8 DEF ShutdownInterrupts, UiGoto
  <2>. QED
    BY <2>1, <1>2 DEF Interrupts
<1>9. CASE StopManagerForTransition
  <2>1. \A t \in Threads : job[t].pc = "none"
    BY <1>9, JoinedIsQuiet DEF StopManagerForTransition
  <2>2. /\ ui.pc = "stopping" /\ ui' = [ui EXCEPT !.pc = "finish"] /\ UNCHANGED items
        /\ interrupt' = (ui.op = "shutdown")
    BY <1>9 DEF StopManagerForTransition, UiGoto, queueVars
  <2>3. ~HasUnfinished => ~HasUnfinished'
    BY <2>2 DEF HasUnfinished
  <2>. QED
    BY <1>0, <1>1, <2>1, <2>2, <2>3 DEF Interrupts
<1>10. CASE FinishCancel \/ FinishHandoff
  <2>1. /\ ui.pc = "finish" /\ ui.op \in {"cancel", "handoff"} /\ UNCHANGED interrupt
        /\ ui'.op \in {"none", ui.op}
    BY <1>0, <1>10 DEF FinishCancel, FinishHandoff, UiGoto, flagVars
  <2>. QED
    BY <2>1, <1>2 DEF Interrupts
<1>11. CASE FinishMapping
  <2>1. /\ ui.pc = "finish" /\ ui.op = "mapping" /\ UNCHANGED <<interrupt, items>>
        /\ ui'.op = "mapping" => ui'.pc = "editing" /\ ~HasUnfinished
    BY <1>11 DEF FinishMapping, flagVars, queueVars
  <2>2. ~HasUnfinished => ~HasUnfinished'
    BY <2>1 DEF HasUnfinished
  <2>. QED
    BY <2>1, <2>2, <1>2 DEF Interrupts
<1>12. CASE FinishShutdown
  <2>1. ui.op = "shutdown" /\ ui' = [ui EXCEPT !.pc = "closed"] /\ UNCHANGED interrupt
    BY <1>12 DEF FinishShutdown, UiGoto, flagVars
  <2>. QED
    BY <1>0, <1>1, <2>1 DEF Interrupts
<1>. QED
  BY <1>3, <1>4, <1>5, <1>6, <1>7, <1>8, <1>9, <1>10, <1>11, <1>12 DEF Calls, InCall

LEMMA InterruptsNext ==
    ASSUME TypeOK, Stages, Claims, Interrupts, [Next]_vars PROVE Interrupts'
<1>1. CASE Calls \/ InCall
  BY <1>1, InterruptsCaller
<1>2. CASE Closed \/ UNCHANGED vars
  <2>1. UNCHANGED <<interrupt, ui, items, job>>
    BY <1>2 DEF Closed, vars
  <2>. QED
    BY <2>1, SameNarrows, InterruptsKept
<1>3. CASE Manager
  BY <1>3, InterruptsManager
<1>4. ASSUME NEW t \in Workers \union {Lead}, Requester(t) PROVE Interrupts'
  <2>1. t \in Threads /\ OthersStay(t) /\ Narrows(items, items')
    BY <1>4, RequesterWorks, WorkNarrows, SameNarrows DEF Works, Rests, Threads
  <2>2. UNCHANGED <<interrupt, ui>>
    BY <1>4, RequesterEffect DEF flagVars
  <2>. QED
    BY <1>4, <2>1, <2>2, RequesterAnswers, InterruptsKept DEF OthersStay
<1>5. ASSUME NEW w \in Workers, WorkerTake(w) PROVE Interrupts'
  <2>1. PICK r \in JobType : r.pc \in {"none", "claim"} /\ job' = [job EXCEPT ![w] = r]
    BY <1>5, WorkerTakeEffect
  <2>2. w \in Threads /\ UNCHANGED <<items, interrupt, ui>>
    BY <1>5 DEF WorkerTake, queueVars, flagVars, Threads
  <2>3. OthersStay(w) /\ job'[w].ret = "none"
    <3>1. OthersStay(w)
      BY <2>1, <2>2, JobStays
    <3>2. job \in [Threads -> JobType]
      BY DEF TypeOK
    <3>. QED
      BY <1>5, <2>2, <3>1, <3>2 DEF WorkerTake, At, ClaimAt
  <2>. QED
    BY <2>2, <2>3, SameNarrows, InterruptsKept DEF OthersStay, Answers
<1>6. CASE Cheats
  <2>1. /\ CheatThread \in Threads /\ OthersStay(CheatThread) /\ Narrows(items, items')
    BY <1>6, CheatsWork, WorkNarrows, SameNarrows DEF Works, Rests, Threads
  <2>2. UNCHANGED <<interrupt, ui>>
    BY <1>6, CheatsEffect DEF flagVars
  <2>. QED
    BY <1>6, <2>1, <2>2, CheatsAnswer, InterruptsKept DEF OthersStay
<1>. QED
  BY <1>1, <1>2, <1>3, <1>4, <1>5, <1>6 DEF Next

LEMMA InterruptsInit == Init => Interrupts
  BY DEF Init, Interrupts, At

-----------------------------------------------------------------------------
(* Nothing is stuck: a working status has a thread behind it.              *)

LEMMA UnfinishedIs == \A item \in Item : Unfinished(item) <=> item.status \in Active \union {"idle"}
  BY DEF Item, Statuses, Unfinished, Active, Terminal

LEMMA NoneActive ==
    ASSUME NEW s \in Seq(Item), NEW t, NEW i \in DOMAIN s,
           \/ \E lost : t = LoadedItems(s, lost)
           \/ \E status \in {"idle", "skipped"} : t = SetUnfinished(s, status)
    PROVE  /\ DOMAIN t = DOMAIN s
           /\ t[i].status \notin Active
<1>1. s[i] \in Item
  BY ElementOfSeq, LenProperties
<1>2. ~Unfinished(s[i]) => s[i].status \notin Active
  BY DEF Unfinished, Active, Terminal
<1>3. "idle" \notin Active /\ "skipped" \notin Active /\ "error" \notin Active
  BY DEF Active
<1>4. ASSUME NEW lost, t = LoadedItems(s, lost)
      PROVE  DOMAIN t = DOMAIN s /\ t[i].status \notin Active
  <2>. DEFINE status == IF s[i].type = "cheat" /\ i \in lost THEN "error" ELSE "idle"
  <2>1. /\ DOMAIN t = DOMAIN s
        /\ t[i] = IF Unfinished(s[i]) THEN [s[i] EXCEPT !.status = status] ELSE s[i]
    BY <1>4 DEF LoadedItems
  <2>2. status \notin Active
    BY <1>3
  <2>. HIDE DEF status
  <2>. QED
    BY <1>1, <1>2, <2>1, <2>2 DEF Item
<1>5. ASSUME NEW status \in {"idle", "skipped"}, t = SetUnfinished(s, status)
      PROVE  DOMAIN t = DOMAIN s /\ t[i].status \notin Active
  <2>1. /\ DOMAIN t = DOMAIN s
        /\ t[i] = IF Unfinished(s[i]) THEN [s[i] EXCEPT !.status = status] ELSE s[i]
    BY <1>5 DEF SetUnfinished
  <2>. QED
    BY <1>1, <1>2, <1>3, <2>1 DEF Item
<1>. QED
  BY <1>4, <1>5

LEMMA ThreadsUnstuck ==
    ASSUME TypeOK, NothingStuck, NEW t \in Threads, Moves(t), UNCHANGED <<interrupt, ui>>
    PROVE  NothingStuck'
<1>. SUFFICES ASSUME NEW i \in DOMAIN items', items'[i].status \in Active,
                     ~interrupt, ui.pc # "finish"
              PROVE  \E u \in Threads : Working(u)' /\ job'[u].idx = i
  BY DEF NothingStuck
<1>1. \A u \in Threads : u # t /\ Working(u) => Working(u)' /\ job'[u].idx = job[u].idx
  BY DEF Moves, OthersStay, Working
<1>2. ASSUME i \in DOMAIN items, items[i].status \in Active, ~(Working(t) /\ job[t].idx = i)
      PROVE  \E u \in Threads : Working(u)' /\ job'[u].idx = i
  BY <1>1, <1>2 DEF NothingStuck
<1>3. ASSUME NEW j, Takes(t, j) PROVE \E u \in Threads : Working(u)' /\ job'[u].idx = i
  <2>1. i = j \/ (i \in DOMAIN items /\ items'[i] = items[i])
    BY <1>3 DEF Takes, OnlyStatus
  <2>. QED
    BY <1>2, <1>3, <2>1 DEF Takes
<1>4. CASE Continues(t) \/ Settles(t)
  <2>1. i = job[t].idx \/ (i \in DOMAIN items /\ items'[i] = items[i])
    BY <1>4 DEF Continues, Settles, OnlyStatus
  <2>2. i = job[t].idx => Working(t)' /\ job'[t].idx = i
    BY <1>4 DEF Continues, Settles, Active, Terminal
  <2>. QED
    BY <1>2, <2>1, <2>2
<1>5. CASE Abandons(t) \/ Pauses(t)
  BY <1>2, <1>5 DEF Abandons, Pauses
<1>. QED
  BY <1>3, <1>4, <1>5 DEF Moves

\* The manager starts threads, but leaves those that work alone.
LEMMA ManagerKeepsWork ==
    ASSUME TypeOK, Stages, Manager, NEW t \in Threads
    PROVE  job'[t] = job[t] \/ (~Working(t) /\ ~Working(t)')
<1>0. /\ job \in [Threads -> JobType] /\ Lead \in Threads /\ CheatThread \in Threads
      /\ \A w \in Workers : w # Lead /\ w # CheatThread
  BY ThreadsAssumption DEF TypeOK, Threads
<1>1. "none" \notin WorkingPcs /\ "find" \notin WorkingPcs /\ "top" \notin WorkingPcs
      /\ "claim" \notin WorkingPcs
  BY DEF WorkingPcs
<1>2. CASE ManagerSpawnCheat
  <2>1. job[CheatThread].pc = "none"
    BY <1>2 DEF ManagerSpawnCheat, Stages, CheatStage
  <2>2. job' = [job EXCEPT ![CheatThread] = At("find")]
    BY <1>2 DEF ManagerSpawnCheat
  <2>. QED
    BY <1>0, <1>1, <2>1, <2>2 DEF At, Working
<1>3. ASSUME NEW kind \in {"artwork", "manual"}, ManagerCollect(kind)
      PROVE  job'[t] = job[t] \/ (~Working(t) /\ ~Working(t)')
  <2>1. job[Lead].pc = "none"
    BY <1>3 DEF ManagerCollect, Stages
  <2>2. UNCHANGED job \/ \E i : job' = [job EXCEPT ![Lead] = ClaimAt(i)]
    BY <1>3 DEF ManagerCollect
  <2>. QED
    BY <1>0, <1>1, <2>1, <2>2 DEF ClaimAt, Working
<1>4. CASE ManagerFanOut
  <2>1. \A w \in Workers : job[w].pc = "none"
    BY <1>4 DEF ManagerFanOut, Stages
  <2>2. \/ UNCHANGED job
        \/ \E W \in SUBSET Workers :
              job' = [u \in Threads |-> IF u \in W THEN At("top") ELSE job[u]]
    BY <1>4 DEF ManagerFanOut
  <2>. QED
    BY <1>0, <1>1, <2>1, <2>2 DEF At, Working
<1>. QED
  BY <1>2, <1>3, <1>4
  DEF Manager, ManagerLoop, ManagerScan, ManagerNoCheat, ManagerReject,
      ManagerJoinWorkers, ManagerJoinCheat, ManagerExit

\* What a batch that cannot run rejects was idle.
LEMMA ManagerItems ==
    ASSUME TypeOK, Claims, Manager
    PROVE  \/ UNCHANGED items
           \/ \E i \in DOMAIN items :
                 items[i].status = "idle" /\ OnlyStatus(i) /\ items'[i].status = "error"
<1>1. CASE ManagerReject /\ ~UNCHANGED items
  <2>1. mgr.pc = "reject" /\ \E i \in batch.left : SetStatus(i, "error")
    BY <1>1 DEF ManagerReject
  <2>2. PICK i \in batch.left : SetStatus(i, "error")
    BY <2>1
  <2>3. i \in DOMAIN items /\ items[i].status = "idle"
    BY <2>1, <2>2 DEF Claims, RejectsAreIdle
  <2>4. OnlyStatus(i) /\ items'[i].status = "error"
    BY <2>2, <2>3, StatusOnly, Names
  <2>. QED
    BY <2>3, <2>4
<1>2. CASE ~ManagerReject
  BY <1>2 DEF Manager, ManagerLoop, ManagerScan, ManagerSpawnCheat, ManagerNoCheat,
              ManagerCollect, ManagerFanOut, ManagerJoinWorkers, ManagerJoinCheat,
              ManagerExit, queueVars
<1>. QED
  BY <1>1, <1>2

LEMMA ManagerUnstuck == ASSUME TypeOK, Stages, Claims, NothingStuck, Manager PROVE NothingStuck'
<1>1. UNCHANGED <<interrupt, ui>>
  BY ManagerFlags
<1>2. \A t \in Threads : Working(t) => Working(t)' /\ job'[t].idx = job[t].idx
  BY ManagerKeepsWork DEF Working
<1>3. \A i \in DOMAIN items' : items'[i].status \in Active =>
          i \in DOMAIN items /\ items[i].status \in Active
  BY ManagerItems DEF OnlyStatus, Active
<1>. QED
  BY <1>1, <1>2, <1>3 DEF NothingStuck

LEMMA CallerUnstuck ==
    ASSUME TypeOK, Stages, Claims, Interrupts, NothingStuck, Calls \/ InCall
    PROVE  NothingStuck'
<1>1. CASE CallerLeavesItems
  <2>1. UNCHANGED <<items, job>>
    BY <1>1, LeavesItems
  <2>2. CASE ui'.pc = "finish"
    BY <2>2 DEF NothingStuck
  <2>3. CASE FinishMapping
    <3>1. ~HasUnfinished
      BY <2>3 DEF FinishMapping, Interrupts
    <3>2. \A i \in DOMAIN items : items[i].status \notin Active
      BY <3>1 DEF HasUnfinished, Unfinished, Active, Terminal
    <3>. QED
      BY <2>1, <3>2 DEF NothingStuck
  <2>4. CASE ui'.pc # "finish" /\ ~FinishMapping
    <3>1. ui.pc \notin {"stopping", "finish", "closed"}
      BY <1>1, <2>4 DEF CallerLeavesItems, StartEmpty, QueueCheckDirty, BeginShutdown,
                        EndMappingEdit, BeginStop, EnsureManagerStarted, SpawnManager,
                        SpawnManagerFails, ShutdownInterrupts, StopManagerForTransition,
                        UiReady, UiGoto, TypeOK
    <3>2. ~interrupt /\ ui.pc # "finish"
      BY <3>1 DEF Interrupts
    <3>. QED
      BY <2>1, <3>2 DEF NothingStuck, Working
  <2>. QED
    BY <2>2, <2>3, <2>4
<1>2. ASSUME NEW type \in Kinds, NEW rom \in Roms, NEW force \in Forces,
             QueueAdd(type, rom, force)
      PROVE  NothingStuck'
  <2>. DEFINE n == Len(items) + 1
  <2>1. /\ DOMAIN items' = 1 .. n /\ DOMAIN items = 1 .. Len(items) /\ Len(items) \in Nat
        /\ \A i \in 1 .. Len(items) : items'[i] = items[i]
        /\ items'[n] = [id |-> nextId, type |-> type, rom |-> rom,
                        force |-> force, status |-> "idle"]
    BY <1>2, AddEffect
  <2>2. \A i \in DOMAIN items' : items'[i].status \in Active =>
            i \in DOMAIN items /\ items[i].status \in Active
    <3>1. items'[n].status \notin Active
      BY <2>1 DEF Active
    <3>. QED
      BY <2>1, <3>1
  <2>3. ~interrupt /\ ui.pc # "finish" /\ UNCHANGED job
    BY <1>2 DEF QueueAdd, UiReady, Interrupts, threadVars
  <2>. QED
    BY <2>2, <2>3 DEF NothingStuck, Working
<1>3. CASE QueueClearDone \/ FinishShutdown
  BY <1>3 DEF QueueClearDone, FinishShutdown, NothingStuck
<1>4. CASE StartFromFile \/ LaunchFailed \/ FinishCancel \/ FinishHandoff
  <2>1. \E s \in Seq(Item) :
           \/ \E lost : items' = LoadedItems(s, lost)
           \/ \E status \in {"idle", "skipped"} : items' = SetUnfinished(s, status)
    <3>1. items \in Seq(Item) /\ SavedQueues \subseteq Seq(Item)
      BY SavedAssumption DEF TypeOK
    <3>. QED
      BY <1>4, <3>1 DEF StartFromFile, LaunchFailed, QueueLoadItems, FinishCancel,
                        FinishHandoff, HandoffItems
  <2>2. PICK s \in Seq(Item) :
           \/ \E lost : items' = LoadedItems(s, lost)
           \/ \E status \in {"idle", "skipped"} : items' = SetUnfinished(s, status)
    BY <2>1
  <2>3. DOMAIN items' = DOMAIN s
    BY <2>2 DEF LoadedItems, SetUnfinished
  <2>4. \A i \in DOMAIN items' : items'[i].status \notin Active
    BY <2>2, <2>3, NoneActive
  <2>. QED
    BY <2>4 DEF NothingStuck
<1>. QED
  BY <1>1, <1>2, <1>3, <1>4 DEF Calls, InCall, CallerLeavesItems

LEMMA NothingStuckNext ==
    ASSUME TypeOK, Stages, Claims, Interrupts, NothingStuck, [Next]_vars PROVE NothingStuck'
<1>1. CASE Calls \/ InCall
  BY <1>1, CallerUnstuck
<1>2. CASE Closed \/ UNCHANGED vars
  BY <1>2 DEF Closed, vars, NothingStuck, Working
<1>3. CASE Manager
  BY <1>3, ManagerUnstuck
<1>4. ASSUME NEW t \in Workers \union {Lead}, Requester(t) PROVE NothingStuck'
  <2>1. t \in Threads
    BY DEF Threads
  <2>2. UNCHANGED <<interrupt, ui>>
    BY <1>4, RequesterEffect DEF flagVars
  <2>. QED
    BY <1>4, <2>1, <2>2, RequesterMoves, ThreadsUnstuck
<1>5. ASSUME NEW w \in Workers, WorkerTake(w) PROVE NothingStuck'
  <2>1. w \in Threads /\ UNCHANGED <<interrupt, ui>>
    BY <1>5 DEF WorkerTake, flagVars, Threads
  <2>. QED
    BY <1>5, <2>1, WorkerPauses, ThreadsUnstuck
<1>6. CASE Cheats
  <2>1. CheatThread \in Threads
    BY DEF Threads
  <2>2. UNCHANGED <<interrupt, ui>>
    BY <1>6, CheatsEffect DEF flagVars
  <2>. QED
    BY <1>6, <2>1, <2>2, CheatsMove, ThreadsUnstuck
<1>. QED
  BY <1>1, <1>2, <1>3, <1>4, <1>5, <1>6 DEF Next

LEMMA InterruptsAlways == Spec => [](TypeOK /\ Stages /\ Claims /\ Interrupts)
  BY TypeInit, TypeNext, StagesInit, StagesNext, ClaimsInit, ClaimsNext, InterruptsInit,
     InterruptsNext, PTL DEF Spec

(* No return path of a worker, of the manager's own request or of the      *)
(* cheat thread forgets its item in a working state, for any number of     *)
(* threads: only an interrupt does, and the stop that set it cleans up.    *)
THEOREM NothingStaysBehind == Spec => []NothingStuck
<1>1. Init => NothingStuck
  BY DEF Init, NothingStuck
<1>. QED
  BY <1>1, InterruptsAlways, NothingStuckNext, PTL DEF Spec

-----------------------------------------------------------------------------
(* Action properties: saving, and what an interrupted worker leaves.       *)

LEMMA StatusIsDirty == ASSUME NEW i, NEW status, SetStatus(i, status) PROVE items' = items \/ dirty'
  BY DEF SetStatus

LEMMA ThreadIsDirty ==
    ASSUME NEW t, \/ Requester(t)
                  \/ t \in Workers /\ WorkerTake(t)
                  \/ t = CheatThread /\ Cheats
    PROVE  items' = items \/ dirty'
<1>1. CASE UNCHANGED items \/ \E i, status : SetStatus(i, status)
  BY <1>1, StatusIsDirty
<1>2. UNCHANGED items \/ \E i, status : SetStatus(i, status)
  BY DEF Requester, ClaimItem, SearchReturns, RecordSearch, DownloadReturns, RecordDownload,
         WorkerTake, Cheats, CheatFind, CheatListReturns, RecordCheatList,
         CheatMatchReturns, queueVars
<1>. QED
  BY <1>1, <1>2

LEMMA DirtyStep ==
    ASSUME TypeOK, [Next]_vars, items' # items
    PROVE  dirty' \/ ui'.pc = "closed"
<1>1. CASE Manager
  <2>1. UNCHANGED items \/ \E i : SetStatus(i, "error")
    BY <1>1 DEF Manager, ManagerLoop, ManagerScan, ManagerSpawnCheat, ManagerNoCheat,
                ManagerCollect, ManagerReject, ManagerFanOut, ManagerJoinWorkers,
                ManagerJoinCheat, ManagerExit, queueVars
  <2>. QED
    BY <2>1, StatusIsDirty
<1>2. CASE FinishHandoff
  <2>1. CASE HasUnfinished
    BY <1>2, <2>1 DEF FinishHandoff
  <2>2. CASE ~HasUnfinished
    <3>1. items' = [i \in DOMAIN items |-> items[i]]
      BY <1>2, <2>2 DEF FinishHandoff, HandoffItems, SetUnfinished, HasUnfinished
    <3>2. items = [i \in DOMAIN items |-> items[i]]
      BY DEF TypeOK
    <3>. QED
      BY <3>1, <3>2
  <2>. QED
    BY <2>1, <2>2
<1>3. CASE (Calls \/ InCall) /\ ~FinishHandoff
  <2>1. CASE FinishShutdown
    BY <2>1 DEF FinishShutdown, UiGoto, TypeOK
  <2>2. CASE ~FinishShutdown
    BY <1>3, <2>2
    DEF Calls, InCall, StartEmpty, StartFromFile, QueueLoadItems, QueueAdd, QueueClearDone,
        QueueCheckDirty, BeginStop, BeginShutdown, EndMappingEdit, LaunchFailed,
        EnsureManagerStarted, SpawnManager, SpawnManagerFails, ShutdownInterrupts,
        StopManagerForTransition, FinishCancel, FinishMapping, queueVars
  <2>. QED
    BY <2>1, <2>2
<1>4. CASE Closed \/ UNCHANGED vars
  BY <1>4 DEF Closed, vars
<1>. QED
  BY <1>1, <1>2, <1>3, <1>4, ThreadIsDirty DEF Next

(* The daemon never sleeps on a change: whatever any thread or call does   *)
(* to the items, queue_check_dirty will report it, until they are freed.   *)
THEOREM ChangesAreSeen == Spec => ChangesAreDirty
<1>1. TypeOK /\ [Next]_vars => [items' # items => dirty' \/ ui'.pc = "closed"]_vars
  BY DirtyStep
<1>. QED
  BY <1>1, TypeCorrect, PTL DEF Spec, ChangesAreDirty

LEMMA InterruptedStep ==
    ASSUME TypeOK, Stages, Claims, Interrupts, [Next]_vars,
           NEW t \in Workers, job[t].ret = "cancelled", job'[t] # job[t]
    PROVE  UNCHANGED items
<1>1. t \in Threads /\ t # Lead /\ t # CheatThread
  BY ThreadsAssumption DEF Threads
<1>2. job[t].pc \in {"searched", "downloaded"}
  BY <1>1 DEF Interrupts
<1>3. CASE Manager
  <2>1. Working(t)
    BY <1>2 DEF Working, WorkingPcs
  <2>. QED
    BY <1>1, <1>3, <2>1, ManagerKeepsWork
<1>4. CASE Calls \/ InCall \/ Closed \/ UNCHANGED vars
  BY <1>4, CallerKeepsJobs DEF Closed, vars
<1>5. ASSUME NEW u \in Workers \union {Lead}, Requester(u) PROVE UNCHANGED items
  <2>1. u \in Threads
    BY DEF Threads
  <2>2. u = t
    BY <1>1, <1>5, <2>1, RequesterWorks DEF Works, Rests, OthersStay
  <2>3. RecordSearch(t) \/ RecordDownload(t)
    BY <1>2, <1>5, <2>2 DEF Requester, ClaimItem, SearchReturns, DownloadReturns
  <2>. QED
    BY <1>1, <2>3 DEF RecordSearch, RecordDownload
<1>6. ASSUME NEW w \in Workers, WorkerTake(w) PROVE UNCHANGED items
  BY <1>6 DEF WorkerTake, queueVars
<1>7. CASE Cheats
  BY <1>1, <1>7, CheatsWork DEF Works, Rests, OthersStay
<1>. QED
  BY <1>3, <1>4, <1>5, <1>6, <1>7 DEF Next

(* A pool thread whose request an interrupt cut off never settles or       *)
(* rewrites the item it held, in any stop and for any number of threads.   *)
THEOREM WorkersKeepItems == Spec => WorkersKeepInterruptedItems
<1>. DEFINE Kept == \A t \in Workers :
                       job[t].ret = "cancelled" /\ job'[t] # job[t] => UNCHANGED items
<1>1. (TypeOK /\ Stages /\ Claims /\ Interrupts) /\ [Next]_vars => [Kept]_vars
  BY InterruptedStep
<1>2. WorkersKeepInterruptedItems <=> [][Kept]_vars
  BY DEF WorkersKeepInterruptedItems
<1>. HIDE DEF Kept
<1>. QED
  BY <1>1, <1>2, InterruptsAlways, PTL DEF Spec

-----------------------------------------------------------------------------
(* The job board.  BoardOf(s) is what a queue s shows there.               *)

Ids(s) == {s[i].id : i \in DOMAIN s}
Job(item) == [key |-> <<item.type, item.rom>>, state |-> JobState(item.status)]
BoardOf(s) == [n \in Ids(s) |-> Job(s[CHOOSE i \in DOMAIN s : s[i].id = n])]

LEMMA BoardIs ==
    /\ jobBoard = BoardOf(items) /\ jobBoard' = BoardOf(items')
    /\ DOMAIN jobBoard = Ids(items) /\ DOMAIN jobBoard' = Ids(items')
  BY DEF jobBoard, BoardOf, Ids, Job

LEMMA BoardAt ==
    ASSUME NEW s, IdsDistinct(s), NEW i \in DOMAIN s
    PROVE  s[i].id \in Ids(s) /\ BoardOf(s)[s[i].id] = Job(s[i])
<1>1. s[i].id \in Ids(s)
  BY DEF Ids
<1>2. (CHOOSE j \in DOMAIN s : s[j].id = s[i].id) = i
  BY DEF IdsDistinct
<1>. QED
  BY <1>1, <1>2 DEF BoardOf

LEMMA JobStates ==
    /\ JobState("idle") = "queued"
    /\ \A status \in Active : JobState(status) = "running"
    /\ \A status \in Terminal : JobState(status) = status
    /\ \A item \in Item : JobState(item.status) \in Terminal <=> ~Unfinished(item)
    /\ \A item \in Item : JobState(item.status) = "queued" => item.status = "idle"
    /\ "running" \notin Terminal /\ "queued" \notin Terminal
  BY DEF JobState, Item, Unfinished, Statuses, Active, Terminal

\* A queue with the same ids and other jobs.
LEMMA BoardMap ==
    ASSUME NEW s, NEW t, IdsDistinct(s), DOMAIN t = DOMAIN s,
           \A i \in DOMAIN s : t[i].id = s[i].id,
           NEW f, DOMAIN f = Ids(s), f = [n \in DOMAIN f |-> f[n]],
           \A i \in DOMAIN s : f[s[i].id] = Job(t[i])
    PROVE  BoardOf(t) = f
<1>1. IdsDistinct(t) /\ Ids(t) = Ids(s)
  BY DEF IdsDistinct, Ids
<1>2. \A n \in Ids(s) : BoardOf(t)[n] = f[n]
  <2>. SUFFICES ASSUME NEW n \in Ids(s) PROVE BoardOf(t)[n] = f[n]
    OBVIOUS
  <2>1. PICK i \in DOMAIN s : n = s[i].id
    BY DEF Ids
  <2>2. BoardOf(t)[t[i].id] = Job(t[i])
    BY <1>1, BoardAt
  <2>. QED
    BY <2>1, <2>2
<1>3. BoardOf(t) = [n \in Ids(s) |-> BoardOf(t)[n]]
  BY <1>1 DEF BoardOf
<1>. HIDE DEF BoardOf
<1>. QED
  BY <1>2, <1>3

LEMMA BoardSame ==
    ASSUME NEW s, NEW t, IdsDistinct(s), DOMAIN t = DOMAIN s,
           \A i \in DOMAIN s : t[i].id = s[i].id /\ Job(t[i]) = Job(s[i])
    PROVE  BoardOf(t) = BoardOf(s)
<1>1. DOMAIN BoardOf(s) = Ids(s) /\ BoardOf(s) = [n \in Ids(s) |-> BoardOf(s)[n]]
  BY DEF BoardOf
<1>2. \A i \in DOMAIN s : BoardOf(s)[s[i].id] = Job(t[i])
  BY BoardAt
<1>. QED
  BY <1>1, <1>2, BoardMap

\* One item's status changes.
LEMMA BoardUpdate ==
    ASSUME TypeOK, Identity, NEW i \in DOMAIN items, OnlyStatus(i)
    PROVE  /\ jobBoard[items[i].id] = Job(items[i])
           /\ items[i].id \in DOMAIN jobBoard
           /\ jobBoard' = [jobBoard EXCEPT ![items[i].id].state = JobState(items'[i].status)]
<1>. DEFINE n == items[i].id
            status == JobState(items'[i].status)
            f == [jobBoard EXCEPT ![n].state = status]
<1>1. jobBoard[n] = Job(items[i]) /\ n \in DOMAIN jobBoard
  BY BoardIs, BoardAt DEF Identity
<1>2. DOMAIN f = Ids(items) /\ f = [m \in DOMAIN f |-> f[m]]
  BY BoardIs
<1>3. \A j \in DOMAIN items : f[items[j].id] = Job(items'[j])
  <2>. SUFFICES ASSUME NEW j \in DOMAIN items PROVE f[items[j].id] = Job(items'[j])
    OBVIOUS
  <2>1. jobBoard[items[j].id] = Job(items[j]) /\ items[j].id \in DOMAIN jobBoard
    BY BoardIs, BoardAt DEF Identity
  <2>2. CASE j = i
    <3>1. f[n] = [jobBoard[n] EXCEPT !.state = status]
      BY <1>1
    <3>2. items'[i].type = items[i].type /\ items'[i].rom = items[i].rom
      BY DEF OnlyStatus
    <3>. HIDE DEF f
    <3>. QED
      BY <1>1, <2>2, <3>1, <3>2 DEF Job
  <2>3. CASE j # i
    <3>1. items[j].id # n /\ items'[j] = items[j]
      BY <2>3 DEF Identity, IdsDistinct, OnlyStatus
    <3>2. f[items[j].id] = jobBoard[items[j].id]
      BY <2>1, <3>1
    <3>. QED
      BY <2>1, <3>1, <3>2
  <2>. QED
    BY <2>2, <2>3
<1>. HIDE DEF f
<1>4. BoardOf(items') = f
  BY <1>2, <1>3, BoardMap DEF Identity, OnlyStatus
<1>. QED
  BY <1>1, <1>4, BoardIs DEF f

LEMMA HeldIs ==
    /\ \A n : n \in heldJobs <=> \E t \in Threads : Working(t) /\ job[t].id = n
    /\ \A n : n \in heldJobs' <=> \E t \in Threads : Working(t)' /\ job'[t].id = n
  BY DEF heldJobs, Working

LEMMA HeldSame ==
    ASSUME \A t \in Threads : /\ Working(t)' <=> Working(t)
                              /\ Working(t) => job'[t].id = job[t].id
    PROVE  heldJobs' = heldJobs
  BY HeldIs

LEMMA HeldByOne ==
    ASSUME Claims, Identity, NEW t \in Threads, NEW u \in Threads,
           Working(t), Working(u), job[t].id = job[u].id
    PROVE  t = u
  BY DEF Claims, ClaimsStayValid, ExclusiveClaims, Identity, IdsDistinct

-----------------------------------------------------------------------------
(* The steps of the queue on the board.                                    *)

\* What a thread does with the item it holds, or takes.
LEMMA ThreadOnBoard ==
    ASSUME TypeOK, Claims, Identity, NEW t \in Threads, Moves(t)
    PROVE  [Jobs!Next]_<<jobBoard, heldJobs>>
<1>. DEFINE i == job[t].idx
            n == job[t].id
<1>1. \A u \in Threads : u # t => job'[u] = job[u] /\ (Working(u)' <=> Working(u))
  BY DEF Moves, OthersStay, Working
<1>2. Working(t) =>
        /\ i \in DOMAIN items /\ items[i].id = n /\ items[i].status \in Active
        /\ n \in heldJobs
  BY HeldIs DEF Claims, ClaimsStayValid
<1>3. \A m : Working(t) /\ ~Working(t)' => (m \in heldJobs' <=> m \in heldJobs /\ m # n)
  BY <1>1, HeldIs, HeldByOne
<1>4. Working(t) /\ ~Working(t)' => heldJobs' = heldJobs \ {n}
  BY <1>3
<1>5. ASSUME NEW j, Takes(t, j) PROVE Jobs!Next
  <2>. DEFINE m == items[j].id
  <2>1. j \in DOMAIN items /\ items[j].status = "idle" /\ OnlyStatus(j)
    BY <1>5 DEF Takes, Claimable
  <2>2. /\ jobBoard[m] = Job(items[j]) /\ m \in DOMAIN jobBoard
        /\ jobBoard' = [jobBoard EXCEPT ![m].state = JobState(items'[j].status)]
    BY <2>1, BoardUpdate
  <2>3. JobState(items'[j].status) = "running" /\ jobBoard[m].state = "queued"
    BY <1>5, <2>1, <2>2, JobStates DEF Takes, Job
  <2>4. m \notin heldJobs
    <3>1. ASSUME NEW u \in Threads, Working(u), job[u].id = m PROVE FALSE
      <4>1. /\ job[u].idx \in DOMAIN items /\ items[job[u].idx].id = m
            /\ items[job[u].idx].status \in Active
        BY <3>1 DEF Claims, ClaimsStayValid
      <4>2. job[u].idx = j
        BY <2>1, <4>1 DEF Identity, IdsDistinct
      <4>. QED
        BY <2>1, <4>1, <4>2 DEF Active
    <3>. QED
      BY <3>1, HeldIs
  <2>5. heldJobs' = heldJobs \union {m}
    <3>1. Working(t)' /\ job'[t].id = m /\ ~Working(t)
      BY <1>5 DEF Takes
    <3>2. \A k : k \in heldJobs' <=> k \in heldJobs \/ k = m
      BY <1>1, <3>1, HeldIs
    <3>. QED
      BY <3>2
  <2>6. Jobs!Take(m)
    BY <2>2, <2>3, <2>4, <2>5 DEF Jobs!Take
  <2>. QED
    BY <2>2, <2>6 DEF Jobs!Next
<1>6. CASE Continues(t)
  <2>1. OnlyStatus(i) /\ items'[i].status \in Active
    BY <1>6 DEF Continues
  <2>2. \A j \in DOMAIN items : items'[j].id = items[j].id /\ Job(items'[j]) = Job(items[j])
    <3>. SUFFICES ASSUME NEW j \in DOMAIN items
                  PROVE  items'[j].id = items[j].id /\ Job(items'[j]) = Job(items[j])
      OBVIOUS
    <3>1. CASE j = i
      BY <1>2, <1>6, <2>1, <3>1, JobStates DEF OnlyStatus, Job, Continues
    <3>2. CASE j # i
      BY <2>1, <3>2 DEF OnlyStatus
    <3>. QED
      BY <3>1, <3>2
  <2>3. jobBoard' = jobBoard
    BY <2>1, <2>2, BoardSame, BoardIs DEF Identity, OnlyStatus
  <2>4. heldJobs' = heldJobs
    BY <1>1, <1>6, HeldSame DEF Continues
  <2>. QED
    BY <2>3, <2>4
<1>7. CASE Settles(t)
  <2>1. /\ jobBoard' = [jobBoard EXCEPT ![n].state = JobState(items'[i].status)]
        /\ n \in DOMAIN jobBoard
    BY <1>2, <1>7, BoardUpdate DEF Settles
  <2>2. items'[i].status \in Terminal /\ JobState(items'[i].status) = items'[i].status
    BY <1>7, JobStates DEF Settles
  <2>3. Jobs!Settle(n, items'[i].status)
    BY <1>2, <1>4, <1>7, <2>1, <2>2 DEF Jobs!Settle, Settles
  <2>. QED
    BY <2>1, <2>2, <2>3 DEF Jobs!Next
<1>8. CASE Abandons(t)
  <2>1. jobBoard' = jobBoard
    BY <1>8, BoardIs DEF Abandons
  <2>2. n \in DOMAIN jobBoard
    BY <1>2, <1>8, BoardIs DEF Abandons, Ids
  <2>3. Jobs!Abandon(n)
    BY <1>2, <1>4, <1>8, <2>1 DEF Jobs!Abandon, Abandons
  <2>. QED
    BY <2>2, <2>3 DEF Jobs!Next
<1>9. CASE Pauses(t)
  <2>1. jobBoard' = jobBoard
    BY <1>9, BoardIs DEF Pauses
  <2>2. heldJobs' = heldJobs
    BY <1>1, <1>9, HeldSame DEF Pauses
  <2>. QED
    BY <2>1, <2>2
<1>. QED
  BY <1>5, <1>6, <1>7, <1>8, <1>9 DEF Moves

LEMMA ManagerOnBoard ==
    ASSUME TypeOK, Stages, Claims, Identity, Manager
    PROVE  [Jobs!Next]_<<jobBoard, heldJobs>>
<1>1. heldJobs' = heldJobs
  BY ManagerKeepsWork, HeldSame DEF Working
<1>2. CASE UNCHANGED items
  BY <1>1, <1>2, BoardIs
<1>3. ASSUME NEW i \in DOMAIN items, items[i].status = "idle", OnlyStatus(i),
             items'[i].status = "error"
      PROVE  Jobs!Next
  <2>. DEFINE n == items[i].id
  <2>1. /\ jobBoard[n] = Job(items[i]) /\ n \in DOMAIN jobBoard
        /\ jobBoard' = [jobBoard EXCEPT ![n].state = JobState(items'[i].status)]
    BY <1>3, BoardUpdate
  <2>2. JobState(items'[i].status) = "error" /\ jobBoard[n].state = "queued"
    BY <1>3, <2>1, JobStates DEF Job, Terminal
  <2>3. n \notin heldJobs
    <3>1. ASSUME NEW u \in Threads, Working(u), job[u].id = n PROVE FALSE
      <4>1. /\ job[u].idx \in DOMAIN items /\ items[job[u].idx].id = n
            /\ items[job[u].idx].status \in Active
        BY <3>1 DEF Claims, ClaimsStayValid
      <4>2. job[u].idx = i
        BY <4>1 DEF Identity, IdsDistinct
      <4>. QED
        BY <1>3, <4>1, <4>2 DEF Active
    <3>. QED
      BY <3>1, HeldIs
  <2>4. Jobs!Refuse(n)
    BY <1>1, <2>1, <2>2, <2>3 DEF Jobs!Refuse
  <2>. QED
    BY <2>1, <2>4 DEF Jobs!Next
<1>. QED
  BY <1>2, <1>3, ManagerItems

\* The resets of a cancel, of a handoff and of a launch that failed.
LEMMA ResetOnBoard ==
    ASSUME TypeOK, Identity, heldJobs = {}, heldJobs' = {},
           NEW status \in {"idle", "skipped"}, items' = SetUnfinished(items, status)
    PROVE  Jobs!Next
<1>. DEFINE state == JobState(status)
            f == [n \in DOMAIN jobBoard |->
                    IF Jobs!Settled(n) THEN jobBoard[n]
                                       ELSE [jobBoard[n] EXCEPT !.state = state]]
<1>1. DOMAIN f = Ids(items) /\ f = [n \in DOMAIN f |-> f[n]]
  BY BoardIs
<1>2. /\ DOMAIN items' = DOMAIN items
      /\ \A i \in DOMAIN items :
            items'[i] = IF Unfinished(items[i]) THEN [items[i] EXCEPT !.status = status]
                                                ELSE items[i]
  BY DEF SetUnfinished
<1>3. \A i \in DOMAIN items : items'[i].id = items[i].id /\ f[items[i].id] = Job(items'[i])
  <2>. SUFFICES ASSUME NEW i \in DOMAIN items
                PROVE  items'[i].id = items[i].id /\ f[items[i].id] = Job(items'[i])
    OBVIOUS
  <2>. DEFINE n == items[i].id
  <2>1. jobBoard[n] = Job(items[i]) /\ n \in DOMAIN jobBoard /\ items[i] \in Item
    BY BoardIs, BoardAt, ItemAt DEF Identity, TypeOK
  <2>2. Jobs!Settled(n) <=> ~Unfinished(items[i])
    BY <2>1, JobStates DEF Jobs!Settled, Job
  <2>3. f[n] = IF Unfinished(items[i]) THEN [jobBoard[n] EXCEPT !.state = state] ELSE jobBoard[n]
    BY <2>1, <2>2
  <2>. HIDE DEF f
  <2>4. CASE Unfinished(items[i])
    <3>1. items'[i] = [items[i] EXCEPT !.status = status]
      BY <1>2, <2>4
    <3>2. /\ items'[i].id = n /\ items'[i].type = items[i].type
          /\ items'[i].rom = items[i].rom /\ items'[i].status = status
      BY <2>1, <3>1 DEF Item
    <3>3. f[n] = [Job(items[i]) EXCEPT !.state = state]
      BY <2>1, <2>3, <2>4
    <3>. QED
      BY <3>2, <3>3 DEF Job
  <2>5. CASE ~Unfinished(items[i])
    BY <1>2, <2>1, <2>3, <2>5
  <2>. QED
    BY <2>4, <2>5
<1>4. jobBoard' = f
  <2>. HIDE DEF f
  <2>. QED
    BY <1>1, <1>2, <1>3, BoardMap, BoardIs DEF Identity
<1>5. Jobs!Reset(state)
  BY <1>4 DEF Jobs!Reset
<1>6. state \in {"queued", "skipped"}
  BY JobStates DEF Terminal
<1>. QED
  BY <1>5, <1>6 DEF Jobs!Next, Jobs!Requeue, Jobs!CancelAll

LEMMA QuietBoard ==
    ASSUME \A t \in Threads : job[t].pc = "none" /\ job'[t].pc = "none"
    PROVE  heldJobs = {} /\ heldJobs' = {}
<1>1. \A n : n \notin heldJobs /\ n \notin heldJobs'
  BY HeldIs DEF Working, WorkingPcs
<1>. QED
  BY <1>1

LEMMA AddOnBoard ==
    ASSUME TypeOK, Identity, NEW type \in Kinds, NEW rom \in Roms, NEW force \in Forces,
           QueueAdd(type, rom, force)
    PROVE  Jobs!Next
<1>. DEFINE n == Len(items) + 1
            new == [id |-> nextId, type |-> type, rom |-> rom,
                    force |-> force, status |-> "idle"]
            key == <<type, rom>>
            f == [m \in DOMAIN jobBoard \union {nextId} |->
                    IF m = nextId THEN [key |-> key, state |-> "queued"] ELSE jobBoard[m]]
<1>1. /\ DOMAIN items' = 1 .. n /\ DOMAIN items = 1 .. Len(items) /\ Len(items) \in Nat
      /\ \A i \in 1 .. Len(items) : items'[i] = items[i]
      /\ items'[n] = new
  BY AddEffect
<1>2. ~AlreadyQueued(type, rom) /\ UNCHANGED job
  BY DEF QueueAdd, threadVars
<1>3. \A i \in DOMAIN items : items[i].id < nextId /\ items[i].id \in Nat
  BY IdsAre DEF Identity, TypeOK
<1>4. nextId \notin DOMAIN jobBoard
  BY <1>3, BoardIs DEF Ids
<1>5. heldJobs' = heldJobs
  BY <1>2, HeldSame DEF Working
<1>6. \A m \in DOMAIN jobBoard : jobBoard[m].key = key => Jobs!Settled(m)
  <2>. SUFFICES ASSUME NEW m \in DOMAIN jobBoard, jobBoard[m].key = key PROVE Jobs!Settled(m)
    OBVIOUS
  <2>1. PICK i \in DOMAIN items : m = items[i].id
    BY BoardIs DEF Ids
  <2>2. jobBoard[m] = Job(items[i]) /\ items[i] \in Item
    BY <2>1, BoardIs, BoardAt, ItemAt DEF Identity, TypeOK
  <2>3. items[i].type = type /\ items[i].rom = rom
    BY <2>2 DEF Job
  <2>4. ~Unfinished(items[i])
    BY <1>2, <2>3 DEF AlreadyQueued
  <2>. QED
    BY <2>2, <2>4, JobStates DEF Jobs!Settled, Job
<1>7. jobBoard' = f
  <2>1. IdsDistinct(items')
    <3>1. new.id = nextId
      OBVIOUS
    <3>2. \A i \in DOMAIN items' : i = n \/ (i \in DOMAIN items /\ items'[i] = items[i])
      BY <1>1
    <3>. HIDE DEF new
    <3>. QED
      BY <1>1, <1>3, <3>1, <3>2 DEF Identity, IdsDistinct
  <2>2. Ids(items') = Ids(items) \union {nextId}
    <3>1. \A m : m \in Ids(items') <=> m \in Ids(items) \/ m = nextId
      <4>1. new.id = nextId
        OBVIOUS
      <4>2. \A i \in DOMAIN items' : i = n \/ (i \in DOMAIN items /\ items'[i] = items[i])
        BY <1>1
      <4>3. \A i \in DOMAIN items : i \in DOMAIN items' /\ items'[i] = items[i]
        BY <1>1
      <4>4. n \in DOMAIN items'
        BY <1>1
      <4>. HIDE DEF new, n
      <4>. QED
        BY <1>1, <4>1, <4>2, <4>3, <4>4 DEF Ids
    <3>. QED
      BY <3>1
  <2>3. \A m \in Ids(items') : jobBoard'[m] = f[m]
    <3>. SUFFICES ASSUME NEW m \in Ids(items') PROVE jobBoard'[m] = f[m]
      OBVIOUS
    <3>1. CASE m = nextId
      <4>1. n \in DOMAIN items' /\ items'[n].id = nextId
        BY <1>1
      <4>2. BoardOf(items')[nextId] = Job(items'[n])
        BY <2>1, <4>1, BoardAt
      <4>3. Job(new) = [key |-> key, state |-> "queued"]
        BY JobStates DEF Job
      <4>4. f[m] = [key |-> key, state |-> "queued"]
        BY <3>1
      <4>. HIDE DEF f, new
      <4>. QED
        BY <1>1, <3>1, <4>2, <4>3, <4>4, BoardIs
    <3>2. CASE m # nextId
      <4>1. PICK i \in DOMAIN items : m = items[i].id
        BY <2>2, <3>2 DEF Ids
      <4>2. i \in DOMAIN items' /\ items'[i] = items[i]
        BY <1>1
      <4>3. BoardOf(items')[m] = Job(items[i]) /\ BoardOf(items)[m] = Job(items[i])
        BY <2>1, <4>1, <4>2, BoardAt DEF Identity
      <4>4. f[m] = jobBoard[m]
        BY <2>2, <3>2, BoardIs
      <4>. HIDE DEF f
      <4>. QED
        BY <4>3, <4>4, BoardIs
    <3>. QED
      BY <3>1, <3>2
  <2>4. jobBoard' = [m \in Ids(items') |-> jobBoard'[m]]
    BY BoardIs DEF BoardOf
  <2>5. f = [m \in Ids(items') |-> f[m]]
    BY <2>2, BoardIs
  <2>. HIDE DEF f
  <2>. QED
    BY <2>3, <2>4, <2>5
<1>8. key \in Kinds \X Roms
  OBVIOUS
<1>9. Jobs!Post(nextId, key)
  BY <1>4, <1>5, <1>6, <1>7 DEF Jobs!Post
<1>10. nextId \in DOMAIN jobBoard' \ DOMAIN jobBoard
  BY <1>4, <1>7
<1>. HIDE DEF key
<1>. QED
  BY <1>8, <1>9, <1>10 DEF Jobs!Next

LEMMA LoadOnBoard ==
    ASSUME TypeOK, Stages, Identity', StartFromFile PROVE Jobs!Next
<1>1. items = <<>> /\ heldJobs = {} /\ heldJobs' = {}
  BY NeedsQuiet, QuietBoard DEF CallerNeedsQuiet, StartFromFile, Stages
<1>2. PICK s \in SavedQueues : \E lost : items' = LoadedItems(s, lost)
  BY DEF StartFromFile, QueueLoadItems
<1>3. s \in Seq(Item)
  BY SavedAssumption
<1>4. \A i \in DOMAIN items' : items'[i].status \notin Active
  <2>1. DOMAIN items' = DOMAIN s
    BY <1>2 DEF LoadedItems
  <2>. QED
    BY <1>2, <1>3, <2>1, NoneActive
<1>5. \A m \in DOMAIN jobBoard' : \E i \in DOMAIN items' :
          items'[i].id = m /\ jobBoard'[m] = Job(items'[i])
  BY BoardIs, BoardAt DEF Ids, Identity
<1>6. \A i \in DOMAIN items' : items'[i] \in Item
  <2>1. items' \in Seq(Item)
    BY <1>2, <1>3, LoadedItemsEffect
  <2>. QED
    BY <2>1, ElementOfSeq, LenProperties
<1>7. \A m \in DOMAIN jobBoard' : jobBoard'[m].state # "running"
  <2>1. \A i \in DOMAIN items' : Job(items'[i]).state # "running"
    BY <1>4, <1>6 DEF Job, JobState, Item, Statuses, Active, Terminal
  <2>. QED
    BY <1>5, <2>1
<1>8. ASSUME NEW m \in DOMAIN jobBoard', NEW n \in DOMAIN jobBoard',
             jobBoard'[m].state = "queued", jobBoard'[n].state = "queued",
             jobBoard'[m].key = jobBoard'[n].key
      PROVE  m = n
  <2>1. PICK i \in DOMAIN items' : items'[i].id = m /\ jobBoard'[m] = Job(items'[i])
    BY <1>5
  <2>2. PICK j \in DOMAIN items' : items'[j].id = n /\ jobBoard'[n] = Job(items'[j])
    BY <1>5
  <2>3. items'[i].status = "idle" /\ items'[j].status = "idle"
    BY <1>6, <1>8, <2>1, <2>2, JobStates DEF Job
  <2>4. items'[i].type = items'[j].type /\ items'[i].rom = items'[j].rom
    BY <1>8, <2>1, <2>2 DEF Job
  <2>5. Unfinished(items'[i]) /\ Unfinished(items'[j])
    BY <2>3 DEF Unfinished, Terminal
  <2>. QED
    BY <2>1, <2>2, <2>4, <2>5 DEF Identity, NoTwins
<1>9. DOMAIN jobBoard = {}
  <2>1. DOMAIN items = {}
    BY <1>1
  <2>. QED
    BY <2>1, BoardIs DEF Ids
<1>10. Jobs!Load
  BY <1>1, <1>7, <1>8, <1>9 DEF Jobs!Load
<1>. QED
  BY <1>10 DEF Jobs!Next

LEMMA CallerOnBoard ==
    ASSUME TypeOK, Stages, Claims, Identity, Identity', Calls \/ InCall
    PROVE  [Jobs!Next]_<<jobBoard, heldJobs>>
<1>1. CASE CallerLeavesItems
  <2>1. UNCHANGED <<items, job>>
    BY <1>1, LeavesItems
  <2>. QED
    BY <2>1, BoardIs, HeldSame DEF Working
<1>2. CASE \E type \in Kinds, rom \in Roms, force \in Forces : QueueAdd(type, rom, force)
  BY <1>2, AddOnBoard
<1>3. CASE QueueClearDone
  <2>1. ~HasUnfinished /\ items' = <<>> /\ UNCHANGED job
    BY <1>3 DEF QueueClearDone, threadVars
  <2>2. \A i \in DOMAIN items : items[i].status \in Terminal
    BY <2>1 DEF HasUnfinished, Unfinished
  <2>3. \A t \in Threads : ~Working(t)
    BY <2>2 DEF Claims, ClaimsStayValid, Active, Terminal
  <2>4. heldJobs = {} /\ heldJobs' = heldJobs
    <3>1. \A n : n \notin heldJobs
      BY <2>3, HeldIs
    <3>. QED
      BY <2>1, <3>1, HeldSame DEF Working
  <2>5. \A n \in DOMAIN jobBoard : Jobs!Settled(n)
    <3>1. \A i \in DOMAIN items : jobBoard[items[i].id] = Job(items[i])
      BY BoardIs, BoardAt DEF Identity
    <3>2. \A i \in DOMAIN items : Job(items[i]).state \in Terminal
      BY <2>2, JobStates DEF Job
    <3>. QED
      BY <3>1, <3>2, BoardIs DEF Ids, Jobs!Settled
  <2>6. DOMAIN jobBoard' = {}
    BY <2>1, BoardIs DEF Ids
  <2>. QED
    BY <2>4, <2>5, <2>6 DEF Jobs!Wipe, Jobs!Next
<1>4. CASE StartFromFile
  BY <1>4, LoadOnBoard
<1>5. CASE FinishCancel \/ FinishHandoff \/ LaunchFailed
  <2>1. heldJobs = {} /\ heldJobs' = {}
    BY <1>5, NeedsQuiet, QuietBoard DEF CallerNeedsQuiet
  <2>2. LaunchFailed => items' = SetUnfinished(items, "idle")
    BY DEF LaunchFailed, QueueLoadItems, LoadedItems, SetUnfinished
  <2>3. \E status \in {"idle", "skipped"} : items' = SetUnfinished(items, status)
    BY <1>5, <2>2 DEF FinishCancel, FinishHandoff, HandoffItems
  <2>. QED
    BY <2>1, <2>3, ResetOnBoard
<1>6. CASE FinishShutdown
  <2>1. heldJobs = {} /\ heldJobs' = {}
    BY <1>6, NeedsQuiet, QuietBoard DEF CallerNeedsQuiet
  <2>2. DOMAIN jobBoard' = {}
    BY <1>6, BoardIs DEF FinishShutdown, Ids
  <2>. QED
    BY <2>1, <2>2 DEF Jobs!Close, Jobs!Next
<1>. QED
  BY <1>1, <1>2, <1>3, <1>4, <1>5, <1>6 DEF Calls, InCall, CallerLeavesItems

LEMMA StepOnBoard ==
    ASSUME TypeOK, Stages, Claims, Interrupts, Identity, Identity', [Next]_vars
    PROVE  [Jobs!Next]_<<jobBoard, heldJobs>>
<1>1. CASE Calls \/ InCall
  BY <1>1, CallerOnBoard
<1>2. CASE Closed \/ UNCHANGED vars
  <2>1. UNCHANGED <<items, job>>
    BY <1>2 DEF Closed, vars
  <2>. QED
    BY <2>1, BoardIs, HeldSame DEF Working
<1>3. CASE Manager
  BY <1>3, ManagerOnBoard
<1>4. ASSUME NEW t \in Workers \union {Lead}, Requester(t)
      PROVE  [Jobs!Next]_<<jobBoard, heldJobs>>
  BY <1>4, RequesterMoves, ThreadOnBoard DEF Threads
<1>5. ASSUME NEW w \in Workers, WorkerTake(w) PROVE [Jobs!Next]_<<jobBoard, heldJobs>>
  BY <1>5, WorkerPauses, ThreadOnBoard DEF Threads
<1>6. CASE Cheats
  BY <1>6, CheatsMove, ThreadOnBoard DEF Threads
<1>. QED
  BY <1>1, <1>2, <1>3, <1>4, <1>5, <1>6 DEF Next

LEMMA BoardStarts == Init => Jobs!Init
<1>. SUFFICES ASSUME Init PROVE Jobs!Init
  OBVIOUS
<1>1. items = <<>> /\ \A t \in Threads : job[t].pc = "none"
  BY DEF Init, At
<1>2. heldJobs = {}
  BY <1>1 DEF heldJobs, Working, WorkingPcs
<1>3. DOMAIN jobBoard = {} /\ jobBoard = [n \in DOMAIN jobBoard |-> jobBoard[n]]
  BY <1>1, BoardIs DEF Ids, jobBoard
<1>. QED
  BY <1>2, <1>3 DEF Jobs!Init

(* The queue implements the job board, for any number of ROMs, threads and *)
(* ids and any queue file: one worker per job, one result per job, and no  *)
(* reset, cancel, clear or free while a worker holds a job.                *)
THEOREM QueueIsAJobBoard == Spec => ImplementsJobBoard
<1>1. Spec => [](TypeOK /\ Stages /\ Claims /\ Interrupts /\ Identity)
  BY InterruptsAlways, IdentityAlways, PTL
<1>. DEFINE Inv == TypeOK /\ Stages /\ Claims /\ Interrupts /\ Identity
<1>2. Inv /\ Inv' /\ [Next]_vars => [Jobs!Next]_<<jobBoard, heldJobs>>
  BY StepOnBoard
<1>. QED
  BY <1>1, <1>2, BoardStarts, PTL DEF Spec, ImplementsJobBoard, Jobs!Spec

-----------------------------------------------------------------------------
(* The whole argument in one invariant.                                    *)
THEOREM QueueIsSafe == Spec => []QueueInv
<1>1. Init => Flags
  BY DEF Init, Flags
<1>2. Init => NothingStuck
  BY DEF Init, NothingStuck
<1>. QED
  BY <1>1, <1>2, TypeInit, TypeNext, StagesInit, StagesNext, FlagsNext, ClaimsInit, ClaimsNext,
     IdentityInit, IdentityNext, InterruptsInit, InterruptsNext, NothingStuckNext, PTL
  DEF Spec, QueueInv
=============================================================================
