----------------------------- MODULE ScrapeQueue -----------------------------
(***************************************************************************)
(* The download queue of queue.c inside one process: the caller of the     *)
(* public API (the UI thread of the application, or the main thread of the *)
(* background daemon), the manager thread, the lead request the manager    *)
(* makes itself, the pool of API workers, and the cheat thread.            *)
(*                                                                         *)
(* A step is what happens between two points where another thread can      *)
(* observe or change something: one critical section of g_mutex, one load  *)
(* or store of g_interrupt, or the return of one network or git call.      *)
(* Indices into the queue count from 1.  Settings, API statistics and the  *)
(* contents of the files are abstracted; the outcome of a request is       *)
(* chosen when it returns.                                                 *)
(*                                                                         *)
(* A definition Name_Slip is Name with one plausible programming error;    *)
(* no specification uses it.  It shows that a property can fail.           *)
(***************************************************************************)
EXTENDS Naturals, Sequences, FiniteSets

CONSTANTS
    Roms,           \* ROM paths the caller may queue
    Kinds,          \* the item types in use, a subset of AllKinds
    Forces,         \* values of the force flag the caller passes
    Workers,        \* pool threads; the API never allows more than these
    Lead,           \* the manager thread while it makes the batch's first request
    CheatThread,    \* cheat_thread_fn
    MaxItems,       \* QUEUE_MAX_ITEMS
    MaxId,          \* bound: ids handed out in one behaviour (no 2^32 wrap)
    SavedQueues     \* queue files a process may load when it starts

AllKinds == {"artwork", "cheat", "manual"}
Terminal == {"done", "not_found", "error", "skipped"}
Active   == {"searching", "downloading", "cloning", "matching"}
Statuses == {"idle"} \union Active \union Terminal
Item == [id : Nat, type : AllKinds, rom : Roms, force : BOOLEAN, status : Statuses]

(* queue_has_unfinished_work, queue_is_queued and the dedupe of the adders *)
(* all ask this of an item's status.                                       *)
Unfinished(item) == item.status \notin Terminal

\* No ROM is queued twice for the same kind of work while the first is unfinished.
NoTwins(s) ==
    \A i, j \in DOMAIN s :
        /\ Unfinished(s[i]) /\ Unfinished(s[j])
        /\ s[i].type = s[j].type /\ s[i].rom = s[j].rom
        => i = j
IdsDistinct(s) == \A i, j \in DOMAIN s : s[i].id = s[j].id => i = j

ASSUME ThreadsAssumption ==
    /\ IsFiniteSet(Workers)
    /\ Lead # CheatThread /\ Lead \notin Workers /\ CheatThread \notin Workers
ASSUME KindsAssumption  == Kinds \subseteq AllKinds /\ Forces \subseteq BOOLEAN
ASSUME BoundsAssumption == MaxItems \in Nat /\ MaxId \in Nat
(* A queue file is a snapshot some process made of its own queue, so it    *)
(* inherits that queue's invariants; any status may have been saved.       *)
ASSUME SavedAssumption ==
    \A s \in SavedQueues :
        /\ s \in Seq(Item) /\ Len(s) <= MaxItems
        /\ NoTwins(s) /\ IdsDistinct(s)

Threads == Workers \union {Lead, CheatThread}

VARIABLES
    items,      \* g_items[0 .. g_count-1]
    nextId,     \* g_next_item_id
    dirty,      \* g_dirty
    started,    \* g_manager_started
    running,    \* g_worker_running
    interrupt,  \* g_interrupt
    ui,         \* where the caller is in the API: [pc, op]
    mgr,        \* the manager thread: [pc, todo, threads]
    batch,      \* g_artwork_work / g_manual_work: [kind, left]
    job         \* each thread's locals: [pc, idx, id, ret]

queueVars  == <<items, nextId, dirty>>
flagVars   == <<started, running, interrupt>>
threadVars == <<mgr, batch, job>>
vars == <<items, nextId, dirty, started, running, interrupt, ui, mgr, batch, job>>

-----------------------------------------------------------------------------
(* Threads.  job[t].idx is the index the thread works on, job[t].id the id *)
(* in its private copy of the item, job[t].ret what its last call returned.*)

At(pc)      == [pc |-> pc, idx |-> 0, id |-> 0, ret |-> "none"]
ClaimAt(i)  == [pc |-> "claim", idx |-> i, id |-> 0, ret |-> "none"]
Holding(t, pc, ret) == [pc |-> pc, idx |-> job[t].idx, id |-> job[t].id, ret |-> ret]

WorkingPcs ==
    {"search", "searched", "download", "downloaded", "list", "listed", "match"}
Working(t) == job[t].pc \in WorkingPcs

\* Where a thread goes when it is through with an item.
Resume(t) == IF t = Lead THEN At("none")
             ELSE IF t = CheatThread THEN At("find") ELSE At("top")

KindOf(t) == IF t = CheatThread THEN "cheat" ELSE batch.kind

ManagerAlive == mgr.pc \notin {"none", "exited"}
NoThreads == ~ManagerAlive /\ \A t \in Threads : job[t].pc = "none"

IdleOf(k) == {i \in DOMAIN items : items[i].type = k /\ items[i].status = "idle"}
First(i, S) == i \in S /\ \A j \in S : i <= j      \* i is the first index in S

(* set_item_status and set_item_error: a bounds check, the write, dirty.   *)
SetStatus(i, status) ==
    /\ items' = IF i \in DOMAIN items THEN [items EXCEPT ![i].status = status] ELSE items
    /\ dirty' = (dirty \/ i \in DOMAIN items)

-----------------------------------------------------------------------------
(* claim_item under g_mutex: only an idle item of the thread's kind.       *)
Claimable(i, k) ==
    i \in DOMAIN items /\ items[i].type = k /\ items[i].status = "idle"

ClaimItem(t) ==
    /\ job[t].pc = "claim"
    /\ LET i == job[t].idx IN
       \/ /\ Claimable(i, KindOf(t))
          /\ \E s \in IF t = CheatThread THEN {"cloning", "matching"} ELSE {"searching"} :
                SetStatus(i, s)
          /\ job' = [job EXCEPT ![t] =
                        [pc |-> IF t = CheatThread THEN "list" ELSE "search",
                         idx |-> i, id |-> items[i].id, ret |-> "none"]]
       \/ /\ ~Claimable(i, KindOf(t))
          /\ job' = [job EXCEPT ![t] = Resume(t)]
          /\ UNCHANGED <<items, dirty>>
    /\ UNCHANGED <<nextId, flagVars, ui, mgr, batch>>

(* artwork_worker_fn / manual_worker_fn, loop head: leave when interrupted *)
(* or told to stop; atomic_fetch_add takes the next index of the batch.    *)
WorkerTake(w) ==
    /\ job[w].pc = "top"
    /\ \/ /\ interrupt \/ ~running \/ batch.left = {}
          /\ job' = [job EXCEPT ![w] = At("none")]
          /\ UNCHANGED batch
       \/ /\ ~interrupt /\ running
          /\ \E i \in batch.left :
                /\ First(i, batch.left)
                /\ job' = [job EXCEPT ![w] = ClaimAt(i)]
                /\ batch' = [batch EXCEPT !.left = @ \ {i}]
    /\ UNCHANGED <<queueVars, flagVars, ui, mgr>>

(* ss_search_rom and ss_download_media return; both give -2 ("cancelled")  *)
(* only after they saw g_interrupt set.                                    *)
SearchReturns(t) ==
    /\ job[t].pc = "search"
    /\ \E ret \in {"found", "not_found", "failed", "cancelled"} :
        /\ ret = "cancelled" => interrupt
        /\ job' = [job EXCEPT ![t] = Holding(t, "searched", ret)]
    /\ UNCHANGED <<queueVars, flagVars, ui, mgr, batch>>

DownloadReturns(t) ==
    /\ job[t].pc = "download"
    /\ \E ret \in {"ok", "failed", "cancelled"} :
        /\ ret = "cancelled" => interrupt
        /\ job' = [job EXCEPT ![t] = Holding(t, "downloaded", ret)]
    /\ UNCHANGED <<queueVars, flagVars, ui, mgr, batch>>

(* The thread records what the search returned.  On -2 it stops and leaves *)
(* the item as it is.  A lead search that succeeds also fixes the size of  *)
(* the worker pool (max_threads as the API reports it).                    *)
RecordSearch(t) ==
    /\ job[t].pc = "searched"
    /\ LET i == job[t].idx  ret == job[t].ret IN
       \/ /\ ret = "cancelled"
          /\ job' = [job EXCEPT ![t] = At("none")]
          /\ UNCHANGED <<items, dirty, mgr>>
       \/ /\ ret \in {"not_found", "failed"}
          /\ SetStatus(i, IF ret = "failed" THEN "error" ELSE "not_found")
          /\ job' = [job EXCEPT ![t] = Resume(t)]
          /\ UNCHANGED mgr
       \/ /\ ret = "found"
          /\ SetStatus(i, "downloading")
          /\ job' = [job EXCEPT ![t] = Holding(t, "download", "none")]
          /\ IF t = Lead
             THEN \E n \in 1 .. Cardinality(Workers) : mgr' = [mgr EXCEPT !.threads = n]
             ELSE UNCHANGED mgr
    /\ UNCHANGED <<nextId, flagVars, ui, batch>>

(* A worker tells -2 from a failure and leaves the item unfinished; the    *)
(* manager's own request treats every return but 0 as a failed download.   *)
RecordDownload_WorkerDropsFailure(t) ==
    /\ job[t].pc = "downloaded"
    /\ LET i == job[t].idx  ret == job[t].ret IN
       \/ /\ ret # "ok" /\ t # Lead
          /\ job' = [job EXCEPT ![t] = At("none")]
          /\ UNCHANGED <<items, dirty>>
       \/ /\ ret = "ok" \/ t = Lead
          /\ SetStatus(i, IF ret = "ok" THEN "done" ELSE "error")
          /\ job' = [job EXCEPT ![t] = Resume(t)]
    /\ UNCHANGED <<nextId, flagVars, ui, mgr, batch>>
RecordDownload_IgnoresCancel(t) ==
    /\ job[t].pc = "downloaded"
    /\ SetStatus(job[t].idx, IF job[t].ret = "ok" THEN "done" ELSE "error")
    /\ job' = [job EXCEPT ![t] = Resume(t)]
    /\ UNCHANGED <<nextId, flagVars, ui, mgr, batch>>
RecordDownload(t) ==
    /\ job[t].pc = "downloaded"
    /\ LET i == job[t].idx  ret == job[t].ret IN
       \/ /\ ret = "cancelled" /\ t # Lead
          /\ job' = [job EXCEPT ![t] = At("none")]
          /\ UNCHANGED <<items, dirty>>
       \/ /\ ret # "cancelled" \/ t = Lead
          /\ SetStatus(i, IF ret = "ok" THEN "done" ELSE "error")
          /\ job' = [job EXCEPT ![t] = Resume(t)]
    /\ UNCHANGED <<nextId, flagVars, ui, mgr, batch>>

-----------------------------------------------------------------------------
(* The cheat thread.  find_next_cheat_index releases g_mutex before the    *)
(* index is claimed.                                                       *)
CheatFind ==
    /\ job[CheatThread].pc = "find"
    /\ \/ /\ interrupt \/ IdleOf("cheat") = {}
          /\ job' = [job EXCEPT ![CheatThread] = At("none")]
       \/ /\ ~interrupt
          /\ \E i \in IdleOf("cheat") :
                /\ First(i, IdleOf("cheat"))
                /\ job' = [job EXCEPT ![CheatThread] = ClaimAt(i)]
    /\ UNCHANGED <<queueVars, flagVars, ui, mgr, batch>>

\* The force flag in the thread's copy of its item; the item itself keeps it too.
Forced(t) == \E i \in DOMAIN items : items[i].id = job[t].id /\ items[i].force

(* process_cheat_item up to the cheat list: an existing file is kept       *)
(* unless forced; no database or list is an error, unless the interrupt    *)
(* is the reason; an interrupt leaves the item as it is.                   *)
CheatListReturns ==
    LET i == job[CheatThread].idx IN
    /\ job[CheatThread].pc = "list"
    /\ \/ /\ ~Forced(CheatThread)
          /\ SetStatus(i, "skipped")
          /\ job' = [job EXCEPT ![CheatThread] = Resume(CheatThread)]
       \/ /\ ~interrupt
          /\ \E ret \in {"failed", "ok"} :
                job' = [job EXCEPT ![CheatThread] = Holding(CheatThread, "listed", ret)]
          /\ UNCHANGED <<items, dirty>>
       \/ /\ interrupt
          /\ job' = [job EXCEPT ![CheatThread] = Resume(CheatThread)]
          /\ UNCHANGED <<items, dirty>>
    /\ UNCHANGED <<nextId, flagVars, ui, mgr, batch>>

\* The status is stored after that look at g_interrupt.
RecordCheatList ==
    LET i == job[CheatThread].idx IN
    /\ job[CheatThread].pc = "listed"
    /\ \/ /\ job[CheatThread].ret = "failed"
          /\ SetStatus(i, "error")
          /\ job' = [job EXCEPT ![CheatThread] = Resume(CheatThread)]
       \/ /\ job[CheatThread].ret = "ok"
          /\ SetStatus(i, "matching")
          /\ job' = [job EXCEPT ![CheatThread] = Holding(CheatThread, "match", "none")]
    /\ UNCHANGED <<nextId, flagVars, ui, mgr, batch>>

(* match_cheat and copy_cheat_file, to the final status.                   *)
CheatMatchReturns ==
    /\ job[CheatThread].pc = "match"
    /\ \E s \in {"done", "not_found", "error"} : SetStatus(job[CheatThread].idx, s)
    /\ job' = [job EXCEPT ![CheatThread] = Resume(CheatThread)]
    /\ UNCHANGED <<nextId, flagVars, ui, mgr, batch>>

-----------------------------------------------------------------------------
(* The manager thread.                                                     *)

ManagerGoto(pc) == mgr' = [mgr EXCEPT !.pc = pc]
\* What follows a batch: manuals after artwork, then the cheat thread.
StageAfter(kind) == IF kind = "artwork" THEN "manual" ELSE "joincheat"
\* The end of a batch frees its indices.
EndBatch ==
    /\ batch' = [batch EXCEPT !.left = {}]
    /\ mgr' = [mgr EXCEPT !.pc = StageAfter(batch.kind), !.threads = 1]

(* while (manager_should_run()) { if (g_interrupt) break; ...              *)
ManagerLoop ==
    /\ mgr.pc = "loop"
    /\ ManagerGoto(IF running /\ ~interrupt THEN "scan" ELSE "exit")
    /\ UNCHANGED <<queueVars, flagVars, ui, batch, job>>

(* Nothing idle: sleep and loop.  Otherwise note the kinds that have work. *)
IdleKinds_ForgetsManuals ==
    {items[i].type : i \in {n \in DOMAIN items : items[n].status = "idle"}} \ {"manual"}
IdleKinds == {items[i].type : i \in {n \in DOMAIN items : items[n].status = "idle"}}

ManagerScan ==
    /\ mgr.pc = "scan"
    /\ mgr' = [mgr EXCEPT !.pc = IF IdleKinds = {} THEN "loop" ELSE "spawn",
                          !.todo = IdleKinds]
    /\ UNCHANGED <<queueVars, flagVars, ui, batch, job>>

(* Start the cheat thread if there are idle cheats; pthread_create may     *)
(* fail, and the pass then goes on without it.                             *)
CheatWanted == "cheat" \in mgr.todo /\ ~interrupt
ManagerSpawnCheat ==
    /\ mgr.pc = "spawn" /\ CheatWanted
    /\ job' = [job EXCEPT ![CheatThread] = At("find")]
    /\ ManagerGoto("artwork")
    /\ UNCHANGED <<queueVars, flagVars, ui, batch>>
ManagerNoCheat ==     \* no cheats, interrupted, or pthread_create failed
    /\ mgr.pc = "spawn"
    /\ ManagerGoto("artwork")
    /\ UNCHANGED <<queueVars, flagVars, ui, batch, job>>

(* process_artwork_batch / process_manual_batch: collect the idle items.   *)
(* The lead takes the first; if the priority lists cannot be built the     *)
(* whole batch is rejected.                                                *)
ManagerCollect(kind) ==
    /\ mgr.pc = kind
    /\ LET found == IF kind \in mgr.todo /\ ~interrupt THEN IdleOf(kind) ELSE {} IN
       \/ /\ found = {}
          /\ ManagerGoto(StageAfter(kind))
          /\ UNCHANGED <<batch, job>>
       \/ /\ \E i \in found :
                /\ First(i, found)
                /\ batch' = [kind |-> kind, left |-> found \ {i}]
                /\ job' = [job EXCEPT ![Lead] = ClaimAt(i)]
          /\ ManagerGoto("lead")
       \/ /\ found # {}
          /\ batch' = [kind |-> kind, left |-> found]
          /\ ManagerGoto("reject")
          /\ UNCHANGED job
    /\ UNCHANGED <<queueVars, flagVars, ui>>

ManagerReject ==
    /\ mgr.pc = "reject"
    /\ \/ batch.left = {} /\ EndBatch /\ UNCHANGED <<items, dirty>>
       \/ /\ \E i \in batch.left :
                /\ First(i, batch.left)
                /\ SetStatus(i, "error")
                /\ batch' = [batch EXCEPT !.left = @ \ {i}]
          /\ UNCHANGED mgr
    /\ UNCHANGED <<nextId, flagVars, ui, job>>

(* After the lead: start at most max_threads workers, never more than      *)
(* items left; pthread_create may fail for any suffix of them.             *)
ManagerFanOut ==
    /\ mgr.pc = "lead" /\ job[Lead].pc = "none"
    /\ \/ /\ batch.left # {} /\ ~interrupt
          /\ \E W \in SUBSET Workers :
                /\ Cardinality(W) <= mgr.threads
                /\ Cardinality(W) <= Cardinality(batch.left)
                /\ job' = [t \in Threads |-> IF t \in W THEN At("top") ELSE job[t]]
          /\ ManagerGoto("join")
          /\ UNCHANGED batch
       \/ /\ batch.left = {} \/ interrupt
          /\ EndBatch
          /\ UNCHANGED job
    /\ UNCHANGED <<queueVars, flagVars, ui>>

ManagerJoinWorkers ==
    /\ mgr.pc = "join"
    /\ \A w \in Workers : job[w].pc = "none"
    /\ EndBatch
    /\ UNCHANGED <<queueVars, flagVars, ui, job>>

CheatJoined_Detached == TRUE
CheatJoined == job[CheatThread].pc = "none"
ManagerJoinCheat ==
    /\ mgr.pc = "joincheat"
    /\ CheatJoined
    /\ mgr' = [mgr EXCEPT !.pc = "loop", !.todo = {}]
    /\ UNCHANGED <<queueVars, flagVars, ui, batch, job>>

ManagerExit ==
    /\ mgr.pc = "exit"
    /\ running' = FALSE
    /\ ManagerGoto("exited")
    /\ UNCHANGED <<queueVars, started, interrupt, ui, batch, job>>

-----------------------------------------------------------------------------
(* The caller.  One thread makes every call; ui.op names the transition    *)
(* (cancel, handoff, mapping, shutdown) it is in.                          *)

UiGoto(pc) == ui' = [ui EXCEPT !.pc = pc]
UiReady == ui.pc = "ready"

(* The duplicate check of queue_add_*_internal.                            *)
AlreadyQueued_IdleOnly(type, rom) ==
    \E i \in DOMAIN items :
        items[i].type = type /\ items[i].rom = rom /\ items[i].status = "idle"
AlreadyQueued(type, rom) ==
    \E i \in DOMAIN items :
        items[i].type = type /\ items[i].rom = rom /\ Unfinished(items[i])

Full_OffByOne == Len(items) > MaxItems
Full == Len(items) >= MaxItems

(* queue_add_*_internal, the critical section.  Whether the folder has a   *)
(* provider and the file already exists is decided before: a refused add   *)
(* changes nothing.  MaxId ends the adds to a queue with room; it is not   *)
(* what keeps the array from overflowing.                                  *)
QueueAdd(type, rom, force) ==
    /\ UiReady /\ (nextId <= MaxId \/ Len(items) >= MaxItems)
    /\ ~AlreadyQueued(type, rom) /\ ~Full
    /\ items' = Append(items, [id |-> nextId, type |-> type, rom |-> rom,
                               force |-> force, status |-> "idle"])
    /\ nextId' = nextId + 1
    /\ dirty' = TRUE
    /\ UiGoto("ensure")
    /\ UNCHANGED <<flagVars, threadVars>>

(* ensure_manager_started, the critical section, then pthread_create.      *)
EnsureManagerStarted ==
    /\ ui.pc = "ensure"
    /\ IF started
       THEN UiGoto("ready") /\ UNCHANGED flagVars
       ELSE /\ started' = TRUE /\ running' = TRUE /\ interrupt' = FALSE
            /\ UiGoto("spawn")
    /\ UNCHANGED <<queueVars, threadVars>>
SpawnManager ==
    /\ ui.pc = "spawn"
    /\ ManagerGoto("loop")
    /\ UiGoto("ready")
    /\ UNCHANGED <<queueVars, flagVars, batch, job>>
SpawnManagerFails ==
    /\ ui.pc = "spawn"
    /\ started' = FALSE /\ running' = FALSE
    /\ UiGoto("ready")
    /\ UNCHANGED <<queueVars, interrupt, threadVars>>

HasUnfinished == \E i \in DOMAIN items : Unfinished(items[i])

(* queue_clear_done: refused while anything is unfinished, so what the     *)
(* compaction keeps is nothing.                                            *)
QueueClearDone_AnyTime ==
    /\ UiReady
    /\ items' = SelectSeq(items, Unfinished) /\ items' # items
    /\ dirty' = TRUE
    /\ UNCHANGED <<nextId, flagVars, ui, threadVars>>
QueueClearDone_NotDirty ==
    /\ UiReady /\ ~HasUnfinished /\ items # <<>>
    /\ items' = <<>>
    /\ UNCHANGED <<nextId, dirty, flagVars, ui, threadVars>>
QueueClearDone ==
    /\ UiReady /\ ~HasUnfinished /\ items # <<>>
    /\ items' = <<>>
    /\ dirty' = TRUE
    /\ UNCHANGED <<nextId, flagVars, ui, threadVars>>

QueueCheckDirty ==
    /\ UiReady /\ dirty
    /\ dirty' = FALSE
    /\ UNCHANGED <<items, nextId, flagVars, ui, threadVars>>

(* The first step of queue_cancel_all, queue_handoff_snapshot and          *)
(* queue_begin_mapping_edit: stop_manager_for_transition sets g_interrupt. *)
(* A mapping edit is refused while there is unfinished work.               *)
StopFlag_Missing == UNCHANGED interrupt
StopFlag == interrupt' = TRUE
BeginStop(op) ==
    /\ UiReady
    /\ op = "mapping" => ~HasUnfinished
    /\ StopFlag
    /\ ui' = [pc |-> "stopping", op |-> op]
    /\ UNCHANGED <<queueVars, started, running, threadVars>>

(* queue_shutdown clears g_worker_running first, and interrupts and joins  *)
(* only if a manager was started.                                          *)
BeginShutdown ==
    /\ ui.pc \in {"ready", "handed"}
    /\ running' = FALSE
    /\ ui' = [pc |-> "closing", op |-> "shutdown"]
    /\ UNCHANGED <<queueVars, started, interrupt, threadVars>>
ShutdownInterrupts ==
    /\ ui.pc = "closing"
    /\ IF started THEN interrupt' = TRUE /\ UiGoto("stopping")
                  ELSE UNCHANGED interrupt /\ UiGoto("finish")
    /\ UNCHANGED <<queueVars, started, running, threadVars>>

(* pthread_join(g_manager_thread), when one was started.                   *)
ManagerJoined_NoWait == TRUE
ManagerJoined == started => mgr.pc = "exited"

(* The join and the resets after it.  No other thread is left, so they     *)
(* are one step.  queue_shutdown leaves g_interrupt set.                   *)
StopManagerForTransition_LeavesStarted ==
    /\ ui.pc = "stopping" /\ ManagerJoined
    /\ mgr' = [mgr EXCEPT !.pc = "none", !.todo = {}]
    /\ running' = FALSE
    /\ interrupt' = (ui.op = "shutdown")
    /\ UiGoto("finish")
    /\ UNCHANGED <<queueVars, started, batch, job>>
StopManagerForTransition ==
    /\ ui.pc = "stopping" /\ ManagerJoined
    /\ mgr' = [mgr EXCEPT !.pc = "none", !.todo = {}]
    /\ started' = FALSE /\ running' = FALSE
    /\ interrupt' = (ui.op = "shutdown")
    /\ UiGoto("finish")
    /\ UNCHANGED <<queueVars, batch, job>>

SetUnfinished(s, status) ==
    [i \in DOMAIN s |-> IF Unfinished(s[i]) THEN [s[i] EXCEPT !.status = status] ELSE s[i]]

FinishCancel ==
    /\ ui.pc = "finish" /\ ui.op = "cancel"
    /\ items' = SetUnfinished(items, "skipped")
    /\ dirty' = TRUE
    /\ started' = FALSE /\ running' = FALSE
    /\ ui' = [pc |-> "ready", op |-> "none"]
    /\ UNCHANGED <<nextId, interrupt, threadVars>>

(* What a handoff resets to IDLE.                                          *)
HandoffItems_RetriesErrors(s) ==
    [i \in DOMAIN s |-> IF Unfinished(s[i]) \/ s[i].status = "error"
                        THEN [s[i] EXCEPT !.status = "idle"] ELSE s[i]]
HandoffItems(s) == SetUnfinished(s, "idle")

(* The snapshot is now the caller's; the queue itself also keeps it.       *)
FinishHandoff ==
    /\ ui.pc = "finish" /\ ui.op = "handoff"
    /\ items' = HandoffItems(items)
    /\ dirty' = (dirty \/ HasUnfinished)
    /\ UiGoto("handed")
    /\ UNCHANGED <<nextId, flagVars, threadVars>>

(* queue_begin_mapping_edit looks at the queue a second time.              *)
FinishMapping ==
    /\ ui.pc = "finish" /\ ui.op = "mapping"
    /\ ui' = IF HasUnfinished THEN [pc |-> "ready", op |-> "none"]
                              ELSE [pc |-> "editing", op |-> "mapping"]
    /\ UNCHANGED <<queueVars, flagVars, threadVars>>
EndMappingEdit ==
    /\ ui.pc = "editing"
    /\ ui' = [pc |-> "ready", op |-> "none"]
    /\ UNCHANGED <<queueVars, flagVars, threadVars>>

FinishShutdown ==
    /\ ui.pc = "finish" /\ ui.op = "shutdown"
    /\ items' = <<>> /\ dirty' = FALSE
    /\ UiGoto("closed")
    /\ UNCHANGED <<nextId, flagVars, threadVars>>

(* queue_load_items: unfinished items become IDLE; a cheat item whose      *)
(* folder lost its database (those at "lost") becomes an error.            *)
LoadedItems(s, lost) ==
    [i \in DOMAIN s |->
        IF Unfinished(s[i])
        THEN [s[i] EXCEPT !.status =
                IF s[i].type = "cheat" /\ i \in lost THEN "error" ELSE "idle"]
        ELSE s[i]]
(* g_next_item_id moves past every id that was loaded.                     *)
SkipLoadedIds_Kept(s) == nextId' = nextId
SkipLoadedIds(s) ==
    /\ nextId' \in {nextId} \union {s[i].id + 1 : i \in DOMAIN s}
    /\ nextId' >= nextId
    /\ \A i \in DOMAIN s : nextId' > s[i].id

\* The manager is started if anything was unfinished as saved.
QueueLoadItems(s, lost) ==
    /\ items' = LoadedItems(s, lost)
    /\ SkipLoadedIds(s)
    /\ dirty' = TRUE
    /\ ui' = [pc |-> IF \E i \in DOMAIN s : Unfinished(s[i]) THEN "ensure" ELSE "ready",
              op |-> "none"]
    /\ UNCHANGED <<flagVars, threadVars>>

(* A process starts: with no queue file, or with one.                      *)
StartEmpty ==
    /\ ui.pc = "startup"
    /\ ui' = [pc |-> "ready", op |-> "none"]
    /\ UNCHANGED <<queueVars, flagVars, threadVars>>
StartFromFile ==
    /\ ui.pc = "startup"
    /\ \E s \in SavedQueues : \E lost \in SUBSET DOMAIN s : QueueLoadItems(s, lost)

(* run_app: the daemon could not be launched, the snapshot is taken back;  *)
(* its cheat items have their database by now.                             *)
LaunchFailed ==
    /\ ui.pc = "handed" /\ HasUnfinished
    /\ QueueLoadItems(items, {})

(* After queue_shutdown the process ends.                                  *)
Closed == ui.pc = "closed" /\ UNCHANGED vars

-----------------------------------------------------------------------------
Init ==
    /\ items = <<>> /\ nextId = 1 /\ dirty = FALSE
    /\ started = FALSE /\ running = FALSE /\ interrupt = FALSE
    /\ ui = [pc |-> "startup", op |-> "none"]
    /\ mgr = [pc |-> "none", todo |-> {}, threads |-> 1]
    /\ batch = [kind |-> "artwork", left |-> {}]
    /\ job = [t \in Threads |-> At("none")]

Manager ==
    \/ ManagerLoop \/ ManagerScan \/ ManagerSpawnCheat \/ ManagerNoCheat
    \/ \E kind \in {"artwork", "manual"} : ManagerCollect(kind)
    \/ ManagerReject \/ ManagerFanOut \/ ManagerJoinWorkers
    \/ ManagerJoinCheat \/ ManagerExit
Requester(t) ==
    ClaimItem(t) \/ SearchReturns(t) \/ RecordSearch(t)
    \/ DownloadReturns(t) \/ RecordDownload(t)
Cheats ==
    \/ ClaimItem(CheatThread) \/ CheatFind
    \/ CheatListReturns \/ RecordCheatList \/ CheatMatchReturns

\* The calls the caller may start, and the rest of a call it is in.
Calls ==
    \/ StartEmpty \/ StartFromFile
    \/ \E type \in Kinds, rom \in Roms, force \in Forces : QueueAdd(type, rom, force)
    \/ QueueClearDone \/ QueueCheckDirty
    \/ \E op \in {"cancel", "handoff", "mapping"} : BeginStop(op)
    \/ BeginShutdown \/ EndMappingEdit \/ LaunchFailed
InCall ==
    \/ EnsureManagerStarted \/ SpawnManager \/ SpawnManagerFails
    \/ ShutdownInterrupts \/ StopManagerForTransition
    \/ FinishCancel \/ FinishHandoff \/ FinishMapping \/ FinishShutdown

Next ==
    \/ Calls \/ InCall \/ Closed
    \/ Manager
    \/ Requester(Lead)
    \/ \E w \in Workers : WorkerTake(w) \/ Requester(w)
    \/ Cheats

(* The scheduler runs every thread; requests end (curl has timeouts, an    *)
(* interrupt kills git) and pthread_create does not fail for ever for the  *)
(* cheat thread.  What the user asks for is never assumed.                 *)
Fairness ==
    /\ WF_vars(InCall) /\ WF_vars(Manager) /\ SF_vars(ManagerSpawnCheat)
    /\ WF_vars(Requester(Lead)) /\ WF_vars(Cheats)
    /\ \A w \in Workers : WF_vars(WorkerTake(w) \/ Requester(w))

Spec == Init /\ [][Next]_vars
FairSpec == Spec /\ Fairness

-----------------------------------------------------------------------------
(* Properties.                                                             *)

UiPcs  == {"startup", "ready", "ensure", "spawn", "stopping", "closing", "finish",
           "handed", "editing", "closed"}
UiOps  == {"none", "cancel", "handoff", "mapping", "shutdown"}
MgrPcs == {"none", "loop", "scan", "spawn", "artwork", "manual", "lead", "reject",
           "join", "joincheat", "exit", "exited"}
JobPcs == {"none", "top", "find", "claim"} \union WorkingPcs
Rets   == {"none", "found", "not_found", "failed", "cancelled", "ok"}
JobType == [pc : JobPcs, idx : Nat, id : Nat, ret : Rets]

(* Every variable has its type, and the queue never outgrows the array     *)
(* queue_init allocates (QUEUE_MAX_ITEMS).                                 *)
TypeOK ==
    /\ items \in Seq(Item) /\ Len(items) <= MaxItems
    /\ nextId \in Nat
    /\ dirty \in BOOLEAN /\ started \in BOOLEAN
    /\ running \in BOOLEAN /\ interrupt \in BOOLEAN
    /\ ui \in [pc : UiPcs, op : UiOps]
    /\ mgr \in [pc : MgrPcs, todo : SUBSET AllKinds, threads : Nat]
    /\ batch \in [kind : {"artwork", "manual"}, left : SUBSET Nat]
    /\ job \in [Threads -> JobType]

(* A thread keeps an index and a private copy of its item over long calls  *)
(* without g_mutex; whenever it comes back to store a result, the index    *)
(* still names that very item, of its kind, and the item is still being    *)
(* worked on (claim_item, set_item_status, queue_clear_done).              *)
ClaimsStayValid ==
    \A t \in Threads : Working(t) =>
        /\ job[t].idx \in DOMAIN items
        /\ items[job[t].idx].id = job[t].id
        /\ items[job[t].idx].type = KindOf(t)
        /\ items[job[t].idx].status \in Active

(* No two threads ever work on the same item (claim_item's IDLE test).     *)
ExclusiveClaims ==
    \A t, u \in Threads : Working(t) /\ Working(u) /\ job[t].idx = job[u].idx => t = u

(* The duplicate check of the adders, the resets of a handoff and of a     *)
(* load never leave two unfinished items for one ROM and kind of work.     *)
NoDuplicateWork == NoTwins(items)

(* Item ids, which the progress screen uses to open an item's details      *)
(* (progress_on_detail), name one item each, also after a load.            *)
UniqueIds == IdsDistinct(items)

(* An item shown as searching, downloading, cloning or matching has a      *)
(* thread working on it, unless the workers were interrupted: no return    *)
(* path of a worker forgets its item.                                      *)
NothingStuck ==
    \A i \in DOMAIN items : items[i].status \in Active =>
        \/ \E t \in Threads : Working(t) /\ job[t].idx = i
        \/ interrupt
        \/ ui.pc = "finish"

(* stop_manager_for_transition and queue_shutdown return with no manager,  *)
(* worker or cheat thread left: the resets, the mapping edit and the free  *)
(* of g_items that follow race with nobody.                                *)
StoppedIsQuiet == ui.pc \in {"finish", "handed", "editing", "closed"} => NoThreads

(* Between calls g_manager_started is true exactly when a manager thread   *)
(* will look at the queue again: an add that finds it set need not start   *)
(* one (ensure_manager_started), and a stop never joins twice.             *)
StartedMeansAlive ==
    ui.pc = "ready" => (started <=> mgr.pc \notin {"none", "exit", "exited"})

(* Once an item is finished its result never changes: no reset, no late    *)
(* thread and no load touches it; it can only be removed.                  *)
ResultsAreFinal ==
    [][\A i \in DOMAIN items, j \in DOMAIN items' :
          /\ items'[j].id = items[i].id
          /\ ~Unfinished(items[i])
          => items'[j] = items[i]]_vars

(* The daemon saves the queue only when queue_check_dirty says so: every   *)
(* step that changes the queue leaves it dirty (until it is freed).        *)
ChangesAreDirty == [][items' # items => dirty' \/ ui'.pc = "closed"]_vars

(* queue.h: a handoff stops the workers "without cancelling queue items":  *)
(* a thread whose request the handoff cut off leaves its item unfinished,  *)
(* to be reset to IDLE and done by the next process.                       *)
InterruptedItemsSurvive ==
    [][\A t \in Threads :
          /\ ui.op = "handoff"
          /\ job[t].ret = "cancelled" /\ job'[t] # job[t]
          => UNCHANGED items]_vars

(* For the pool threads this holds of every stop.                          *)
WorkersKeepInterruptedItems ==
    [][\A t \in Workers :
          job[t].ret = "cancelled" /\ job'[t] # job[t] => UNCHANGED items]_vars

UnfinishedId(n) == \E i \in DOMAIN items : items[i].id = n /\ Unfinished(items[i])

(* With a manager started, every unfinished item is finished in the end,   *)
(* or the user stops the queue: no kind of work is starved by another, no  *)
(* batch forgets an item added while it ran.                               *)
WorkIsFinished ==
    \A n \in 1 .. MaxId :
        (UnfinishedId(n) /\ started) ~> (~UnfinishedId(n) \/ interrupt \/ ~started)

(* Every cancel, handoff, mapping edit and shutdown comes back to its      *)
(* caller: the join in stop_manager_for_transition never waits for ever.   *)
StopsComplete == ui.pc \in {"stopping", "closing"} ~> ui.pc \notin {"stopping", "closing"}
=============================================================================
