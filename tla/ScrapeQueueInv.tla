---------------------------- MODULE ScrapeQueueInv ----------------------------
(***************************************************************************)
(* Why the queue is safe: the invariant that every step of ScrapeQueue     *)
(* preserves.  Its parts follow the code's own argument.                   *)
(*                                                                         *)
(*   Stages: threads live only inside the stage of the manager's loop that *)
(*     joins them, and the manager only between ensure_manager_started and *)
(*     the join of a transition.  That is all the resets rely on.          *)
(*   Flags: no caller finds g_manager_started with a manager that leaves.  *)
(*   Claims: an index stays good because claimed items are unfinished, and *)
(*     everything that moves or rewrites other items needs none of those.  *)
(*   Identity: what the adders and a load promise about ids and twins.     *)
(*   Interrupts: who is told to stop, and that nobody is told without      *)
(*     a stop; a mapping edit finds no work.                               *)
(***************************************************************************)
EXTENDS ScrapeQueue

RequestPcs == {"none", "claim", "search", "searched", "download", "downloaded"}
CheatPcs   == {"none", "find", "claim", "list", "listed", "match"}
CheatStage == {"artwork", "manual", "lead", "reject", "join", "joincheat"}
ManagedUi  == {"ready", "ensure", "stopping", "closing"}

Stages ==
    /\ \A w \in Workers : job[w].pc \in RequestPcs \union {"top"}
    /\ job[Lead].pc \in RequestPcs
    /\ job[CheatThread].pc \in CheatPcs
    /\ \A w \in Workers : job[w].pc # "none" => mgr.pc = "join"
    /\ job[Lead].pc # "none" => mgr.pc = "lead"
    /\ job[CheatThread].pc # "none" => mgr.pc \in CheatStage
    /\ mgr.pc # "none" => started /\ ui.pc \in ManagedUi
    /\ ui.pc = "spawn" => started
    /\ ui.pc = "startup" => items = <<>>

Flags ==
    /\ ui.pc \in {"startup", "finish", "handed", "editing", "closed"} => ~started
    /\ started /\ ui.pc \in {"ready", "ensure"} => mgr.pc \notin {"none", "exit", "exited"}
    /\ started /\ ui.pc \in {"ready", "ensure", "spawn"} => running /\ ~interrupt

\* process_*_batch still has to reject these; nobody else can take them.
RejectsAreIdle ==
    mgr.pc = "reject" =>
        \A i \in batch.left :
            /\ i \in DOMAIN items
            /\ items[i].type = batch.kind /\ items[i].status = "idle"

Claims == ClaimsStayValid /\ ExclusiveClaims /\ RejectsAreIdle

Identity ==
    /\ NoTwins(items) /\ IdsDistinct(items)
    /\ \A i \in DOMAIN items : items[i].id < nextId

Interrupts ==
    /\ interrupt => ui.pc \in {"stopping", "finish", "closed"}
    /\ interrupt /\ ui.pc = "finish" => ui.op = "shutdown"
    /\ \A t \in Threads : job[t].ret = "cancelled" =>
          interrupt /\ job[t].pc \in {"searched", "downloaded"}
    /\ ui.op = "mapping" => ~HasUnfinished /\ ui.pc \in {"stopping", "finish", "editing"}

QueueInv ==
    TypeOK /\ Stages /\ Flags /\ Claims /\ Identity /\ Interrupts /\ NothingStuck
=============================================================================
