--------------------------- MODULE ScrapeQueueJobs ---------------------------
(* ScrapeQueue implements JobBoard: the job of an item is named by its id, *)
(* its state is the item's status with the four working statuses merged,   *)
(* and it is held while a thread works on it.                              *)
EXTENDS ScrapeQueue

JobState(status) ==
    IF status = "idle" THEN "queued" ELSE IF status \in Active THEN "running" ELSE status

jobBoard ==
    [n \in {items[i].id : i \in DOMAIN items} |->
        LET item == items[CHOOSE i \in DOMAIN items : items[i].id = n]
        IN  [key |-> <<item.type, item.rom>>, state |-> JobState(item.status)]]

heldJobs == {job[t].id : t \in {u \in Threads : Working(u)}}

Jobs == INSTANCE JobBoard WITH
            Keys <- Kinds \X Roms, Results <- Terminal,
            board <- jobBoard, held <- heldJobs

(* Every step of the queue is a step of the job board or changes nothing   *)
(* there: one worker per job, one result per job, and no reset, cancel,    *)
(* clear or free under a worker that still holds a job.                    *)
ImplementsJobBoard == Jobs!Spec
=============================================================================
