---------------------------- MODULE MCScrapeQueue ----------------------------
(* ScrapeQueue on small instances: queue files to start from.              *)
EXTENDS ScrapeQueueJobs

CONSTANTS r1, r2

Saved(id, type, rom, status) ==
    [id |-> id, type |-> type, rom |-> rom, force |-> FALSE, status |-> status]

\* Saved while working; with a failure before work that is left; forced; all finished.
SomeSaved ==
    {<<Saved(2, "manual", r1, "error"), Saved(1, "manual", r1, "downloading")>>,
     <<[Saved(1, "cheat", r1, "idle") EXCEPT !.force = TRUE]>>,
     <<Saved(1, "artwork", r1, "done")>>}
NoSaved == {}
=============================================================================
