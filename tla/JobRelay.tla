------------------------------- MODULE JobRelay -------------------------------
(***************************************************************************)
(* What the handoff promises when nobody dies: one list of jobs with at    *)
(* most one owner, handed from hand to hand as it is.  A job is finished   *)
(* or skipped once, by the owner of the list, and stays so.                *)
(***************************************************************************)
CONSTANTS Jobs

VARIABLES owner, list       \* "app", "daemon" or "nobody"; the jobs

Init == owner = "nobody" /\ list = [j \in Jobs |-> "absent"]

Add(j) ==
    /\ owner = "app" /\ list[j] = "absent"
    /\ list' = [list EXCEPT ![j] = "pending"]
    /\ UNCHANGED owner
Finish(j) ==
    /\ owner # "nobody" /\ list[j] = "pending"
    /\ list' = [list EXCEPT ![j] = "finished"]
    /\ UNCHANGED owner
SkipRest ==
    /\ owner = "daemon"
    /\ list' = [j \in Jobs |-> IF list[j] = "pending" THEN "skipped" ELSE list[j]]
    /\ UNCHANGED owner

\* Between app and daemon the list may lie on the disk for a while.
PassOn == owner' \in {"app", "daemon", "nobody"} /\ owner' # owner /\ UNCHANGED list

\* The application quits for good.
Drop == owner = "app" /\ owner' = "nobody" /\ list' = [j \in Jobs |-> "absent"]

Next == (\E j \in Jobs : Add(j) \/ Finish(j)) \/ SkipRest \/ PassOn \/ Drop

Spec == Init /\ [][Next]_<<owner, list>>
=============================================================================
