------------------------------- MODULE JobBoard -------------------------------
(***************************************************************************)
(* What the download queue promises its users, without threads, indices or *)
(* flags: a board of jobs.  A job is posted once per key, taken by one     *)
(* worker at a time, and settled once, by the worker that holds it.  The   *)
(* board as a whole is reset, cancelled, wiped or closed only while nobody *)
(* holds a job.                                                            *)
(***************************************************************************)
EXTENDS Naturals

CONSTANTS Keys, Results     \* what a job is about; how it can end

VARIABLES
    board,      \* a function from the ids of the posted jobs to [key, state]
    held        \* the ids of the jobs a worker holds

States == {"queued", "running"} \union Results
Settled(n) == board[n].state \in Results

Init == board = [n \in {} |-> [key |-> {}, state |-> "queued"]] /\ held = {}

Post(n, key) ==
    /\ n \notin DOMAIN board
    /\ \A m \in DOMAIN board : board[m].key = key => Settled(m)
    /\ board' = [m \in DOMAIN board \union {n} |->
                    IF m = n THEN [key |-> key, state |-> "queued"] ELSE board[m]]
    /\ UNCHANGED held

Take(n) ==
    /\ board[n].state = "queued" /\ n \notin held
    /\ board' = [board EXCEPT ![n].state = "running"]
    /\ held' = held \union {n}

Settle(n, result) ==
    /\ n \in held
    /\ board' = [board EXCEPT ![n].state = result]
    /\ held' = held \ {n}

\* An interrupted worker lets go of its job, which stays unsettled.
Abandon(n) == n \in held /\ held' = held \ {n} /\ UNCHANGED board

\* A job nobody holds can be refused before any work.
Refuse(n) ==
    /\ board[n].state = "queued" /\ n \notin held
    /\ board' = [board EXCEPT ![n].state = "error"]
    /\ UNCHANGED held

Reset(state) ==
    /\ held = {}
    /\ board' = [n \in DOMAIN board |->
                    IF Settled(n) THEN board[n] ELSE [board[n] EXCEPT !.state = state]]
    /\ UNCHANGED held
Requeue   == Reset("queued")
CancelAll == Reset("skipped")

Wipe ==
    /\ held = {} /\ \A n \in DOMAIN board : Settled(n)
    /\ DOMAIN board' = {} /\ UNCHANGED held

\* The process ends; what is unsettled was handed over or cancelled before.
Close == held = {} /\ DOMAIN board' = {} /\ UNCHANGED held

\* A process starts from a saved board: nothing on it is being worked on.
Load ==
    /\ DOMAIN board = {} /\ held = {}
    /\ \A n \in DOMAIN board' : board'[n].state # "running"
    /\ \A m, n \in DOMAIN board' :
          /\ board'[m].state = "queued" /\ board'[n].state = "queued"
          /\ board'[m].key = board'[n].key
          => m = n
    /\ UNCHANGED held

Next ==
    \/ \E n \in DOMAIN board' \ DOMAIN board : \E key \in Keys : Post(n, key)
    \/ \E n \in DOMAIN board :
          Take(n) \/ Abandon(n) \/ Refuse(n) \/ \E r \in Results : Settle(n, r)
    \/ Requeue \/ CancelAll \/ Wipe \/ Close \/ Load

Spec == Init /\ [][Next]_<<board, held>>
=============================================================================
