----------------------------- MODULE MappingStore -----------------------------
(* What systems.h promises of the user's mappings: a store whose content is  *)
(* read at the start, and whose edits change what is in effect and what is   *)
(* saved in one step or not at all.                                          *)
VARIABLES
    up,         \* the program runs
    effective,  \* the mappings in effect, functions on suffixes and folders
    saved       \* the mappings the next start will read, if it knows them all
storeVars == <<up, effective, saved>>

None == [x \in {} |-> x]
NoMappings == [tags |-> None, folders |-> None]

(* A start may leave out what it cannot use, and makes nothing up. *)
Within(some, all) ==
    /\ DOMAIN some.tags \subseteq DOMAIN all.tags
    /\ \A t \in DOMAIN some.tags : some.tags[t] = all.tags[t]
    /\ DOMAIN some.folders \subseteq DOMAIN all.folders

StoreInit == ~up /\ effective = NoMappings

StoreStart ==
    /\ ~up /\ up'
    /\ Within(effective', saved)
    /\ UNCHANGED saved

StoreEdit ==
    /\ up /\ up'
    /\ effective' # effective
    /\ saved' = effective'

(* An edit that changes nothing in effect still drops what was left out. *)
StoreRewrite ==
    /\ up /\ up'
    /\ UNCHANGED effective
    /\ saved' = effective

StoreEnd ==
    /\ up /\ ~up'
    /\ effective' = NoMappings
    /\ UNCHANGED saved

StoreOutside == ~up /\ UNCHANGED <<up, effective>>

StoreNext == StoreStart \/ StoreEdit \/ StoreRewrite \/ StoreEnd \/ StoreOutside
StoreSpec == StoreInit /\ [][StoreNext]_storeVars
=============================================================================
