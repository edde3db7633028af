--------------------------- MODULE CheatRepoProofs ---------------------------
(***************************************************************************)
(* Safety of the cheat database for any directories, any size of the cache *)
(* and any of the faults.  The argument: a repository is believed ready    *)
(* only after this process has had the lock for a clone or an update, so   *)
(* the command of a dead process has ended by then, or after it could not  *)
(* ask for the lock, and that is in lapses; every later command is the     *)
(* cheat thread's own, and the thread waits for it.                        *)
(***************************************************************************)
EXTENDS CheatRepo, TLAPS, FiniteSetTheorems

UsePcs == {"checkout", "build", "listed", "match"}

\* What the running command may be when it is the thread's, and when it is not.
CommandInv ==
    /\ Waiting => /\ cmd.name # "none"
                  /\ cmd.name # "add" => ~ready
                  /\ cmd.name = "add" => ready
    /\ cmd.name # "none" /\ ~Waiting => ui.pc = "off" \/ cmd.name \in lapses
    /\ cmd.name # "none" /\ ~Waiting /\ "no_lock" \notin lapses =>
          ~ready /\ thread.pc \notin {"merge"} \union UsePcs
\* What the cheat thread knows of the memory it shares with the main thread.
MemoryInv ==
    /\ cached # {} => ready
    /\ ui.pc = "off" => ~ready /\ thread.pc = "none"
    /\ thread.pc \in {"open", "clone", "fetch", "merge"} => ~ready
    /\ thread.pc \in UsePcs => ready
    /\ thread.pc \in {"listed", "match"} => thread.dir \in cached
\* The main thread deletes and drops only while the queue has no work.
ClearInv == ui.pc \in {"clearing", "invalidate", "drop"} => QueueIsIdle

Inv == TypeOK /\ CommandInv /\ MemoryInv /\ ClearInv

(* Needed for RepoIsThere alone: what has been seen of the repository is   *)
(* still true, but for a dead process's clone and a clear that failed.     *)
ThereInv ==
    lapses \intersect {"clone", "clear_failed"} = {} =>
        /\ RepoIsThere
        /\ Waiting /\ cmd.name \in {"fetch", "merge"} => HasGit
        /\ thread.pc \in {"fetch", "merge"} => HasGit
        /\ Waiting /\ cmd.name = "clone" /\ cmd.state = "ok" => HasGit

-----------------------------------------------------------------------------
(* Nothing is there at first, and nothing is believed.                     *)
LEMMA InitInv == Init => Inv
<1> SUFFICES ASSUME Init PROVE Inv
  OBVIOUS
<1>1. CacheFits
  BY CacheAssumption, FS_EmptySet DEF Init, CacheFits
<1>2. TypeOK
  BY <1>1 DEF Init, TypeOK, Commands, ThreadStates, NoThread, Ready
<1>3. CommandInv /\ MemoryInv /\ ClearInv
  BY DEF Init, CommandInv, MemoryInv, ClearInv, UsePcs, Waiting, NoCmd, NoThread, Ready
<1> QED
  BY <1>2, <1>3 DEF Inv

(* Whatever a git command returned, the thread goes on with its item or    *)
(* puts it back.                                                           *)
LEMMA AfterTypes ==
    ASSUME TypeOK, thread.dir \in Dirs, NEW name, NEW ret, After(name, ret)
    PROVE  ready' \in BOOLEAN /\ pending' \subseteq Dirs /\ thread' \in ThreadStates
<1>1. ASSUME GiveUp
      PROVE  pending' \subseteq Dirs /\ thread' \in ThreadStates
  BY <1>1 DEF GiveUp, TypeOK, ThreadStates
<1>2. ASSUME NEW pc \in {"checkout", "merge", "build"}, Goto(pc)
      PROVE  thread' \in ThreadStates
  BY <1>2 DEF Goto, TypeOK, ThreadStates, NoThread
<1>3. ready \in BOOLEAN /\ pending \subseteq Dirs
  BY DEF TypeOK
<1>4. CASE AfterClone(ret)
  BY <1>1, <1>2, <1>3, <1>4 DEF AfterClone
<1>5. CASE AfterUpdate(ret)
  BY <1>1, <1>2, <1>3, <1>5 DEF AfterUpdate
<1>6. CASE AfterFetch(ret)
  BY <1>2, <1>3, <1>5, <1>6 DEF AfterFetch
<1>7. CASE AfterAdd(ret)
  BY <1>1, <1>2, <1>3, <1>7 DEF AfterAdd
<1> QED
  BY <1>4, <1>5, <1>6, <1>7 DEF After

(* Starting a command: it has the lock and runs, or it is as if it had     *)
(* returned already.                                                       *)
LEMMA RunCases ==
    ASSUME NEW name, RunGit(name)
    PROVE  \/ /\ LockIsFree
              /\ cmd' = [name |-> name, dir |-> thread.dir, state |-> "runs"]
              /\ Goto("git") /\ UNCHANGED <<ready, pending, lapses>>
           \/ /\ UNCHANGED cmd
              /\ \/ After(name, "busy") /\ UNCHANGED lapses
                 \/ /\ After(name, "failed")
                    /\ \/ UNCHANGED lapses /\ (LockIsFree \/ name = "clone")
                       \/ lapses' = lapses \union {"no_lock"}
BY DEF RunGit

(* The cases keep the types.                                               *)
LEMMA RunTypes ==
    ASSUME TypeOK, thread.dir \in Dirs, NEW name \in GitNames, RunGit(name)
    PROVE  /\ cmd' \in Commands
           /\ ready' \in BOOLEAN /\ pending' \subseteq Dirs /\ thread' \in ThreadStates
           /\ lapses' \subseteq GitNames \union {"no_lock", "clear_failed"}
<1>1. CASE UNCHANGED cmd /\ (After(name, "busy") \/ After(name, "failed"))
           /\ lapses' \in {lapses, lapses \union {"no_lock"}}
  <2>1. ready' \in BOOLEAN /\ pending' \subseteq Dirs /\ thread' \in ThreadStates
    BY <1>1, AfterTypes
  <2> QED
    BY <1>1, <2>1 DEF TypeOK
<1>2. CASE /\ cmd' = [name |-> name, dir |-> thread.dir, state |-> "runs"]
           /\ Goto("git") /\ UNCHANGED <<ready, pending, lapses>>
  BY <1>2 DEF TypeOK, Commands, ThreadStates, NoThread, Goto
<1> QED
  BY <1>1, <1>2, RunCases

(* What git leaves on the card.                                            *)
LEMMA OutcomeTypes ==
    ASSUME TypeOK, Running, NEW ret, Outcome(ret)
    PROVE  git' \in {"none", "partial", "ok"}
           /\ files' \in [Dirs -> {"absent", "partial", "full"}]
BY DEF TypeOK, Commands, Outcome, Running, HasGit, disk, NoCmd

(* Types, action by action; the bound of the cache needs the list builder. *)
LEMMA TypeStep ==
    ASSUME TypeOK, CommandInv, [Next]_vars
    PROVE  TypeOK'
<1> USE DEF TypeOK, Commands, GiveUp, Goto, NoCmd, NoThread, Ready, Off,
        disk, memory, proc
<1>1. CASE StartThread
  BY <1>1 DEF StartThread, ThreadStates, CacheFits
<1>2. CASE FindCheat
  BY <1>2 DEF FindCheat, ThreadStates, CacheFits
<1>3. CASE SkipCheat
  BY <1>3 DEF SkipCheat, ThreadStates, CacheFits
<1>4. CASE EnsureCheatList
  BY <1>4 DEF EnsureCheatList, ThreadStates, CacheFits
<1>5. CASE OpenRepo
  BY <1>5 DEF OpenRepo, ThreadStates, CacheFits
<1>6. CASE UpdateRepo
  <2>1. thread.dir \in Dirs /\ thread.pc \in GitNames \union {"merge"}
    BY <1>6 DEF UpdateRepo, ThreadStates, GitNames
  <2>2. /\ cmd' \in Commands
        /\ ready' \in BOOLEAN /\ pending' \subseteq Dirs /\ thread' \in ThreadStates
        /\ lapses' \subseteq GitNames \union {"no_lock", "clear_failed"}
    BY <1>6, <2>1, RunTypes DEF UpdateRepo, GitNames
  <2> QED
    BY <1>6, <2>2 DEF UpdateRepo, CacheFits
<1>7. CASE EnsureCheckedOut
  <2>1. thread.dir \in Dirs
    BY <1>7 DEF EnsureCheckedOut, ThreadStates
  <2>2. CASE RunGit("add")
    <3>1. /\ cmd' \in Commands
          /\ ready' \in BOOLEAN /\ pending' \subseteq Dirs /\ thread' \in ThreadStates
          /\ lapses' \subseteq GitNames \union {"no_lock", "clear_failed"}
      BY <2>1, <2>2, RunTypes DEF GitNames
    <3> QED
      BY <1>7, <3>1 DEF EnsureCheckedOut, CacheFits
  <2>3. CASE Goto("build") /\ UNCHANGED <<cmd, ready, pending, lapses>>
    BY <1>7, <2>1, <2>3 DEF EnsureCheckedOut, ThreadStates, CacheFits
  <2> QED
    BY <1>7, <2>2, <2>3 DEF EnsureCheckedOut
<1>8. CASE BuildCheatList
  <2>1. thread.dir \in Dirs
    BY <1>8 DEF BuildCheatList, ThreadStates
  <2>2. IsFiniteSet(cached)
    BY DirsAssumption, FS_Subset DEF CacheFits
  <2>3. CacheFits'
    <3>1. CASE UNCHANGED cached
      BY <3>1 DEF CacheFits
    <3>2. CASE CacheHasRoom /\ cached' = cached \union {thread.dir}
      <4>1. Cardinality(cached) \in Nat
        BY <2>2, FS_CardinalityType
      <4>2. Cardinality(cached \union {thread.dir}) =
               IF thread.dir \in cached THEN Cardinality(cached) ELSE Cardinality(cached) + 1
        BY <2>2, FS_AddElement
      <4>3. Cardinality(cached \union {thread.dir}) <= MaxCache
        BY <3>2, <4>1, <4>2, CacheAssumption DEF CacheHasRoom
      <4> QED
        BY <2>1, <3>2, <4>3 DEF CacheFits
    <3> QED
      BY <1>8, <3>1, <3>2 DEF BuildCheatList
  <2> QED
    BY <1>8, <2>1, <2>3 DEF BuildCheatList, ThreadStates
<1>9. CASE UseCheatList
  BY <1>9 DEF UseCheatList, ThreadStates, CacheFits
<1>10. CASE MatchAndCopy
  BY <1>10 DEF MatchAndCopy, ThreadStates, CacheFits
<1>11. CASE KillGit
  BY <1>11 DEF KillGit, CommandInv, CacheFits
<1>12. CASE BeginClear
  BY <1>12 DEF BeginClear, CacheFits
<1>13. CASE ClearRemoves
  BY <1>13 DEF ClearRemoves, HasGit, CacheFits
<1>14. CASE ClearEnds
  BY <1>14 DEF ClearEnds, CacheFits
<1>15. CASE ClearFails
  BY <1>15 DEF ClearFails, CacheFits
<1>16. CASE CheckInvalidate
  BY <1>16 DEF CheckInvalidate, CacheFits
<1>17. CASE Invalidate
  <2>1. CacheFits'
    BY <1>17, CacheAssumption, FS_EmptySet DEF Invalidate, DropState, ClearState, CacheFits
  <2> QED
    BY <1>17, <2>1 DEF Invalidate, DropState, ClearState
<1>18. CASE EndStop
  <2>1. CacheFits'
    <3>1. cached' = cached \/ cached' = {}
      BY <1>18 DEF EndStop, DropState, ClearState
    <3>2. CASE cached' = cached
      BY <3>2 DEF CacheFits
    <3>3. CASE cached' = {}
      BY <3>3, CacheAssumption, FS_EmptySet DEF CacheFits
    <3> QED
      BY <3>1, <3>2, <3>3
  <2>2. ready' \in BOOLEAN /\ lapses' \subseteq lapses
    BY <1>18 DEF EndStop, DropState, ClearState
  <2>3. UNCHANGED <<git, files, cmd, thread>> /\ pending' = {} /\ ui' \in {Ready, Off}
    BY <1>18 DEF EndStop
  <2> QED
    BY <2>1, <2>2, <2>3
<1>19. CASE GitWorks
  BY <1>19 DEF GitWorks, Running, HasGit, CacheFits
<1>20. CASE GitExits
  <2>1. PICK ret \in {"ok", "failed"} : Outcome(ret) /\ cmd' = [cmd EXCEPT !.state = ret]
    BY <1>20 DEF GitExits
  <2>2. /\ git' \in {"none", "partial", "ok"}
        /\ files' \in [Dirs -> {"absent", "partial", "full"}]
    BY <1>20, <2>1, OutcomeTypes DEF GitExits
  <2>3. cmd' \in Commands
    BY <1>20, <2>1 DEF GitExits, Running
  <2> QED
    BY <1>20, <2>2, <2>3 DEF GitExits, CacheFits
<1>21. CASE GitReturns
  <2>1. thread.dir \in Dirs
    BY <1>21 DEF GitReturns, Waiting, ThreadStates
  <2>2. ready' \in BOOLEAN /\ pending' \subseteq Dirs /\ thread' \in ThreadStates
    BY <1>21, <2>1, AfterTypes DEF GitReturns
  <2> QED
    BY <1>21, <2>2 DEF GitReturns, CacheFits
<1>22. CASE OrphanEnds
  BY <1>22 DEF OrphanEnds, CacheFits
<1>23. CASE \E d \in Dirs : AddCheat(d)
  BY <1>23 DEF AddCheat, CacheFits
<1>24. CASE \E op \in {"cancel", "mapping", "quit"} : BeginStop(op)
  BY <1>24 DEF BeginStop, CacheFits
<1>25. CASE Crash
  <2>1. CacheFits'
    BY <1>25, CacheAssumption, FS_EmptySet DEF Crash, ClearState, CacheFits
  <2> QED
    BY <1>25, <2>1 DEF Crash, ClearState, ThreadStates
<1>26. CASE Start
  BY <1>26 DEF Start, CacheFits
<1>27. CASE UNCHANGED vars
  BY <1>27 DEF vars, CacheFits
<1> QED
  BY <1>1, <1>2, <1>3, <1>4, <1>5, <1>6, <1>7, <1>8, <1>9, <1>10, <1>11,
        <1>12, <1>13, <1>14, <1>15, <1>16, <1>17, <1>18, <1>19, <1>20,
        <1>21, <1>22, <1>23, <1>24, <1>25, <1>26, <1>27
     DEF Next, ThreadStep, UiStep

(* ensure_system_checked_out has nothing to do, starts its command, or     *)
(* fails, and then nobody but the thread notices.                          *)
LEMMA CheckOutCases ==
    ASSUME EnsureCheckedOut
    PROVE  \/ Goto("build") /\ UNCHANGED <<cmd, ready, pending, lapses>>
           \/ /\ LockIsFree
              /\ cmd' = [name |-> "add", dir |-> thread.dir, state |-> "runs"]
              /\ Goto("git") /\ UNCHANGED <<ready, pending, lapses>>
           \/ /\ GiveUp /\ UNCHANGED <<cmd, ready>>
              /\ lapses' \in {lapses, lapses \union {"no_lock"}}
<1>1. CASE RunGit("add")
  <2>1. ASSUME NEW ret \in {"busy", "failed"}, After("add", ret)
        PROVE  GiveUp /\ UNCHANGED ready
    BY <2>1 DEF After, AfterAdd
  <2> QED
    BY <1>1, <2>1, RunCases
<1>2. CASE Goto("build") /\ UNCHANGED <<cmd, ready, pending, lapses>>
  BY <1>2
<1> QED
  BY <1>1, <1>2 DEF EnsureCheckedOut

(* The same for the clone and the two commands of an update.  An update    *)
(* that fails lets the thread go on; it had the lock, or lapses say not.   *)
LEMMA UpdateCases ==
    ASSUME UpdateRepo
    PROVE  /\ thread.pc \in {"clone", "fetch", "merge"}
           /\ \/ /\ LockIsFree
                 /\ cmd' = [name |-> thread.pc, dir |-> thread.dir, state |-> "runs"]
                 /\ Goto("git") /\ UNCHANGED <<ready, pending, lapses>>
              \/ /\ GiveUp /\ UNCHANGED <<cmd, ready>>
                 /\ lapses' \in {lapses, lapses \union {"no_lock"}}
              \/ /\ thread.pc # "clone" /\ Goto("checkout") /\ ready' = TRUE
                 /\ UNCHANGED <<cmd, pending>>
                 /\ \/ UNCHANGED lapses /\ LockIsFree
                    \/ lapses' = lapses \union {"no_lock"}
<1>1. thread.pc \in {"clone", "fetch", "merge"} /\ RunGit(thread.pc)
  BY DEF UpdateRepo
<1>2. ASSUME After(thread.pc, "busy")
      PROVE  GiveUp /\ UNCHANGED ready
  BY <1>1, <1>2 DEF After, AfterClone, AfterFetch, AfterUpdate
<1>3. ASSUME After(thread.pc, "failed")
      PROVE  \/ thread.pc = "clone" /\ GiveUp /\ UNCHANGED ready
             \/ /\ thread.pc # "clone" /\ Goto("checkout") /\ ready' = TRUE
                /\ UNCHANGED pending
  BY <1>1, <1>3 DEF After, AfterClone, AfterFetch, AfterUpdate
<1> QED
  BY <1>1, <1>2, <1>3, RunCases

(* A command that is not the thread's is a dead process's, and keeps this   *)
(* process from believing in the repository as long as it asks for the     *)
(* lock.                                                                   *)
LEMMA CommandStep ==
    ASSUME Inv, [Next]_vars
    PROVE  CommandInv'
<1> USE DirsAssumption DEF GiveUp, Goto, Interrupt, LockIsFree, Waiting,
        HasGit, QueueIsIdle, NoCmd, NoThread, Ready, Off, disk, memory, proc,
        Inv, TypeOK, Commands, GitNames, ThreadStates, CommandInv, MemoryInv,
        ClearInv, UsePcs
<1>1. CASE StartThread
  BY <1>1 DEF StartThread
<1>2. CASE FindCheat
  BY <1>2 DEF FindCheat
<1>3. CASE SkipCheat
  BY <1>3 DEF SkipCheat
<1>4. CASE EnsureCheatList
  BY <1>4 DEF EnsureCheatList
<1>5. CASE OpenRepo
  BY <1>5 DEF OpenRepo
<1>6. CASE UpdateRepo
  <2> USE <1>6 DEF UpdateRepo
  <2>1. CASE /\ LockIsFree
             /\ cmd' = [name |-> thread.pc, dir |-> thread.dir, state |-> "runs"]
             /\ Goto("git") /\ UNCHANGED <<ready, pending, lapses>>
    BY <2>1
  <2>2. CASE /\ GiveUp /\ UNCHANGED <<cmd, ready>>
             /\ lapses' \in {lapses, lapses \union {"no_lock"}}
    BY <2>2
  <2>3. CASE /\ thread.pc # "clone" /\ Goto("checkout") /\ ready' = TRUE
             /\ UNCHANGED <<cmd, pending>>
             /\ \/ UNCHANGED lapses /\ LockIsFree
                \/ lapses' = lapses \union {"no_lock"}
    BY <2>3
  <2> QED
    BY <2>1, <2>2, <2>3, UpdateCases
<1>7. CASE EnsureCheckedOut
  <2> USE <1>7 DEF EnsureCheckedOut
  <2>1. CASE Goto("build") /\ UNCHANGED <<cmd, ready, pending, lapses>>
    BY <2>1
  <2>2. CASE /\ LockIsFree
             /\ cmd' = [name |-> "add", dir |-> thread.dir, state |-> "runs"]
             /\ Goto("git") /\ UNCHANGED <<ready, pending, lapses>>
    BY <2>2
  <2>3. CASE /\ GiveUp /\ UNCHANGED <<cmd, ready>>
             /\ lapses' \in {lapses, lapses \union {"no_lock"}}
    BY <2>3
  <2> QED
    BY <2>1, <2>2, <2>3, CheckOutCases
<1>8. CASE BuildCheatList
  BY <1>8 DEF BuildCheatList, CacheHasRoom
<1>9. CASE UseCheatList
  BY <1>9 DEF UseCheatList
<1>10. CASE MatchAndCopy
  BY <1>10 DEF MatchAndCopy
<1>11. CASE KillGit
  BY <1>11 DEF KillGit, Killable
<1>12. CASE BeginClear
  BY <1>12 DEF BeginClear
<1>13. CASE ClearRemoves
  BY <1>13 DEF ClearRemoves
<1>14. CASE ClearEnds
  BY <1>14 DEF ClearEnds
<1>15. CASE ClearFails
  BY <1>15 DEF ClearFails
<1>16. CASE CheckInvalidate
  BY <1>16 DEF CheckInvalidate
<1>17. CASE Invalidate
  BY <1>17 DEF Invalidate, DropState, ClearState, StateMutexIsFree
<1>18. CASE EndStop
  BY <1>18 DEF EndStop, DropState, ClearState, Joined
<1>19. CASE GitWorks
  BY <1>19 DEF GitWorks, Running
<1>20. CASE GitExits
  BY <1>20 DEF GitExits, Outcome, Running
<1>21. CASE GitReturns
  BY <1>21 DEF GitReturns, Running, After, AfterClone, AfterFetch,
        AfterUpdate, AfterAdd
<1>22. CASE OrphanEnds
  BY <1>22 DEF OrphanEnds
<1>23. CASE \E d \in Dirs : AddCheat(d)
  BY <1>23 DEF AddCheat
<1>24. CASE \E op \in {"cancel", "mapping", "quit"} : BeginStop(op)
  BY <1>24 DEF BeginStop
<1>25. CASE Crash
  BY <1>25 DEF Crash, ClearState
<1>26. CASE Start
  BY <1>26 DEF Start
<1>27. CASE UNCHANGED vars
  BY <1>27 DEF vars
<1> QED
  BY <1>1, <1>2, <1>3, <1>4, <1>5, <1>6, <1>7, <1>8, <1>9, <1>10, <1>11,
        <1>12, <1>13, <1>14, <1>15, <1>16, <1>17, <1>18, <1>19, <1>20,
        <1>21, <1>22, <1>23, <1>24, <1>25, <1>26, <1>27
     DEF Next, ThreadStep, UiStep

(* Lists exist only of a ready repository, and the thread's own list stays. *)
LEMMA MemoryStep ==
    ASSUME Inv, [Next]_vars
    PROVE  MemoryInv'
<1> USE DirsAssumption DEF GiveUp, Goto, Interrupt, LockIsFree, Waiting,
        HasGit, QueueIsIdle, NoCmd, NoThread, Ready, Off, disk, memory, proc,
        Inv, TypeOK, Commands, GitNames, ThreadStates, CommandInv, MemoryInv,
        ClearInv, UsePcs
<1>1. CASE StartThread
  BY <1>1 DEF StartThread
<1>2. CASE FindCheat
  BY <1>2 DEF FindCheat
<1>3. CASE SkipCheat
  BY <1>3 DEF SkipCheat
<1>4. CASE EnsureCheatList
  BY <1>4 DEF EnsureCheatList
<1>5. CASE OpenRepo
  BY <1>5 DEF OpenRepo
<1>6. CASE UpdateRepo
  <2> USE <1>6 DEF UpdateRepo
  <2>1. CASE /\ LockIsFree
             /\ cmd' = [name |-> thread.pc, dir |-> thread.dir, state |-> "runs"]
             /\ Goto("git") /\ UNCHANGED <<ready, pending, lapses>>
    BY <2>1
  <2>2. CASE /\ GiveUp /\ UNCHANGED <<cmd, ready>>
             /\ lapses' \in {lapses, lapses \union {"no_lock"}}
    BY <2>2
  <2>3. CASE /\ thread.pc # "clone" /\ Goto("checkout") /\ ready' = TRUE
             /\ UNCHANGED <<cmd, pending>>
             /\ \/ UNCHANGED lapses /\ LockIsFree
                \/ lapses' = lapses \union {"no_lock"}
    BY <2>3
  <2> QED
    BY <2>1, <2>2, <2>3, UpdateCases
<1>7. CASE EnsureCheckedOut
  <2> USE <1>7 DEF EnsureCheckedOut
  <2>1. CASE Goto("build") /\ UNCHANGED <<cmd, ready, pending, lapses>>
    BY <2>1
  <2>2. CASE /\ LockIsFree
             /\ cmd' = [name |-> "add", dir |-> thread.dir, state |-> "runs"]
             /\ Goto("git") /\ UNCHANGED <<ready, pending, lapses>>
    BY <2>2
  <2>3. CASE /\ GiveUp /\ UNCHANGED <<cmd, ready>>
             /\ lapses' \in {lapses, lapses \union {"no_lock"}}
    BY <2>3
  <2> QED
    BY <2>1, <2>2, <2>3, CheckOutCases
<1>8. CASE BuildCheatList
  BY <1>8 DEF BuildCheatList, CacheHasRoom
<1>9. CASE UseCheatList
  BY <1>9 DEF UseCheatList
<1>10. CASE MatchAndCopy
  BY <1>10 DEF MatchAndCopy
<1>11. CASE KillGit
  BY <1>11 DEF KillGit, Killable
<1>12. CASE BeginClear
  BY <1>12 DEF BeginClear
<1>13. CASE ClearRemoves
  BY <1>13 DEF ClearRemoves
<1>14. CASE ClearEnds
  BY <1>14 DEF ClearEnds
<1>15. CASE ClearFails
  BY <1>15 DEF ClearFails
<1>16. CASE CheckInvalidate
  BY <1>16 DEF CheckInvalidate
<1>17. CASE Invalidate
  BY <1>17 DEF Invalidate, DropState, ClearState, StateMutexIsFree
<1>18. CASE EndStop
  BY <1>18 DEF EndStop, DropState, ClearState, Joined
<1>19. CASE GitWorks
  BY <1>19 DEF GitWorks, Running
<1>20. CASE GitExits
  BY <1>20 DEF GitExits, Outcome, Running
<1>21. CASE GitReturns
  BY <1>21 DEF GitReturns, Running, After, AfterClone, AfterFetch,
        AfterUpdate, AfterAdd
<1>22. CASE OrphanEnds
  BY <1>22 DEF OrphanEnds
<1>23. CASE \E d \in Dirs : AddCheat(d)
  BY <1>23 DEF AddCheat
<1>24. CASE \E op \in {"cancel", "mapping", "quit"} : BeginStop(op)
  BY <1>24 DEF BeginStop
<1>25. CASE Crash
  BY <1>25 DEF Crash, ClearState
<1>26. CASE Start
  BY <1>26 DEF Start
<1>27. CASE UNCHANGED vars
  BY <1>27 DEF vars
<1> QED
  BY <1>1, <1>2, <1>3, <1>4, <1>5, <1>6, <1>7, <1>8, <1>9, <1>10, <1>11,
        <1>12, <1>13, <1>14, <1>15, <1>16, <1>17, <1>18, <1>19, <1>20,
        <1>21, <1>22, <1>23, <1>24, <1>25, <1>26, <1>27
     DEF Next, ThreadStep, UiStep

(* No work arrives while the main thread clears: it is the one that adds.   *)
LEMMA ClearStep ==
    ASSUME Inv, [Next]_vars
    PROVE  ClearInv'
<1> USE DirsAssumption DEF GiveUp, Goto, Interrupt, LockIsFree, Waiting,
        HasGit, QueueIsIdle, NoCmd, NoThread, Ready, Off, disk, memory, proc,
        Inv, TypeOK, Commands, GitNames, ThreadStates, CommandInv, MemoryInv,
        ClearInv, UsePcs
<1>1. CASE StartThread
  BY <1>1 DEF StartThread
<1>2. CASE FindCheat
  BY <1>2 DEF FindCheat
<1>3. CASE SkipCheat
  BY <1>3 DEF SkipCheat
<1>4. CASE EnsureCheatList
  BY <1>4 DEF EnsureCheatList
<1>5. CASE OpenRepo
  BY <1>5 DEF OpenRepo
<1>6. CASE UpdateRepo
  <2> USE <1>6 DEF UpdateRepo
  <2>1. CASE /\ LockIsFree
             /\ cmd' = [name |-> thread.pc, dir |-> thread.dir, state |-> "runs"]
             /\ Goto("git") /\ UNCHANGED <<ready, pending, lapses>>
    BY <2>1
  <2>2. CASE /\ GiveUp /\ UNCHANGED <<cmd, ready>>
             /\ lapses' \in {lapses, lapses \union {"no_lock"}}
    BY <2>2
  <2>3. CASE /\ thread.pc # "clone" /\ Goto("checkout") /\ ready' = TRUE
             /\ UNCHANGED <<cmd, pending>>
             /\ \/ UNCHANGED lapses /\ LockIsFree
                \/ lapses' = lapses \union {"no_lock"}
    BY <2>3
  <2> QED
    BY <2>1, <2>2, <2>3, UpdateCases
<1>7. CASE EnsureCheckedOut
  <2> USE <1>7 DEF EnsureCheckedOut
  <2>1. CASE Goto("build") /\ UNCHANGED <<cmd, ready, pending, lapses>>
    BY <2>1
  <2>2. CASE /\ LockIsFree
             /\ cmd' = [name |-> "add", dir |-> thread.dir, state |-> "runs"]
             /\ Goto("git") /\ UNCHANGED <<ready, pending, lapses>>
    BY <2>2
  <2>3. CASE /\ GiveUp /\ UNCHANGED <<cmd, ready>>
             /\ lapses' \in {lapses, lapses \union {"no_lock"}}
    BY <2>3
  <2> QED
    BY <2>1, <2>2, <2>3, CheckOutCases
<1>8. CASE BuildCheatList
  BY <1>8 DEF BuildCheatList, CacheHasRoom
<1>9. CASE UseCheatList
  BY <1>9 DEF UseCheatList
<1>10. CASE MatchAndCopy
  BY <1>10 DEF MatchAndCopy
<1>11. CASE KillGit
  BY <1>11 DEF KillGit, Killable
<1>12. CASE BeginClear
  BY <1>12 DEF BeginClear
<1>13. CASE ClearRemoves
  BY <1>13 DEF ClearRemoves
<1>14. CASE ClearEnds
  BY <1>14 DEF ClearEnds
<1>15. CASE ClearFails
  BY <1>15 DEF ClearFails
<1>16. CASE CheckInvalidate
  BY <1>16 DEF CheckInvalidate
<1>17. CASE Invalidate
  BY <1>17 DEF Invalidate, DropState, ClearState, StateMutexIsFree
<1>18. CASE EndStop
  BY <1>18 DEF EndStop, DropState, ClearState, Joined
<1>19. CASE GitWorks
  BY <1>19 DEF GitWorks, Running
<1>20. CASE GitExits
  BY <1>20 DEF GitExits, Outcome, Running
<1>21. CASE GitReturns
  BY <1>21 DEF GitReturns, Running, After, AfterClone, AfterFetch,
        AfterUpdate, AfterAdd
<1>22. CASE OrphanEnds
  BY <1>22 DEF OrphanEnds
<1>23. CASE \E d \in Dirs : AddCheat(d)
  BY <1>23 DEF AddCheat
<1>24. CASE \E op \in {"cancel", "mapping", "quit"} : BeginStop(op)
  BY <1>24 DEF BeginStop
<1>25. CASE Crash
  BY <1>25 DEF Crash, ClearState
<1>26. CASE Start
  BY <1>26 DEF Start
<1>27. CASE UNCHANGED vars
  BY <1>27 DEF vars
<1> QED
  BY <1>1, <1>2, <1>3, <1>4, <1>5, <1>6, <1>7, <1>8, <1>9, <1>10, <1>11,
        <1>12, <1>13, <1>14, <1>15, <1>16, <1>17, <1>18, <1>19, <1>20,
        <1>21, <1>22, <1>23, <1>24, <1>25, <1>26, <1>27
     DEF Next, ThreadStep, UiStep

(* The repository is deleted only with what memory says of it.             *)
LEMMA ThereStep ==
    ASSUME Inv, ThereInv, [Next]_vars
    PROVE  ThereInv'
<1> USE DirsAssumption DEF GiveUp, Goto, Interrupt, LockIsFree, Waiting,
        HasGit, QueueIsIdle, NoCmd, NoThread, Ready, Off, disk, memory, proc,
        Inv, TypeOK, Commands, GitNames, ThreadStates, CommandInv, MemoryInv,
        ClearInv, UsePcs, ThereInv, RepoIsThere
<1>1. CASE StartThread
  BY <1>1 DEF StartThread
<1>2. CASE FindCheat
  BY <1>2 DEF FindCheat
<1>3. CASE SkipCheat
  BY <1>3 DEF SkipCheat
<1>4. CASE EnsureCheatList
  BY <1>4 DEF EnsureCheatList
<1>5. CASE OpenRepo
  BY <1>5 DEF OpenRepo
<1>6. CASE UpdateRepo
  <2> USE <1>6 DEF UpdateRepo
  <2>1. CASE /\ LockIsFree
             /\ cmd' = [name |-> thread.pc, dir |-> thread.dir, state |-> "runs"]
             /\ Goto("git") /\ UNCHANGED <<ready, pending, lapses>>
    BY <2>1
  <2>2. CASE /\ GiveUp /\ UNCHANGED <<cmd, ready>>
             /\ lapses' \in {lapses, lapses \union {"no_lock"}}
    BY <2>2
  <2>3. CASE /\ thread.pc # "clone" /\ Goto("checkout") /\ ready' = TRUE
             /\ UNCHANGED <<cmd, pending>>
             /\ \/ UNCHANGED lapses /\ LockIsFree
                \/ lapses' = lapses \union {"no_lock"}
    BY <2>3
  <2> QED
    BY <2>1, <2>2, <2>3, UpdateCases
<1>7. CASE EnsureCheckedOut
  <2> USE <1>7 DEF EnsureCheckedOut
  <2>1. CASE Goto("build") /\ UNCHANGED <<cmd, ready, pending, lapses>>
    BY <2>1
  <2>2. CASE /\ LockIsFree
             /\ cmd' = [name |-> "add", dir |-> thread.dir, state |-> "runs"]
             /\ Goto("git") /\ UNCHANGED <<ready, pending, lapses>>
    BY <2>2
  <2>3. CASE /\ GiveUp /\ UNCHANGED <<cmd, ready>>
             /\ lapses' \in {lapses, lapses \union {"no_lock"}}
    BY <2>3
  <2> QED
    BY <2>1, <2>2, <2>3, CheckOutCases
<1>8. CASE BuildCheatList
  BY <1>8 DEF BuildCheatList, CacheHasRoom
<1>9. CASE UseCheatList
  BY <1>9 DEF UseCheatList
<1>10. CASE MatchAndCopy
  BY <1>10 DEF MatchAndCopy
<1>11. CASE KillGit
  BY <1>11 DEF KillGit, Killable
<1>12. CASE BeginClear
  BY <1>12 DEF BeginClear
<1>13. CASE ClearRemoves
  BY <1>13 DEF ClearRemoves
<1>14. CASE ClearEnds
  BY <1>14 DEF ClearEnds
<1>15. CASE ClearFails
  BY <1>15 DEF ClearFails
<1>16. CASE CheckInvalidate
  BY <1>16 DEF CheckInvalidate
<1>17. CASE Invalidate
  BY <1>17 DEF Invalidate, DropState, ClearState, StateMutexIsFree
<1>18. CASE EndStop
  BY <1>18 DEF EndStop, DropState, ClearState, Joined
<1>19. CASE GitWorks
  BY <1>19 DEF GitWorks, Running
<1>20. CASE GitExits
  BY <1>20 DEF GitExits, Outcome, Running
<1>21. CASE GitReturns
  BY <1>21 DEF GitReturns, Running, After, AfterClone, AfterFetch,
        AfterUpdate, AfterAdd
<1>22. CASE OrphanEnds
  BY <1>22 DEF OrphanEnds
<1>23. CASE \E d \in Dirs : AddCheat(d)
  BY <1>23 DEF AddCheat
<1>24. CASE \E op \in {"cancel", "mapping", "quit"} : BeginStop(op)
  BY <1>24 DEF BeginStop
<1>25. CASE Crash
  BY <1>25 DEF Crash, ClearState
<1>26. CASE Start
  BY <1>26 DEF Start
<1>27. CASE UNCHANGED vars
  BY <1>27 DEF vars
<1> QED
  BY <1>1, <1>2, <1>3, <1>4, <1>5, <1>6, <1>7, <1>8, <1>9, <1>10, <1>11,
        <1>12, <1>13, <1>14, <1>15, <1>16, <1>17, <1>18, <1>19, <1>20,
        <1>21, <1>22, <1>23, <1>24, <1>25, <1>26, <1>27
     DEF Next, ThreadStep, UiStep

-----------------------------------------------------------------------------
(* The invariant holds of every state the program reaches.                 *)
LEMMA InvInvariant == Spec => []Inv
<1>1. Init => Inv
  BY InitInv
<1>2. Inv /\ [Next]_vars => Inv'
  BY TypeStep, CommandStep, MemoryStep, ClearStep DEF Inv
<1> QED
  BY <1>1, <1>2, PTL DEF Spec

(* The variables have their types and g_cheat_cache never overflows.       *)
THEOREM CheatTypes == Spec => []TypeOK
BY InvInvariant, PTL DEF Inv

(* The main thread never frees a list the cheat thread looks at.           *)
THEOREM ListsStayAlive == Spec => []ListsAreAlive
<1>1. Inv => ListsAreAlive
  BY DEF Inv, MemoryInv, ListsAreAlive
<1> QED
  BY <1>1, InvInvariant, PTL

(* No git command and no deletion touches the checkout while the cheat     *)
(* thread reads it, whenever processes are killed; a dead process's        *)
(* command may, and only after an update that could not ask for the lock.  *)
THEOREM RepoStaysQuiet == Spec => []RepoIsQuiet
<1>1. ASSUME Inv, thread.pc \in {"build", "listed", "match"}
      PROVE  LockIsFree \/ OrphanIsUnseen
  <2>1. thread.pc \in UsePcs /\ ~Waiting
    BY <1>1 DEF UsePcs, Waiting
  <2>2. cmd.name = "none" \/ cmd.name \in GitNames
    BY <1>1 DEF Inv, TypeOK, Commands, NoCmd
  <2>3. ui.pc # "off"
    BY <1>1, <2>1 DEF Inv, MemoryInv, UsePcs
  <2>4. CASE cmd.name \in GitNames /\ cmd.name # "none"
    <3>1. cmd.name \in lapses /\ "no_lock" \in lapses
      BY <1>1, <2>1, <2>3, <2>4 DEF Inv, CommandInv
    <3> QED
      BY <2>4, <3>1 DEF OrphanIsUnseen
  <2> QED
    BY <2>2, <2>4 DEF LockIsFree
<1>2. ASSUME Inv, thread.pc \in {"build", "listed", "match"}
      PROVE  ui.pc # "clearing"
  BY <1>2, DirsAssumption
     DEF Inv, TypeOK, ThreadStates, ClearInv, QueueIsIdle, NoThread
<1>3. Inv => RepoIsQuiet
  BY <1>1, <1>2 DEF RepoIsQuiet
<1> QED
  BY <1>3, InvInvariant, PTL

(* The checkout is not updated under a list.                               *)
THEOREM UpdatesComeFirst == Spec => []UpdateBeforeLists
<1>1. Inv => UpdateBeforeLists
  BY DEF Inv, CommandInv, MemoryInv, UpdateBeforeLists
<1> QED
  BY <1>1, InvInvariant, PTL

(* A repository that memory calls ready is on the card, but for the two    *)
(* lapses: a clear that failed half way since the last one that did not,   *)
(* and the clone of a dead process that ran when this one started.         *)
THEOREM ReadyRepoIsThere == Spec => []RepoIsThere
<1>1. Init => ThereInv
  BY DEF Init, ThereInv, RepoIsThere, Waiting, NoThread, NoCmd
<1>2. Inv /\ ThereInv /\ [Next]_vars => ThereInv'
  BY ThereStep
<1>3. ThereInv => RepoIsThere
  BY DEF ThereInv, RepoIsThere
<1> QED
  BY <1>1, <1>2, <1>3, InvInvariant, PTL DEF Spec
=============================================================================
