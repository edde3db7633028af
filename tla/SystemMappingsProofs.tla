------------------------- MODULE SystemMappingsProofs -------------------------
(***************************************************************************)
(* The mappings for any catalogues, cards, suffixes, file contents and any *)
(* number of edits.  The argument: what is loaded from a saved file is what *)
(* was saved, so memory and file can only differ between the rename and the *)
(* publication; a file that was not taken over is unchanged as long as its  *)
(* backup is due; and a job keeps its platform because an edit starts with  *)
(* no job and no job is added before it ends.  What an edit saves is what  *)
(* is in effect with one entry changed: so every other entry of the file   *)
(* stays, if the key of a folder is a path that leads back to itself, and  *)
(* the edit is seen by the folders it is meant for and no other.  The rows *)
(* of the screens are lists of finite sets, put together of lists of sets  *)
(* that have nothing in common.                                            *)
(***************************************************************************)
EXTENDS MappingScreens, TLAPS, FiniteSetTheorems, SequenceTheorems, WellFoundedInduction

\* The variables that are records have their fields, and no other.
Shapes ==
    /\ mem = [up |-> mem.up, cat |-> mem.cat, overrides |-> mem.overrides,
              needBackup |-> mem.needBackup]
    /\ call = [pc |-> call.pc, scope |-> call.scope, subject |-> call.subject,
               value |-> call.value, proposed |-> call.proposed]
    /\ disk = [file |-> disk.file, rejected |-> disk.rejected, tmp |-> disk.tmp]

\* What the file holds before and after the rename.
FileInv ==
    /\ mem.up /\ call.pc # "publish" => LoadOverrides(disk.file, mem.cat) = mem.overrides
    /\ call.pc = "publish" => disk.file = ToJson(call.proposed)

\* Where a refused file is while its backup is due, and afterwards.
BackupInv ==
    /\ RefusedIsKept
    /\ mem.needBackup => disk.file = refused /\ disk.file # Absent
    /\ mem.up /\ ~mem.needBackup => refused \in {Absent, disk.rejected}
    /\ call.pc = "copy" => mem.needBackup
    /\ call.pc \in {"write", "rename", "publish"} => ~mem.needBackup

\* What a start would make of the pak and the file as they are.
Loaded == [cat |-> LoadCatalogue(pak),
           overrides |-> LoadOverrides(disk.file, LoadCatalogue(pak))]
\* No job outlives an edit; every other one has the platform of its folder.
JobsInv ==
    /\ call.pc # "none" => jobs = {}
    /\ \A j \in jobs : ~j.changed => Mapping(Loaded, j.folder).platform = j.platform

Inv == TypeOK /\ Shapes /\ FileInv /\ BackupInv

-----------------------------------------------------------------------------
(* Lemmas about the pure operators. *)

Entries(cat) == [platform : Known(cat) \cup {NoId}, hidden : BOOLEAN]

\* Overrides before compaction: entries may say nothing.
Loose(ov, cat) ==
    /\ \A t \in DOMAIN ov.tags : ov.tags[t] \in Known(cat) \cup {NoId}
    /\ \A k \in DOMAIN ov.folders : KeyIsSafe(k) /\ ov.folders[k] \in Entries(cat)

(* A key that systems_folder_key gives out is safe (systems.c:574).          *)
LEMMA KeysAreSafe ==
    ASSUME NEW path, FolderKey(path) # NoKey PROVE KeyIsSafe(FolderKey(path))
  BY DEF FolderKey

(* No overrides at all are overrides of any catalogue.                       *)
LEMMA NothingIsOK == ASSUME NEW cat PROVE OverridesOK(Nothing, cat)
  BY DEF OverridesOK, Nothing, EmptyMap, IsMap

(* ov_compact (systems.c:719) leaves entries that say something.             *)
LEMMA CompactIsOK ==
    ASSUME NEW ov, NEW cat, Loose(ov, cat) PROVE OverridesOK(Compact(ov), cat)
<1> DEFINE c == Compact(ov)
<1>1. c = [tags |-> c.tags, folders |-> c.folders]
  BY DEF Compact
<1>2. IsMap(c.tags) /\ IsMap(c.folders)
  BY DEF Compact, Only, IsMap
<1>3. ASSUME NEW t \in DOMAIN c.tags PROVE c.tags[t] \in Known(cat)
  BY <1>3 DEF Compact, Only, Loose
<1>4. ASSUME NEW k \in DOMAIN c.folders
      PROVE  KeyIsSafe(k) /\ c.folders[k] \in Entries(cat) /\ c.folders[k] # Empty
  BY <1>4 DEF Compact, Only, Loose
<1>5. OverridesOK(c, cat)
  <2> HIDE DEF c
  <2> QED
    BY <1>1, <1>2, <1>3, <1>4 DEF OverridesOK, Entries
<1> QED
  BY <1>5

(* load_overrides (systems.c:748) takes over only what the catalogue knows.  *)
LEMMA LoadIsOK ==
    ASSUME NEW file, NEW cat PROVE OverridesOK(LoadOverrides(file, cat), cat)
<1>1. CASE file.kind # "mappings"
  BY <1>1, NothingIsOK DEF LoadOverrides
<1>2. CASE file.kind = "mappings"
  <2> DEFINE l == [tags |-> LoadTags(file, cat), folders |-> LoadFolders(file, cat)]
  <2>1. IsMap(LoadTags(file, cat)) /\ IsMap(LoadFolders(file, cat))
    BY DEF LoadTags, LoadFolders, Only, IsMap, EmptyMap
  <2>2. ASSUME NEW t \in DOMAIN LoadTags(file, cat)
        PROVE  LoadTags(file, cat)[t] \in Known(cat)
    BY <2>2 DEF LoadTags, Only, EmptyMap, TagUsable
  <2>3. ASSUME NEW e PROVE EntryRead(e, cat) \in Entries(cat)
    BY DEF EntryRead, Entries, PlatformUsable
  <2>4. ASSUME NEW k \in DOMAIN LoadFolders(file, cat)
        PROVE  /\ KeyIsSafe(k)
               /\ LoadFolders(file, cat)[k] \in Entries(cat)
               /\ LoadFolders(file, cat)[k] # Empty
    BY <2>3, <2>4 DEF LoadFolders, Only, EmptyMap, KeyUsable
  <2>5. OverridesOK(l, cat)
    BY <2>1, <2>2, <2>4 DEF OverridesOK, Entries
  <2> QED
    BY <1>2, <2>5 DEF LoadOverrides
<1> QED
  BY <1>1, <1>2

(* What ov_to_json wrote, load_overrides reads back (systems.c:902, 748).    *)
LEMMA LoadReadsBack ==
    ASSUME NEW ov, NEW cat, OverridesOK(ov, cat)
    PROVE  LoadOverrides(ToJson(ov), cat) = ov
<1> DEFINE file == ToJson(ov)
<1>1. /\ file.kind = "mappings" /\ file.tagsOk /\ file.foldersOk
      /\ file.tags = ov.tags /\ DOMAIN file.folders = DOMAIN ov.folders
  BY DEF ToJson
<1>2. LoadTags(file, cat) = ov.tags
  <2>1. {t \in DOMAIN ov.tags : ov.tags[t] \in Known(cat)} = DOMAIN ov.tags
    BY DEF OverridesOK
  <2>2. LoadTags(file, cat) = Only(ov.tags, DOMAIN ov.tags)
    BY <1>1, <2>1 DEF LoadTags, TagUsable
  <2>3. Only(ov.tags, DOMAIN ov.tags) = ov.tags
    BY DEF Only, OverridesOK, IsMap
  <2> QED
    BY <2>2, <2>3
<1>3. ASSUME NEW k \in DOMAIN ov.folders
      PROVE  KeyUsable(file, k) /\ EntryRead(file.folders[k], cat) = ov.folders[k]
  <2>1. /\ file.folders[k].wellFormed
        /\ file.folders[k].platform = ov.folders[k].platform
        /\ file.folders[k].hidden = IF ov.folders[k].hidden THEN "true" ELSE "absent"
    BY <1>3 DEF ToJson
  <2>2. KeyIsSafe(k) /\ ov.folders[k] \in Entries(cat)
    BY <1>3 DEF OverridesOK, Entries
  <2>3. (file.folders[k].hidden = "true") = ov.folders[k].hidden
    BY <2>1, <2>2 DEF Entries
  <2>4. PlatformUsable(file.folders[k], cat)
    BY <2>1, <2>2 DEF PlatformUsable, Entries
  <2> QED
    BY <2>1, <2>2, <2>3, <2>4 DEF KeyUsable, EntryRead, Entries
<1>4. LoadFolders(file, cat) = ov.folders
  <2> DEFINE keys == {x \in DOMAIN file.folders : KeyUsable(file, x)}
             read == [k \in keys |-> EntryRead(file.folders[k], cat)]
             kept == {k \in DOMAIN read : read[k] # Empty}
  <2>1. keys = DOMAIN ov.folders
    BY <1>1, <1>3
  <2>2. ASSUME NEW k \in DOMAIN ov.folders
        PROVE  read[k] = ov.folders[k] /\ read[k] # Empty
    BY <2>1, <2>2, <1>3 DEF OverridesOK
  <2>3. kept = DOMAIN ov.folders
    BY <2>1, <2>2
  <2>4. Only(read, kept) = ov.folders
    BY <2>2, <2>3 DEF Only, OverridesOK, IsMap
  <2>5. LoadFolders(file, cat) = Only(read, kept)
    BY <1>1 DEF LoadFolders
  <2> QED
    BY <2>4, <2>5
<1>5. LoadOverrides(file, cat) = ov
  <2> HIDE DEF file
  <2> QED
    BY <1>1, <1>2, <1>4 DEF LoadOverrides, OverridesOK
<1> QED
  BY <1>5

-----------------------------------------------------------------------------
(* The mutations. *)

(* An entry of the overrides, or the empty one of a folder without.          *)
LEMMA EntryType ==
    ASSUME NEW ov, NEW cat, OverridesOK(ov, cat), NEW key
    PROVE  FolderEntry(ov, key) \in Entries(cat)
  BY DEF FolderEntry, Empty, OverridesOK, Entries

(* systems_set_tag changes the default of one suffix (systems.c:1212).       *)
LEMMA SetTagIsLoose ==
    ASSUME NEW ov, NEW cat, OverridesOK(ov, cat), NEW t, NEW id \in Known(cat) \cup {NoId}
    PROVE  Loose(SetTag(ov, t, id), cat)
<1> USE DEF OverridesOK, Entries
<1>1. CASE SetTag(ov, t, id) = ov
  BY <1>1 DEF Loose
<1>2. CASE SetTag(ov, t, id) = [ov EXCEPT !.tags = Put(ov.tags, t, id)]
  <2>1. /\ SetTag(ov, t, id).tags = Put(ov.tags, t, id)
        /\ SetTag(ov, t, id).folders = ov.folders
    BY <1>2
  <2>2. \A x \in DOMAIN Put(ov.tags, t, id) :
            Put(ov.tags, t, id)[x] \in Known(cat) \cup {NoId}
    BY DEF Put
  <2> QED
    BY <2>1, <2>2 DEF Loose
<1> QED
  BY <1>1, <1>2 DEF SetTag

(* set_folder changes the entry of one folder (systems.c:1262).              *)
LEMMA SetFolderIsLoose ==
    ASSUME NEW ov, NEW cat, OverridesOK(ov, cat), NEW key, KeyIsSafe(key),
           NEW entry \in Entries(cat)
    PROVE  Loose(SetFolder(ov, key, entry), cat)
<1> USE DEF OverridesOK
<1>1. /\ SetFolder(ov, key, entry).tags = ov.tags
      /\ SetFolder(ov, key, entry).folders = Put(ov.folders, key, entry)
  BY DEF SetFolder
<1>2. \A k \in DOMAIN Put(ov.folders, key, entry) :
          KeyIsSafe(k) /\ Put(ov.folders, key, entry)[k] \in Entries(cat)
  BY DEF Put, Entries
<1> QED
  BY <1>1, <1>2 DEF Loose

(* Every mutation waits for the queue, and proposes usable overrides.        *)
LEMMA EditsAreOK ==
    ASSUME TypeOK, Edit
    PROVE  /\ Idle /\ jobs = {}
           /\ OverridesOK(call'.proposed, mem.cat)
           /\ \E scope, subject, value, proposed : Commit(scope, subject, value, proposed)
           /\ call'.pc = "persist"
           /\ call' = [pc |-> call'.pc, scope |-> call'.scope, subject |-> call'.subject,
                       value |-> call'.value, proposed |-> call'.proposed]
<1> DEFINE ov == mem.overrides
<1>1. OverridesOK(ov, mem.cat)
  BY DEF TypeOK
<1>2. ASSUME NEW scope, NEW subject, NEW value, NEW proposed, Loose(proposed, mem.cat),
             Commit(scope, subject, value, proposed)
      PROVE  /\ OverridesOK(call'.proposed, mem.cat)
             /\ \E s, x, v, p : Commit(s, x, v, p)
             /\ call'.pc = "persist"
             /\ call' = [pc |-> call'.pc, scope |-> call'.scope,
                         subject |-> call'.subject, value |-> call'.value,
                         proposed |-> call'.proposed]
  <2>1. call' = [pc |-> "persist", scope |-> scope, subject |-> subject,
                 value |-> value, proposed |-> Compact(proposed)]
    BY <1>2 DEF Commit
  <2>2. OverridesOK(Compact(proposed), mem.cat)
    BY <1>2, CompactIsOK
  <2> QED
    BY <1>2, <2>1, <2>2
<1>3. ASSUME NEW scope, NEW path, NEW entry \in Entries(mem.cat),
             SetFolderAt(scope, FolderKey(path), entry)
      PROVE  \E s, x, v, p : Loose(p, mem.cat) /\ Commit(s, x, v, p)
  <2>1. FolderKey(path) # NoKey
    BY <1>3 DEF SetFolderAt
  <2>2. Loose(SetFolder(ov, FolderKey(path), entry), mem.cat)
    BY <1>1, <1>3, <2>1, KeysAreSafe, SetFolderIsLoose
  <2> QED
    BY <1>3, <2>2 DEF SetFolderAt
<1>4. ASSUME NEW n \in Names, NEW id \in Ids \cup {NoId}, SetFolderPlatform(n, id)
      PROVE  \E s, x, v, p : Loose(p, mem.cat) /\ Commit(s, x, v, p)
  <2>1. [FolderEntry(ov, KeyOf[n]) EXCEPT !.platform = id] \in Entries(mem.cat)
    BY <1>1, <1>4, EntryType DEF SetFolderPlatform, Entries
  <2>2. KeyOf[n] = FolderKey(FolderPath(n))
    BY <1>4 DEF KeyOf
  <2> QED
    BY <1>4, <2>1, <2>2, <1>3 DEF SetFolderPlatform
<1>5. ASSUME NEW n \in Names, ToggleFolderHidden(n)
      PROVE  \E s, x, v, p : Loose(p, mem.cat) /\ Commit(s, x, v, p)
  <2>1. [FolderEntry(ov, KeyOf[n]) EXCEPT !.hidden = ~Mapping(mem, n).hidden]
            \in Entries(mem.cat)
    <3>1. FolderEntry(ov, KeyOf[n]) \in Entries(mem.cat)
      BY <1>1, EntryType
    <3>2. ASSUME NEW f \in Entries(mem.cat), NEW b \in BOOLEAN
          PROVE  [f EXCEPT !.hidden = b] \in Entries(mem.cat)
      BY DEF Entries
    <3>3. (~Mapping(mem, n).hidden) \in BOOLEAN
      OBVIOUS
    <3> QED
      BY <3>1, <3>2, <3>3
  <2>2. KeyOf[n] = FolderKey(FolderPath(n))
    BY <1>5 DEF KeyOf
  <2> QED
    BY <1>5, <2>1, <2>2, <1>3 DEF ToggleFolderHidden
<1>6. ASSUME NEW t \in Tags, NEW id \in Ids \cup {NoId}, SetTagDefault(t, id)
      PROVE  \E s, x, v, p : Loose(p, mem.cat) /\ Commit(s, x, v, p)
  <2>1. id \in Known(mem.cat) \cup {NoId}
    BY <1>6 DEF SetTagDefault
  <2> QED
    BY <1>1, <1>6, <2>1, SetTagIsLoose DEF SetTagDefault
<1>7. ASSUME NEW key \in MissingKeys, ClearMissing(key)
      PROVE  \E s, x, v, p : Loose(p, mem.cat) /\ Commit(s, x, v, p)
  <2>1. Empty \in Entries(mem.cat)
    BY DEF Empty, Entries
  <2> QED
    BY <1>7, <2>1, <1>3 DEF ClearMissing
<1>8. \E s, x, v, p : Loose(p, mem.cat) /\ Commit(s, x, v, p)
  BY <1>4, <1>5, <1>6, <1>7 DEF Edit
<1>9. Idle /\ jobs = {}
  BY DEF Edit, SetFolderPlatform, ToggleFolderHidden, SetTagDefault, ClearMissing,
         EnsureMappingEditAllowed
<1> QED
  BY <1>2, <1>8, <1>9

-----------------------------------------------------------------------------
(* Types. *)

Pcs == {"none", "persist", "copy", "write", "rename", "publish"}

(* Nothing runs at first, and nothing is refused.                            *)
LEMMA InitInv == Init => Inv /\ JobsInv
<1> SUFFICES ASSUME Init PROVE Inv /\ JobsInv
  OBVIOUS
<1>1. OverridesOK(mem.overrides, mem.cat) /\ OverridesOK(call.proposed, mem.cat)
  BY NothingIsOK DEF Init, NoMem, NoCall
<1>2. TypeOK
  BY <1>1, CardsAssumption DEF Init, TypeOK, NoMem, NoCall
<1>3. Shapes
  BY DEF Init, Shapes, NoMem, NoCall
<1>4. FileInv /\ BackupInv /\ JobsInv
  BY DEF Init, FileInv, BackupInv, JobsInv, RefusedIsKept, NoMem, NoCall
<1> QED
  BY <1>2, <1>3, <1>4 DEF Inv

(* The steps of a save change the step and nothing else of the call, or end  *)
(* it.                                                                       *)
LEMMA CallSteps ==
    ASSUME Shapes
    PROVE  /\ \A pc : Goto(pc) => /\ call'.pc = pc
                                  /\ call'.proposed = call.proposed
                                  /\ call' = [pc |-> pc, scope |-> call.scope,
                                              subject |-> call.subject,
                                              value |-> call.value,
                                              proposed |-> call.proposed]
           /\ GiveUp => call' = NoCall
  BY DEF Shapes, Goto, GiveUp

(* Records keep their fields.                                                *)
LEMMA ShapeStep == ASSUME TypeOK, Shapes, [Next]_vars PROVE Shapes'
<1>1. ASSUME Goto("copy") \/ Goto("persist") \/ Goto("write") \/ Goto("rename")
                 \/ Goto("publish") \/ GiveUp \/ UNCHANGED call
      PROVE  call' = [pc |-> call'.pc, scope |-> call'.scope, subject |-> call'.subject,
                      value |-> call'.value, proposed |-> call'.proposed]
  BY <1>1 DEF Goto, GiveUp, NoCall, Shapes
<1>2. ASSUME UNCHANGED disk PROVE Shapes!3'
  BY <1>2 DEF Shapes
<1>3. ASSUME UNCHANGED mem PROVE Shapes!1'
  BY <1>3 DEF Shapes
<1>4. CASE Start
  BY <1>1, <1>2, <1>4 DEF Start, Shapes
<1>5. CASE End
  BY <1>2, <1>5 DEF End, Shapes, NoMem, NoCall
<1>6. CASE Outside
  BY <1>6 DEF Outside, Shapes
<1>7. CASE (\E n \in Names, p \in {"artwork", "cheats"} : QueueAdd(n, p)) \/ QueueFinish
  BY <1>7 DEF QueueAdd, QueueFinish, Shapes
<1>8. CASE Edit
  BY <1>2, <1>3, <1>8, EditsAreOK DEF Commit, Shapes
<1>9. CASE OpenBackup
  BY <1>1, <1>3, <1>9 DEF OpenBackup, Shapes
<1>10. CASE CopyBackup
  BY <1>1, <1>10 DEF CopyBackup, Shapes
<1>11. CASE OpenTmp
  BY <1>1, <1>3, <1>11 DEF OpenTmp, Shapes
<1>12. CASE WriteTmp
  BY <1>1, <1>3, <1>12 DEF WriteTmp, Shapes
<1>13. CASE Rename
  BY <1>1, <1>3, <1>13 DEF Rename, Shapes
<1>14. CASE Publish
  BY <1>1, <1>2, <1>14 DEF Publish, Shapes
<1>15. CASE UNCHANGED vars
  BY <1>15 DEF vars, Shapes
<1> QED
  BY <1>4, <1>5, <1>6, <1>7, <1>8, <1>9, <1>10, <1>11, <1>12, <1>13, <1>14, <1>15
  DEF Next, Save

(* Types are kept by every step.                                             *)
LEMMA TypeStep == ASSUME TypeOK, Shapes, [Next]_vars PROVE TypeOK'
<1> USE DEF TypeOK
<1>1. CASE Start
  <2>1. /\ mem'.up /\ mem'.cat = LoadCatalogue(pak) /\ mem'.needBackup \in BOOLEAN
        /\ mem'.overrides = LoadOverrides(disk.file, mem'.cat)
    <3>1. \A file, cat : NeedsBackup(file, cat) \in BOOLEAN
      BY DEF NeedsBackup
    <3> QED
      BY <1>1, <3>1 DEF Start
  <2>2. OverridesOK(mem'.overrides, mem'.cat) /\ OverridesOK(call'.proposed, mem'.cat)
    BY <1>1, <2>1, LoadIsOK, NothingIsOK DEF Start, NoCall
  <2>3. CatalogueOk(pak) /\ UNCHANGED <<pak, card, disk, call, jobs, saves>>
    BY <1>1 DEF Start
  <2> QED
    BY <2>1, <2>2, <2>3
<1>2. CASE End
  <2>1. OverridesOK(mem'.overrides, mem'.cat) /\ OverridesOK(call'.proposed, mem'.cat)
    BY <1>2, NothingIsOK DEF End, NoMem, NoCall
  <2> QED
    BY <1>2, <2>1 DEF End, NoMem, NoCall
<1>3. CASE Outside
  <2>1. pak' \in Paks /\ card' \subseteq Names /\ ~mem.up /\ UNCHANGED <<mem, call>>
    BY <1>3, CardsAssumption DEF Outside
  <2>2. jobs' \subseteq [folder : Names, platform : Ids, changed : BOOLEAN]
    <3>1. ASSUME NEW j \in [folder : Names, platform : Ids, changed : BOOLEAN]
          PROVE  [j EXCEPT !.changed = TRUE]
                     \in [folder : Names, platform : Ids, changed : BOOLEAN]
      OBVIOUS
    <3>2. jobs' = {[j EXCEPT !.changed = TRUE] : j \in jobs}
      BY <1>3 DEF Outside
    <3> QED
      BY <3>1, <3>2
  <2> QED
    BY <2>1, <2>2
<1>4. ASSUME NEW n \in Names, NEW p, QueueAdd(n, p) PROVE TypeOK'
  <2> DEFINE id == Mapping(mem, n).platform
  <2>1. mem.up /\ UNCHANGED <<pak, card, disk, mem, call>>
    BY <1>4 DEF QueueAdd, Idle
  <2>2. id \in Ids
    BY <1>4, <2>1, PaksAssumption
    DEF QueueAdd, Provider, Known, IdsOf, LoadCatalogue
  <2>3. jobs' = jobs \cup {[folder |-> n, platform |-> id, changed |-> FALSE]}
    BY <1>4 DEF QueueAdd
  <2> HIDE DEF id
  <2>4. [folder |-> n, platform |-> id, changed |-> FALSE]
            \in [folder : Names, platform : Ids, changed : BOOLEAN]
    BY <2>2
  <2>5. jobs' \subseteq [folder : Names, platform : Ids, changed : BOOLEAN]
    BY <2>3, <2>4
  <2> QED
    BY <2>1, <2>5
<1>5. CASE QueueFinish
  BY <1>5 DEF QueueFinish
<1>6. CASE Edit
  BY <1>6, EditsAreOK DEF Commit, Idle
<1>7. ASSUME UNCHANGED <<pak, card, mem, jobs>>, mem.up,
             (\E pc \in Pcs : Goto(pc)) \/ GiveUp
      PROVE  TypeOK'
  <2>1. call'.pc \in Pcs /\ OverridesOK(call'.proposed, mem.cat)
    BY <1>7, CallSteps, NothingIsOK DEF NoCall, Pcs
  <2> QED
    BY <1>7, <2>1 DEF Pcs
<1>8. call.pc # "none" => mem.up
  BY DEF NoCall
<1>9. CASE OpenBackup \/ OpenTmp \/ WriteTmp \/ Rename
  BY <1>7, <1>8, <1>9 DEF OpenBackup, OpenTmp, WriteTmp, Rename, Pcs
<1>10. CASE CopyBackup
  <2>1. /\ mem'.up = mem.up /\ mem'.cat = mem.cat /\ mem'.overrides = mem.overrides
        /\ mem'.needBackup \in BOOLEAN
    BY <1>10 DEF CopyBackup, Shapes
  <2>2. call'.pc \in Pcs /\ OverridesOK(call'.proposed, mem.cat)
    BY <1>10, CallSteps, NothingIsOK DEF CopyBackup, NoCall, Pcs
  <2> QED
    BY <1>8, <1>10, <2>1, <2>2 DEF CopyBackup, Pcs
<1>11. CASE Publish
  <2>1. /\ mem'.up = mem.up /\ mem'.cat = mem.cat /\ mem'.overrides = call.proposed
        /\ mem'.needBackup = mem.needBackup
    BY <1>11 DEF Publish, Shapes
  <2>2. call' = NoCall
    BY <1>11 DEF Publish, GiveUp
  <2> QED
    BY <1>8, <1>11, <2>1, <2>2, NothingIsOK DEF Publish, NoCall
<1>12. CASE UNCHANGED vars
  BY <1>12 DEF vars
<1> QED
  BY <1>1, <1>2, <1>3, <1>4, <1>5, <1>6, <1>9, <1>10, <1>11, <1>12 DEF Next, Save

(* TypeOK: every override names a platform of the loaded catalogue.          *)
THEOREM MappingTypes == Spec => []TypeOK
<1>1. Init => TypeOK /\ Shapes
  BY InitInv DEF Inv
<1>2. TypeOK /\ Shapes /\ [Next]_vars => (TypeOK /\ Shapes)'
  BY ShapeStep, TypeStep
<1> QED
  BY <1>1, <1>2, PTL DEF Spec

-----------------------------------------------------------------------------
(* Memory and file. *)

(* Only a call that renamed its file and has not published it yet may differ *)
(* from the file, and a refused file is not replaced before it was copied.   *)
LEMMA SaveStep == ASSUME Inv, [Next]_vars PROVE FileInv' /\ BackupInv'
<1> USE DEF FileInv, BackupInv, RefusedIsKept
<1>0. TypeOK /\ Shapes /\ FileInv /\ BackupInv
  BY DEF Inv
<1>a. call.pc # "none" => mem.up
  BY <1>0 DEF TypeOK, NoCall
<1>b. OverridesOK(call.proposed, mem.cat)
  BY <1>0 DEF TypeOK
<1>1. CASE Start
  <2>1. call.pc = "none" /\ call' = call /\ disk' = disk
    BY <1>0, <1>1 DEF Start, TypeOK, NoCall
  <2>2. /\ mem'.up
        /\ mem'.overrides = LoadOverrides(disk.file, mem'.cat)
        /\ mem'.needBackup = NeedsBackup(disk.file, mem'.cat)
    BY <1>1 DEF Start
  <2>3. ASSUME NeedsBackup(disk.file, mem'.cat)
        PROVE  refused' = disk.file /\ disk.file # Absent
    <3>1. refused' = disk.file
      BY <1>1, <2>2, <2>3 DEF Start
    <3>2. disk.file.kind # "absent"
      BY <2>3 DEF NeedsBackup
    <3> QED
      BY <3>1, <3>2 DEF Absent
  <2>4. ASSUME ~NeedsBackup(disk.file, mem'.cat)
        PROVE  refused' \in {Absent, disk.rejected}
    BY <1>0, <1>1, <2>4 DEF Start
  <2> QED
    BY <2>1, <2>2, <2>3, <2>4
<1>2. CASE End
  BY <1>0, <1>2 DEF End, NoMem, NoCall, TypeOK
<1>3. CASE Outside
  <2>1. mem.up = FALSE /\ call.pc = "none" /\ mem.needBackup = FALSE
    BY <1>0, <1>3 DEF Outside, TypeOK, NoMem, NoCall
  <2>2. mem' = mem /\ call' = call
    BY <1>3 DEF Outside
  <2>3. CASE UNCHANGED <<disk, refused>>
    BY <1>0, <2>1, <2>2, <2>3
  <2>4. CASE refused' = Absent
    BY <1>0, <2>1, <2>2, <2>4
  <2> QED
    BY <1>3, <2>3, <2>4 DEF Outside
<1>4. CASE (\E n \in Names, p \in {"artwork", "cheats"} : QueueAdd(n, p)) \/ QueueFinish
  BY <1>0, <1>4 DEF QueueAdd, QueueFinish
<1>5. CASE Edit
  <2>1. mem.up /\ call.pc = "none" /\ call'.pc = "persist"
    BY <1>0, <1>5, EditsAreOK DEF Idle
  <2>2. UNCHANGED <<disk, mem, refused>>
    BY <1>0, <1>5, EditsAreOK DEF Commit
  <2> QED
    BY <1>0, <2>1, <2>2
<1>6. CASE OpenBackup
  <2>1. mem.needBackup /\ call'.pc \in {"copy", "none"} /\ disk'.file = disk.file
    BY <1>0, <1>6, CallSteps DEF OpenBackup, MustBackUp, Shapes, NoCall
  <2>2. call.pc = "persist" /\ UNCHANGED <<mem, refused>>
    BY <1>6 DEF OpenBackup
  <2> QED
    BY <1>0, <2>1, <2>2
<1>7. CASE CopyBackup
  <2>1. mem.needBackup /\ call.pc = "copy" /\ refused' = refused
    BY <1>0, <1>7 DEF CopyBackup
  <2>2. disk'.file = disk.file /\ mem'.up = mem.up /\ mem'.cat = mem.cat
            /\ mem'.overrides = mem.overrides
    BY <1>0, <1>7 DEF CopyBackup, Shapes
  <2>3. \/ disk'.rejected = disk.file /\ ~mem'.needBackup /\ call'.pc = "persist"
        \/ mem' = mem /\ call'.pc = "none"
    BY <1>0, <1>7, CallSteps DEF CopyBackup, Shapes, NoCall
  <2> QED
    BY <1>0, <2>1, <2>2, <2>3
<1>8. CASE OpenTmp
  <2>1. disk'.file = disk.file /\ disk'.rejected = disk.rejected
            /\ call'.pc \in {"write", "none"}
    BY <1>0, <1>8, CallSteps DEF OpenTmp, Shapes, NoCall
  <2>2. ~mem.needBackup /\ call.pc = "persist" /\ UNCHANGED <<mem, refused>>
    BY <1>0, <1>8 DEF OpenTmp, MustBackUp
  <2> QED
    BY <1>0, <2>1, <2>2
<1>9. CASE WriteTmp
  <2>1. disk'.file = disk.file /\ disk'.rejected = disk.rejected
            /\ call'.pc \in {"rename", "none"}
    BY <1>0, <1>9, CallSteps DEF WriteTmp, Shapes, NoCall
  <2>2. call.pc = "write" /\ UNCHANGED <<mem, refused>>
    BY <1>9 DEF WriteTmp
  <2> QED
    BY <1>0, <2>1, <2>2
<1>10. CASE Rename
  <2>1. /\ disk'.rejected = disk.rejected
        /\ \/ /\ disk'.file = ToJson(call.proposed) /\ call'.pc = "publish"
              /\ call'.proposed = call.proposed
           \/ disk'.file = disk.file /\ call'.pc = "none"
    <3>1. CASE disk' = [disk EXCEPT !.file = ToJson(call.proposed), !.tmp = "none"]
                  /\ Goto("publish")
      <4>1. disk'.rejected = disk.rejected /\ disk'.file = ToJson(call.proposed)
        BY <1>0, <3>1 DEF Shapes
      <4>2. call'.pc = "publish" /\ call'.proposed = call.proposed
        BY <1>0, <3>1, CallSteps
      <4> QED
        BY <4>1, <4>2
    <3>2. CASE disk' = [disk EXCEPT !.tmp = "none"] /\ GiveUp
      BY <1>0, <3>2 DEF Shapes, GiveUp, NoCall
    <3> QED
      BY <1>10, <3>1, <3>2 DEF Rename
  <2>2. call.pc = "rename" /\ UNCHANGED <<mem, refused>>
    BY <1>10 DEF Rename
  <2> QED
    BY <1>0, <1>a, <2>1, <2>2
<1>11. CASE Publish
  <2>1. mem'.overrides = call.proposed /\ mem'.cat = mem.cat /\ mem'.up = mem.up
            /\ mem'.needBackup = mem.needBackup
    BY <1>0, <1>11 DEF Publish, Shapes
  <2>2. call.pc = "publish" /\ call'.pc = "none" /\ UNCHANGED <<disk, refused>>
    BY <1>11 DEF Publish, GiveUp, NoCall
  <2>3. LoadOverrides(disk.file, mem.cat) = call.proposed
    BY <1>0, <1>b, <2>2, LoadReadsBack
  <2> QED
    BY <1>0, <1>a, <2>1, <2>2, <2>3
<1>12. CASE UNCHANGED vars
  BY <1>0, <1>12 DEF vars
<1> QED
  BY <1>1, <1>2, <1>3, <1>4, <1>5, <1>6, <1>7, <1>8, <1>9, <1>10, <1>11, <1>12
  DEF Next, Save

(* The invariant is inductive.                                               *)
LEMMA InvStep == ASSUME Inv, [Next]_vars PROVE Inv'
  BY ShapeStep, TypeStep, SaveStep DEF Inv

(* The invariant holds throughout.                                           *)
LEMMA InvHolds == Spec => []Inv
<1>1. Init => Inv
  BY InitInv
<1>2. Inv /\ [Next]_vars => Inv'
  BY InvStep
<1> QED
  BY <1>1, <1>2, PTL DEF Spec

(* MemoryIsFile: between calls, what is in effect is what a start would load,*)
(* whatever failed or died before.                                           *)
THEOREM MemoryAgreesWithFile == Spec => []MemoryIsFile
<1>1. Inv => MemoryIsFile
  BY DEF Inv, FileInv, MemoryIsFile, Idle
<1> QED
  BY <1>1, InvHolds, PTL

(* RefusedIsKept: a file that was not taken over completely is in its place  *)
(* or, whole, in .rejected.                                                  *)
THEOREM RefusedFilesStay == Spec => []RefusedIsKept
<1>1. Inv => RefusedIsKept
  BY DEF Inv, BackupInv
<1> QED
  BY <1>1, InvHolds, PTL

-----------------------------------------------------------------------------
(* Jobs. *)

(* A folder resolves by the catalogue and the overrides alone.               *)
LEMMA SameMapping ==
    ASSUME NEW m, NEW l, m.cat = l.cat, m.overrides = l.overrides, NEW n
    PROVE  Mapping(m, n) = Mapping(l, n)
  BY DEF Mapping, Resolve, ResolveTag

(* While no call runs, folders resolve as after a fresh start.               *)
LEMMA IdleIsLoaded ==
    ASSUME Inv, Idle PROVE \A n : Mapping(mem, n) = Mapping(Loaded, n)
<1>1. mem.cat = LoadCatalogue(pak) /\ mem.overrides = LoadOverrides(disk.file, mem.cat)
  BY DEF Inv, TypeOK, FileInv, Idle
<1>2. mem.cat = Loaded.cat /\ mem.overrides = Loaded.overrides
  BY <1>1 DEF Loaded
<1> QED
  BY <1>2, SameMapping

(* A job is added when nothing is edited, and nothing is edited beside a job.*)
LEMMA JobsStep == ASSUME Inv, JobsInv, [Next]_vars PROVE JobsInv'
<1>0. TypeOK /\ Shapes
  BY DEF Inv
<1>1. ASSUME jobs' \subseteq jobs, UNCHANGED <<pak, disk>>,
             call'.pc = "none" \/ UNCHANGED call
      PROVE  JobsInv'
  <2>1. Loaded' = Loaded
    BY <1>1 DEF Loaded
  <2> QED
    BY <1>1, <2>1 DEF JobsInv, Mapping
<1>2. ASSUME jobs = {}, jobs' = {} PROVE JobsInv'
  BY <1>2 DEF JobsInv
<1>3. CASE Start
  BY <1>1, <1>3 DEF Start
<1>4. CASE End
  BY <1>1, <1>4 DEF End, NoCall
<1>5. CASE Outside
  <2>1. call'.pc = "none"
    BY <1>0, <1>5 DEF Outside, TypeOK, NoCall
  <2>2. ASSUME NEW j \in jobs' PROVE j.changed
    <3>1. PICK i \in jobs : j = [i EXCEPT !.changed = TRUE]
      BY <1>5, <2>2 DEF Outside
    <3>2. i \in [folder : Names, platform : Ids, changed : BOOLEAN]
      BY <1>0, <3>1 DEF TypeOK
    <3> QED
      BY <3>1, <3>2
  <2> QED
    BY <2>1, <2>2 DEF JobsInv
<1>6. ASSUME NEW n \in Names, NEW p, QueueAdd(n, p) PROVE JobsInv'
  <2> DEFINE new == [folder |-> n, platform |-> Mapping(mem, n).platform,
                     changed |-> FALSE]
  <2>1. jobs' = jobs \cup {new} /\ Idle /\ UNCHANGED <<pak, disk, call>>
    BY <1>6 DEF QueueAdd
  <2>2. Loaded' = Loaded
    BY <2>1 DEF Loaded
  <2>3. new.folder = n /\ new.platform = Mapping(mem, n).platform
    OBVIOUS
  <2>4. Mapping(Loaded, new.folder).platform = new.platform
    BY <2>1, <2>3, IdleIsLoaded
  <2>5. call'.pc = "none"
    BY <2>1 DEF Idle
  <2> HIDE DEF new
  <2> QED
    BY <2>1, <2>2, <2>4, <2>5 DEF JobsInv, Mapping
<1>7. CASE QueueFinish
  BY <1>1, <1>7 DEF QueueFinish
<1>8. CASE Edit
  BY <1>0, <1>2, <1>8, EditsAreOK DEF Commit
<1>9. CASE Save
  BY <1>2, <1>9 DEF Save, OpenBackup, CopyBackup, OpenTmp, WriteTmp, Rename, Publish,
                    JobsInv
<1>10. CASE UNCHANGED vars
  BY <1>1, <1>10 DEF vars
<1> QED
  BY <1>3, <1>4, <1>5, <1>6, <1>7, <1>8, <1>9, <1>10 DEF Next

(* JobsMatchMappings: a queued job's platform is the one in effect for its   *)
(* folder, through edits, handoffs and restarts.                             *)
THEOREM JobsKeepTheirPlatform == Spec => []JobsMatchMappings
<1>1. Init => Inv /\ JobsInv
  BY InitInv
<1>2. (Inv /\ JobsInv) /\ [Next]_vars => (Inv /\ JobsInv)'
  BY InvStep, JobsStep
<1>3. Inv /\ JobsInv => JobsMatchMappings
  <2> SUFFICES ASSUME Inv, JobsInv, NEW j \in jobs, mem.up, ~j.changed
               PROVE  Mapping(mem, j.folder).platform = j.platform
    BY DEF JobsMatchMappings
  <2>1. Idle
    BY DEF JobsInv, Idle
  <2> QED
    BY <2>1, IdleIsLoaded DEF JobsInv
<1> QED
  BY <1>1, <1>2, <1>3, PTL DEF Spec

-----------------------------------------------------------------------------
(* The store. *)

(* What a saved file says is what was saved.                                 *)
LEMMA RawReadsBack ==
    ASSUME NEW ov, NEW cat, OverridesOK(ov, cat) PROVE RawFile(ToJson(ov)) = ov
<1> DEFINE file == ToJson(ov)
           raw == [k \in DOMAIN file.folders |-> RawEntry(file.folders[k])]
<1>1. /\ file.kind = "mappings" /\ file.tagsOk /\ file.foldersOk
      /\ file.tags = ov.tags /\ DOMAIN file.folders = DOMAIN ov.folders
  BY DEF ToJson
<1>2. ASSUME NEW k \in DOMAIN ov.folders PROVE raw[k] = ov.folders[k]
  <2>1. /\ file.folders[k].platform = ov.folders[k].platform
        /\ file.folders[k].hidden = IF ov.folders[k].hidden THEN "true" ELSE "absent"
    BY <1>2 DEF ToJson
  <2>2. ov.folders[k] \in Entries(cat)
    BY <1>2 DEF OverridesOK, Entries
  <2>3. (file.folders[k].hidden = "true") = ov.folders[k].hidden
    BY <2>1, <2>2 DEF Entries
  <2>4. raw[k] = RawEntry(file.folders[k])
    BY <1>1, <1>2
  <2> QED
    BY <2>1, <2>2, <2>3, <2>4 DEF RawEntry, Entries
<1>3. raw = ov.folders
  BY <1>1, <1>2 DEF OverridesOK, IsMap
<1>4. RawFile(file) = [tags |-> ov.tags, folders |-> raw]
  BY <1>1 DEF RawFile
<1> QED
  BY <1>3, <1>4 DEF OverridesOK

(* A load may leave entries out, and keeps the defaults it takes.            *)
LEMMA LoadIsWithin ==
    ASSUME NEW file, NEW cat PROVE Store!Within(LoadOverrides(file, cat), RawFile(file))
<1> USE DEF Store!Within, LoadOverrides, RawFile
<1>1. CASE file.kind # "mappings"
  BY <1>1 DEF Nothing, EmptyMap
<1>2. CASE file.kind = "mappings"
  <2>1. DOMAIN LoadFolders(file, cat) \subseteq DOMAIN RawFile(file).folders
    BY <1>2 DEF LoadFolders, Only, EmptyMap
  <2>2. /\ DOMAIN LoadTags(file, cat) \subseteq DOMAIN RawFile(file).tags
        /\ \A t \in DOMAIN LoadTags(file, cat) :
               LoadTags(file, cat)[t] = RawFile(file).tags[t]
    BY <1>2 DEF LoadTags, Only, EmptyMap
  <2> QED
    BY <1>2, <2>1, <2>2
<1> QED
  BY <1>1, <1>2

(* No overrides, as the store says it.                                       *)
LEMMA NothingIsNoMappings == Nothing = Store!NoMappings
  BY DEF Nothing, EmptyMap, Store!NoMappings, Store!None

\* The mappings that are in effect, as Store has them.
Effective == IF call.pc = "publish" THEN call.proposed ELSE mem.overrides

(* The start of the program is that of the store.                            *)
LEMMA StoreStarts == Init => Store!StoreInit
  BY NothingIsNoMappings DEF Init, NoMem, NoCall, Store!StoreInit

(* A step that leaves memory, the file and the call as far as the store sees *)
(* them is a stutter of the store.                                           *)
LEMMA StoreStutters ==
    ASSUME mem'.up = mem.up, Effective' = Effective, disk'.file = disk.file
    PROVE  UNCHANGED Store!storeVars
  BY DEF Effective, Store!storeVars

(* Every step is one of the store: a load takes over what it can, an edit    *)
(* happens at its rename, everything else changes nothing.                   *)
LEMMA StoreStep ==
    ASSUME Inv, [Next]_vars PROVE [Store!StoreNext]_Store!storeVars
<1> USE DEF Store!StoreNext
<1>0. TypeOK /\ Shapes /\ FileInv
  BY DEF Inv
<1>a. call.pc # "none" => mem.up
  BY <1>0 DEF TypeOK, NoCall
<1>1. CASE Start
  <2>1. ~mem.up /\ mem'.up /\ UNCHANGED <<disk, call>> /\ call.pc = "none"
    BY <1>0, <1>1 DEF Start, TypeOK, NoCall
  <2>2. mem'.overrides = LoadOverrides(disk.file, mem'.cat)
    BY <1>1 DEF Start
  <2>3. Store!Within(mem'.overrides, RawFile(disk.file))
    BY <2>2, LoadIsWithin
  <2>4. Store!StoreStart
    BY <2>1, <2>3 DEF Store!StoreStart, Store!Within
  <2> QED
    BY <2>4
<1>2. CASE End
  <2>1. Store!StoreEnd
    BY <1>2, NothingIsNoMappings DEF End, NoMem, NoCall, Store!StoreEnd
  <2> QED
    BY <2>1
<1>3. CASE Outside
  <2>1. Store!StoreOutside
    BY <1>3 DEF Outside, Store!StoreOutside
  <2> QED
    BY <2>1
<1>4. CASE (\E n \in Names, p \in {"artwork", "cheats"} : QueueAdd(n, p)) \/ QueueFinish
  BY <1>4, StoreStutters DEF QueueAdd, QueueFinish, Effective
<1>5. CASE Edit
  <2>1. call.pc = "none" /\ call'.pc = "persist"
    BY <1>0, <1>5, EditsAreOK DEF Idle
  <2>2. UNCHANGED <<disk, mem>>
    BY <1>0, <1>5, EditsAreOK DEF Commit
  <2> QED
    BY <2>1, <2>2, StoreStutters DEF Effective
<1>6. CASE OpenBackup \/ OpenTmp \/ WriteTmp
  <2>1. call.pc # "publish" /\ call'.pc # "publish" /\ mem' = mem
    BY <1>0, <1>6, CallSteps DEF OpenBackup, OpenTmp, WriteTmp, NoCall
  <2>2. disk'.file = disk.file
    BY <1>0, <1>6 DEF OpenBackup, OpenTmp, WriteTmp, Shapes
  <2> QED
    BY <2>1, <2>2, StoreStutters DEF Effective
<1>7. CASE CopyBackup
  <2>1. call.pc # "publish" /\ call'.pc # "publish"
    BY <1>0, <1>7, CallSteps DEF CopyBackup, NoCall
  <2>2. disk'.file = disk.file /\ mem'.up = mem.up /\ mem'.overrides = mem.overrides
    BY <1>0, <1>7 DEF CopyBackup, Shapes
  <2> QED
    BY <2>1, <2>2, StoreStutters DEF Effective
<1>8. CASE Rename
  <2>1. call.pc = "rename" /\ mem' = mem /\ mem.up
    BY <1>a, <1>8 DEF Rename
  <2>2. CASE disk' = [disk EXCEPT !.file = ToJson(call.proposed), !.tmp = "none"]
                 /\ Goto("publish")
    <3>1. disk'.file = ToJson(call.proposed)
      BY <1>0, <2>2 DEF Shapes
    <3>2. call'.pc = "publish" /\ call'.proposed = call.proposed
      BY <1>0, <2>2, CallSteps
    <3>3. RawFile(disk'.file) = call.proposed
      BY <1>0, <3>1, RawReadsBack DEF TypeOK
    <3>4. Effective' = call.proposed /\ Effective = mem.overrides
      BY <2>1, <3>2 DEF Effective
    <3>5. CASE call.proposed = mem.overrides
      <4>1. Store!StoreRewrite
        BY <2>1, <3>3, <3>4, <3>5 DEF Store!StoreRewrite, Effective
      <4> QED
        BY <4>1
    <3>6. CASE call.proposed # mem.overrides
      <4>1. Store!StoreEdit
        BY <2>1, <3>3, <3>4, <3>6 DEF Store!StoreEdit, Effective
      <4> QED
        BY <4>1
    <3> QED
      BY <3>5, <3>6
  <2>3. CASE disk' = [disk EXCEPT !.tmp = "none"] /\ GiveUp
    <3>1. disk'.file = disk.file /\ call'.pc = "none"
      BY <1>0, <2>3 DEF Shapes, GiveUp, NoCall
    <3> QED
      BY <2>1, <3>1, StoreStutters DEF Effective
  <2> QED
    BY <1>8, <2>2, <2>3 DEF Rename
<1>9. CASE Publish
  <2>1. mem'.overrides = call.proposed /\ mem'.up = mem.up
    BY <1>0, <1>9 DEF Publish, Shapes
  <2>2. call.pc = "publish" /\ call'.pc = "none" /\ disk' = disk
    BY <1>9 DEF Publish, GiveUp, NoCall
  <2> QED
    BY <2>1, <2>2, StoreStutters DEF Effective
<1>10. CASE UNCHANGED vars
  BY <1>10, StoreStutters DEF vars, Effective
<1> QED
  BY <1>1, <1>2, <1>3, <1>4, <1>5, <1>6, <1>7, <1>8, <1>9, <1>10 DEF Next, Save

(* ImplementsStore: the modules of systems.c are a store whose edits take    *)
(* effect and are saved in one step or not at all.                           *)
THEOREM MappingsAreAStore == Spec => ImplementsStore
<1>1. Init => Store!StoreInit
  BY StoreStarts
<1>2. Inv /\ [Next]_vars => [Store!StoreNext]_Store!storeVars
  BY StoreStep
<1> QED
  BY <1>1, <1>2, InvHolds, PTL DEF Spec, ImplementsStore, Store!StoreSpec
-----------------------------------------------------------------------------
(* absolute_path, part by part.                                            *)

(* Counting from zero reaches every number.                                *)
LEMMA NatSets ==
    ASSUME NEW S, 0 \in S, \A n \in Nat : n \in S => n + 1 \in S PROVE Nat \subseteq S
<1> SUFFICES ASSUME Nat \ S # {} PROVE FALSE
  OBVIOUS
<1>1. PICK m \in Nat \ S : \A k \in Nat \ S : ~(<<k, m>> \in OpToRel(<, Nat))
  BY NatLessThanWellFounded, WFMin
<1>2. m \in Nat /\ m # 0
  OBVIOUS
<1>3. m - 1 \in Nat /\ (m - 1) + 1 = m
  BY <1>2
<1>4. m - 1 \in Nat \ S
  BY <1>1, <1>3
<1>5. <<m - 1, m>> \in OpToRel(<, Nat)
  BY <1>2, <1>3 DEF OpToRel
<1> QED
  BY <1>1, <1>4, <1>5

(* absolute_path walks a path from its root, part by part.                 *)
LEMMA WalkSteps ==
    ASSUME NEW C, "?" \in C, NEW parts \in Seq(C), NEW root
    PROVE  LET walk == Walk(parts, root)
           IN /\ walk[0] = <<>>
              /\ \A n \in 1..Len(parts) :
                     walk[n] = WalkPart(walk[n - 1], parts[n], root)
<1> DEFINE Next2(w, n) == IF n = 0 THEN <<>> ELSE WalkPart(w[n - 1], parts[n], root)
           Reached == {n \in Nat : \E w : w = [i \in 0..n |-> Next2(w, i)]}
<1>1. 0 \in Reached
  <2> DEFINE w == [i \in 0..0 |-> <<>>]
  <2>1. w = [i \in 0..0 |-> Next2(w, i)]
    OBVIOUS
  <2> QED
    BY <2>1
<1>2. ASSUME NEW n \in Nat, n \in Reached PROVE n + 1 \in Reached
  <2>1. PICK w : w = [i \in 0..n |-> Next2(w, i)]
    BY <1>2
  <2> DEFINE v == [i \in 0..(n + 1) |-> IF i = n + 1 THEN Next2(w, n + 1) ELSE w[i]]
  <2> HIDE DEF Next2
  <2>2. \A i \in 0..n : v[i] = w[i]
    OBVIOUS
  <2>3. ASSUME NEW i \in 0..(n + 1) PROVE Next2(v, i) = Next2(w, i)
    BY <2>2 DEF Next2
  <2>4. ASSUME NEW i \in 0..(n + 1) PROVE v[i] = Next2(v, i)
    <3>1. CASE i = n + 1
      BY <2>3, <3>1
    <3>2. CASE i # n + 1
      <4>1. i \in 0..n
        BY <3>2
      <4>2. w[i] = Next2(w, i)
        BY <2>1, <4>1
      <4> QED
        BY <2>2, <2>3, <4>1, <4>2
    <3> QED
      BY <3>1, <3>2
  <2>5. v = [i \in 0..(n + 1) |-> Next2(v, i)]
    <3>1. v = [i \in 0..(n + 1) |-> v[i]]
      OBVIOUS
    <3> HIDE DEF v
    <3> QED
      BY <2>4, <3>1
  <2> HIDE DEF v
  <2> QED
    BY <2>5
<1>3. Len(parts) \in Reached
  <2> HIDE DEF Reached
  <2> QED
    BY <1>1, <1>2, NatSets, LenProperties
<1>4. \E w : w = [i \in 0..Len(parts) |-> Next2(w, i)]
  BY <1>3
<1> DEFINE walk == Walk(parts, root)
<1>5. walk = [i \in 0..Len(parts) |-> Next2(walk, i)]
  BY <1>4 DEF Walk
<1> QED
  BY <1>5

(* Components are strings.                                                 *)
LEMMA WalkPartType ==
    ASSUME NEW C, "?" \in C, NEW dir \in Seq(C), NEW part \in C, NEW root
    PROVE  WalkPart(dir, part, root) \in Seq(C)
<1>1. Append(dir, part) \in Seq(C) /\ Refusal \in Seq(C)
  BY DEF Refusal
<1>2. PopLast(dir) \in Seq(C)
  <2>1. CASE dir = <<>>
    BY <2>1 DEF PopLast
  <2>2. CASE dir # <<>>
    <3>1. Len(dir) \in Nat /\ Len(dir) - 1 <= Len(dir)
      BY LenProperties
    <3>2. SubSeq(dir, 1, Len(dir) - 1) \in Seq(C)
      BY <3>1
    <3> QED
      BY <2>2, <3>2 DEF PopLast
  <2> QED
    BY <2>1, <2>2
<1> QED
  BY <1>1, <1>2 DEF WalkPart

(* All that a walk has come to are sequences of components.                *)
LEMMA WalkTypes ==
    ASSUME NEW C, "?" \in C, NEW parts \in Seq(C), NEW root
    PROVE  \A n \in 0..Len(parts) : Walk(parts, root)[n] \in Seq(C)
<1> DEFINE walk == Walk(parts, root)
           Good == {n \in Nat : n <= Len(parts) => walk[n] \in Seq(C)}
<1>0. Len(parts) \in Nat /\ \A n \in 1..Len(parts) : parts[n] \in C
  BY LenProperties, ElementOfSeq
<1>1. /\ walk[0] = <<>>
      /\ \A n \in 1..Len(parts) :
             walk[n] = WalkPart(walk[n - 1], parts[n], root)
  BY WalkSteps
<1> HIDE DEF walk
<1>2. 0 \in Good
  <2>1. <<>> \in Seq(C)
    OBVIOUS
  <2>2. walk[0] \in Seq(C)
    BY <1>1, <2>1
  <2> QED
    BY <2>2
<1>3. ASSUME NEW n \in Nat, n \in Good PROVE n + 1 \in Good
  <2>1. CASE n + 1 <= Len(parts)
    <3>1. n + 1 \in 1..Len(parts) /\ (n + 1) - 1 = n
      BY <1>0, <2>1
    <3>2. walk[n] \in Seq(C)
      BY <1>0, <1>3, <2>1
    <3>3. walk[n + 1] = WalkPart(walk[n], parts[n + 1], root)
      BY <1>1, <3>1
    <3> QED
      BY <1>0, <3>1, <3>2, <3>3, WalkPartType
  <2> QED
    BY <2>1
<1>4. Nat \subseteq Good
  <2> HIDE DEF Good
  <2> QED
    BY <1>2, <1>3, NatSets
<1> QED
  BY <1>0, <1>4 DEF walk

(* Inside the ROM directory a walk refuses dots, and does nothing else than*)
(* one without the guard; the longer path is the same to its shorter part. *)
LEMMA GuardRefuses ==
    ASSUME NEW C, "?" \in C, NEW p \in Seq(C), NEW q \in Seq(C), NEW root
    PROVE  \A n \in 0..Len(p) :
               Walk(p \o q, root)[n] \in {Walk(p, NoRoot)[n], Refusal}
<1> DEFINE free == Walk(p, NoRoot)
           walk == Walk(p \o q, root)
           Good == {n \in Nat : n <= Len(p) => walk[n] \in {free[n], Refusal}}
<1>0. /\ p \o q \in Seq(C) /\ Len(p) \in Nat /\ Len(q) \in Nat
      /\ Len(p \o q) = Len(p) + Len(q)
      /\ \A n \in 1..Len(p) : (p \o q)[n] = p[n]
  BY ConcatProperties, LenProperties
<1>1. /\ free[0] = <<>>
      /\ \A n \in 1..Len(p) : free[n] = WalkPart(free[n - 1], p[n], NoRoot)
  BY WalkSteps
<1>2. /\ walk[0] = <<>>
      /\ \A n \in 1..Len(p \o q) :
             walk[n] = WalkPart(walk[n - 1], (p \o q)[n], root)
  BY <1>0, WalkSteps
<1> HIDE DEF free, walk
<1>3. 0 \in Good
  BY <1>1, <1>2
<1>4. ASSUME NEW n \in Nat, n \in Good PROVE n + 1 \in Good
  <2>1. CASE n + 1 <= Len(p)
    <3>1. n + 1 \in 1..Len(p) /\ n + 1 \in 1..Len(p \o q) /\ (n + 1) - 1 = n
      BY <1>0, <2>1
    <3>2. walk[n] \in {free[n], Refusal}
      BY <1>0, <1>4, <2>1
    <3>3. walk[n + 1] = WalkPart(walk[n], p[n + 1], root)
      BY <1>0, <1>2, <3>1
    <3>4. free[n + 1] = WalkPart(free[n], p[n + 1], NoRoot)
      BY <1>1, <3>1
    <3>5. walk[n] = Refusal => walk[n + 1] = Refusal
      BY <3>3 DEF WalkPart
    <3>6. walk[n] = free[n] => walk[n + 1] \in {free[n + 1], Refusal}
      BY <3>3, <3>4 DEF WalkPart
    <3>7. walk[n + 1] \in {free[n + 1], Refusal}
      BY <3>2, <3>5, <3>6
    <3> QED
      BY <3>7
  <2> QED
    BY <2>1
<1>5. Nat \subseteq Good
  <2> HIDE DEF Good
  <2> QED
    BY <1>3, <1>4, NatSets
<1> QED
  BY <1>0, <1>5 DEF free, walk

(* Names without dots are appended to where a walk has come.               *)
LEMMA SafeTail ==
    ASSUME NEW C, "?" \in C, NEW p \in Seq(C), NEW q \in Seq(C), KeyIsSafe(q),
           NEW root \in Seq(C), root = Walk(p, NoRoot)[Len(p)]
    PROVE  Walk(p \o q, root)[Len(p \o q)] \in {root \o q, Refusal}
<1> DEFINE walk == Walk(p \o q, root)
           at(j) == root \o SubSeq(q, 1, j)
           Good == {j \in Nat : j <= Len(q) => walk[Len(p) + j] \in {at(j), Refusal}}
<1>0. /\ p \o q \in Seq(C) /\ Len(p) \in Nat /\ Len(q) \in Nat
      /\ Len(p \o q) = Len(p) + Len(q)
  BY ConcatProperties, LenProperties
<1>1. ASSUME NEW j \in 1..Len(q)
      PROVE  (p \o q)[Len(p) + j] = q[j] /\ q[j] \notin Dots
  <2>1. /\ Len(p) + j \in 1..Len(p) + Len(q) /\ ~(Len(p) + j <= Len(p))
        /\ (Len(p) + j) - Len(p) = j
    BY <1>0
  <2>2. (p \o q)[Len(p) + j] = q[j]
    BY <2>1, ConcatProperties
  <2>3. j \in DOMAIN q
    BY LenProperties
  <2> QED
    BY <2>2, <2>3 DEF KeyIsSafe
<1>2. /\ \A n \in 1..Len(p \o q) : walk[n] = WalkPart(walk[n - 1], (p \o q)[n], root)
      /\ walk[Len(p)] \in {root, Refusal}
  <2>1. \A n \in 1..Len(p \o q) : walk[n] = WalkPart(walk[n - 1], (p \o q)[n], root)
    BY <1>0, WalkSteps
  <2>2. Len(p) \in 0..Len(p)
    BY <1>0
  <2>3. walk[Len(p)] \in {root, Refusal}
    BY <2>2, GuardRefuses
  <2> QED
    BY <2>1, <2>3
<1>3. at(0) = root /\ at(Len(q)) = root \o q
  <2>1. SubSeq(q, 1, 0) = <<>> /\ SubSeq(q, 1, Len(q)) = q
    BY SubSeqEmpty, SubSeqFull
  <2> QED
    BY <2>1, ConcatEmptySeq
<1>4. ASSUME NEW j \in Nat, j + 1 <= Len(q) PROVE Append(at(j), q[j + 1]) = at(j + 1)
  <2>1. j + 1 \in 1..Len(q) /\ (j + 1) - 1 = j /\ 1 \in 1..Len(q) /\ q[j + 1] \in C
    BY <1>0, <1>4, ElementOfSeq
  <2>2. SubSeq(q, 1, j) \in Seq(C)
    <3>1. \A i \in 1..j : q[i] \in C
      BY <1>0, <1>4, ElementOfSeq
    <3> QED
      BY <3>1, SubSeqProperties
  <2>3. SubSeq(q, 1, j + 1) = SubSeq(q, 1, j) \o <<q[j + 1]>>
    BY <2>1, SubSeqRecursiveSecond
  <2>4. (root \o SubSeq(q, 1, j)) \o <<q[j + 1]>> = at(j + 1)
    <3>1. <<q[j + 1]>> \in Seq(C)
      BY <2>1
    <3>2. at(j + 1) = root \o (SubSeq(q, 1, j) \o <<q[j + 1]>>)
      BY <2>3
    <3>3. ASSUME NEW s \in Seq(C), NEW t \in Seq(C)
          PROVE  (root \o s) \o t = root \o (s \o t)
      BY ONLY root \in Seq(C), s \in Seq(C), t \in Seq(C), ConcatAssociative, SMTT(30)
    <3> HIDE DEF at
    <3> QED
      BY ONLY <2>2, <3>1, <3>2, <3>3
  <2>5. Append(at(j), q[j + 1]) = at(j) \o <<q[j + 1]>>
    <3>1. at(j) \in Seq(C)
      BY <2>2, ConcatProperties
    <3> HIDE DEF at
    <3> QED
      BY <2>1, <3>1, AppendIsConcat
  <2> QED
    BY <2>4, <2>5
<1> HIDE DEF walk, at
<1>5. 0 \in Good
  BY <1>0, <1>2, <1>3
<1>6. ASSUME NEW j \in Nat, j \in Good PROVE j + 1 \in Good
  <2>1. ASSUME j + 1 <= Len(q) PROVE walk[Len(p) + (j + 1)] \in {at(j + 1), Refusal}
    <3> DEFINE n == Len(p) + (j + 1)
    <3>1. n \in 1..Len(p \o q) /\ n - 1 = Len(p) + j /\ j + 1 \in 1..Len(q)
      BY <1>0, <2>1
    <3>2. walk[Len(p) + j] \in {at(j), Refusal}
      BY <1>0, <1>6, <2>1
    <3>3. walk[n] = WalkPart(walk[Len(p) + j], q[j + 1], root)
      BY <1>1, <1>2, <3>1
    <3>4. walk[n] \in {Append(at(j), q[j + 1]), Refusal}
      BY <1>1, <3>1, <3>2, <3>3 DEF WalkPart
    <3> QED
      BY <1>4, <2>1, <3>4
  <2> QED
    BY <2>1
<1>7. Nat \subseteq Good
  <2> HIDE DEF Good
  <2> QED
    BY <1>5, <1>6, NatSets
<1>8. walk[Len(p) + Len(q)] \in {at(Len(q)), Refusal}
  BY <1>0, <1>7
<1> QED
  BY <1>0, <1>3, <1>8 DEF walk

-----------------------------------------------------------------------------
(* The keys of folders.                                                    *)

\* The components of all paths and keys there are.
PartsOf(parts) == {parts[i] : i \in DOMAIN parts}
UserKeys == UNION {DOMAIN f.folders : f \in {x \in UserFiles : x.kind = "mappings"}}
Components ==
    {"?"} \cup Names \cup PartsOf(Roms.parts) \cup PartsOf(Cwd)
          \cup UNION {PartsOf(k) : k \in UserKeys}
Paths == Seq(Components)

(* Those that are given are sequences.                                     *)
LEMMA GivenPaths ==
    /\ "?" \in Components /\ Names \subseteq Components
    /\ Roms.parts \in Paths /\ Cwd \in Paths /\ UserKeys \subseteq Paths
<1>1. /\ "?" \in Components /\ Names \subseteq Components
      /\ PartsOf(Roms.parts) \subseteq Components /\ PartsOf(Cwd) \subseteq Components
      /\ \A k \in UserKeys : PartsOf(k) \subseteq Components
  BY DEF Components
<1>2. ASSUME NEW s, IsSequence(s), PartsOf(s) \subseteq Components PROVE s \in Paths
  <2>1. s \in Seq(PartsOf(s))
    BY <1>2 DEF IsSequence, PartsOf
  <2> HIDE DEF PartsOf, Components
  <2> QED
    BY <1>2, <2>1, SeqMonotonic DEF Paths
<1>3. IsSequence(Roms.parts) /\ IsSequence(Cwd) /\ \A k \in UserKeys : IsSequence(k)
  BY PathsAssumption, UserFilesAssumption DEF UserKeys
<1> QED
  BY <1>1, <1>2, <1>3

(* The ROM directory and the keys of folders are sequences of components.  *)
LEMMA RomRootType == RomRoot \in Paths /\ Parts(Roms) \in Paths
<1> HIDE DEF Components
<1>1. Parts(Roms) \in Paths
  BY GivenPaths, ConcatProperties DEF Parts, Paths
<1>2. Len(Parts(Roms)) \in 0..Len(Parts(Roms))
  BY <1>1, LenProperties DEF Paths
<1>3. RomRoot = Walk(Parts(Roms), NoRoot)[Len(Parts(Roms))]
  BY DEF RomRoot, AbsolutePath
<1> QED
  BY <1>1, <1>2, <1>3, WalkTypes, GivenPaths DEF Paths

(* The key of a folder is a sequence of components.                        *)
LEMMA FolderKeyType ==
    ASSUME NEW path, path.parts \in Paths PROVE FolderKey(path) \in Paths
<1> DEFINE dir == AbsolutePath(path, RomRoot)
           key == SubSeq(dir, Len(RomRoot) + 1, Len(dir))
<1>1. Parts(path) \in Paths
  BY GivenPaths, ConcatProperties DEF Parts, Paths
<1>2. Len(Parts(path)) \in 0..Len(Parts(path))
  BY <1>1, LenProperties DEF Paths
<1>3. dir = Walk(Parts(path), RomRoot)[Len(Parts(path))]
  BY DEF AbsolutePath
<1>4. dir \in Paths
  BY <1>1, <1>2, <1>3, WalkTypes, GivenPaths DEF Paths
<1> HIDE DEF dir
<1>5. key \in Paths
  <2>1. Len(RomRoot) \in Nat /\ Len(dir) \in Nat
    BY <1>4, RomRootType, LenProperties DEF Paths
  <2>2. \A i \in (Len(RomRoot) + 1)..Len(dir) : dir[i] \in Components
    BY <1>4, <2>1, ElementOfSeq DEF Paths
  <2> QED
    BY <2>1, <2>2, SubSeqProperties DEF Paths
<1>6. NoKey \in Paths
  BY DEF NoKey, Paths
<1>7. FolderKey(path) \in {key, NoKey}
  BY DEF FolderKey, dir
<1> HIDE DEF key
<1> QED
  BY <1>5, <1>6, <1>7

(* The path of a key is the key below the ROM directory.                   *)
LEMMA PartsOfKey ==
    ASSUME NEW key \in Paths
    PROVE  Parts(FolderPathForKey(key)) = Parts(Roms) \o key
<1> DEFINE path == FolderPathForKey(key)
<1>1. path.abs = Roms.abs /\ path.parts = Roms.parts \o key
  BY PathsAssumption DEF FolderPathForKey
<1>2. Cwd \o (Roms.parts \o key) = (Cwd \o Roms.parts) \o key
  <2>1. ASSUME NEW s \in Paths, NEW t \in Paths, NEW u \in Paths
        PROVE  s \o (t \o u) = (s \o t) \o u
    BY ONLY s \in Paths, t \in Paths, u \in Paths, ConcatAssociative, SMTT(30)
       DEF Paths
  <2> QED
    BY <2>1, GivenPaths
<1> QED
  BY <1>1, <1>2 DEF Parts

(* systems_folder_key of the path of a saved key is this key, or none.     *)
LEMMA KeyRoundTrip ==
    ASSUME NEW key \in Paths, KeyIsSafe(key)
    PROVE  FolderKey(FolderPathForKey(key)) \in {key, NoKey}
<1> DEFINE path == FolderPathForKey(key)
           p == Parts(Roms)
           dir == AbsolutePath(path, RomRoot)
           back == SubSeq(dir, Len(RomRoot) + 1, Len(dir))
<1>1. Parts(path) = p \o key
  BY PartsOfKey
<1>2. dir \in {RomRoot \o key, Refusal}
  <2>1. /\ dir = Walk(p \o key, RomRoot)[Len(p \o key)]
        /\ RomRoot = Walk(p, NoRoot)[Len(p)]
    BY <1>1 DEF AbsolutePath, RomRoot
  <2>2. "?" \in Components /\ p \in Seq(Components) /\ RomRoot \in Seq(Components)
            /\ key \in Seq(Components)
    BY GivenPaths, RomRootType DEF Paths
  <2> HIDE DEF dir, p
  <2> QED
    BY <2>1, <2>2, SafeTail
<1>3. dir = RomRoot \o key => back = key
  <2>1. /\ RomRoot \in Seq(Components) /\ key \in Seq(Components)
        /\ Len(RomRoot) \in Nat /\ Len(key) \in Nat
    BY RomRootType, LenProperties DEF Paths
  <2>2. key # <<>>
    BY DEF KeyIsSafe
  <2> HIDE DEF dir
  <2> QED
    BY ONLY <2>1, <2>2 DEF back
<1>4. FolderKey(path) \in {back, NoKey} /\ (dir = Refusal => FolderKey(path) = NoKey)
  BY DEF FolderKey
<1> HIDE DEF dir, back, path
<1>5. FolderKey(path) \in {key, NoKey}
  BY <1>2, <1>3, <1>4
<1> QED
  BY <1>5 DEF path
-----------------------------------------------------------------------------
(* What an edit proposes.                                                  *)

(* A loaded catalogue has no platform that is none.                        *)
LEMMA CatalogueIds == ASSUME TypeOK, mem.up PROVE NoId \notin Known(mem.cat)
  BY PaksAssumption, NoIdAssumption DEF TypeOK, Known, LoadCatalogue

(* The new entry of a folder stands for it, unless it says nothing; the    *)
(* entries of all others and the suffixes stay.                            *)
LEMMA FolderAfterEdit ==
    ASSUME NEW ov, NEW cat, OverridesOK(ov, cat), NoId \notin Known(cat),
           NEW key, NEW entry
    PROVE  LET new == Compact(SetFolder(ov, key, entry))
           IN /\ new.tags = ov.tags
              /\ \A k : FolderEntry(new, k) = IF k = key THEN entry ELSE FolderEntry(ov, k)
              /\ \A k : k \in DOMAIN new.folders <=> FolderEntry(new, k) # Empty
<1> DEFINE set == SetFolder(ov, key, entry)
           new == Compact(set)
<1>1. set.tags = ov.tags /\ set.folders = Put(ov.folders, key, entry)
  BY DEF SetFolder, OverridesOK
<1>2. new.tags = ov.tags
  <2>1. {t \in DOMAIN ov.tags : ov.tags[t] # NoId} = DOMAIN ov.tags
    BY DEF OverridesOK
  <2>2. new.tags = Only(ov.tags, DOMAIN ov.tags)
    BY <1>1, <2>1 DEF Compact
  <2> QED
    BY <2>2 DEF Only, OverridesOK, IsMap
<1>3. /\ DOMAIN new.folders = {k \in DOMAIN ov.folders \cup {key} : set.folders[k] # Empty}
      /\ \A k \in DOMAIN new.folders : new.folders[k] = set.folders[k]
  BY <1>1 DEF Compact, Only, Put
<1>4. \A k \in DOMAIN ov.folders \cup {key} :
          set.folders[k] = IF k = key THEN entry ELSE ov.folders[k]
  BY <1>1 DEF Put
<1>5. \A k \in DOMAIN ov.folders : ov.folders[k] # Empty
  BY DEF OverridesOK
<1> HIDE DEF new, set
<1>6. \A k : FolderEntry(new, k) = IF k = key THEN entry ELSE FolderEntry(ov, k)
  BY <1>3, <1>4, <1>5 DEF FolderEntry
<1>7. \A k : k \in DOMAIN new.folders <=> FolderEntry(new, k) # Empty
  BY <1>3 DEF FolderEntry
<1> QED
  BY <1>2, <1>6, <1>7 DEF new, set

(* The new default of a suffix stands for it, unless it is none; the       *)
(* defaults of all others and the folders stay.                            *)
LEMMA TagAfterEdit ==
    ASSUME NEW ov, NEW cat, OverridesOK(ov, cat), NoId \notin Known(cat),
           NEW t, NEW id
    PROVE  LET new == Compact(SetTag(ov, t, id))
           IN /\ new.folders = ov.folders
              /\ \A x : x # t => (x \in DOMAIN new.tags <=> x \in DOMAIN ov.tags)
              /\ \A x \in DOMAIN ov.tags : x # t => new.tags[x] = ov.tags[x]
              /\ t \in DOMAIN new.tags <=> id # NoId
              /\ id # NoId => new.tags[t] = id
<1> DEFINE set == SetTag(ov, t, id)
           new == Compact(set)
<1>0. \A x \in DOMAIN ov.tags : ov.tags[x] # NoId
  BY DEF OverridesOK
<1>1. /\ set.folders = ov.folders
      /\ \A x : x # t => (x \in DOMAIN set.tags <=> x \in DOMAIN ov.tags)
      /\ \A x \in DOMAIN ov.tags : x # t => set.tags[x] = ov.tags[x]
      /\ t \in DOMAIN set.tags => set.tags[t] = id
      /\ id # NoId => t \in DOMAIN set.tags
  <2>1. CASE set = ov /\ id = NoId /\ t \notin DOMAIN ov.tags
    BY <2>1
  <2>2. CASE set = [ov EXCEPT !.tags = Put(ov.tags, t, id)]
    <3>1. set.tags = Put(ov.tags, t, id) /\ set.folders = ov.folders
      BY <2>2 DEF OverridesOK
    <3> HIDE DEF set
    <3> QED
      BY <3>1 DEF Put
  <2> QED
    BY <2>1, <2>2 DEF SetTag
<1>2. new.folders = ov.folders
  <2>1. {k \in DOMAIN ov.folders : ov.folders[k] # Empty} = DOMAIN ov.folders
    BY DEF OverridesOK
  <2> HIDE DEF set
  <2>2. new.folders = Only(ov.folders, DOMAIN ov.folders)
    BY <1>1, <2>1 DEF Compact
  <2> QED
    BY <2>2 DEF Only, OverridesOK, IsMap
<1> HIDE DEF set
<1>3. /\ DOMAIN new.tags = {x \in DOMAIN set.tags : set.tags[x] # NoId}
      /\ \A x \in DOMAIN new.tags : new.tags[x] = set.tags[x]
  BY DEF Compact, Only
<1> HIDE DEF new
<1>4. /\ \A x : x # t => (x \in DOMAIN new.tags <=> x \in DOMAIN ov.tags)
      /\ \A x \in DOMAIN ov.tags : x # t => new.tags[x] = ov.tags[x]
  BY <1>0, <1>1, <1>3
<1>5. /\ t \in DOMAIN new.tags <=> id # NoId
      /\ id # NoId => new.tags[t] = id
  BY <1>1, <1>3
<1> QED
  BY <1>2, <1>4, <1>5 DEF new, set

\* What a call is about to save: one default of a suffix, or one entry of a
\* folder, with what the entry had besides.
ProposesTag ==
    \E t : /\ call.scope = "tag" /\ call.subject = <<t>>
           /\ call.proposed = Compact(SetTag(mem.overrides, t, call.value.platform))
ProposesFolder ==
    /\ call.scope \in {"folder", "hidden", "clear"}
    /\ call.proposed = Compact(SetFolder(mem.overrides, call.subject, call.value))
    /\ LET old == FolderEntry(mem.overrides, call.subject)
       IN /\ call.scope = "folder" => call.value = [old EXCEPT !.platform = call.value.platform]
          /\ call.scope = "hidden" => call.value = [old EXCEPT !.hidden = ~old.hidden]
    /\ call.scope = "clear" =>
           call.value = Empty /\ call.subject \notin {KeyOf[n] : n \in card}
ProposalInv == call.pc # "none" => ProposesTag \/ ProposesFolder
-----------------------------------------------------------------------------
(* What a save keeps.                                                      *)

\* What load_overrides can meet.
IsFile(file) ==
    /\ file.kind \in {"absent", "unreadable", "garbage", "mappings"}
    /\ file.kind = "mappings" =>
           \A k \in DOMAIN file.folders :
               file.folders[k].hidden \in {"absent", "true", "false", "not a boolean"}

(* A saved file says of each entry what the overrides have.                *)
LEMMA SavedSays ==
    ASSUME NEW ov, NEW cat, OverridesOK(ov, cat)
    PROVE  /\ \A t \in DOMAIN ov.tags : <<"tag", <<t>>, ov.tags[t]>> \in Says(ToJson(ov))
           /\ \A k : FolderEntry(ov, k).platform # NoId =>
                  <<"platform", k, FolderEntry(ov, k).platform>> \in Says(ToJson(ov))
           /\ \A k : FolderEntry(ov, k).hidden =>
                  <<"hidden", k, "true">> \in Says(ToJson(ov))
<1> DEFINE file == ToJson(ov)
<1>1. /\ file.kind = "mappings" /\ file.tags = ov.tags
      /\ DOMAIN file.folders = DOMAIN ov.folders
      /\ \A k \in DOMAIN ov.folders :
             /\ file.folders[k].platform = ov.folders[k].platform
             /\ ov.folders[k].hidden => file.folders[k].hidden = "true"
  BY DEF ToJson
<1>2. \A k : FolderEntry(ov, k) # Empty => k \in DOMAIN ov.folders /\ FolderEntry(ov, k) = ov.folders[k]
  BY DEF FolderEntry
<1>3. Empty.platform = NoId /\ Empty.hidden = FALSE
  BY DEF Empty
<1> HIDE DEF file
<1>4. \A t \in DOMAIN ov.tags : <<"tag", <<t>>, ov.tags[t]>> \in Says(file)
  BY <1>1 DEF Says
<1>5. ASSUME NEW k, FolderEntry(ov, k).platform # NoId
      PROVE  <<"platform", k, FolderEntry(ov, k).platform>> \in Says(file)
  <2>1. k \in DOMAIN ov.folders /\ FolderEntry(ov, k) = ov.folders[k]
    BY <1>2, <1>3, <1>5
  <2>2. k \in DOMAIN file.folders /\ file.folders[k].platform = FolderEntry(ov, k).platform
    BY <1>1, <2>1
  <2> QED
    BY <1>1, <1>5, <2>2 DEF Says
<1>6. ASSUME NEW k, FolderEntry(ov, k).hidden
      PROVE  <<"hidden", k, "true">> \in Says(file)
  <2>1. k \in DOMAIN ov.folders /\ FolderEntry(ov, k) = ov.folders[k]
    BY <1>2, <1>3, <1>6
  <2>2. k \in DOMAIN file.folders /\ file.folders[k].hidden = "true"
    BY <1>1, <1>6, <2>1
  <2> QED
    BY <1>1, <2>2 DEF Says
<1> QED
  BY <1>4, <1>5, <1>6 DEF file

(* A file that needs no backup was taken over: what it says is in effect.  *)
LEMMA UsableIsLoaded ==
    ASSUME NEW file, NEW cat, IsFile(file), ~NeedsBackup(file, cat)
    PROVE  LET ov == LoadOverrides(file, cat)
           IN  /\ file.kind \in {"absent", "mappings"}
               /\ \A s \in Says(file) :
                    \/ \E t \in DOMAIN ov.tags : s = <<"tag", <<t>>, ov.tags[t]>>
                    \/ \E k : /\ FolderEntry(ov, k).platform # NoId
                              /\ s = <<"platform", k, FolderEntry(ov, k).platform>>
                    \/ \E k : FolderEntry(ov, k).hidden /\ s = <<"hidden", k, "true">>
<1> DEFINE ov == LoadOverrides(file, cat)
<1>1. file.kind \in {"absent", "mappings"}
  BY DEF IsFile, NeedsBackup
<1>2. CASE file.kind # "mappings"
  BY <1>1, <1>2 DEF Says
<1>3. CASE file.kind = "mappings"
  <2>1. /\ file.tagsOk /\ file.foldersOk
        /\ \A t \in DOMAIN file.tags : TagUsable(file, cat, t)
        /\ \A k \in DOMAIN file.folders :
               /\ KeyUsable(file, k) /\ PlatformUsable(file.folders[k], cat)
               /\ file.folders[k].hidden \in {"absent", "true", "false"}
    BY <1>3 DEF NeedsBackup, IsFile
  <2>2. ov.tags = LoadTags(file, cat) /\ ov.folders = LoadFolders(file, cat)
    BY <1>3 DEF LoadOverrides
  <2>3. \A t \in DOMAIN file.tags : t \in DOMAIN ov.tags /\ ov.tags[t] = file.tags[t]
    BY <2>1, <2>2 DEF LoadTags, Only
  <2>4. ASSUME NEW k \in DOMAIN file.folders
        PROVE  FolderEntry(ov, k) = EntryRead(file.folders[k], cat)
    <3> DEFINE read == [x \in {y \in DOMAIN file.folders : KeyUsable(file, y)} |->
                           EntryRead(file.folders[x], cat)]
    <3>1. ov.folders = Only(read, {x \in DOMAIN read : read[x] # Empty})
      BY <2>1, <2>2 DEF LoadFolders
    <3>2. k \in DOMAIN read /\ read[k] = EntryRead(file.folders[k], cat)
      BY <2>1
    <3> HIDE DEF read, ov
    <3> QED
      BY <3>1, <3>2 DEF FolderEntry, Only
  <2>5. \A k \in DOMAIN file.folders :
            /\ FolderEntry(ov, k).platform = file.folders[k].platform
            /\ FolderEntry(ov, k).hidden = (file.folders[k].hidden = "true")
    BY <2>1, <2>4 DEF EntryRead
  <2> HIDE DEF ov
  <2>6. ASSUME NEW s \in Says(file)
        PROVE  \/ \E t \in DOMAIN ov.tags : s = <<"tag", <<t>>, ov.tags[t]>>
               \/ \E k : /\ FolderEntry(ov, k).platform # NoId
                         /\ s = <<"platform", k, FolderEntry(ov, k).platform>>
               \/ \E k : FolderEntry(ov, k).hidden /\ s = <<"hidden", k, "true">>
    <3>1. CASE s \in {<<"tag", <<t>>, file.tags[t]>> : t \in DOMAIN file.tags}
      BY <2>3, <3>1
    <3>2. CASE s \in {<<"platform", k, file.folders[k].platform>> :
                   k \in {x \in DOMAIN file.folders : file.folders[x].platform # NoId}}
      BY <2>5, <3>2
    <3>3. CASE s \in {<<"hidden", k, file.folders[k].hidden>> :
                   k \in {x \in DOMAIN file.folders :
                            file.folders[x].hidden \notin {"absent", "false"}}}
      <4>1. PICK k \in DOMAIN file.folders :
                 /\ file.folders[k].hidden \notin {"absent", "false"}
                 /\ s = <<"hidden", k, file.folders[k].hidden>>
        BY <3>3
      <4>2. file.folders[k].hidden = "true"
        BY <2>1, <4>1
      <4> QED
        BY <2>5, <4>1, <4>2
    <3> QED
      BY <1>3, <2>6, <3>1, <3>2, <3>3 DEF Says
  <2> QED
    BY <1>1, <2>6 DEF ov
<1> QED
  BY <1>1, <1>2, <1>3 DEF IsFile

(* What is in effect and not edited is in the proposal too.                *)
LEMMA OthersAreKept ==
    ASSUME TypeOK, mem.up, ProposesTag \/ ProposesFolder, NEW s,
           <<s[1], s[2]>> \notin Edits(call),
           LET ov == mem.overrides
           IN  \/ \E t \in DOMAIN ov.tags : s = <<"tag", <<t>>, ov.tags[t]>>
               \/ \E k : /\ FolderEntry(ov, k).platform # NoId
                         /\ s = <<"platform", k, FolderEntry(ov, k).platform>>
               \/ \E k : FolderEntry(ov, k).hidden /\ s = <<"hidden", k, "true">>
    PROVE  s \in Says(ToJson(call.proposed))
<1> DEFINE ov == mem.overrides
           new == call.proposed
<1>1. OverridesOK(ov, mem.cat) /\ OverridesOK(new, mem.cat) /\ NoId \notin Known(mem.cat)
  BY CatalogueIds DEF TypeOK
<1>2. /\ \A t \in DOMAIN new.tags : <<"tag", <<t>>, new.tags[t]>> \in Says(ToJson(new))
      /\ \A k : FolderEntry(new, k).platform # NoId =>
             <<"platform", k, FolderEntry(new, k).platform>> \in Says(ToJson(new))
      /\ \A k : FolderEntry(new, k).hidden => <<"hidden", k, "true">> \in Says(ToJson(new))
  BY <1>1, SavedSays
<1>3. CASE ProposesTag
  <2>1. PICK t : /\ call.scope = "tag" /\ call.subject = <<t>>
                 /\ new = Compact(SetTag(ov, t, call.value.platform))
    BY <1>3 DEF ProposesTag
  <2>2. /\ new.folders = ov.folders
        /\ \A x \in DOMAIN ov.tags : x # t => x \in DOMAIN new.tags /\ new.tags[x] = ov.tags[x]
    BY <1>1, <2>1, TagAfterEdit
  <2>3. \A k : FolderEntry(new, k) = FolderEntry(ov, k)
    BY <2>2 DEF FolderEntry
  <2>4. Edits(call) = {<<"tag", <<t>>>>}
    BY <2>1 DEF Edits
  <2> HIDE DEF ov, new
  <2>5. ASSUME NEW x \in DOMAIN ov.tags, s = <<"tag", <<x>>, ov.tags[x]>>
        PROVE  s \in Says(ToJson(new))
    <3>1. <<s[1], s[2]>> = <<"tag", <<x>>>>
      BY <2>5
    <3>2. x # t
      BY <2>4, <3>1
    <3> QED
      BY <1>2, <2>2, <2>5, <3>2
  <2> QED
    BY <1>2, <2>3, <2>5 DEF ov, new
<1>4. CASE ProposesFolder
  <2> DEFINE key == call.subject
             old == FolderEntry(ov, key)
  <2>1. /\ new.tags = ov.tags
        /\ \A k : FolderEntry(new, k) = IF k = key THEN call.value ELSE FolderEntry(ov, k)
    BY <1>1, <1>4, FolderAfterEdit DEF ProposesFolder
  <2>2. old \in Entries(mem.cat)
    BY <1>1, EntryType
  <2>3. /\ call.scope \in {"folder", "hidden", "clear"}
        /\ call.scope = "folder" => call.value.hidden = old.hidden
        /\ call.scope = "hidden" => call.value.platform = old.platform
    BY <1>4, <2>2 DEF ProposesFolder, Entries
  <2>4. /\ call.scope # "hidden" => <<"platform", key>> \in Edits(call)
        /\ call.scope # "folder" => <<"hidden", key>> \in Edits(call)
    BY <2>3 DEF Edits
  <2> HIDE DEF ov, new
  <2>5. ASSUME NEW x \in DOMAIN ov.tags, s = <<"tag", <<x>>, ov.tags[x]>>
        PROVE  s \in Says(ToJson(new))
    BY <1>2, <2>1, <2>5
  <2>6. ASSUME NEW k, FolderEntry(ov, k).platform # NoId,
               s = <<"platform", k, FolderEntry(ov, k).platform>>
        PROVE  FolderEntry(new, k).platform = FolderEntry(ov, k).platform
    <3>1. <<s[1], s[2]>> = <<"platform", k>>
      BY <2>6
    <3>2. k = key => call.value.platform = FolderEntry(ov, k).platform
      BY <2>3, <2>4, <3>1
    <3> QED
      BY <2>1, <3>2
  <2>7. ASSUME NEW k, FolderEntry(ov, k).hidden, s = <<"hidden", k, "true">>
        PROVE  FolderEntry(new, k).hidden
    <3>1. <<s[1], s[2]>> = <<"hidden", k>>
      BY <2>7
    <3>2. k = key => call.value.hidden = FolderEntry(ov, k).hidden
      BY <2>3, <2>4, <3>1
    <3> QED
      BY <2>1, <2>7, <3>2
  <2> QED
    BY <1>2, <2>5, <2>6, <2>7 DEF ov, new
<1> QED
  BY <1>3, <1>4

\* What is not in .rejected was taken over.
RestInv ==
    /\ IsFile(disk.file)
    /\ mem.up /\ ~mem.needBackup =>
           disk.rejected = disk.file \/ ~NeedsBackup(disk.file, mem.cat)

(* What ov_to_json wrote needs no backup.                                  *)
LEMMA SavedIsUsable ==
    ASSUME NEW ov, NEW cat, OverridesOK(ov, cat)
    PROVE  IsFile(ToJson(ov)) /\ ~NeedsBackup(ToJson(ov), cat)
<1> DEFINE file == ToJson(ov)
<1>1. /\ file.kind = "mappings" /\ file.tagsOk /\ file.foldersOk
      /\ file.tags = ov.tags /\ DOMAIN file.folders = DOMAIN ov.folders
      /\ \A k \in DOMAIN ov.folders :
             /\ file.folders[k].wellFormed
             /\ file.folders[k].platform = ov.folders[k].platform
             /\ file.folders[k].hidden \in {"true", "absent"}
  BY DEF ToJson
<1>2. /\ \A t \in DOMAIN ov.tags : ov.tags[t] \in Known(cat)
      /\ \A k \in DOMAIN ov.folders :
             KeyIsSafe(k) /\ ov.folders[k].platform \in Known(cat) \cup {NoId}
  BY DEF OverridesOK
<1> HIDE DEF file
<1>3. IsFile(file)
  BY <1>1 DEF IsFile
<1>4. ~NeedsBackup(file, cat)
  BY <1>1, <1>2 DEF NeedsBackup, TagUsable, KeyUsable, PlatformUsable
<1> QED
  BY <1>3, <1>4 DEF file

(* Only a rename replaces the file while the program runs.                 *)
LEMMA OnlyRename ==
    ASSUME Inv, [Next]_vars, mem.up, disk'.file # disk.file
    PROVE  /\ Rename /\ disk'.file = ToJson(call.proposed)
           /\ disk'.rejected = disk.rejected /\ mem' = mem
<1>0. Shapes
  BY DEF Inv
<1>1. ~Start /\ ~Outside /\ ~End /\ ~QueueFinish /\ ~UNCHANGED vars
  BY DEF Start, Outside, End, QueueFinish, vars
<1>2. \A n \in Names, p \in {"artwork", "cheats"} : ~QueueAdd(n, p)
  BY DEF QueueAdd
<1>3. ~Edit
  BY EditsAreOK DEF Commit, Inv
<1>4. ~OpenBackup /\ ~CopyBackup /\ ~OpenTmp /\ ~WriteTmp /\ ~Publish
  BY <1>0 DEF OpenBackup, CopyBackup, OpenTmp, WriteTmp, Publish, Shapes
<1>5. Rename
  BY <1>1, <1>2, <1>3, <1>4 DEF Next, Save
<1> QED
  BY <1>0, <1>5 DEF Rename, Shapes

(* The flag is lowered by nothing but a whole backup.                      *)
LEMMA RestStep == ASSUME Inv, RestInv, [Next]_vars PROVE RestInv'
<1>0. TypeOK /\ Shapes /\ BackupInv
  BY DEF Inv
<1>1. ASSUME disk'.file = disk.file, disk'.rejected = disk.rejected, mem'.cat = mem.cat,
             mem'.up => mem.up /\ mem'.needBackup = mem.needBackup
      PROVE  RestInv'
  BY <1>1 DEF RestInv
<1>2. CASE Start
  BY <1>2 DEF Start, RestInv
<1>3. CASE End
  BY <1>3 DEF End, NoMem, RestInv
<1>4. CASE Outside
  <2>1. ~mem'.up
    BY <1>4 DEF Outside
  <2>2. disk' = disk \/ \E f \in UserFiles : disk' = [disk EXCEPT !.file = f]
    BY <1>4 DEF Outside
  <2>3. IsFile(disk'.file)
    BY <1>0, <2>2, UserFilesAssumption DEF IsFile, RestInv, Shapes
  <2> QED
    BY <2>1, <2>3 DEF RestInv
<1>5. CASE (\E n \in Names, p \in {"artwork", "cheats"} : QueueAdd(n, p)) \/ QueueFinish
  BY <1>1, <1>5 DEF QueueAdd, QueueFinish
<1>6. CASE Edit
  BY <1>0, <1>1, <1>6, EditsAreOK DEF Commit
<1>7. CASE OpenBackup
  <2>1. mem.needBackup /\ mem' = mem /\ disk'.file = disk.file
    BY <1>0, <1>7 DEF OpenBackup, MustBackUp, Shapes
  <2> QED
    BY <2>1 DEF RestInv
<1>8. CASE CopyBackup
  <2>1. CASE disk' = [disk EXCEPT !.rejected = disk.file]
    <3>1. disk'.rejected = disk.file /\ disk'.file = disk.file
      BY <1>0, <2>1 DEF Shapes
    <3> QED
      BY <3>1 DEF RestInv
  <2>2. CASE disk' = [disk EXCEPT !.rejected = Absent] /\ UNCHANGED mem
    <3>1. disk'.file = disk.file /\ mem'.needBackup
      BY <1>0, <1>8, <2>2 DEF Shapes, CopyBackup, BackupInv
    <3> QED
      BY <3>1 DEF RestInv
  <2> QED
    BY <1>8, <2>1, <2>2 DEF CopyBackup
<1>9. CASE OpenTmp \/ WriteTmp
  BY <1>0, <1>1, <1>9 DEF OpenTmp, WriteTmp, Shapes
<1>10. CASE Rename
  <2>1. CASE disk' = [disk EXCEPT !.file = ToJson(call.proposed), !.tmp = "none"]
    <3>1. disk'.file = ToJson(call.proposed) /\ mem' = mem
      BY <1>0, <1>10, <2>1 DEF Shapes, Rename
    <3>2. OverridesOK(call.proposed, mem.cat)
      BY <1>0 DEF TypeOK
    <3> QED
      BY <3>1, <3>2, SavedIsUsable DEF RestInv
  <2>2. CASE disk' = [disk EXCEPT !.tmp = "none"]
    BY <1>0, <1>1, <1>10, <2>2 DEF Shapes, Rename
  <2> QED
    BY <1>10, <2>1, <2>2 DEF Rename
<1>11. CASE Publish
  <2>1. mem'.cat = mem.cat /\ mem'.up = mem.up /\ mem'.needBackup = mem.needBackup
    BY <1>0, <1>11 DEF Publish, Shapes
  <2> QED
    BY <1>1, <1>11, <2>1 DEF Publish
<1>12. CASE UNCHANGED vars
  BY <1>1, <1>12 DEF vars
<1> QED
  BY <1>2, <1>3, <1>4, <1>5, <1>6, <1>7, <1>8, <1>9, <1>10, <1>11, <1>12 DEF Next, Save

\* The keys of folders are paths.
KeysInv ==
    /\ disk.file.kind = "mappings" => DOMAIN disk.file.folders \subseteq Paths
    /\ DOMAIN mem.overrides.folders \subseteq Paths
    /\ DOMAIN call.proposed.folders \subseteq Paths

(* What a call proposes about a folder has a path for its key, and the rest*)
(* of it is in effect.                                                     *)
LEMMA CommitsFolder ==
    ASSUME TypeOK, KeysInv, mem.up, NEW scope \in {"folder", "hidden", "clear"},
           NEW key \in Paths, NEW entry,
           SetFolderAt(scope, key, entry),
           LET old == FolderEntry(mem.overrides, key)
           IN  /\ scope = "folder" => entry = [old EXCEPT !.platform = entry.platform]
               /\ scope = "hidden" => entry = [old EXCEPT !.hidden = ~old.hidden],
           scope = "clear" => entry = Empty /\ key \notin {KeyOf[n] : n \in card}
    PROVE  ProposalInv' /\ DOMAIN call'.proposed.folders \subseteq Paths
<1> DEFINE new == Compact(SetFolder(mem.overrides, key, entry))
<1>1. /\ call'.pc = "persist" /\ call'.scope = scope /\ call'.subject = key
      /\ call'.value = entry /\ call'.proposed = new
      /\ card' = card /\ mem' = mem
  BY DEF SetFolderAt, Commit
<1>2. \A k \in DOMAIN new.folders : k \in DOMAIN mem.overrides.folders \/ k = key
  <2>1. OverridesOK(mem.overrides, mem.cat) /\ NoId \notin Known(mem.cat)
    BY CatalogueIds DEF TypeOK
  <2> QED
    BY <2>1, FolderAfterEdit DEF FolderEntry
<1> HIDE DEF new
<1>3. DOMAIN call'.proposed.folders \subseteq Paths
  BY <1>1, <1>2 DEF KeysInv
<1>4. ProposesFolder'
  BY <1>1 DEF ProposesFolder, new
<1> QED
  BY <1>3, <1>4 DEF ProposalInv

(* Every mutation proposes what its name says.                             *)
LEMMA EditsPropose ==
    ASSUME TypeOK, KeysInv, Edit
    PROVE  ProposalInv' /\ DOMAIN call'.proposed.folders \subseteq Paths
<1> DEFINE ov == mem.overrides
<1>0. mem.up /\ OverridesOK(ov, mem.cat) /\ NoId \notin Known(mem.cat)
  BY EditsAreOK, CatalogueIds DEF TypeOK, Idle
<1>1. ASSUME NEW n \in Names PROVE KeyOf[n] \in Paths
  <2>1. FolderPath(n).parts = Append(Roms.parts, n)
    BY PathsAssumption DEF FolderPath
  <2>2. Append(Roms.parts, n) \in Paths
    BY GivenPaths, AppendProperties DEF Paths
  <2> QED
    BY <2>1, <2>2, FolderKeyType DEF KeyOf
<1>2. ASSUME NEW n \in Names, NEW id \in Ids \cup {NoId}, SetFolderPlatform(n, id)
      PROVE  ProposalInv' /\ DOMAIN call'.proposed.folders \subseteq Paths
  <2> DEFINE old == FolderEntry(ov, KeyOf[n])
             entry == [old EXCEPT !.platform = id]
  <2>1. old \in Entries(mem.cat)
    BY <1>0, EntryType
  <2>2. entry = [old EXCEPT !.platform = entry.platform]
    BY <2>1 DEF Entries
  <2>3. SetFolderAt("folder", KeyOf[n], entry)
    BY <1>2 DEF SetFolderPlatform
  <2> HIDE DEF entry
  <2> QED
    BY <1>0, <1>1, <2>2, <2>3, CommitsFolder
<1>3. ASSUME NEW n \in Names, ToggleFolderHidden(n)
      PROVE  ProposalInv' /\ DOMAIN call'.proposed.folders \subseteq Paths
  <2> DEFINE old == FolderEntry(ov, KeyOf[n])
             entry == [old EXCEPT !.hidden = ~old.hidden]
  <2>1. Mapping(mem, n).hidden = old.hidden
    BY DEF Mapping, Resolve
  <2>2. SetFolderAt("hidden", KeyOf[n], entry)
    BY <1>3, <2>1 DEF ToggleFolderHidden
  <2> HIDE DEF entry
  <2> QED
    BY <1>0, <1>1, <2>2, CommitsFolder DEF entry
<1>4. ASSUME NEW key \in MissingKeys, ClearMissing(key)
      PROVE  ProposalInv' /\ DOMAIN call'.proposed.folders \subseteq Paths
  <2>1. key \in DOMAIN ov.folders /\ key \notin {KeyOf[n] : n \in card}
    BY DEF MissingKeys
  <2>2. key \in Paths /\ KeyIsSafe(key)
    BY <1>0, <2>1 DEF KeysInv, OverridesOK
  <2>3. SetFolderAt("clear", FolderKey(FolderPathForKey(key)), Empty)
    BY <1>4 DEF ClearMissing
  <2>4. FolderKey(FolderPathForKey(key)) = key
    BY <2>2, <2>3, KeyRoundTrip DEF SetFolderAt
  <2>5. SetFolderAt("clear", key, Empty)
    BY <2>3, <2>4
  <2> QED
    BY <1>0, <2>1, <2>2, <2>5, CommitsFolder
<1>5. ASSUME NEW t \in Tags, NEW id \in Ids \cup {NoId}, SetTagDefault(t, id)
      PROVE  ProposalInv' /\ DOMAIN call'.proposed.folders \subseteq Paths
  <2> DEFINE value == [Empty EXCEPT !.platform = id]
  <2>1. value.platform = id
    BY DEF Empty
  <2>2. /\ call'.scope = "tag" /\ call'.subject = <<t>> /\ call'.value = value
        /\ call'.proposed = Compact(SetTag(ov, t, id)) /\ mem' = mem
    BY <1>5 DEF SetTagDefault, Commit
  <2>3. call'.proposed.folders = ov.folders
    BY <1>0, <2>2, TagAfterEdit
  <2> HIDE DEF value
  <2>4. ProposesTag'
    BY <2>1, <2>2 DEF ProposesTag
  <2> QED
    BY <2>3, <2>4 DEF ProposalInv, KeysInv
<1> QED
  BY <1>2, <1>3, <1>4, <1>5 DEF Edit

\* The parts together.
EditInv == RestInv /\ KeysInv /\ ProposalInv

(* No file the user left, and nothing proposed, at first.                  *)
LEMMA InitEdits == Init => EditInv
<1> SUFFICES ASSUME Init PROVE EditInv
  OBVIOUS
<1>1. disk.file \in UserFiles /\ mem = NoMem /\ call = NoCall
  BY DEF Init
<1>2. DOMAIN Nothing.folders = {}
  BY DEF Nothing, EmptyMap
<1>3. RestInv
  BY <1>1, UserFilesAssumption DEF RestInv, IsFile, NoMem
<1>4. KeysInv
  BY <1>1, <1>2, GivenPaths DEF KeysInv, NoMem, NoCall, UserKeys
<1>5. ProposalInv
  BY <1>1 DEF ProposalInv, NoCall
<1> QED
  BY <1>3, <1>4, <1>5 DEF EditInv

(* Keys stay paths when they are loaded and saved.                         *)
LEMMA KeysStep == ASSUME Inv, KeysInv, [Next]_vars PROVE KeysInv'
<1>0. TypeOK /\ Shapes
  BY DEF Inv
<1>1. ASSUME disk'.file = disk.file, mem'.overrides = mem.overrides,
             call'.proposed = call.proposed \/ call' = NoCall
      PROVE  KeysInv'
  BY <1>1 DEF KeysInv, NoCall, Nothing, EmptyMap
<1>2. CASE Start
  <2>1. UNCHANGED <<disk, call>> /\ mem'.overrides = LoadOverrides(disk.file, mem'.cat)
    BY <1>2 DEF Start
  <2>2. ASSUME NEW k \in DOMAIN LoadOverrides(disk.file, mem'.cat).folders PROVE k \in Paths
    <3>1. CASE disk.file.kind # "mappings"
      BY <2>2, <3>1 DEF LoadOverrides, Nothing, EmptyMap
    <3>2. CASE disk.file.kind = "mappings"
      BY <2>2, <3>2 DEF LoadOverrides, LoadFolders, Only, EmptyMap, KeysInv
    <3> QED
      BY <3>1, <3>2
  <2> QED
    BY <2>1, <2>2 DEF KeysInv
<1>3. CASE End
  BY <1>3 DEF End, NoMem, NoCall, KeysInv, Nothing, EmptyMap
<1>4. CASE Outside
  <2>1. disk' = disk \/ \E f \in UserFiles : disk' = [disk EXCEPT !.file = f]
    BY <1>4 DEF Outside
  <2>2. disk'.file = disk.file \/ disk'.file \in UserFiles
    BY <1>0, <2>1 DEF Shapes
  <2>3. disk'.file.kind = "mappings" => DOMAIN disk'.file.folders \subseteq Paths
    BY <2>2, GivenPaths DEF KeysInv, UserKeys
  <2> QED
    BY <1>4, <2>3 DEF Outside, KeysInv
<1>5. CASE (\E n \in Names, p \in {"artwork", "cheats"} : QueueAdd(n, p)) \/ QueueFinish
  BY <1>1, <1>5 DEF QueueAdd, QueueFinish
<1>6. CASE Edit
  <2>1. UNCHANGED <<disk, mem>>
    BY <1>0, <1>6, EditsAreOK DEF Commit
  <2> QED
    BY <1>0, <1>6, <2>1, EditsPropose DEF KeysInv
<1>7. CASE OpenBackup \/ OpenTmp \/ WriteTmp
  BY <1>0, <1>1, <1>7, CallSteps DEF OpenBackup, OpenTmp, WriteTmp, Shapes
<1>8. CASE CopyBackup
  <2>1. disk'.file = disk.file /\ mem'.overrides = mem.overrides
    BY <1>0, <1>8 DEF CopyBackup, Shapes
  <2> QED
    BY <1>0, <1>1, <1>8, <2>1, CallSteps DEF CopyBackup
<1>9. CASE Rename
  <2>1. CASE disk' = [disk EXCEPT !.file = ToJson(call.proposed), !.tmp = "none"]
                 /\ Goto("publish")
    <3>1. disk'.file = ToJson(call.proposed) /\ mem' = mem /\ call'.proposed = call.proposed
      BY <1>0, <1>9, <2>1, CallSteps DEF Shapes, Rename
    <3>2. DOMAIN ToJson(call.proposed).folders = DOMAIN call.proposed.folders
      BY DEF ToJson
    <3> QED
      BY <3>1, <3>2 DEF KeysInv
  <2>2. CASE disk' = [disk EXCEPT !.tmp = "none"] /\ GiveUp
    <3>1. disk'.file = disk.file /\ mem' = mem /\ call' = NoCall
      BY <1>0, <1>9, <2>2, CallSteps DEF Shapes, Rename
    <3> QED
      BY <1>1, <3>1
  <2> QED
    BY <1>9, <2>1, <2>2 DEF Rename
<1>10. CASE Publish
  <2>1. mem'.overrides = call.proposed /\ UNCHANGED disk /\ call' = NoCall
    BY <1>0, <1>10, CallSteps DEF Publish, Shapes
  <2> QED
    BY <2>1 DEF KeysInv, NoCall, Nothing, EmptyMap
<1>11. CASE UNCHANGED vars
  BY <1>1, <1>11 DEF vars
<1> QED
  BY <1>2, <1>3, <1>4, <1>5, <1>6, <1>7, <1>8, <1>9, <1>10, <1>11 DEF Next, Save

(* While a call saves its proposal, neither it nor what it is based on     *)
(* changes.                                                                *)
LEMMA ProposalStep == ASSUME Inv, KeysInv, ProposalInv, [Next]_vars PROVE ProposalInv'
<1>0. TypeOK /\ Shapes
  BY DEF Inv
<1>1. ASSUME UNCHANGED <<card, call>>, mem'.overrides = mem.overrides PROVE ProposalInv'
  BY <1>1 DEF ProposalInv, ProposesTag, ProposesFolder
<1>2. ASSUME call'.pc = "none" PROVE ProposalInv'
  BY <1>2 DEF ProposalInv
<1>3. ASSUME UNCHANGED card, mem'.overrides = mem.overrides, NEW pc, Goto(pc), call.pc # "none"
      PROVE  ProposalInv'
  <2>1. /\ call'.scope = call.scope /\ call'.subject = call.subject
        /\ call'.value = call.value /\ call'.proposed = call.proposed
    BY <1>0, <1>3, CallSteps
  <2> QED
    BY <1>3, <2>1 DEF ProposalInv, ProposesTag, ProposesFolder
<1>4. CASE Start \/ Outside
  BY <1>0, <1>2, <1>4 DEF Start, Outside, TypeOK, NoCall
<1>5. CASE End
  BY <1>2, <1>5 DEF End, NoCall
<1>6. CASE (\E n \in Names, p \in {"artwork", "cheats"} : QueueAdd(n, p)) \/ QueueFinish
  BY <1>1, <1>6 DEF QueueAdd, QueueFinish
<1>7. CASE Edit
  BY <1>0, <1>7, EditsPropose
<1>8. CASE OpenBackup \/ OpenTmp \/ WriteTmp
  BY <1>2, <1>3, <1>8 DEF OpenBackup, OpenTmp, WriteTmp, GiveUp, NoCall
<1>9. CASE CopyBackup
  <2>1. mem'.overrides = mem.overrides
    BY <1>0, <1>9 DEF CopyBackup, Shapes
  <2> QED
    BY <1>2, <1>3, <1>9, <2>1 DEF CopyBackup, GiveUp, NoCall
<1>10. CASE Rename
  BY <1>2, <1>3, <1>10 DEF Rename, GiveUp, NoCall
<1>11. CASE Publish
  BY <1>2, <1>11 DEF Publish, GiveUp, NoCall
<1>12. CASE UNCHANGED vars
  BY <1>1, <1>12 DEF vars
<1> QED
  BY <1>4, <1>5, <1>6, <1>7, <1>8, <1>9, <1>10, <1>11, <1>12 DEF Next, Save

(* The invariant of the edits holds throughout.                            *)
LEMMA EditsHold == Spec => [](Inv /\ EditInv)
<1>1. Init => Inv /\ EditInv
  BY InitInv, InitEdits
<1>2. (Inv /\ EditInv) /\ [Next]_vars => (Inv /\ EditInv)'
  BY InvStep, RestStep, KeysStep, ProposalStep DEF EditInv
<1> QED
  BY <1>1, <1>2, PTL DEF Spec

(* SaveKeepsTheRest: an edit changes its own entry of the file; whatever   *)
(* else the file said is there afterwards, or is in .rejected with all of  *)
(* the old file.                                                           *)
THEOREM RestStays == Spec => SaveKeepsTheRest
<1>1. ASSUME Inv, EditInv, [Next]_vars, mem.up, disk'.file # disk.file
      PROVE  \/ disk'.rejected = disk.file
             \/ /\ disk.file.kind \in {"absent", "mappings"}
                /\ \A s \in Says(disk.file) :
                       <<s[1], s[2]>> \in Edits(call) \/ s \in Says(disk'.file)
  <2>1. /\ call.pc = "rename" /\ disk'.file = ToJson(call.proposed)
        /\ disk'.rejected = disk.rejected
    BY <1>1, OnlyRename DEF Rename
  <2>2. /\ LoadOverrides(disk.file, mem.cat) = mem.overrides
        /\ ~mem.needBackup /\ TypeOK
    BY <1>1, <2>1 DEF Inv, FileInv, BackupInv
  <2>3. ProposesTag \/ ProposesFolder
    BY <1>1, <2>1 DEF EditInv, ProposalInv
  <2>4. CASE disk.rejected = disk.file
    BY <2>1, <2>4
  <2>5. CASE ~NeedsBackup(disk.file, mem.cat)
    <3>1. IsFile(disk.file)
      BY <1>1 DEF EditInv, RestInv
    <3>2. ASSUME NEW s \in Says(disk.file), <<s[1], s[2]>> \notin Edits(call)
          PROVE  s \in Says(ToJson(call.proposed))
      BY <1>1, <2>2, <2>3, <2>5, <3>1, <3>2, UsableIsLoaded, OthersAreKept
    <3>3. disk.file.kind \in {"absent", "mappings"}
      BY <2>5, <3>1, UsableIsLoaded
    <3> QED
      BY <2>1, <3>2, <3>3
  <2> QED
    BY <1>1, <2>2, <2>4, <2>5 DEF EditInv, RestInv
<1>2. Inv /\ EditInv /\ [Next]_vars =>
        [mem.up /\ disk'.file # disk.file =>
           \/ disk'.rejected = disk.file
           \/ /\ disk.file.kind \in {"absent", "mappings"}
              /\ \A s \in Says(disk.file) :
                     <<s[1], s[2]>> \in Edits(call) \/ s \in Says(disk'.file)]_vars
  BY <1>1
<1> QED
  BY <1>2, EditsHold, PTL DEF Spec, SaveKeepsTheRest

-----------------------------------------------------------------------------
(* What an edit does.                                                      *)

(* A folder is resolved from its own entry, or else by its suffix.         *)
LEMMA Resolved ==
    ASSUME NEW m, NEW n
    PROVE  LET folder == FolderEntry(m.overrides, KeyOf[n])
               rest == ResolveTag(m, TagOf[n])
           IN /\ folder.platform # NoId =>
                     Mapping(m, n) = [platform |-> folder.platform, source |-> "folder",
                                      hidden |-> folder.hidden]
              /\ folder.platform = NoId =>
                     Mapping(m, n) = [platform |-> rest.platform, source |-> rest.source,
                                      hidden |-> folder.hidden]
              /\ rest.source \in {"tag", "builtin", "none"}
  BY DEF Mapping, Resolve, ResolveTag

(* An edit of a folder's entry is seen by this folder alone: its platform, *)
(* that of its suffix once it is cleared, or that it is hidden.            *)
LEMMA FolderEffect ==
    ASSUME TypeOK, mem.up, ProposesFolder, NEW m, m.cat = mem.cat,
           m.overrides = call.proposed, NEW n \in card
    PROVE  Mapping(m, n) = AfterEdit(n)
<1> DEFINE ov == mem.overrides
           old == FolderEntry(ov, KeyOf[n])
           new == FolderEntry(m.overrides, KeyOf[n])
           rest == ResolveTag(mem, TagOf[n])
           mine == call.subject = KeyOf[n]
<1>0. OverridesOK(ov, mem.cat) /\ NoId \notin Known(mem.cat)
  BY CatalogueIds DEF TypeOK
<1>1. /\ m.overrides.tags = ov.tags
      /\ new = IF mine THEN call.value ELSE old
  <2>1. LET c == Compact(SetFolder(ov, call.subject, call.value))
        IN  /\ c.tags = ov.tags
            /\ \A k : FolderEntry(c, k) = IF k = call.subject THEN call.value
                                          ELSE FolderEntry(ov, k)
    BY <1>0, FolderAfterEdit
  <2> QED
    BY <2>1 DEF ProposesFolder
<1>2. ResolveTag(m, TagOf[n]) = rest
  BY <1>1 DEF ResolveTag
<1>3. old \in Entries(mem.cat)
  BY <1>0, EntryType
<1>4. /\ new.platform # NoId =>
             Mapping(m, n) = [platform |-> new.platform, source |-> "folder",
                              hidden |-> new.hidden]
      /\ new.platform = NoId =>
             Mapping(m, n) = [platform |-> rest.platform, source |-> rest.source,
                              hidden |-> new.hidden]
      /\ old.platform # NoId =>
             Mapping(mem, n) = [platform |-> old.platform, source |-> "folder",
                                hidden |-> old.hidden]
      /\ old.platform = NoId =>
             Mapping(mem, n) = [platform |-> rest.platform, source |-> rest.source,
                                hidden |-> old.hidden]
  BY <1>2, Resolved
<1>5. mine => /\ call.scope = "folder" => call.value = [old EXCEPT !.platform = call.value.platform]
              /\ call.scope = "hidden" => call.value = [old EXCEPT !.hidden = ~old.hidden]
              /\ call.scope # "clear"
  BY DEF ProposesFolder
<1>a. \E a, b : Mapping(mem, n) = [platform |-> a, source |-> b, hidden |-> old.hidden]
  <2> HIDE DEF old, new, rest
  <2> QED
    BY <1>4
<1>6. CASE ~mine
  <2>1. Mapping(m, n) = Mapping(mem, n)
    BY <1>1, <1>4, <1>6
  <2>2. Mapping(mem, n) = [Mapping(mem, n) EXCEPT !.hidden = Mapping(mem, n).hidden]
    BY <1>4
  <2>3. AfterEdit(n) = Mapping(mem, n)
    BY <1>6, <2>2 DEF AfterEdit, ProposesFolder
  <2> QED
    BY <2>1, <2>3
<1>7. CASE mine /\ call.scope = "hidden"
  <2>1. new = [old EXCEPT !.hidden = ~old.hidden]
    BY <1>1, <1>5, <1>7
  <2> HIDE DEF new, old, rest
  <2>2. new.platform = old.platform /\ new.hidden = ~old.hidden
    BY <1>3, <2>1 DEF Entries
  <2>3. AfterEdit(n) = [Mapping(mem, n) EXCEPT !.hidden = ~Mapping(mem, n).hidden]
    BY <1>7 DEF AfterEdit
  <2> QED
    BY <1>4, <2>2, <2>3
<1>8. CASE mine /\ call.scope = "folder"
  <2> DEFINE id == call.value.platform
  <2>1. new = call.value /\ call.value = [old EXCEPT !.platform = id]
    BY <1>1, <1>5, <1>8
  <2> HIDE DEF new, old
  <2>2. new.platform = id /\ new.hidden = old.hidden
    BY <1>3, <2>1 DEF Entries
  <2>3. CASE id # NoId
    <3>1. AfterEdit(n) = [platform |-> id, source |-> "folder",
                          hidden |-> Mapping(mem, n).hidden]
      BY <1>8, <2>3 DEF AfterEdit
    <3> HIDE DEF rest, id
    <3>2. AfterEdit(n) = [platform |-> id, source |-> "folder", hidden |-> old.hidden]
      BY <1>a, <3>1
    <3> QED
      BY <1>4, <2>2, <2>3, <3>2
  <2>4. CASE id = NoId
    <3>1. AfterEdit(n) = [platform |-> rest.platform, source |-> rest.source,
                          hidden |-> Mapping(mem, n).hidden]
      BY <1>8, <2>4 DEF AfterEdit
    <3> HIDE DEF rest, id
    <3>2. AfterEdit(n) = [platform |-> rest.platform, source |-> rest.source,
                          hidden |-> old.hidden]
      BY <1>a, <3>1
    <3> QED
      BY <1>4, <2>2, <2>4, <3>2
  <2> QED
    BY <2>3, <2>4
<1> QED
  BY <1>5, <1>6, <1>7, <1>8 DEF ProposesFolder

(* A default of a suffix is seen by the folders that have this suffix and  *)
(* no choice of their own; without one they get the bundled default.       *)
LEMMA TagEffect ==
    ASSUME TypeOK, mem.up, ProposesTag, NEW m, m.cat = mem.cat,
           m.overrides = call.proposed, NEW n \in card
    PROVE  Mapping(m, n) = AfterEdit(n)
<1> DEFINE ov == mem.overrides
           id == call.value.platform
           folder == FolderEntry(ov, KeyOf[n])
           rest == ResolveTag(mem, TagOf[n])
           new == ResolveTag(m, TagOf[n])
<1>0. OverridesOK(ov, mem.cat) /\ NoId \notin Known(mem.cat)
  BY CatalogueIds DEF TypeOK
<1>1. PICK t : /\ call.scope = "tag" /\ call.subject = <<t>>
               /\ call.proposed = Compact(SetTag(ov, t, id))
  BY DEF ProposesTag
<1>2. /\ m.overrides.folders = ov.folders
      /\ \A x : x # t => (x \in DOMAIN m.overrides.tags <=> x \in DOMAIN ov.tags)
      /\ \A x \in DOMAIN ov.tags : x # t => m.overrides.tags[x] = ov.tags[x]
      /\ t \in DOMAIN m.overrides.tags <=> id # NoId
      /\ id # NoId => m.overrides.tags[t] = id
  BY <1>0, <1>1, TagAfterEdit
<1>3. FolderEntry(m.overrides, KeyOf[n]) = folder
  BY <1>2 DEF FolderEntry
<1>4. /\ folder.platform # NoId =>
             /\ Mapping(m, n) = [platform |-> folder.platform, source |-> "folder",
                                 hidden |-> folder.hidden]
             /\ Mapping(mem, n) = [platform |-> folder.platform, source |-> "folder",
                                   hidden |-> folder.hidden]
      /\ folder.platform = NoId =>
             /\ Mapping(m, n) = [platform |-> new.platform, source |-> new.source,
                                 hidden |-> folder.hidden]
             /\ Mapping(mem, n) = [platform |-> rest.platform, source |-> rest.source,
                                   hidden |-> folder.hidden]
      /\ rest.source \in {"tag", "builtin", "none"}
  BY <1>3, Resolved
<1>a. \E a, b : Mapping(mem, n) = [platform |-> a, source |-> b, hidden |-> folder.hidden]
  <2> HIDE DEF folder, new, rest
  <2> QED
    BY <1>4
<1>5. CASE TagOf[n] # t
  <2>1. new = rest
    BY <1>2, <1>5 DEF ResolveTag
  <2>2. <<TagOf[n]>> # <<t>>
    BY <1>5
  <2>3. AfterEdit(n) = Mapping(mem, n)
    BY <1>1, <2>2 DEF AfterEdit
  <2> HIDE DEF new, rest, folder
  <2> QED
    BY <1>4, <2>1, <2>3
<1>6. CASE TagOf[n] = t /\ folder.platform # NoId
  <2>1. Mapping(mem, n).source = "folder"
    BY <1>4, <1>6
  <2>2. AfterEdit(n) = Mapping(mem, n)
    BY <1>1, <2>1 DEF AfterEdit
  <2> QED
    BY <1>4, <1>6, <2>2
<1>7. CASE TagOf[n] = t /\ folder.platform = NoId
  <2> DEFINE bundled == BuiltinTag(mem.cat, TagOf[n])
  <2>1. Mapping(mem, n).source # "folder" /\ call.subject = <<TagOf[n]>>
    BY <1>1, <1>4, <1>7
  <2>2. CASE id # NoId
    <3>1. AfterEdit(n) = [platform |-> id, source |-> "tag",
                          hidden |-> Mapping(mem, n).hidden]
      BY <1>1, <2>1, <2>2 DEF AfterEdit
    <3>2. new = [platform |-> id, source |-> "tag"]
      BY <1>2, <1>7, <2>2 DEF ResolveTag
    <3> HIDE DEF new, rest, folder, id
    <3>3. AfterEdit(n) = [platform |-> id, source |-> "tag", hidden |-> folder.hidden]
      BY <1>a, <3>1
    <3> QED
      BY <1>4, <1>7, <3>2, <3>3
  <2>3. CASE id = NoId
    <3>1. AfterEdit(n) = [platform |-> bundled,
                          source |-> IF bundled = NoId THEN "none" ELSE "builtin",
                          hidden |-> Mapping(mem, n).hidden]
      BY <1>1, <2>1, <2>3 DEF AfterEdit
    <3>2. new = [platform |-> bundled,
                 source |-> IF bundled = NoId THEN "none" ELSE "builtin"]
      BY <1>2, <1>7, <2>3 DEF ResolveTag
    <3> HIDE DEF new, rest, folder, id, bundled
    <3>3. AfterEdit(n) = [platform |-> bundled,
                          source |-> IF bundled = NoId THEN "none" ELSE "builtin",
                          hidden |-> folder.hidden]
      BY <1>a, <3>1
    <3> QED
      BY <1>4, <1>7, <3>2, <3>3
  <2> QED
    BY <2>2, <2>3
<1> QED
  BY <1>5, <1>6, <1>7

(* EditsTakeEffect: every edit is seen by exactly the folders it is meant  *)
(* for, whatever the catalogue, the card and the file were.                *)
THEOREM EditsAreSeen == Spec => EditsTakeEffect
<1>1. ASSUME Inv, EditInv, JobsInv, [Next]_vars, vars' # vars, call.pc = "publish", mem'.up
      PROVE  \A n \in card : Mapping(mem', n) = AfterEdit(n)
  <2>0. TypeOK /\ Shapes /\ mem.up /\ jobs = {}
    BY <1>1 DEF Inv, JobsInv, TypeOK, NoCall
  <2>1. Publish
    <3>1. ~Start /\ ~End /\ ~Outside /\ ~QueueFinish
      BY <1>1, <2>0 DEF Start, End, Outside, QueueFinish, NoMem
    <3>2. \A n \in Names, p \in {"artwork", "cheats"} : ~QueueAdd(n, p)
      BY <1>1 DEF QueueAdd, Idle
    <3>3. ~Edit
      BY <1>1, <2>0, EditsAreOK DEF Idle
    <3>4. ~OpenBackup /\ ~CopyBackup /\ ~OpenTmp /\ ~WriteTmp /\ ~Rename
      BY <1>1 DEF OpenBackup, CopyBackup, OpenTmp, WriteTmp, Rename
    <3> QED
      BY <1>1, <3>1, <3>2, <3>3, <3>4 DEF Next, Save
  <2>2. mem'.cat = mem.cat /\ mem'.overrides = call.proposed
    BY <2>0, <2>1 DEF Publish, Shapes
  <2>3. ProposesTag \/ ProposesFolder
    BY <1>1 DEF EditInv, ProposalInv
  <2> QED
    BY <2>0, <2>2, <2>3, TagEffect, FolderEffect
<1>2. Inv /\ EditInv /\ JobsInv /\ [Next]_vars =>
        [call.pc = "publish" /\ mem'.up =>
           \A n \in card : Mapping(mem', n) = AfterEdit(n)]_vars
  BY <1>1
<1>3. Init => JobsInv
  BY InitInv
<1>4. (Inv /\ EditInv /\ JobsInv) /\ [Next]_vars => JobsInv'
  BY JobsStep
<1> QED
  BY <1>2, <1>3, <1>4, EditsHold, PTL DEF Spec, EditsTakeEffect
-----------------------------------------------------------------------------
(* Rows: sequences that list a set.                                        *)

\* A sequence of members of S, none of them twice.
Rows(s, S) == s \in Seq(S) /\ \A i, j \in 1..Len(s) : s[i] = s[j] => i = j
\* And all of them.
Lists(s, S) == Rows(s, S) /\ \A x \in S : \E i \in 1..Len(s) : s[i] = x

(* A list of a set has each of its members once, so the set is finite.     *)
LEMMA ListsAreOnce == ASSUME NEW s, NEW S, Lists(s, S) PROVE Once(s, S) /\ IsFiniteSet(S)
<1>1. Len(s) \in Nat /\ DOMAIN s = 1..Len(s) /\ s \in [1..Len(s) -> S]
  BY LenProperties DEF Lists, Rows
<1>2. s \in Bijection(1..Len(s), S)
  BY <1>1 DEF Lists, Rows, Bijection, Injection, Surjection, IsInjective
<1>3. Cardinality(S) = Len(s)
  BY <1>1, <1>2, FS_CountingElements DEF ExistsBijection
<1>4. ToSet(s) = S
  BY <1>1 DEF Lists, ToSet
<1>5. IsFiniteSet(S)
  BY <1>1, <1>2, FS_NatBijection DEF ExistsBijection
<1> QED
  BY <1>3, <1>4, <1>5 DEF Once

(* A sequence without repetition lists the set of its members.             *)
LEMMA RowsAreLists ==
    ASSUME NEW s, NEW S, Rows(s, S) PROVE Lists(s, ToSet(s)) /\ ToSet(s) \subseteq S
<1>1. Len(s) \in Nat /\ DOMAIN s = 1..Len(s) /\ \A i \in 1..Len(s) : s[i] \in S
  BY LenProperties, ElementOfSeq DEF Rows
<1>2. ToSet(s) = {s[i] : i \in 1..Len(s)}
  BY <1>1 DEF ToSet
<1>3. s \in Seq(ToSet(s))
  <2>1. s \in Seq(S)
    BY DEF Rows
  <2>2. \A i \in 1..Len(s) : s[i] \in ToSet(s)
    BY <1>2
  <2> QED
    BY <1>1, <2>1, <2>2, SeqDef
<1> QED
  BY <1>1, <1>2, <1>3 DEF Lists, Rows

(* One row more.                                                           *)
LEMMA AppendLists ==
    ASSUME NEW s, NEW S, Lists(s, S), NEW x, x \notin S
    PROVE  Lists(Append(s, x), S \cup {x})
<1> DEFINE t == Append(s, x)
           l == Len(s)
<1>1. s \in Seq(S) /\ l \in Nat /\ \A i \in 1..l : s[i] \in S
  BY LenProperties, ElementOfSeq DEF Lists, Rows
<1>2. s \in Seq(S \cup {x})
  BY <1>1, SeqMonotonic
<1>3. /\ t \in Seq(S \cup {x}) /\ Len(t) = l + 1
      /\ \A i \in 1..l : t[i] = s[i]
      /\ t[l + 1] = x
  BY <1>2, AppendProperties
<1> HIDE DEF t, l
<1>4. ASSUME NEW i \in 1..(l + 1), NEW j \in 1..(l + 1), t[i] = t[j] PROVE i = j
  <2>1. CASE i \in 1..l /\ j \in 1..l
    BY <1>3, <1>4, <2>1 DEF Lists, Rows, l
  <2>2. CASE i = l + 1 /\ j \in 1..l
    BY <1>1, <1>3, <1>4, <2>2
  <2>3. CASE i \in 1..l /\ j = l + 1
    BY <1>1, <1>3, <1>4, <2>3
  <2>4. (i \in 1..l \/ i = l + 1) /\ (j \in 1..l \/ j = l + 1)
    BY <1>1
  <2> QED
    BY <2>1, <2>2, <2>3, <2>4
<1>5. ASSUME NEW y \in S \cup {x} PROVE \E i \in 1..(l + 1) : t[i] = y
  <2>1. CASE y \in S
    <3>1. PICK i \in 1..l : s[i] = y
      BY <2>1 DEF Lists, l
    <3>2. i \in 1..(l + 1)
      BY <1>1
    <3> QED
      BY <1>3, <3>1, <3>2
  <2>2. CASE y = x
    <3>1. l + 1 \in 1..(l + 1)
      BY <1>1
    <3> QED
      BY <1>3, <2>2, <3>1
  <2> QED
    BY <2>1, <2>2
<1> QED
  BY <1>3, <1>4, <1>5 DEF Lists, Rows, t, l

(* The list of nothing.                                                    *)
LEMMA NothingLists == Lists(<<>>, {})
  BY DEF Lists, Rows

(* SetToSeq lists a finite set.                                            *)
LEMMA SetToSeqLists == ASSUME NEW S, IsFiniteSet(S) PROVE Lists(SetToSeq(S), S)
<1> DEFINE n == Cardinality(S)
           list == SetToSeq(S)
<1>1. n \in Nat /\ ExistsBijection(1..n, S)
  BY FS_CardinalityType
<1> HIDE DEF list
<1>2. list \in [1..n -> S] /\ IsInjective(list)
  <2>1. \E f \in [1..n -> S] : IsInjective(f)
    BY <1>1 DEF ExistsBijection, Bijection, Injection
  <2> QED
    BY <2>1 DEF SetToSeq, list
<1>3. list \in Surjection(1..n, S)
  <2>1. IsFiniteSet(1..n) /\ Cardinality(1..n) = n
    BY <1>1, FS_Interval
  <2>2. list \in Injection(1..n, S)
    BY <1>2 DEF Injection
  <2> QED
    BY <2>1, <2>2, FS_Injection
<1>4. list \in Seq(S) /\ Len(list) = n
  <2> HIDE DEF n
  <2>1. list \in Seq(S)
    BY <1>1, <1>2, SeqDef
  <2> QED
    BY <1>1, <1>2, <2>1, LenProperties
<1>5. \A i, j \in 1..n : list[i] = list[j] => i = j
  BY <1>2 DEF IsInjective
<1>6. \A x \in S : \E i \in 1..n : list[i] = x
  BY <1>3 DEF Surjection
<1> QED
  BY <1>4, <1>5, <1>6 DEF Lists, Rows, list

(* One list after another, of other things.                                *)
LEMMA ConcatLists ==
    ASSUME NEW s, NEW S, Lists(s, S), NEW t, NEW T, Lists(t, T), S \cap T = {}
    PROVE  Lists(s \o t, S \cup T)
<1> DEFINE u == s \o t
           l == Len(s)
           m == Len(t)
<1>1. /\ s \in Seq(S) /\ l \in Nat /\ \A i \in 1..l : s[i] \in S
      /\ t \in Seq(T) /\ m \in Nat /\ \A i \in 1..m : t[i] \in T
  BY LenProperties, ElementOfSeq DEF Lists, Rows
<1>2. s \in Seq(S \cup T) /\ t \in Seq(S \cup T)
  BY <1>1, SeqMonotonic
<1>3. /\ u \in Seq(S \cup T) /\ Len(u) = l + m
      /\ \A i \in 1..(l + m) : u[i] = IF i <= l THEN s[i] ELSE t[i - l]
  BY <1>2, ConcatProperties
<1>4. /\ \A i, j \in 1..l : s[i] = s[j] => i = j
      /\ \A i, j \in 1..m : t[i] = t[j] => i = j
      /\ \A x \in S : \E i \in 1..l : s[i] = x
      /\ \A x \in T : \E i \in 1..m : t[i] = x
  BY DEF Lists, Rows
<1> HIDE DEF u, l, m
<1>5. \A i \in 1..(l + m) : \/ i \in 1..l /\ u[i] = s[i] /\ u[i] \in S
                            \/ i - l \in 1..m /\ u[i] = t[i - l] /\ u[i] \in T
  <2> SUFFICES ASSUME NEW i \in 1..(l + m)
               PROVE  \/ i \in 1..l /\ u[i] = s[i] /\ u[i] \in S
                      \/ i - l \in 1..m /\ u[i] = t[i - l] /\ u[i] \in T
    OBVIOUS
  <2>1. CASE i <= l
    <3>1. i \in 1..l
      BY <1>1, <2>1
    <3> QED
      BY <1>1, <1>3, <2>1, <3>1
  <2>2. CASE ~(i <= l)
    <3>1. i - l \in 1..m
      BY <1>1, <2>2
    <3> QED
      BY <1>1, <1>3, <2>2, <3>1
  <2> QED
    BY <2>1, <2>2
<1>6. ASSUME NEW i \in 1..(l + m), NEW j \in 1..(l + m), u[i] = u[j] PROVE i = j
  <2>1. CASE i \in 1..l /\ j \in 1..l /\ u[i] = s[i] /\ u[j] = s[j]
    BY <1>4, <1>6, <2>1
  <2>2. CASE i - l \in 1..m /\ j - l \in 1..m /\ u[i] = t[i - l] /\ u[j] = t[j - l]
    <3>1. i - l = j - l
      BY <1>4, <1>6, <2>2
    <3> QED
      BY <1>1, <3>1
  <2> QED
    BY <1>5, <1>6, <2>1, <2>2
<1>7. ASSUME NEW x \in S \cup T PROVE \E i \in 1..(l + m) : u[i] = x
  <2>1. CASE x \in S
    <3>1. PICK i \in 1..l : s[i] = x
      BY <1>4, <2>1
    <3>2. i \in 1..(l + m) /\ i <= l
      BY <1>1
    <3> QED
      BY <1>3, <3>1, <3>2
  <2>2. CASE x \in T
    <3>1. PICK i \in 1..m : t[i] = x
      BY <1>4, <2>2
    <3>2. l + i \in 1..(l + m) /\ ~(l + i <= l) /\ (l + i) - l = i
      BY <1>1
    <3> QED
      BY <1>3, <3>1, <3>2
  <2> QED
    BY <2>1, <2>2
<1> QED
  BY <1>3, <1>6, <1>7 DEF Lists, Rows, u

\* What f makes of the rows, and of what they list.
Translated(f, s) == [i \in DOMAIN s |-> f[s[i]]]
Image(f, S) == {f[x] : x \in S}

(* A list translated has the translations of all members.                  *)
LEMMA MapCovers ==
    ASSUME NEW s, NEW S, Lists(s, S), NEW f
    PROVE  /\ Translated(f, s) \in Seq(Image(f, S))
           /\ ToSet(Translated(f, s)) = Image(f, S)
<1> DEFINE t == [i \in DOMAIN s |-> f[s[i]]]
           T == {f[x] : x \in S}
<1>1. /\ Len(s) \in Nat /\ DOMAIN s = 1..Len(s) /\ \A i \in 1..Len(s) : s[i] \in S
      /\ \A x \in S : \E i \in 1..Len(s) : s[i] = x
  BY LenProperties, ElementOfSeq DEF Lists, Rows
<1>2. t \in [1..Len(s) -> T] /\ \A i \in 1..Len(s) : t[i] = f[s[i]]
  BY <1>1
<1>3. \A y \in T : \E x \in S : y = f[x]
  OBVIOUS
<1>4. DOMAIN t = 1..Len(s)
  BY <1>1
<1> HIDE DEF t, T
<1>5. t \in Seq(T)
  BY <1>1, <1>2, SeqDef
<1>6. ToSet(t) = T
  <2>1. \A y \in T : \E i \in 1..Len(s) : y = t[i]
    BY <1>1, <1>2, <1>3
  <2>2. \A i \in 1..Len(s) : t[i] \in T
    BY <1>2
  <2> QED
    BY <1>4, <2>1, <2>2 DEF ToSet
<1> QED
  BY <1>5, <1>6 DEF t, T, Translated, Image

(* A list translated by a function that keeps its members apart.           *)
LEMMA MapLists ==
    ASSUME NEW s, NEW S, Lists(s, S), NEW f,
           \A x, y \in S : f[x] = f[y] => x = y
    PROVE  Lists(Translated(f, s), Image(f, S))
<1> DEFINE t == [i \in DOMAIN s |-> f[s[i]]]
           T == {f[x] : x \in S}
<1>1. /\ Len(s) \in Nat /\ DOMAIN s = 1..Len(s) /\ \A i \in 1..Len(s) : s[i] \in S
      /\ \A i, j \in 1..Len(s) : s[i] = s[j] => i = j
      /\ \A x \in S : \E i \in 1..Len(s) : s[i] = x
  BY LenProperties, ElementOfSeq DEF Lists, Rows
<1>2. \A i \in 1..Len(s) : t[i] = f[s[i]]
  BY <1>1
<1>3. \A y \in T : \E x \in S : y = f[x]
  OBVIOUS
<1>4. t \in Seq(T)
  BY MapCovers DEF Translated, Image
<1>5. DOMAIN t = DOMAIN s
  OBVIOUS
<1> HIDE DEF t, T
<1>6. Len(t) = Len(s)
  BY <1>1, <1>4, <1>5, LenProperties
<1> QED
  BY <1>1, <1>2, <1>3, <1>4, <1>6 DEF Lists, Rows, t, T, Translated, Image

(* Some elements from the front.                                           *)
LEMMA TakeIsWithin ==
    ASSUME NEW S, NEW s \in Seq(S), NEW n \in Nat PROVE Take(s, n) \in Seq(S)
<1> DEFINE l == IF Len(s) < n THEN Len(s) ELSE n
<1>1. Len(s) \in Nat /\ \A i \in 1..Len(s) : s[i] \in S
  BY LenProperties, ElementOfSeq
<1>2. l \in Nat /\ 1..l \subseteq 1..Len(s) /\ Take(s, n) = SubSeq(s, 1, l)
  BY <1>1 DEF Take
<1> HIDE DEF l
<1>3. SubSeq(s, 1, l) \in Seq(S)
  BY ONLY <1>1, <1>2, s \in Seq(S)
<1> QED
  BY <1>2, <1>3

(* The first rows of a list list themselves.                               *)
LEMMA TakeLists ==
    ASSUME NEW s, NEW S, Lists(s, S), NEW n \in Nat
    PROVE  Lists(Take(s, n), ToSet(Take(s, n))) /\ ToSet(Take(s, n)) \subseteq S
<1> DEFINE t == Take(s, n)
           l == IF Len(s) < n THEN Len(s) ELSE n
<1>1. /\ s \in Seq(S) /\ Len(s) \in Nat /\ \A i \in 1..Len(s) : s[i] \in S
      /\ \A i, j \in 1..Len(s) : s[i] = s[j] => i = j
  BY LenProperties, ElementOfSeq DEF Lists, Rows
<1>2. l \in Nat /\ 1..l \subseteq 1..Len(s) /\ t = SubSeq(s, 1, l)
  BY <1>1 DEF Take
<1> HIDE DEF l, t
<1>3. /\ SubSeq(s, 1, l) \in Seq(S) /\ Len(SubSeq(s, 1, l)) = l
      /\ \A i \in 1..l : SubSeq(s, 1, l)[i] = s[i]
  BY ONLY <1>1, <1>2
<1>4. Rows(t, S)
  BY <1>1, <1>2, <1>3 DEF Rows
<1> QED
  BY <1>4, RowsAreLists DEF t

(* Keep goes through a sequence and appends what passes.                   *)
LEMMA KeepSteps ==
    ASSUME NEW s, Len(s) \in Nat, NEW T
    PROVE  \E f : /\ Keep(s, T) = f[Len(s)] /\ f[0] = <<>>
                  /\ \A n \in 1..Len(s) :
                         f[n] = IF s[n] \in T THEN Append(f[n - 1], s[n]) ELSE f[n - 1]
<1> DEFINE Step(w, n) == IF n = 0 THEN <<>>
                         ELSE IF s[n] \in T THEN Append(w[n - 1], s[n]) ELSE w[n - 1]
           kept == CHOOSE f : f = [n \in 0..Len(s) |-> Step(f, n)]
<1>1. Keep(s, T) = kept[Len(s)]
  BY Zenon DEF Keep
<1> HIDE DEF Step
<1> DEFINE Reached == {n \in Nat : \E w : w = [i \in 0..n |-> Step(w, i)]}
<1>2. 0 \in Reached
  <2> DEFINE w == [i \in 0..0 |-> <<>>]
  <2>1. w = [i \in 0..0 |-> Step(w, i)]
    BY DEF Step
  <2> QED
    BY <2>1
<1>3. ASSUME NEW n \in Nat, n \in Reached PROVE n + 1 \in Reached
  <2>1. PICK w : w = [i \in 0..n |-> Step(w, i)]
    BY <1>3
  <2> DEFINE v == [i \in 0..(n + 1) |-> IF i = n + 1 THEN Step(w, n + 1) ELSE w[i]]
  <2>2. \A i \in 0..n : v[i] = w[i]
    OBVIOUS
  <2>3. ASSUME NEW i \in 0..(n + 1) PROVE Step(v, i) = Step(w, i)
    BY <2>2 DEF Step
  <2>4. ASSUME NEW i \in 0..(n + 1) PROVE v[i] = Step(v, i)
    <3>1. CASE i = n + 1
      BY <2>3, <3>1
    <3>2. CASE i # n + 1
      <4>1. i \in 0..n
        BY <3>2
      <4>2. w[i] = Step(w, i)
        BY <2>1, <4>1
      <4> QED
        BY <2>2, <2>3, <4>1, <4>2
    <3> QED
      BY <3>1, <3>2
  <2>5. v = [i \in 0..(n + 1) |-> Step(v, i)]
    <3>1. v = [i \in 0..(n + 1) |-> v[i]]
      OBVIOUS
    <3> HIDE DEF v
    <3> QED
      BY <2>4, <3>1
  <2> HIDE DEF v
  <2> QED
    BY <2>5
<1>4. Len(s) \in Reached
  <2> HIDE DEF Reached
  <2> QED
    BY <1>2, <1>3, NatSets
<1>5. \E w : w = [n \in 0..Len(s) |-> Step(w, n)]
  BY <1>4
<1>6. kept = [n \in 0..Len(s) |-> Step(kept, n)]
  BY <1>5
<1> HIDE DEF kept
<1>7. \A n \in 0..Len(s) : kept[n] = Step(kept, n)
  BY <1>6
<1> QED
  BY <1>1, <1>7 DEF Step

(* Keep leaves what is in the set, once if it was there once.              *)
LEMMA KeepIsWithin ==
    ASSUME NEW S, NEW s \in Seq(S), NEW T PROVE Keep(s, T) \in Seq(T)
<1>1. Len(s) \in Nat
  BY LenProperties
<1>2. PICK f : /\ Keep(s, T) = f[Len(s)] /\ f[0] = <<>>
               /\ \A n \in 1..Len(s) :
                      f[n] = IF s[n] \in T THEN Append(f[n - 1], s[n]) ELSE f[n - 1]
  BY <1>1, KeepSteps
<1> DEFINE Good == {n \in Nat : n <= Len(s) => f[n] \in Seq(T)}
<1>3. 0 \in Good
  <2>1. <<>> \in Seq(T)
    OBVIOUS
  <2>2. f[0] \in Seq(T)
    BY <1>2, <2>1
  <2> QED
    BY <2>2
<1>4. ASSUME NEW n \in Nat, n \in Good PROVE n + 1 \in Good
  <2> SUFFICES ASSUME n + 1 <= Len(s) PROVE f[n + 1] \in Seq(T)
    OBVIOUS
  <2>1. n + 1 \in 1..Len(s) /\ (n + 1) - 1 = n /\ f[n] \in Seq(T)
    BY <1>1, <1>4
  <2>2. f[n + 1] = IF s[n + 1] \in T THEN Append(f[n], s[n + 1]) ELSE f[n]
    BY <1>2, <2>1
  <2> QED
    BY <2>1, <2>2, AppendProperties
<1>5. Nat \subseteq Good
  <2> HIDE DEF Good
  <2> QED
    BY <1>3, <1>4, NatSets
<1> QED
  BY <1>1, <1>2, <1>5

(* What is kept of a list lists what is kept of the set.                   *)
LEMMA KeepLists ==
    ASSUME NEW s, NEW S, Lists(s, S), NEW T PROVE Lists(Keep(s, T), S \cap T)
<1> DEFINE First(n) == {s[i] : i \in 1..n}
<1>1. /\ Len(s) \in Nat /\ \A i \in 1..Len(s) : s[i] \in S
      /\ \A i, j \in 1..Len(s) : s[i] = s[j] => i = j
      /\ \A x \in S : \E i \in 1..Len(s) : s[i] = x
  BY LenProperties, ElementOfSeq DEF Lists, Rows
<1>2. PICK f : /\ Keep(s, T) = f[Len(s)] /\ f[0] = <<>>
               /\ \A n \in 1..Len(s) :
                      f[n] = IF s[n] \in T THEN Append(f[n - 1], s[n]) ELSE f[n - 1]
  BY <1>1, KeepSteps
<1> DEFINE Good == {n \in Nat : n <= Len(s) => Lists(f[n], First(n) \cap T)}
<1>3. 0 \in Good
  <2>1. First(0) \cap T = {}
    OBVIOUS
  <2> QED
    BY <1>2, <2>1, NothingLists
<1>4. ASSUME NEW n \in Nat, n \in Good PROVE n + 1 \in Good
  <2> SUFFICES ASSUME n + 1 <= Len(s) PROVE Lists(f[n + 1], First(n + 1) \cap T)
    OBVIOUS
  <2>1. n + 1 \in 1..Len(s) /\ (n + 1) - 1 = n /\ Lists(f[n], First(n) \cap T)
    BY <1>1, <1>4
  <2>2. f[n + 1] = IF s[n + 1] \in T THEN Append(f[n], s[n + 1]) ELSE f[n]
    BY <1>2, <2>1
  <2>3. s[n + 1] \notin First(n)
    <3>1. ASSUME NEW i \in 1..n PROVE s[i] # s[n + 1]
      <4>1. i \in 1..Len(s) /\ i # n + 1
        BY <1>1, <2>1
      <4> QED
        BY <1>1, <2>1, <4>1
    <3> QED
      BY <3>1
  <2>4. First(n + 1) = First(n) \cup {s[n + 1]}
    <3>1. 1..(n + 1) = 1..n \cup {n + 1}
      OBVIOUS
    <3> QED
      BY <3>1
  <2> HIDE DEF First
  <2>5. CASE s[n + 1] \in T
    <3>1. First(n + 1) \cap T = (First(n) \cap T) \cup {s[n + 1]}
      BY <2>4, <2>5
    <3> QED
      BY <2>1, <2>2, <2>3, <2>5, <3>1, AppendLists
  <2>6. CASE s[n + 1] \notin T
    <3>1. First(n + 1) \cap T = First(n) \cap T
      BY <2>4, <2>6
    <3> QED
      BY <2>1, <2>2, <2>6, <3>1
  <2> QED
    BY <2>5, <2>6
<1>5. Nat \subseteq Good
  <2> HIDE DEF Good
  <2> QED
    BY <1>3, <1>4, NatSets
<1>6. First(Len(s)) \cap T = S \cap T
  BY <1>1
<1>7. Lists(f[Len(s)], First(Len(s)) \cap T)
  <2>1. Len(s) \in Good
    <3> HIDE DEF Good
    <3> QED
      BY <1>1, <1>5
  <2>2. Len(s) <= Len(s)
    BY <1>1
  <2> HIDE DEF First
  <2> QED
    BY <2>1, <2>2
<1> QED
  BY <1>2, <1>6, <1>7

(* AddNew goes through the sequence and appends what is new.               *)
LEMMA AddSteps ==
    ASSUME NEW list, NEW more, Len(more) \in Nat
    PROVE  \E f : /\ AddNew(list, more) = f[Len(more)] /\ f[0] = list
                  /\ \A n \in 1..Len(more) :
                         f[n] = IF Contains(f[n - 1], more[n]) THEN f[n - 1]
                                ELSE Append(f[n - 1], more[n])
<1> DEFINE Step(w, n) == IF n = 0 THEN list
                         ELSE IF Contains(w[n - 1], more[n]) THEN w[n - 1]
                         ELSE Append(w[n - 1], more[n])
           added == CHOOSE f : f = [n \in 0..Len(more) |-> Step(f, n)]
<1>1. AddNew(list, more) = added[Len(more)]
  BY Zenon DEF AddNew
<1> HIDE DEF Step
<1> DEFINE Reached == {n \in Nat : \E w : w = [i \in 0..n |-> Step(w, i)]}
<1>2. 0 \in Reached
  <2> DEFINE w == [i \in 0..0 |-> list]
  <2>1. w = [i \in 0..0 |-> Step(w, i)]
    BY DEF Step
  <2> QED
    BY <2>1
<1>3. ASSUME NEW n \in Nat, n \in Reached PROVE n + 1 \in Reached
  <2>1. PICK w : w = [i \in 0..n |-> Step(w, i)]
    BY <1>3
  <2> DEFINE v == [i \in 0..(n + 1) |-> IF i = n + 1 THEN Step(w, n + 1) ELSE w[i]]
  <2>2. \A i \in 0..n : v[i] = w[i]
    OBVIOUS
  <2>3. ASSUME NEW i \in 0..(n + 1) PROVE Step(v, i) = Step(w, i)
    BY <2>2 DEF Step
  <2>4. ASSUME NEW i \in 0..(n + 1) PROVE v[i] = Step(v, i)
    <3>1. CASE i = n + 1
      BY <2>3, <3>1
    <3>2. CASE i # n + 1
      <4>1. i \in 0..n
        BY <3>2
      <4>2. w[i] = Step(w, i)
        BY <2>1, <4>1
      <4> QED
        BY <2>2, <2>3, <4>1, <4>2
    <3> QED
      BY <3>1, <3>2
  <2>5. v = [i \in 0..(n + 1) |-> Step(v, i)]
    <3>1. v = [i \in 0..(n + 1) |-> v[i]]
      OBVIOUS
    <3> HIDE DEF v
    <3> QED
      BY <2>4, <3>1
  <2> HIDE DEF v
  <2> QED
    BY <2>5
<1>4. Len(more) \in Reached
  <2> HIDE DEF Reached
  <2> QED
    BY <1>2, <1>3, NatSets
<1>5. \E w : w = [n \in 0..Len(more) |-> Step(w, n)]
  BY <1>4
<1>6. added = [n \in 0..Len(more) |-> Step(added, n)]
  BY <1>5
<1> HIDE DEF added
<1>7. \A n \in 0..Len(more) : added[n] = Step(added, n)
  BY <1>6
<1> QED
  BY <1>1, <1>7 DEF Step

(* A list with what a sequence adds lists both.                            *)
LEMMA AddLists ==
    ASSUME NEW s, NEW S, Lists(s, S), NEW T, NEW t \in Seq(T)
    PROVE  Lists(AddNew(s, t), S \cup ToSet(t)) /\ ToSet(t) \subseteq T
<1> DEFINE First(n) == {t[i] : i \in 1..n}
<1>1. Len(t) \in Nat /\ \A i \in 1..Len(t) : t[i] \in T
  BY LenProperties, ElementOfSeq
<1>2. PICK f : /\ AddNew(s, t) = f[Len(t)] /\ f[0] = s
               /\ \A n \in 1..Len(t) :
                      f[n] = IF Contains(f[n - 1], t[n]) THEN f[n - 1]
                             ELSE Append(f[n - 1], t[n])
  BY <1>1, AddSteps
<1> DEFINE Good == {n \in Nat : n <= Len(t) => Lists(f[n], S \cup First(n))}
<1>3. 0 \in Good
  <2>1. S \cup First(0) = S
    OBVIOUS
  <2> QED
    BY <1>2, <2>1
<1>4. ASSUME NEW n \in Nat, n \in Good PROVE n + 1 \in Good
  <2> SUFFICES ASSUME n + 1 <= Len(t) PROVE Lists(f[n + 1], S \cup First(n + 1))
    OBVIOUS
  <2>1. n + 1 \in 1..Len(t) /\ (n + 1) - 1 = n /\ Lists(f[n], S \cup First(n))
    BY <1>1, <1>4
  <2>2. f[n + 1] = IF Contains(f[n], t[n + 1]) THEN f[n] ELSE Append(f[n], t[n + 1])
    BY <1>2, <2>1
  <2>3. First(n + 1) = First(n) \cup {t[n + 1]}
    <3>1. 1..(n + 1) = 1..n \cup {n + 1}
      OBVIOUS
    <3> QED
      BY <3>1
  <2> HIDE DEF First
  <2>4. Contains(f[n], t[n + 1]) <=> t[n + 1] \in S \cup First(n)
    <3>1. \A i \in 1..Len(f[n]) : f[n][i] \in S \cup First(n)
      BY <2>1, ElementOfSeq DEF Lists, Rows
    <3> QED
      BY <2>1, <3>1 DEF Lists, Contains
  <2>5. CASE t[n + 1] \in S \cup First(n)
    <3>1. S \cup First(n + 1) = S \cup First(n)
      BY <2>3, <2>5
    <3> QED
      BY <2>1, <2>2, <2>4, <2>5, <3>1
  <2>6. CASE t[n + 1] \notin S \cup First(n)
    <3>1. S \cup First(n + 1) = (S \cup First(n)) \cup {t[n + 1]}
      BY <2>3
    <3> QED
      BY <2>1, <2>2, <2>4, <2>6, <3>1, AppendLists
  <2> QED
    BY <2>5, <2>6
<1>5. Nat \subseteq Good
  <2> HIDE DEF Good
  <2> QED
    BY <1>3, <1>4, NatSets
<1>6. DOMAIN t = 1..Len(t)
  BY LenProperties
<1>7. First(Len(t)) = ToSet(t) /\ ToSet(t) \subseteq T
  BY <1>1, <1>6 DEF ToSet
<1>8. Lists(f[Len(t)], S \cup First(Len(t)))
  <2>1. Len(t) \in Good
    <3> HIDE DEF Good
    <3> QED
      BY <1>1, <1>5
  <2>2. Len(t) <= Len(t)
    BY <1>1
  <2> HIDE DEF First
  <2> QED
    BY <2>1, <2>2
<1> QED
  BY <1>2, <1>7, <1>8
-----------------------------------------------------------------------------
(* The picker.                                                             *)

(* The platforms of a loaded catalogue have different ids                  *)
(* (parse_platforms, systems.c).                                           *)
LEMMA PlatformsListed ==
    ASSUME TypeOK, mem.up PROVE Lists(ById(mem.cat.platforms), Known(mem.cat))
<1> DEFINE p == pak.platforms
           ids == ById(p)
<1>1. CatalogueOk(pak) /\ mem.cat.platforms = p
  BY DEF TypeOK, LoadCatalogue
<1>2. IsSequence(p) /\ \A i, j \in DOMAIN p : i # j => p[i].id # p[j].id
  BY <1>1, PaksAssumption DEF TypeOK, CatalogueOk, PlatformsOk
<1>3. Len(p) \in Nat /\ DOMAIN p = 1..Len(p)
  <2>1. p \in Seq({p[i] : i \in DOMAIN p})
    BY <1>2 DEF IsSequence
  <2> HIDE DEF p
  <2> QED
    BY <2>1, LenProperties
<1>4. Known(mem.cat) = IdsOf(p)
  BY <1>1 DEF Known
<1> HIDE DEF p
<1>5. /\ ids \in [1..Len(p) -> IdsOf(p)] /\ DOMAIN ids = 1..Len(p)
      /\ \A i \in 1..Len(p) : ids[i] = p[i].id
      /\ \A x \in IdsOf(p) : \E i \in 1..Len(p) : p[i].id = x
  BY <1>3 DEF ById, IdsOf
<1> HIDE DEF ids
<1>6. ids \in Seq(IdsOf(p)) /\ Len(ids) = Len(p)
  <2>1. ids \in Seq(IdsOf(p))
    BY <1>3, <1>5, SeqDef
  <2> QED
    BY <1>3, <1>5, <2>1, LenProperties
<1>7. Lists(ids, IdsOf(p))
  <2>1. ASSUME NEW i \in 1..Len(ids), NEW j \in 1..Len(ids), ids[i] = ids[j]
        PROVE  i = j
    <3>1. i \in DOMAIN p /\ j \in DOMAIN p
      BY <1>3, <1>6
    <3>2. p[i].id = p[j].id
      BY <1>5, <1>6, <2>1
    <3> QED
      BY <1>2, <3>1, <3>2
  <2>2. \A x \in IdsOf(p) : \E i \in 1..Len(ids) : ids[i] = x
    BY <1>5, <1>6
  <2> QED
    BY <1>6, <2>1, <2>2 DEF Lists, Rows
<1> QED
  BY <1>1, <1>4, <1>7 DEF ids

(* systems_suggest offers matching platforms, and none of them twice.      *)
LEMMA SuggestLists ==
    ASSUME TypeOK, mem.up, NEW tag, NEW display, NEW text
    PROVE  LET list == Suggest(mem.cat, tag, display, text)
           IN Lists(list, ToSet(list)) /\ ToSet(list) \subseteq Matching(mem.cat, text)
<1> DEFINE cat == mem.cat
           all == ById(cat.platforms)
           matching == Matching(cat, text)
           exact == {id \in matching : NamesMatch(PlatformOf(cat, id), display)}
           similar == {id \in matching : NameContains(PlatformOf(cat, id), display)}
           candidates == IF tag \in DOMAIN cat.candidates
                         THEN Take(cat.candidates[tag], MaxCandidates) ELSE <<>>
           bundled == IF BuiltinTag(cat, tag) = NoId THEN <<>> ELSE <<BuiltinTag(cat, tag)>>
           s1 == Keep(all, exact)
           s2 == AddNew(s1, Keep(candidates, matching))
           s3 == AddNew(s2, Keep(bundled, matching))
           s4 == AddNew(s3, Keep(all, similar))
<1>1. Suggest(cat, tag, display, text) = Take(s4, MaxSuggestions)
  BY DEF Suggest
<1>2. exact \subseteq matching /\ similar \subseteq matching
  OBVIOUS
<1>3. Lists(all, Known(cat))
  BY PlatformsListed
<1>4. \E C : candidates \in Seq(C)
  <2>1. CASE tag \in DOMAIN cat.candidates
    <3>1. CatalogueOk(pak) /\ cat.candidates = pak.candidates
      BY DEF TypeOK, LoadCatalogue
    <3>2. IsSequence(cat.candidates[tag])
      BY <2>1, <3>1, PaksAssumption DEF TypeOK
    <3>3. \E C : cat.candidates[tag] \in Seq(C)
      BY <3>2 DEF IsSequence
    <3>4. candidates = Take(cat.candidates[tag], MaxCandidates)
      BY <2>1
    <3> QED
      BY <3>3, <3>4, TakeIsWithin, LimitsAssumption
  <2>2. CASE tag \notin DOMAIN cat.candidates
    <3>1. candidates = <<>> /\ <<>> \in Seq({})
      BY <2>2
    <3> QED
      BY <3>1
  <2> QED
    BY <2>1, <2>2
<1>5. \E C : bundled \in Seq(C)
  <2>1. ASSUME NEW id PROVE <<>> \in Seq({id}) /\ <<id>> \in Seq({id})
    OBVIOUS
  <2> HIDE DEF cat
  <2> QED
    BY <2>1
<1> HIDE DEF cat, all, matching, exact, similar, candidates, bundled
<1>6. Keep(candidates, matching) \in Seq(matching) /\ Keep(bundled, matching) \in Seq(matching)
  BY <1>4, <1>5, KeepIsWithin
<1>7. Keep(all, similar) \in Seq(similar)
  BY <1>3, KeepIsWithin DEF Lists, Rows
<1>8. \E S : Lists(s1, S) /\ S \subseteq matching
  <2>1. Known(cat) \cap exact \subseteq matching
    BY <1>2
  <2> QED
    BY <1>3, <2>1, KeepLists
<1> HIDE DEF s1
<1>9. \E S : Lists(s2, S) /\ S \subseteq matching
  <2>1. PICK S : Lists(s1, S) /\ S \subseteq matching
    BY <1>8
  <2>2. /\ Lists(s2, S \cup ToSet(Keep(candidates, matching)))
        /\ ToSet(Keep(candidates, matching)) \subseteq matching
    BY <1>6, <2>1, AddLists DEF s2
  <2> QED
    BY <2>1, <2>2
<1> HIDE DEF s2
<1>10. \E S : Lists(s3, S) /\ S \subseteq matching
  <2>1. PICK S : Lists(s2, S) /\ S \subseteq matching
    BY <1>9
  <2>2. /\ Lists(s3, S \cup ToSet(Keep(bundled, matching)))
        /\ ToSet(Keep(bundled, matching)) \subseteq matching
    BY <1>6, <2>1, AddLists DEF s3
  <2> QED
    BY <2>1, <2>2
<1> HIDE DEF s3
<1>11. \E S : Lists(s4, S) /\ S \subseteq matching
  <2>1. PICK S : Lists(s3, S) /\ S \subseteq matching
    BY <1>10
  <2>2. /\ Lists(s4, S \cup ToSet(Keep(all, similar)))
        /\ ToSet(Keep(all, similar)) \subseteq similar
    BY <1>7, <2>1, AddLists DEF s4
  <2> QED
    BY <1>2, <2>1, <2>2
<1> HIDE DEF s4
<1>12. LET list == Take(s4, MaxSuggestions)
       IN Lists(list, ToSet(list)) /\ ToSet(list) \subseteq matching
  BY <1>11, TakeLists, LimitsAssumption
<1> QED
  BY <1>1, <1>12 DEF cat, matching

(* PickerOffersEachOnce: the suggestions and the rest list what matches.   *)
LEMMA PickerIsComplete == ASSUME TypeOK, mem.up PROVE PickerOffersEachOnce
<1> SUFFICES ASSUME NEW tag, NEW display, NEW text
             PROVE  Once(PickerPlatforms(mem.cat, tag, display, text),
                         Matching(mem.cat, text))
  BY DEF PickerOffersEachOnce
<1> DEFINE matching == Matching(mem.cat, text)
           first == Suggest(mem.cat, tag, display, text)
           rest == Keep(SortedPlatforms(mem.cat), matching \ ToSet(first))
<1>1. Lists(first, ToSet(first)) /\ ToSet(first) \subseteq matching
  BY SuggestLists
<1>2. matching \subseteq Known(mem.cat)
  BY DEF Matching
<1>3. Lists(SortedPlatforms(mem.cat), Known(mem.cat))
  BY PlatformsListed, ListsAreOnce, SetToSeqLists DEF SortedPlatforms
<1> HIDE DEF matching, first
<1>4. Lists(rest, matching \ ToSet(first))
  <2>1. Known(mem.cat) \cap (matching \ ToSet(first)) = matching \ ToSet(first)
    BY <1>2
  <2> QED
    BY <1>3, <2>1, KeepLists
<1> HIDE DEF rest
<1>5. Lists(first \o rest, matching)
  <2>1. /\ ToSet(first) \cap (matching \ ToSet(first)) = {}
        /\ ToSet(first) \cup (matching \ ToSet(first)) = matching
    BY <1>1
  <2> QED
    BY <1>1, <1>4, <2>1, ConcatLists
<1>6. PickerPlatforms(mem.cat, tag, display, text) = first \o rest
  BY DEF PickerPlatforms, first, rest, matching
<1> QED
  BY <1>5, <1>6, ListsAreOnce DEF matching

-----------------------------------------------------------------------------
(* Keys lead back.                                                         *)

\* SDCARD_PATH leads to the ROM directory without dots inside it: with
\* "/mnt/SDCARD/Roms/.." absolute_path refuses every folder.
RomsAreReachable == RomRoot # <<>> /\ AbsolutePath(Roms, RomRoot) # Refusal

(* Two walks do the same along the same parts.                             *)
LEMMA WalkAlong ==
    ASSUME NEW C, "?" \in C, NEW p \in Seq(C), NEW q \in Seq(C), NEW root
    PROVE  Walk(p \o q, root)[Len(p)] = Walk(p, root)[Len(p)]
<1> DEFINE short == Walk(p, root)
           walk == Walk(p \o q, root)
           Good == {n \in Nat : n <= Len(p) => walk[n] = short[n]}
<1>0. /\ p \o q \in Seq(C) /\ Len(p) \in Nat /\ Len(q) \in Nat
      /\ Len(p \o q) = Len(p) + Len(q)
      /\ \A n \in 1..Len(p) : (p \o q)[n] = p[n]
  BY ConcatProperties, LenProperties
<1>1. /\ short[0] = <<>>
      /\ \A n \in 1..Len(p) : short[n] = WalkPart(short[n - 1], p[n], root)
  BY WalkSteps
<1>2. /\ walk[0] = <<>>
      /\ \A n \in 1..Len(p \o q) :
             walk[n] = WalkPart(walk[n - 1], (p \o q)[n], root)
  BY <1>0, WalkSteps
<1> HIDE DEF short, walk
<1>3. 0 \in Good
  BY <1>1, <1>2
<1>4. ASSUME NEW n \in Nat, n \in Good PROVE n + 1 \in Good
  <2>1. ASSUME n + 1 <= Len(p) PROVE walk[n + 1] = short[n + 1]
    <3>1. n + 1 \in 1..Len(p) /\ n + 1 \in 1..Len(p \o q) /\ (n + 1) - 1 = n
      BY <1>0, <2>1
    <3>2. walk[n] = short[n]
      BY <1>0, <1>4, <2>1
    <3> QED
      BY <1>0, <1>1, <1>2, <3>1, <3>2
  <2> QED
    BY <2>1
<1>5. Nat \subseteq Good
  <2> HIDE DEF Good
  <2> QED
    BY <1>3, <1>4, NatSets
<1>6. Len(p) \in Good /\ Len(p) <= Len(p)
  <2> HIDE DEF Good
  <2> QED
    BY <1>0, <1>5
<1> QED
  BY <1>6 DEF short, walk

(* Names without dots follow a walk that was not refused.                  *)
LEMMA TailIsAppended ==
    ASSUME NEW C, "?" \in C, NEW p \in Seq(C), NEW q \in Seq(C), KeyIsSafe(q),
           NEW root \in Seq(C), root = Walk(p, NoRoot)[Len(p)],
           root # <<>>, Walk(p, root)[Len(p)] # Refusal
    PROVE  Walk(p \o q, root)[Len(p \o q)] = root \o q /\ root \o q # Refusal
<1> DEFINE walk == Walk(p \o q, root)
           at(j) == root \o SubSeq(q, 1, j)
           Good == {j \in Nat : j <= Len(q) => walk[Len(p) + j] # Refusal}
<1>0. /\ p \o q \in Seq(C) /\ Len(p) \in Nat /\ Len(q) \in Nat
      /\ Len(p \o q) = Len(p) + Len(q)
  BY ConcatProperties, LenProperties
<1>1. ASSUME NEW j \in 1..Len(q)
      PROVE  (p \o q)[Len(p) + j] = q[j] /\ q[j] \notin Dots
  <2>1. /\ Len(p) + j \in 1..Len(p) + Len(q) /\ ~(Len(p) + j <= Len(p))
        /\ (Len(p) + j) - Len(p) = j
    BY <1>0
  <2>2. (p \o q)[Len(p) + j] = q[j]
    BY <2>1, ConcatProperties
  <2>3. j \in DOMAIN q
    BY LenProperties
  <2> QED
    BY <2>2, <2>3 DEF KeyIsSafe
<1>2. \A n \in 1..Len(p \o q) : walk[n] = WalkPart(walk[n - 1], (p \o q)[n], root)
  BY <1>0, WalkSteps
<1>3. \A n \in 0..Len(p \o q) : walk[n] \in Seq(C)
  BY <1>0, WalkTypes
<1>4. walk[Len(p)] = root
  <2>1. walk[Len(p)] = Walk(p, root)[Len(p)]
    BY WalkAlong
  <2>2. Len(p) \in 0..Len(p)
    BY <1>0
  <2>3. walk[Len(p)] \in {root, Refusal}
    BY <2>2, GuardRefuses
  <2> QED
    BY <2>1, <2>3
<1> HIDE DEF walk
<1> DEFINE Claim(j) == /\ walk[Len(p) + j] # Refusal
                       /\ Len(walk[Len(p) + j]) = Len(root) + j
           Long == {j \in Nat : j <= Len(q) => Claim(j)}
<1>5. Len(root) \in Nat /\ Len(root) # 0 /\ Len(Refusal) = 1
  <2>1. Len(root) \in Nat
    BY LenProperties
  <2>2. Len(root) # 0
    BY EmptySeq
  <2>3. Len(Refusal) = 1
    BY DEF Refusal
  <2> QED
    BY <2>1, <2>2, <2>3
<1>6. 0 \in Long
  <2>1. root # Refusal
    BY <1>4, WalkAlong DEF walk
  <2>2. Len(p) + 0 = Len(p) /\ Len(root) + 0 = Len(root)
    BY <1>0, <1>5
  <2> QED
    BY <1>4, <2>1, <2>2
<1>7. ASSUME NEW j \in Nat, j \in Long PROVE j + 1 \in Long
  <2> SUFFICES ASSUME j + 1 <= Len(q) PROVE Claim(j + 1)
    <3> HIDE DEF Claim
    <3> QED
      OBVIOUS
  <2> DEFINE n == Len(p) + (j + 1)
  <2>1. /\ n \in 1..Len(p \o q) /\ n - 1 = Len(p) + j /\ j + 1 \in 1..Len(q)
        /\ Len(p) + j \in 0..Len(p \o q)
    BY <1>0
  <2>2. /\ walk[Len(p) + j] # Refusal /\ walk[Len(p) + j] \in Seq(C)
        /\ Len(walk[Len(p) + j]) = Len(root) + j
    BY <1>0, <1>3, <1>7, <2>1
  <2>3. walk[n] = WalkPart(walk[Len(p) + j], q[j + 1], root)
    BY <1>1, <1>2, <2>1
  <2>4. walk[n] = Append(walk[Len(p) + j], q[j + 1])
    BY <1>1, <2>1, <2>2, <2>3 DEF WalkPart
  <2>5. q[j + 1] \in C
    BY <2>1, ElementOfSeq
  <2>6. Len(walk[n]) = (Len(root) + j) + 1
    BY <2>2, <2>4, <2>5, AppendProperties
  <2>7. (Len(root) + j) + 1 = Len(root) + (j + 1) /\ Len(root) + (j + 1) # 1
    <3>1. \A l \in Nat : l # 0 => (l + j) + 1 = l + (j + 1) /\ l + (j + 1) # 1
      OBVIOUS
    <3> QED
      BY <1>5, <3>1
  <2> QED
    BY <1>5, <2>6, <2>7
<1>8. Nat \subseteq Long
  <2> HIDE DEF Long
  <2> QED
    BY <1>6, <1>7, NatSets
<1>9. walk[Len(p) + Len(q)] # Refusal
  <2>1. Len(q) \in Long /\ Len(q) <= Len(q)
    <3> HIDE DEF Long
    <3> QED
      BY <1>0, <1>8
  <2> QED
    BY <2>1
<1>10. walk[Len(p) + Len(q)] = root \o q
  <2>1. walk[Len(p \o q)] \in {root \o q, Refusal}
    BY SafeTail DEF walk
  <2> QED
    BY <1>0, <1>9, <2>1
<1> QED
  BY <1>0, <1>9, <1>10 DEF walk

(* systems_folder_key of the path of a safe key is this key.               *)
LEMMA KeysLeadBack ==
    ASSUME RomsAreReachable, NEW key \in Paths, KeyIsSafe(key)
    PROVE  FolderKey(FolderPathForKey(key)) = key
<1> DEFINE path == FolderPathForKey(key)
           p == Parts(Roms)
           dir == AbsolutePath(path, RomRoot)
           back == SubSeq(dir, Len(RomRoot) + 1, Len(dir))
<1>1. Parts(path) = p \o key
  BY PartsOfKey
<1>2. dir = RomRoot \o key /\ dir # Refusal
  <2>1. /\ dir = Walk(p \o key, RomRoot)[Len(p \o key)]
        /\ RomRoot = Walk(p, NoRoot)[Len(p)]
        /\ Walk(p, RomRoot)[Len(p)] # Refusal /\ RomRoot # <<>>
    BY <1>1 DEF AbsolutePath, RomRoot, RomsAreReachable
  <2>2. "?" \in Components /\ p \in Seq(Components) /\ RomRoot \in Seq(Components)
            /\ key \in Seq(Components)
    BY GivenPaths, RomRootType DEF Paths
  <2> HIDE DEF dir, p
  <2>3. /\ Walk(p \o key, RomRoot)[Len(p \o key)] = RomRoot \o key
        /\ RomRoot \o key # Refusal
    BY <2>1, <2>2, TailIsAppended
  <2> QED
    BY <2>1, <2>3
<1>3. back = key /\ Inside(dir, RomRoot)
  <2>1. /\ RomRoot \in Seq(Components) /\ key \in Seq(Components)
        /\ Len(RomRoot) \in Nat /\ Len(key) \in Nat
    BY RomRootType, LenProperties DEF Paths
  <2>2. key # <<>>
    BY DEF KeyIsSafe
  <2> HIDE DEF dir
  <2>3. back = key
    BY ONLY <1>2, <2>1, <2>2 DEF back
  <2>4. Len(RomRoot \o key) = Len(RomRoot) + Len(key)
    BY <2>1, ConcatProperties
  <2>5. SubSeq(RomRoot \o key, 1, Len(RomRoot)) = RomRoot
    BY ONLY <2>1
  <2> QED
    BY <1>2, <2>1, <2>3, <2>4, <2>5 DEF Inside
<1>4. FolderKey(path) = back
  <2> HIDE DEF path
  <2> QED
    BY <1>2, <1>3 DEF FolderKey
<1> QED
  BY <1>3, <1>4

(* The key of a folder of the card is its name.                            *)
LEMMA CardKeys ==
    ASSUME RomsAreReachable, NEW n \in Names PROVE KeyOf[n] = <<n>>
<1>1. <<n>> \in Paths /\ KeyIsSafe(<<n>>)
  <2>1. <<n>> \in Paths
    BY GivenPaths DEF Paths
  <2>2. KeyIsSafe(<<n>>)
    <3>1. n \notin Dots \cup {""}
      BY NamesAssumption
    <3>2. <<n>> # <<>> /\ \A i \in DOMAIN <<n>> : <<n>>[i] = n
      OBVIOUS
    <3> QED
      BY <3>1, <3>2 DEF KeyIsSafe
  <2> QED
    BY <2>1, <2>2
<1>2. FolderPath(n) = FolderPathForKey(<<n>>)
  <2>1. Append(Roms.parts, n) = Roms.parts \o <<n>>
    BY GivenPaths, AppendIsConcat DEF Paths
  <2> QED
    BY <2>1 DEF FolderPath, FolderPathForKey
<1> QED
  BY <1>1, <1>2, KeysLeadBack DEF KeyOf

-----------------------------------------------------------------------------
(* The overrides stay finite.                                              *)

Finite(ov) == IsFiniteSet(DOMAIN ov.tags) /\ IsFiniteSet(DOMAIN ov.folders)
FiniteInv ==
    /\ IsFiniteSet(card)
    /\ disk.file.kind = "mappings" => Finite(disk.file)
    /\ Finite(mem.overrides)
    /\ Finite(call.proposed)

(* Nothing is finite, so is a part of what is, and what was loaded.        *)
LEMMA FiniteParts ==
    /\ Finite(Nothing)
    /\ \A ov : Finite(ov) => Finite(Compact(ov)) /\ Finite(ToJson(ov))
    /\ \A file, cat : (file.kind = "mappings" => Finite(file))
                          => Finite(LoadOverrides(file, cat))
<1>1. Finite(Nothing)
  BY FS_EmptySet DEF Finite, Nothing, EmptyMap
<1>2. ASSUME NEW ov, Finite(ov) PROVE Finite(Compact(ov)) /\ Finite(ToJson(ov))
  <2>1. DOMAIN Compact(ov).tags \subseteq DOMAIN ov.tags
    BY DEF Compact, Only
  <2>2. DOMAIN Compact(ov).folders \subseteq DOMAIN ov.folders
    BY DEF Compact, Only
  <2>3. DOMAIN ToJson(ov).tags = DOMAIN ov.tags
            /\ DOMAIN ToJson(ov).folders = DOMAIN ov.folders
    BY DEF ToJson
  <2> QED
    BY <1>2, <2>1, <2>2, <2>3, FS_Subset DEF Finite
<1>3. ASSUME NEW file, NEW cat, file.kind = "mappings" => Finite(file)
      PROVE  Finite(LoadOverrides(file, cat))
  <2>1. CASE file.kind # "mappings"
    BY <1>1, <2>1 DEF LoadOverrides
  <2>2. CASE file.kind = "mappings"
    <3>1. DOMAIN LoadTags(file, cat) \subseteq DOMAIN file.tags
      BY DEF LoadTags, Only, EmptyMap
    <3>2. DOMAIN LoadFolders(file, cat) \subseteq DOMAIN file.folders
      BY DEF LoadFolders, Only, EmptyMap
    <3>3. /\ LoadOverrides(file, cat).tags = LoadTags(file, cat)
          /\ LoadOverrides(file, cat).folders = LoadFolders(file, cat)
      BY <2>2 DEF LoadOverrides
    <3> QED
      BY <1>3, <2>2, <3>1, <3>2, <3>3, FS_Subset DEF Finite
  <2> QED
    BY <2>1, <2>2
<1> QED
  BY <1>1, <1>2, <1>3

(* An edit adds one entry at most.                                         *)
LEMMA ProposalIsFinite ==
    ASSUME NEW ov, NEW cat, OverridesOK(ov, cat), Finite(ov), NEW new,
           \/ \E t, id : new = Compact(SetTag(ov, t, id))
           \/ \E key, entry : new = Compact(SetFolder(ov, key, entry))
    PROVE  Finite(new)
<1>0. ov = [tags |-> ov.tags, folders |-> ov.folders]
  BY DEF OverridesOK
<1>1. ASSUME NEW t, NEW id PROVE Finite(SetTag(ov, t, id))
  <2> DEFINE set == SetTag(ov, t, id)
  <2>1. CASE set = ov
    BY <2>1
  <2>2. CASE set = [ov EXCEPT !.tags = Put(ov.tags, t, id)]
    <3>1. set.tags = Put(ov.tags, t, id) /\ set.folders = ov.folders
      BY <1>0, <2>2
    <3>2. DOMAIN set.tags = DOMAIN ov.tags \cup {t}
      BY <3>1 DEF Put
    <3> HIDE DEF set
    <3>3. IsFiniteSet(DOMAIN ov.tags \cup {t})
      BY FS_AddElement DEF Finite
    <3>4. Finite(set)
      BY <3>1, <3>2, <3>3 DEF Finite
    <3> QED
      BY <3>4 DEF set
  <2> QED
    BY <2>1, <2>2 DEF SetTag
<1>2. ASSUME NEW key, NEW entry PROVE Finite(SetFolder(ov, key, entry))
  <2> DEFINE set == SetFolder(ov, key, entry)
  <2>1. set.tags = ov.tags /\ set.folders = Put(ov.folders, key, entry)
    BY <1>0 DEF SetFolder
  <2>2. DOMAIN set.folders = DOMAIN ov.folders \cup {key}
    BY <2>1 DEF Put
  <2> HIDE DEF set
  <2>3. IsFiniteSet(DOMAIN ov.folders \cup {key})
    BY FS_AddElement DEF Finite
  <2>4. Finite(set)
    BY <2>1, <2>2, <2>3 DEF Finite
  <2> QED
    BY <2>4 DEF set
<1> QED
  BY <1>1, <1>2, FiniteParts

(* Nothing is there at first but a finite file.                            *)
LEMMA InitFinite == Init => FiniteInv
<1> SUFFICES ASSUME Init PROVE FiniteInv
  OBVIOUS
<1>1. disk.file \in UserFiles /\ mem = NoMem /\ call = NoCall
  BY DEF Init
<1>2. mem.overrides = Nothing /\ call.proposed = Nothing
  BY <1>1 DEF NoMem, NoCall
<1>3. disk.file.kind = "mappings" => Finite(disk.file)
  BY <1>1, UserFilesAssumption DEF Finite
<1>4. IsFiniteSet(card)
  BY CardsAssumption DEF Init
<1> QED
  BY <1>2, <1>3, <1>4, FiniteParts DEF FiniteInv

(* And every step keeps it so.                                             *)
LEMMA FiniteStep ==
    ASSUME Inv, EditInv, FiniteInv, [Next]_vars PROVE FiniteInv'
<1>0. TypeOK /\ Shapes /\ KeysInv
  BY DEF Inv, EditInv
<1>a. IsFiniteSet(card')
  <2>1. card' = card \/ card' \in Cards
    <3>1. \A n, p : QueueAdd(n, p) => card' = card
      BY DEF QueueAdd
    <3>2. Edit => card' = card
      BY <1>0, EditsAreOK DEF Commit
    <3>3. ~Edit => card' = card \/ card' \in Cards
      BY <3>1 DEF Next, Start, End, Outside, QueueFinish, Save, OpenBackup, CopyBackup,
                  OpenTmp, WriteTmp, Rename, Publish, vars
    <3> QED
      BY <3>2, <3>3
  <2> QED
    BY <2>1, CardsAssumption DEF FiniteInv
<1>1. ASSUME disk'.file = disk.file, mem'.overrides = mem.overrides,
             call'.proposed = call.proposed \/ call' = NoCall
      PROVE  FiniteInv'
  BY <1>a, <1>1, FiniteParts DEF FiniteInv, NoCall, Finite
<1>2. CASE Start
  <2>1. UNCHANGED <<disk, call>> /\ mem'.overrides = LoadOverrides(disk.file, mem'.cat)
    BY <1>2 DEF Start
  <2>2. Finite(LoadOverrides(disk.file, mem'.cat))
    BY FiniteParts DEF FiniteInv
  <2> QED
    BY <1>a, <2>1, <2>2 DEF FiniteInv, Finite
<1>3. CASE End
  BY <1>a, <1>3, FiniteParts DEF End, NoMem, NoCall, FiniteInv, Finite
<1>4. CASE Outside
  <2>1. disk' = disk \/ \E f \in UserFiles : disk' = [disk EXCEPT !.file = f]
    BY <1>4 DEF Outside
  <2>2. disk'.file = disk.file \/ disk'.file \in UserFiles
    BY <1>0, <2>1 DEF Shapes
  <2>3. disk'.file.kind = "mappings" => Finite(disk'.file)
    BY <2>2, UserFilesAssumption DEF FiniteInv, Finite
  <2> QED
    BY <1>a, <1>4, <2>3 DEF Outside, FiniteInv, Finite
<1>5. CASE (\E n \in Names, p \in {"artwork", "cheats"} : QueueAdd(n, p)) \/ QueueFinish
  BY <1>1, <1>5 DEF QueueAdd, QueueFinish
<1>6. CASE Edit
  <2>1. UNCHANGED <<disk, mem>> /\ call'.pc = "persist"
    BY <1>0, <1>6, EditsAreOK DEF Commit
  <2>2. ProposesTag' \/ ProposesFolder'
    BY <1>0, <1>6, <2>1, EditsPropose DEF ProposalInv
  <2>3. Finite(call'.proposed)
    <3>1. OverridesOK(mem.overrides, mem.cat) /\ Finite(mem.overrides)
      BY <1>0 DEF TypeOK, FiniteInv
    <3>2. \/ \E t, id : call'.proposed = Compact(SetTag(mem.overrides, t, id))
          \/ \E k, e : call'.proposed = Compact(SetFolder(mem.overrides, k, e))
      BY <2>1, <2>2 DEF ProposesTag, ProposesFolder
    <3> QED
      BY <3>1, <3>2, ProposalIsFinite
  <2> QED
    BY <1>a, <2>1, <2>3 DEF FiniteInv, Finite
<1>7. CASE OpenBackup \/ OpenTmp \/ WriteTmp
  BY <1>0, <1>1, <1>7, CallSteps DEF OpenBackup, OpenTmp, WriteTmp, Shapes
<1>8. CASE CopyBackup
  <2>1. disk'.file = disk.file /\ mem'.overrides = mem.overrides
    BY <1>0, <1>8 DEF CopyBackup, Shapes
  <2> QED
    BY <1>0, <1>1, <1>8, <2>1, CallSteps DEF CopyBackup
<1>9. CASE Rename
  <2>1. CASE disk' = [disk EXCEPT !.file = ToJson(call.proposed), !.tmp = "none"]
                 /\ Goto("publish")
    <3>1. disk'.file = ToJson(call.proposed) /\ mem' = mem /\ call'.proposed = call.proposed
      BY <1>0, <1>9, <2>1, CallSteps DEF Shapes, Rename
    <3>2. Finite(ToJson(call.proposed))
      BY FiniteParts DEF FiniteInv
    <3> QED
      BY <1>a, <3>1, <3>2 DEF FiniteInv, Finite
  <2>2. CASE disk' = [disk EXCEPT !.tmp = "none"] /\ GiveUp
    <3>1. disk'.file = disk.file /\ mem' = mem /\ call' = NoCall
      BY <1>0, <1>9, <2>2, CallSteps DEF Shapes, Rename
    <3> QED
      BY <1>1, <3>1
  <2> QED
    BY <1>9, <2>1, <2>2 DEF Rename
<1>10. CASE Publish
  <2>1. mem'.overrides = call.proposed /\ UNCHANGED disk /\ call' = NoCall
    BY <1>0, <1>10, CallSteps DEF Publish, Shapes
  <2> QED
    BY <1>a, <2>1, FiniteParts DEF FiniteInv, NoCall, Finite
<1>11. CASE UNCHANGED vars
  BY <1>1, <1>11 DEF vars
<1> QED
  BY <1>2, <1>3, <1>4, <1>5, <1>6, <1>7, <1>8, <1>9, <1>10, <1>11 DEF Next, Save

-----------------------------------------------------------------------------
(* Settings.                                                               *)

(* SettingsListEverything: folders without a platform, folders with one,   *)
(* and overrides without a folder are apart, and all there is.             *)
LEMMA SettingsAreComplete ==
    ASSUME RomsAreReachable, TypeOK, FiniteInv PROVE SettingsListEverything
<1> DEFINE folders == SetToSeq(card)
           keys == DOMAIN mem.overrides.folders
           ours == {KeyOf[n] : n \in card}
           Part(b) == {n \in card : (Mapping(mem, n).platform = NoId) = b}
           Offered(b) == {KeyOf[n] : n \in Part(b)}
<1>1. card \subseteq Names /\ IsFiniteSet(card) /\ Lists(folders, card)
  <2>1. card \subseteq Names /\ IsFiniteSet(card)
    BY DEF TypeOK, FiniteInv
  <2> QED
    BY <2>1, SetToSeqLists
<1>2. \A m, n \in card : KeyOf[m] = KeyOf[n] => m = n
  <2>1. \A m, n : <<m>> = <<n>> => m = n
    OBVIOUS
  <2> QED
    BY <1>1, <2>1, CardKeys
<1> HIDE DEF folders
<1>3. ASSUME NEW b \in BOOLEAN
      PROVE  Lists(FolderRows(mem, folders, b), Offered(b))
  <2> DEFINE chosen == {n \in Names : (Mapping(mem, n).platform = NoId) = b}
  <2>1. card \cap chosen = Part(b)
    BY <1>1
  <2> HIDE DEF chosen
  <2>2. Lists(Keep(folders, chosen), Part(b))
    BY <1>1, <2>1, KeepLists
  <2>3. \A m, n \in Part(b) : KeyOf[m] = KeyOf[n] => m = n
    BY <1>2
  <2>4. FolderRows(mem, folders, b) = KeysOf(Keep(folders, chosen))
    BY DEF FolderRows, chosen
  <2>5. Offered(b) = Image(KeyOf, Part(b))
    BY DEF Image
  <2> HIDE DEF Part, Offered
  <2>6. Lists(Translated(KeyOf, Keep(folders, chosen)), Image(KeyOf, Part(b)))
    BY <2>2, <2>3, MapLists
  <2>7. FolderRows(mem, folders, b) = Translated(KeyOf, Keep(folders, chosen))
    BY <2>4 DEF KeysOf, Translated
  <2> QED
    BY <2>5, <2>6, <2>7
<1>4. Offered(TRUE) \cap Offered(FALSE) = {} /\ Offered(TRUE) \cup Offered(FALSE) = ours
  BY <1>2
<1>5. Lists(MissingRows(mem, folders), keys \ ours)
  <2>1. Lists(SetToSeq(keys), keys)
    BY SetToSeqLists DEF FiniteInv, Finite
  <2>2. ToSet(KeysOf(folders)) = ours
    <3>1. ToSet(Translated(KeyOf, folders)) = Image(KeyOf, card)
      BY <1>1, MapCovers
    <3> QED
      BY <3>1 DEF KeysOf, Translated, Image
  <2>3. keys \cap (keys \ ours) = keys \ ours
    OBVIOUS
  <2>4. MissingRows(mem, folders) = Keep(SetToSeq(keys), keys \ ours)
    BY <2>2 DEF MissingRows
  <2> HIDE DEF keys, ours
  <2> QED
    BY <2>1, <2>3, <2>4, KeepLists
<1>6. Once(MappingRows(mem, folders), ours \cup keys)
  <2>1. /\ Lists(FolderRows(mem, folders, TRUE), Offered(TRUE))
        /\ Lists(FolderRows(mem, folders, FALSE), Offered(FALSE))
    BY <1>3
  <2> HIDE DEF Offered, keys, ours
  <2>2. Lists(FolderRows(mem, folders, TRUE) \o FolderRows(mem, folders, FALSE), ours)
    BY <1>4, <2>1, ConcatLists
  <2>3. ours \cap (keys \ ours) = {} /\ ours \cup (keys \ ours) = ours \cup keys
    OBVIOUS
  <2>4. Lists(MappingRows(mem, folders), ours \cup keys)
    BY <1>5, <2>2, <2>3, ConcatLists DEF MappingRows
  <2> QED
    BY <2>4, ListsAreOnce
<1>7. Once(SuffixRows(mem, folders), {TagOf[n] : n \in card} \cup DOMAIN mem.overrides.tags)
  <2> DEFINE mine == {TagOf[n] : n \in card}
             tags == DOMAIN mem.overrides.tags
             shown == [i \in DOMAIN folders |-> TagOf[folders[i]]]
  <2>1. shown \in Seq(mine) /\ ToSet(shown) = mine
    <3>1. /\ Translated(TagOf, folders) \in Seq(Image(TagOf, card))
          /\ ToSet(Translated(TagOf, folders)) = Image(TagOf, card)
      BY <1>1, MapCovers
    <3>2. Translated(TagOf, folders) = shown /\ Image(TagOf, card) = mine
      BY DEF Translated, Image
    <3> HIDE DEF shown, mine
    <3> QED
      BY <3>1, <3>2
  <2>2. Lists(SetToSeq(tags), tags)
    BY SetToSeqLists DEF FiniteInv, Finite
  <2>3. SuffixRows(mem, folders) = AddNew(AddNew(<<>>, shown), SetToSeq(tags))
    BY DEF SuffixRows
  <2> HIDE DEF mine, tags, shown
  <2>4. {} \cup mine = mine
    OBVIOUS
  <2>5. Lists(AddNew(<<>>, shown), mine)
    BY <2>1, <2>4, NothingLists, AddLists
  <2>6. SetToSeq(tags) \in Seq(tags) /\ ToSet(SetToSeq(tags)) = tags
    BY <2>2, ListsAreOnce DEF Lists, Rows, Once
  <2>7. Lists(AddNew(AddNew(<<>>, shown), SetToSeq(tags)), mine \cup tags)
    BY <2>5, <2>6, AddLists
  <2> QED
    BY <2>3, <2>7, ListsAreOnce DEF mine, tags
<1> QED
  BY <1>6, <1>7 DEF SettingsListEverything, folders

(* ScreensAreComplete: whatever the catalogue, the card and the overrides, *)
(* the picker offers every matching platform once, Settings lists every    *)
(* folder, override and suffix default once, and each can be edited.       *)
THEOREM ScreensStayComplete == RomsAreReachable /\ Spec => []ScreensAreComplete
<1> SUFFICES ASSUME RomsAreReachable PROVE Spec => []ScreensAreComplete
  OBVIOUS
<1>1. Init => Inv /\ EditInv /\ FiniteInv
  BY InitInv, InitEdits, InitFinite
<1>2. (Inv /\ EditInv /\ FiniteInv) /\ [Next]_vars => (Inv /\ EditInv /\ FiniteInv)'
  BY InvStep, RestStep, KeysStep, ProposalStep, FiniteStep DEF EditInv
<1>3. Inv /\ EditInv /\ FiniteInv => ScreensAreComplete
  <2> SUFFICES ASSUME Inv, EditInv, FiniteInv, Idle
               PROVE  /\ PickerOffersEachOnce /\ SettingsListEverything
                      /\ OverridesAreReachable
    BY DEF ScreensAreComplete
  <2>1. TypeOK /\ KeysInv /\ mem.up
    BY DEF Inv, EditInv, Idle
  <2>2. PickerOffersEachOnce
    BY <2>1, PickerIsComplete
  <2>3. SettingsListEverything
    BY <2>1, SettingsAreComplete
  <2>4. OverridesAreReachable
    <3>1. ASSUME NEW k \in DOMAIN mem.overrides.folders PROVE k \in Paths /\ KeyIsSafe(k)
      BY <2>1 DEF TypeOK, OverridesOK, KeysInv
    <3> QED
      BY <3>1, KeysLeadBack DEF OverridesAreReachable
  <2> QED
    BY <2>2, <2>3, <2>4
<1> QED
  BY <1>1, <1>2, <1>3, PTL DEF Spec
=============================================================================
