---------------------------- MODULE SystemMappings ----------------------------
(* Which platform a ROM folder is scraped as (systems.c, and the mapping     *)
(* picker of ui.c): the catalogue that ships with the pak, the user's        *)
(* overrides in memory and in system_overrides.json, the steps of a save,    *)
(* and the jobs that were queued with the platform of their folder.          *)
(* Modelled failures: every step of a save may fail, the program may die     *)
(* between any two of them, and between two starts the pak may be replaced,  *)
(* the file edited and folders added, removed or renamed.  Not modelled:     *)
(* malloc failures, and a power cut that undoes a finished rename (nothing   *)
(* is fsynced).                                                              *)
EXTENDS Integers, Sequences, FiniteSets

CONSTANTS
    Ids,        \* platform ids of every version of the catalogue
    NoId,       \* no platform (NULL)
    Tags,       \* suffixes of folders
    Names,      \* folders that may lie in Roms/
    Cards,      \* the sets of folders Roms/ may hold
    TagOf,      \* the suffix in the name of each folder (extract_tag)
    Paks,       \* the catalogue files of the installable versions
    UserFiles,  \* contents the user may leave in system_overrides.json
    Roms,       \* the path of the ROM directory as get_roms_path builds it
    Cwd,        \* the working directory, as a sequence of components
    MaxJobs,    \* bound on unfinished queue items
    MaxSaves    \* bound on the edits that are saved

IsSequence(s) == s \in Seq({s[i] : i \in DOMAIN s})
ASSUME NoIdAssumption == NoId \notin Ids
ASSUME CardsAssumption ==
    Cards \subseteq SUBSET Names /\ \A c \in Cards : IsFiniteSet(c)

VARIABLES
    pak,        \* resources/systems.json of the installed version
    card,       \* the folders in Roms/
    disk,       \* system_overrides.json and .rejected, .tmp beside it
    mem,        \* the static variables of systems.c
    call,       \* the mutation that runs: its step, arguments and proposal
    jobs,       \* unfinished queue items, in memory or in the queue file: the
                \* platform they captured, and whether the card changed since
    refused,    \* the last content a load did not take over completely,
                \* unless the user replaced it since, or a later load did
    saves       \* edits saved so far
vars == <<pak, card, disk, mem, call, jobs, refused, saves>>

-----------------------------------------------------------------------------
(* The catalogue. *)

IdsOf(platforms) == {platforms[i].id : i \in DOMAIN platforms}

PlatformsOk(file) ==
    /\ file.platforms # <<>>
    /\ \A i \in DOMAIN file.platforms : file.platforms[i].wellFormed
    /\ \A i, j \in DOMAIN file.platforms :
           i # j => file.platforms[i].id # file.platforms[j].id
DefaultsOk(file) ==
    /\ file.defaultsOk
    /\ \A t \in DOMAIN file.defaults : file.defaults[t] \in IdsOf(file.platforms)
CandidatesOk(file) ==
    /\ file.candidatesOk
    /\ \A t \in DOMAIN file.candidates :
           /\ file.candidates[t] # <<>>
           /\ \A i \in DOMAIN file.candidates[t] :
                  file.candidates[t][i] \in IdsOf(file.platforms)
CatalogueOk(file) ==
    file.readable /\ PlatformsOk(file) /\ DefaultsOk(file) /\ CandidatesOk(file)

ASSUME PaksAssumption ==
    \A file \in Paks : CatalogueOk(file) =>
        /\ IdsOf(file.platforms) \subseteq Ids
        /\ IsSequence(file.platforms)
        /\ \A t \in DOMAIN file.candidates : IsSequence(file.candidates[t])

EmptyMap == [x \in {} |-> NoId]
NoCatalogue == [platforms |-> <<>>, defaults |-> EmptyMap, candidates |-> EmptyMap]
LoadCatalogue(file) ==
    [platforms |-> file.platforms, defaults |-> file.defaults,
     candidates |-> file.candidates]

Known(cat) == IdsOf(cat.platforms)
Provider(cat, id, p) == \E i \in DOMAIN cat.platforms :
    cat.platforms[i].id = id /\ p \in cat.platforms[i].providers

-----------------------------------------------------------------------------
(* Folder keys: a path is a sequence of components, absolute or relative. *)

ASSUME PathsAssumption ==
    /\ Roms = [abs |-> Roms.abs, parts |-> Roms.parts]
    /\ IsSequence(Roms.parts) /\ IsSequence(Cwd)

Parts(path) == IF path.abs THEN path.parts ELSE Cwd \o path.parts
Dots == {".", ".."}
ASSUME NamesAssumption == Names \cap (Dots \cup {""}) = {}
PopLast(dir) == IF dir = <<>> THEN dir ELSE SubSeq(dir, 1, Len(dir) - 1)
Inside(dir, root) == Len(dir) >= Len(root) /\ SubSeq(dir, 1, Len(root)) = root

(* absolute_path: the components but for dots, which are refused inside the  *)
(* ROM directory if one is given; <<"?">> stands for the refusal.             *)
NoRoot == <<"">>
Refusal == <<"?">>
WalkPart(dir, part, root) ==
    IF dir = Refusal THEN Refusal
    ELSE IF part \notin Dots THEN Append(dir, part)
    ELSE IF root # NoRoot /\ Inside(dir, root) THEN Refusal
    ELSE IF part = ".." THEN PopLast(dir)
    ELSE dir
Walk(parts, root) ==
    LET walk[n \in 0..Len(parts)] ==
            IF n = 0 THEN <<>> ELSE WalkPart(walk[n - 1], parts[n], root)
    IN walk
AbsolutePath(path, root) ==
    LET parts == Parts(path) IN Walk(parts, root)[Len(parts)]

KeyIsSafe(key) ==
    key # <<>> /\ \A i \in DOMAIN key : key[i] \notin Dots \cup {""}

NoKey == <<>>
RomRoot == AbsolutePath(Roms, NoRoot)
FolderKey(path) ==
    LET dir == AbsolutePath(path, RomRoot)
        key == SubSeq(dir, Len(RomRoot) + 1, Len(dir))
    IN IF dir # Refusal /\ Inside(dir, RomRoot) /\ KeyIsSafe(key) THEN key ELSE NoKey

FolderPath(name) == [Roms EXCEPT !.parts = Append(@, name)]
FolderPathForKey(key) == [Roms EXCEPT !.parts = @ \o key]
KeyOf == [n \in Names |-> FolderKey(FolderPath(n))]
-----------------------------------------------------------------------------
(* The overrides: functions on the suffixes and folder keys that have one. *)

Put(f, k, v) == [x \in DOMAIN f \cup {k} |-> IF x = k THEN v ELSE f[x]]
Only(f, S) == [x \in S |-> f[x]]

Nothing == [tags |-> EmptyMap, folders |-> EmptyMap]
Empty == [platform |-> NoId, hidden |-> FALSE]
FolderEntry(ov, key) == IF key \in DOMAIN ov.folders THEN ov.folders[key] ELSE Empty

Compact(ov) ==
    [tags |-> Only(ov.tags, {t \in DOMAIN ov.tags : ov.tags[t] # NoId}),
     folders |-> Only(ov.folders, {k \in DOMAIN ov.folders : ov.folders[k] # Empty})]

SetTag(ov, tag, id) ==
    IF id = NoId /\ tag \notin DOMAIN ov.tags THEN ov
    ELSE [ov EXCEPT !.tags = Put(ov.tags, tag, id)]
SetFolder(ov, key, entry) == [ov EXCEPT !.folders = Put(ov.folders, key, entry)]

(* Contents of the file: nothing there, something that cannot be read, or is *)
(* no usable JSON object of this schema, or a set of entries; each of the    *)
(* two objects in it may be malformed or repeat a key.                       *)
Absent == [kind |-> "absent"]
ASSUME UserFilesAssumption ==
    \A f \in UserFiles :
        /\ f.kind \in {"absent", "unreadable", "garbage", "mappings"}
        /\ f.kind = "mappings" =>
               /\ IsFiniteSet(DOMAIN f.tags) /\ IsFiniteSet(DOMAIN f.folders)
               /\ \A k \in DOMAIN f.folders :
                      /\ IsSequence(k)
                      /\ f.folders[k].hidden \in {"absent", "true", "false", "not a boolean"}

ToJson_NoHidden(ov) ==
    [kind |-> "mappings", tagsOk |-> TRUE, tags |-> ov.tags, foldersOk |-> TRUE,
     folders |-> [k \in DOMAIN ov.folders |->
                     [wellFormed |-> TRUE, platform |-> ov.folders[k].platform,
                      hidden |-> "absent"]]]
ToJson(ov) ==
    [kind |-> "mappings", tagsOk |-> TRUE, tags |-> ov.tags, foldersOk |-> TRUE,
     folders |-> [k \in DOMAIN ov.folders |->
                     [wellFormed |-> TRUE, platform |-> ov.folders[k].platform,
                      hidden |-> IF ov.folders[k].hidden THEN "true" ELSE "absent"]]]

TagUsable(file, cat, t) == file.tags[t] \in Known(cat)
KeyUsable(file, k) == KeyIsSafe(k) /\ file.folders[k].wellFormed
PlatformUsable(entry, cat) == entry.platform \in Known(cat) \cup {NoId}

EntryRead_Unchecked(entry, cat) ==
    [platform |-> entry.platform, hidden |-> entry.hidden = "true"]
EntryRead(entry, cat) ==
    [platform |-> IF PlatformUsable(entry, cat) THEN entry.platform ELSE NoId,
     hidden |-> entry.hidden = "true"]

LoadTags(file, cat) ==
    IF ~file.tagsOk THEN EmptyMap
    ELSE Only(file.tags, {t \in DOMAIN file.tags : TagUsable(file, cat, t)})
LoadFolders(file, cat) ==
    IF ~file.foldersOk THEN EmptyMap
    ELSE LET read == [k \in {x \in DOMAIN file.folders : KeyUsable(file, x)} |->
                         EntryRead(file.folders[k], cat)]
         IN Only(read, {k \in DOMAIN read : read[k] # Empty})
LoadOverrides(file, cat) ==
    IF file.kind # "mappings" THEN Nothing
    ELSE [tags |-> LoadTags(file, cat), folders |-> LoadFolders(file, cat)]

NeedsBackup(file, cat) ==
    \/ file.kind \in {"unreadable", "garbage"}
    \/ /\ file.kind = "mappings"
       /\ \/ ~file.tagsOk
          \/ ~file.foldersOk
          \/ \E t \in DOMAIN file.tags : ~TagUsable(file, cat, t)
          \/ \E k \in DOMAIN file.folders :
                 \/ ~KeyUsable(file, k)
                 \/ file.folders[k].hidden = "not a boolean"
                 \/ ~PlatformUsable(file.folders[k], cat)

-----------------------------------------------------------------------------
(* Resolution: folder override, user suffix default, bundled default. *)

BuiltinTag(cat, tag) == IF tag \in DOMAIN cat.defaults THEN cat.defaults[tag] ELSE NoId
ResolveTag(m, tag) ==
    IF tag \in DOMAIN m.overrides.tags
       THEN [platform |-> m.overrides.tags[tag], source |-> "tag"]
    ELSE IF BuiltinTag(m.cat, tag) # NoId
       THEN [platform |-> BuiltinTag(m.cat, tag), source |-> "builtin"]
    ELSE [platform |-> NoId, source |-> "none"]
Resolve_TagFirst(m, key, tag) ==
    LET folder == FolderEntry(m.overrides, key)
        rest == ResolveTag(m, tag)
    IN IF folder.platform # NoId /\ rest.source # "tag"
       THEN [platform |-> folder.platform, source |-> "folder", hidden |-> folder.hidden]
       ELSE [platform |-> rest.platform, source |-> rest.source, hidden |-> folder.hidden]
Resolve(m, key, tag) ==
    LET folder == FolderEntry(m.overrides, key)
        rest == ResolveTag(m, tag)
    IN IF folder.platform # NoId
       THEN [platform |-> folder.platform, source |-> "folder", hidden |-> folder.hidden]
       ELSE [platform |-> rest.platform, source |-> rest.source, hidden |-> folder.hidden]
Mapping(m, name) == Resolve(m, KeyOf[name], TagOf[name])

-----------------------------------------------------------------------------
(* Start and end of the program. *)

NoMem == [up |-> FALSE, cat |-> NoCatalogue, overrides |-> Nothing, needBackup |-> FALSE]
NoCall == [pc |-> "none", scope |-> "none", subject |-> <<>>, value |-> Empty,
           proposed |-> Nothing]

Init ==
    /\ pak \in Paks
    /\ card \in Cards
    /\ disk \in [file : UserFiles, rejected : {Absent}, tmp : {"none"}]
    /\ mem = NoMem
    /\ call = NoCall
    /\ jobs = {}
    /\ refused = Absent
    /\ saves = 0

(* systems_init: without a usable catalogue nothing is loaded and main quits. *)
Start ==
    /\ ~mem.up
    /\ CatalogueOk(pak)
    /\ LET cat == LoadCatalogue(pak)
           doubtful == NeedsBackup(disk.file, cat)
       IN /\ mem' = [up |-> TRUE, cat |-> cat, needBackup |-> doubtful,
                     overrides |-> LoadOverrides(disk.file, cat)]
          /\ refused' = CASE doubtful -> disk.file
                          [] ~doubtful /\ disk.file = refused -> Absent
                          [] OTHER -> refused
    /\ UNCHANGED <<pak, card, disk, call, jobs, saves>>

(* systems_shutdown at the end of main; or the program is killed, in the     *)
(* middle of a save too. Work that is left is dropped, or goes with the queue*)
(* file to the daemon, and back from it: each of them a start of its own.    *)
End ==
    /\ mem.up
    /\ mem' = NoMem
    /\ call' = NoCall
    /\ jobs' \in {jobs, {}}
    /\ UNCHANGED <<pak, card, disk, refused, saves>>

(* What happens to the card and the pak while the program does not run. *)
Outside ==
    /\ ~mem.up
    /\ \/ pak' \in Paks /\ UNCHANGED <<card, disk, refused>>
       \/ card' \in Cards /\ UNCHANGED <<pak, disk, refused>>
       \/ /\ \E f \in UserFiles : disk' = [disk EXCEPT !.file = f]
          /\ refused' = Absent
          /\ UNCHANGED <<pak, card>>
    /\ jobs' = {[j EXCEPT !.changed = TRUE] : j \in jobs}
    /\ UNCHANGED <<mem, call, saves>>

-----------------------------------------------------------------------------
(* The queue, as far as mappings matter to it: an item captures the platform *)
(* of its folder, and edits wait until no unfinished item is left.           *)

Idle == mem.up /\ call.pc = "none"

QueueAdd(n, provider) ==
    /\ Idle
    /\ n \in card
    /\ Cardinality(jobs) < MaxJobs
    /\ LET mapping == Mapping(mem, n)
       IN /\ ~mapping.hidden /\ mapping.platform # NoId
          /\ Provider(mem.cat, mapping.platform, provider)
          /\ jobs' = jobs \cup
                 {[folder |-> n, platform |-> mapping.platform, changed |-> FALSE]}
    /\ UNCHANGED <<pak, card, disk, mem, call, refused, saves>>

QueueFinish ==
    /\ mem.up
    /\ \E j \in jobs : jobs' = jobs \ {j}
    /\ UNCHANGED <<pak, card, disk, mem, call, refused, saves>>

EnsureMappingEditAllowed_Always == TRUE
EnsureMappingEditAllowed == jobs = {}

-----------------------------------------------------------------------------
(* Mutations: they clone the overrides, change the copy, and commit it. *)

Commit(scope, subject, value, proposed) ==
    /\ saves < MaxSaves
    /\ call' = [pc |-> "persist", scope |-> scope, subject |-> subject,
                value |-> value, proposed |-> Compact(proposed)]
    /\ UNCHANGED <<pak, card, disk, mem, jobs, refused, saves>>

SetFolderAt(scope, key, entry) ==
    /\ key # NoKey
    /\ Commit(scope, key, entry, SetFolder(mem.overrides, key, entry))

(* The picker on a folder of the card: a platform of the catalogue, or clear *)
(* what the folder has.                                                      *)
SetFolderPlatform(n, id) ==
    /\ Idle /\ EnsureMappingEditAllowed
    /\ n \in card
    /\ IF id = NoId THEN Mapping(mem, n).source = "folder" ELSE id \in Known(mem.cat)
    /\ SetFolderAt("folder", KeyOf[n],
                   [FolderEntry(mem.overrides, KeyOf[n]) EXCEPT !.platform = id])

ToggleFolderHidden(n) ==
    /\ Idle /\ EnsureMappingEditAllowed
    /\ n \in card
    /\ SetFolderAt("hidden", KeyOf[n],
           [FolderEntry(mem.overrides, KeyOf[n]) EXCEPT !.hidden = ~Mapping(mem, n).hidden])

(* The picker on a suffix: those of the card, and those with a saved default. *)
EditableTags == {TagOf[n] : n \in card} \cup DOMAIN mem.overrides.tags
SetTagDefault(t, id) ==
    /\ Idle /\ EnsureMappingEditAllowed
    /\ t \in EditableTags
    /\ IF id = NoId THEN ResolveTag(mem, t).source = "tag" ELSE id \in Known(mem.cat)
    /\ Commit("tag", <<t>>, [Empty EXCEPT !.platform = id], SetTag(mem.overrides, t, id))

(* Settings lists the overrides whose folder is gone, to be cleared. *)
MissingKeys == DOMAIN mem.overrides.folders \ {KeyOf[n] : n \in card}
ClearMissing(key) ==
    /\ Idle /\ EnsureMappingEditAllowed
    /\ key \in MissingKeys
    /\ SetFolderAt("clear", FolderKey(FolderPathForKey(key)), Empty)

-----------------------------------------------------------------------------
(* ov_persist, step by step, and the publication by commit. *)

Goto(pc) == call' = [call EXCEPT !.pc = pc]
GiveUp == call' = NoCall
MustBackUp_Never == FALSE
MustBackUp == mem.needBackup /\ disk.file # Absent

(* copy_file opens the old file, then truncates .rejected. *)
OpenBackup ==
    /\ call.pc = "persist" /\ MustBackUp
    /\ \/ /\ disk.file.kind # "unreadable"
          /\ disk' = [disk EXCEPT !.rejected = [kind |-> "partial"]]
          /\ Goto("copy")
       \/ GiveUp /\ UNCHANGED disk
    /\ UNCHANGED <<pak, card, mem, jobs, refused, saves>>

CopyBackup_FlagFirst ==
    /\ call.pc = "copy"
    /\ mem' = [mem EXCEPT !.needBackup = FALSE]
    /\ \/ /\ disk' = [disk EXCEPT !.rejected = disk.file]
          /\ Goto("persist")
       \/ /\ disk' = [disk EXCEPT !.rejected = Absent]
          /\ GiveUp
    /\ UNCHANGED <<pak, card, jobs, refused, saves>>
CopyBackup ==
    /\ call.pc = "copy"
    /\ \/ /\ disk' = [disk EXCEPT !.rejected = disk.file]
          /\ mem' = [mem EXCEPT !.needBackup = FALSE]
          /\ Goto("persist")
       \/ /\ disk' = [disk EXCEPT !.rejected = Absent]
          /\ GiveUp
          /\ UNCHANGED mem
    /\ UNCHANGED <<pak, card, jobs, refused, saves>>

OpenTmp ==
    /\ call.pc = "persist" /\ ~MustBackUp
    /\ \/ disk' = [disk EXCEPT !.tmp = "partial"] /\ Goto("write")
       \/ GiveUp /\ UNCHANGED disk
    /\ UNCHANGED <<pak, card, mem, jobs, refused, saves>>

WriteTmp ==
    /\ call.pc = "write"
    /\ \/ disk' = [disk EXCEPT !.tmp = "written"] /\ Goto("rename")
       \/ disk' = [disk EXCEPT !.tmp = "none"] /\ GiveUp
    /\ UNCHANGED <<pak, card, mem, jobs, refused, saves>>

Rename_Unchecked ==
    /\ call.pc = "rename"
    /\ saves' = saves + 1
    /\ Goto("publish")
    /\ \/ disk' = [disk EXCEPT !.file = ToJson(call.proposed), !.tmp = "none"]
       \/ disk' = [disk EXCEPT !.tmp = "none"]
    /\ UNCHANGED <<pak, card, mem, jobs, refused>>
Rename ==
    /\ call.pc = "rename"
    /\ \/ /\ disk' = [disk EXCEPT !.file = ToJson(call.proposed), !.tmp = "none"]
          /\ saves' = saves + 1
          /\ Goto("publish")
       \/ disk' = [disk EXCEPT !.tmp = "none"] /\ GiveUp /\ UNCHANGED saves
    /\ UNCHANGED <<pak, card, mem, jobs, refused>>

Publish ==
    /\ call.pc = "publish"
    /\ mem' = [mem EXCEPT !.overrides = call.proposed]
    /\ GiveUp
    /\ UNCHANGED <<pak, card, disk, jobs, refused, saves>>

-----------------------------------------------------------------------------
Edit ==
    \/ \E n \in Names, id \in Ids \cup {NoId} : SetFolderPlatform(n, id)
    \/ \E n \in Names : ToggleFolderHidden(n)
    \/ \E t \in Tags, id \in Ids \cup {NoId} : SetTagDefault(t, id)
    \/ \E key \in MissingKeys : ClearMissing(key)
Save == OpenBackup \/ CopyBackup \/ OpenTmp \/ WriteTmp \/ Rename \/ Publish
Next ==
    \/ Start \/ End \/ Outside
    \/ \E n \in Names, p \in {"artwork", "cheats"} : QueueAdd(n, p)
    \/ QueueFinish
    \/ Edit
    \/ Save

Spec == Init /\ [][Next]_vars

-----------------------------------------------------------------------------
(* Properties. *)

(* What the file says before it is checked against the catalogue. *)
RawEntry(e) == [platform |-> e.platform, hidden |-> e.hidden = "true"]
RawFile(file) ==
    IF file.kind # "mappings" THEN Nothing
    ELSE [tags |-> IF file.tagsOk THEN file.tags ELSE EmptyMap,
          folders |-> IF ~file.foldersOk THEN EmptyMap
                      ELSE [k \in DOMAIN file.folders |-> RawEntry(file.folders[k])]]

(* systems.h:110-125, a store whose edits take effect and are saved together *)
(* or not at all: what is in effect counts from the rename on.               *)
Store == INSTANCE MappingStore WITH
    up <- mem.up,
    effective <- IF call.pc = "publish" THEN call.proposed ELSE mem.overrides,
    saved <- RawFile(disk.file)
ImplementsStore == Store!StoreSpec

IsMap(f) == f = [x \in DOMAIN f |-> f[x]]
OverridesOK(ov, cat) ==
    /\ ov = [tags |-> ov.tags, folders |-> ov.folders]
    /\ IsMap(ov.tags) /\ IsMap(ov.folders)
    /\ \A t \in DOMAIN ov.tags : ov.tags[t] \in Known(cat)
    /\ \A k \in DOMAIN ov.folders :
           /\ KeyIsSafe(k)
           /\ ov.folders[k] \in [platform : Known(cat) \cup {NoId}, hidden : BOOLEAN]
           /\ ov.folders[k] # Empty

(* The variables keep their shape, and every override, in memory or about to *)
(* be saved, names a platform of the loaded catalogue and says something.    *)
TypeOK ==
    /\ pak \in Paks /\ card \subseteq Names
    /\ mem.up \in BOOLEAN /\ mem.needBackup \in BOOLEAN
    /\ ~mem.up => mem = NoMem /\ call = NoCall
    /\ mem.up => CatalogueOk(pak) /\ mem.cat = LoadCatalogue(pak)
    /\ OverridesOK(mem.overrides, mem.cat)
    /\ call.pc \in {"none", "persist", "copy", "write", "rename", "publish"}
    /\ OverridesOK(call.proposed, mem.cat)
    /\ jobs \subseteq [folder : Names, platform : Ids, changed : BOOLEAN]

(* "Each mutation validates, persists, and only then publishes ... on        *)
(* failure the previous file and the effective mappings both stand"          *)
(* (systems.h:114): whenever no mutation runs, what is in effect is what the *)
(* next start would load, whatever failed before.                            *)
MemoryIsFile == Idle => LoadOverrides(disk.file, mem.cat) = mem.overrides

(* A file that was not taken over completely is never the price of a later   *)
(* save (systems.c:938): it stays in place until .rejected holds it whole,   *)
(* through failed copies, crashes in the middle of one, and restarts.        *)
RefusedIsKept == refused # Absent => refused \in {disk.file, disk.rejected}

(* What a file says, entry by entry, and which entries a call is about; that *)
(* a folder is not hidden says nothing.                                      *)
Says(file) ==
    IF file.kind # "mappings" THEN {}
    ELSE {<<"tag", <<t>>, file.tags[t]>> : t \in DOMAIN file.tags} \cup
         {<<"platform", k, file.folders[k].platform>> :
             k \in {x \in DOMAIN file.folders : file.folders[x].platform # NoId}} \cup
         {<<"hidden", k, file.folders[k].hidden>> :
             k \in {x \in DOMAIN file.folders :
                  file.folders[x].hidden \notin {"absent", "false"}}}
Edits(c) ==
    CASE c.scope = "tag" -> {<<"tag", c.subject>>}
      [] c.scope = "folder" -> {<<"platform", c.subject>>}
      [] c.scope = "hidden" -> {<<"hidden", c.subject>>}
      [] OTHER -> {<<"platform", c.subject>>, <<"hidden", c.subject>>}

(* A save changes nothing but the entry that was edited, unless the whole    *)
(* old file is in .rejected: no mapping of another folder or suffix, also of *)
(* a platform this version does not know, vanishes with an edit.             *)
SaveKeepsTheRest ==
    [][mem.up /\ disk'.file # disk.file =>
           \/ disk'.rejected = disk.file
           \/ /\ disk.file.kind \in {"absent", "mappings"}
              /\ \A s \in Says(disk.file) :
                     <<s[1], s[2]>> \in Edits(call) \/ s \in Says(disk'.file)]_vars

(* README.md:213-222: a folder's own choice wins over a suffix default, which*)
(* wins over the bundled one; clearing exposes the next one down; hiding     *)
(* forgets no platform and touches no other folder.  Every published edit is *)
(* seen by exactly the folders it is meant for.                              *)
AfterEdit(n) ==
    LET old == Mapping(mem, n)
        id == call.value.platform
        tagged == ResolveTag(mem, TagOf[n])
        mine == call.subject = KeyOf[n]
        Now(platform, source) ==
            [platform |-> platform, source |-> source, hidden |-> old.hidden]
    IN CASE call.scope = "hidden" ->
                [old EXCEPT !.hidden = IF mine THEN ~old.hidden ELSE old.hidden]
         [] call.scope = "folder" /\ mine ->
                IF id # NoId THEN Now(id, "folder")
                ELSE Now(tagged.platform, tagged.source)
         [] call.scope = "tag" /\ call.subject = <<TagOf[n]>> /\ old.source # "folder" ->
                IF id # NoId THEN Now(id, "tag")
                ELSE LET bundled == BuiltinTag(mem.cat, TagOf[n])
                     IN Now(bundled, IF bundled = NoId THEN "none" ELSE "builtin")
         [] OTHER -> old
EditsTakeEffect ==
    [][call.pc = "publish" /\ mem'.up =>
           \A n \in card : Mapping(mem', n) = AfterEdit(n)]_vars

(* README.md:250: a queued job keeps the platform it was queued with, all the*)
(* way through a handoff, and no mapping is edited under it: what is in      *)
(* effect for a folder with unfinished work is what that work was queued for,*)
(* unless the pak or the card was changed in between.                        *)
JobsMatchMappings ==
    \A j \in jobs :
        mem.up /\ ~j.changed => Mapping(mem, j.folder).platform = j.platform
=============================================================================
