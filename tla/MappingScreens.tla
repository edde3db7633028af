---------------------------- MODULE MappingScreens ----------------------------
(* What the screens of ui.c offer of the mappings of SystemMappings: the     *)
(* rows of the platform picker with its suggestions and search, of Settings >*)
(* System Mappings, and of the suffix defaults.                              *)
(* Text is abstracted to tokens: a platform has the set of names it answers  *)
(* to, and the set of search texts that occur in its name, id or an alias.   *)
EXTENDS SystemMappings, SequencesExt

CONSTANTS
    DisplayOf,      \* the folder's name without its suffix, a text
    Searches,       \* texts the user may type; NoText is an empty search
    NoText,
    MaxSuggestions, \* 8 in show_mapping_picker
    MaxCandidates   \* 16 in systems_suggest

ASSUME LimitsAssumption == MaxSuggestions \in Nat /\ MaxCandidates \in Nat

PlatformOf(cat, id) ==
    cat.platforms[CHOOSE i \in DOMAIN cat.platforms : cat.platforms[i].id = id]
ById(platforms) == [i \in DOMAIN platforms |-> platforms[i].id]
Take(s, n) == SubSeq(s, 1, IF Len(s) < n THEN Len(s) ELSE n)

(* The members of a list that pass a filter, in their order. *)
Keep(s, S) ==
    LET kept[n \in 0..Len(s)] ==
            IF n = 0 THEN <<>>
            ELSE IF s[n] \in S THEN Append(kept[n - 1], s[n]) ELSE kept[n - 1]
    IN kept[Len(s)]

MatchesFilter(p, text) == text = NoText \/ text \in p.texts
NamesMatch(p, display) == display # NoText /\ display \in p.names
NameContains(p, display) == display # NoText /\ display \in p.nameTexts
Matching(cat, text) == {id \in Known(cat) : MatchesFilter(PlatformOf(cat, id), text)}

(* Each stage adds, one by one, what is not listed yet. *)
AddNew(list, more) ==
    LET added[n \in 0..Len(more)] ==
            IF n = 0 THEN list
            ELSE IF Contains(added[n - 1], more[n]) THEN added[n - 1]
            ELSE Append(added[n - 1], more[n])
    IN added[Len(more)]

(* systems_suggest: exact names, candidates of the suffix, its bundled       *)
(* default, then names that contain the folder's.                            *)
Suggest(cat, tag, display, text) ==
    LET all == ById(cat.platforms)
        matching == Matching(cat, text)
        exact == {id \in matching : NamesMatch(PlatformOf(cat, id), display)}
        similar == {id \in matching : NameContains(PlatformOf(cat, id), display)}
        candidates == IF tag \in DOMAIN cat.candidates
                      THEN Take(cat.candidates[tag], MaxCandidates) ELSE <<>>
        bundled == IF BuiltinTag(cat, tag) = NoId THEN <<>> ELSE <<BuiltinTag(cat, tag)>>
        reviewed == AddNew(AddNew(Keep(all, exact), Keep(candidates, matching)),
                           Keep(bundled, matching))
    IN Take(AddNew(reviewed, Keep(all, similar)), MaxSuggestions)

(* The suggestions, then the other matching platforms in the order of names; *)
(* which order that is matters to nothing here.                              *)
SortedPlatforms(cat) == SetToSeq(Known(cat))
PickerPlatforms(cat, tag, display, text) ==
    LET first == Suggest(cat, tag, display, text)
    IN first \o Keep(SortedPlatforms(cat), Matching(cat, text) \ ToSet(first))

(* Settings > System Mappings: folders without a platform come first, then   *)
(* the other folders, then the overrides whose folder is gone.               *)
KeysOf(folders) == [i \in DOMAIN folders |-> KeyOf[folders[i]]]
FolderRows(m, folders, unmapped) ==
    KeysOf(Keep(folders, {n \in Names : (Mapping(m, n).platform = NoId) = unmapped}))
MissingRows_NotHidden(m, folders) ==
    LET chosen == {k \in DOMAIN m.overrides.folders : m.overrides.folders[k].platform # NoId}
    IN Keep(SetToSeq(chosen), chosen \ ToSet(KeysOf(folders)))
MissingRows(m, folders) ==
    LET keys == DOMAIN m.overrides.folders
    IN Keep(SetToSeq(keys), keys \ ToSet(KeysOf(folders)))
MappingRows(m, folders) ==
    FolderRows(m, folders, TRUE) \o FolderRows(m, folders, FALSE) \o MissingRows(m, folders)

(* Suffix defaults: those of the card, then those saved for no folder. *)
SuffixRows(m, folders) ==
    AddNew(AddNew(<<>>, [i \in DOMAIN folders |-> TagOf[folders[i]]]),
           SetToSeq(DOMAIN m.overrides.tags))

-----------------------------------------------------------------------------
Once(rows, S) == Len(rows) = Cardinality(S) /\ ToSet(rows) = S

(* Whatever is typed and whatever the catalogue suggests, the picker offers  *)
(* every platform that matches exactly once: the limits on suggestions and   *)
(* candidates, and platforms that several stages suggest, cost none of them. *)
PickerOffersEachOnce ==
    \A t \in Tags, display \in {DisplayOf[n] : n \in Names} \cup {NoText},
       text \in Searches \cup {NoText} :
        Once(PickerPlatforms(mem.cat, t, display, text),
             Matching(mem.cat, text))

(* README.md:236: hidden folders stay listed in Settings, an override whose  *)
(* folder was renamed stays listed until it is cleared, and no default is out*)
(* of reach because the folders of its suffix are gone: each exactly once.   *)
SettingsListEverything ==
    LET folders == SetToSeq(card)
    IN /\ Once(MappingRows(mem, folders),
               {KeyOf[n] : n \in card} \cup DOMAIN mem.overrides.folders)
       /\ Once(SuffixRows(mem, folders),
               {TagOf[n] : n \in card} \cup DOMAIN mem.overrides.tags)

(* And every row can be acted on: the path the editor builds from the key of *)
(* a missing folder (ui.c:2004) is taken back to that key, whatever relative *)
(* spelling SDCARD_PATH gives the ROM directory.                             *)
OverridesAreReachable ==
    \A k \in DOMAIN mem.overrides.folders : FolderKey(FolderPathForKey(k)) = k

(* Whenever the screens are up they offer everything there is, once, and what*)
(* they offer can be edited: no override in effect is out of reach.          *)
ScreensAreComplete ==
    Idle => PickerOffersEachOnce /\ SettingsListEverything /\ OverridesAreReachable
=============================================================================
