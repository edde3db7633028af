------------------------------ MODULE RomLibrary ------------------------------
(* What the application takes for a console folder and for a game (device.c),*)
(* where the artwork of a game lies, and which file of a game is hashed.     *)
(* A card is a function from paths to kinds of entries, a path a sequence of *)
(* names, and a name the sequence of its parts between dots: "Game.gba" is   *)
(* <<"Game", "gba">>, ".media" is <<"", "media">>.  The listings are sorted  *)
(* for the screen only; here they are sets.                                  *)
EXTENDS Integers, FiniteSets, SequencesExt

CONSTANTS
    Tagged,     \* folder names that end in a suffix, without ".disabled"
    Starred,    \* folder names marked as shortcuts of the launcher
    NonGame,    \* extensions that are never games
    Long,       \* parts that are no extension: empty, or over four characters
    CueLists    \* cue file -> the names its FILE lines give, in their order

NameOf(path) == path[Len(path)]
Has(card, path) == path \in DOMAIN card
IsDir(card, path) == Has(card, path) /\ card[path] = "dir"
Children(card, dir) ==
    {NameOf(p) : p \in {q \in DOMAIN card : Len(q) > 0 /\ Front(q) = dir}}

-----------------------------------------------------------------------------
(* Names. *)

Dotted(name) == Len(name) > 1 /\ name[1] = ""
MapTxt == <<"map", "txt">>
IsDisabled(name) ==
    /\ Len(name) > 1 /\ Last(name) = "disabled"
    /\ name # <<"", "disabled">>
IsHidden(name) == Dotted(name) \/ IsDisabled(name) \/ name = MapTxt
Base(name) == IF IsDisabled(name) THEN Front(name) ELSE name

HasExtension(base) == Len(base) > 1 /\ ~(Len(base) = 2 /\ Dotted(base))
StripExtension(base) ==
    IF HasExtension(base) /\ Last(base) \notin Long THEN Front(base) ELSE base
IsNonGame(base) == HasExtension(base) /\ Last(base) \in NonGame

-----------------------------------------------------------------------------
(* The console folders of the main list. *)

IsShortcut(card, dir) ==
    NameOf(dir) \in Starred \/ Has(card, Append(dir, <<"", "shortcut">>))
HasVisibleContent(card, dir) == \E name \in Children(card, dir) : ~IsHidden(name)

ConsoleVisible(card, dir, showHidden) ==
    LET name == NameOf(dir)
    IN IF showHidden
       THEN ~(Dotted(name) /\ Base(name) \notin Tagged) /\ name # MapTxt
       ELSE ~IsHidden(name) /\ HasVisibleContent(card, dir)
ScanConsoleDirs(card, showHidden) ==
    {dir \in {<<name>> : name \in Children(card, <<>>)} :
        /\ IsDir(card, dir)
        /\ ~IsShortcut(card, dir)
        /\ ConsoleVisible(card, dir, showHidden)
        /\ Base(NameOf(dir)) \in Tagged}

-----------------------------------------------------------------------------
(* The games of a console folder. *)

Marker(path, extension) == Append(path, Append(Base(NameOf(path)), extension))
IsMultiDisc(card, path) == IsDir(card, path) /\ Has(card, Marker(path, "m3u"))
IsCueFolder(card, path) ==
    IsDir(card, path) /\ ~IsMultiDisc(card, path) /\ Has(card, Marker(path, "cue"))

Row(card, path, display) ==
    [path |-> path, display |-> display, disabled |-> IsDisabled(NameOf(path)),
     multiDisc |-> IsMultiDisc(card, path), cueFolder |-> IsCueFolder(card, path)]
Listed(name, showHidden) ==
    IF showHidden THEN name[1] # "" /\ name # MapTxt ELSE ~IsHidden(name)

(* scan_roms_internal: a broken link is skipped, a folder is a game, or one  *)
(* more level of the listing.                                                *)
ScanRoms_IntoDiscs(card, console, showHidden) ==
    LET rows[dir \in {p \in DOMAIN card : IsDir(card, p)}] ==
            UNION {LET path == Append(dir, name)
                   IN IF card[path] = "dir" THEN rows[path]
                      ELSE IF card[path] = "broken" \/ IsNonGame(Base(name)) THEN {}
                      ELSE {Row(card, path, StripExtension(Base(name)))} :
                   name \in {x \in Children(card, dir) : Listed(x, showHidden)}}
    IN rows[console]
ScanRoms(card, console, showHidden) ==
    LET rows[dir \in {p \in DOMAIN card : IsDir(card, p)}] ==
            UNION {LET path == Append(dir, name)
                   IN IF IsMultiDisc(card, path) \/ IsCueFolder(card, path)
                         THEN {Row(card, path, Base(name))}
                      ELSE IF card[path] = "dir" THEN rows[path]
                      ELSE IF card[path] = "broken" \/ IsNonGame(Base(name)) THEN {}
                      ELSE {Row(card, path, StripExtension(Base(name)))} :
                   name \in {x \in Children(card, dir) : Listed(x, showHidden)}}
    IN rows[console]

-----------------------------------------------------------------------------
(* What is kept of a game in the queue, and what is made of it again. *)

ArtworkPath(path, display) ==
    Front(path) \o << <<"", "media">>, Append(display, "png") >>

(* build_rom_from_item: a worker knows the path and the display name only. *)
RomFromItem(card, path, display) ==
    LET marked(extension) ==
            IsDir(card, path) /\ Has(card, Append(path, Append(display, extension)))
    IN [path |-> path, display |-> display, multiDisc |-> marked("m3u"),
        cueFolder |-> ~marked("m3u") /\ marked("cue")]

DiscImages == <<"chd", "iso", "bin", "img">>
EndsIn(name, extension) == Len(name) > 1 /\ Last(name) = extension

(* find_primary_rom_file: a file one of the cue sheets names, otherwise one  *)
(* with the first extension of the list there is; readdir gives no order.    *)
CueTargets(card, dir) ==
    UNION {LET names == CueLists[Append(dir, cue)]
               found == {k \in DOMAIN names : Has(card, Append(dir, names[k]))}
           IN {Append(dir, names[k]) : k \in {x \in found : \A y \in found : x <= y}} :
           cue \in {x \in Children(card, dir) :
                       EndsIn(x, "cue") /\ Append(dir, x) \in DOMAIN CueLists}}
ImageTargets(card, dir) ==
    LET with(k) == {x \in Children(card, dir) : EndsIn(x, DiscImages[k])}
        present == {k \in DOMAIN DiscImages : with(k) # {}}
    IN UNION {{Append(dir, x) : x \in with(k)} :
                 k \in {i \in present : \A j \in present : i <= j}}
PrimaryFiles(card, dir, isCue) ==
    IF isCue /\ CueTargets(card, dir) # {} THEN CueTargets(card, dir)
    ELSE ImageTargets(card, dir)

(* compute_md5: the files it may hash; none is a failure.  Of a zip archive  *)
(* the largest member is hashed.                                             *)
HashTargets(card, rom) ==
    IF rom.multiDisc \/ rom.cueFolder
    THEN PrimaryFiles(card, rom.path, rom.cueFolder)
    ELSE {rom.path}
=============================================================================
