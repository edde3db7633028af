------------------------------ MODULE CheatMatch ------------------------------
(***************************************************************************)
(* Which cheat file a game gets (cheats.c): the list that is built of one  *)
(* directory of the database, in the order readdir happens to return, and  *)
(* the search of the best candidate for a game.                            *)
(*                                                                         *)
(* A name is a record: its words, in order and outside parentheses, and    *)
(* its tags, the comma separated items of all its parentheses.  Words are  *)
(* told apart with capitals and punctuation; Token is what normalisation   *)
(* makes of one.  A title is a sequence of tokens.  Regions are recognised *)
(* in any case, so their tags are given in lower case.                     *)
(*                                                                         *)
(* A definition Name_Slip is Name with one plausible programming error;    *)
(* no specification uses it.  It shows that a property can fail.           *)
(***************************************************************************)
EXTENDS Integers, Sequences, FiniteSets

CONSTANTS
    Token,        \* normalize_cheat_name of a word: a function on words
    NoToken,      \* what becomes of a word of punctuation
    Files,        \* entries of the database: names, with cht for the extension
    Directories,  \* the sets of files a directory may hold
    Games,        \* display names of games
    Priorities,   \* what build_region_types may return
    NoFile        \* no path

Names == [words : Seq(DOMAIN Token), tags : SUBSET STRING]
ASSUME FilesAssumption ==
    /\ Files \subseteq [words : Seq(DOMAIN Token), tags : SUBSET STRING, cht : BOOLEAN]
    /\ Directories \subseteq SUBSET Files
    /\ NoFile \notin Files
ASSUME GamesAssumption == Games \subseteq Names
ASSUME TagsAssumption == \A n \in Files \union Games : IsFiniteSet(n.tags)
\* 32 entries of the settings, 10 known regions and "cus".
ASSUME PrioritiesAssumption ==
    Priorities \subseteq Seq(STRING) /\ \A prio \in Priorities : Len(prio) <= 43

VARIABLES
    dir,     \* what the directory holds
    unread,  \* the entries readdir has not returned yet
    list,    \* cheat_list: for each title the candidates, oldest first
    match    \* match_cheat: [pc, game, prio, next, best, score]

vars == <<dir, unread, list, match>>

-----------------------------------------------------------------------------
(* Names.                                                                  *)

Normalize(words) ==
    SelectSeq([i \in DOMAIN words |-> Token[words[i]]], LAMBDA t : t # NoToken)

\* The parts of "Title A _ Title B": " _ " needs a word on either side.
Separators(words) == {i \in 2..(Len(words) - 1) : words[i] = "_"}
Parts(words) ==
    LET ends == Separators(words) \union {0, Len(words) + 1}
    IN  {SubSeq(words, p[1] + 1, p[2] - 1) :
            p \in {q \in ends \X ends :
                    q[1] < q[2] /\ \A s \in ends : s <= q[1] \/ s >= q[2]}}

Alternates(words) == {Normalize(part) : part \in Parts(words)}

(* Parts are shorter than what they are parts of.  That is so of all words *)
(* that are not punctuation only; it is assumed because the provers cannot *)
(* count them.                                                             *)
ASSUME PartsAssumption ==
    \A file \in Files :
        /\ Cardinality(Alternates(file.words)) >= 2
        /\ \A key \in Alternates(file.words) : Len(key) >= 2
        => Normalize(file.words) \notin Alternates(file.words)

\* Two parts at least, and each still a title of its own.
CollectAliasKeys_AnyPart(words) ==
    {key \in Alternates(words) : Len(key) >= 2 /\ key # Normalize(words)}
CollectAliasKeys(words) ==
    IF /\ Cardinality(Alternates(words)) >= 2
       /\ \A key \in Alternates(words) : Len(key) >= 2 /\ key # Normalize(words)
    THEN Alternates(words) ELSE {}

CheatRegionMap ==
    [usa |-> "us", europe |-> "eu", japan |-> "jp", world |-> "wor", france |-> "fr",
     germany |-> "de", spain |-> "es", italy |-> "it", portugal |-> "pt",
     australia |-> "eu", korea |-> "kr", china |-> "cn", taiwan |-> "tw",
     brazil |-> "pt", us |-> "us", eu |-> "eu", jp |-> "jp", fr |-> "fr", de |-> "de",
     es |-> "es", it |-> "it", pt |-> "pt", kr |-> "kr", cn |-> "cn", tw |-> "tw"]
Regions(name) == {CheatRegionMap[tag] : tag \in name.tags \intersect DOMAIN CheatRegionMap}

IsDeviceSpecific(file) == file.tags \intersect {"Game Genie", "Action Replay"} # {}

-----------------------------------------------------------------------------
(* The list of a directory.                                                *)

Keys(file) == {Normalize(file.words)} \union CollectAliasKeys(file.words)
Candidates(key) == IF key \in DOMAIN list THEN list[key] ELSE <<>>

\* cheat_list_add_internal for the title of a file and each of its aliases.
AddToList(file) ==
    [key \in DOMAIN list \union Keys(file) |->
        IF key \in Keys(file) THEN Append(Candidates(key), file) ELSE list[key]]

ReadEntry(file) ==
    /\ file \in unread
    /\ unread' = unread \ {file}
    /\ list' = IF file.cht THEN AddToList(file) ELSE list
    /\ UNCHANGED <<dir, match>>

-----------------------------------------------------------------------------
(* The best candidate.                                                     *)

Overlap(file, game) == Cardinality(Regions(file) \intersect Regions(game))
RankOf(prio, regions) ==
    CHOOSE i \in DOMAIN prio :
        prio[i] \in regions /\ \A j \in DOMAIN prio : prio[j] \in regions => i <= j
ScoreRegion(file, game, prio) ==
    IF Overlap(file, game) > 0 THEN 1000 + Overlap(file, game)
    ELSE IF "wor" \in Regions(file) THEN 500
    ELSE IF \E i \in DOMAIN prio : prio[i] \in Regions(file)
         THEN 101 - RankOf(prio, Regions(file))
    ELSE IF Regions(file) = {} THEN 50 ELSE 0
Score(file, game, prio) ==
    ScoreRegion(file, game, prio) + IF IsDeviceSpecific(file) THEN 0 ELSE 1

NoMatch ==
    [pc |-> "none", game |-> NoFile, prio |-> <<>>, next |-> 0, best |-> NoFile, score |-> -1]
Found == Candidates(Normalize(match.game.words))

\* No title, one candidate, or several to compare.
MatchCheat(game, prio) ==
    LET found == Candidates(Normalize(game.words))
    IN  /\ unread = {} /\ match.pc # "scan"
        /\ match' = [pc |-> IF Len(found) > 1 THEN "scan" ELSE "done",
                     game |-> game, prio |-> prio, next |-> 1,
                     best |-> IF found = <<>> THEN NoFile ELSE found[1], score |-> -1]
        /\ UNCHANGED <<dir, unread, list>>

CompareNext ==
    /\ match.pc = "scan" /\ match.next <= Len(Found)
    /\ LET file   == Found[match.next]
           score  == Score(file, match.game, match.prio)
           better == score > match.score
       IN  match' = [pc |-> "scan", game |-> match.game, prio |-> match.prio,
                     next |-> match.next + 1,
                     best |-> IF better THEN file ELSE match.best,
                     score |-> IF better THEN score ELSE match.score]
    /\ UNCHANGED <<dir, unread, list>>

BestIsFound ==
    /\ match.pc = "scan" /\ match.next > Len(Found)
    /\ match' = [match EXCEPT !.pc = "done"]
    /\ UNCHANGED <<dir, unread, list>>

\* The lists are dropped (clear_cheat_repo_state_locked), the next use finds an updated database.
DropList ==
    /\ unread = {} /\ match.pc # "scan"
    /\ dir' \in Directories
    /\ unread' = dir'
    /\ list' = [key \in {} |-> <<>>]
    /\ match' = NoMatch

-----------------------------------------------------------------------------
Init ==
    /\ dir \in Directories
    /\ unread = dir
    /\ list = [key \in {} |-> <<>>]
    /\ match = NoMatch

Next ==
    \/ \E file \in Files : ReadEntry(file)
    \/ \E game \in Games, prio \in Priorities : MatchCheat(game, prio)
    \/ CompareNext \/ BestIsFound \/ DropList

Spec == Init /\ [][Next]_vars

-----------------------------------------------------------------------------
(* What README.md promises of the choice, without scores and lists.        *)

\* A title, or one of the alternate titles when each part is a title of several words.
IsTitleOf(file, title) ==
    \/ title = Normalize(file.words)
    \/ /\ Cardinality(Alternates(file.words)) >= 2
       /\ \A part \in Parts(file.words) : Len(Normalize(part)) >= 2
       /\ \E part \in Parts(file.words) : title = Normalize(part)
Choices(game) ==
    {file \in dir : file.cht /\ IsTitleOf(file, Normalize(game.words))}

InPriority(file, prio) == \E i \in DOMAIN prio : prio[i] \in Regions(file)
Tier(file, game, prio) ==
    IF Regions(file) \intersect Regions(game) # {} THEN 1
    ELSE IF "wor" \in Regions(file) THEN 2
    ELSE IF InPriority(file, prio) THEN 3
    ELSE IF Regions(file) = {} THEN 4 ELSE 5

\* What counts within a tier: regions shared with the game, or one early in the priority.
Merit(file, game, prio) ==
    IF Tier(file, game, prio) = 1 THEN Overlap(file, game)
    ELSE IF Tier(file, game, prio) = 3 THEN -RankOf(prio, Regions(file))
    ELSE 0
SameTier(file, other, game, prio) == Tier(file, game, prio) = Tier(other, game, prio)

(* The parts of MatchFollowsRules.                                         *)
FoundByTitle ==
    IF Choices(match.game) = {} THEN match.best = NoFile
                                ELSE match.best \in Choices(match.game)
BestTierWins ==
    \A file \in Choices(match.game) :
        Tier(match.best, match.game, match.prio) <= Tier(file, match.game, match.prio)
MeritDecides ==
    \A file \in Choices(match.game) :
        /\ SameTier(file, match.best, match.game, match.prio)
        /\ IsDeviceSpecific(file) = IsDeviceSpecific(match.best)
        => Merit(file, match.game, match.prio) <= Merit(match.best, match.game, match.prio)
PlainWins ==
    \A file \in Choices(match.game) :
        /\ SameTier(file, match.best, match.game, match.prio)
        /\ Merit(match.best, match.game, match.prio) <= Merit(file, match.game, match.prio)
        /\ ~IsDeviceSpecific(file)
        => ~IsDeviceSpecific(match.best)

(* What the file a game gets is, whatever the order of the directory:      *)
(* - it bears the game's title or an alternate one (README.md:297-304),    *)
(*   and no file is found only if none does;                               *)
(* - no other candidate stands in a better tier of regions (307-310);      *)
(* - of two files of a tier, both plain or both for a device, it is not    *)
(*   the one that shares fewer regions with the game, or whose regions     *)
(*   stand later in the user's priority (309);                             *)
(* - a file for a device is not taken when a plain one of its tier is      *)
(*   there whose regions count as much (the example of 312).               *)
(* The rule of line 312 itself says more, see PlainFirstInTier.            *)
MatchFollowsRules ==
    match.pc = "done" => FoundByTitle /\ BestTierWins /\ MeritDecides /\ PlainWins

(* README.md:312, "Within each tier, plain cheat files are preferred over  *)
(* device-specific variants": no file for a device is taken when a plain   *)
(* one of its tier is there.  The code adds one point for a plain file and *)
(* one for each region shared or place in the priority, so it is not so.   *)
PlainFirstInTier ==
    match.pc = "done" =>
        \A file \in Choices(match.game) :
            /\ SameTier(file, match.best, match.game, match.prio)
            /\ ~IsDeviceSpecific(file)
            => ~IsDeviceSpecific(match.best)
=============================================================================
