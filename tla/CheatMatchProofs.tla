--------------------------- MODULE CheatMatchProofs ---------------------------
(***************************************************************************)
(* The choice of a cheat file, for any words, files, games and region      *)
(* priorities.  The argument: the candidates of a title are the files read *)
(* that bear it, the best so far has the highest score of those compared,  *)
(* and scores keep the tiers apart because a priority has at most 43       *)
(* entries.                                                                *)
(***************************************************************************)
EXTENDS CheatMatch, FiniteSetTheorems, WellFoundedInduction, TLAPS

Read == dir \ unread
Elements(seq) == {seq[i] : i \in DOMAIN seq}

\* A list holds, for each title, the files read so far that bear it.
ListInv ==
    /\ dir \in Directories /\ unread \subseteq dir
    /\ \A key \in DOMAIN list :
        /\ list[key] \in Seq(Files)
        /\ Elements(list[key]) = {file \in Read : file.cht /\ key \in Keys(file)}
    /\ \A file \in Read : file.cht => Keys(file) \subseteq DOMAIN list

\* The best so far is the first of those compared with the highest score.
ScanInv ==
    /\ match.next \in Nat /\ 1 <= match.next /\ match.next <= Len(Found) + 1
    /\ match.best \in Elements(Found)
    /\ match.next = 1 => match.score = -1
    /\ match.next > 1 => match.score = Score(match.best, match.game, match.prio)
    /\ \A i \in DOMAIN Found :
        i < match.next => Score(Found[i], match.game, match.prio) <= match.score

\* The answer has the highest score of all candidates.
DoneInv ==
    IF Found = <<>> THEN match.best = NoFile
    ELSE /\ match.best \in Elements(Found)
         /\ \A file \in Elements(Found) :
              Score(file, match.game, match.prio)
                  <= Score(match.best, match.game, match.prio)

MatchInv ==
    /\ match = [pc |-> match.pc, game |-> match.game, prio |-> match.prio,
                next |-> match.next, best |-> match.best, score |-> match.score]
    /\ match.pc \in {"none", "scan", "done"}
    /\ match.pc # "none" =>
        unread = {} /\ match.game \in Games /\ match.prio \in Priorities
    /\ match.pc = "scan" => ScanInv
    /\ match.pc = "done" => DoneInv

MatchingInv == ListInv /\ MatchInv

\* The point a plain file gets.
Plain(file) == IF IsDeviceSpecific(file) THEN 0 ELSE 1

-----------------------------------------------------------------------------
(* Lemmas about names, ranks and scores.                                   *)

(* The regions of a name are finitely many, so their overlap is a number,  *)
(* and it is zero only where no region is shared.                          *)
LEMMA OverlapCounts ==
    ASSUME NEW file \in Files, NEW game \in Games
    PROVE  /\ Overlap(file, game) \in Nat
           /\ Overlap(file, game) > 0 <=> Regions(file) \cap Regions(game) # {}
<1>1. IsFiniteSet(file.tags \cap DOMAIN CheatRegionMap)
  BY TagsAssumption, FS_Intersection
<1>2. IsFiniteSet(Regions(file))
  <2>. DEFINE tags == file.tags \cap DOMAIN CheatRegionMap
              code == [tag \in tags |-> CheatRegionMap[tag]]
  <2>1. code \in Surjection(tags, Regions(file))
    BY DEF Surjection, Regions
  <2>. QED
    BY <1>1, <2>1, FS_Surjection DEF ExistsSurjection
<1>3. IsFiniteSet(Regions(file) \cap Regions(game))
  BY <1>2, FS_Intersection
<1>. QED
  BY <1>3, FS_EmptySet, FS_CardinalityType DEF Overlap

(* The first region of a priority that is among given ones exists and is   *)
(* one of its 43 entries.                                                  *)
LEMMA RanksExist ==
    ASSUME NEW prio \in Priorities, NEW regions,
           \E i \in DOMAIN prio : prio[i] \in regions
    PROVE  RankOf(prio, regions) \in 1..43
<1>. DEFINE T == {i \in DOMAIN prio : prio[i] \in regions}
            less == {p \in Nat \X Nat : p[1] < p[2]}
<1>1. DOMAIN prio \subseteq 1..43
  <2>1. prio \in Seq(STRING) /\ Len(prio) <= 43
    BY PrioritiesAssumption
  <2>2. DOMAIN prio = 1..Len(prio) /\ Len(prio) \in Nat
    BY <2>1
  <2>3. \A n \in Nat : n <= 43 => 1..n \subseteq 1..43
    OBVIOUS
  <2>. QED
    BY <2>1, <2>2, <2>3, Zenon
<1>2. T \subseteq Nat /\ T # {}
  BY <1>1
<1>3. IsWellFoundedOn(less, Nat)
  BY NatLessThanWellFounded, Zenon DEF OpToRel, IsWellFoundedOn
<1>4. PICK i \in T : \A j \in T : <<j, i>> \notin less
  <2>. HIDE DEF T, less
  <2>. QED
    BY <1>2, <1>3, WFMin
<1>5. \A j \in T : i <= j
  <2>1. ASSUME NEW j \in T, j < i PROVE FALSE
    <3>1. <<j, i>> \in less
      BY <1>2, <2>1
    <3>. QED
      BY <1>4, <3>1
  <2>2. \A j \in T : i \in Nat /\ j \in Nat
    BY <1>2
  <2>. QED
    BY <2>1, <2>2
<1>6. \E k \in DOMAIN prio :
        prio[k] \in regions /\ \A j \in DOMAIN prio : prio[j] \in regions => k <= j
  BY <1>5
<1>7. RankOf(prio, regions) \in DOMAIN prio
  BY <1>6, Zenon DEF RankOf
<1>. QED
  BY <1>1, <1>7

(* The scores of each tier, with the point for a plain file.               *)
LEMMA ScoresOfTiers ==
    ASSUME NEW file \in Files, NEW game \in Games, NEW prio \in Priorities
    PROVE  /\ Score(file, game, prio) \in Int
           /\ \/ (Tier(file, game, prio) = 1 /\ Score(file, game, prio) >= 1001)
              \/ (Tier(file, game, prio) = 2 /\ Score(file, game, prio) \in 500..501)
              \/ (Tier(file, game, prio) = 3 /\ Score(file, game, prio) \in 58..101)
              \/ (Tier(file, game, prio) = 4 /\ Score(file, game, prio) \in 50..51)
              \/ (Tier(file, game, prio) = 5 /\ Score(file, game, prio) \in 0..1)
<1>. DEFINE bonus == IF IsDeviceSpecific(file) THEN 0 ELSE 1
            region == ScoreRegion(file, game, prio)
<1>1. bonus \in 0..1 /\ Score(file, game, prio) = region + bonus
  BY DEF Score
<1>2. CASE Overlap(file, game) > 0
  <2>1. region = 1000 + Overlap(file, game) /\ Tier(file, game, prio) = 1
    BY <1>2, OverlapCounts DEF ScoreRegion, Tier
  <2>. QED
    BY <1>1, <1>2, <2>1, OverlapCounts
<1>3. CASE ~(Overlap(file, game) > 0) /\ "wor" \in Regions(file)
  <2>1. region = 500 /\ Tier(file, game, prio) = 2
    BY <1>3, OverlapCounts DEF ScoreRegion, Tier
  <2>. QED
    BY <1>1, <2>1
<1>4. CASE /\ ~(Overlap(file, game) > 0) /\ "wor" \notin Regions(file)
           /\ InPriority(file, prio)
  <2>1. region = 101 - RankOf(prio, Regions(file)) /\ Tier(file, game, prio) = 3
    BY <1>4, OverlapCounts DEF ScoreRegion, Tier, InPriority
  <2>2. RankOf(prio, Regions(file)) \in 1..43
    BY <1>4, RanksExist DEF InPriority
  <2>. QED
    BY <1>1, <2>1, <2>2
<1>5. CASE /\ ~(Overlap(file, game) > 0) /\ "wor" \notin Regions(file)
           /\ ~InPriority(file, prio)
  <2>1. /\ region = IF Regions(file) = {} THEN 50 ELSE 0
        /\ Tier(file, game, prio) = IF Regions(file) = {} THEN 4 ELSE 5
    BY <1>5, OverlapCounts DEF ScoreRegion, Tier, InPriority
  <2>. QED
    BY <1>1, <2>1
<1>. QED
  BY <1>2, <1>3, <1>4, <1>5

(* A score is a natural number, so that the first one exceeds the -1 the   *)
(* search starts with.                                                     *)
LEMMA ScoresAreNumbers ==
    ASSUME NEW file \in Files, NEW game \in Games, NEW prio \in Priorities
    PROVE  Score(file, game, prio) \in Nat
  BY ScoresOfTiers

(* A file that scores no less than another is in no worse tier.            *)
LEMMA ScoresKeepTiers ==
    ASSUME NEW f \in Files, NEW g \in Files, NEW game \in Games, NEW prio \in Priorities,
           Score(g, game, prio) <= Score(f, game, prio)
    PROVE  Tier(f, game, prio) <= Tier(g, game, prio)
  BY ScoresOfTiers

(* Within a tier a score is made of the merit and the point for a plain    *)
(* file.                                                                   *)
LEMMA ScoresWithinTiers ==
    ASSUME NEW file \in Files, NEW game \in Games, NEW prio \in Priorities
    PROVE  /\ Merit(file, game, prio) \in Int
           /\ Tier(file, game, prio) \in 1..5
           /\ Score(file, game, prio) =
                 <<1000, 500, 101, 50, 0>>[Tier(file, game, prio)]
                 + Merit(file, game, prio) + Plain(file)
<1>. DEFINE region == ScoreRegion(file, game, prio)
            merit == Merit(file, game, prio)
            tier == Tier(file, game, prio)
<1>1. Plain(file) \in 0..1 /\ Score(file, game, prio) = region + Plain(file)
  BY DEF Score, Plain
<1>2. merit \in Int /\ tier \in 1..5 /\ region = <<1000, 500, 101, 50, 0>>[tier] + merit
  <2>1. CASE Overlap(file, game) > 0
    <3>1. region = 1000 + Overlap(file, game) /\ tier = 1 /\ merit = Overlap(file, game)
      BY <2>1, OverlapCounts DEF ScoreRegion, Tier, Merit
    <3>. QED
      BY <3>1, OverlapCounts
  <2>2. CASE ~(Overlap(file, game) > 0) /\ "wor" \in Regions(file)
    <3>1. region = 500 /\ tier = 2 /\ merit = 0
      BY <2>2, OverlapCounts DEF ScoreRegion, Tier, Merit
    <3>. QED
      BY <3>1
  <2>3. CASE /\ ~(Overlap(file, game) > 0) /\ "wor" \notin Regions(file)
             /\ InPriority(file, prio)
    <3>1. /\ region = 101 - RankOf(prio, Regions(file)) /\ tier = 3
          /\ merit = -RankOf(prio, Regions(file))
      BY <2>3, OverlapCounts DEF ScoreRegion, Tier, InPriority, Merit
    <3>2. RankOf(prio, Regions(file)) \in 1..43
      BY <2>3, RanksExist DEF InPriority
    <3>. QED
      BY <3>1, <3>2
  <2>4. CASE /\ ~(Overlap(file, game) > 0) /\ "wor" \notin Regions(file)
             /\ ~InPriority(file, prio)
    <3>1. /\ region = IF Regions(file) = {} THEN 50 ELSE 0
          /\ tier = IF Regions(file) = {} THEN 4 ELSE 5
          /\ merit = 0
      BY <2>4, OverlapCounts DEF ScoreRegion, Tier, InPriority, Merit
    <3>. QED
      BY <3>1
  <2>. QED
    BY <2>1, <2>2, <2>3, <2>4
<1>. QED
  BY <1>1, <1>2

(* Of two files of a tier, both plain or both not, the one that scores no  *)
(* less has no less merit.                                                 *)
LEMMA MeritScoresMore ==
    ASSUME NEW f \in Files, NEW g \in Files, NEW game \in Games, NEW prio \in Priorities,
           Score(g, game, prio) <= Score(f, game, prio), SameTier(g, f, game, prio),
           IsDeviceSpecific(g) = IsDeviceSpecific(f)
    PROVE  Merit(g, game, prio) <= Merit(f, game, prio)
<1>1. Plain(g) = Plain(f) /\ Plain(f) \in 0..1
  BY DEF Plain
<1>2. <<1000, 500, 101, 50, 0>>[Tier(f, game, prio)] \in Int
  BY ScoresWithinTiers
<1>. QED
  BY <1>1, <1>2, ScoresWithinTiers DEF SameTier

(* Where the merit is no less, a plain file scores more than a device's.   *)
LEMMA PlainScoresMore ==
    ASSUME NEW f \in Files, NEW g \in Files, NEW game \in Games, NEW prio \in Priorities,
           Score(g, game, prio) <= Score(f, game, prio), SameTier(g, f, game, prio),
           Merit(f, game, prio) <= Merit(g, game, prio), ~IsDeviceSpecific(g)
    PROVE  ~IsDeviceSpecific(f)
<1>1. SUFFICES ASSUME IsDeviceSpecific(f) PROVE FALSE
  OBVIOUS
<1>2. Plain(f) = 0 /\ Plain(g) = 1
  BY <1>1 DEF Plain
<1>3. <<1000, 500, 101, 50, 0>>[Tier(f, game, prio)] \in Int
  BY ScoresWithinTiers
<1>. QED
  BY <1>2, <1>3, ScoresWithinTiers DEF SameTier

(* A file is listed under exactly the titles README.md gives it.           *)
LEMMA KeysAreTitles ==
    ASSUME NEW file \in Files, NEW title
    PROVE  title \in Keys(file) <=> IsTitleOf(file, title)
  BY PartsAssumption DEF Keys, IsTitleOf, CollectAliasKeys, Alternates

(* Appending adds one element.                                             *)
LEMMA AppendAdds ==
    ASSUME NEW seq \in Seq(Files), NEW file \in Files
    PROVE  /\ Append(seq, file) \in Seq(Files)
           /\ Elements(Append(seq, file)) = Elements(seq) \union {file}
<1>1. /\ Append(seq, file) \in Seq(Files)
      /\ DOMAIN Append(seq, file) = 1..(Len(seq) + 1)
      /\ DOMAIN seq = 1..Len(seq) /\ Len(seq) \in Nat
  OBVIOUS
<1>2. /\ \A i \in 1..Len(seq) : Append(seq, file)[i] = seq[i]
      /\ Append(seq, file)[Len(seq) + 1] = file
  OBVIOUS
<1>. QED
  BY <1>1, <1>2 DEF Elements

-----------------------------------------------------------------------------
(* The list.                                                               *)

(* Reading one entry lists it under its titles and nothing else.           *)
LEMMA ReadingLists ==
    ASSUME ListInv, NEW file \in unread, ReadEntry(file)
    PROVE  ListInv'
<1>1. /\ file \in Files /\ file \notin Read
      /\ dir' = dir /\ unread' = unread \ {file}
      /\ Read' = Read \union {file}
  BY FilesAssumption DEF ListInv, ReadEntry, Read
<1>2. dir' \in Directories /\ unread' \subseteq dir'
  BY <1>1 DEF ListInv
<1>3. CASE ~file.cht
  <2>1. list' = list
    BY <1>3 DEF ReadEntry
  <2>. QED
    BY <1>1, <1>2, <1>3, <2>1 DEF ListInv
<1>4. CASE file.cht
  <2>1. list' = AddToList(file)
    BY <1>4 DEF ReadEntry
  <2>2. DOMAIN list' = DOMAIN list \union Keys(file)
    BY <2>1 DEF AddToList
  <2>3. ASSUME NEW key \in DOMAIN list'
        PROVE  /\ list'[key] \in Seq(Files)
               /\ Elements(list'[key]) = {f \in Read' : f.cht /\ key \in Keys(f)}
    <3>1. CASE key \notin Keys(file)
      <4>1. key \in DOMAIN list /\ list'[key] = list[key]
        BY <2>1, <2>2, <2>3, <3>1 DEF AddToList
      <4>. QED
        BY <1>1, <3>1, <4>1 DEF ListInv
    <3>2. CASE key \in Keys(file)
      <4>1. list'[key] = Append(Candidates(key), file)
        BY <2>1, <2>2, <2>3, <3>2 DEF AddToList
      <4>2. /\ Candidates(key) \in Seq(Files)
            /\ Elements(Candidates(key)) = {f \in Read : f.cht /\ key \in Keys(f)}
        <5>1. CASE key \in DOMAIN list
          BY <5>1 DEF Candidates, ListInv
        <5>2. CASE key \notin DOMAIN list
          <6>1. Candidates(key) = <<>> /\ Elements(<<>>) = {}
            BY <5>2 DEF Candidates, Elements
          <6>2. {f \in Read : f.cht /\ key \in Keys(f)} = {}
            BY <5>2 DEF ListInv
          <6>. QED
            BY <6>1, <6>2
        <5>. QED
          BY <5>1, <5>2
      <4>3. /\ list'[key] \in Seq(Files)
            /\ Elements(list'[key]) = Elements(Candidates(key)) \union {file}
        BY <1>1, <4>1, <4>2, AppendAdds
      <4>. QED
        BY <1>1, <1>4, <3>2, <4>2, <4>3
    <3>. QED
      BY <3>1, <3>2
  <2>4. ASSUME NEW f \in Read', f.cht PROVE Keys(f) \subseteq DOMAIN list'
    BY <1>1, <2>2, <2>4 DEF ListInv
  <2>. QED
    BY <1>2, <2>3, <2>4 DEF ListInv
<1>. QED
  BY <1>3, <1>4

(* An empty list of an unread directory is in order.                       *)
LEMMA EmptyListIsRight ==
    ASSUME NEW d \in Directories, dir = d, unread = d, list = [key \in {} |-> <<>>]
    PROVE  ListInv
  BY DEF ListInv, Read

(* When the directory is read, the candidates for a game are those that    *)
(* README.md gives it.                                                     *)
LEMMA FoundAreChoices ==
    ASSUME ListInv, unread = {}, NEW game \in Games
    PROVE  /\ Candidates(Normalize(game.words)) \in Seq(Files)
           /\ Elements(Candidates(Normalize(game.words))) = Choices(game)
<1>. DEFINE key == Normalize(game.words)
<1>1. Read = dir /\ dir \subseteq Files
  BY FilesAssumption DEF Read, ListInv
<1>2. Choices(game) = {file \in Read : file.cht /\ key \in Keys(file)}
  BY <1>1, KeysAreTitles DEF Choices
<1>3. CASE key \in DOMAIN list
  BY <1>2, <1>3 DEF Candidates, ListInv
<1>4. CASE key \notin DOMAIN list
  <2>1. Candidates(key) = <<>> /\ Elements(<<>>) = {}
    BY <1>4 DEF Candidates, Elements
  <2>2. Choices(game) = {}
    BY <1>2, <1>4 DEF ListInv
  <2>. QED
    BY <2>1, <2>2
<1>. QED
  BY <1>3, <1>4

-----------------------------------------------------------------------------
(* The choice.                                                             *)

(* A choice starts with the first candidate and nothing compared.          *)
LEMMA MatchStarts ==
    ASSUME MatchingInv, NEW game \in Games, NEW prio \in Priorities,
           MatchCheat(game, prio)
    PROVE  MatchInv'
<1>. DEFINE found == Candidates(Normalize(game.words))
<1>1. /\ match' = [pc |-> IF Len(found) > 1 THEN "scan" ELSE "done",
                   game |-> game, prio |-> prio, next |-> 1,
                   best |-> IF found = <<>> THEN NoFile ELSE found[1], score |-> -1]
      /\ unread = {} /\ unread' = {} /\ list' = list
  BY DEF MatchCheat
<1>2. found \in Seq(Files) /\ Elements(found) = Choices(game)
  BY <1>1, FoundAreChoices DEF MatchingInv
<1>3. Found' = found /\ match'.game = game /\ match'.prio = prio
  BY <1>1 DEF Found, Candidates
<1>4. Len(found) \in Nat /\ DOMAIN found = 1..Len(found)
  BY <1>2
<1>5. found # <<>> => Len(found) >= 1 /\ found[1] \in Elements(found)
  BY <1>2, <1>4 DEF Elements
<1>6. CASE Len(found) > 1
  <2>1. match'.pc = "scan" /\ match'.next = 1 /\ match'.score = -1
    BY <1>1, <1>6
  <2>2. match'.best \in Elements(found)
    BY <1>1, <1>5, <1>6
  <2>3. ScanInv'
    BY <1>3, <1>4, <1>6, <2>1, <2>2 DEF ScanInv, Elements
  <2>. QED
    BY <1>1, <1>3, <2>1, <2>3 DEF MatchInv
<1>7. CASE ~(Len(found) > 1)
  <2>1. match'.pc = "done"
    BY <1>1, <1>7
  <2>2. CASE found = <<>>
    BY <1>1, <1>3, <2>1, <2>2 DEF MatchInv, DoneInv
  <2>3. CASE found # <<>>
    <3>1. match'.best = found[1] /\ match'.best \in Elements(found)
      BY <1>1, <1>5, <2>3
    <3>2. Elements(found) = {found[1]}
      BY <1>4, <1>5, <1>7, <2>3 DEF Elements
    <3>3. found[1] \in Files
      BY <1>2, <1>4, <1>5, <2>3
    <3>4. Score(found[1], game, prio) <= Score(found[1], game, prio)
      BY <3>3, ScoresOfTiers
    <3>5. DoneInv'
      BY <1>3, <2>3, <3>1, <3>2, <3>4 DEF DoneInv, Elements
    <3>. QED
      BY <1>1, <1>3, <2>1, <3>5 DEF MatchInv
  <2>. QED
    BY <2>2, <2>3
<1>. QED
  BY <1>6, <1>7

(* Comparing one more candidate keeps the best the best.                   *)
LEMMA ComparisonKeepsBest ==
    ASSUME MatchingInv, CompareNext PROVE MatchInv'
<1>. DEFINE file == Found[match.next]
            score == Score(file, match.game, match.prio)
<1>1. /\ match.pc = "scan" /\ match.next <= Len(Found) /\ ScanInv
      /\ unread = {} /\ unread' = {} /\ list' = list
      /\ match.game \in Games /\ match.prio \in Priorities
  BY DEF CompareNext, MatchingInv, MatchInv
<1>2. Found \in Seq(Files)
  BY <1>1, FoundAreChoices DEF MatchingInv, Found
<1>3. Len(Found) \in Nat /\ DOMAIN Found = 1..Len(Found)
  BY <1>2
<1>4. match.next \in DOMAIN Found /\ file \in Files /\ file \in Elements(Found)
  BY <1>1, <1>2, <1>3 DEF ScanInv, Elements
<1>5. /\ match' = [pc |-> "scan", game |-> match.game, prio |-> match.prio,
                   next |-> match.next + 1, best |-> match'.best,
                   score |-> match'.score]
      /\ IF score > match.score THEN match'.best = file /\ match'.score = score
         ELSE match'.best = match.best /\ match'.score = match.score
  BY DEF CompareNext
<1>6. /\ match'.pc = "scan" /\ match'.game = match.game /\ match'.prio = match.prio
      /\ match'.next = match.next + 1
  BY <1>5
<1>7. Found' = Found
  BY <1>1, <1>6 DEF Found, Candidates
<1>8. \A f \in Files : Score(f, match.game, match.prio) \in Nat
  BY <1>1, ScoresAreNumbers
<1>9. /\ match'.best \in Elements(Found)
       /\ match'.score = Score(match'.best, match.game, match.prio)
  <2>1. CASE match.next = 1
    <3>1. score > match.score
      BY <1>1, <1>4, <1>8, <2>1 DEF ScanInv
    <3>. QED
      BY <1>4, <1>5, <3>1
  <2>2. CASE match.next # 1
    <3>1. /\ match.best \in Elements(Found)
          /\ match.score = Score(match.best, match.game, match.prio)
      BY <1>1, <2>2 DEF ScanInv
    <3>. QED
      BY <1>4, <1>5, <3>1
  <2>. QED
    BY <2>1, <2>2
<1>10. match.score \in Int
  <2>1. match.best \in Files
    BY <1>1, <1>2, <1>3 DEF ScanInv, Elements
  <2>. QED
    BY <1>1, <1>8, <2>1 DEF ScanInv
<1>11. /\ match.score <= match'.score /\ score <= match'.score
       /\ match'.score \in Int
  BY <1>4, <1>5, <1>8, <1>10
<1>12. ASSUME NEW i \in DOMAIN Found, i < match.next + 1
       PROVE  Score(Found[i], match.game, match.prio) <= match'.score
  <2>1. Found[i] \in Files
    BY <1>2, <1>12
  <2>2. CASE i = match.next
    BY <1>11, <2>2
  <2>3. CASE i # match.next
    <3>1. i < match.next
      BY <1>1, <1>3, <1>12, <2>3 DEF ScanInv
    <3>2. Score(Found[i], match.game, match.prio) <= match.score
      BY <1>1, <1>12, <3>1 DEF ScanInv
    <3>. QED
      BY <1>8, <1>10, <1>11, <2>1, <3>2
  <2>. QED
    BY <2>2, <2>3
<1>13. ScanInv'
  <2>1. /\ match.next + 1 \in Nat /\ 1 <= match.next + 1
        /\ match.next + 1 <= Len(Found) + 1 /\ match.next + 1 # 1
    BY <1>1, <1>3 DEF ScanInv
  <2>. QED
    BY <1>6, <1>7, <1>9, <1>12, <2>1 DEF ScanInv, Elements
<1>. QED
  BY <1>1, <1>5, <1>6, <1>13 DEF MatchInv

(* The end of the comparison: the best so far is the best of all.          *)
LEMMA ComparisonEnds ==
    ASSUME MatchingInv, BestIsFound PROVE MatchInv'
<1>1. /\ match.pc = "scan" /\ match.next > Len(Found) /\ ScanInv
      /\ unread = {} /\ unread' = {} /\ list' = list
      /\ match.game \in Games /\ match.prio \in Priorities
      /\ match' = [match EXCEPT !.pc = "done"]
  BY DEF BestIsFound, MatchingInv, MatchInv
<1>2. match' = [pc |-> "done", game |-> match.game, prio |-> match.prio,
                next |-> match.next, best |-> match.best, score |-> match.score]
  BY <1>1 DEF MatchingInv, MatchInv
<1>3. Found \in Seq(Files)
  BY <1>1, FoundAreChoices DEF MatchingInv, Found
<1>4. Len(Found) \in Nat /\ DOMAIN Found = 1..Len(Found)
  BY <1>3
<1>5. Found' = Found /\ Elements(Found)' = Elements(Found)
  BY <1>1, <1>2 DEF Found, Candidates, Elements
<1>6. Found # <<>> /\ match.next > 1
  BY <1>1, <1>4 DEF ScanInv, Elements
<1>7. \A i \in DOMAIN Found :
        Score(Found[i], match.game, match.prio)
            <= Score(match.best, match.game, match.prio)
  BY <1>1, <1>4, <1>6 DEF ScanInv
<1>8. \A file \in Elements(Found) :
        Score(file, match.game, match.prio) <= Score(match.best, match.game, match.prio)
  BY <1>7 DEF Elements
<1>9. DoneInv'
  BY <1>1, <1>2, <1>5, <1>6, <1>8 DEF DoneInv, ScanInv
<1>. QED
  BY <1>1, <1>2, <1>9 DEF MatchInv

(* With no choice under way nothing is to be shown of it.                  *)
LEMMA NoMatchIsRight == ASSUME match = NoMatch PROVE MatchInv
  BY DEF MatchInv, NoMatch

(* The invariant holds at the start and after each step.                   *)
LEMMA MatchingInvariant == Spec => []MatchingInv
<1>1. Init => MatchingInv
  BY EmptyListIsRight, NoMatchIsRight DEF Init, MatchingInv
<1>2. MatchingInv /\ [Next]_vars => MatchingInv'
  <2>. SUFFICES ASSUME MatchingInv, [Next]_vars PROVE MatchingInv'
    OBVIOUS
  <2>1. ASSUME NEW file \in Files, ReadEntry(file) PROVE MatchingInv'
    <3>1. file \in unread /\ match' = match
      BY <2>1 DEF ReadEntry
    <3>2. match.pc = "none"
      BY <3>1 DEF MatchingInv, MatchInv
    <3>3. MatchInv'
      BY <3>1, <3>2 DEF MatchingInv, MatchInv
    <3>. QED
      BY <2>1, <3>1, <3>3, ReadingLists DEF MatchingInv
  <2>2. ASSUME dir' = dir, unread' = unread, list' = list PROVE ListInv'
    BY <2>2 DEF MatchingInv, ListInv, Read, Elements
  <2>3. ASSUME NEW game \in Games, NEW prio \in Priorities, MatchCheat(game, prio)
        PROVE  MatchingInv'
    BY <2>2, <2>3, MatchStarts DEF MatchCheat, MatchingInv
  <2>4. CASE CompareNext
    BY <2>2, <2>4, ComparisonKeepsBest DEF CompareNext, MatchingInv
  <2>5. CASE BestIsFound
    BY <2>2, <2>5, ComparisonEnds DEF BestIsFound, MatchingInv
  <2>6. CASE DropList
    <3>1. /\ dir' \in Directories /\ unread' = dir' /\ match' = NoMatch
          /\ list' = [key \in {} |-> <<>>]
      BY <2>6 DEF DropList
    <3>2. ListInv'
      BY <3>1 DEF ListInv, Read
    <3>3. MatchInv'
      BY <3>1 DEF MatchInv, NoMatch
    <3>. QED
      BY <3>2, <3>3 DEF MatchingInv
  <2>7. CASE UNCHANGED vars
    <3>1. dir' = dir /\ unread' = unread /\ list' = list /\ match' = match
      BY <2>7 DEF vars
    <3>2. MatchInv'
      BY <3>1 DEF MatchingInv, MatchInv, ScanInv, DoneInv, Found, Candidates, Elements
    <3>. QED
      BY <2>2, <3>1, <3>2 DEF MatchingInv
  <2>. QED
    BY <2>1, <2>3, <2>4, <2>5, <2>6, <2>7 DEF Next
<1>. QED
  BY <1>1, <1>2, PTL DEF Spec

(* The choice of a cheat file follows README.md:293-320 for any directory, *)
(* in any order, and any game: the file bears the title, no candidate is   *)
(* in a better tier of regions or, being as plain, has more merit within   *)
(* the tier, and a device's file does not displace a plain one of the same *)
(* tier and merit.                                                         *)
THEOREM ChoicesFollowRules == Spec => []MatchFollowsRules
<1>1. MatchingInv => MatchFollowsRules
  <2>. SUFFICES ASSUME MatchingInv, match.pc = "done"
                PROVE  FoundByTitle /\ BestTierWins /\ MeritDecides /\ PlainWins
    BY DEF MatchFollowsRules
  <2>1. /\ unread = {} /\ match.game \in Games /\ match.prio \in Priorities /\ DoneInv
    BY DEF MatchingInv, MatchInv
  <2>2. Found \in Seq(Files) /\ Elements(Found) = Choices(match.game)
    BY <2>1, FoundAreChoices DEF MatchingInv, Found
  <2>3. CASE Found = <<>>
    <3>1. Choices(match.game) = {} /\ match.best = NoFile
      BY <2>1, <2>2, <2>3 DEF DoneInv, Elements
    <3>. QED
      BY <3>1 DEF FoundByTitle, BestTierWins, MeritDecides, PlainWins
  <2>4. CASE Found # <<>>
    <3>1. /\ match.best \in Choices(match.game)
          /\ \A file \in Choices(match.game) :
                Score(file, match.game, match.prio)
                    <= Score(match.best, match.game, match.prio)
      BY <2>1, <2>2, <2>4 DEF DoneInv
    <3>2. Choices(match.game) \subseteq Files
      BY <2>2 DEF Elements
    <3>3. FoundByTitle
      BY <3>1 DEF FoundByTitle
    <3>4. BestTierWins
      BY <2>1, <3>1, <3>2, ScoresKeepTiers DEF BestTierWins
    <3>5. PlainWins
      BY <2>1, <3>1, <3>2, PlainScoresMore DEF PlainWins
    <3>6. MeritDecides
      BY <2>1, <3>1, <3>2, MeritScoresMore DEF MeritDecides
    <3>. QED
      BY <3>3, <3>4, <3>5, <3>6
  <2>. QED
    BY <2>3, <2>4
<1>. QED
  BY <1>1, MatchingInvariant, PTL
=============================================================================
