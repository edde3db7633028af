----------------------------- MODULE MediaRequest -----------------------------
(* One game's request for artwork, from the claim of its queue item to the   *)
(* verdict (screenscraper.c, called by the workers of queue.c): the search by*)
(* hash and by name, the choice of the media, the download with its retries, *)
(* and the file that appears under .media.  Requests of several games run at *)
(* once; the workers are stopped, or the program dies, at any step.          *)
(* Not modelled: the JSON text, the HTTP statistics, the body of an answer   *)
(* with status 200, which is taken as it comes, and a power cut.             *)
EXTENDS RomLibrary, FiniteSetsExt

CONSTANTS
    Cards,          \* label -> a card with one console folder
    Types,          \* the media types the user wants, best first
    Regions,        \* the regions the user wants, best first
    NoUrl,          \* a media without a usable url
    NoMedia,        \* no media was found
    Servers,        \* what ScreenScraper knows of a game: by hash, and by name
    MaxRetries,     \* retries of http_get
    Threads,        \* requests that run at once
    MaxEvents       \* bound on stops, deaths, and items queued again

IsSequence(s) == s \in Seq({s[i] : i \in DOMAIN s})
ASSUME RetriesAssumption == MaxRetries \in Nat
\* build_region_types puts all regions it knows behind those of the settings.
ASSUME PrioritiesAssumption ==
    IsSequence(Types) /\ IsSequence(Regions) /\ Regions # <<>>
ASSUME ServersAssumption ==
    \A s \in Servers, key \in {"hash", "name"} :
        IsSequence(s[key]) /\ \A k \in DOMAIN s[key] : s[key][k] # NoMedia

VARIABLES
    card,           \* which card it is
    games,          \* its games: the number of their file, and what is hashed
    server,         \* game -> what ScreenScraper knows of it
    items,          \* game -> its queue item and the call that runs for it
    files,          \* names under .media, their temporaries, and the inodes
    cancel,         \* client.interrupt_signal
    events          \* stops, deaths and requeues so far
vars == <<card, games, server, items, files, cancel, events>>

-----------------------------------------------------------------------------
(* The media of an answer: a sequence of [type, region, url]. *)

(* resolve_media: type by type, the first with a url in the best region, or  *)
(* the first of the type at all, if that one has a url.                      *)
OfType(medias, t) == {k \in DOMAIN medias : medias[k].type = Types[t]}
InRegion(medias, t, r) ==
    {k \in OfType(medias, t) : medias[k].region = Regions[r] /\ medias[k].url # NoUrl}
FirstOfType(medias, t) ==
    LET regions == {r \in DOMAIN Regions : InRegion(medias, t, r) # {}}
    IN IF regions # {} THEN medias[Min(InRegion(medias, t, Min(regions)))]
       ELSE IF OfType(medias, t) # {} /\ medias[Min(OfType(medias, t))].url # NoUrl
            THEN medias[Min(OfType(medias, t))]
       ELSE NoMedia
ResolveMedia(medias) ==
    LET found == {t \in DOMAIN Types : FirstOfType(medias, t) # NoMedia}
    IN IF found = {} THEN NoMedia ELSE FirstOfType(medias, Min(found))

-----------------------------------------------------------------------------
(* The games and the files of their artwork. *)

Console(c) == CHOOSE dir \in ScanConsoleDirs(Cards[c], TRUE) : TRUE
Library == [c \in DOMAIN Cards |-> SetToSeq(ScanRoms(Cards[c], Console(c), TRUE))]

(* A card is finite, has a console folder, and all folders on the way to an  *)
(* entry; a name is not empty.                                               *)
IsCard(tree) ==
    /\ IsFiniteSet(DOMAIN tree)
    /\ \A path \in DOMAIN tree :
           /\ IsSequence(path) /\ Len(path) > 0 /\ tree[path] \in {"file", "dir", "broken"}
           /\ \A n \in 1..Len(path) :
                  /\ IsSequence(path[n]) /\ path[n] \notin {<<>>, <<"">>}
                  /\ n < Len(path) => IsDir(tree, SubSeq(path, 1, n))
ASSUME CardsAssumption ==
    \A c \in DOMAIN Cards : IsCard(Cards[c]) /\ ScanConsoleDirs(Cards[c], TRUE) # {}

(* What the requests need of it: the file of a game, numbered by the first   *)
(* game that has the same, and whether the worker finds something to hash.   *)
Dest(g) == ArtworkPath(g.path, g.display)
GamesOf(c) ==
    LET list == Library[c]
    IN [g \in DOMAIN list |->
           [file |-> Min({h \in DOMAIN list : Dest(list[h]) = Dest(list[g])}),
            hashable |-> HashTargets(Cards[c],
                RomFromItem(Cards[c], list[g].path, list[g].display)) # {}]]

Games == DOMAIN games
File(g) == games[g].file
Blank == [head |-> NoMedia, tail |-> NoMedia]
Whole(url) == [head |-> url, tail |-> url]
Inodes == 1..(3 * Len(games))

NoItem == [pc |-> "idle", key |-> "name", attempt |-> 0, hashed |-> FALSE,
           media |-> NoMedia, inode |-> 0]
Goto(g, pc) == items' = [items EXCEPT ![g].pc = pc]
Return(g, pc) == items' = [items EXCEPT ![g] =
    [NoItem EXCEPT !.pc = pc, !.hashed = items[g].hashed, !.media = items[g].media]]
Leave(g, pc) == items' = [items EXCEPT ![g] = [NoItem EXCEPT !.pc = pc]]
Working(g) == items[g].pc \notin {"idle", "stopped", "done", "not_found", "error"}
Ended(g) == items[g].pc \in {"done", "not_found", "error"}

Init ==
    /\ card \in DOMAIN Cards
    /\ games = GamesOf(card)
    /\ server \in [Games -> Servers]
    /\ items = [g \in Games |-> NoItem]
    /\ files = [names |-> [g \in Games |-> 0], temps |-> [g \in Games |-> 0],
                data |-> [i \in Inodes |-> Blank]]
    /\ cancel = FALSE
    /\ events = 0

-----------------------------------------------------------------------------
(* http_get: at most 1 + MaxRetries attempts; the flag is looked at before   *)
(* each, during the pauses, and when one returns.                            *)

Requesting(g) == items[g].pc \in {"search", "fetch"}
StepDone == UNCHANGED <<card, games, server, cancel, events>>

Interrupted(g) ==
    /\ Requesting(g) /\ cancel
    /\ Leave(g, "stopped")
    /\ UNCHANGED files /\ StepDone

(* No connection, a timeout, or a status of 500 and more. *)
Retry_Forever(g) ==
    /\ Requesting(g) /\ ~cancel
    /\ items' = [items EXCEPT ![g].attempt = (@ % MaxRetries) + 1]
    /\ UNCHANGED files /\ StepDone
Retry(g) ==
    /\ Requesting(g) /\ ~cancel
    /\ items[g].attempt < MaxRetries
    /\ items' = [items EXCEPT ![g].attempt = @ + 1]
    /\ UNCHANGED files /\ StepDone

(* The last attempt failed; or a status of 400 and more, but 404 for a       *)
(* search; or an answer that cannot be parsed or, a JPEG, not be converted.  *)
GiveUp(g) ==
    /\ Requesting(g) /\ ~cancel
    /\ Leave(g, "error")
    /\ UNCHANGED files /\ StepDone

-----------------------------------------------------------------------------
(* ss_search_rom: by hash if there is one, and by name if that finds nothing.*)

Claim(g) ==
    /\ items[g].pc = "idle" /\ ~cancel
    /\ Cardinality({h \in Games : Working(h)}) < Threads
    /\ \E hashed \in IF games[g].hashable THEN BOOLEAN ELSE {FALSE} :
           items' = [items EXCEPT ![g] =
               [NoItem EXCEPT !.pc = "search", !.hashed = hashed,
                              !.key = IF hashed THEN "hash" ELSE "name"]]
    /\ UNCHANGED files /\ StepDone

SearchAgain_Never(item) == FALSE
SearchAgain(item) == item.key = "hash"

(* search_rom_request answered: no game, or none of the wanted media, is 1.  *)
SearchAnswered(g) ==
    /\ items[g].pc = "search" /\ ~cancel
    /\ LET media == ResolveMedia(server[g][items[g].key])
       IN items' = [items EXCEPT ![g] =
              IF media # NoMedia
              THEN [@ EXCEPT !.pc = "fetch", !.key = "name", !.attempt = 0, !.media = media]
              ELSE IF SearchAgain(@) THEN [@ EXCEPT !.key = "name", !.attempt = 0]
              ELSE [NoItem EXCEPT !.pc = "not_found", !.hashed = items[g].hashed]]
    /\ UNCHANGED files /\ StepDone

-----------------------------------------------------------------------------
(* ss_download_media: the body goes to <dest>.tmp, which is then renamed.  A *)
(* file that is open is an inode, whatever happens to its names.             *)

FetchAnswered(g) ==
    /\ items[g].pc = "fetch" /\ ~cancel
    /\ items' = [items EXCEPT ![g] = [@ EXCEPT !.pc = "open", !.attempt = 0]]
    /\ UNCHANGED files /\ StepDone

Named(f) == {f.names[p] : p \in Games} \cup {f.temps[p] : p \in Games}
Held(its) == {its[g].inode : g \in Games}
Fresh == Min(Inodes \ (Named(files) \cup Held(items)))

(* An inode without a name that nobody has open is gone. *)
FilesBecome(f) ==
    files' = [f EXCEPT !.data =
        [i \in Inodes |-> IF i \in Named(f) \cup Held(items') THEN @[i] ELSE Blank]]

(* fopen with "wb" empties the file if there is one, and makes one if not.   *)
OpenTmp(g) ==
    /\ items[g].pc = "open"
    /\ LET old == files.temps[File(g)]
           inode == IF old # 0 THEN old ELSE Fresh
       IN \/ /\ items' = [items EXCEPT ![g] = [@ EXCEPT !.pc = "head", !.inode = inode]]
             /\ files' = [files EXCEPT !.temps[File(g)] = inode, !.data[inode] = Blank]
          \/ Leave(g, "error") /\ UNCHANGED files
    /\ StepDone

Unlink(f) == [files EXCEPT !.temps[f] = 0]

(* A body is written in several pieces; the disk may be full.  Each writer   *)
(* is taken to report it: fwrite and fclose are looked at, and so is what    *)
(* IMG_SavePNG says when the application itself converts a JPEG.             *)
WriteHead(g) ==
    /\ items[g].pc = "head"
    /\ \/ /\ files' = [files EXCEPT !.data[items[g].inode].head = items[g].media.url]
          /\ Goto(g, "tail")
       \/ Leave(g, "error") /\ FilesBecome(Unlink(File(g)))
    /\ StepDone
WriteTail_Unchecked(g) ==
    /\ items[g].pc = "tail"
    /\ \/ files' = [files EXCEPT !.data[items[g].inode].tail = items[g].media.url]
       \/ UNCHANGED files
    /\ Goto(g, "rename")
    /\ StepDone
WriteTail(g) ==
    /\ items[g].pc = "tail"
    /\ \/ /\ files' = [files EXCEPT !.data[items[g].inode].tail = items[g].media.url]
          /\ Goto(g, "rename")
       \/ Leave(g, "error") /\ FilesBecome(Unlink(File(g)))
    /\ StepDone

Rename_Copied(g) ==
    /\ items[g].pc = "rename"
    /\ LET tmp == files.temps[File(g)]
       IN \/ /\ tmp # 0
             /\ Return(g, "done")
             /\ FilesBecome([files EXCEPT !.names[File(g)] = tmp])
          \/ Leave(g, "error") /\ FilesBecome(Unlink(File(g)))
    /\ StepDone
Rename(g) ==
    /\ items[g].pc = "rename"
    /\ LET tmp == files.temps[File(g)]
       IN \/ /\ tmp # 0
             /\ Return(g, "done")
             /\ FilesBecome([files EXCEPT !.names[File(g)] = tmp, !.temps[File(g)] = 0])
          \/ Leave(g, "error") /\ FilesBecome(Unlink(File(g)))
    /\ StepDone

Work(g) ==
    \/ Interrupted(g) \/ Retry(g) \/ GiveUp(g)
    \/ SearchAnswered(g) \/ FetchAnswered(g)
    \/ OpenTmp(g) \/ WriteHead(g) \/ WriteTail(g) \/ Rename(g)

-----------------------------------------------------------------------------
(* The surroundings: stops, deaths, and items that are queued again. *)

(* The interrupt flag, raised for a handoff, a cancellation or the end. *)
Stop ==
    /\ ~cancel /\ events < MaxEvents
    /\ cancel' = TRUE
    /\ events' = events + 1
    /\ UNCHANGED <<card, games, server, items, files>>

(* After all workers were joined: items that were interrupted are idle again.*)
Resume ==
    /\ cancel
    /\ \A g \in Games : ~Working(g)
    /\ cancel' = FALSE
    /\ items' = [g \in Games |-> IF items[g].pc = "stopped" THEN NoItem ELSE items[g]]
    /\ UNCHANGED <<card, games, server, files, events>>

Crash ==
    /\ events < MaxEvents
    /\ events' = events + 1
    /\ items' = [g \in Games |-> IF Ended(g) THEN items[g] ELSE NoItem]
    /\ cancel' = FALSE
    /\ FilesBecome(files)
    /\ UNCHANGED <<card, games, server>>

(* The same game is queued again: queue_add_artwork does it while there is no*)
(* artwork, and its forced variant always.                                   *)
Requeue(g) ==
    /\ Ended(g) /\ events < MaxEvents
    /\ events' = events + 1
    /\ items' = [items EXCEPT ![g] = NoItem]
    /\ UNCHANGED <<card, games, server, files, cancel>>

Next ==
    \/ \E g \in Games : Claim(g) \/ Work(g) \/ Requeue(g)
    \/ Stop \/ Resume \/ Crash

(* Every call ends: curl gives up after 30 seconds, and at once when the     *)
(* flag is raised; the rest are local file operations.                       *)
AnyGame == UNION {DOMAIN Library[c] : c \in DOMAIN Cards}
Fairness == \A g \in AnyGame : WF_vars(g \in Games /\ Work(g))
Spec == Init /\ [][Next]_vars /\ Fairness

-----------------------------------------------------------------------------
(* Properties. *)

(* The variables keep their shape, attempts stay within bounds, and no two   *)
(* names, temporaries or open files are the same inode, but for the          *)
(* temporary a request has open.                                             *)
TypeOK ==
    /\ card \in DOMAIN Cards
    /\ \A g \in Games :
           /\ items[g].key \in {"hash", "name"}
           /\ items[g].attempt \in 0..MaxRetries
           /\ items[g].pc \in {"fetch", "open", "head", "tail", "rename", "done"} =>
                  items[g].media # NoMedia
           /\ items[g].pc \in {"head", "tail", "rename"} =>
                  files.temps[File(g)] = items[g].inode
    /\ \A p, q \in DOMAIN files.names :
           /\ files.names[p] # 0 => files.names[p] # files.temps[q]
           /\ p # q /\ files.names[p] # 0 => files.names[p] # files.names[q]
           /\ p # q /\ files.temps[p] # 0 => files.temps[p] # files.temps[q]
    /\ cancel \in BOOLEAN

(* screenscraper.h:69-70, "Uses temp file + rename for safety": whatever     *)
(* fails or dies when, a file under .media is one body from its first byte   *)
(* to its last.  A partial one would count as existing artwork for good.     *)
MediaIsWhole ==
    \A p \in DOMAIN files.names :
        files.names[p] # 0 =>
            \E g \in Games, key \in {"hash", "name"} :
                /\ File(g) = p
                /\ \E k \in DOMAIN server[g][key] :
                       files.data[files.names[p]] = Whole(server[g][key][k].url)

(* The priorities of the settings: a type counts more than a region.  Media  *)
(* of a region nobody listed are a last resort within their type.            *)
Rank(media) ==
    LET t == {i \in DOMAIN Types : Types[i] = media.type}
        r == {i \in DOMAIN Regions : Regions[i] = media.region}
    IN (Len(Regions) + 1) * Min(t) + (IF r = {} THEN Len(Regions) ELSE Min(r) - 1)
(* A media with a url, of a type the user wants, and of a listed region or   *)
(* the first of its type: of the other regions no later one is looked at.    *)
Usable(medias) ==
    {medias[k] : k \in {i \in DOMAIN medias :
        /\ medias[i].url # NoUrl
        /\ \E t \in DOMAIN Types : Types[t] = medias[i].type
        /\ \/ \E r \in DOMAIN Regions : Regions[r] = medias[i].region
           \/ \A j \in DOMAIN medias : j < i => medias[j].type # medias[i].type}}
IsBest(media, medias) ==
    media \in Usable(medias) /\ \A m \in Usable(medias) : Rank(media) <= Rank(m)

(* What the user is told of an item is true: a finished one has its file, and*)
(* in it the best media ScreenScraper has for the game, by hash or, if that  *)
(* leads to nothing, by name; not found means that neither leads to anything,*)
(* and not that a server was busy or a request interrupted.  The hash counts *)
(* if it could be computed: a game whose file cannot be read is asked for by *)
(* name alone, and it is not found when its hash would have led to a media   *)
(* (screenscraper.c:554-557).                                                *)
VerdictsAreTrue ==
    \A g \in Games :
        LET hasHash == items[g].hashed /\ Usable(server[g].hash) # {}
        IN /\ items[g].pc = "done" =>
                  /\ files.names[File(g)] # 0
                  /\ files.data[files.names[File(g)]] = Whole(items[g].media.url)
                  /\ IsBest(items[g].media, IF hasHash THEN server[g].hash ELSE server[g].name)
           /\ items[g].pc = "not_found" => ~hasHash /\ Usable(server[g].name) = {}

(* A request comes to its verdict or is given up, also while workers are     *)
(* being stopped: the join in stop_manager_for_transition waits for it.      *)
RequestsEnd == \A g \in AnyGame :
    (g \in Games /\ Working(g)) ~> ~(g \in Games /\ Working(g))

(* A game is a file that could be one, or a folder with a disc list of its   *)
(* own name; nothing inside such a folder, or below a name with a dot, is.   *)
DiscFolder(c, p) == IsMultiDisc(Cards[c], p) \/ IsCueFolder(Cards[c], p)
GamePaths(c) ==
    {p \in DOMAIN Cards[c] :
        /\ Len(p) > 1 /\ p[1] = NameOf(Console(c))
        /\ \A n \in 2..Len(p) : p[n][1] # "" /\ p[n] # MapTxt
        /\ \A n \in 2..(Len(p) - 1) : ~DiscFolder(c, SubSeq(p, 1, n))
        /\ DiscFolder(c, p) \/ (Cards[c][p] = "file" /\ ~IsNonGame(Base(NameOf(p))))}

(* Every game of a card is listed once, hidden ones exactly when they are    *)
(* asked for; a worker makes the same game of the queue item that the user   *)
(* saw in the list; and a game folder with a disc image can be hashed.  The  *)
(* listing is a function of the card: it is compared before requests begin.  *)
LibraryIsComplete ==
    (\A g \in Games : items[g] = NoItem) =>
        LET list == Library[card]
            tree == Cards[card]
        IN /\ {list[g].path : g \in Games} = GamePaths(card)
           /\ Cardinality(GamePaths(card)) = Len(list)
           /\ {g.path : g \in ScanRoms(tree, Console(card), FALSE)} =
                  {p \in GamePaths(card) : \A n \in 2..Len(p) : ~IsDisabled(p[n])}
           /\ \A g \in Games :
                  LET seen == list[g]
                      rom == RomFromItem(tree, seen.path, seen.display)
                  IN /\ rom.multiDisc = seen.multiDisc /\ rom.cueFolder = seen.cueFolder
                     /\ DiscFolder(card, seen.path) /\ ImageTargets(tree, seen.path) # {}
                            => HashTargets(tree, rom) # {}
=============================================================================
