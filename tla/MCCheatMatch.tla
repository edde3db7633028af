---------------------------- MODULE MCCheatMatch ----------------------------
(***************************************************************************)
(* Small instances of CheatMatch: files like those README.md names, any    *)
(* three of them in the directory.                                         *)
(***************************************************************************)
EXTENDS CheatMatch, TLC

MCToken ==
    [w \in {"-", "_"} |-> "none"] @@
    [w \in {"castle", "Castle"} |-> "castle"] @@
    [w \in {"knuckle", "bare", "rage", "streets"} |-> w] @@
    "Rage!" :> "rage" @@ "Streets" :> "streets"

File(words, tags) == [words |-> words, tags |-> tags, cht |-> TRUE]
Game(words, tags) == [words |-> words, tags |-> tags]

\* Of one title, for every tier, plain and for a device.
Castles ==
    {File(<<"Castle">>, tags) : tags \in
        {{"usa", "Game Genie"}, {"usa", "europe", "Action Replay"}, {"europe"}, {"japan"},
         {"japan", "Game Genie"}, {"world"}, {"world", "Action Replay"}, {"Rev 1"}, {"korea"}}}
\* Alternate titles, and names that only look like them.
Rages ==
    {File(<<"bare", "-", "knuckle", "_", "Streets", "Rage!">>, {"japan", "europe"}),
     File(<<"streets", "rage">>, {"usa"}),
     File(<<"streets", "_", "rage">>, {}),
     File(<<"Castle", "_", "streets", "rage">>, {"world"})}
Other == [File(<<"Castle">>, {"usa"}) EXCEPT !.cht = FALSE]

MCFiles == Castles \union Rages \union {Other}
MCDirectories == {d \in SUBSET MCFiles : Cardinality(d) <= 3}
MCGames ==
    {Game(<<"castle">>, {"usa", "europe"}), Game(<<"Castle">>, {}),
     Game(<<"Streets", "-", "rage">>, {"europe"}), Game(<<"rage">>, {"usa"})}
\* A game of two regions, some files share both with it and some one.
MCTwoRegions == {Game(<<"castle">>, {"usa", "europe"})}
MCPriorities == {<<"us", "eu", "jp", "wor">>, <<"jp", "us", "eu">>}
=============================================================================
