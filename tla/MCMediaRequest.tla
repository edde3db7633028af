---------------------------- MODULE MCMediaRequest ----------------------------
(* MediaRequest on cards with one console folder: one with loose files, one  *)
(* with disc folders and hidden files, and one where two files of a folder   *)
(* have the same display name, as a cue sheet beside its image has.          *)
EXTENDS MediaRequest, TLC

GB == <<"Game Boy (GB)">>
MCTagged == {GB}
MCStarred == {<<"* Pinned (GB)">>}
MCNonGame == {"txt", "png", "sav"}
MCLong == {"", "nintendo"}
MCCueLists == <<GB, <<"Two">>, <<"Two", "cue">>>> :> <<<<"a", "bin">>, <<"b", "bin">>>>

Files(paths) == [p \in paths |-> "file"]
Dirs(paths) == [p \in paths |-> "dir"]
Top == Dirs({<<GB>>}) @@ Files({<<GB, MapTxt>>})
Loose ==
    Top @@ Dirs({<<<<"* Pinned (GB)">>>>, <<GB, <<"", "media">>>>, <<GB, <<"Sub">>>>}) @@
    Files({<<GB, <<"Game", "gb">>>>, <<GB, <<"Sub">>, <<"Game", "zip">>>>,
           <<GB, <<"Sub">>, <<"Game", "txt">>>>, <<GB, <<"", "media">>, <<"Game", "png">>>>})
Discs ==
    Top @@ Dirs({<<GB, <<"One", "disabled">>>>, <<GB, <<"Two">>>>}) @@
    Files({<<GB, <<"One", "disabled">>, <<"One", "m3u">>>>,
           <<GB, <<"One", "disabled">>, <<"One 1", "chd">>>>,
           <<GB, <<"Two">>, <<"Two", "cue">>>>, <<GB, <<"Two">>, <<"b", "bin">>>>,
           <<GB, <<"Two">>, <<"", "disabled">>>>}) @@
    [p \in {<<GB, <<"Gone", "gb">>>>} |-> "broken"]
MCCards == "loose" :> Loose @@ "discs" :> Discs
SameName == "twins" :>
    (Top @@ Files({<<GB, <<"Game", "cue">>>>, <<GB, <<"Game", "bin">>>>}))

MCTypes == <<"box", "shot">>
MCRegions == <<"eu", "us">>
Media(type, region, url) == [type |-> type, region |-> region, url |-> url]
Best == Media("box", "eu", "u1")
Shot == Media("shot", "eu", "u2")
Other == Media("box", "jp", "u3")
Broken == Media("box", "eu", NoUrl)
Manual == Media("manual", "eu", "u4")
\* Known by hash, by name, and by both with nothing to take.
MCServers ==
    {[hash |-> <<Shot, Other>>, name |-> <<>>],
     [hash |-> <<>>, name |-> <<Shot, Best>>],
     [hash |-> <<Broken, Other>>, name |-> <<Manual>>]}
OneServer == {[hash |-> <<>>, name |-> <<Best>>]}
=============================================================================
