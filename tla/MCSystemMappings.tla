--------------------------- MODULE MCSystemMappings ---------------------------
(* SystemMappings on a small card: two folders that share a suffix, two      *)
(* versions of the pak and one that is broken, and files a user may have.    *)
EXTENDS MappingScreens, TLC

MCIds == {"md", "gg", "ms"}
MCTags == {"GPGX", "X"}
MCNames == {"A (GPGX)", "B (GPGX)", "C (X)"}
MCCards == {{}, {"A (GPGX)", "B (GPGX)", "C (X)"}, {"B (GPGX)"}}
MCTagOf == [n \in MCNames |-> IF n = "C (X)" THEN "X" ELSE "GPGX"]

Platform(id, providers) ==
    [id |-> id, wellFormed |-> TRUE, providers |-> providers,
     names |-> {id}, nameTexts |-> {id, "e"}, texts |-> {id, "e", id \o "x"}]
Pak(platforms, defaults) ==
    [readable |-> TRUE, platforms |-> platforms, defaultsOk |-> TRUE,
     defaults |-> defaults, candidatesOk |-> TRUE,
     candidates |-> "GPGX" :> <<platforms[1].id, "gg">>]
Md == Platform("md", {"artwork", "cheats"})
Ms == Platform("ms", {"cheats"})
Gg == Platform("gg", {"artwork"})
MCPaks == {Pak(<<Md, Gg, Ms>>, "GPGX" :> "md"), Pak(<<Ms, Gg>>, "X" :> "ms"),
           Pak(<<Md, Md>>, "GPGX" :> "md")}

MCDisplayOf == [n \in MCNames |-> IF n = "A (GPGX)" THEN "md" ELSE "e"]
MCSearches == {"e", "ggx", "none"}

Entry(platform, hidden) ==
    [wellFormed |-> TRUE, platform |-> platform, hidden |-> hidden]
Mappings(tags, folders) ==
    [kind |-> "mappings", tagsOk |-> TRUE, tags |-> tags,
     foldersOk |-> TRUE, folders |-> folders]
MCUserFiles ==
    {Absent, [kind |-> "garbage"], [kind |-> "unreadable"],
     Mappings(<<>>, <<"A (GPGX)">> :> Entry("md", "true") @@
                    <<"B (GPGX)">> :> Entry(NoId, "false")),
     Mappings("GPGX" :> "gg",
              <<"Old", "C (GPGX)">> :> Entry("gg", "absent") @@
              <<"..", "x">> :> Entry("gg", "absent") @@
              <<"B (GPGX)">> :> Entry(NoId, "not a boolean"))}

\* "./Roms" below the working directory, as a relative SDCARD_PATH gives it.
MCRoms == [abs |-> FALSE, parts |-> <<".", "..", "sd", "Roms">>]
MCCwd == <<"mnt", "pak">>
=============================================================================
