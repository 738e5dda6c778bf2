----------------------------- MODULE MCPluginRun -----------------------------
(***************************************************************************)
(* The readings on each side of each limit, two scripts around the README, *)
(* and lists of plugins in which each one has each kind of neighbour.      *)
(***************************************************************************)
EXTENDS PluginRun

MCLoaded == {{"scripts", "flags"}, {"cpu", "flags"}, {"apt", "memory", "firewall", "flags"}}
MCScriptFiles == {"s", "t", "README"}
MCListings == {<<>>, <<"s", "README", "t">>, <<"t", "s">>}
MCAptFiles == {NoFile, Unchecked, Garbled}
              \cup {Counts(age, updates, security) :
                        age \in {25, 26}, updates \in BOOLEAN, security \in BOOLEAN}
MCMemInfos == {NoMemInfo, MemInfo(8000, 0, 0, 0), MemInfo(2560, 512, 100, 50),
               MemInfo(2561, 512, 100, 49), MemInfo(8000, 513, 0, 0)}
MCFlagLists == {{}, {0}, {60, 90}, {101}}

=============================================================================
