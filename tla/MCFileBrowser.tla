--------------------------- MODULE MCFileBrowser ----------------------------
(* The browser on every tree below a folder and two files, in any order of *)
(* their sizes and times.                                                  *)
EXTENDS SortedBrowser

MCUniverse  == {<<>>, <<"d">>, <<"f">>, <<"g">>, <<"d", "f">>}
MCLocations == <<<<>>, <<"d">>>>

MCNameRank == [d |-> 1, f |-> 2, g |-> 3]

\* Two files that differ come in one order by size and in the other by time.
MCInfos == {[size |-> 0, time |-> 0], [size |-> 1, time |-> 1]}
=============================================================================
