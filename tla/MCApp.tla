------------------------------- MODULE MCApp --------------------------------
(* The application on two files of one name and a folder beside them, and  *)
(* on two empty folders.                                                    *)
EXTENDS App

MCFiles   == {<<>>, <<"d">>, <<"d", "f">>, <<"e">>, <<"f">>}
MCFolders == {<<>>, <<"d">>, <<"e">>}
MCUniverse ==
    LET Names == {"d", "e", "f"}
    IN  UNION {[1..n -> Names] : n \in 0..3}
MCLocations == <<<<>>, <<"d">>>>
MCPlaces == {<<"d">>}

\* Where another program puts a file and takes it away: on the target of a paste.
MCShared == {<<"e", "f">>}
=============================================================================
