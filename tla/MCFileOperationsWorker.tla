----------------------- MODULE MCFileOperationsWorker -----------------------
(***************************************************************************)
(* Small disks and operations for FileOperationsWorker.                    *)
(*                                                                         *)
(*   /s        f  t/{g, e/}  u/{g, l}     the sources; l is a symlink      *)
(*             v/{f, f.kylin-copy.tmp}    two files in each other's way      *)
(*   /d        x                          a destination without conflicts  *)
(*   /taken    f                          a target that exists             *)
(*   /temp     f.kylin-copy.tmp           a foreign temporary file         *)
(***************************************************************************)
EXTENDS OtherWriters, TLC

MCTempName(name) == name \o ".kylin-copy.tmp"

S(name) == <<"s", name>>

MCDisk0 ==
    <<>>                              :> "dir"
 @@ <<"s">>                           :> "dir"
 @@ S("f")                            :> "F"
 @@ S("t")                            :> "dir"
 @@ <<"s", "t", "g">>                 :> "G"
 @@ <<"s", "t", "e">>                 :> "dir"
 @@ S("u")                            :> "dir"
 @@ <<"s", "u", "g">>                 :> "H"
 @@ <<"s", "u", "l">>                 :> "irregular"
 @@ S("v")                            :> "dir"
 @@ <<"s", "v", "f">>                 :> "I"
 @@ <<"s", "v", "f.kylin-copy.tmp">>  :> "J"
 @@ <<"d">>                           :> "dir"
 @@ <<"d", "x">>                      :> "X"
 @@ <<"taken">>                       :> "dir"
 @@ <<"taken", "f">>                  :> "Y"
 @@ <<"temp">>                        :> "dir"
 @@ <<"temp", "f.kylin-copy.tmp">>    :> "Z"

Paste(kind, roots, dest) ==
    [kind |-> kind, roots |-> roots, dest |-> <<dest>>, replace |-> FALSE]
Replace(kind, root, dest) ==
    [kind |-> kind, roots |-> <<root>>, dest |-> <<dest>>, replace |-> TRUE]
Delete(roots) ==
    [kind |-> "Delete", roots |-> roots, dest |-> <<"d">>, replace |-> FALSE]

\* Every paste here has a regular file among its sources.
MCPastes ==
    {Paste(kind, <<S("t"), S("f")>>, dest) : kind \in {"Copy", "Move"},
                                            dest \in {"d", "taken", "temp"}}
    \cup {Paste(kind, <<S("f"), S("u")>>, "d") : kind \in {"Copy", "Move"}}
    \cup {Paste("Copy", <<S("v")>>, "d")}

MCDeletes == {Delete(<<S("t"), S("f")>>), Delete(<<S("u")>>)}

\* A clipboard that has gone stale: an item or the destination does not exist.
MCStale == {Paste("Copy", <<S("f"), S("gone")>>, "d"), Paste("Copy", <<S("f")>>, "gone"),
            Delete(<<S("f"), S("gone")>>)}

MCOperations == MCPastes \cup MCDeletes \cup MCStale

\* The overwrite the UI confirms; a target may be missing again by then.
MCReplaces == {Replace(kind, S("f"), dest) : kind \in {"Copy", "Move"},
                                            dest \in {"taken", "d", "temp"}}

\* A file copied over itself: StartPaste refuses that for a move only.
MCReplaceSelf == {Replace("Copy", S("f"), "s")}

\* A directory without a regular file in it.
MCEmptyDirectory == {Paste(kind, <<<<"s", "t", "e">>>>, "d") : kind \in {"Copy", "Move"}}

MCEveryOperation == MCOperations \cup MCReplaces \cup MCReplaceSelf \cup MCEmptyDirectory

\* Another program takes the name of a copy or of its temporary file, or puts a
\* file into a folder that is copied, created, moved or deleted.
MCMayAppear(o) ==
    IF o \in {Paste("Copy", <<S("t"), S("f")>>, "d"), Paste("Move", <<S("t"), S("f")>>, "d"),
              Delete(<<S("t"), S("f")>>)}
    THEN {<<"d", "f">>, <<"d", "f.kylin-copy.tmp">>, <<"d", "t", "n">>, <<"d", "t", "g">>,
          <<"s", "t", "n">>, <<"s", "t", "e", "n">>}
    ELSE {}
MCNobody(o) == {}

Calls == {"thread", "lstat", "lstat_removed", "statvfs", "mkdir", "opendir",
          "open", "resources", "io", "rename", "unlink", "rmdir"}

\* Every call may fail.  A move without files is completed twice, by the
\* planning and by the copy loop; the second time finds the sources gone, unless
\* lstat() failed the first time, and may then turn Completed into Failed.  That
\* one combination is left out.
MCFaulty(o) == IF o \in MCEmptyDirectory THEN Calls \ {"lstat_removed"} ELSE Calls
MCNoFault(o) == {}
=============================================================================
