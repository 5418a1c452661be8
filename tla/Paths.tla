------------------------------- MODULE Paths --------------------------------
(***************************************************************************)
(* Paths and the tree of files.  A path is a sequence of names, <<>> the   *)
(* root; its last name tells whether it is a folder.  A disk is the set of *)
(* the paths that exist.  There are no symbolic links.                     *)
(***************************************************************************)
EXTENDS Integers, Sequences

CONSTANT FolderNames     \* names of folders; all others are regular files

BaseName(p) == p[Len(p)]
ParentPath(p) == IF p = <<>> THEN <<>> ELSE SubSeq(p, 1, Len(p) - 1)
JoinPath(directory, name) == Append(directory, name)
IsFolder(p) == p # <<>> => BaseName(p) \in FolderNames
IsPathWithin(p, root) == Len(root) <= Len(p) /\ SubSeq(p, 1, Len(root)) = root

\* Every path has its parent, and the parent is a folder.
IsTree(files) ==
    <<>> \in files /\ \A p \in files : ParentPath(p) \in files /\ IsFolder(ParentPath(p))

Listing(files, directory) == {p \in files : p # <<>> /\ ParentPath(p) = directory}
Below(files, roots) == {p \in files : \E root \in roots : IsPathWithin(p, root)}

\* Where p, an item below from, is when from has become to.
Relocated(p, from, to) == to \o SubSeq(p, Len(from) + 1, Len(p))
=============================================================================
