----------------------------- MODULE FileStore ------------------------------
(***************************************************************************)
(* What the file system promises, without clusters: a tree of folders, in  *)
(* which a key (a name with an extension) is missing, or leads to a file   *)
(* with its contents, or to a folder.  FAT32.tla, the model of fat32.c, is *)
(* shown to implement this specification.                                  *)
(***************************************************************************)
CONSTANTS Folders,   \* identities of folders
          Root,      \* the folder that is always there
          Keys,      \* names with extensions
          Files      \* the files that may be written

VARIABLE tree        \* tree[f][k]: what key k of the existing folder f leads to

Missing == [kind |-> "missing"]   \* what a key leads to when there is no entry
Nothing == [k \in Keys |-> Missing]

IsFolder(n) == n.kind = "folder"
IsFile(n)   == n.kind = "file"

Init == tree = [f \in {Root} |-> Nothing]

\* The folders that folder f leads to, itself included.
Closed(S) == \A f \in S, k \in Keys : IsFolder(tree[f][k]) => tree[f][k].id \in S
Below(f)  == {g \in DOMAIN tree : \A S \in SUBSET DOMAIN tree : f \in S /\ Closed(S) => g \in S}

\* A file appears under a missing key.
Store(f, k, n) ==
    /\ tree[f][k] = Missing
    /\ tree' = [tree EXCEPT ![f][k] = n]

\* An empty folder appears under a missing key.
MakeFolder(f, k, id) ==
    /\ tree[f][k] = Missing
    /\ id \notin DOMAIN tree
    /\ tree' = [g \in DOMAIN tree \cup {id} |->
                  IF g = id THEN Nothing
                  ELSE IF g = f THEN [tree[f] EXCEPT ![k] = [kind |-> "folder", id |-> id]]
                  ELSE tree[g]]

\* A file disappears.
RemoveFile(f, k) ==
    /\ IsFile(tree[f][k])
    /\ tree' = [tree EXCEPT ![f][k] = Missing]

\* A folder disappears with everything below it, and nothing else.
RemoveFolder(f, k) ==
    /\ IsFolder(tree[f][k])
    /\ tree' = [g \in DOMAIN tree \ Below(tree[f][k].id) |->
                  IF g = f THEN [tree[f] EXCEPT ![k] = Missing] ELSE tree[g]]

\* A file appears as a copy of another, or is replaced by one.
CopyOver(f, k, g, l) ==
    /\ IsFile(tree[g][l])
    /\ ~IsFolder(tree[f][k])
    /\ tree' = [tree EXCEPT ![f][k] = tree[g][l]]

Next == /\ tree' # tree
        /\ \E f \in DOMAIN tree, k \in Keys :
              \/ \E n \in Files : Store(f, k, n)
              \/ \E id \in Folders : MakeFolder(f, k, id)
              \/ RemoveFile(f, k)
              \/ RemoveFolder(f, k)
              \/ \E g \in DOMAIN tree, l \in Keys : CopyOver(f, k, g, l)

Spec == Init /\ [][Next]_tree
=============================================================================
