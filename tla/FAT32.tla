------------------------------- MODULE FAT32 --------------------------------
(***************************************************************************)
(* The file system driver of src/fat32.c: the file allocation table cached *)
(* in fat32_driver_state, and the disk with its boot signature (cluster    *)
(* 0), its copy of the table (cluster 1) and the clusters of directories   *)
(* and files.                                                              *)
(*                                                                         *)
(* A system call runs with interrupts off, so each operation is one step.  *)
(* A cluster is its contents: a directory table, a piece of a file, or     *)
(* zeros.  Sizes are counted in clusters.  A parent cluster given in a     *)
(* request is a directory, or a cluster the guard on its table entry       *)
(* rejects: the one kind that passes the guard unfit, the last cluster of  *)
(* a file, is a caller's error that this module leaves to the callers.     *)
(***************************************************************************)
EXTENDS LinearScan

CONSTANTS CLUSTER_MAP_SIZE,  \* clusters of the disk (512)
          DIRECTORY_SLOTS,   \* entries of a directory table (64), slots 0 and 1 included
          Names, Exts,       \* names and extensions in requests
          Values, Sizes,     \* contents of files, and how many clusters they take
          EOF,               \* FAT32_FAT_END_OF_FILE, also CLUSTER_1_VALUE
          CLUSTER_0_VALUE,   \* the reserved value of cluster 0
          NoEntry,           \* a slot whose user_attribute is not UATTR_NOT_EMPTY
          FullDisk           \* whether requests may need more clusters than are free

ASSUME FAT32Assumption ==
    /\ CLUSTER_MAP_SIZE \in Nat /\ CLUSTER_MAP_SIZE > 3
    /\ DIRECTORY_SLOTS \in Nat
    /\ Sizes \subseteq Nat \ {0}
    /\ EOF \notin 0 .. CLUSTER_MAP_SIZE - 1
    /\ CLUSTER_0_VALUE \notin 0 .. CLUSTER_MAP_SIZE - 1
    /\ EOF # CLUSTER_0_VALUE
    /\ FullDisk \in BOOLEAN

EMPTY == 0            \* FAT32_FAT_EMPTY_ENTRY
ROOT_CLUSTER_NUMBER == 2

Clusters     == 0 .. CLUSTER_MAP_SIZE - 1
DataClusters == 3 .. CLUSTER_MAP_SIZE - 1      \* what the allocation loops scan
Slots        == 2 .. DIRECTORY_SLOTS - 1       \* what the directory loops scan

VARIABLES fat_table,  \* the cached table: fat_table[c] is EMPTY, EOF or the next cluster
          signature,  \* cluster 0 holds fs_signature
          disk_fat,   \* cluster 1
          storage,    \* the contents of the other clusters
          mounted,    \* initialize_filesystem_fat32 has run since power-on
          retcode     \* what the last operation returned

vars == <<fat_table, signature, disk_fat, storage, mounted, retcode>>

Zeros   == [kind |-> "zeros"]
Unknown == [kind |-> "unknown"]     \* bytes of an uninitialised buffer
Overwritten == [kind |-> "overwritten"]   \* contents with a directory entry written into them
Piece(v, k) == [kind |-> "piece", val |-> v, part |-> k]

\* Mutant: every folder's ".." leads to the root.
RootAsParent(up) ==
    [kind |-> "dir", up |-> ROOT_CLUSTER_NUMBER, table |-> [s \in Slots |-> NoEntry]]

\* What init_directory_table leaves: slot 1 leads to the parent, slots from 2
\* are empty.
EmptyDirectory(up) == [kind |-> "dir", up |-> up, table |-> [s \in Slots |-> NoEntry]]

Entry(name, ext, folder, c, size) ==
    [name |-> name, ext |-> ext, folder |-> folder, cluster |-> c, size |-> size]

\* The disk as it comes, without a file system.
Init ==
    /\ fat_table = [c \in Clusters |-> EMPTY]
    /\ signature = FALSE
    /\ disk_fat = [c \in Clusters |-> EMPTY]
    /\ storage = [c \in Clusters |-> Zeros]
    /\ mounted = FALSE
    /\ retcode = 0

-----------------------------------------------------------------------------
(* Power-on. *)

FreshTable == [c \in Clusters |-> CASE c = 0 -> CLUSTER_0_VALUE
                                    [] c \in {1, ROOT_CLUSTER_NUMBER} -> EOF
                                    [] OTHER -> EMPTY]

create_fat32 ==
    /\ signature' = TRUE
    /\ fat_table' = FreshTable
    /\ disk_fat' = FreshTable
    /\ storage' = [storage EXCEPT ![ROOT_CLUSTER_NUMBER] = EmptyDirectory(ROOT_CLUSTER_NUMBER)]

\* Power-on, at any time: the cache is rebuilt from the disk.
initialize_filesystem_fat32 ==
    /\ IF signature
       THEN fat_table' = disk_fat /\ UNCHANGED <<signature, disk_fat, storage>>
       ELSE create_fat32
    /\ mounted' = TRUE
    /\ retcode' = 0

-----------------------------------------------------------------------------
(* Reading the structures. *)

\* The guard of every operation on its parent cluster.
IsParent(fat, p) == fat[p] = EOF

\* The directories of the file system, as the guard knows them.
Directories ==
    {c \in Clusters : mounted /\ IsParent(fat_table, c) /\ storage[c].kind = "dir"}

\* Requests name a directory, or a cluster the guard rejects.  It rejects them
\* alike: 0, the answer of get_cluster_number for no folder, stands for them.
Parents == Directories \cup {p \in {0} : ~IsParent(fat_table, p)}

\* A cluster that is no directory shows no entries: it is zeros, or a file too
\* short to reach the bytes of slot 2.
Table(st, p) == IF st[p].kind = "dir" THEN st[p].table ELSE [s \in Slots |-> NoEntry]
Used(st, p) == {s \in Slots : Table(st, p)[s] # NoEntry}
Matching(st, p, name, ext) ==
    {s \in Used(st, p) : Table(st, p)[s].name = name /\ Table(st, p)[s].ext = ext}
FoldersNamed(st, p, name) ==
    {s \in Used(st, p) : Table(st, p)[s].name = name /\ Table(st, p)[s].folder}
FilesMatching(st, p, name, ext) ==
    {s \in Matching(st, p, name, ext) : ~Table(st, p)[s].folder}

\* The loop along the table from head: Walk(fat, head)[k] is the value of
\* cluster_number after k turns.  The loop ends at EOF; a value that is neither
\* EOF nor a cluster (an index outside the table) is where it is undefined.
Walk(fat, head) ==
    LET at[k \in 0 .. CLUSTER_MAP_SIZE] ==
            IF k = 0 THEN head
            ELSE IF at[k - 1] \in Clusters THEN fat[at[k - 1]] ELSE at[k - 1]
    IN  at
WalkEnds(fat, head) == EOF \in Range(Walk(fat, head))

\* The size clusters of a file's buffer after it was read; what a shorter chain
\* does not fill stays as it was, unknown.
Contents(fat, st, e) ==
    LET at == Walk(fat, e.cluster)
    IN  [k \in 0 .. e.size - 1 |->
            IF k \in DOMAIN at /\ at[k] \in Clusters THEN st[at[k]] ELSE Unknown]

\* The clusters that deleting head and everything below it visits.
Successors(fat, st, c) ==
    ({fat[c]} \cap (Clusters \ {EMPTY}))
        \cup (IF st[c].kind = "dir" THEN {Table(st, c)[s].cluster : s \in Used(st, c)} ELSE {})
Closed(fat, st, C) == \A c \in C : Successors(fat, st, c) \subseteq C
Reach(fat, st, head) ==
    LET sets == {C \in SUBSET Clusters : head \in C /\ Closed(fat, st, C)}
    IN  {c \in Clusters : \A C \in sets : c \in C}

\* read: the code for a request with room for size clusters.
read(p, name, ext, size) ==
    LET files == FilesMatching(storage, p, name, ext)
    IN  IF ~IsParent(fat_table, p) THEN -1
        ELSE IF files # {}
             THEN IF \E s \in files : IsFirst(files, s) /\ size < Table(storage, p)[s].size
                  THEN -1 ELSE 0
        ELSE IF FoldersNamed(storage, p, name) # {} THEN 1 ELSE 2

\* read_directory for a name other than "..", with a buffer of the right size.
read_directory(p, name) ==
    IF ~IsParent(fat_table, p) THEN -1
    ELSE IF FoldersNamed(storage, p, name) # {} THEN 0
    ELSE IF \E s \in Used(storage, p) : Table(storage, p)[s].name = name THEN 1 ELSE 2

\* search_file: 1 for a folder of that name and for a file with another extension.
search_file(p, name, ext) ==
    IF ~IsParent(fat_table, p) THEN -1
    ELSE IF FilesMatching(storage, p, name, ext) # {} THEN 0
    ELSE IF \E s \in Used(storage, p) : Table(storage, p)[s].name = name THEN 1 ELSE 2

\* get_cluster_number: the first folder of that name, whatever its extension.
get_cluster_number(fat, st, p, name) ==
    IF ~IsParent(fat, p) \/ FoldersNamed(st, p, name) = {} THEN 0
    ELSE Table(st, p)[CHOOSE s \in Slots : IsFirst(FoldersNamed(st, p, name), s)].cluster

-----------------------------------------------------------------------------
(* Writing.  The operators give the table and the clusters after a change of *)
(* fat and st; an operation stores them and the disk's copy of the table.    *)

\* Mutant: the loop of the allocation with <= for its bound.
OneTooMany(fat) ==
    {c \in 3 .. CLUSTER_MAP_SIZE : IF c = CLUSTER_MAP_SIZE THEN TRUE ELSE fat[c] = EMPTY}

FreeClusters(fat) == {c \in DataClusters : fat[c] = EMPTY}

\* write's test of the directory table, in the order of the code.
WriteCheck(fat, st, p, name, ext) ==
    IF ~IsParent(fat, p) THEN 2
    ELSE IF Matching(st, p, name, ext) # {} THEN 1
    ELSE IF Used(st, p) = Slots THEN -1
    ELSE 0

\* A table with entry e in slot s.  Where there were zeros, slot 1 leads nowhere.
SetSlot(st, p, s, e) ==
    LET table == [t \in Slots |-> IF t = s THEN e ELSE Table(st, p)[t]]
    IN  [c \in Clusters |->
           IF c # p THEN st[c]
           ELSE IF st[p].kind = "dir" THEN [kind |-> "dir", up |-> st[p].up, table |-> table]
           ELSE IF st[p].kind = "zeros" THEN [kind |-> "dir", up |-> 0, table |-> table]
           ELSE Overwritten]

\* Mutant: a used slot is not skipped.
AnySlot(st, p, s) == IsFirst(Slots, s)

\* The slot a new entry takes.
NewSlot(st, p, s) == IsFirst(Slots \ Used(st, p), s)

\* Mutant: the last cluster of the chain is not marked.
ChainLeftOpen(fat, a) ==
    [c \in Clusters |-> IF \E k \in DOMAIN a : a[k] = c /\ k + 1 \in DOMAIN a
                        THEN a[1 + CHOOSE k \in DOMAIN a : a[k] = c] ELSE fat[c]]

\* The clusters a are chained in the order taken.  When none was free the code
\* still writes EOF at index 0.
Chained(fat, a) ==
    LET last == Cardinality(DOMAIN a) - 1
    IN  [c \in Clusters |->
            IF \E k \in DOMAIN a : a[k] = c
            THEN IF c = a[last] THEN EOF ELSE a[1 + CHOOSE k \in DOMAIN a : a[k] = c]
            ELSE IF c = 0 /\ last < 0 THEN EOF
            ELSE fat[c]]

\* Mutant: every cluster is written from the start of the buffer.
FirstPieceOnly(st, a, data) ==
    [c \in Clusters |-> IF \E k \in DOMAIN a : a[k] = c THEN data[0] ELSE st[c]]

Filled(st, a, data) ==
    [c \in Clusters |-> IF \E k \in DOMAIN a : a[k] = c
                        THEN data[CHOOSE k \in DOMAIN a : a[k] = c] ELSE st[c]]

\* The table, cached and on the disk, and the clusters are set, the clusters of
\* zeroed having been zeroed on the way.  Cluster 0 is where the boot signature
\* is: zeroing it un-formats the disk.
Save(fat, st, zeroed) ==
    /\ fat_table' = fat
    /\ disk_fat' = fat
    /\ storage' = st
    /\ signature' = (signature /\ 0 \notin zeroed)
    /\ UNCHANGED mounted

\* The table and the clusters once a file of the given data is in directory p.
FileAdded(fat, st, p, name, ext, data) ==
    LET size == Cardinality(DOMAIN data)
        s    == CHOOSE t \in Slots : NewSlot(st, p, t)
        a    == CHOOSE b \in FirstFit(FreeClusters(fat), size) : TRUE
        head == IF DOMAIN a = {} THEN 0 ELSE a[0]
    IN  [fat |-> Chained(fat, a),
         st  |-> SetSlot(Filled(st, a, data), p, s, Entry(name, ext, FALSE, head, size))]

\* The same for a folder, which takes the first free cluster; when there is none
\* its entry is written all the same, without the folder attribute and with
\* cluster 0.
FolderAdded(fat, st, p, name, ext) ==
    LET s    == CHOOSE t \in Slots : NewSlot(st, p, t)
        free == FreeClusters(fat)
        c    == CHOOSE d \in free : IsFirst(free, d)
    IN  IF free = {}
        THEN [fat |-> fat, st |-> SetSlot(st, p, s, Entry(name, ext, FALSE, 0, 0))]
        ELSE [fat |-> [fat EXCEPT ![c] = EOF],
              st  |-> SetSlot([st EXCEPT ![c] = EmptyDirectory(p)], p, s,
                              Entry(name, ext, TRUE, c, 0))]

\* Room for the request, unless requests may outgrow the disk.
Fits(fat, n) == FullDisk \/ Cardinality(FreeClusters(fat)) >= n

Refuse(code) ==
    /\ code # 0
    /\ retcode' = code
    /\ UNCHANGED <<fat_table, signature, disk_fat, storage, mounted>>

WriteRefused(p, name, ext) ==
    /\ mounted
    /\ Refuse(WriteCheck(fat_table, storage, p, name, ext))

WriteFile(p, name, ext, v, n) ==
    /\ mounted
    /\ WriteCheck(fat_table, storage, p, name, ext) = 0
    /\ Fits(fat_table, n)
    /\ LET new == FileAdded(fat_table, storage, p, name, ext, [k \in 0 .. n - 1 |-> Piece(v, k)])
       IN  Save(new.fat, new.st, {})
    /\ retcode' = 0

WriteFolder(p, name, ext) ==
    /\ mounted
    /\ WriteCheck(fat_table, storage, p, name, ext) = 0
    /\ Fits(fat_table, 1)
    /\ LET new == FolderAdded(fat_table, storage, p, name, ext)
       IN  Save(new.fat, new.st, {})
    /\ retcode' = 0

\* Mutant: deleted clusters are zeroed and not freed.
KeepTable(fat, C) == fat

\* The table and the clusters once C is freed and zeroed and slot s of
\* directory p is cleared.
FreedTable(fat, C) == [c \in Clusters |-> IF c \in C THEN EMPTY ELSE fat[c]]
Erased(st, C, p, s) ==
    SetSlot([c \in Clusters |-> IF c \in C THEN Zeros ELSE st[c]], p, s, NoEntry)

\* The loops over the clusters of C end: every chain comes to EOF, and cluster 0,
\* which entries written to a full disk share, is met at most once.
LoopsEnd(fat, st, C) ==
    /\ \A c \in C : WalkEnds(fat, c)
    /\ Cardinality({x \in C \X Slots : /\ Table(st, x[1])[x[2]] # NoEntry
                                       /\ Table(st, x[1])[x[2]].cluster = 0}) <= 1

\* A loop that does not end has been through cluster 0 and zeroed it.  It keeps
\* the processor, or leaves the table: only a new power-on helps.
Hang ==
    /\ mounted' = FALSE
    /\ signature' = FALSE
    /\ UNCHANGED <<fat_table, disk_fat, storage, retcode>>

Erase(C, p, s) ==
    \/ /\ LoopsEnd(fat_table, storage, C)
       /\ Save(FreedTable(fat_table, C), Erased(storage, C, p, s), C)
       /\ retcode' = 0
    \/ ~LoopsEnd(fat_table, storage, C) /\ Hang

IsEmptyFolder(c) == Used(storage, c) = {}

\* delete: a file or an empty folder.
delete(p, name, ext) ==
    LET match == Matching(storage, p, name, ext)
    IN  /\ mounted
        /\ \/ Refuse(IF ~IsParent(fat_table, p) THEN -1 ELSE IF match = {} THEN 1 ELSE 0)
           \/ /\ IsParent(fat_table, p)
              /\ \E s \in match :
                    LET e == Table(storage, p)[s]
                    IN  /\ IsFirst(match, s)
                        /\ \/ e.folder /\ ~IsEmptyFolder(e.cluster) /\ Refuse(2)
                           \/ /\ e.folder => IsEmptyFolder(e.cluster)
                              /\ Erase(Reach(fat_table, storage, e.cluster), p, s)

\* delete_folder_rec: a folder with everything below it (rec_delete).
delete_folder_rec(p, name, ext) ==
    LET match == Matching(storage, p, name, ext)
        folders == {s \in match : Table(storage, p)[s].folder}
    IN  /\ mounted
        /\ \/ Refuse(IF ~IsParent(fat_table, p) THEN -1
                     ELSE IF folders # {} THEN 0
                     ELSE IF match # {} THEN 1 ELSE 2)
           \/ /\ IsParent(fat_table, p)
              /\ \E s \in folders :
                    /\ IsFirst(folders, s)
                    /\ Erase(Reach(fat_table, storage, Table(storage, p)[s].cluster), p, s)

\* What copy_file leaves where it writes: a file at the destination is deleted.
DestinationCleared(q, name, ext) ==
    LET old == IF IsParent(fat_table, q) THEN FilesMatching(storage, q, name, ext) ELSE {}
        C   == UNION {Reach(fat_table, storage, Table(storage, q)[t].cluster) : t \in old}
    IN  [old |-> old, clusters |-> C, fat |-> FreedTable(fat_table, C),
         st |-> IF old = {} THEN storage
                ELSE Erased(storage, C, q, CHOOSE t \in old : TRUE)]

\* copy_file: the source is read, a file at the destination is deleted, and the
\* destination is written like any file; its return code is that of write.
copy_file(p, name, ext, q, name2, ext2) ==
    LET src == FilesMatching(storage, p, name, ext)
    IN  /\ mounted
        /\ \/ Refuse(IF ~IsParent(fat_table, p) THEN -1
                     ELSE IF \E s \in src : Table(storage, p)[s].cluster # 0 THEN 0 ELSE 1)
           \/ /\ IsParent(fat_table, p)
              /\ \E s \in src :
                    LET e    == Table(storage, p)[s]
                        data == Contents(fat_table, storage, e)
                        now  == DestinationCleared(q, name2, ext2)
                        code == WriteCheck(now.fat, now.st, q, name2, ext2)
                    IN  /\ IsFirst(src, s)
                        /\ e.cluster # 0
                        /\ \/ ~LoopsEnd(fat_table, storage, now.clusters) /\ Hang
                           \/ /\ LoopsEnd(fat_table, storage, now.clusters)
                              /\ retcode' = code
                              /\ \/ code # 0 /\ Save(now.fat, now.st, now.clusters)
                                 \/ /\ code = 0
                                    /\ Fits(now.fat, e.size)
                                    /\ LET new == FileAdded(now.fat, now.st, q, name2, ext2, data)
                                       IN  Save(new.fat, new.st, now.clusters)

Next ==
    \/ initialize_filesystem_fat32
    \/ \E p \in Parents, name \in Names, ext \in Exts :
          \/ WriteRefused(p, name, ext)
          \/ WriteFolder(p, name, ext)
          \/ \E v \in Values, n \in Sizes : WriteFile(p, name, ext, v, n)
          \/ delete(p, name, ext)
          \/ delete_folder_rec(p, name, ext)
          \/ \E q \in Parents, name2 \in Names, ext2 \in Exts :
                copy_file(p, name, ext, q, name2, ext2)

Spec == Init /\ [][Next]_vars

-----------------------------------------------------------------------------
(* Properties. *)

Entries == [name : Names, ext : Exts, folder : BOOLEAN, cluster : Clusters, size : Nat]
Tables  == [kind : {"dir"}, up : Clusters, table : [Slots -> Entries \cup {NoEntry}]]
Pieces  == [kind : {"piece"}, val : Values, part : Nat]
Blocks  == {Zeros, Unknown, Overwritten} \cup Pieces \cup Tables
FatValues == Clusters \cup {EOF, CLUSTER_0_VALUE}

ASSUME NoEntryAssumption == NoEntry \notin Entries

\* Every index in the table and in a directory entry is inside the disk, as
\* every loop along a chain and every read_clusters needs.
TypeOK ==
    /\ fat_table \in [Clusters -> FatValues]
    /\ disk_fat \in [Clusters -> FatValues]
    /\ storage \in [Clusters -> Blocks]
    /\ signature \in BOOLEAN /\ mounted \in BOOLEAN
    /\ retcode \in {-1, 0, 1, 2}

LiveEntries == {x \in Directories \X Slots : storage[x[1]].table[x[2]] # NoEntry}
EntryAt(x)  == storage[x[1]].table[x[2]]

\* A cluster belongs to one owner: a directory entry leads to it or one cluster
\* of a chain does, never two, and what is led to is not free.  So no two files
\* share a cluster and the allocation loop never takes one in use.
NoSharedCluster ==
    mounted =>
        \A c \in DataClusters :
            LET heads == {x \in LiveEntries : EntryAt(x).cluster = c}
                preds == {d \in Clusters : fat_table[d] = c}
            IN  /\ Cardinality(heads) + Cardinality(preds) <= 1
                /\ heads # {} \/ preds # {} => fat_table[c] # EMPTY

\* fat32.h:19-21, "FAT reserved value for cluster 0 and 1 in
\* FileAllocationTable": while the file system runs they keep that value.
ReservedEntriesKept ==
    mounted => fat_table[0] = CLUSTER_0_VALUE /\ fat_table[1] = EOF

\* No cluster is lost: what is not free can be reached from the root, through
\* however many folders, deletions, copies and restarts.
NoLostCluster ==
    mounted => {c \in DataClusters : fat_table[c] # EMPTY}
                   \subseteq Reach(fat_table, storage, ROOT_CLUSTER_NUMBER)

\* A file that write reported as stored is whole: its chain ends after exactly
\* the clusters its size takes, with its pieces in order.  So the loops of read,
\* delete and copy_file end, and stay inside the caller's buffer.
FilesWhole ==
    \A x \in LiveEntries :
        LET e  == EntryAt(x)
            at == Walk(fat_table, e.cluster)
        IN  ~e.folder =>
              /\ at[e.size] = EOF
              /\ \E v \in Values : \A k \in 0 .. e.size - 1 :
                    at[k] \in DataClusters /\ storage[at[k]] = Piece(v, k)

-----------------------------------------------------------------------------
(* Refinement of FileStore: a folder is its cluster. *)

Keys == Names \X Exts
Missing == [kind |-> "missing"]

\* What key k of directory p leads to.
Node(p, k) ==
    LET match == Matching(storage, p, k[1], k[2])
        e     == Table(storage, p)[CHOOSE s \in match : TRUE]
    IN  IF match = {} THEN Missing
        ELSE IF e.folder THEN [kind |-> "folder", id |-> e.cluster]
        ELSE [kind |-> "file", data |-> Contents(fat_table, storage, e)]

Tree == [p \in Directories \cup {ROOT_CLUSTER_NUMBER} |-> [k \in Keys |-> Node(p, k)]]

FS == INSTANCE FileStore WITH
        Folders <- DataClusters, Root <- ROOT_CLUSTER_NUMBER,
        Files <- {[kind |-> "file", data |-> [k \in 0 .. n - 1 |-> Piece(v, k)]]
                     : v \in Values, n \in Sizes},
        tree <- Tree

\* On a disk with room, the driver implements the tree of files: a write adds
\* one file or folder, a deletion removes what it names and what is below it, a
\* copy gives the destination the contents of the source, everything else keeps
\* its contents, and a restart changes nothing.
ImplementsFileStore == FS!Spec

\* The four lookups agree with the tree and with each other: read and
\* search_file find the same files, read_directory and get_cluster_number the
\* same folders, and the ".." entry of the folder found leads back.
LookupsMatchTree ==
    \A p \in Directories, name \in Names, ext \in Exts :
        LET n == get_cluster_number(fat_table, storage, p, name)
        IN  /\ (read(p, name, ext, CLUSTER_MAP_SIZE) = 0) = FS!IsFile(Tree[p][<<name, ext>>])
            /\ (search_file(p, name, ext) = 0) = FS!IsFile(Tree[p][<<name, ext>>])
            /\ (read_directory(p, name) = 0) = (n # 0)
            /\ n # 0 => n \in Directories /\ storage[n].up = p
            /\ search_file(p, name, ext) = 2 => n = 0 /\ read(p, name, ext, 0) = 2
=============================================================================
