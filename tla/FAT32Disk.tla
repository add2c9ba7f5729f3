------------------------------ MODULE FAT32Disk ------------------------------
(***************************************************************************)
(* The driver of FAT32.tla on a disk that is written one cluster at a time *)
(* (write_clusters and write_blocks) and can lose power at any moment.     *)
(*                                                                         *)
(* The variables of FAT32 are what the driver means the disk to hold once  *)
(* the current call is done; what it holds now are the variables platter_. *)
(* A call puts its writes, in the order of the code, into writes; they are *)
(* then made one by one, and the next call starts when none is left.       *)
(* Power loss drops the rest, and may leave the current write torn between *)
(* two of its blocks.                                                      *)
(*                                                                         *)
(* What is explored: any number of calls, and MaxCuts calls cut by a power *)
(* loss.  After a write or a format was cut the disk is only mounted: an   *)
(* entry may then lead to a free cluster, which the next write shares, or  *)
(* the root may not be a directory (see the README).                       *)
(***************************************************************************)
EXTENDS FAT32, SequencesExt

CONSTANTS MaxCuts,            \* calls cut by power loss in a behaviour
          ENTRIES_PER_BLOCK,  \* entries of the allocation table in a block (128)
          SLOTS_PER_BLOCK     \* entries of a directory table in a block (16)

ASSUME DiskAssumption ==
    /\ MaxCuts \in Nat
    /\ ENTRIES_PER_BLOCK \in Nat \ {0}
    /\ SLOTS_PER_BLOCK \in Nat \ {0}

CLUSTER_BLOCK_COUNT == 4

VARIABLES platter_signature, platter_fat, platter,  \* what the disk holds now
          writes,  \* the writes of the current call that are left to make
          call,    \* history: the kind of the last call
          spared,  \* history: the entries the last call is not about, with what they led to
          cuts     \* history: the kinds of the calls cut so far

platterVars == <<platter_signature, platter_fat, platter>>
diskVars == <<vars, platterVars, writes, call, spared, cuts>>

DiskInit ==
    /\ Init
    /\ platter_signature = signature
    /\ platter_fat = disk_fat
    /\ platter = storage
    /\ writes = <<>>
    /\ call = "none"
    /\ spared = {}
    /\ cuts = <<>>

-----------------------------------------------------------------------------
(* The writes of the calls, in the order of the code. *)

PutSignature   == [at |-> 0, is |-> TRUE]
PutTable(fat)  == [at |-> 1, is |-> fat]
Put(c, x)      == [at |-> c, is |-> x]

EntryOf(st, p, name, ext) ==
    Table(st, p)[CHOOSE s \in Matching(st, p, name, ext) : IsFirst(Matching(st, p, name, ext), s)]

\* The clusters of a file, in the order of its chain.
ChainOf(fat, e) ==
    LET at == Walk(fat, e.cluster)
        n  == CHOOSE k \in DOMAIN at : at[k] = EOF /\ \A j \in 0 .. k - 1 : at[j] # EOF
    IN  [k \in 1 .. n |-> at[k - 1]]

\* Deleting the clusters of C zeroes c before d: a chain from its head on, a
\* folder after what is below it, and the slots of a folder in turn.
ZeroedBefore(fat, st, C, c, d) ==
    LET From(x) == Reach(fat, st, x)
    IN  \/ fat[c] = d
        \/ c # d /\ st[d].kind = "dir" /\ c \in From(d)
        \/ \E p \in C : \E s, t \in Used(st, p) :
              s < t /\ c \in From(Table(st, p)[s].cluster) /\ d \in From(Table(st, p)[t].cluster)

\* The clusters that rec_delete zeroes, in its order: on a tree there is one.
ZeroingOrders(fat, st, head) ==
    LET C      == Reach(fat, st, head)
        before == {x \in C \X C : ZeroedBefore(fat, st, C, x[1], x[2])}
    IN  {z \in [1 .. Cardinality(C) -> C] :
            /\ Range(z) = C
            /\ \A i, j \in DOMAIN z : <<z[i], z[j]>> \in before => i < j}

\* Mutant: the table is not written.
TableNotWritten(fat, st, p) == <<Put(p, st[p])>>

\* The end of every call that changes a directory: its table, then the
\* allocation table.
Commit(fat, st, p) == <<Put(p, st[p]), PutTable(fat)>>

\* write: the new clusters and the end.
WriteOrder(fat, st, p, name, ext) ==
    LET e == EntryOf(st, p, name, ext)
        a == IF e.folder THEN <<e.cluster>> ELSE ChainOf(fat, e)
    IN  [k \in DOMAIN a |-> Put(a[k], st[a[k]])] \o Commit(fat, st, p)

\* Mutant: the allocation table is written first.
TableFirst(fat, st, p, e, fat2, st2) ==
    {<<PutTable(fat2)>> \o [k \in DOMAIN z |-> Put(z[k], Zeros)] \o <<Put(p, st2[p])>>
        : z \in ZeroingOrders(fat, st, e.cluster)}

\* delete and delete_folder_rec of entry e of directory p, which leave fat2 and
\* st2.
DeleteOrders(fat, st, p, e, fat2, st2) ==
    {[k \in DOMAIN z |-> Put(z[k], Zeros)] \o Commit(fat2, st2, p)
        : z \in ZeroingOrders(fat, st, e.cluster)}

\* copy_file: the deletion of the destination, if there is one, and the write.
CopyOrders(q, name, ext) ==
    LET now     == DestinationCleared(q, name, ext)
        cleared == IF now.old = {} THEN {<<>>}
                   ELSE DeleteOrders(fat_table, storage, q, EntryOf(storage, q, name, ext),
                                     now.fat, now.st)
        written == IF retcode' # 0 THEN <<>> ELSE WriteOrder(fat_table', storage', q, name, ext)
    IN  {c \o written : c \in cleared}

\* create_fat32
FormatOrder ==
    <<PutSignature, Put(ROOT_CLUSTER_NUMBER, storage'[ROOT_CLUSTER_NUMBER]), PutTable(fat_table')>>

-----------------------------------------------------------------------------
(* Calls that change the disk; those that are refused leave everything as it *)
(* is.  A request names a directory; one whose table was zeroed by a call    *)
(* that was cut still is one.                                                *)

Folders == Directories \cup {EntryAt(x).cluster : x \in {y \in LiveEntries : EntryAt(y).folder}}

\* Everything in folders other than those of gone, except key k of folder p.
Others(gone, p, k) ==
    {<<x[1], x[2], Node(x[1], x[2])>> : x \in ((Folders \ gone) \X Keys) \ {<<p, k>>}}

Ready == writes = <<>> /\ mounted /\ Range(cuts) \subseteq {"delete"}

Starts(kind, order, others) ==
    /\ writes' = order
    /\ call' = kind
    /\ spared' = others
    /\ UNCHANGED <<platterVars, cuts>>

\* Power-on, with nothing left to write.
PowerOn ==
    /\ writes = <<>> /\ ~mounted
    /\ initialize_filesystem_fat32
    /\ IF signature THEN UNCHANGED <<platterVars, writes, call, spared, cuts>>
                    ELSE Starts("format", FormatOrder, {})

CallWrite(p, name, ext) ==
    /\ Ready
    /\ \/ WriteFolder(p, name, ext)
       \/ \E v \in Values, n \in Sizes : WriteFile(p, name, ext, v, n)
    /\ Starts("write", WriteOrder(fat_table', storage', p, name, ext),
              Others({}, p, <<name, ext>>))

CallDelete(p, name, ext) ==
    /\ Ready
    /\ \/ delete(p, name, ext)
       \/ delete_folder_rec(p, name, ext)
    /\ retcode' = 0
    /\ LET e == EntryOf(storage, p, name, ext)
       IN  \E order \in DeleteOrders(fat_table, storage, p, e, fat_table', storage') :
              Starts("delete", order, Others(Reach(fat_table, storage, e.cluster), p, <<name, ext>>))

\* The source is spared, unless it is the destination.
CallCopy(p, name, ext, q, name2, ext2) ==
    /\ Ready
    /\ FilesMatching(storage, p, name, ext) # {}
    /\ copy_file(p, name, ext, q, name2, ext2)
    /\ \E order \in CopyOrders(q, name2, ext2) :
          /\ order # <<>>
          /\ Starts("write", order, Others({}, q, <<name2, ext2>>))

-----------------------------------------------------------------------------
(* The disk. *)

Holds(st, c, x) == [st EXCEPT ![c] = x]

\* write_clusters: the next write is made.
DiskWrite ==
    /\ writes # <<>>
    /\ LET w == Head(writes)
       IN  /\ platter_signature' = (platter_signature \/ w.at = 0)
           /\ platter_fat' = IF w.at = 1 THEN w.is ELSE platter_fat
           /\ platter' = IF w.at \in {0, 1} THEN platter ELSE Holds(platter, w.at, w.is)
    /\ writes' = Tail(writes)
    /\ UNCHANGED <<vars, call, spared, cuts>>

\* A table after k of the blocks of another were written over it.
TornTable(old, new, k) ==
    [c \in Clusters |-> IF c < k * ENTRIES_PER_BLOCK THEN new[c] ELSE old[c]]

\* The same for the other clusters.  Slot 1 is in the first block; what a torn
\* piece of a file holds is nobody's concern.
TornCluster(old, new, k) ==
    LET Up(x)   == IF x.kind = "dir" THEN x.up ELSE 0
        Slot(x) == IF x.kind = "dir" THEN x.table ELSE [s \in Slots |-> NoEntry]
        table   == [s \in Slots |-> IF s < k * SLOTS_PER_BLOCK THEN Slot(new)[s] ELSE Slot(old)[s]]
    IN  IF k = 0 THEN old
        ELSE IF ~({old.kind, new.kind} \subseteq {"dir", "zeros"}) THEN Unknown
        ELSE IF Up(new) = 0 /\ Range(table) = {NoEntry} THEN Zeros
        ELSE [kind |-> "dir", up |-> Up(new), table |-> table]

\* Power is lost after k blocks of the next write.  The driver will find what
\* is on the disk.
PowerLoss ==
    /\ writes # <<>>
    /\ Len(cuts) < MaxCuts
    /\ \E k \in 0 .. CLUSTER_BLOCK_COUNT - 1 :
          LET w == Head(writes)
          IN  /\ w.at = 0 => k = 0       \* the signature is one block
              /\ disk_fat' = IF w.at = 1 THEN TornTable(platter_fat, w.is, k) ELSE platter_fat
              /\ storage' = IF w.at \in {0, 1} THEN platter
                            ELSE Holds(platter, w.at, TornCluster(platter[w.at], w.is, k))
    /\ platter_fat' = disk_fat' /\ platter' = storage'
    /\ signature' = platter_signature
    /\ fat_table' = [c \in Clusters |-> EMPTY]
    /\ mounted' = FALSE
    /\ retcode' = 0
    /\ writes' = <<>>
    /\ cuts' = Append(cuts, call)
    /\ UNCHANGED <<platter_signature, call, spared>>

DiskNext ==
    \/ PowerOn
    \/ DiskWrite
    \/ PowerLoss
    \/ \E p \in Folders, name \in Names, ext \in Exts :
          \/ CallWrite(p, name, ext)
          \/ CallDelete(p, name, ext)
          \/ \E q \in Folders, name2 \in Names, ext2 \in Exts :
                CallCopy(p, name, ext, q, name2, ext2)

DiskSpec == DiskInit /\ [][DiskNext]_diskVars

-----------------------------------------------------------------------------
(* Properties. *)

\* When a call is done the disk holds what the driver believes it holds: every
\* change in memory was written, in whatever order and over whatever an earlier
\* call that was cut left behind.
DiskInSync ==
    mounted /\ writes = <<>> =>
        /\ platter_signature = signature
        /\ platter_fat = fat_table
        /\ platter = storage

\* A call that is cut by power loss at any point, even inside a block transfer
\* of the allocation table, changes only what it was about: after the next
\* power-on every other file and folder is there with its contents, and nothing
\* else has appeared.
CrashSparesOthers ==
    mounted /\ writes = <<>> => \A x \in spared : Node(x[1], x[2]) = x[3]

\* Deletions that were cut never make two files share a cluster or an entry
\* lead to a free one, whatever is done afterwards: the entry is cleared on disk
\* before its clusters are freed, and what is lost in between is only space.
OwnersApart ==
    mounted /\ Range(cuts) \subseteq {"delete"} =>
        \A x \in LiveEntries :
            LET C == Reach(fat_table, storage, EntryAt(x).cluster)
            IN  /\ \A c \in C : c \in DataClusters /\ fat_table[c] # EMPTY
                /\ \A y \in LiveEntries : x # y /\ x[1] = y[1] =>
                      C \cap Reach(fat_table, storage, EntryAt(y).cluster) = {}
=============================================================================
