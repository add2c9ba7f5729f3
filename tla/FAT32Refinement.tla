--------------------------- MODULE FAT32Refinement ---------------------------
(***************************************************************************)
(* On a disk with room the driver implements FileStore, for every size of  *)
(* the disk, of the directories and of the files: each operation is one    *)
(* step of the tree of files, or leaves it alone.                          *)
(*                                                                         *)
(* The tree is a function of the table and the clusters.  The proof        *)
(* follows what an added entry and a deleted one do to it, and shows that  *)
(* the loops of a deletion end and never come to cluster 0, so that a disk *)
(* once formatted is never formatted again.                                *)
(***************************************************************************)
EXTENDS FAT32Proofs

-----------------------------------------------------------------------------
(* The tree of a table and clusters. *)

DirsOf(fat, st) == {c \in Clusters : IsDir(fat, st, c)}

EntryNode(fat, st, e) ==
    IF e.folder THEN [kind |-> "folder", id |-> e.cluster]
    ELSE [kind |-> "file", data |-> Contents(fat, st, e)]

\* Slot s of directory p holds key k.
Holds(fat, st, p, s, k) ==
    Live(fat, st, p, s) /\ st[p].table[s].name = k[1] /\ st[p].table[s].ext = k[2]

NodeOf(fat, st, p, k) ==
    LET match == {s \in Slots : Holds(fat, st, p, s, k)}
    IN  IF match = {} THEN Missing
        ELSE EntryNode(fat, st, st[p].table[CHOOSE s \in match : TRUE])

TreeOf(fat, st) == [p \in DirsOf(fat, st) |-> [k \in Keys |-> NodeOf(fat, st, p, k)]]

\* A key leads to the one entry that has it.
LEMMA NodeFacts ==
    ASSUME NEW fat, NEW st, Sound(fat, st), NEW p \in Clusters, NEW k \in Keys
    PROVE  /\ \A s \in Slots : Holds(fat, st, p, s, k) =>
                 NodeOf(fat, st, p, k) = EntryNode(fat, st, st[p].table[s])
           /\ (\A s \in Slots : ~Holds(fat, st, p, s, k)) => NodeOf(fat, st, p, k) = Missing
           /\ (\A s \in Slots : ~Holds(fat, st, p, s, k)) <=> NodeOf(fat, st, p, k) = Missing
<1> DEFINE match == {s \in Slots : Holds(fat, st, p, s, k)}
<1>1. ASSUME NEW s \in Slots, Holds(fat, st, p, s, k)
      PROVE  NodeOf(fat, st, p, k) = EntryNode(fat, st, st[p].table[s])
  <2>1. match = {s}
    BY <1>1 DEF Holds, Sound, UniqueKeys
  <2> HIDE DEF match
  <2>2. (CHOOSE t \in match : TRUE) = s /\ match # {}
    BY <2>1
  <2> QED BY <2>2 DEF NodeOf, match
<1>2. (\A s \in Slots : ~Holds(fat, st, p, s, k)) => NodeOf(fat, st, p, k) = Missing
  BY DEF NodeOf
<1>3. \A e : EntryNode(fat, st, e).kind # "missing"
  BY DEF EntryNode
<1>4. Missing.kind = "missing"
  BY DEF Missing
<1> QED BY <1>1, <1>2, <1>3, <1>4

\* While the file system runs, the tree of the refinement is this tree.
LEMMA TreeIs == DriverInv /\ mounted => Tree = TreeOf(fat_table, storage)
<1> SUFFICES ASSUME DriverInv, mounted PROVE Tree = TreeOf(fat_table, storage)
  OBVIOUS
<1>1. Sound(fat_table, storage)
  BY DEF DriverInv
<1>2. Directories = DirsOf(fat_table, storage)
  BY DEF Directories, DirsOf, IsDir
<1>3. ROOT_CLUSTER_NUMBER \in Directories
  BY <1>1, <1>2, ClusterFacts DEF Sound, Reserved, DirsOf, ROOT_CLUSTER_NUMBER
<1>4. ASSUME NEW p \in Directories, NEW k \in Keys
      PROVE  Node(p, k) = NodeOf(fat_table, storage, p, k)
  <2>1. PICK name \in Names, ext \in Exts : k = <<name, ext>>
    BY DEF Keys
  <2>2. k[1] = name /\ k[2] = ext /\ p \in Clusters
    BY <1>2, <2>1 DEF DirsOf
  <2>3. storage[p].kind = "dir" /\ Table(storage, p) = storage[p].table
        /\ IsDir(fat_table, storage, p)
    BY <1>2 DEF DirsOf, IsDir, Table
  <2>4. Matching(storage, p, name, ext) = {s \in Slots : Holds(fat_table, storage, p, s, k)}
    BY <2>2, <2>3 DEF Matching, Used, Holds, Live
  <2> QED BY <2>2, <2>3, <2>4 DEF Node, NodeOf, EntryNode
<1>5. Directories \cup {ROOT_CLUSTER_NUMBER} = DirsOf(fat_table, storage)
  BY <1>2, <1>3
<1> QED BY <1>2, <1>4, <1>5 DEF Tree, TreeOf

\* A function of the same size with the same nodes is the same tree.
LEMMA TreeFacts ==
    ASSUME NEW fat, NEW st
    PROVE  /\ DOMAIN TreeOf(fat, st) = DirsOf(fat, st)
           /\ \A p \in DirsOf(fat, st) :
                 /\ TreeOf(fat, st)[p] = [k \in Keys |-> NodeOf(fat, st, p, k)]
                 /\ \A k \in Keys : TreeOf(fat, st)[p][k] = NodeOf(fat, st, p, k)
           /\ DirsOf(fat, st) \subseteq Clusters
BY DEF TreeOf, DirsOf

-----------------------------------------------------------------------------
(* What a step does to the tree. *)

\* An entry stands for the same node as long as its file keeps its chain.
LEMMA SameNode ==
    ASSUME NEW fat, NEW st, NEW fat2, NEW st2, NEW e,
           ~e.folder => \E f, v : FileChain(fat, st, e, f, v) /\ FileChain(fat2, st2, e, f, v)
    PROVE  EntryNode(fat2, st2, e) = EntryNode(fat, st, e)
<1>1. CASE e.folder
  BY <1>1 DEF EntryNode
<1>2. CASE ~e.folder
  <2>1. PICK f, v : FileChain(fat, st, e, f, v) /\ FileChain(fat2, st2, e, f, v)
    BY <1>2
  <2>2. Contents(fat, st, e) = [k \in 0 .. e.size - 1 |-> Piece(v, k)]
    BY <2>1, ContentsOfChain
  <2>3. Contents(fat2, st2, e) = [k \in 0 .. e.size - 1 |-> Piece(v, k)]
    BY <2>1, ContentsOfChain
  <2> QED BY <1>2, <2>2, <2>3 DEF EntryNode
<1> QED BY <1>1, <1>2

KeyOf(e) == <<e.name, e.ext>>

LEMMA KeyFacts ==
    ASSUME NEW e \in Entries
    PROVE  /\ KeyOf(e) \in Keys
           /\ \A k \in Keys : (e.name = k[1] /\ e.ext = k[2]) <=> k = KeyOf(e)
BY DEF KeyOf, Keys, Entries

\* After an entry is added, its key leads to it, every other key leads where it
\* led, and a new folder is empty.
LEMMA AddNodes ==
    ASSUME NEW fat, NEW st, Sound(fat, st), WholeFiles(fat, st),
           NEW p \in Clusters, NEW s \in Slots,
           IsDir(fat, st, p), ~Live(fat, st, p, s), NEW e, NEW m, NEW a, NEW b,
           NEW fat2, NEW st2, Added(fat, st, p, s, e, m, a, b, fat2, st2),
           NewKey(fat, st, p, e)
    PROVE  /\ DirsOf(fat2, st2) = DirsOf(fat, st) \cup (IF e.folder THEN {e.cluster} ELSE {})
           /\ e.folder => e.cluster \in DataClusters /\ e.cluster \notin DirsOf(fat, st)
           /\ e.folder => \A k \in Keys : NodeOf(fat2, st2, e.cluster, k) = Missing
           /\ NodeOf(fat, st, p, KeyOf(e)) = Missing
           /\ NodeOf(fat2, st2, p, KeyOf(e)) = EntryNode(fat2, st2, e)
           /\ \A q \in DirsOf(fat, st), k \in Keys :
                 ~(q = p /\ k = KeyOf(e)) => NodeOf(fat2, st2, q, k) = NodeOf(fat, st, q, k)
<1> DEFINE A == Taken(m, a)
<1>1. Sound(fat2, st2)
  BY AddSound
<1>2. /\ A \subseteq DataClusters
      /\ \A c \in A : fat[c] = EMPTY
      /\ p \notin A /\ p # 0 /\ p # 1
      /\ Live(fat2, st2, p, s) /\ st2[p].table[s] = e
      /\ \A d \in Clusters, i \in Slots : ~(d = p /\ i = s) =>
            /\ Live(fat2, st2, d, i) <=> d \notin A /\ Live(fat, st, d, i)
            /\ Live(fat2, st2, d, i) => st2[d].table[i] = st[d].table[i]
  BY AddedRefs
<1>3. e \in Entries /\ KeyOf(e) \in Keys
      /\ \A k \in Keys : (e.name = k[1] /\ e.ext = k[2]) <=> k = KeyOf(e)
  <2>1. e \in Entries
    BY DEF Added
  <2> QED BY <2>1, KeyFacts
<1>4. EMPTY # EOF
  BY ClusterFacts DEF EMPTY
<1>5. /\ \A c \in Clusters \ A : c # 0 => fat2[c] = fat[c]
      /\ \A c \in Clusters \ A : c # p => st2[c] = st[c]
      /\ st2[p].kind = "dir" /\ st[p].kind = "dir" /\ st[0].kind # "dir"
  BY DEF Added, Sound, Reserved, IsDir
<1>6. \A c \in Clusters \ A : IsDir(fat2, st2, c) <=> IsDir(fat, st, c)
  BY <1>2, <1>5 DEF IsDir, IsParent
<1>7. \A c \in A : ~IsDir(fat, st, c)
  BY <1>2, <1>4 DEF IsDir, IsParent
<1>8. ASSUME e.folder
      PROVE  /\ DirsOf(fat2, st2) = DirsOf(fat, st) \cup {e.cluster}
             /\ e.cluster \in DataClusters /\ e.cluster \notin DirsOf(fat, st)
             /\ \A k \in Keys : NodeOf(fat2, st2, e.cluster, k) = Missing
  <2>1. m = 1 /\ b[0] = EmptyDirectory(p) /\ e.cluster = a[0] /\ A = {a[0]}
    BY <1>8 DEF Added, Taken
  <2>2. fat2[a[0]] = EOF /\ st2[a[0]] = EmptyDirectory(p)
    BY <2>1 DEF Added
  <2>3. IsDir(fat2, st2, a[0]) /\ \A t \in Slots : ~Live(fat2, st2, a[0], t)
    BY <2>2 DEF IsDir, IsParent, Live, EmptyDirectory
  <2>4. DirsOf(fat2, st2) = DirsOf(fat, st) \cup {a[0]}
    BY <1>2, <1>6, <1>7, <2>1, <2>3, ClusterFacts DEF DirsOf
  <2>5. a[0] \in DataClusters /\ a[0] \in Clusters /\ a[0] \notin DirsOf(fat, st)
    BY <1>2, <1>7, <2>1, ClusterFacts DEF DirsOf
  <2>6. \A k \in Keys : NodeOf(fat2, st2, a[0], k) = Missing
    BY <1>1, <2>3, <2>5, NodeFacts DEF Holds
  <2> QED BY <1>8, <2>1, <2>4, <2>5, <2>6
<1>9. ASSUME ~e.folder
      PROVE  DirsOf(fat2, st2) = DirsOf(fat, st)
  <2>1. \A c \in A : st2[c].kind # "dir"
    BY <1>9 DEF Added, Taken
  <2> QED BY <1>6, <1>7, <1>9, <2>1 DEF DirsOf, IsDir
<1>10. NodeOf(fat, st, p, KeyOf(e)) = Missing
  <2>1. \A t \in Slots : ~Holds(fat, st, p, t, KeyOf(e))
    BY DEF NewKey, Holds, KeyOf
  <2> QED BY <1>3, <2>1, NodeFacts
<1>11. NodeOf(fat2, st2, p, KeyOf(e)) = EntryNode(fat2, st2, e)
  <2>1. Holds(fat2, st2, p, s, KeyOf(e))
    BY <1>2, <1>3 DEF Holds
  <2> QED BY <1>1, <1>2, <1>3, <2>1, NodeFacts
<1>12. ASSUME NEW q \in DirsOf(fat, st), NEW k \in Keys, ~(q = p /\ k = KeyOf(e))
       PROVE  NodeOf(fat2, st2, q, k) = NodeOf(fat, st, q, k)
  <2>1. q \in Clusters /\ q \notin A
    BY <1>7 DEF DirsOf
  <2>2. \A t \in Slots : Holds(fat2, st2, q, t, k) <=> Holds(fat, st, q, t, k)
    <3> SUFFICES ASSUME NEW t \in Slots
                 PROVE  Holds(fat2, st2, q, t, k) <=> Holds(fat, st, q, t, k)
      OBVIOUS
    <3>1. CASE q = p /\ t = s
      BY <1>2, <1>3, <1>12, <3>1 DEF Holds
    <3>2. CASE ~(q = p /\ t = s)
      BY <1>2, <2>1, <3>2 DEF Holds
    <3> QED BY <3>1, <3>2
  <2>3. CASE \A t \in Slots : ~Holds(fat, st, q, t, k)
    <3>1. NodeOf(fat, st, q, k) = Missing
      BY <2>1, <2>3, NodeFacts
    <3>2. NodeOf(fat2, st2, q, k) = Missing
      BY <1>1, <2>1, <2>2, <2>3, NodeFacts
    <3> QED BY <3>1, <3>2
  <2>4. ASSUME NEW t \in Slots, Holds(fat, st, q, t, k)
        PROVE  NodeOf(fat2, st2, q, k) = NodeOf(fat, st, q, k)
    <3>1. NodeOf(fat, st, q, k) = EntryNode(fat, st, st[q].table[t])
      BY <2>1, <2>4, NodeFacts
    <3>2. NodeOf(fat2, st2, q, k) = EntryNode(fat2, st2, st2[q].table[t])
      BY <1>1, <2>1, <2>2, <2>4, NodeFacts
    <3>3. st2[q].table[t] = st[q].table[t]
      <4>1. ~(q = p /\ t = s) /\ Live(fat2, st2, q, t)
        BY <2>2, <2>4 DEF Holds
      <4> QED BY <1>2, <2>1, <4>1
    <3> DEFINE x == st[q].table[t]
    <3>4. ASSUME ~x.folder
          PROVE  \E f, v : FileChain(fat, st, x, f, v) /\ FileChain(fat2, st2, x, f, v)
      <4>1. Live(fat, st, q, t)
        BY <2>4 DEF Holds
      <4>2. PICK f, v : v \in Values /\ FileChain(fat, st, x, f, v)
        BY <2>1, <3>4, <4>1 DEF WholeFiles
      <4>3. FileChain(fat2, st2, x, f, v)
        BY <4>2, AddChain
      <4> QED BY <4>2, <4>3
    <3> HIDE DEF x
    <3>5. EntryNode(fat2, st2, x) = EntryNode(fat, st, x)
      BY <3>4, SameNode
    <3> QED BY <3>1, <3>2, <3>3, <3>5 DEF x
  <2> QED BY <2>3, <2>4
<1> QED BY <1>8, <1>9, <1>10, <1>11, <1>12

\* After an entry is deleted, its key leads nowhere, the folders among what was
\* freed are gone, and every other key leads where it led.
LEMMA EraseNodes ==
    ASSUME NEW fat, NEW st, Sound(fat, st), WholeFiles(fat, st),
           NEW p \in Clusters, NEW s \in Slots, Live(fat, st, p, s),
           NEW C, C = Reach(fat, st, st[p].table[s].cluster),
           NEW fat2, fat2 = FreedTable(fat, C), NEW st2, st2 = Erased(st, C, p, s)
    PROVE  /\ DirsOf(fat2, st2) = DirsOf(fat, st) \ C
           /\ p \in DirsOf(fat, st) \ C
           /\ st[p].table[s] \in Entries /\ KeyOf(st[p].table[s]) \in Keys
           /\ NodeOf(fat, st, p, KeyOf(st[p].table[s])) = EntryNode(fat, st, st[p].table[s])
           /\ \A q \in DirsOf(fat, st) \ C, k \in Keys :
                 NodeOf(fat2, st2, q, k) = IF q = p /\ k = KeyOf(st[p].table[s]) THEN Missing
                                           ELSE NodeOf(fat, st, q, k)
<1> DEFINE e == st[p].table[s]
<1>1. Types(fat, st) /\ Sound(fat2, st2)
  BY EraseSound DEF Sound
<1>2. C \subseteq Clusters /\ p \notin C
  BY FreedIsApart, ClusterFacts DEF Held, ROOT_CLUSTER_NUMBER
<1>3. /\ \A c \in Clusters : fat2[c] = IF c \in C THEN EMPTY ELSE fat[c]
      /\ \A c \in Clusters : (st2[c].kind = "dir") = (c \notin C /\ st[c].kind = "dir")
      /\ \A d \in Clusters, i \in Slots :
            Live(fat2, st2, d, i) <=>
               d \notin C /\ Live(fat, st, d, i) /\ ~(d = p /\ i = s)
      /\ \A d \in Clusters, i \in Slots :
            Live(fat2, st2, d, i) => st2[d].table[i] = st[d].table[i]
  <2>1. C \in SUBSET Clusters
    BY <1>2
  <2>2. IsErased(fat, st, p, s, C, fat2, st2)
    BY <1>1, <1>2, <2>1, AfterErase
  <2> QED BY <2>2 DEF IsErased
<1>4. e \in Entries
  BY <1>1, LiveEntry
<1>5. KeyOf(e) \in Keys /\ \A k \in Keys : (e.name = k[1] /\ e.ext = k[2]) <=> k = KeyOf(e)
  BY <1>4, KeyFacts
<1>6. DirsOf(fat2, st2) = DirsOf(fat, st) \ C
  <2>1. ASSUME NEW c \in Clusters
        PROVE  IsDir(fat2, st2, c) <=> c \notin C /\ IsDir(fat, st, c)
    BY <1>3 DEF IsDir, IsParent
  <2> QED BY <2>1 DEF DirsOf
<1>7. p \in DirsOf(fat, st) \ C
  BY <1>2 DEF DirsOf, Live
<1>8. Holds(fat, st, p, s, KeyOf(e))
  BY <1>5 DEF Holds
<1>9. NodeOf(fat, st, p, KeyOf(e)) = EntryNode(fat, st, e)
  BY <1>5, <1>8, NodeFacts
<1>10. ASSUME NEW q \in DirsOf(fat, st) \ C, NEW k \in Keys
       PROVE  NodeOf(fat2, st2, q, k) = IF q = p /\ k = KeyOf(e) THEN Missing
                                        ELSE NodeOf(fat, st, q, k)
  <2>1. q \in Clusters /\ q \notin C
    BY DEF DirsOf
  <2>2. CASE q = p /\ k = KeyOf(e)
    <3>1. ASSUME NEW t \in Slots, Holds(fat2, st2, q, t, k) PROVE FALSE
      <4>1. /\ Live(fat, st, q, t) /\ t # s
            /\ st[q].table[t].name = k[1] /\ st[q].table[t].ext = k[2]
        BY <1>3, <2>1, <2>2, <3>1 DEF Holds
      <4>2. st[p].table[t].name = e.name /\ st[p].table[t].ext = e.ext
        BY <1>5, <2>2, <4>1
      <4> QED BY <2>2, <4>1, <4>2 DEF Sound, UniqueKeys
    <3> QED BY <1>1, <2>1, <2>2, <3>1, NodeFacts
  <2>3. CASE ~(q = p /\ k = KeyOf(e))
    <3>1. \A t \in Slots : Holds(fat2, st2, q, t, k) <=> Holds(fat, st, q, t, k)
      <4> SUFFICES ASSUME NEW t \in Slots
                   PROVE  Holds(fat2, st2, q, t, k) <=> Holds(fat, st, q, t, k)
        OBVIOUS
      <4>1. CASE q = p /\ t = s
        BY <1>3, <1>5, <2>1, <2>3, <4>1 DEF Holds
      <4>2. CASE ~(q = p /\ t = s)
        BY <1>3, <2>1, <4>2 DEF Holds
      <4> QED BY <4>1, <4>2
    <3>2. CASE \A t \in Slots : ~Holds(fat, st, q, t, k)
      <4>1. NodeOf(fat, st, q, k) = Missing
        BY <2>1, <3>2, NodeFacts
      <4>2. NodeOf(fat2, st2, q, k) = Missing
        BY <1>1, <2>1, <3>1, <3>2, NodeFacts
      <4> QED BY <2>3, <4>1, <4>2
    <3>3. ASSUME NEW t \in Slots, Holds(fat, st, q, t, k)
          PROVE  NodeOf(fat2, st2, q, k) = NodeOf(fat, st, q, k)
      <4>1. NodeOf(fat, st, q, k) = EntryNode(fat, st, st[q].table[t])
        BY <2>1, <3>3, NodeFacts
      <4>2. NodeOf(fat2, st2, q, k) = EntryNode(fat2, st2, st2[q].table[t])
        BY <1>1, <2>1, <3>1, <3>3, NodeFacts
      <4>3. Live(fat2, st2, q, t) /\ Live(fat, st, q, t) /\ st2[q].table[t] = st[q].table[t]
        BY <1>3, <2>1, <3>1, <3>3 DEF Holds
      <4> DEFINE x == st[q].table[t]
      <4>4. ASSUME ~x.folder
            PROVE  \E f, v : FileChain(fat, st, x, f, v) /\ FileChain(fat2, st2, x, f, v)
        <5>1. PICK f, v : v \in Values /\ FileChain(fat, st, x, f, v)
          BY <2>1, <4>3, <4>4 DEF WholeFiles
        <5>2. FileChain(fat2, st2, x, f, v)
          BY <2>1, <4>3, <5>1, EraseChain
        <5> QED BY <5>1, <5>2
      <4> HIDE DEF x
      <4>5. EntryNode(fat2, st2, x) = EntryNode(fat, st, x)
        BY <4>4, SameNode
      <4> QED BY <4>1, <4>2, <4>3, <4>5 DEF x
    <3> QED BY <2>3, <3>2, <3>3
  <2> QED BY <2>2, <2>3
<1> QED BY <1>4, <1>5, <1>6, <1>7, <1>9, <1>10

-----------------------------------------------------------------------------
(* The loops of a deletion. *)

\* With whole files no entry leads to cluster 0.
LEMMA EntriesLead ==
    ASSUME NEW fat, NEW st, Sound(fat, st), WholeFiles(fat, st),
           NEW p \in Clusters, NEW s \in Slots, Live(fat, st, p, s)
    PROVE  st[p].table[s].cluster \in DataClusters
<1>1. CASE st[p].table[s].folder
  BY <1>1 DEF Sound, KindsAgree
<1>2. CASE ~st[p].table[s].folder
  <2>1. PICK f, v : FileChain(fat, st, st[p].table[s], f, v)
    BY <1>2 DEF WholeFiles
  <2> DEFINE n == st[p].table[s].size
  <2>2. n \in 1 .. CLUSTER_MAP_SIZE /\ f \in [0 .. n - 1 -> DataClusters]
        /\ f[0] = st[p].table[s].cluster
    BY <2>1 DEF FileChain
  <2> HIDE DEF n
  <2>3. 0 \in 0 .. n - 1
    BY <2>2, FAT32Assumption
  <2> QED BY <2>2, <2>3
<1> QED BY <1>1, <1>2

\* A directory among the clusters in use is one the guard accepts.
LEMMA HeldDirectory ==
    ASSUME NEW fat, NEW st, Sound(fat, st), NEW c \in Held(fat), st[c].kind = "dir"
    PROVE  c \in Clusters /\ IsDir(fat, st, c) /\ fat[c] = EOF
<1>1. CASE c \in DataClusters
  BY <1>1, ClusterFacts DEF Held, Sound, KindsAgree, IsDir, IsParent, EMPTY, ROOT_CLUSTER_NUMBER
<1>2. CASE c \notin DataClusters
  BY <1>2, ClusterFacts DEF Held, Sound, Reserved, IsDir, IsParent, ROOT_CLUSTER_NUMBER
<1> QED BY <1>1, <1>2

\* So a deletion never comes to cluster 0.
LEMMA NeverZero ==
    ASSUME NEW fat, NEW st, Sound(fat, st), WholeFiles(fat, st), NEW h \in Held(fat), h # 0
    PROVE  0 \notin Reach(fat, st, h)
<1> DEFINE C == Reach(fat, st, h)
<1>1. Types(fat, st) /\ Linked(fat, st) /\ h \in Clusters
  BY ClusterFacts DEF Sound, Linked, Held, ROOT_CLUSTER_NUMBER
<1>2. C \subseteq Clusters /\ h \in C /\ Closed(fat, st, C)
  BY <1>1, ReachFacts
<1>3. C \subseteq Held(fat)
  BY <1>1, ReachStep
<1>4. ASSUME NEW c \in C, 0 \in Successors(fat, st, c) PROVE FALSE
  <2>1. c \in Held(fat)
    BY <1>3
  <2>2. st[c].kind = "dir" /\ \E s \in Used(st, c) : Table(st, c)[s].cluster = 0
    BY <1>4 DEF Successors, EMPTY
  <2>3. PICK s \in Used(st, c) : Table(st, c)[s].cluster = 0
    BY <2>2
  <2>4. c \in Clusters /\ IsDir(fat, st, c)
    BY <2>1, <2>2, HeldDirectory
  <2>5. s \in Slots /\ Live(fat, st, c, s) /\ st[c].table[s].cluster = 0
    BY <2>2, <2>3, <2>4 DEF Used, Table, Live
  <2> QED BY <2>4, <2>5, EntriesLead, ClusterFacts
<1>5. Closed(fat, st, C \ {0})
  BY <1>2, <1>4 DEF Closed
<1>6. C \ {0} \in SUBSET Clusters /\ h \in C \ {0}
  BY <1>2
<1>7. C \subseteq C \ {0}
  BY <1>1, <1>5, <1>6, ReachFacts
<1> QED BY <1>7

\* g is the chain of n clusters, none a directory, that the table leads along from
\* g[0] to EOF.
ChainFrom(fat, st, n, g) ==
    /\ n \in 1 .. CLUSTER_MAP_SIZE /\ g \in [0 .. n - 1 -> DataClusters]
    /\ \A k \in 0 .. n - 1 : /\ fat[g[k]] = (IF k = n - 1 THEN EOF ELSE g[k + 1])
                             /\ st[g[k]].kind # "dir"

\* After one turn the rest of the chain is such a chain.
LEMMA ChainAfterTurn ==
    ASSUME NEW fat, NEW st, NEW n, NEW g, ChainFrom(fat, st, n, g), fat[g[0]] \in DataClusters
    PROVE  \E k, h : ChainFrom(fat, st, k, h) /\ h[0] = fat[g[0]]
<1>1. /\ n \in 1 .. CLUSTER_MAP_SIZE /\ g \in [0 .. n - 1 -> DataClusters]
      /\ \A k \in 0 .. n - 1 : /\ fat[g[k]] = (IF k = n - 1 THEN EOF ELSE g[k + 1])
                               /\ st[g[k]].kind # "dir"
  BY DEF ChainFrom
<1>2. CLUSTER_MAP_SIZE \in Nat
  BY FAT32Assumption
<1>3. n # 1
  <2>1. n = 1 => fat[g[0]] = EOF
    BY <1>1, <1>2
  <2> QED BY <2>1, ClusterFacts
<1> DEFINE r == n - 1
           h == [k \in 0 .. r - 1 |-> g[k + 1]]
<1>4. r \in 1 .. CLUSTER_MAP_SIZE /\ \A k \in 0 .. r - 1 : k + 1 \in 0 .. n - 1
  BY <1>1, <1>2, <1>3
<1>5. h \in [0 .. r - 1 -> DataClusters]
  BY <1>1, <1>4
<1>6. ASSUME NEW k \in 0 .. r - 1
      PROVE  fat[h[k]] = (IF k = r - 1 THEN EOF ELSE h[k + 1]) /\ st[h[k]].kind # "dir"
  <2>1. h[k] = g[k + 1] /\ k + 1 \in 0 .. n - 1
    BY <1>4
  <2>2. fat[h[k]] = (IF k + 1 = n - 1 THEN EOF ELSE g[k + 1 + 1]) /\ st[h[k]].kind # "dir"
    BY <1>1, <2>1
  <2>3. k # r - 1 => h[k + 1] = g[k + 1 + 1]
    BY <1>1, <1>2, <1>4
  <2>4. k = r - 1 <=> k + 1 = n - 1
    BY <1>1, <1>2
  <2> QED BY <2>2, <2>3, <2>4
<1>7. h[0] = g[1] /\ fat[g[0]] = g[1]
  BY <1>1, <1>2, <1>3, <1>4
<1>8. ChainFrom(fat, st, r, h)
  <2> HIDE DEF r, h
  <2> QED BY <1>4, <1>5, <1>6 DEF ChainFrom
<1> QED BY <1>7, <1>8

\* Every cluster in use is a directory or on the chain of a file, and the loop
\* along the table from it ends.
LEMMA WalkFromUsed ==
    ASSUME NEW fat, NEW st, Sound(fat, st), WholeFiles(fat, st),
           NEW c \in DataClusters, fat[c] # EMPTY
    PROVE  WalkEnds(fat, c)
<1> DEFINE OnChain(d) == \E n, g : ChainFrom(fat, st, n, g) /\ g[0] = d
           D == {d \in Clusters : d = 0 \/ IsDir(fat, st, d) \/ OnChain(d)}
<1>1. Types(fat, st) /\ Linked(fat, st) /\ Reserved(fat, st)
  BY DEF Sound, Linked
<1>2. ROOT_CLUSTER_NUMBER \in Held(fat) /\ ROOT_CLUSTER_NUMBER \in D /\ 0 \in D
  BY <1>1, ClusterFacts DEF Held, Reserved, ROOT_CLUSTER_NUMBER
<1>3. ASSUME NEW d \in D \cap Held(fat), NEW i \in Indices, Ref(fat, st, d, i) \in DataClusters
      PROVE  Ref(fat, st, d, i) \in D
  <2>1. CASE IsDir(fat, st, d)
    <3>1. i # 0
      BY <1>3, <2>1, ClusterFacts DEF Ref, IsDir, IsParent
    <3>2. i \in Slots /\ Live(fat, st, d, i) /\ Ref(fat, st, d, i) = st[d].table[i].cluster
      BY <1>3, <3>1, ClusterFacts DEF Ref, Indices, EMPTY
    <3> DEFINE e == st[d].table[i]
    <3>3. CASE e.folder
      <4>1. e.cluster \in DataClusters /\ st[e.cluster].kind = "dir" /\ fat[e.cluster] # EMPTY
        BY <3>2, <3>3 DEF Sound, KindsAgree, RefsInside
      <4>2. e.cluster \in Held(fat)
        BY <4>1 DEF Held
      <4> QED BY <3>2, <4>1, <4>2, HeldDirectory
    <3>4. CASE ~e.folder
      <4>1. PICK f, v : FileChain(fat, st, e, f, v)
        BY <3>2, <3>4 DEF WholeFiles
      <4>2. \A k \in Nat : Piece(v, k).kind # "dir"
        BY DEF Piece
      <4>3. ChainFrom(fat, st, e.size, f) /\ f[0] = e.cluster
        <5>1. /\ e.size \in 1 .. CLUSTER_MAP_SIZE /\ f \in [0 .. e.size - 1 -> DataClusters]
              /\ f[0] = e.cluster
              /\ \A k \in 0 .. e.size - 1 :
                    fat[f[k]] = (IF k = e.size - 1 THEN EOF ELSE f[k + 1]) /\ st[f[k]] = Piece(v, k)
          BY <4>1 DEF FileChain
        <5>2. \A k \in 0 .. e.size - 1 : st[f[k]].kind # "dir"
          BY <4>2, <5>1
        <5> QED BY <5>1, <5>2 DEF ChainFrom
      <4>4. OnChain(e.cluster)
        BY <4>3
      <4> QED BY <1>3, <3>2, <4>4, ClusterFacts
    <3> QED BY <3>3, <3>4
  <2>2. CASE d = 0
    BY <1>1, <1>3, <2>2, ClusterFacts DEF Reserved, Ref, Live, IsDir, EMPTY
  <2>3. CASE OnChain(d)
    <3>1. PICK n, g : ChainFrom(fat, st, n, g) /\ g[0] = d
      BY <2>3
    <3>2. st[d].kind # "dir"
      <4>1. 0 \in 0 .. n - 1
        BY <3>1, FAT32Assumption DEF ChainFrom
      <4> QED BY <3>1, <4>1 DEF ChainFrom
    <3>3. i = 0 /\ Ref(fat, st, d, i) = fat[d]
      BY <1>3, <3>2, ClusterFacts DEF Ref, Live, IsDir, EMPTY
    <3>4. \E k, h : ChainFrom(fat, st, k, h) /\ h[0] = fat[d]
      BY <1>3, <3>1, <3>3, ChainAfterTurn
    <3> QED BY <1>3, <3>3, <3>4, ClusterFacts
  <2> QED BY <2>1, <2>2, <2>3
<1>4. c \in Reach(fat, st, ROOT_CLUSTER_NUMBER)
  BY DEF Sound, NoneLost
<1>5. c \in D
  <2>1. D \in SUBSET Clusters
    OBVIOUS
  <2> HIDE DEF D
  <2> QED BY <1>1, <1>2, <1>3, <1>4, <2>1, ReachMin
<1>6. \E n, g :
         /\ n \in 1 .. CLUSTER_MAP_SIZE /\ g \in [0 .. n - 1 -> DataClusters] /\ g[0] = c
         /\ \A k \in 0 .. n - 1 : fat[g[k]] = IF k = n - 1 THEN EOF ELSE g[k + 1]
  <2>1. CASE IsDir(fat, st, c)
    <3> DEFINE g == [k \in 0 .. 1 - 1 |-> c]
    <3>1. 1 \in 1 .. CLUSTER_MAP_SIZE /\ g \in [0 .. 1 - 1 -> DataClusters] /\ g[0] = c
      BY FAT32Assumption
    <3>2. \A k \in 0 .. 1 - 1 : fat[g[k]] = IF k = 1 - 1 THEN EOF ELSE g[k + 1]
      BY <2>1 DEF IsDir, IsParent
    <3> HIDE DEF g
    <3> QED BY <3>1, <3>2
  <2>2. CASE OnChain(c)
    BY <2>2 DEF ChainFrom
  <2> QED BY <1>5, <2>1, <2>2, ClusterFacts
<1>7. PICK n, g :
         /\ n \in 1 .. CLUSTER_MAP_SIZE /\ g \in [0 .. n - 1 -> DataClusters] /\ g[0] = c
         /\ \A k \in 0 .. n - 1 : fat[g[k]] = IF k = n - 1 THEN EOF ELSE g[k + 1]
  BY <1>6
<1>8. n \in DOMAIN Walk(fat, c) /\ Walk(fat, c)[n] = EOF
  BY <1>7, WalkAlong
<1> HIDE DEF D
<1> QED BY <1>8 DEF WalkEnds, Range

\* The loops of every deletion end.
LEMMA EraseEnds ==
    ASSUME NEW fat, NEW st, Sound(fat, st), WholeFiles(fat, st),
           NEW p \in Clusters, NEW s \in Slots, Live(fat, st, p, s),
           NEW C, C = Reach(fat, st, st[p].table[s].cluster)
    PROVE  LoopsEnd(fat, st, C) /\ 0 \notin C
<1>1. st[p].table[s].cluster \in DataClusters /\ st[p].table[s].cluster \in Held(fat)
  BY EntriesLead, FreedIsApart
<1>2. 0 \notin C
  BY <1>1, NeverZero, ClusterFacts
<1>3. C \subseteq Held(fat) /\ ROOT_CLUSTER_NUMBER \notin C
  BY FreedIsApart
<1>4. \A c \in C : WalkEnds(fat, c)
  BY <1>2, <1>3, WalkFromUsed DEF Held
<1>5. {x \in C \X Slots : /\ Table(st, x[1])[x[2]] # NoEntry
                          /\ Table(st, x[1])[x[2]].cluster = 0} = {}
  <2> SUFFICES ASSUME NEW c \in C, NEW t \in Slots, Table(st, c)[t] # NoEntry,
                      Table(st, c)[t].cluster = 0
               PROVE  FALSE
    OBVIOUS
  <2>1. st[c].kind = "dir" /\ st[c].table[t] # NoEntry /\ st[c].table[t].cluster = 0
    BY DEF Table
  <2>2. c \in Clusters /\ Live(fat, st, c, t)
    BY <1>3, <2>1, HeldDirectory DEF Live
  <2> QED BY <2>1, <2>2, EntriesLead, ClusterFacts
<1>6. Cardinality({}) <= 1
  BY FS_EmptySet
<1> QED BY <1>2, <1>4, <1>5, <1>6 DEF LoopsEnd

-----------------------------------------------------------------------------
(* The steps of the tree. *)

\* FileStore's Below, for the tree T.
ClosedIn(T, S)  == \A f \in S, k \in Keys : T[f][k].kind = "folder" => T[f][k].id \in S
BelowIn(T, h)   == {g \in DOMAIN T : \A S \in SUBSET DOMAIN T : h \in S /\ ClosedIn(T, S) => g \in S}

\* The folders below a folder are the directories that its deletion frees.
LEMMA BelowIs ==
    ASSUME NEW fat, NEW st, Sound(fat, st), NEW h \in DataClusters, fat[h] # EMPTY,
           st[h].kind = "dir", NEW C, C = Reach(fat, st, h)
    PROVE  BelowIn(TreeOf(fat, st), h) = C \cap DirsOf(fat, st)
<1> DEFINE T == TreeOf(fat, st)
           B == DirsOf(fat, st)
<1>1. Linked(fat, st) /\ h \in Held(fat)
  BY DEF Linked, Sound, Held
<1>2. /\ DOMAIN T = B /\ B \subseteq Clusters
      /\ \A f \in B, k \in Keys : T[f][k] = NodeOf(fat, st, f, k)
  BY TreeFacts
<1>3. /\ C \subseteq Held(fat) /\ h \in C
      /\ \A d \in C, i \in Indices : Ref(fat, st, d, i) \in DataClusters => Ref(fat, st, d, i) \in C
  BY <1>1, ReachStep
<1>4. h \in B
  BY <1>1, HeldDirectory DEF DirsOf
<1> HIDE DEF T
<1>5. ASSUME NEW g \in C \cap B, NEW S \in SUBSET B, h \in S, ClosedIn(T, S)
      PROVE  g \in S
  <2> DEFINE D == S \cup {c \in Clusters : st[c].kind # "dir"}
  <2>1. D \in SUBSET Clusters /\ h \in D /\ 0 \in D
    BY <1>2, <1>5, ClusterFacts DEF Sound, Reserved
  <2>2. ASSUME NEW d \in D \cap Held(fat), NEW i \in Indices, Ref(fat, st, d, i) \in DataClusters
        PROVE  Ref(fat, st, d, i) \in D
    <3>1. CASE st[d].kind = "dir"
      <4>1. d \in S /\ d \in B /\ d \in Clusters /\ fat[d] = EOF
        BY <1>2, <3>1, HeldDirectory
      <4>2. i \in Slots /\ Live(fat, st, d, i) /\ Ref(fat, st, d, i) = st[d].table[i].cluster
        BY <2>2, <4>1, ClusterFacts DEF Ref, Indices, EMPTY
      <4> DEFINE e == st[d].table[i]
      <4>3. e \in Entries
        BY <4>1, <4>2, LiveEntry DEF Sound
      <4>4. CASE e.folder
        <5>1. KeyOf(e) \in Keys /\ e.name = KeyOf(e)[1] /\ e.ext = KeyOf(e)[2]
          BY <4>3, KeyFacts
        <5>2. Holds(fat, st, d, i, KeyOf(e))
          BY <4>2, <5>1 DEF Holds
        <5>3. T[d][KeyOf(e)] = EntryNode(fat, st, e)
          BY <1>2, <4>1, <4>2, <5>1, <5>2, NodeFacts
        <5>4. T[d][KeyOf(e)] = [kind |-> "folder", id |-> e.cluster]
          BY <4>4, <5>3 DEF EntryNode
        <5>5. T[d][KeyOf(e)].kind = "folder" /\ T[d][KeyOf(e)].id = e.cluster
          BY <5>4
        <5> QED BY <1>5, <4>1, <4>2, <5>1, <5>5 DEF ClosedIn
      <4>5. CASE ~e.folder
        BY <2>2, <4>1, <4>2, <4>5, ClusterFacts DEF Sound, KindsAgree
      <4> QED BY <4>4, <4>5
    <3>2. CASE st[d].kind # "dir"
      <4>1. d \in Clusters
        BY <2>1
      <4>2. Ref(fat, st, d, i) = fat[d]
        BY <2>2, <3>2, ClusterFacts DEF Ref, Live, IsDir, EMPTY
      <4> QED BY <2>2, <4>1, <4>2, ClusterFacts DEF Sound, KindsAgree
    <3> QED BY <3>1, <3>2
  <2>3. C \subseteq D
    <3> HIDE DEF D
    <3> QED BY <1>1, <2>1, <2>2, ReachMin
  <2> QED BY <2>3 DEF DirsOf, IsDir
<1>6. C \cap B \in SUBSET B /\ h \in C \cap B /\ ClosedIn(T, C \cap B)
  <2>1. ASSUME NEW f \in C \cap B, NEW k \in Keys, T[f][k].kind = "folder"
        PROVE  T[f][k].id \in C \cap B
    <3>1. f \in Clusters /\ T[f][k] = NodeOf(fat, st, f, k)
      BY <1>2
    <3>2. T[f][k] # Missing
      BY <2>1 DEF Missing
    <3>3. PICK s \in Slots : Holds(fat, st, f, s, k)
      BY <3>1, <3>2, NodeFacts
    <3> DEFINE e == st[f].table[s]
    <3>4. T[f][k] = EntryNode(fat, st, e) /\ Live(fat, st, f, s)
      BY <3>1, <3>3, NodeFacts DEF Holds
    <3>5. e \in Entries
      BY <3>1, <3>4, LiveEntry DEF Sound
    <3>6. e.folder /\ T[f][k].id = e.cluster
      <4> HIDE DEF e
      <4>1. CASE e.folder
        BY <3>4, <4>1 DEF EntryNode
      <4>2. CASE ~e.folder
        BY <2>1, <3>4, <4>2 DEF EntryNode
      <4> QED BY <4>1, <4>2
    <3>7. e.cluster \in DataClusters /\ st[e.cluster].kind = "dir"
      BY <3>1, <3>4, <3>6 DEF Sound, KindsAgree
    <3>8. s \in Indices /\ Ref(fat, st, f, s) = e.cluster
      BY <3>4, ClusterFacts DEF Indices, Ref
    <3>9. e.cluster \in C
      BY <1>3, <3>7, <3>8
    <3>10. e.cluster \in B
      BY <1>3, <3>7, <3>9, HeldDirectory DEF DirsOf
    <3> QED BY <3>6, <3>9, <3>10
  <2> QED BY <1>3, <1>4, <2>1 DEF ClosedIn
<1> HIDE DEF B
<1>7. BelowIn(T, h) = C \cap B
  BY <1>2, <1>5, <1>6 DEF BelowIn
<1> QED BY <1>7 DEF T, B

\* T2 is T with the file x under the missing key K of folder p.
FileStored(T, p, K, x, T2) ==
    /\ p \in DOMAIN T /\ K \in Keys /\ T[p][K] = Missing
    /\ T2 = [T EXCEPT ![p][K] = x]

\* T2 is T with the new folder c under the missing key K of folder p.
FolderMade(T, p, K, c, T2) ==
    /\ p \in DOMAIN T /\ K \in Keys /\ T[p][K] = Missing
    /\ c \in DataClusters /\ c \notin DOMAIN T
    /\ T2 = [g \in DOMAIN T \cup {c} |->
               IF g = c THEN [k \in Keys |-> Missing]
               ELSE IF g = p THEN [T[p] EXCEPT ![K] = [kind |-> "folder", id |-> c]]
               ELSE T[g]]

\* A file's entry added to the clusters is a file added to the tree.
LEMMA AddFileTree ==
    ASSUME NEW fat, NEW st, Sound(fat, st), WholeFiles(fat, st),
           NEW p \in Clusters, NEW s \in Slots,
           IsDir(fat, st, p), ~Live(fat, st, p, s), NEW e, NEW m, NEW a, NEW b,
           NEW fat2, NEW st2, Added(fat, st, p, s, e, m, a, b, fat2, st2),
           NewKey(fat, st, p, e), ~e.folder
    PROVE  FileStored(TreeOf(fat, st), p, KeyOf(e), EntryNode(fat2, st2, e), TreeOf(fat2, st2))
<1> DEFINE T  == TreeOf(fat, st)
           T2 == TreeOf(fat2, st2)
           K  == KeyOf(e)
           x  == EntryNode(fat2, st2, e)
<1>1. /\ DirsOf(fat2, st2) = DirsOf(fat, st)
      /\ NodeOf(fat, st, p, K) = Missing
      /\ NodeOf(fat2, st2, p, K) = x
      /\ \A q \in DirsOf(fat, st), k \in Keys :
            ~(q = p /\ k = K) => NodeOf(fat2, st2, q, k) = NodeOf(fat, st, q, k)
  <2>1. DirsOf(fat2, st2) = DirsOf(fat, st) \cup (IF e.folder THEN {e.cluster} ELSE {})
    BY AddNodes
  <2>2. DirsOf(fat2, st2) = DirsOf(fat, st)
    BY <2>1
  <2> QED BY <2>2, AddNodes
<1>2. p \in DirsOf(fat, st)
  BY DEF DirsOf
<1>3. K \in Keys
  BY KeyFacts DEF Added
<1> HIDE DEF K, x
<1>4. T[p][K] = Missing /\ p \in DOMAIN T
  BY <1>1, <1>2, <1>3, TreeFacts
<1>5. T2 = [T EXCEPT ![p][K] = x]
  <2>1. T = [q \in DirsOf(fat, st) |-> [k \in Keys |-> NodeOf(fat, st, q, k)]]
        /\ T2 = [q \in DirsOf(fat, st) |-> [k \in Keys |-> NodeOf(fat2, st2, q, k)]]
    BY <1>1 DEF TreeOf
  <2>2. \A q \in DirsOf(fat, st) : q # p =>
           [k \in Keys |-> NodeOf(fat2, st2, q, k)] = [k \in Keys |-> NodeOf(fat, st, q, k)]
    BY <1>1
  <2>3. [k \in Keys |-> NodeOf(fat2, st2, p, k)]
           = [[k \in Keys |-> NodeOf(fat, st, p, k)] EXCEPT ![K] = x]
    BY <1>1, <1>2
  <2> HIDE DEF T, T2
  <2> QED BY <1>2, <2>1, <2>2, <2>3
<1> QED BY <1>3, <1>4, <1>5 DEF K, x, FileStored

\* A folder's entry and its empty directory are a folder added to the tree.
LEMMA AddFolderTree ==
    ASSUME NEW fat, NEW st, Sound(fat, st), WholeFiles(fat, st),
           NEW p \in Clusters, NEW s \in Slots,
           IsDir(fat, st, p), ~Live(fat, st, p, s), NEW e, NEW m, NEW a, NEW b,
           NEW fat2, NEW st2, Added(fat, st, p, s, e, m, a, b, fat2, st2),
           NewKey(fat, st, p, e), e.folder
    PROVE  FolderMade(TreeOf(fat, st), p, KeyOf(e), e.cluster, TreeOf(fat2, st2))
<1> DEFINE T  == TreeOf(fat, st)
           T2 == TreeOf(fat2, st2)
           K  == KeyOf(e)
           x  == [kind |-> "folder", id |-> e.cluster]
           c  == e.cluster
<1>1. /\ DirsOf(fat2, st2) = DirsOf(fat, st) \cup {c}
      /\ NodeOf(fat, st, p, K) = Missing
      /\ NodeOf(fat2, st2, p, K) = x
      /\ c \in DataClusters /\ c \notin DirsOf(fat, st)
      /\ \A k \in Keys : NodeOf(fat2, st2, c, k) = Missing
      /\ \A q \in DirsOf(fat, st), k \in Keys :
            ~(q = p /\ k = K) => NodeOf(fat2, st2, q, k) = NodeOf(fat, st, q, k)
  <2>1. DirsOf(fat2, st2) = DirsOf(fat, st) \cup (IF e.folder THEN {e.cluster} ELSE {})
    BY AddNodes
  <2>2. DirsOf(fat2, st2) = DirsOf(fat, st) \cup {c}
    BY <2>1
  <2>3. EntryNode(fat2, st2, e) = x
    BY DEF EntryNode
  <2>4. NodeOf(fat2, st2, p, K) = EntryNode(fat2, st2, e)
    BY AddNodes
  <2>5. c \in DataClusters /\ c \notin DirsOf(fat, st)
        /\ \A k \in Keys : NodeOf(fat2, st2, c, k) = Missing
    BY AddNodes
  <2>6. /\ NodeOf(fat, st, p, K) = Missing
        /\ \A q \in DirsOf(fat, st), k \in Keys :
              ~(q = p /\ k = K) => NodeOf(fat2, st2, q, k) = NodeOf(fat, st, q, k)
    BY AddNodes
  <2> HIDE DEF x, K, c
  <2> QED BY <2>2, <2>3, <2>4, <2>5, <2>6
<1>2. p \in DirsOf(fat, st)
  BY DEF DirsOf
<1>3. K \in Keys
  BY KeyFacts DEF Added
<1> HIDE DEF K, x, c
<1>4. T[p][K] = Missing /\ p \in DOMAIN T /\ DOMAIN T = DirsOf(fat, st)
  BY <1>1, <1>2, <1>3, TreeFacts
<1>5. T2 = [g \in DOMAIN T \cup {c} |-> IF g = c THEN [k \in Keys |-> Missing]
                                        ELSE IF g = p THEN [T[p] EXCEPT ![K] = x] ELSE T[g]]
  <2>1. T2 = [g \in DirsOf(fat, st) \cup {c} |-> [k \in Keys |-> NodeOf(fat2, st2, g, k)]]
    BY <1>1 DEF TreeOf
  <2>2. \A q \in DirsOf(fat, st) : q # p => [k \in Keys |-> NodeOf(fat2, st2, q, k)] = T[q]
    BY <1>1, TreeFacts
  <2>3. T[p] = [k \in Keys |-> NodeOf(fat, st, p, k)]
    BY <1>2, TreeFacts
  <2>4. [k \in Keys |-> NodeOf(fat2, st2, p, k)] = [T[p] EXCEPT ![K] = x]
    BY <1>1, <1>2, <2>3
  <2>5. [k \in Keys |-> NodeOf(fat2, st2, c, k)] = [k \in Keys |-> Missing]
    BY <1>1
  <2> HIDE DEF T, T2
  <2> QED BY <1>4, <2>1, <2>2, <2>4, <2>5
<1>6. FolderMade(T, p, K, c, T2)
  <2>1. x = [kind |-> "folder", id |-> c]
    BY DEF x, c
  <2> HIDE DEF T, T2
  <2> QED BY <1>1, <1>3, <1>4, <1>5, <2>1 DEF FolderMade
<1> QED BY <1>6 DEF K, c

\* T2 is T without the file under key K of folder p.
FileRemoved(T, p, K, T2) ==
    /\ p \in DOMAIN T /\ K \in Keys /\ T[p][K].kind = "file"
    /\ T2 = [T EXCEPT ![p][K] = Missing]

\* T2 is T without the folder under key K of folder p and what is below it.
FolderRemoved(T, p, K, T2) ==
    /\ p \in DOMAIN T /\ K \in Keys /\ T[p][K].kind = "folder"
    /\ T2 = [g \in DOMAIN T \ BelowIn(T, T[p][K].id) |->
               IF g = p THEN [T[p] EXCEPT ![K] = Missing] ELSE T[g]]

\* A file's entry deleted is the file deleted from the tree, and no folder with
\* it: its chain holds no directory.
LEMMA EraseFileTree ==
    ASSUME NEW fat, NEW st, Sound(fat, st), WholeFiles(fat, st),
           NEW p \in Clusters, NEW s \in Slots, Live(fat, st, p, s), ~st[p].table[s].folder,
           NEW C, C = Reach(fat, st, st[p].table[s].cluster),
           NEW fat2, fat2 = FreedTable(fat, C), NEW st2, st2 = Erased(st, C, p, s)
    PROVE  FileRemoved(TreeOf(fat, st), p, KeyOf(st[p].table[s]), TreeOf(fat2, st2))
<1> DEFINE T  == TreeOf(fat, st)
           T2 == TreeOf(fat2, st2)
           e  == st[p].table[s]
           K  == KeyOf(e)
           D  == {c \in Clusters : st[c].kind # "dir"}
<1>1. /\ DirsOf(fat2, st2) = DirsOf(fat, st) \ C
      /\ p \in DirsOf(fat, st) \ C
      /\ e \in Entries /\ K \in Keys
      /\ NodeOf(fat, st, p, K) = EntryNode(fat, st, e)
      /\ \A q \in DirsOf(fat, st) \ C, k \in Keys :
            NodeOf(fat2, st2, q, k) = IF q = p /\ k = K THEN Missing ELSE NodeOf(fat, st, q, k)
  <2>1. /\ DirsOf(fat2, st2) = DirsOf(fat, st) \ C
        /\ p \in DirsOf(fat, st) \ C
    BY EraseNodes
  <2>2. e \in Entries /\ K \in Keys /\ NodeOf(fat, st, p, K) = EntryNode(fat, st, e)
    BY EraseNodes
  <2>3. \A q \in DirsOf(fat, st) \ C, k \in Keys :
           NodeOf(fat2, st2, q, k) = IF q = p /\ k = K THEN Missing ELSE NodeOf(fat, st, q, k)
    BY EraseNodes
  <2> HIDE DEF e, K
  <2> QED BY <2>1, <2>2, <2>3
<1>2. C \subseteq D
  <2>1. Linked(fat, st) /\ e.cluster \in Held(fat)
    BY FreedIsApart DEF Linked, Sound
  <2>2. D \in SUBSET Clusters /\ 0 \in D /\ e.cluster \in D
    BY <1>1, ClusterFacts DEF Sound, Reserved, KindsAgree, Entries
  <2>3. ASSUME NEW d \in D \cap Held(fat), NEW i \in Indices, Ref(fat, st, d, i) \in DataClusters
        PROVE  Ref(fat, st, d, i) \in D
    <3>1. d \in Clusters /\ st[d].kind # "dir"
      OBVIOUS
    <3>2. Ref(fat, st, d, i) = fat[d]
      BY <2>3, <3>1, ClusterFacts DEF Ref, Live, IsDir, EMPTY
    <3> QED BY <2>3, <3>1, <3>2, ClusterFacts DEF Sound, KindsAgree
  <2> HIDE DEF D
  <2> QED BY <2>1, <2>2, <2>3, ReachMin
<1>3. DirsOf(fat, st) \ C = DirsOf(fat, st)
  BY <1>2 DEF DirsOf, IsDir
<1>4. EntryNode(fat, st, e).kind = "file"
  BY DEF EntryNode
<1> HIDE DEF e, K, D
<1>5. p \in DOMAIN T /\ T[p][K] = EntryNode(fat, st, e) /\ T[p][K].kind = "file"
  <2>1. p \in DirsOf(fat, st) /\ K \in Keys
    BY <1>1
  <2>2. p \in DOMAIN T /\ T[p][K] = NodeOf(fat, st, p, K)
    BY <2>1, TreeFacts
  <2> HIDE DEF T
  <2> QED BY <1>1, <1>4, <2>2
<1>6. T2 = [T EXCEPT ![p][K] = Missing]
  <2>1. T = [q \in DirsOf(fat, st) |-> [k \in Keys |-> NodeOf(fat, st, q, k)]]
        /\ T2 = [q \in DirsOf(fat, st) |-> [k \in Keys |-> NodeOf(fat2, st2, q, k)]]
    BY <1>1, <1>3 DEF TreeOf
  <2>2. \A q \in DirsOf(fat, st) : q # p =>
           [k \in Keys |-> NodeOf(fat2, st2, q, k)] = [k \in Keys |-> NodeOf(fat, st, q, k)]
    BY <1>1, <1>3
  <2>3. [k \in Keys |-> NodeOf(fat2, st2, p, k)]
           = [[k \in Keys |-> NodeOf(fat, st, p, k)] EXCEPT ![K] = Missing]
    BY <1>1
  <2> HIDE DEF T, T2
  <2> QED BY <1>1, <2>1, <2>2, <2>3
<1>7. FileRemoved(T, p, K, T2)
  <2> HIDE DEF T, T2
  <2> QED BY <1>1, <1>5, <1>6 DEF FileRemoved
<1> QED BY <1>7 DEF K, e

\* A folder's entry deleted is the folder deleted with everything below it.
LEMMA EraseFolderTree ==
    ASSUME NEW fat, NEW st, Sound(fat, st), WholeFiles(fat, st),
           NEW p \in Clusters, NEW s \in Slots, Live(fat, st, p, s), st[p].table[s].folder,
           NEW C, C = Reach(fat, st, st[p].table[s].cluster),
           NEW fat2, fat2 = FreedTable(fat, C), NEW st2, st2 = Erased(st, C, p, s)
    PROVE  FolderRemoved(TreeOf(fat, st), p, KeyOf(st[p].table[s]), TreeOf(fat2, st2))
<1> DEFINE T  == TreeOf(fat, st)
           T2 == TreeOf(fat2, st2)
           e  == st[p].table[s]
           K  == KeyOf(e)
<1>1. /\ DirsOf(fat2, st2) = DirsOf(fat, st) \ C
      /\ p \in DirsOf(fat, st) \ C
      /\ e \in Entries /\ K \in Keys
      /\ NodeOf(fat, st, p, K) = EntryNode(fat, st, e)
      /\ \A q \in DirsOf(fat, st) \ C, k \in Keys :
            NodeOf(fat2, st2, q, k) = IF q = p /\ k = K THEN Missing ELSE NodeOf(fat, st, q, k)
  <2>1. /\ DirsOf(fat2, st2) = DirsOf(fat, st) \ C
        /\ p \in DirsOf(fat, st) \ C
    BY EraseNodes
  <2>2. e \in Entries /\ K \in Keys /\ NodeOf(fat, st, p, K) = EntryNode(fat, st, e)
    BY EraseNodes
  <2>3. \A q \in DirsOf(fat, st) \ C, k \in Keys :
           NodeOf(fat2, st2, q, k) = IF q = p /\ k = K THEN Missing ELSE NodeOf(fat, st, q, k)
    BY EraseNodes
  <2> HIDE DEF e, K
  <2> QED BY <2>1, <2>2, <2>3
<1>2. e.cluster \in DataClusters /\ fat[e.cluster] # EMPTY /\ st[e.cluster].kind = "dir"
  <2>1. e.cluster \in DataClusters /\ st[e.cluster].kind = "dir"
    BY DEF Sound, KindsAgree
  <2>2. e.cluster \in Held(fat)
    BY FreedIsApart
  <2> QED BY <2>1, <2>2, ClusterFacts DEF Held, ROOT_CLUSTER_NUMBER
<1>3. BelowIn(T, e.cluster) = C \cap DirsOf(fat, st)
  BY <1>2, BelowIs
<1>4. EntryNode(fat, st, e) = [kind |-> "folder", id |-> e.cluster]
  BY DEF EntryNode
<1> HIDE DEF e, K
<1>5. p \in DOMAIN T /\ T[p][K] = [kind |-> "folder", id |-> e.cluster]
      /\ DOMAIN T = DirsOf(fat, st)
  <2>1. p \in DirsOf(fat, st) /\ K \in Keys
    BY <1>1
  <2>2. DOMAIN T = DirsOf(fat, st) /\ T[p][K] = NodeOf(fat, st, p, K)
    BY <2>1, TreeFacts
  <2> HIDE DEF T
  <2> QED BY <1>1, <1>4, <2>1, <2>2
<1>6. T2 = [g \in DOMAIN T \ BelowIn(T, e.cluster) |->
              IF g = p THEN [T[p] EXCEPT ![K] = Missing] ELSE T[g]]
  <2>1. T2 = [g \in DirsOf(fat, st) \ C |-> [k \in Keys |-> NodeOf(fat2, st2, g, k)]]
    BY <1>1 DEF TreeOf
  <2>2. \A q \in DirsOf(fat, st) \ C : q # p => [k \in Keys |-> NodeOf(fat2, st2, q, k)] = T[q]
    BY <1>1, TreeFacts
  <2>3. T[p] = [k \in Keys |-> NodeOf(fat, st, p, k)]
    BY <1>1, TreeFacts
  <2>4. [k \in Keys |-> NodeOf(fat2, st2, p, k)] = [T[p] EXCEPT ![K] = Missing]
    BY <1>1, <2>3
  <2>5. DOMAIN T \ BelowIn(T, e.cluster) = DirsOf(fat, st) \ C
    BY <1>3, <1>5
  <2> HIDE DEF T, T2
  <2> QED BY <2>1, <2>2, <2>4, <2>5
<1>7. T[p][K].kind = "folder" /\ T[p][K].id = e.cluster
  BY <1>5
<1> HIDE DEF T, T2
<1>8. T2 = [g \in DOMAIN T \ BelowIn(T, T[p][K].id) |->
              IF g = p THEN [T[p] EXCEPT ![K] = Missing] ELSE T[g]]
  BY <1>6, <1>7
<1>9. FolderRemoved(T, p, K, T2)
  BY <1>1, <1>5, <1>7, <1>8 DEF FolderRemoved
<1> QED BY <1>9 DEF K, e, T, T2

-----------------------------------------------------------------------------
(* The operations. *)

\* What the refinement adds to the driver's invariant: with room, files are whole,
\* and a disk once formatted keeps its boot signature and is never formatted again.
RoomInv ==
    /\ mounted => WholeFiles(fat_table, storage) /\ signature
    /\ ~mounted => ~signature /\ storage[ROOT_CLUSTER_NUMBER].kind # "dir"

\* A step of FileStore, or none.
TreeStep ==
    \/ Tree' = Tree
    \/ \E f \in DOMAIN Tree, k \in Keys :
          \/ \E v \in Values, n \in Sizes :
                FS!Store(f, k, [kind |-> "file", data |-> [j \in 0 .. n - 1 |-> Piece(v, j)]])
          \/ \E id \in DataClusters : FS!MakeFolder(f, k, id)
          \/ FS!RemoveFile(f, k)
          \/ FS!RemoveFolder(f, k)
          \/ \E g \in DOMAIN Tree, l \in Keys : FS!CopyOver(f, k, g, l)

\* What every operation keeps.
Kept == mounted' /\ signature' /\ TreeStep

LEMMA TreesAre ==
    ASSUME DriverInv, mounted, DriverInv', mounted'
    PROVE  Tree = TreeOf(fat_table, storage) /\ Tree' = TreeOf(fat_table', storage')
<1>1. (DriverInv /\ mounted => Tree = TreeOf(fat_table, storage))'
  BY TreeIs, PTL
<1> QED BY <1>1, TreeIs

\* A deletion removes one file, or one folder with what is below it.
LEMMA EraseKept ==
    ASSUME DriverInv, RoomInv, mounted, DriverInv', NEW p \in Parents, IsParent(fat_table, p),
           NEW s \in Used(storage, p),
           Erase(Reach(fat_table, storage, Table(storage, p)[s].cluster), p, s)
    PROVE  Kept
<1> DEFINE fat == fat_table
           st  == storage
           e   == st[p].table[s]
           C   == Reach(fat, st, e.cluster)
<1>1. Sound(fat, st) /\ WholeFiles(fat, st) /\ signature
  BY DEF DriverInv, RoomInv
<1>2. p \in Clusters /\ s \in Slots /\ Live(fat, st, p, s) /\ Table(st, p) = st[p].table
  BY ParentFacts DEF Used
<1>3. LoopsEnd(fat, st, C) /\ 0 \notin C
  BY <1>1, <1>2, EraseEnds
<1>4. Save(FreedTable(fat, C), Erased(st, C, p, s), C)
  BY <1>2, <1>3 DEF Erase
<1>5. /\ mounted' /\ signature'
      /\ fat_table' = FreedTable(fat, C) /\ storage' = Erased(st, C, p, s)
  BY <1>1, <1>3, <1>4 DEF Save
<1> DEFINE T == TreeOf(fat, st)
           K == KeyOf(e)
<1>6. Tree = T /\ Tree' = TreeOf(fat_table', storage')
  BY <1>5, TreesAre
<1>7. CASE ~e.folder
  <2>1. FileRemoved(T, p, K, TreeOf(fat_table', storage'))
    BY <1>1, <1>2, <1>5, <1>7, EraseFileTree
  <2> HIDE DEF T, K
  <2>2. FS!RemoveFile(p, K)
    BY <1>6, <2>1 DEF FileRemoved, FS!RemoveFile, FS!IsFile, FS!Missing, Missing
  <2> QED BY <1>5, <1>6, <2>1, <2>2 DEF Kept, TreeStep, FileRemoved
<1>8. CASE e.folder
  <2>1. FolderRemoved(T, p, K, TreeOf(fat_table', storage'))
    BY <1>1, <1>2, <1>5, <1>8, EraseFolderTree
  <2> HIDE DEF T, K
  <2>2. FS!Below(Tree[p][K].id) = BelowIn(T, T[p][K].id)
    BY <1>6 DEF FS!Below, FS!Closed, FS!IsFolder, BelowIn, ClosedIn
  <2>3. FS!RemoveFolder(p, K)
    BY <1>6, <2>1, <2>2 DEF FolderRemoved, FS!RemoveFolder, FS!IsFolder, FS!Missing, Missing
  <2> QED BY <1>5, <1>6, <2>1, <2>3 DEF Kept, TreeStep, FolderRemoved
<1> QED BY <1>7, <1>8

\* A file of n pieces that fits is in the tree once FileAdded has run.
LEMMA FileAddedTree ==
    ASSUME NEW fat, NEW st, Sound(fat, st), WholeFiles(fat, st), NEW p \in Clusters,
           st[p].kind = "dir", NEW name \in Names, NEW ext \in Exts,
           WriteCheck(fat, st, p, name, ext) = 0, ~FullDisk,
           NEW n \in Nat, n # 0, Fits(fat, n), NEW v \in Values,
           NEW data, data = [k \in 0 .. n - 1 |-> Piece(v, k)],
           NEW new, new = FileAdded(fat, st, p, name, ext, data)
    PROVE  FileStored(TreeOf(fat, st), p, <<name, ext>>, [kind |-> "file", data |-> data],
                      TreeOf(new.fat, new.st))
<1>1. data \in [0 .. n - 1 -> Blocks] /\ \A k \in 0 .. n - 1 : data[k] = Piece(v, k)
  BY BlockFacts
<1>2. \A k \in 0 .. n - 1 : data[k].kind # "dir"
  BY <1>1, BlockFacts
<1>3. WritesFile(fat, st, p, name, ext, n, data, new)
  BY <1>1, <1>2, FileAddedAdds
<1>4. PICK s, e, m, a :
         /\ s \in Slots /\ e \in Entries /\ m \in Nat
         /\ IsDir(fat, st, p) /\ ~Live(fat, st, p, s) /\ NewKey(fat, st, p, e)
         /\ e.name = name /\ e.ext = ext /\ ~e.folder /\ e.size = n
         /\ m <= Cardinality(FreeClusters(fat))
         /\ n <= Cardinality(FreeClusters(fat)) => m = n
         /\ Added(fat, st, p, s, e, m, a, data, new.fat, new.st)
  BY <1>3 DEF WritesFile
<1>5. Cardinality(FreeClusters(fat)) \in Nat /\ Cardinality(FreeClusters(fat)) <= CLUSTER_MAP_SIZE
  <2>1. 3 \in Int /\ CLUSTER_MAP_SIZE - 1 \in Int /\ CLUSTER_MAP_SIZE > 3 /\ CLUSTER_MAP_SIZE \in Nat
    BY FAT32Assumption
  <2>2. Cardinality(DataClusters) = CLUSTER_MAP_SIZE - 3
    <3>1. Cardinality(DataClusters) = IF 3 > CLUSTER_MAP_SIZE - 1 THEN 0
                                      ELSE (CLUSTER_MAP_SIZE - 1) - 3 + 1
      BY <2>1, FS_Interval DEF DataClusters
    <3> QED BY <2>1, <3>1
  <2>3. /\ Cardinality(FreeClusters(fat)) <= Cardinality(DataClusters)
        /\ Cardinality(FreeClusters(fat)) \in Nat
    BY FreeFacts, ClusterFacts, FS_Subset, FS_CardinalityType
  <2> QED BY <2>1, <2>2, <2>3
<1>6. m = n /\ m <= CLUSTER_MAP_SIZE /\ m = e.size /\ m # 0 /\ ~e.folder
  BY <1>4, <1>5, FAT32Assumption DEF Fits
<1>7. EntryNode(new.fat, new.st, e) = [kind |-> "file", data |-> data]
  <2>1. PICK b, fat2, st2 : b = data /\ fat2 = new.fat /\ st2 = new.st
    OBVIOUS
  <2>2. /\ \A k \in 0 .. m - 1 : b[k] = Piece(v, k)
        /\ Added(fat, st, p, s, e, m, a, b, fat2, st2)
    BY <1>1, <1>4, <1>6, <2>1
  <2>3. FileChain(fat2, st2, e, a, v)
    <3>1. m \in Nat /\ a \in [0 .. m - 1 -> FreeClusters(fat)] /\ e.cluster = a[0]
      BY <1>6, <2>2 DEF Added
    <3>2. a \in [0 .. m - 1 -> DataClusters]
      BY <3>1, FreeFacts
    <3>3. m \in 1 .. CLUSTER_MAP_SIZE
      BY <1>6, <3>1, FAT32Assumption
    <3>4. \A k \in 0 .. m - 1 :
             fat2[a[k]] = (IF k = m - 1 THEN EOF ELSE a[k + 1]) /\ st2[a[k]] = Piece(v, k)
      BY <2>2 DEF Added
    <3> QED BY <1>6, <3>1, <3>2, <3>3, <3>4 DEF FileChain
  <2>4. Contents(fat2, st2, e) = [k \in 0 .. e.size - 1 |-> Piece(v, k)]
    BY <2>3, ContentsOfChain
  <2>5. Contents(fat2, st2, e) = data
    BY <1>6, <2>4
  <2>6. EntryNode(fat2, st2, e) = [kind |-> "file", data |-> data]
    BY <1>6, <2>5 DEF EntryNode
  <2> QED BY <2>1, <2>6
<1>8. FileStored(TreeOf(fat, st), p, KeyOf(e), EntryNode(new.fat, new.st, e),
                 TreeOf(new.fat, new.st))
  BY <1>4, AddFileTree
<1>9. KeyOf(e) = <<name, ext>>
  BY <1>4 DEF KeyOf
<1> QED BY <1>7, <1>8, <1>9

\* A write stores a file.
LEMMA WriteFileKept ==
    ASSUME ~FullDisk, DriverInv, RoomInv, DriverInv', NEW p \in Parents, NEW name \in Names,
           NEW ext \in Exts, NEW v \in Values, NEW n \in Sizes, WriteFile(p, name, ext, v, n)
    PROVE  Kept
<1> DEFINE data == [k \in 0 .. n - 1 |-> Piece(v, k)]
           new  == FileAdded(fat_table, storage, p, name, ext, data)
           K    == <<name, ext>>
           T    == TreeOf(fat_table, storage)
<1>1. /\ mounted /\ WriteCheck(fat_table, storage, p, name, ext) = 0 /\ Fits(fat_table, n)
      /\ Save(new.fat, new.st, {})
  BY DEF WriteFile
<1>2. IsParent(fat_table, p)
  BY <1>1 DEF WriteCheck
<1>3. n \in Nat /\ n # 0
  BY FAT32Assumption
<1>4. Sound(fat_table, storage) /\ WholeFiles(fat_table, storage) /\ signature
  BY <1>1 DEF DriverInv, RoomInv
<1>5. p \in Clusters /\ storage[p].kind = "dir"
  BY <1>1, <1>2, ParentFacts
<1>6. mounted' /\ signature' /\ fat_table' = new.fat /\ storage' = new.st
  BY <1>1, <1>4 DEF Save
<1>7. Tree = T /\ Tree' = TreeOf(fat_table', storage')
  BY <1>1, <1>6, TreesAre
<1>8. FileStored(T, p, K, [kind |-> "file", data |-> data], TreeOf(new.fat, new.st))
  <2>1. data = [k \in 0 .. n - 1 |-> Piece(v, k)]
    OBVIOUS
  <2> HIDE DEF data
  <2>2. new = FileAdded(fat_table, storage, p, name, ext, data)
    OBVIOUS
  <2> HIDE DEF new
  <2> QED BY <1>1, <1>3, <1>4, <1>5, <2>1, <2>2, FileAddedTree
<1> HIDE DEF data, new, K, T
<1>9. FS!Store(p, K, [kind |-> "file", data |-> data])
  BY <1>6, <1>7, <1>8 DEF FileStored, FS!Store, FS!Missing, Missing
<1>10. FS!Store(p, K, [kind |-> "file", data |-> [k \in 0 .. n - 1 |-> Piece(v, k)]])
  BY <1>9 DEF data
<1>11. p \in DOMAIN Tree /\ K \in Keys
  BY <1>7, <1>8 DEF FileStored
<1>12. TreeStep
  BY <1>10, <1>11 DEF TreeStep, K
<1> QED BY <1>6, <1>12 DEF Kept

\* A write of a folder makes one.
LEMMA WriteFolderKept ==
    ASSUME ~FullDisk, DriverInv, RoomInv, DriverInv', NEW p \in Parents, NEW name \in Names,
           NEW ext \in Exts, WriteFolder(p, name, ext)
    PROVE  Kept
<1> DEFINE fat == fat_table
           st  == storage
           new == FolderAdded(fat, st, p, name, ext)
           T   == TreeOf(fat, st)
<1>1. /\ mounted /\ WriteCheck(fat, st, p, name, ext) = 0 /\ Fits(fat, 1)
      /\ Save(new.fat, new.st, {})
  BY DEF WriteFolder
<1>2. IsParent(fat_table, p)
  BY <1>1 DEF WriteCheck
<1>3. Sound(fat, st) /\ WholeFiles(fat, st) /\ signature
  BY <1>1 DEF DriverInv, RoomInv
<1>4. p \in Clusters /\ st[p].kind = "dir"
  BY <1>1, <1>2, ParentFacts
<1>5. mounted' /\ signature' /\ fat_table' = new.fat /\ storage' = new.st
  BY <1>1, <1>3 DEF Save
<1>6. Tree = T /\ Tree' = TreeOf(fat_table', storage')
  BY <1>1, <1>5, TreesAre
<1>7. PICK s, e, m, a, b :
         /\ s \in Slots /\ e \in Entries /\ m \in Nat
         /\ IsDir(fat, st, p) /\ ~Live(fat, st, p, s) /\ NewKey(fat, st, p, e)
         /\ e.name = name /\ e.ext = ext
         /\ e.folder <=> FreeClusters(fat) # {}
         /\ Added(fat, st, p, s, e, m, a, b, new.fat, new.st)
  BY <1>1, <1>3, <1>4, FolderAddedAdds
<1>8. e.folder
  <2>1. Cardinality(FreeClusters(fat)) >= 1
    BY <1>1 DEF Fits
  <2>2. Cardinality({}) = 0
    BY FS_EmptySet
  <2> QED BY <1>7, <2>1, <2>2
<1> DEFINE K == KeyOf(e)
           c == e.cluster
<1> HIDE DEF new
<1>9. FolderMade(T, p, K, c, TreeOf(new.fat, new.st))
  BY <1>3, <1>4, <1>7, <1>8, AddFolderTree
<1> HIDE DEF K, T, c
<1>10. FS!MakeFolder(p, K, c)
  BY <1>5, <1>6, <1>9 DEF FolderMade, FS!MakeFolder, FS!Missing, FS!Nothing, Missing
<1> QED BY <1>5, <1>6, <1>9, <1>10 DEF Kept, TreeStep, FolderMade

\* A copy replaces what the destination held, or leaves it alone.
LEMMA CopyKept ==
    ASSUME ~FullDisk, DriverInv, RoomInv, DriverInv', NEW p \in Parents, NEW q \in Parents,
           NEW name \in Names, NEW ext \in Exts, NEW name2 \in Names, NEW ext2 \in Exts,
           copy_file(p, name, ext, q, name2, ext2)
    PROVE  Kept
<1> DEFINE fat == fat_table
           st  == storage
           T   == TreeOf(fat, st)
           K   == <<name, ext>>
           L   == <<name2, ext2>>
           src == FilesMatching(st, p, name, ext)
           now == DestinationCleared(q, name2, ext2)
           code == WriteCheck(now.fat, now.st, q, name2, ext2)
           E(s) == Table(st, p)[s]
           data(s) == Contents(fat, st, E(s))
           new(s)  == FileAdded(now.fat, now.st, q, name2, ext2, data(s))
<1>1. mounted /\ signature /\ Sound(fat, st) /\ WholeFiles(fat, st)
  BY DEF DriverInv, RoomInv, copy_file
<1>2. CASE \E x : Refuse(x)
  <2>1. mounted' /\ signature' /\ fat_table' = fat /\ storage' = st
    BY <1>1, <1>2 DEF Refuse
  <2>2. Tree' = Tree
    BY <1>1, <2>1, TreesAre
  <2> QED BY <2>1, <2>2 DEF Kept, TreeStep
<1>3. ASSUME NEW s \in src, IsParent(fat, p),
             \/ ~LoopsEnd(fat, st, now.clusters) /\ Hang
             \/ /\ LoopsEnd(fat, st, now.clusters)
                /\ \/ code # 0 /\ Save(now.fat, now.st, now.clusters)
                   \/ /\ code = 0 /\ Fits(now.fat, E(s).size)
                      /\ Save(new(s).fat, new(s).st, now.clusters)
      PROVE  Kept
  <2> DEFINE e == st[p].table[s]
  <2>1. /\ p \in Clusters /\ s \in Slots /\ Live(fat, st, p, s) /\ E(s) = e
        /\ e.name = name /\ e.ext = ext /\ ~e.folder
    BY <1>1, <1>3, ParentFacts DEF FilesMatching, Matching, Used
  <2>2. PICK f, v : v \in Values /\ FileChain(fat, st, e, f, v)
    BY <1>1, <2>1 DEF WholeFiles
  <2>3. data(s) = [k \in 0 .. e.size - 1 |-> Piece(v, k)]
    <3>1. Contents(fat, st, e) = [k \in 0 .. e.size - 1 |-> Piece(v, k)]
      <4>1. FileChain(fat, st, e, f, v)
        BY <2>2
      <4> HIDE DEF e, fat, st
      <4> QED BY <4>1, ContentsOfChain
    <3> QED BY <2>1, <3>1
  <2>4. e.size \in Nat /\ e.size # 0
    <3>1. e.size \in 1 .. CLUSTER_MAP_SIZE
      BY <2>2 DEF FileChain
    <3> HIDE DEF e
    <3> QED BY <3>1, FAT32Assumption
  <2>5. K \in Keys /\ L \in Keys /\ Holds(fat, st, p, s, K)
    BY <2>1 DEF Keys, Holds
  <2>6. p \in DOMAIN T /\ T[p][K] = [kind |-> "file", data |-> data(s)]
    <3>1. p \in DirsOf(fat, st)
      BY <2>1 DEF DirsOf, Live
    <3>2. p \in DOMAIN T /\ T[p][K] = NodeOf(fat, st, p, K)
      BY <2>5, <3>1, TreeFacts
    <3>3. NodeOf(fat, st, p, K) = EntryNode(fat, st, e)
      BY <1>1, <2>1, <2>5, NodeFacts
    <3>4. EntryNode(fat, st, e) = [kind |-> "file", data |-> data(s)]
      BY <2>1 DEF EntryNode
    <3> HIDE DEF T, K
    <3> QED BY <3>2, <3>3, <3>4
  \* What the destination is cleared to.
  <2>7. /\ LoopsEnd(fat, st, now.clusters) /\ 0 \notin now.clusters
        /\ \/ now.fat = fat /\ now.st = st
           \/ /\ q \in DOMAIN T /\ T[q][L].kind = "file"
              /\ TreeOf(now.fat, now.st) = [T EXCEPT ![q][L] = Missing]
    <3>1. \/ now.fat = fat /\ now.st = st /\ now.clusters = {} /\ now.old = {}
          \/ \E t \in Slots :
                /\ IsParent(fat, q) /\ Live(fat, st, q, t) /\ now.old = {t}
                /\ st[q].table[t].name = name2 /\ st[q].table[t].ext = ext2
                /\ ~st[q].table[t].folder
                /\ now.clusters = Reach(fat, st, st[q].table[t].cluster)
                /\ now.fat = FreedTable(fat, now.clusters)
                /\ now.st = Erased(st, now.clusters, q, t)
      BY <1>1, ClearedIs
    <3> HIDE DEF now
    <3>2. CASE now.fat = fat /\ now.st = st /\ now.clusters = {}
      <4>1. LoopsEnd(fat, st, {})
        <5>1. {x \in {} \X Slots : /\ Table(st, x[1])[x[2]] # NoEntry
                                   /\ Table(st, x[1])[x[2]].cluster = 0} = {}
          OBVIOUS
        <5>2. Cardinality({}) <= 1
          BY FS_EmptySet
        <5> QED BY <5>1, <5>2 DEF LoopsEnd
      <4> QED BY <3>2, <4>1
    <3>3. ASSUME NEW t \in Slots, Live(fat, st, q, t),
                 st[q].table[t].name = name2, st[q].table[t].ext = ext2, ~st[q].table[t].folder,
                 now.clusters = Reach(fat, st, st[q].table[t].cluster),
                 now.fat = FreedTable(fat, now.clusters),
                 now.st = Erased(st, now.clusters, q, t)
          PROVE  /\ LoopsEnd(fat, st, now.clusters) /\ 0 \notin now.clusters
                 /\ q \in DOMAIN T /\ T[q][L].kind = "file"
                 /\ TreeOf(now.fat, now.st) = [T EXCEPT ![q][L] = Missing]
      <4>1. q \in Clusters
        BY <1>1, ParentFacts
      <4>2. LoopsEnd(fat, st, now.clusters) /\ 0 \notin now.clusters
        BY <1>1, <3>3, <4>1, EraseEnds
      <4>3. L = KeyOf(st[q].table[t])
        BY <3>3 DEF KeyOf
      <4>4. FileRemoved(T, q, KeyOf(st[q].table[t]), TreeOf(now.fat, now.st))
        BY <1>1, <3>3, <4>1, EraseFileTree
      <4> HIDE DEF T, L
      <4> QED BY <4>2, <4>3, <4>4 DEF FileRemoved
    <3> HIDE DEF T, L
    <3> QED BY <3>1, <3>2, <3>3
  <2>8. CASE code # 0 /\ Save(now.fat, now.st, now.clusters)
    <3>1. mounted' /\ signature' /\ fat_table' = now.fat /\ storage' = now.st
      BY <1>1, <2>7, <2>8 DEF Save
    <3>2. Tree = T /\ Tree' = TreeOf(now.fat, now.st)
      BY <1>1, <3>1, TreesAre
    <3>3. CASE now.fat = fat /\ now.st = st
      <4> HIDE DEF now
      <4> QED BY <3>1, <3>2, <3>3 DEF Kept, TreeStep
    <3>4. CASE /\ q \in DOMAIN T /\ T[q][L].kind = "file"
               /\ TreeOf(now.fat, now.st) = [T EXCEPT ![q][L] = Missing]
      <4> HIDE DEF now, T, L
      <4>1. FS!RemoveFile(q, L)
        BY <3>2, <3>4 DEF FS!RemoveFile, FS!IsFile, FS!Missing, Missing
      <4> QED BY <2>5, <3>1, <3>2, <3>4, <4>1 DEF Kept, TreeStep
    <3> QED BY <2>7, <3>3, <3>4
  <2>9. CASE /\ code = 0 /\ Fits(now.fat, E(s).size)
             /\ Save(new(s).fat, new(s).st, now.clusters)
    <3> DEFINE x == [kind |-> "file", data |-> data(s)]
    <3>1. /\ mounted' /\ signature' /\ fat_table' = new(s).fat /\ storage' = new(s).st
      BY <1>1, <2>7, <2>9 DEF Save
    <3>2. Tree = T /\ Tree' = TreeOf(new(s).fat, new(s).st)
      BY <1>1, <3>1, TreesAre
    <3>3. FileStored(TreeOf(now.fat, now.st), q, L, x, TreeOf(new(s).fat, new(s).st))
      <4>1. Sound(now.fat, now.st) /\ WholeFiles(now.fat, now.st)
        BY <1>1, ClearedSound, ClearedWhole DEF WholeInv
      <4>2. q \in Clusters /\ now.st[q].kind = "dir"
        <5>1. IsParent(now.fat, q)
          BY <2>9 DEF WriteCheck
        <5> QED BY <1>1, <5>1, ParentFacts, ClearedSound
      <4>3. code = 0 /\ Fits(now.fat, e.size)
        BY <2>1, <2>9
      <4> HIDE DEF now, e
      <4> QED BY <2>2, <2>3, <2>4, <4>1, <4>2, <4>3, FileAddedTree
    <3> HIDE DEF new
    <3>4. /\ q \in DOMAIN T /\ T[q][L].kind # "folder"
          /\ Tree' = [T EXCEPT ![q][L] = x]
      <4>1. CASE now.fat = fat /\ now.st = st
        <5>1. FileStored(T, q, L, x, Tree')
          <6> HIDE DEF now
          <6> QED BY <3>2, <3>3, <4>1
        <5> HIDE DEF T, L, x
        <5> QED BY <5>1 DEF FileStored, Missing
      <4>2. CASE /\ q \in DOMAIN T /\ T[q][L].kind = "file"
                 /\ TreeOf(now.fat, now.st) = [T EXCEPT ![q][L] = Missing]
        <5>1. FileStored([T EXCEPT ![q][L] = Missing], q, L, x, Tree')
          <6> HIDE DEF now
          <6> QED BY <3>2, <3>3, <4>2
        <5>2. /\ T = [g \in DOMAIN T |-> [k \in Keys |-> NodeOf(fat, st, g, k)]]
          BY TreeFacts DEF TreeOf
        <5> HIDE DEF T, L, x
        <5>3. Tree' = [[T EXCEPT ![q][L] = Missing] EXCEPT ![q][L] = x]
          BY <5>1 DEF FileStored
        <5>4. [[T EXCEPT ![q][L] = Missing] EXCEPT ![q][L] = x] = [T EXCEPT ![q][L] = x]
          BY <2>5, <4>2, <5>2
        <5> QED BY <4>2, <5>3, <5>4
      <4> QED BY <2>7, <4>1, <4>2
    <3>5. T[p][K] = x
      BY <2>6
    <3> HIDE DEF T, L, K, x, now
    <3>6. x.kind = "file"
      BY DEF x
    <3>7. FS!CopyOver(q, L, p, K)
      BY <3>2, <3>4, <3>5, <3>6 DEF FS!CopyOver, FS!IsFile, FS!IsFolder
    <3> QED BY <2>5, <2>6, <3>1, <3>2, <3>4, <3>7 DEF Kept, TreeStep
  <2> QED BY <1>3, <2>7, <2>8, <2>9
<1> HIDE DEF now, T
<1> QED BY <1>2, <1>3 DEF copy_file, now

\* Before the first power-on and right after it there are no files.
LEMMA BlankTree ==
    ASSUME ~mounted, storage[ROOT_CLUSTER_NUMBER].kind # "dir"
    PROVE  Tree = [p \in {ROOT_CLUSTER_NUMBER} |-> [k \in Keys |-> Missing]]
<1>1. Directories = {}
  BY DEF Directories
<1>2. ASSUME NEW k \in Keys PROVE Node(ROOT_CLUSTER_NUMBER, k) = Missing
  <2>1. Used(storage, ROOT_CLUSTER_NUMBER) = {}
    BY DEF Used, Table
  <2>2. Matching(storage, ROOT_CLUSTER_NUMBER, k[1], k[2]) = {}
    BY <2>1 DEF Matching
  <2> QED BY <2>2 DEF Node
<1>3. Tree = [p \in {ROOT_CLUSTER_NUMBER} |-> [k \in Keys |-> Node(p, k)]]
  BY <1>1 DEF Tree
<1> QED BY <1>2, <1>3

LEMMA FreshTree ==
    ASSUME NEW st \in [Clusters -> Blocks], st[0].kind # "dir", st[1].kind # "dir",
           NEW st2, st2 = [st EXCEPT ![ROOT_CLUSTER_NUMBER] = EmptyDirectory(ROOT_CLUSTER_NUMBER)]
    PROVE  TreeOf(FreshTable, st2) = [p \in {ROOT_CLUSTER_NUMBER} |-> [k \in Keys |-> Missing]]
<1> DEFINE fat == FreshTable
<1>1. /\ fat[0] = CLUSTER_0_VALUE /\ fat[1] = EOF /\ fat[2] = EOF
      /\ \A c \in DataClusters : fat[c] = EMPTY
      /\ st2[2].kind = "dir"
      /\ \A c \in Clusters : c # 2 => st2[c] = st[c]
      /\ \A d \in Clusters, s \in Slots : ~Live(fat, st2, d, s)
  BY FreshIsEmpty
<1> HIDE DEF fat
<1>2. DirsOf(fat, st2) = {2}
  <2>1. ASSUME NEW c \in Clusters, c # 2 PROVE ~IsDir(fat, st2, c)
    <3>1. CASE c \in DataClusters
      BY <1>1, <3>1, ClusterFacts DEF IsDir, IsParent, EMPTY
    <3>2. CASE c = 0
      BY <1>1, <3>2, ClusterFacts DEF IsDir, IsParent
    <3>3. CASE c = 1
      BY <1>1, <2>1, <3>3 DEF IsDir
    <3> QED BY <2>1, <3>1, <3>2, <3>3, ClusterFacts
  <2>2. 2 \in Clusters /\ IsDir(fat, st2, 2)
    BY <1>1, ClusterFacts DEF IsDir, IsParent
  <2> QED BY <2>1, <2>2 DEF DirsOf
<1>3. ASSUME NEW k \in Keys PROVE NodeOf(fat, st2, 2, k) = Missing
  <2>1. \A s \in Slots : ~Holds(fat, st2, 2, s, k)
    BY <1>1, ClusterFacts DEF Holds
  <2> QED BY <2>1 DEF NodeOf
<1>4. TreeOf(fat, st2) = [p \in {2} |-> [k \in Keys |-> NodeOf(fat, st2, p, k)]]
  BY <1>2 DEF TreeOf
<1>5. \A p \in {2} : [k \in Keys |-> NodeOf(fat, st2, p, k)] = [k \in Keys |-> Missing]
  BY <1>3
<1>6. TreeOf(fat, st2) = [p \in {2} |-> [k \in Keys |-> Missing]]
  BY <1>4, <1>5
<1> QED BY <1>6 DEF fat, ROOT_CLUSTER_NUMBER

\* A power-on changes nothing: a formatted disk is read, and only a disk that
\* never had a file system is formatted.
LEMMA PowerOnKept ==
    ASSUME DriverInv, RoomInv, DriverInv', initialize_filesystem_fat32
    PROVE  Kept
<1>1. mounted'
  BY DEF initialize_filesystem_fat32
<1>2. CASE signature
  <2>1. mounted /\ signature' /\ fat_table' = fat_table /\ storage' = storage
    BY <1>2 DEF initialize_filesystem_fat32, DriverInv
  <2>2. Tree' = Tree
    BY <1>1, <2>1, TreesAre
  <2> QED BY <1>1, <2>1, <2>2 DEF Kept, TreeStep
<1>3. CASE ~signature
  <2>1. ~mounted /\ storage[ROOT_CLUSTER_NUMBER].kind # "dir"
    BY <1>3 DEF RoomInv
  <2> DEFINE st2 == [storage EXCEPT ![ROOT_CLUSTER_NUMBER] = EmptyDirectory(ROOT_CLUSTER_NUMBER)]
  <2>2. signature' /\ fat_table' = FreshTable /\ storage' = st2
    BY <1>3 DEF initialize_filesystem_fat32, create_fat32
  <2>3. (DriverInv /\ mounted => Tree = TreeOf(fat_table, storage))'
    BY TreeIs, PTL
  <2>4. Tree' = TreeOf(FreshTable, st2)
    BY <1>1, <2>2, <2>3
  <2>5. storage \in [Clusters -> Blocks] /\ storage[0].kind # "dir" /\ storage[1].kind # "dir"
    BY DEF DriverInv, TypeOK
  <2>6. TreeOf(FreshTable, st2) = [p \in {ROOT_CLUSTER_NUMBER} |-> [k \in Keys |-> Missing]]
    BY <2>5, FreshTree
  <2>7. Tree = [p \in {ROOT_CLUSTER_NUMBER} |-> [k \in Keys |-> Missing]]
    BY <2>1, BlankTree
  <2> HIDE DEF st2
  <2> QED BY <1>1, <2>2, <2>4, <2>6, <2>7 DEF Kept, TreeStep
<1> QED BY <1>2, <1>3

\* An operation that only answers a code changes nothing.
LEMMA RefuseKept ==
    ASSUME DriverInv, RoomInv, mounted, DriverInv', NEW code, Refuse(code)
    PROVE  Kept
<1>1. mounted' /\ signature' /\ fat_table' = fat_table /\ storage' = storage
  BY DEF Refuse, RoomInv
<1>2. Tree' = Tree
  BY <1>1, TreesAre
<1> QED BY <1>1, <1>2 DEF Kept, TreeStep

\* Every step of the driver is a step of the tree, or none.
LEMMA StoreStep ==
    ASSUME ~FullDisk, DriverInv, RoomInv, [Next]_vars
    PROVE  RoomInv' /\ TreeStep
<1>1. DriverInv'
  BY DriverInductive
<1>2. WholeInv'
  <2>1. WholeInv
    BY DEF RoomInv, WholeInv
  <2> QED BY <2>1, WholeInductive
<1>3. ASSUME Kept PROVE RoomInv' /\ TreeStep
  BY <1>2, <1>3 DEF Kept, RoomInv, WholeInv
<1>4. CASE UNCHANGED vars
  <2>1. RoomInv'
    BY <1>4 DEF vars, RoomInv
  <2>2. Tree' = Tree
    BY <1>4 DEF vars, Tree, Directories, Node
  <2> QED BY <2>1, <2>2 DEF TreeStep
<1>5. CASE initialize_filesystem_fat32
  BY <1>1, <1>3, <1>5, PowerOnKept
<1>6. ASSUME NEW p \in Parents, NEW name \in Names, NEW ext \in Exts, WriteRefused(p, name, ext)
      PROVE  Kept
  BY <1>1, <1>6, RefuseKept DEF WriteRefused
<1>7. ASSUME NEW p \in Parents, NEW name \in Names, NEW ext \in Exts, WriteFolder(p, name, ext)
      PROVE  Kept
  BY <1>1, <1>7, WriteFolderKept
<1>8. ASSUME NEW p \in Parents, NEW name \in Names, NEW ext \in Exts,
             NEW v \in Values, NEW n \in Sizes, WriteFile(p, name, ext, v, n)
      PROVE  Kept
  BY <1>1, <1>8, WriteFileKept
<1>9. ASSUME NEW p \in Parents, NEW name \in Names, NEW ext \in Exts, delete(p, name, ext)
      PROVE  Kept
  <2>1. mounted
    BY <1>9 DEF delete
  <2>2. CASE \E code : Refuse(code)
    BY <1>1, <2>1, <2>2, RefuseKept
  <2>3. ASSUME IsParent(fat_table, p), NEW s \in Matching(storage, p, name, ext),
               Erase(Reach(fat_table, storage, Table(storage, p)[s].cluster), p, s)
        PROVE  Kept
    <3>1. s \in Used(storage, p)
      BY DEF Matching
    <3> QED BY <1>1, <2>1, <2>3, <3>1, EraseKept
  <2> QED BY <1>9, <2>2, <2>3 DEF delete
<1>10. ASSUME NEW p \in Parents, NEW name \in Names, NEW ext \in Exts,
              delete_folder_rec(p, name, ext)
       PROVE  Kept
  <2>1. mounted
    BY <1>10 DEF delete_folder_rec
  <2>2. CASE \E code : Refuse(code)
    BY <1>1, <2>1, <2>2, RefuseKept
  <2>3. ASSUME IsParent(fat_table, p), NEW s \in Matching(storage, p, name, ext),
               Erase(Reach(fat_table, storage, Table(storage, p)[s].cluster), p, s)
        PROVE  Kept
    <3>1. s \in Used(storage, p)
      BY DEF Matching
    <3> QED BY <1>1, <2>1, <2>3, <3>1, EraseKept
  <2> QED BY <1>10, <2>2, <2>3 DEF delete_folder_rec
<1>11. ASSUME NEW p \in Parents, NEW name \in Names, NEW ext \in Exts,
              NEW q \in Parents, NEW name2 \in Names, NEW ext2 \in Exts,
              copy_file(p, name, ext, q, name2, ext2)
       PROVE  Kept
  BY <1>1, <1>11, CopyKept
<1> QED BY <1>3, <1>4, <1>5, <1>6, <1>7, <1>8, <1>9, <1>10, <1>11 DEF Next

\* On a disk with room the driver of src/src/fat32.c implements the tree of files
\* of FileStore, for every size of the disk, of the directories and of the files:
\* each write, deletion and copy is one change of the tree and touches nothing
\* else, refusals and power-ons change nothing, and no loop hangs.
THEOREM FAT32ImplementsFileStore ==
    ASSUME ~FullDisk
    PROVE  Spec => ImplementsFileStore
<1>1. Init => DriverInv /\ RoomInv /\ FS!Init
  <2> SUFFICES ASSUME Init PROVE DriverInv /\ RoomInv /\ FS!Init
    OBVIOUS
  <2>1. ~mounted /\ ~signature /\ storage = [c \in Clusters |-> Zeros]
    BY DEF Init
  <2>2. \A c \in Clusters : storage[c].kind # "dir"
    BY <2>1, BlockFacts
  <2>3. RoomInv
    BY <2>1, <2>2, ClusterFacts DEF RoomInv, ROOT_CLUSTER_NUMBER
  <2>4. FS!Init
    BY <2>1, <2>3, BlankTree DEF RoomInv, FS!Init, FS!Nothing, FS!Missing, Missing
  <2>5. DriverInv
    <3>1. TypeOK
      BY ClusterFacts, BlockFacts DEF Init, TypeOK, FatValues, EMPTY
    <3> QED BY <2>1, <2>2, <3>1, ClusterFacts DEF DriverInv
  <2> QED BY <2>3, <2>4, <2>5
<1>2. DriverInv /\ RoomInv /\ [Next]_vars => DriverInv' /\ RoomInv' /\ [FS!Next]_Tree
  <2> SUFFICES ASSUME DriverInv, RoomInv, [Next]_vars
               PROVE  DriverInv' /\ RoomInv' /\ [FS!Next]_Tree
    OBVIOUS
  <2>1. RoomInv' /\ TreeStep
    BY StoreStep
  <2>2. [FS!Next]_Tree
    <3>1. CASE Tree' = Tree
      BY <3>1
    <3>2. ASSUME Tree' # Tree, NEW f \in DOMAIN Tree, NEW k \in Keys,
                 NEW v \in Values, NEW n \in Sizes,
                 FS!Store(f, k, [kind |-> "file", data |-> [j \in 0 .. n - 1 |-> Piece(v, j)]])
          PROVE  FS!Next
      BY <3>2 DEF FS!Next
    <3>3. ASSUME Tree' # Tree, NEW f \in DOMAIN Tree, NEW k \in Keys,
                 \/ \E id \in DataClusters : FS!MakeFolder(f, k, id)
                 \/ FS!RemoveFile(f, k)
                 \/ FS!RemoveFolder(f, k)
                 \/ \E g \in DOMAIN Tree, l \in Keys : FS!CopyOver(f, k, g, l)
          PROVE  FS!Next
      BY <3>3 DEF FS!Next
    <3> QED BY <2>1, <3>1, <3>2, <3>3 DEF TreeStep
  <2> QED BY <2>1, <2>2, DriverInductive
<1> QED BY <1>1, <1>2, PTL DEF Spec, ImplementsFileStore, FS!Spec
=============================================================================
