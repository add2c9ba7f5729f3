----------------------------- MODULE FAT32Proofs -----------------------------
(***************************************************************************)
(* Proofs about the file system driver, for every size of the disk and of  *)
(* the directories, and also when the disk is full: no cluster ever has    *)
(* two owners and none is lost.  On a disk with room, moreover, every file *)
(* is whole and the lookups find what the tree of files holds.             *)
(*                                                                         *)
(* A cluster is led to by references: the table entry of a cluster (index  *)
(* 0) and the slots of the directories.  That no cluster has two, that     *)
(* what is led to is in use, and that everything in use is reached from    *)
(* the root is inductive only together: a deletion frees what is reached   *)
(* from one entry, which is safe because everything in it is led to only   *)
(* from inside, and does not contain the directory of the entry, because   *)
(* that is reached from the root by another way.                           *)
(***************************************************************************)
EXTENDS FAT32, LinearScanProofs

IsDir(fat, st, p) == IsParent(fat, p) /\ st[p].kind = "dir"
Live(fat, st, p, s) == IsDir(fat, st, p) /\ st[p].table[s] # NoEntry

Indices == {0} \cup Slots

\* Where index i of cluster d leads; EMPTY for nowhere.
Ref(fat, st, d, i) ==
    IF i = 0 THEN fat[d]
    ELSE IF Live(fat, st, d, i) THEN st[d].table[i].cluster ELSE EMPTY

Types(fat, st) == fat \in [Clusters -> FatValues] /\ st \in [Clusters -> Blocks]

\* The reserved clusters and the root.
Reserved(fat, st) ==
    /\ fat[0] \notin DataClusters /\ fat[1] \notin DataClusters
    /\ st[0].kind # "dir" /\ st[1].kind # "dir"
    /\ IsDir(fat, st, ROOT_CLUSTER_NUMBER)

\* References lead to data clusters in use, or nowhere.
RefsInside(fat, st) ==
    \A d \in Clusters, i \in Indices :
        LET c == Ref(fat, st, d, i)
        IN  /\ c \notin {1, ROOT_CLUSTER_NUMBER}
            /\ c \in DataClusters => fat[c] # EMPTY

OneOwner(fat, st) ==
    \A d, e \in Clusters, i, j \in Indices :
        /\ Ref(fat, st, d, i) \in DataClusters
        /\ Ref(fat, st, d, i) = Ref(fat, st, e, j)
        => d = e /\ i = j

\* A folder's cluster is a directory, whose ".." leads back; a file's clusters are
\* not directories.
KindsAgree(fat, st) ==
    /\ \A c \in DataClusters : fat[c] # EMPTY /\ st[c].kind = "dir" => fat[c] = EOF
    /\ \A d \in Clusters : fat[d] \in DataClusters => st[fat[d]].kind # "dir"
    /\ \A p \in Clusters, s \in Slots :
          Live(fat, st, p, s) =>
              LET e == st[p].table[s]
              IN  IF e.folder
                  THEN /\ e.cluster \in DataClusters
                       /\ st[e.cluster].kind = "dir" /\ st[e.cluster].up = p
                  ELSE st[e.cluster].kind # "dir"

UniqueKeys(fat, st) ==
    \A p \in Clusters, s, t \in Slots :
        /\ Live(fat, st, p, s) /\ Live(fat, st, p, t)
        /\ st[p].table[s].name = st[p].table[t].name
        /\ st[p].table[s].ext = st[p].table[t].ext
        => s = t

NoneLost(fat, st) ==
    \A c \in DataClusters :
        fat[c] # EMPTY => c \in Reach(fat, st, ROOT_CLUSTER_NUMBER)

Sound(fat, st) ==
    /\ Types(fat, st) /\ Reserved(fat, st)
    /\ RefsInside(fat, st) /\ OneOwner(fat, st)
    /\ KindsAgree(fat, st) /\ UniqueKeys(fat, st)
    /\ NoneLost(fat, st)

\* The inductive invariant.  Between power failures the disk's table is the
\* cached one; a disk without the signature is formatted at the next power-on,
\* whatever it holds.
DriverInv ==
    /\ TypeOK
    /\ storage[0].kind # "dir" /\ storage[1].kind # "dir"
    /\ signature => mounted
    /\ mounted => Sound(fat_table, storage) /\ disk_fat = fat_table
-----------------------------------------------------------------------------
(* Clusters, references and what is reached. *)

\* The clusters are the reserved ones, the root and the data clusters; the
\* marks of the table are none of them.
LEMMA ClusterFacts ==
    /\ Clusters \subseteq Nat /\ DataClusters \subseteq Clusters /\ IsFiniteSet(DataClusters)
    /\ 0 \in Clusters /\ 1 \in Clusters /\ 2 \in Clusters
    /\ 0 \notin DataClusters /\ 1 \notin DataClusters /\ 2 \notin DataClusters
    /\ \A c \in Clusters : c \in DataClusters \/ c = 0 \/ c = 1 \/ c = 2
    /\ EOF \notin Clusters /\ CLUSTER_0_VALUE \notin Clusters /\ EOF # CLUSTER_0_VALUE
    /\ Slots \subseteq Nat /\ 0 \notin Slots
<1>1. IsFiniteSet(DataClusters)
  <2>1. 3 \in Int /\ CLUSTER_MAP_SIZE - 1 \in Int
    BY FAT32Assumption
  <2> QED BY <2>1, FS_Interval DEF DataClusters
<1>2. Clusters \subseteq Nat /\ Slots \subseteq Nat /\ 0 \notin Slots
  BY FAT32Assumption DEF Clusters, Slots
<1> QED BY <1>1, <1>2, FAT32Assumption DEF Clusters, DataClusters

\* What a block can be.
LEMMA BlockFacts ==
    /\ \A b \in Blocks : b.kind = "dir" =>
          /\ b \in Tables
          /\ b.up \in Clusters
          /\ b.table \in [Slots -> Entries \cup {NoEntry}]
    /\ Zeros \in Blocks /\ Unknown \in Blocks /\ Overwritten \in Blocks
    /\ Zeros.kind = "zeros" /\ Unknown.kind = "unknown" /\ Overwritten.kind = "overwritten"
    /\ \A v \in Values, k \in Nat : Piece(v, k) \in Blocks /\ Piece(v, k).kind = "piece"
    /\ \A up \in Clusters, t \in [Slots -> Entries \cup {NoEntry}] :
          [kind |-> "dir", up |-> up, table |-> t] \in Blocks
<1>1. \A b \in Blocks : b.kind = "dir" => b \in Tables
  BY DEF Blocks, Tables, Pieces, Zeros, Unknown, Overwritten
<1>2. \A b \in Tables : b.up \in Clusters /\ b.table \in [Slots -> Entries \cup {NoEntry}]
  BY DEF Tables
<1>3. \A v \in Values, k \in Nat : Piece(v, k) \in Blocks /\ Piece(v, k).kind = "piece"
  BY DEF Blocks, Pieces, Piece
<1>4. \A up \in Clusters, t \in [Slots -> Entries \cup {NoEntry}] :
          [kind |-> "dir", up |-> up, table |-> t] \in Blocks
  BY DEF Blocks, Tables
<1>5. /\ Zeros \in Blocks /\ Unknown \in Blocks /\ Overwritten \in Blocks
      /\ Zeros.kind = "zeros" /\ Unknown.kind = "unknown" /\ Overwritten.kind = "overwritten"
  BY DEF Blocks, Zeros, Unknown, Overwritten
<1> QED BY <1>1, <1>2, <1>3, <1>4, <1>5

\* A live entry is an entry.
LEMMA LiveEntry ==
    ASSUME NEW fat, NEW st, Types(fat, st), NEW p \in Clusters, NEW s \in Slots,
           Live(fat, st, p, s)
    PROVE  st[p].table[s] \in Entries /\ st[p].table[s].cluster \in Clusters
<1>1. st[p].table \in [Slots -> Entries \cup {NoEntry}]
  BY BlockFacts DEF Types, Live, IsDir
<1> QED BY <1>1 DEF Live, Entries

\* Reach is closed, contains its start, and is the least such set.
LEMMA ReachFacts ==
    ASSUME NEW fat, NEW st, Types(fat, st), NEW h \in Clusters
    PROVE  /\ Reach(fat, st, h) \subseteq Clusters
           /\ h \in Reach(fat, st, h)
           /\ Closed(fat, st, Reach(fat, st, h))
           /\ \A C \in SUBSET Clusters :
                 h \in C /\ Closed(fat, st, C) => Reach(fat, st, h) \subseteq C
<1> DEFINE sets == {C \in SUBSET Clusters : h \in C /\ Closed(fat, st, C)}
<1>1. Reach(fat, st, h) = {c \in Clusters : \A C \in sets : c \in C}
  BY DEF Reach
<1>2. \A c \in Clusters : Successors(fat, st, c) \subseteq Clusters
  <2> SUFFICES ASSUME NEW c \in Clusters, NEW x \in Successors(fat, st, c) PROVE x \in Clusters
    OBVIOUS
  <2>1. CASE x \in {fat[c]} \cap (Clusters \ {EMPTY})
    BY <2>1
  <2>2. CASE st[c].kind = "dir" /\ \E s \in Used(st, c) : x = Table(st, c)[s].cluster
    <3>1. st[c].table \in [Slots -> Entries \cup {NoEntry}]
      BY <2>2, BlockFacts DEF Types
    <3> QED BY <2>2, <3>1 DEF Used, Table, Entries
  <2> QED BY <2>1, <2>2 DEF Successors
<1>3. Closed(fat, st, Reach(fat, st, h))
  <2> SUFFICES ASSUME NEW c \in Reach(fat, st, h), NEW x \in Successors(fat, st, c)
               PROVE  x \in Reach(fat, st, h)
    BY DEF Closed
  <2>1. \A C \in sets : x \in C
    BY <1>1 DEF Closed
  <2>2. x \in Clusters
    BY <1>1, <1>2
  <2> HIDE DEF sets
  <2> QED BY <1>1, <2>1, <2>2
<1>4. \A C \in SUBSET Clusters :
         h \in C /\ Closed(fat, st, C) => Reach(fat, st, h) \subseteq C
  BY <1>1
<1> QED BY <1>1, <1>3, <1>4

\* The clusters in use, the reserved cluster 0 and the root.
Held(fat) == {c \in DataClusters : fat[c] # EMPTY} \cup {0, ROOT_CLUSTER_NUMBER}

\* From a cluster in use one gets to what its references lead to.
LEMMA SuccessorsAreRefs ==
    ASSUME NEW fat, NEW st, Types(fat, st), Reserved(fat, st), KindsAgree(fat, st),
           RefsInside(fat, st), NEW d \in Held(fat)
    PROVE  /\ \A x \in Successors(fat, st, d) :
                 x = 0 \/ (x \in DataClusters /\ \E i \in Indices : Ref(fat, st, d, i) = x)
           /\ \A i \in Indices : Ref(fat, st, d, i) \in DataClusters =>
                 Ref(fat, st, d, i) \in Successors(fat, st, d)
           /\ d = 0 => Successors(fat, st, d) = {}
<1>0. d \in Clusters
  BY ClusterFacts DEF Held, ROOT_CLUSTER_NUMBER
<1>1. st[d].kind = "dir" => IsDir(fat, st, d)
  <2>1. CASE d \in DataClusters
    BY <2>1, ClusterFacts DEF KindsAgree, IsDir, IsParent, Held, ROOT_CLUSTER_NUMBER
  <2>2. CASE d = 0 \/ d = ROOT_CLUSTER_NUMBER
    BY <2>2 DEF Reserved
  <2> QED BY <2>1, <2>2 DEF Held
<1>2. \A s \in Slots : s \in Used(st, d) /\ st[d].kind = "dir" => Live(fat, st, d, s)
  BY <1>1 DEF Used, Table, Live
<1>3. \A s \in Slots : Live(fat, st, d, s) =>
          /\ st[d].kind = "dir" /\ s \in Used(st, d)
          /\ Ref(fat, st, d, s) = Table(st, d)[s].cluster
          /\ Ref(fat, st, d, s) \in Clusters
  BY <1>0, LiveEntry, ClusterFacts DEF Used, Table, Live, IsDir, Ref
<1>4. fat[d] = Ref(fat, st, d, 0) /\ 0 \in Indices /\ Slots \subseteq Indices
  BY DEF Ref, Indices
<1>5. ASSUME NEW x \in Successors(fat, st, d)
      PROVE  x = 0 \/ (x \in DataClusters /\ \E i \in Indices : Ref(fat, st, d, i) = x)
  <2>1. \E i \in Indices : Ref(fat, st, d, i) = x /\ x \in Clusters
    <3>1. CASE x \in {fat[d]} \cap (Clusters \ {EMPTY})
      BY <1>4, <3>1
    <3>2. CASE st[d].kind = "dir" /\ x \in {Table(st, d)[s].cluster : s \in Used(st, d)}
      <4>1. PICK s \in Used(st, d) : x = Table(st, d)[s].cluster
        BY <3>2
      <4>2. s \in Slots
        BY DEF Used
      <4> QED BY <1>2, <1>3, <1>4, <3>2, <4>1, <4>2
    <3> QED BY <3>1, <3>2 DEF Successors
  <2> PICK i \in Indices : Ref(fat, st, d, i) = x /\ x \in Clusters
    BY <2>1
  <2>2. x # 1 /\ x # 2
    BY <1>0, <2>1 DEF RefsInside, ROOT_CLUSTER_NUMBER
  <2> QED BY <2>1, <2>2, ClusterFacts
<1>6. ASSUME NEW i \in Indices, Ref(fat, st, d, i) \in DataClusters
      PROVE  Ref(fat, st, d, i) \in Successors(fat, st, d)
  <2>1. CASE i = 0
    BY <1>4, <1>6, <2>1, ClusterFacts DEF Successors, EMPTY
  <2>2. CASE i # 0
    <3>1. i \in Slots /\ Live(fat, st, d, i)
      BY <1>6, <2>2, ClusterFacts DEF Ref, Indices, EMPTY
    <3> QED BY <1>3, <3>1 DEF Successors
  <2> QED BY <2>1, <2>2
<1>7. ASSUME d = 0 PROVE Successors(fat, st, d) = {}
  <2>1. fat[0] \notin Clusters \ {EMPTY}
    <3>1. fat[0] \notin {1, 2}
      BY <1>4, <1>7, <1>0 DEF RefsInside, ROOT_CLUSTER_NUMBER
    <3> QED BY <3>1, ClusterFacts DEF Reserved, EMPTY
  <2> QED BY <1>7, <2>1 DEF Successors, Reserved
<1> QED BY <1>5, <1>6, <1>7
\* The part of soundness that the lemmas about Reach need.
Linked(fat, st) ==
    /\ Types(fat, st) /\ Reserved(fat, st)
    /\ RefsInside(fat, st) /\ KindsAgree(fat, st)

\* A set that references do not leave contains what is reached from its
\* members, and only clusters in use are reached.
LEMMA ReachMin ==
    ASSUME NEW fat, NEW st, Linked(fat, st), NEW D \in SUBSET Clusters,
           NEW h \in Held(fat), h \in D, 0 \in D,
           \A d \in D \cap Held(fat), i \in Indices :
              Ref(fat, st, d, i) \in DataClusters => Ref(fat, st, d, i) \in D
    PROVE  Reach(fat, st, h) \subseteq D \cap Held(fat)
<1> USE DEF Linked
<1>1. D \cap Held(fat) \in SUBSET Clusters /\ h \in Clusters
  OBVIOUS
<1>2. Closed(fat, st, D \cap Held(fat))
  <2> SUFFICES ASSUME NEW d \in D \cap Held(fat), NEW x \in Successors(fat, st, d)
               PROVE  x \in D \cap Held(fat)
    BY DEF Closed
  <2>1. CASE x = 0
    BY <2>1 DEF Held
  <2>2. CASE x # 0
    <3>1. PICK i \in Indices : Ref(fat, st, d, i) = x /\ x \in DataClusters
      BY <2>2, SuccessorsAreRefs
    <3>2. fat[x] # EMPTY
      BY <1>1, <3>1 DEF RefsInside
    <3> QED BY <3>1, <3>2 DEF Held
  <2> QED BY <2>1, <2>2
<1> QED BY <1>1, <1>2, ReachFacts

\* Only clusters in use are reached, and their references are followed.
LEMMA ReachStep ==
    ASSUME NEW fat, NEW st, Linked(fat, st), NEW h \in Held(fat)
    PROVE  /\ Reach(fat, st, h) \subseteq Held(fat)
           /\ h \in Reach(fat, st, h)
           /\ \A d \in Reach(fat, st, h), i \in Indices :
                 Ref(fat, st, d, i) \in DataClusters => Ref(fat, st, d, i) \in Reach(fat, st, h)
<1> USE DEF Linked
<1>0. h \in Clusters
  BY ClusterFacts DEF Held, ROOT_CLUSTER_NUMBER
<1>1. Reach(fat, st, h) \subseteq Held(fat)
  <2>1. Clusters \in SUBSET Clusters /\ 0 \in Clusters /\ DataClusters \subseteq Clusters
    BY ClusterFacts
  <2>2. Reach(fat, st, h) \subseteq Clusters \cap Held(fat)
    BY <1>0, <2>1, ReachMin
  <2> QED BY <2>2
<1>2. h \in Reach(fat, st, h) /\ Closed(fat, st, Reach(fat, st, h))
  BY <1>0, ReachFacts
<1>3. ASSUME NEW d \in Reach(fat, st, h), NEW i \in Indices, Ref(fat, st, d, i) \in DataClusters
      PROVE  Ref(fat, st, d, i) \in Reach(fat, st, h)
  <2>1. Ref(fat, st, d, i) \in Successors(fat, st, d)
    BY <1>1, <1>3, SuccessorsAreRefs
  <2> QED BY <1>2, <2>1 DEF Closed
<1> QED BY <1>1, <1>2, <1>3

\* Everything reached from h, but h itself, is led to from inside.
LEMMA LedToFromInside ==
    ASSUME NEW fat, NEW st, Linked(fat, st), NEW h \in Held(fat), h # ROOT_CLUSTER_NUMBER,
           NEW c \in Reach(fat, st, h) \cap DataClusters, c # h
    PROVE  \E d \in Reach(fat, st, h), i \in Indices : Ref(fat, st, d, i) = c
<1> DEFINE R == Reach(fat, st, h)
           D == (R \cup {0}) \ {c}
<1> SUFFICES ASSUME \A d \in R, i \in Indices : Ref(fat, st, d, i) # c
             PROVE  FALSE
  OBVIOUS
<1>1. /\ R \subseteq Held(fat) /\ h \in R
      /\ \A d \in R, i \in Indices : Ref(fat, st, d, i) \in DataClusters => Ref(fat, st, d, i) \in R
  BY ReachStep
<1>2. \A i \in Indices : Ref(fat, st, 0, i) \notin DataClusters
  BY ClusterFacts DEF Linked, Reserved, Ref, Live, IsDir, EMPTY
<1>3. D \in SUBSET Clusters /\ h \in D /\ 0 \in D
  BY <1>1, ClusterFacts DEF Held, ROOT_CLUSTER_NUMBER
<1>4. \A d \in D \cap Held(fat), i \in Indices :
          Ref(fat, st, d, i) \in DataClusters => Ref(fat, st, d, i) \in D
  BY <1>1, <1>2
<1>5. c \notin D
  OBVIOUS
<1> HIDE DEF D
<1>6. R \subseteq D \cap Held(fat)
  BY <1>3, <1>4, ReachMin
<1> QED BY <1>5, <1>6
-----------------------------------------------------------------------------
(* Deleting. *)

\* What deleting an entry frees: clusters in use, none of them reserved, none of
\* them led to from elsewhere, and never the directory of the entry.
LEMMA FreedIsApart ==
    ASSUME NEW fat, NEW st, Sound(fat, st), NEW p \in Clusters, NEW s \in Slots,
           Live(fat, st, p, s), NEW C, C = Reach(fat, st, st[p].table[s].cluster)
    PROVE  /\ st[p].table[s].cluster \in Held(fat) \cap C
           /\ C \subseteq Held(fat) /\ ROOT_CLUSTER_NUMBER \notin C
           /\ \A d \in C, i \in Indices :
                 Ref(fat, st, d, i) \in DataClusters => Ref(fat, st, d, i) \in C
           /\ \A d \in Clusters, i \in Indices :
                 Ref(fat, st, d, i) \in C \cap DataClusters => d \in C \/ (d = p /\ i = s)
           /\ p \notin C
<1> USE DEF Sound
<1> DEFINE h == st[p].table[s].cluster
<1>0. Linked(fat, st)
  BY DEF Linked
<1>1. s \in Indices /\ s # 0 /\ Ref(fat, st, p, s) = h
  BY ClusterFacts DEF Indices, Ref
<1>2. h \in Held(fat) /\ h # ROOT_CLUSTER_NUMBER
  <2>1. h \in Clusters
    BY LiveEntry
  <2>2. h \notin {1, ROOT_CLUSTER_NUMBER} /\ (h \in DataClusters => fat[h] # EMPTY)
    BY <1>1 DEF RefsInside
  <2> QED BY <2>1, <2>2, ClusterFacts DEF Held, ROOT_CLUSTER_NUMBER
<1> HIDE DEF h
<1>3. /\ C \subseteq Held(fat) /\ h \in C
      /\ \A d \in C, i \in Indices :
            Ref(fat, st, d, i) \in DataClusters => Ref(fat, st, d, i) \in C
  BY <1>0, <1>2, ReachStep DEF h
<1>4. ROOT_CLUSTER_NUMBER \notin C
  <2> DEFINE D == Clusters \ {ROOT_CLUSTER_NUMBER}
  <2>1. /\ D \in SUBSET Clusters /\ h \in D /\ 0 \in D /\ DataClusters \subseteq D
        /\ ROOT_CLUSTER_NUMBER \notin D
    BY <1>2, ClusterFacts DEF Held, ROOT_CLUSTER_NUMBER
  <2> HIDE DEF D
  <2>2. C = Reach(fat, st, h)
    BY DEF h
  <2>3. C \subseteq D \cap Held(fat)
    BY <1>0, <1>2, <2>1, <2>2, ReachMin
  <2> QED BY <2>1, <2>3
<1>5. ASSUME NEW d \in Clusters, NEW i \in Indices, Ref(fat, st, d, i) \in C \cap DataClusters
      PROVE  d \in C \/ (d = p /\ i = s)
  <2>1. CASE Ref(fat, st, d, i) = h
    BY <1>1, <1>5, <2>1 DEF OneOwner
  <2>2. CASE Ref(fat, st, d, i) # h
    <3>1. PICK d2 \in C, i2 \in Indices : Ref(fat, st, d2, i2) = Ref(fat, st, d, i)
      BY <1>0, <1>2, <1>5, <2>2, LedToFromInside DEF h
    <3>2. d2 \in Clusters
      BY <1>3, ClusterFacts DEF Held, ROOT_CLUSTER_NUMBER
    <3> QED BY <1>5, <3>1, <3>2 DEF OneOwner
  <2> QED BY <2>1, <2>2
<1>6. ASSUME p \in C PROVE FALSE
  <2> DEFINE D == (Clusters \ C) \cup {0}
  <2>1. p # 0 /\ p \in DataClusters /\ fat[p] # EMPTY
    <3>1. p # 0
      BY DEF Live, IsDir, Reserved
    <3> QED BY <1>3, <1>4, <1>6, <3>1 DEF Held
  <2>2. \A i \in Indices : Ref(fat, st, 0, i) \notin DataClusters
    BY ClusterFacts DEF Reserved, Ref, Live, IsDir, EMPTY
  <2>3. \A d \in D \cap Held(fat), i \in Indices :
           Ref(fat, st, d, i) \in DataClusters => Ref(fat, st, d, i) \in D
    <3> SUFFICES ASSUME NEW d \in D, NEW i \in Indices, Ref(fat, st, d, i) \in DataClusters,
                        Ref(fat, st, d, i) \in C
                 PROVE  FALSE
      BY ClusterFacts
    <3>1. d \in Clusters
      BY ClusterFacts
    <3>2. d \in C
      BY <1>5, <1>6, <3>1
    <3> QED BY <2>2, <3>2
  <2>4. D \in SUBSET Clusters /\ ROOT_CLUSTER_NUMBER \in D /\ 0 \in D
        /\ ROOT_CLUSTER_NUMBER \in Held(fat) /\ p \notin D
    BY <1>4, <1>6, <2>1, ClusterFacts DEF Held, ROOT_CLUSTER_NUMBER
  <2> HIDE DEF D
  <2>5. Reach(fat, st, ROOT_CLUSTER_NUMBER) \subseteq D
    BY <1>0, <2>3, <2>4, ReachMin
  <2> QED BY <2>1, <2>4, <2>5 DEF NoneLost
<1> QED BY <1>2, <1>3, <1>4, <1>5, <1>6 DEF h

\* fat2 and st2 are fat and st without the clusters of C and the entry in slot s of
\* directory p: everything else is as it was.
IsErased(fat, st, p, s, C, fat2, st2) ==
    /\ Types(fat2, st2)
    /\ \A c \in Clusters : fat2[c] = IF c \in C THEN EMPTY ELSE fat[c]
    /\ \A c \in Clusters : (st2[c].kind = "dir") = (c \notin C /\ st[c].kind = "dir")
    /\ \A d \in Clusters \ C : d # p => st2[d] = st[d]
    /\ st2[p].up = st[p].up
    /\ \A d \in Clusters, i \in Slots :
          Live(fat2, st2, d, i) <=>
             d \notin C /\ Live(fat, st, d, i) /\ ~(d = p /\ i = s)
    /\ \A d \in Clusters, i \in Slots :
          Live(fat2, st2, d, i) => st2[d].table[i] = st[d].table[i]

\* That is what FreedTable and Erased make of them.
LEMMA AfterErase ==
    ASSUME NEW fat, NEW st, Types(fat, st), NEW p \in Clusters, NEW s \in Slots,
           Live(fat, st, p, s), NEW C \in SUBSET Clusters, p \notin C
    PROVE  IsErased(fat, st, p, s, C, FreedTable(fat, C), Erased(st, C, p, s))
<1> DEFINE fat2 == FreedTable(fat, C)
           st1  == [c \in Clusters |-> IF c \in C THEN Zeros ELSE st[c]]
           st2  == Erased(st, C, p, s)
           tab  == [t \in Slots |-> IF t = s THEN NoEntry ELSE st[p].table[t]]
<1>1. st1[p] = st[p] /\ st[p].kind = "dir"
  BY DEF Live, IsDir
<1>2. tab = [t \in Slots |-> IF t = s THEN NoEntry ELSE Table(st1, p)[t]]
  BY <1>1 DEF Table
<1>3. st2 = [c \in Clusters |-> IF c # p THEN st1[c]
                                ELSE [kind |-> "dir", up |-> st[p].up, table |-> tab]]
  BY <1>1, <1>2 DEF Erased, SetSlot
<1>4. st[p].up \in Clusters /\ st[p].table \in [Slots -> Entries \cup {NoEntry}]
  BY <1>1, BlockFacts DEF Types
<1>5. [kind |-> "dir", up |-> st[p].up, table |-> tab] \in Blocks
  <2>1. tab \in [Slots -> Entries \cup {NoEntry}]
    BY <1>4
  <2> HIDE DEF tab
  <2> QED BY <1>4, <2>1, BlockFacts
<1>6. fat2 \in [Clusters -> FatValues]
  BY ClusterFacts DEF FreedTable, Types, FatValues, EMPTY
<1>7. st2 \in [Clusters -> Blocks]
  <2>1. \A c \in Clusters : st1[c] \in Blocks
    BY BlockFacts DEF Types
  <2> HIDE DEF st2, st1, tab
  <2> QED BY <1>3, <1>5, <2>1
<1>8. \A c \in Clusters : fat2[c] = IF c \in C THEN EMPTY ELSE fat[c]
  BY DEF FreedTable
<1>9. \A d \in Clusters : /\ d \in C => st2[d] = Zeros
                          /\ d \notin C /\ d # p => st2[d] = st[d]
  <2> HIDE DEF st2, tab
  <2> QED BY <1>3
<1>10. st2[p].kind = "dir" /\ st2[p].table = tab /\ st2[p].up = st[p].up
  <2> HIDE DEF st2, tab
  <2> QED BY <1>3
<1>11. tab[s] = NoEntry /\ \A t \in Slots : t # s => tab[t] = st[p].table[t]
  OBVIOUS
<1> HIDE DEF fat2, st2, tab, st1
<1>12. EMPTY # EOF
  BY ClusterFacts DEF EMPTY
<1>13. \A d \in Clusters, i \in Slots :
          /\ Live(fat2, st2, d, i) <=>
                d \notin C /\ Live(fat, st, d, i) /\ ~(d = p /\ i = s)
          /\ Live(fat2, st2, d, i) => st2[d].table[i] = st[d].table[i]
  <2> SUFFICES ASSUME NEW d \in Clusters, NEW i \in Slots
               PROVE  /\ Live(fat2, st2, d, i) <=>
                            d \notin C /\ Live(fat, st, d, i) /\ ~(d = p /\ i = s)
                      /\ Live(fat2, st2, d, i) => st2[d].table[i] = st[d].table[i]
    OBVIOUS
  <2>1. CASE d \in C
    BY <1>8, <1>12, <2>1 DEF Live, IsDir, IsParent
  <2>2. CASE d \notin C /\ d # p
    BY <1>8, <1>9, <2>2 DEF Live, IsDir, IsParent
  <2>3. CASE d = p
    BY <1>1, <1>8, <1>10, <1>11, <2>3 DEF Live, IsDir, IsParent
  <2> QED BY <2>1, <2>2, <2>3
<1>14. \A c \in Clusters : (st2[c].kind = "dir") = (c \notin C /\ st[c].kind = "dir")
  BY <1>1, <1>9, <1>10, BlockFacts
<1>15. Types(fat2, st2)
  BY <1>6, <1>7 DEF Types
<1>16. IsErased(fat, st, p, s, C, fat2, st2)
  BY <1>8, <1>9, <1>10, <1>13, <1>14, <1>15 DEF IsErased
<1> QED BY <1>16 DEF fat2, st2
\* A deletion leaves a sound file system: nothing that is left was led to from
\* what is freed, and nothing that is left is reached only through it.
LEMMA EraseSound ==
    ASSUME NEW fat, NEW st, Sound(fat, st), NEW p \in Clusters, NEW s \in Slots,
           Live(fat, st, p, s), NEW C, C = Reach(fat, st, st[p].table[s].cluster)
    PROVE  Sound(FreedTable(fat, C), Erased(st, C, p, s))
<1> USE DEF Sound
<1> DEFINE h    == st[p].table[s].cluster
           fat2 == FreedTable(fat, C)
           st2  == Erased(st, C, p, s)
<1>0. Linked(fat, st)
  BY DEF Linked
<1>1. /\ h \in C /\ h \in Held(fat)
      /\ C \subseteq Held(fat) /\ ROOT_CLUSTER_NUMBER \notin C
      /\ \A d \in C, i \in Indices :
            Ref(fat, st, d, i) \in DataClusters => Ref(fat, st, d, i) \in C
      /\ \A d \in Clusters, i \in Indices :
            Ref(fat, st, d, i) \in C \cap DataClusters => d \in C \/ (d = p /\ i = s)
      /\ p \notin C
  BY FreedIsApart
<1>2. Held(fat) \subseteq Clusters /\ C \in SUBSET Clusters /\ 1 \notin C
  BY <1>1, ClusterFacts DEF Held, ROOT_CLUSTER_NUMBER
<1>3. /\ Types(fat2, st2)
      /\ \A c \in Clusters : fat2[c] = IF c \in C THEN EMPTY ELSE fat[c]
      /\ \A c \in Clusters : (st2[c].kind = "dir") = (c \notin C /\ st[c].kind = "dir")
      /\ \A d \in Clusters \ C : d # p => st2[d] = st[d]
      /\ st2[p].up = st[p].up
      /\ \A d \in Clusters, i \in Slots :
            Live(fat2, st2, d, i) <=>
               d \notin C /\ Live(fat, st, d, i) /\ ~(d = p /\ i = s)
      /\ \A d \in Clusters, i \in Slots :
            Live(fat2, st2, d, i) => st2[d].table[i] = st[d].table[i]
  <2>1. IsErased(fat, st, p, s, C, fat2, st2)
    BY <1>1, <1>2, AfterErase
  <2> HIDE DEF fat2, st2
  <2> QED BY <2>1 DEF IsErased
<1> HIDE DEF fat2, st2, h
<1>4. \A d \in Clusters, i \in Indices :
          Ref(fat2, st2, d, i) =
             IF d \in C \/ (d = p /\ i = s) THEN EMPTY ELSE Ref(fat, st, d, i)
  <2> SUFFICES ASSUME NEW d \in Clusters, NEW i \in Indices
               PROVE  Ref(fat2, st2, d, i) =
                         IF d \in C \/ (d = p /\ i = s) THEN EMPTY ELSE Ref(fat, st, d, i)
    OBVIOUS
  <2>1. CASE i = 0
    BY <1>3, <2>1, ClusterFacts DEF Ref
  <2>2. CASE i # 0
    <3>1. i \in Slots
      BY <2>2 DEF Indices
    <3> QED BY <1>3, <2>2, <3>1 DEF Ref
  <2> QED BY <2>1, <2>2
<1>5. EMPTY \notin DataClusters /\ EMPTY \notin {1, ROOT_CLUSTER_NUMBER} /\ EMPTY # EOF
  BY ClusterFacts DEF EMPTY, ROOT_CLUSTER_NUMBER
<1>6. \A d \in Clusters, i \in Indices :
          Ref(fat2, st2, d, i) \in DataClusters =>
             /\ d \notin C /\ ~(d = p /\ i = s)
             /\ Ref(fat2, st2, d, i) = Ref(fat, st, d, i)
             /\ Ref(fat, st, d, i) \notin C
  BY <1>1, <1>4, <1>5
<1>7. Reserved(fat2, st2)
  <2>1. fat2[0] \notin DataClusters /\ fat2[1] \notin DataClusters
    BY <1>3, <1>5, ClusterFacts DEF Reserved
  <2>2. st2[0].kind # "dir" /\ st2[1].kind # "dir"
    BY <1>3, ClusterFacts DEF Reserved
  <2>3. IsDir(fat2, st2, ROOT_CLUSTER_NUMBER)
    BY <1>1, <1>3, ClusterFacts DEF Reserved, IsDir, IsParent, ROOT_CLUSTER_NUMBER
  <2> QED BY <2>1, <2>2, <2>3 DEF Reserved
<1>8. RefsInside(fat2, st2)
  <2> SUFFICES ASSUME NEW d \in Clusters, NEW i \in Indices
               PROVE  /\ Ref(fat2, st2, d, i) \notin {1, ROOT_CLUSTER_NUMBER}
                      /\ Ref(fat2, st2, d, i) \in DataClusters =>
                            fat2[Ref(fat2, st2, d, i)] # EMPTY
    BY DEF RefsInside
  <2>1. Ref(fat2, st2, d, i) \notin {1, ROOT_CLUSTER_NUMBER}
    BY <1>4, <1>5 DEF RefsInside
  <2>2. ASSUME Ref(fat2, st2, d, i) \in DataClusters
        PROVE  fat2[Ref(fat2, st2, d, i)] # EMPTY
    <3>1. PICK c \in DataClusters : c = Ref(fat2, st2, d, i)
      BY <2>2
    <3>2. c = Ref(fat, st, d, i) /\ c \notin C /\ c \in Clusters
      BY <1>6, <3>1, ClusterFacts
    <3>3. fat[c] # EMPTY
      BY <3>2 DEF RefsInside
    <3> QED BY <1>3, <3>1, <3>2, <3>3
  <2> QED BY <2>1, <2>2
<1>9. OneOwner(fat2, st2)
  <2> SUFFICES ASSUME NEW d \in Clusters, NEW e \in Clusters, NEW i \in Indices,
                      NEW j \in Indices, Ref(fat2, st2, d, i) \in DataClusters,
                      Ref(fat2, st2, d, i) = Ref(fat2, st2, e, j)
               PROVE  d = e /\ i = j
    BY DEF OneOwner
  <2>1. Ref(fat, st, d, i) \in DataClusters /\ Ref(fat, st, d, i) = Ref(fat, st, e, j)
    BY <1>6
  <2> QED BY <2>1 DEF OneOwner
<1>10. KindsAgree(fat2, st2)
  <2>1. ASSUME NEW c \in DataClusters, fat2[c] # EMPTY, st2[c].kind = "dir"
        PROVE  fat2[c] = EOF
    BY <1>3, <2>1, ClusterFacts DEF KindsAgree
  <2>2. ASSUME NEW d \in Clusters, fat2[d] \in DataClusters
        PROVE  st2[fat2[d]].kind # "dir"
    BY <1>3, <1>5, <2>2, ClusterFacts DEF KindsAgree
  <2>3. ASSUME NEW q \in Clusters, NEW t \in Slots, Live(fat2, st2, q, t)
        PROVE  LET e == st2[q].table[t]
               IN  IF e.folder
                   THEN /\ e.cluster \in DataClusters
                        /\ st2[e.cluster].kind = "dir" /\ st2[e.cluster].up = q
                   ELSE st2[e.cluster].kind # "dir"
    <3> DEFINE e == st[q].table[t]
    <3>1. st2[q].table[t] = e /\ Live(fat, st, q, t) /\ e.cluster \in Clusters
      BY <1>3, <2>3, LiveEntry
    <3>2. IF e.folder
          THEN /\ e.cluster \in DataClusters
               /\ st[e.cluster].kind = "dir" /\ st[e.cluster].up = q
          ELSE st[e.cluster].kind # "dir"
      BY <3>1 DEF KindsAgree
    <3>3. t \in Indices /\ Ref(fat2, st2, q, t) = e.cluster
      BY <2>3, <3>1, ClusterFacts DEF Ref, Indices
    <3>4. e.cluster \in DataClusters => e.cluster \notin C
      BY <1>6, <3>3
    <3> HIDE DEF e
    <3>5. CASE e.folder
      BY <1>3, <3>1, <3>2, <3>4, <3>5
    <3>6. CASE ~e.folder
      BY <1>3, <3>1, <3>2, <3>6
    <3> QED BY <3>1, <3>5, <3>6
  <2> QED BY <2>1, <2>2, <2>3 DEF KindsAgree
<1>11. UniqueKeys(fat2, st2)
  <2> SUFFICES ASSUME NEW q \in Clusters, NEW t \in Slots, NEW u \in Slots,
                      Live(fat2, st2, q, t), Live(fat2, st2, q, u),
                      st2[q].table[t].name = st2[q].table[u].name,
                      st2[q].table[t].ext = st2[q].table[u].ext
               PROVE  t = u
    BY DEF UniqueKeys
  <2> QED BY <1>3 DEF UniqueKeys
<1>12. NoneLost(fat2, st2)
  <2> DEFINE R == Reach(fat2, st2, ROOT_CLUSTER_NUMBER)
             D == R \cup C \cup {0}
  <2>1. Linked(fat2, st2) /\ ROOT_CLUSTER_NUMBER \in Held(fat2)
        /\ ROOT_CLUSTER_NUMBER \in Held(fat) /\ Held(fat2) \subseteq Clusters
    BY <1>3, <1>7, <1>8, <1>10, ClusterFacts DEF Linked, Held, ROOT_CLUSTER_NUMBER
  <2>2. /\ R \subseteq Held(fat2) /\ ROOT_CLUSTER_NUMBER \in R
        /\ \A d \in R, i \in Indices :
              Ref(fat2, st2, d, i) \in DataClusters => Ref(fat2, st2, d, i) \in R
    BY <2>1, ReachStep
  <2> HIDE DEF R
  <2>3. \A i \in Indices : Ref(fat, st, 0, i) \notin DataClusters
    BY ClusterFacts DEF Reserved, Ref, Live, IsDir, EMPTY
  <2>4. ASSUME NEW d \in D \cap Held(fat), NEW i \in Indices, Ref(fat, st, d, i) \in DataClusters
        PROVE  Ref(fat, st, d, i) \in D
    <3>1. CASE d \in C
      BY <1>1, <2>4, <3>1
    <3>2. CASE d = p /\ i = s
      <4>1. Ref(fat, st, d, i) = h
        BY <3>2, ClusterFacts DEF Ref, h
      <4> QED BY <1>1, <4>1
    <3>3. CASE d \notin C /\ ~(d = p /\ i = s)
      <4>1. d \in R
        BY <2>3, <2>4, <3>3
      <4>2. Ref(fat2, st2, d, i) = Ref(fat, st, d, i)
        BY <1>2, <1>4, <3>3
      <4> QED BY <2>2, <2>4, <4>1, <4>2
    <3> QED BY <3>1, <3>2, <3>3
  <2>5. D \in SUBSET Clusters /\ ROOT_CLUSTER_NUMBER \in D /\ 0 \in D
    BY <1>2, <2>1, <2>2, ClusterFacts
  <2>6. D = R \cup C \cup {0}
    OBVIOUS
  <2> HIDE DEF D
  <2>7. Reach(fat, st, ROOT_CLUSTER_NUMBER) \subseteq D
    BY <1>0, <2>1, <2>4, <2>5, ReachMin
  <2> SUFFICES ASSUME NEW c \in DataClusters, fat2[c] # EMPTY
               PROVE  c \in R
    BY DEF NoneLost, R
  <2>8. c \notin C /\ fat[c] # EMPTY /\ c # 0
    BY <1>3, ClusterFacts
  <2> QED BY <2>6, <2>7, <2>8 DEF NoneLost
<1> QED BY <1>3, <1>7, <1>8, <1>9, <1>10, <1>11, <1>12 DEF fat2, st2
-----------------------------------------------------------------------------
(* Adding a file or a folder. *)

Taken(m, a) == {a[k] : k \in 0 .. m - 1}

\* fat2 and st2 are fat and st with entry e in the empty slot s of directory p
\* and blocks b in the chain a of m free clusters.
Added(fat, st, p, s, e, m, a, b, fat2, st2) ==
    /\ m \in Nat /\ a \in [0 .. m - 1 -> FreeClusters(fat)]
    /\ \A j, k \in 0 .. m - 1 : a[j] = a[k] => j = k
    /\ e \in Entries /\ e.cluster = IF m = 0 THEN 0 ELSE a[0]
    /\ IF e.folder THEN m = 1 /\ b[0] = EmptyDirectory(p)
       ELSE \A k \in 0 .. m - 1 : b[k].kind # "dir"
    /\ Types(fat2, st2)
    /\ \A k \in 0 .. m - 1 :
          fat2[a[k]] = (IF k = m - 1 THEN EOF ELSE a[k + 1]) /\ st2[a[k]] = b[k]
    /\ \A c \in Clusters \ Taken(m, a) : c # 0 => fat2[c] = fat[c]
    /\ fat2[0] \in {fat[0], EOF}
    /\ \A c \in Clusters \ Taken(m, a) : c # p => st2[c] = st[c]
    /\ st2[p].kind = "dir" /\ st2[p].up = st[p].up
    /\ \A t \in Slots : st2[p].table[t] = IF t = s THEN e ELSE st[p].table[t]

\* The key of e is not in directory p.
NewKey(fat, st, p, e) ==
    \A t \in Slots : Live(fat, st, p, t) =>
        ~(st[p].table[t].name = e.name /\ st[p].table[t].ext = e.ext)

\* The references after an entry is added: to the head of the chain from the
\* entry, along the chain, and the old ones.
LEMMA AddedRefs ==
    ASSUME NEW fat, NEW st, Sound(fat, st), NEW p \in Clusters, NEW s \in Slots,
           IsDir(fat, st, p), ~Live(fat, st, p, s), NEW e, NEW m, NEW a, NEW b,
           NEW fat2, NEW st2, Added(fat, st, p, s, e, m, a, b, fat2, st2)
    PROVE  /\ Taken(m, a) \subseteq DataClusters
           /\ \A c \in Taken(m, a) : fat[c] = EMPTY
           /\ p \notin Taken(m, a) /\ p # 0 /\ p # 1
           /\ Live(fat2, st2, p, s) /\ st2[p].table[s] = e
           /\ \A d \in Clusters, i \in Slots : ~(d = p /\ i = s) =>
                 /\ Live(fat2, st2, d, i) <=> d \notin Taken(m, a) /\ Live(fat, st, d, i)
                 /\ Live(fat2, st2, d, i) => st2[d].table[i] = st[d].table[i]
           /\ \A k \in 0 .. m - 1 :
                 Ref(fat2, st2, a[k], 0) = IF k = m - 1 THEN EOF ELSE a[k + 1]
           /\ \A c \in Taken(m, a), i \in Slots : Ref(fat2, st2, c, i) = EMPTY
           /\ Ref(fat2, st2, p, s) = e.cluster /\ Ref(fat, st, p, s) = EMPTY
           /\ fat2[0] \notin DataClusters /\ fat2[0] \notin {1, ROOT_CLUSTER_NUMBER}
           /\ \A d \in Clusters \ Taken(m, a), i \in Indices :
                 ~(d = p /\ i = s) /\ ~(d = 0 /\ i = 0) =>
                    Ref(fat2, st2, d, i) = Ref(fat, st, d, i)
<1> USE DEF Sound
<1> DEFINE A == Taken(m, a)
<1>1. A \subseteq DataClusters /\ \A c \in A : fat[c] = EMPTY
  BY DEF Added, Taken, FreeClusters
<1>2. p \notin A /\ p # 0 /\ p # 1
  BY <1>1, ClusterFacts DEF IsDir, IsParent, EMPTY, Reserved
<1>3. IsDir(fat2, st2, p)
  BY <1>2 DEF Added, IsDir, IsParent
<1>4. e # NoEntry
  BY NoEntryAssumption DEF Added
<1>5. st2[p].table[s] = e /\ Live(fat2, st2, p, s)
  BY <1>3, <1>4 DEF Added, Live
<1>6. ASSUME NEW k \in 0 .. m - 1, NEW i \in Slots
      PROVE  ~Live(fat2, st2, a[k], i) /\ ~Live(fat, st, a[k], i)
  <2>0. a[k] \in A
    BY DEF Taken
  <2>1. ~Live(fat, st, a[k], i)
    BY <1>1, <2>0, ClusterFacts DEF Live, IsDir, IsParent, EMPTY
  <2>2. CASE e.folder
    <3>1. k = 0 /\ st2[a[k]] = EmptyDirectory(p)
      BY <2>2 DEF Added
    <3>2. EmptyDirectory(p).table[i] = NoEntry
      BY DEF EmptyDirectory
    <3> QED BY <2>1, <3>1, <3>2 DEF Live
  <2>3. CASE ~e.folder
    BY <2>1, <2>3 DEF Live, IsDir, Added
  <2> QED BY <2>2, <2>3
<1>7. ASSUME NEW d \in Clusters, NEW i \in Slots, ~(d = p /\ i = s)
      PROVE  /\ Live(fat2, st2, d, i) <=> d \notin A /\ Live(fat, st, d, i)
             /\ Live(fat2, st2, d, i) => st2[d].table[i] = st[d].table[i]
  <2>1. CASE d \in A
    <3>1. PICK k \in 0 .. m - 1 : d = a[k]
      BY <2>1 DEF Taken
    <3> QED BY <1>6, <2>1, <3>1
  <2>2. CASE d = p
    BY <1>2, <1>3, <1>7, <2>2 DEF Live, Added
  <2>3. CASE d \notin A /\ d # p /\ d # 0
    BY <2>3 DEF Added, Live, IsDir, IsParent
  <2>4. CASE d = 0
    BY <1>1, <1>2, <2>4, ClusterFacts DEF Added, Live, IsDir, Reserved
  <2> QED BY <2>1, <2>2, <2>3, <2>4
<1>8. \A k \in 0 .. m - 1 : Ref(fat2, st2, a[k], 0) = IF k = m - 1 THEN EOF ELSE a[k + 1]
  BY DEF Added, Ref
<1>9. \A c \in A, i \in Slots : Ref(fat2, st2, c, i) = EMPTY
  BY <1>6, ClusterFacts DEF Taken, Ref
<1>10. Ref(fat2, st2, p, s) = e.cluster /\ Ref(fat, st, p, s) = EMPTY
  BY <1>5, ClusterFacts DEF Ref
<1>11. fat2[0] \notin DataClusters /\ fat2[0] \notin {1, ROOT_CLUSTER_NUMBER}
  <2>1. fat[0] \notin DataClusters /\ fat[0] \notin {1, ROOT_CLUSTER_NUMBER}
    <3>1. Ref(fat, st, 0, 0) = fat[0] /\ 0 \in Indices
      BY DEF Ref, Indices
    <3> QED BY <3>1, ClusterFacts DEF Reserved, RefsInside
  <2>2. EOF \notin DataClusters /\ EOF \notin {1, ROOT_CLUSTER_NUMBER}
    BY ClusterFacts DEF ROOT_CLUSTER_NUMBER
  <2> QED BY <2>1, <2>2 DEF Added
<1>12. ASSUME NEW d \in Clusters \ A, NEW i \in Indices, ~(d = p /\ i = s), ~(d = 0 /\ i = 0)
       PROVE  Ref(fat2, st2, d, i) = Ref(fat, st, d, i)
  <2>1. CASE i = 0
    BY <1>12, <2>1 DEF Added, Ref
  <2>2. CASE i # 0
    <3>1. i \in Slots
      BY <2>2 DEF Indices
    <3> QED BY <1>7, <1>12, <2>2, <3>1 DEF Ref
  <2> QED BY <2>1, <2>2
<1> HIDE DEF A
<1> QED BY <1>1, <1>2, <1>5, <1>7, <1>8, <1>9, <1>10, <1>11, <1>12 DEF A
\* Adding an entry leaves a sound file system: the clusters of its chain were led
\* to from nowhere, and now hang below a directory that is reached.
LEMMA AddSound ==
    ASSUME NEW fat, NEW st, Sound(fat, st), NEW p \in Clusters, NEW s \in Slots,
           IsDir(fat, st, p), ~Live(fat, st, p, s), NEW e, NEW m, NEW a, NEW b,
           NEW fat2, NEW st2, Added(fat, st, p, s, e, m, a, b, fat2, st2),
           NewKey(fat, st, p, e)
    PROVE  Sound(fat2, st2)
<1> USE DEF Sound
<1> DEFINE A == Taken(m, a)
<1>1. /\ A \subseteq DataClusters
      /\ \A c \in A : fat[c] = EMPTY
      /\ p \notin A /\ p # 0 /\ p # 1
      /\ Live(fat2, st2, p, s) /\ st2[p].table[s] = e
      /\ \A d \in Clusters, i \in Slots : ~(d = p /\ i = s) =>
            /\ Live(fat2, st2, d, i) <=> d \notin A /\ Live(fat, st, d, i)
            /\ Live(fat2, st2, d, i) => st2[d].table[i] = st[d].table[i]
      /\ \A k \in 0 .. m - 1 : Ref(fat2, st2, a[k], 0) = IF k = m - 1 THEN EOF ELSE a[k + 1]
      /\ \A c \in A, i \in Slots : Ref(fat2, st2, c, i) = EMPTY
      /\ Ref(fat2, st2, p, s) = e.cluster /\ Ref(fat, st, p, s) = EMPTY
      /\ fat2[0] \notin DataClusters /\ fat2[0] \notin {1, ROOT_CLUSTER_NUMBER}
      /\ \A d \in Clusters \ A, i \in Indices :
            ~(d = p /\ i = s) /\ ~(d = 0 /\ i = 0) => Ref(fat2, st2, d, i) = Ref(fat, st, d, i)
  BY AddedRefs
<1>2. /\ m \in Nat /\ \A k \in 0 .. m - 1 : a[k] \in A
      /\ \A c \in A : \E k \in 0 .. m - 1 : c = a[k]
      /\ \A j, k \in 0 .. m - 1 : a[j] = a[k] => j = k
      /\ \A k \in 0 .. m - 1 : k # m - 1 => k + 1 \in 0 .. m - 1 /\ a[k + 1] \in A
      /\ m # 0 => 0 \in 0 .. m - 1
  BY DEF Added, Taken
<1>3. /\ Types(fat2, st2)
      /\ e.cluster = IF m = 0 THEN 0 ELSE a[0]
      /\ IF e.folder THEN m = 1 /\ b[0] = EmptyDirectory(p)
         ELSE \A k \in 0 .. m - 1 : b[k].kind # "dir"
      /\ \A k \in 0 .. m - 1 :
            fat2[a[k]] = (IF k = m - 1 THEN EOF ELSE a[k + 1]) /\ st2[a[k]] = b[k]
      /\ \A c \in Clusters \ A : c # 0 => fat2[c] = fat[c]
      /\ \A c \in Clusters \ A : c # p => st2[c] = st[c]
      /\ st2[p].kind = "dir" /\ st2[p].up = st[p].up
  BY DEF Added
<1> HIDE DEF A
<1>4. EMPTY # EOF /\ EMPTY = 0 /\ EOF \notin Clusters /\ EMPTY \notin DataClusters
  BY ClusterFacts DEF EMPTY
<1>5. \A c \in A : fat2[c] # EMPTY
  <2> SUFFICES ASSUME NEW k \in 0 .. m - 1 PROVE fat2[a[k]] # EMPTY
    BY <1>2
  <2> QED BY <1>1, <1>2, <1>3, <1>4
<1>6. \A c \in Clusters \ A : (st2[c].kind = "dir") = (st[c].kind = "dir")
  BY <1>1, <1>3 DEF IsDir
<1>7. \A d \in Clusters, i \in Indices : Ref(fat, st, d, i) \notin A
  BY <1>1 DEF RefsInside
\* What leads to a data cluster after the step.
<1>8. ASSUME NEW d \in Clusters, NEW i \in Indices, NEW c \in DataClusters,
             Ref(fat2, st2, d, i) = c
      PROVE  \/ c \notin A /\ Ref(fat, st, d, i) = c
             \/ m # 0 /\ c = a[0] /\ d = p /\ i = s
             \/ \E k \in 0 .. m - 1 : k # m - 1 /\ c = a[k + 1] /\ d = a[k] /\ i = 0
  <2>1. CASE d \in A
    <3>1. PICK k \in 0 .. m - 1 : d = a[k]
      BY <1>2, <2>1
    <3>2. i = 0
      BY <1>1, <1>4, <1>8, <2>1 DEF Indices
    <3> QED BY <1>1, <1>4, <1>8, <3>1, <3>2, ClusterFacts
  <2>2. CASE d = p /\ i = s
    <3>1. m # 0
      BY <1>1, <1>3, <1>4, <1>8, <2>2
    <3> QED BY <1>1, <1>3, <1>8, <2>2, <3>1
  <2>3. CASE d = 0 /\ i = 0
    BY <1>1, <1>8, <2>3 DEF Ref
  <2>4. CASE d \notin A /\ ~(d = p /\ i = s) /\ ~(d = 0 /\ i = 0)
    BY <1>1, <1>7, <1>8, <2>4
  <2> QED BY <2>1, <2>2, <2>3, <2>4
\* So what leads to an old cluster is an old reference.
<1>15. ASSUME NEW d \in Clusters, NEW i \in Indices, NEW c \in DataClusters \ A,
              Ref(fat2, st2, d, i) = c
       PROVE  Ref(fat, st, d, i) = c
  <2>1. m # 0 => a[0] \in A
    BY <1>2
  <2>2. ~\E k \in 0 .. m - 1 : k # m - 1 /\ c = a[k + 1]
    BY <1>2
  <2> QED BY <1>8, <1>15, <2>1, <2>2
<1>9. Reserved(fat2, st2)
  <2>1. 0 \notin A /\ 1 \notin A /\ 2 \notin A
    BY <1>1, ClusterFacts
  <2>2. fat2[1] = fat[1] /\ fat2[2] = fat[2]
    BY <1>3, <2>1, ClusterFacts
  <2> QED BY <1>1, <1>6, <2>1, <2>2, ClusterFacts
           DEF Reserved, IsDir, IsParent, ROOT_CLUSTER_NUMBER
<1>10. RefsInside(fat2, st2)
  <2> SUFFICES ASSUME NEW d \in Clusters, NEW i \in Indices
               PROVE  /\ Ref(fat2, st2, d, i) \notin {1, ROOT_CLUSTER_NUMBER}
                      /\ Ref(fat2, st2, d, i) \in DataClusters =>
                            fat2[Ref(fat2, st2, d, i)] # EMPTY
    BY DEF RefsInside
  <2>0. \A c \in DataClusters \cup {EMPTY, EOF} : c \notin {1, ROOT_CLUSTER_NUMBER}
    BY ClusterFacts DEF EMPTY, ROOT_CLUSTER_NUMBER
  <2>1. Ref(fat2, st2, d, i) \notin {1, ROOT_CLUSTER_NUMBER}
    <3>1. CASE d \in A
      <4>1. PICK k \in 0 .. m - 1 : d = a[k]
        BY <1>2, <3>1
      <4>2. i = 0 \/ i \in Slots
        BY DEF Indices
      <4> QED BY <1>1, <1>2, <2>0, <3>1, <4>1, <4>2
    <3>2. CASE d = p /\ i = s
      BY <1>1, <1>2, <1>3, <1>4, <2>0, <3>2
    <3>3. CASE d = 0 /\ i = 0
      BY <1>1, <3>3 DEF Ref
    <3>4. CASE d \notin A /\ ~(d = p /\ i = s) /\ ~(d = 0 /\ i = 0)
      BY <1>1, <3>4 DEF RefsInside
    <3> QED BY <3>1, <3>2, <3>3, <3>4
  <2>2. ASSUME Ref(fat2, st2, d, i) \in DataClusters
        PROVE  fat2[Ref(fat2, st2, d, i)] # EMPTY
    <3>1. PICK c \in DataClusters : c = Ref(fat2, st2, d, i)
      BY <2>2
    <3>2. CASE c \in A
      BY <1>5, <3>1, <3>2
    <3>3. CASE c \notin A
      <4>1. Ref(fat, st, d, i) = c
        BY <1>15, <3>1, <3>3
      <4>2. fat[c] # EMPTY
        BY <4>1 DEF RefsInside
      <4>3. c # 0 /\ c \in Clusters
        BY ClusterFacts
      <4> QED BY <1>3, <3>1, <3>3, <4>2, <4>3
    <3> QED BY <3>2, <3>3
  <2> QED BY <2>1, <2>2
<1>11. OneOwner(fat2, st2)
  <2> SUFFICES ASSUME NEW d \in Clusters, NEW x \in Clusters, NEW i \in Indices,
                      NEW j \in Indices, NEW c \in DataClusters,
                      c = Ref(fat2, st2, d, i), c = Ref(fat2, st2, x, j)
               PROVE  d = x /\ i = j
    BY DEF OneOwner
  <2>1. CASE c \notin A
    <3>1. Ref(fat, st, d, i) = c /\ Ref(fat, st, x, j) = c
      BY <1>15, <2>1
    <3> QED BY <3>1 DEF OneOwner
  <2>2. CASE c \in A
    <3>1. \/ m # 0 /\ c = a[0] /\ d = p /\ i = s
          \/ \E k \in 0 .. m - 1 : k # m - 1 /\ c = a[k + 1] /\ d = a[k] /\ i = 0
      BY <1>8, <2>2
    <3>4. \/ m # 0 /\ c = a[0] /\ x = p /\ j = s
          \/ \E k \in 0 .. m - 1 : k # m - 1 /\ c = a[k + 1] /\ x = a[k] /\ j = 0
      BY <1>8, <2>2
    <3>2. \A k \in 0 .. m - 1 : k # m - 1 => a[k + 1] # a[0]
      BY <1>2
    <3>3. \A k, l \in 0 .. m - 1 : k # m - 1 /\ l # m - 1 /\ a[k + 1] = a[l + 1] => k = l
      BY <1>2
    <3> QED BY <3>1, <3>2, <3>3, <3>4
  <2> QED BY <2>1, <2>2
<1>12. KindsAgree(fat2, st2)
  <2>1. ASSUME NEW c \in DataClusters, fat2[c] # EMPTY, st2[c].kind = "dir"
        PROVE  fat2[c] = EOF
    <3>1. CASE c \in A
      <4>1. PICK k \in 0 .. m - 1 : c = a[k]
        BY <1>2, <3>1
      <4>2. m = 1
        BY <1>3, <2>1, <4>1
      <4> QED BY <1>3, <4>1, <4>2
    <3>2. CASE c \notin A
      <4>1. c # 0 /\ c \in Clusters
        BY ClusterFacts
      <4>2. fat2[c] = fat[c] /\ st[c].kind = "dir"
        BY <1>3, <1>6, <2>1, <3>2, <4>1
      <4> QED BY <2>1, <4>2 DEF KindsAgree
    <3> QED BY <3>1, <3>2
  <2>2. ASSUME NEW d \in Clusters, fat2[d] \in DataClusters
        PROVE  st2[fat2[d]].kind # "dir"
    <3>1. CASE d \in A
      <4>1. PICK k \in 0 .. m - 1 : d = a[k]
        BY <1>2, <3>1
      <4>2. k # m - 1 /\ fat2[d] = a[k + 1] /\ k + 1 \in 0 .. m - 1
        BY <1>2, <1>3, <1>4, <2>2, <4>1, ClusterFacts
      <4>3. m # 1
        BY <4>2
      <4> QED BY <1>3, <4>2, <4>3
    <3>2. CASE d \notin A
      <4>1. d # 0
        BY <1>1, <2>2
      <4>2. fat2[d] = fat[d]
        BY <1>3, <3>2, <4>1
      <4>3. Ref(fat, st, d, 0) = fat[d] /\ 0 \in Indices
        BY DEF Ref, Indices
      <4>4. fat[d] \notin A /\ fat[d] \in Clusters
        BY <1>7, <2>2, <4>2, <4>3, ClusterFacts
      <4> QED BY <1>6, <2>2, <4>2, <4>4 DEF KindsAgree
    <3> QED BY <3>1, <3>2
  <2>3. ASSUME NEW q \in Clusters, NEW t \in Slots, Live(fat2, st2, q, t)
        PROVE  LET f == st2[q].table[t]
               IN  IF f.folder
                   THEN /\ f.cluster \in DataClusters
                        /\ st2[f.cluster].kind = "dir" /\ st2[f.cluster].up = q
                   ELSE st2[f.cluster].kind # "dir"
    <3>1. CASE q = p /\ t = s
      <4>1. CASE e.folder
        <5>1. e.cluster = a[0] /\ a[0] \in A /\ st2[a[0]] = EmptyDirectory(p)
          BY <1>2, <1>3, <4>1
        <5>2. EmptyDirectory(p).kind = "dir" /\ EmptyDirectory(p).up = p
          BY DEF EmptyDirectory
        <5> QED BY <1>1, <3>1, <4>1, <5>1, <5>2
      <4>2. CASE ~e.folder
        <5>1. CASE m = 0
          <6>1. e.cluster = 0 /\ 0 \notin A /\ 0 \in Clusters
            BY <1>1, <1>3, <5>1, ClusterFacts
          <6> QED BY <1>1, <1>6, <3>1, <4>2, <6>1 DEF Reserved
        <5>2. CASE m # 0
          <6>1. e.cluster = a[0] /\ st2[a[0]] = b[0] /\ b[0].kind # "dir"
            BY <1>2, <1>3, <4>2, <5>2
          <6> QED BY <1>1, <3>1, <4>2, <6>1
        <5> QED BY <5>1, <5>2
      <4> QED BY <4>1, <4>2
    <3>2. CASE ~(q = p /\ t = s)
      <4> DEFINE f == st[q].table[t]
      <4>1. Live(fat, st, q, t) /\ st2[q].table[t] = f
        BY <1>1, <2>3, <3>2
      <4>2. f.cluster \in Clusters
        BY <4>1, LiveEntry
      <4>3. t \in Indices /\ Ref(fat, st, q, t) = f.cluster
        BY <4>1, ClusterFacts DEF Ref, Indices
      <4>4. IF f.folder
            THEN /\ f.cluster \in DataClusters
                 /\ st[f.cluster].kind = "dir" /\ st[f.cluster].up = q
            ELSE st[f.cluster].kind # "dir"
        BY <4>1 DEF KindsAgree
      <4> HIDE DEF f
      <4>5. f.cluster \notin A
        BY <1>7, <4>3
      <4>6. st2[f.cluster].up = st[f.cluster].up
        BY <1>3, <4>2, <4>5
      <4> QED BY <1>6, <4>1, <4>2, <4>4, <4>5, <4>6
    <3> QED BY <3>1, <3>2
  <2> QED BY <2>1, <2>2, <2>3 DEF KindsAgree
<1>13. UniqueKeys(fat2, st2)
  <2> SUFFICES ASSUME NEW q \in Clusters, NEW t \in Slots, NEW u \in Slots,
                      Live(fat2, st2, q, t), Live(fat2, st2, q, u),
                      st2[q].table[t].name = st2[q].table[u].name,
                      st2[q].table[t].ext = st2[q].table[u].ext
               PROVE  t = u
    BY DEF UniqueKeys
  <2>1. CASE q = p /\ (t = s \/ u = s)
    BY <1>1, <2>1 DEF NewKey
  <2>2. CASE ~(q = p /\ (t = s \/ u = s))
    BY <1>1, <2>2 DEF UniqueKeys
  <2> QED BY <2>1, <2>2
<1>14. NoneLost(fat2, st2)
  <2> DEFINE R == Reach(fat2, st2, ROOT_CLUSTER_NUMBER)
             D == R \cup {0}
  <2>1. Linked(fat, st) /\ Linked(fat2, st2) /\ ROOT_CLUSTER_NUMBER \in Held(fat2)
        /\ ROOT_CLUSTER_NUMBER \in Held(fat) /\ Held(fat2) \subseteq Clusters
        /\ Held(fat) \subseteq Clusters
    BY <1>3, <1>9, <1>10, <1>12, ClusterFacts DEF Linked, Held, ROOT_CLUSTER_NUMBER
  <2>2. /\ R \subseteq Held(fat2) /\ ROOT_CLUSTER_NUMBER \in R
        /\ \A d \in R, i \in Indices :
              Ref(fat2, st2, d, i) \in DataClusters => Ref(fat2, st2, d, i) \in R
    BY <2>1, ReachStep
  <2>3. \A i \in Indices : Ref(fat, st, 0, i) \notin DataClusters
    BY ClusterFacts DEF Reserved, Ref, Live, IsDir, EMPTY
  <2> HIDE DEF R
  <2>4. ASSUME NEW d \in D \cap Held(fat), NEW i \in Indices, Ref(fat, st, d, i) \in DataClusters
        PROVE  Ref(fat, st, d, i) \in D
    <3>1. d # 0 /\ d \in R /\ d \in Clusters
      BY <2>1, <2>3, <2>4
    <3>2. d \notin A
      BY <1>1, <2>4, ClusterFacts DEF Held, ROOT_CLUSTER_NUMBER
    <3>3. ~(d = p /\ i = s)
      BY <1>1, <1>4, <2>4
    <3>4. Ref(fat2, st2, d, i) = Ref(fat, st, d, i)
      BY <1>1, <3>1, <3>2, <3>3
    <3> QED BY <2>2, <2>4, <3>1, <3>4
  <2>5. D \in SUBSET Clusters /\ ROOT_CLUSTER_NUMBER \in D /\ 0 \in D
    BY <2>1, <2>2, ClusterFacts
  <2>6. D = R \cup {0}
    OBVIOUS
  <2> HIDE DEF D
  <2>7. Reach(fat, st, ROOT_CLUSTER_NUMBER) \subseteq D
    BY <2>1, <2>4, <2>5, ReachMin
  <2>8. \A c \in DataClusters : fat[c] # EMPTY => c \in R
    BY <2>6, <2>7, ClusterFacts DEF NoneLost
  <2>9. p \in R
    <3>1. CASE p = ROOT_CLUSTER_NUMBER
      BY <2>2, <3>1
    <3>2. CASE p # ROOT_CLUSTER_NUMBER
      <4>1. p \in DataClusters
        BY <1>1, <3>2, ClusterFacts DEF ROOT_CLUSTER_NUMBER
      <4> QED BY <1>4, <2>8, <4>1 DEF IsDir, IsParent
    <3> QED BY <3>1, <3>2
  <2>10. \A k \in 0 .. m - 1 : a[k] \in R
    <3> DEFINE Bad == {k \in 0 .. m - 1 : a[k] \notin R}
    <3> SUFFICES ASSUME Bad # {} PROVE FALSE
      OBVIOUS
    <3>1. PICK k \in Bad : IsFirst(Bad, k)
      <4>1. Bad \in SUBSET Nat
        BY <1>2
      <4> QED BY <4>1, LeastMember
    <3>2. k \in 0 .. m - 1 /\ a[k] \in A /\ a[k] \in DataClusters
      BY <1>1, <1>2
    <3>3. CASE k = 0
      <4>1. m # 0
        BY <1>2, <3>2
      <4>2. Ref(fat2, st2, p, s) = a[0] /\ s \in Indices
        BY <1>1, <1>3, <4>1 DEF Indices
      <4> QED BY <2>2, <2>9, <3>2, <3>3, <4>2
    <3>4. CASE k # 0
      <4>1. k - 1 \in 0 .. m - 1 /\ k - 1 # m - 1 /\ (k - 1) + 1 = k
        BY <1>2, <3>2, <3>4
      <4>2. a[k - 1] \in R
        BY <1>2, <3>1, <3>2, <4>1 DEF IsFirst
      <4>3. Ref(fat2, st2, a[k - 1], 0) = a[k] /\ 0 \in Indices
        BY <1>1, <4>1 DEF Indices
      <4> QED BY <2>2, <3>2, <4>2, <4>3
    <3> QED BY <3>3, <3>4
  <2> SUFFICES ASSUME NEW c \in DataClusters, fat2[c] # EMPTY
               PROVE  c \in R
    BY DEF NoneLost, R
  <2>11. CASE c \in A
    BY <1>2, <2>10, <2>11
  <2>12. CASE c \notin A
    <3>1. c # 0 /\ c \in Clusters
      BY ClusterFacts
    <3> QED BY <1>3, <2>8, <2>12, <3>1
  <2> QED BY <2>11, <2>12
<1> QED BY <1>3, <1>9, <1>10, <1>11, <1>12, <1>13, <1>14
\* Writing one slot of a directory changes nothing else.
LEMMA SetSlotFacts ==
    ASSUME NEW st \in [Clusters -> Blocks], NEW p \in Clusters, st[p].kind = "dir",
           NEW s \in Slots, NEW e \in Entries \cup {NoEntry}
    PROVE  LET st2 == SetSlot(st, p, s, e)
           IN  /\ st2 \in [Clusters -> Blocks]
               /\ \A c \in Clusters : c # p => st2[c] = st[c]
               /\ st2[p].kind = "dir" /\ st2[p].up = st[p].up
               /\ \A t \in Slots : st2[p].table[t] = IF t = s THEN e ELSE st[p].table[t]
<1> DEFINE tab == [t \in Slots |-> IF t = s THEN e ELSE st[p].table[t]]
           new == [kind |-> "dir", up |-> st[p].up, table |-> tab]
           st2 == SetSlot(st, p, s, e)
<1>1. st2 = [c \in Clusters |-> IF c # p THEN st[c] ELSE new]
  BY DEF SetSlot, Table
<1>2. tab \in [Slots -> Entries \cup {NoEntry}] /\ st[p].up \in Clusters
  <2>1. st[p].up \in Clusters /\ st[p].table \in [Slots -> Entries \cup {NoEntry}]
    BY BlockFacts
  <2> QED BY <2>1
<1>3. \A t \in Slots : tab[t] = IF t = s THEN e ELSE st[p].table[t]
  OBVIOUS
<1> HIDE DEF tab, st2
<1>4. new \in Blocks /\ new.kind = "dir" /\ new.up = st[p].up /\ new.table = tab
  BY <1>2, BlockFacts
<1> HIDE DEF new
<1>5. st2[p] = new
  BY <1>1
<1> QED BY <1>1, <1>3, <1>4, <1>5 DEF st2

\* A write that its test lets through has a directory with room, and a new key.
LEMMA WriteCheckPassed ==
    ASSUME NEW fat, NEW st, NEW p \in Clusters, st[p].kind = "dir",
           NEW name, NEW ext, WriteCheck(fat, st, p, name, ext) = 0,
           NEW s, s = CHOOSE t \in Slots : NewSlot(st, p, t)
    PROVE  /\ IsDir(fat, st, p)
           /\ s \in Slots /\ ~Live(fat, st, p, s)
           /\ \A e : e.name = name /\ e.ext = ext => NewKey(fat, st, p, e)
<1>1. IsParent(fat, p) /\ Matching(st, p, name, ext) = {} /\ Used(st, p) # Slots
  BY DEF WriteCheck
<1>2. Table(st, p) = st[p].table
  BY DEF Table
<1>3. PICK t \in Slots \ Used(st, p) : IsFirst(Slots \ Used(st, p), t)
  <2>1. Slots \ Used(st, p) # {} /\ Slots \ Used(st, p) \in SUBSET Nat
    BY <1>1, ClusterFacts DEF Used
  <2> QED BY <2>1, LeastMember
<1>4. s \in Slots /\ NewSlot(st, p, s)
  BY <1>3 DEF NewSlot
<1>5. ~Live(fat, st, p, s)
  BY <1>2, <1>4 DEF NewSlot, IsFirst, Used, Live
<1>6. \A e : e.name = name /\ e.ext = ext => NewKey(fat, st, p, e)
  BY <1>1, <1>2 DEF NewKey, Matching, Used, Live
<1> QED BY <1>1, <1>4, <1>5, <1>6 DEF IsDir

\* Any clusters may be free.
LEMMA FreeFacts ==
    ASSUME NEW fat
    PROVE  /\ FreeClusters(fat) \in SUBSET Nat /\ FreeClusters(fat) \subseteq DataClusters
           /\ IsFiniteSet(FreeClusters(fat))
           /\ \A c \in FreeClusters(fat) : c \in Clusters /\ c # 0 /\ fat[c] = EMPTY
<1>1. FreeClusters(fat) \subseteq DataClusters
  BY DEF FreeClusters
<1>2. IsFiniteSet(FreeClusters(fat))
  BY <1>1, ClusterFacts, FS_Subset
<1> QED BY <1>1, <1>2, ClusterFacts DEF FreeClusters

\* new is fat and st with a file of n blocks of data under a key of directory p,
\* in as many free clusters as there are, up to n.
WritesFile(fat, st, p, name, ext, n, data, new) ==
    \E s, e, m, a :
        /\ s \in Slots /\ e \in Entries /\ m \in Nat
        /\ IsDir(fat, st, p) /\ ~Live(fat, st, p, s) /\ NewKey(fat, st, p, e)
        /\ e.name = name /\ e.ext = ext /\ ~e.folder /\ e.size = n
        /\ m <= Cardinality(FreeClusters(fat))
        /\ n <= Cardinality(FreeClusters(fat)) => m = n
        /\ Added(fat, st, p, s, e, m, a, data, new.fat, new.st)

\* What FileAdded does: as many free clusters as there are, up to the size, are
\* chained and filled, and an entry of the size leads to the first.
LEMMA FileAddedTo ==
    ASSUME NEW fat, NEW st, Types(fat, st), NEW p \in Clusters, st[p].kind = "dir",
           NEW name \in Names, NEW ext \in Exts, WriteCheck(fat, st, p, name, ext) = 0,
           NEW n \in Nat, NEW data \in [0 .. n - 1 -> Blocks],
           \A k \in 0 .. n - 1 : data[k].kind # "dir",
           NEW new, new = FileAdded(fat, st, p, name, ext, data)
    PROVE  WritesFile(fat, st, p, name, ext, n, data, new)
<1> DEFINE free == FreeClusters(fat)
           s    == CHOOSE t \in Slots : NewSlot(st, p, t)
           size == Cardinality(DOMAIN data)
           a    == CHOOSE b \in FirstFit(free, size) : TRUE
           head == IF DOMAIN a = {} THEN 0 ELSE a[0]
           e    == Entry(name, ext, FALSE, head, size)
           fat2 == Chained(fat, a)
           st1  == Filled(st, a, data)
           st2  == SetSlot(st1, p, s, e)
<1>1. size = n
  <2>1. DOMAIN data = 0 .. n - 1
    OBVIOUS
  <2> QED BY <2>1, IndexCount
<1>2. new.fat = fat2 /\ new.st = st2
  BY DEF FileAdded
<1>3. IsDir(fat, st, p) /\ s \in Slots /\ ~Live(fat, st, p, s)
      /\ \A f : f.name = name /\ f.ext = ext => NewKey(fat, st, p, f)
  BY WriteCheckPassed
<1> HIDE DEF s
<1>40. PICK m \in Nat : Takes(free, n, m)
  <2>1. free \in SUBSET Nat /\ IsFiniteSet(free)
    BY FreeFacts
  <2> HIDE DEF free
  <2> QED BY <2>1, FirstFitTaken
<1>4. /\ m <= n /\ m <= Cardinality(free) /\ (n <= Cardinality(free) => m = n)
      /\ (free # {} /\ n # 0 => m # 0)
      /\ FirstFit(free, n) # {}
      /\ \A b \in FirstFit(free, n) :
            /\ b \in [0 .. m - 1 -> free]
            /\ \A i, j \in 0 .. m - 1 : b[i] = b[j] => i = j
  BY <1>40 DEF Takes
<1>5. a \in [0 .. m - 1 -> free] /\ \A i, j \in 0 .. m - 1 : a[i] = a[j] => i = j
  <2>1. a \in FirstFit(free, n)
    BY <1>1, <1>4
  <2> QED BY <1>4, <2>1
<1> HIDE DEF a
<1>6. DOMAIN a = 0 .. m - 1 /\ Cardinality(DOMAIN a) = m
  BY <1>5, IndexCount
<1>7. \A k \in 0 .. m - 1 : a[k] \in free /\ a[k] \in Clusters /\ a[k] # 0 /\ k \in 0 .. n - 1
  BY <1>4, <1>5, FreeFacts
<1>8. \A k \in 0 .. m - 1 : (CHOOSE j \in DOMAIN a : a[j] = a[k]) = k
  BY <1>5, <1>6
<1>9. \A c \in Clusters : (\E k \in DOMAIN a : a[k] = c) <=> c \in Taken(m, a)
  BY <1>6 DEF Taken
<1>10. \A k \in 0 .. m - 1 :
          fat2[a[k]] = (IF k = m - 1 THEN EOF ELSE a[k + 1]) /\ st1[a[k]] = data[k]
  <2> SUFFICES ASSUME NEW k \in 0 .. m - 1
               PROVE  fat2[a[k]] = (IF k = m - 1 THEN EOF ELSE a[k + 1]) /\ st1[a[k]] = data[k]
    OBVIOUS
  <2>1. a[k] \in Clusters /\ k \in DOMAIN a
    BY <1>6, <1>7
  <2>2. fat2[a[k]] = IF a[k] = a[m - 1] THEN EOF
                     ELSE a[1 + CHOOSE j \in DOMAIN a : a[j] = a[k]]
    BY <1>6, <2>1 DEF Chained
  <2>3. a[k] = a[m - 1] <=> k = m - 1
    BY <1>5
  <2>4. st1[a[k]] = data[CHOOSE j \in DOMAIN a : a[j] = a[k]]
    BY <2>1 DEF Filled
  <2>5. (CHOOSE j \in DOMAIN a : a[j] = a[k]) = k /\ 1 + k = k + 1
    BY <1>8
  <2> QED BY <2>2, <2>3, <2>4, <2>5
<1>11. \A c \in Clusters \ Taken(m, a) :
          /\ st1[c] = st[c] /\ (c # 0 => fat2[c] = fat[c])
          /\ c = 0 => fat2[0] \in {fat[0], EOF}
  BY <1>9 DEF Chained, Filled
<1>12. fat2 \in [Clusters -> FatValues]
  <2>1. fat2 = [c \in Clusters |-> fat2[c]]
    BY DEF Chained
  <2>2. \A c \in Clusters : fat2[c] \in FatValues
    <3> SUFFICES ASSUME NEW c \in Clusters PROVE fat2[c] \in FatValues
      OBVIOUS
    <3> HIDE DEF fat2
    <3>1. CASE c \in Taken(m, a)
      <4>1. PICK k \in 0 .. m - 1 : c = a[k]
        BY <3>1 DEF Taken
      <4>2. k # m - 1 => k + 1 \in 0 .. m - 1
        OBVIOUS
      <4> QED BY <1>7, <1>10, <4>1, <4>2 DEF FatValues
    <3>2. CASE c \notin Taken(m, a)
      BY <1>11, <3>2 DEF Types, FatValues
    <3> QED BY <3>1, <3>2
  <2> HIDE DEF fat2
  <2> QED BY <2>1, <2>2
<1>13. st1 \in [Clusters -> Blocks]
  <2>1. st1 = [c \in Clusters |-> st1[c]]
    BY DEF Filled
  <2>2. \A c \in Clusters : st1[c] \in Blocks
    BY <1>7, <1>10, <1>11 DEF Taken, Types
  <2> HIDE DEF st1
  <2> QED BY <2>1, <2>2
<1> HIDE DEF fat2, st1
<1>14. e \in Entries /\ e.cluster = (IF m = 0 THEN 0 ELSE a[0]) /\ ~e.folder
       /\ e.name = name /\ e.ext = ext /\ e.size = n
  <2>1. DOMAIN a = {} <=> m = 0
    BY <1>6
  <2>2. head = (IF m = 0 THEN 0 ELSE a[0]) /\ head \in Clusters
    BY <1>7, <2>1, ClusterFacts
  <2> HIDE DEF head, size
  <2> QED BY <1>1, <2>2 DEF Entry, Entries
<1> HIDE DEF e
<1>15. p \notin Taken(m, a)
  BY <1>3, <1>7, FreeFacts, ClusterFacts DEF Taken, IsDir, IsParent, EMPTY
<1>16. st1[p] = st[p]
  BY <1>11, <1>15
<1>17. /\ st2 \in [Clusters -> Blocks]
       /\ \A c \in Clusters : c # p => st2[c] = st1[c]
       /\ st2[p].kind = "dir" /\ st2[p].up = st1[p].up
       /\ \A t \in Slots : st2[p].table[t] = IF t = s THEN e ELSE st1[p].table[t]
  BY <1>3, <1>13, <1>14, <1>16, SetSlotFacts
<1> HIDE DEF st2
<1>18. Added(fat, st, p, s, e, m, a, data, fat2, st2)
  <2>1. \A k \in 0 .. m - 1 : st2[a[k]] = data[k]
    BY <1>7, <1>10, <1>15, <1>17 DEF Taken
  <2>2. fat2[0] \in {fat[0], EOF}
    BY <1>7, <1>11, ClusterFacts DEF Taken
  <2>3. \A k \in 0 .. m - 1 : data[k].kind # "dir"
    BY <1>7
  <2>4. /\ \A c \in Clusters \ Taken(m, a) : c # 0 => fat2[c] = fat[c]
        /\ \A c \in Clusters \ Taken(m, a) : c # p => st2[c] = st[c]
    BY <1>11, <1>17
  <2>5. Types(fat2, st2)
    BY <1>12, <1>17 DEF Types
  <2>6. /\ st2[p].kind = "dir" /\ st2[p].up = st[p].up
        /\ \A t \in Slots : st2[p].table[t] = IF t = s THEN e ELSE st[p].table[t]
    BY <1>16, <1>17
  <2>7. \A k \in 0 .. m - 1 :
           fat2[a[k]] = (IF k = m - 1 THEN EOF ELSE a[k + 1]) /\ st2[a[k]] = data[k]
    BY <1>10, <2>1
  <2>8. IF e.folder THEN m = 1 /\ data[0] = EmptyDirectory(p)
        ELSE \A k \in 0 .. m - 1 : data[k].kind # "dir"
    BY <1>14, <2>3
  <2>9. e \in Entries /\ e.cluster = (IF m = 0 THEN 0 ELSE a[0])
    BY <1>14
  <2> QED BY <1>5, <2>2, <2>4, <2>5, <2>6, <2>7, <2>8, <2>9 DEF Added
<1> QED BY <1>2, <1>3, <1>4, <1>14, <1>18 DEF WritesFile

\* In particular on a sound file system.
LEMMA FileAddedAdds ==
    ASSUME NEW fat, NEW st, Sound(fat, st), NEW p \in Clusters, st[p].kind = "dir",
           NEW name \in Names, NEW ext \in Exts, WriteCheck(fat, st, p, name, ext) = 0,
           NEW n \in Nat, NEW data \in [0 .. n - 1 -> Blocks],
           \A k \in 0 .. n - 1 : data[k].kind # "dir",
           NEW new, new = FileAdded(fat, st, p, name, ext, data)
    PROVE  WritesFile(fat, st, p, name, ext, n, data, new)
<1>1. Types(fat, st)
  BY DEF Sound
<1> QED BY <1>1, FileAddedTo

\* A file is written to a sound file system, with room or without.
LEMMA FileAddedSound ==
    ASSUME NEW fat, NEW st, Sound(fat, st), NEW p \in Clusters, st[p].kind = "dir",
           NEW name \in Names, NEW ext \in Exts, WriteCheck(fat, st, p, name, ext) = 0,
           NEW n \in Nat, NEW data \in [0 .. n - 1 -> Blocks],
           \A k \in 0 .. n - 1 : data[k].kind # "dir",
           NEW new, new = FileAdded(fat, st, p, name, ext, data)
    PROVE  Sound(new.fat, new.st)
<1>0. WritesFile(fat, st, p, name, ext, n, data, new)
  BY FileAddedAdds
<1>1. PICK s, e, m, a :
         /\ s \in Slots /\ e \in Entries /\ m \in Nat
         /\ IsDir(fat, st, p) /\ ~Live(fat, st, p, s) /\ NewKey(fat, st, p, e)
         /\ Added(fat, st, p, s, e, m, a, data, new.fat, new.st)
  BY <1>0 DEF WritesFile
<1> QED BY <1>1, AddSound

\* What FolderAdded does: with room, one free cluster becomes an empty directory;
\* without, the entry leads to no cluster and is no folder.
LEMMA FolderAddedTo ==
    ASSUME NEW fat, NEW st, Types(fat, st), NEW p \in Clusters, st[p].kind = "dir",
           NEW name \in Names, NEW ext \in Exts, WriteCheck(fat, st, p, name, ext) = 0,
           NEW new, new = FolderAdded(fat, st, p, name, ext)
    PROVE  \E s, e, m, a, b :
              /\ s \in Slots /\ e \in Entries /\ m \in Nat
              /\ IsDir(fat, st, p) /\ ~Live(fat, st, p, s) /\ NewKey(fat, st, p, e)
              /\ e.name = name /\ e.ext = ext
              /\ e.folder <=> FreeClusters(fat) # {}
              /\ Added(fat, st, p, s, e, m, a, b, new.fat, new.st)
<1> DEFINE free == FreeClusters(fat)
           s    == CHOOSE t \in Slots : NewSlot(st, p, t)
           c    == CHOOSE d \in free : IsFirst(free, d)
<1>1. IsDir(fat, st, p) /\ s \in Slots /\ ~Live(fat, st, p, s)
      /\ \A f : f.name = name /\ f.ext = ext => NewKey(fat, st, p, f)
  BY WriteCheckPassed
<1>2. Types(fat, st)
  OBVIOUS
<1>3. CASE free = {}
  <2> DEFINE e   == Entry(name, ext, FALSE, 0, 0)
             st2 == SetSlot(st, p, s, e)
             a   == [k \in 0 .. 0 - 1 |-> 0]
  <2>1. new.fat = fat /\ new.st = st2
    BY <1>3 DEF FolderAdded
  <2> HIDE DEF s
  <2>2. e \in Entries /\ e.cluster = 0 /\ ~e.folder /\ e.name = name /\ e.ext = ext
    BY ClusterFacts DEF Entry, Entries
  <2> HIDE DEF e
  <2>3. /\ st2 \in [Clusters -> Blocks]
        /\ \A d \in Clusters : d # p => st2[d] = st[d]
        /\ st2[p].kind = "dir" /\ st2[p].up = st[p].up
        /\ \A t \in Slots : st2[p].table[t] = IF t = s THEN e ELSE st[p].table[t]
    BY <1>1, <1>2, <2>2, SetSlotFacts DEF Types
  <2> HIDE DEF st2
  <2>4. \A k \in 0 .. 0 - 1 : FALSE
    OBVIOUS
  <2>5. a \in [0 .. 0 - 1 -> FreeClusters(fat)]
    BY <2>4
  <2> HIDE DEF a
  <2>6. Added(fat, st, p, s, e, 0, a, a, fat, st2) /\ 0 \in Nat
    BY <1>2, <2>2, <2>3, <2>4, <2>5 DEF Added, Types
  <2> QED BY <1>1, <1>3, <2>1, <2>2, <2>6
<1>4. CASE free # {}
  <2> DEFINE e    == Entry(name, ext, TRUE, c, 0)
             fat2 == [fat EXCEPT ![c] = EOF]
             blank == EmptyDirectory(p)
             st1  == [st EXCEPT ![c] = blank]
             st2  == SetSlot(st1, p, s, e)
             a    == [k \in 0 .. 1 - 1 |-> c]
             b    == [k \in 0 .. 1 - 1 |-> blank]
  <2>1. new.fat = fat2 /\ new.st = st2
    BY <1>4 DEF FolderAdded
  <2>2. c \in free
    BY <1>4, FreeFacts, LeastMember
  <2> HIDE DEF c
  <2>3. c \in Clusters /\ c # 0 /\ fat[c] = EMPTY
    BY <2>2, FreeFacts
  <2> HIDE DEF s, free
  <2>4. e \in Entries /\ e.cluster = c /\ e.folder /\ e.name = name /\ e.ext = ext
    BY <2>3 DEF Entry, Entries
  <2> HIDE DEF e
  <2>5. blank \in Blocks
    <3>1. [t \in Slots |-> NoEntry] \in [Slots -> Entries \cup {NoEntry}]
      OBVIOUS
    <3> QED BY <3>1, BlockFacts DEF EmptyDirectory
  <2> HIDE DEF blank
  <2>6. c # p
    BY <1>1, <2>3, ClusterFacts DEF IsDir, IsParent, EMPTY
  <2>7. /\ st1 \in [Clusters -> Blocks] /\ st1[p] = st[p] /\ st1[c] = blank
        /\ \A d \in Clusters : d # c => st1[d] = st[d]
    BY <1>2, <2>3, <2>5, <2>6 DEF Types
  <2>8. /\ fat2 \in [Clusters -> FatValues] /\ fat2[c] = EOF
        /\ \A d \in Clusters : d # c => fat2[d] = fat[d]
    BY <1>2, <2>3 DEF Types, FatValues
  <2> HIDE DEF st1, fat2
  <2>9. /\ st2 \in [Clusters -> Blocks]
        /\ \A d \in Clusters : d # p => st2[d] = st1[d]
        /\ st2[p].kind = "dir" /\ st2[p].up = st1[p].up
        /\ \A t \in Slots : st2[p].table[t] = IF t = s THEN e ELSE st1[p].table[t]
    BY <1>1, <2>4, <2>7, SetSlotFacts
  <2> HIDE DEF st2
  <2>10. \A k \in 0 .. 1 - 1 : k = 0 /\ k = 1 - 1
    OBVIOUS
  <2>11. /\ a \in [0 .. 1 - 1 -> FreeClusters(fat)] /\ Taken(1, a) = {c}
         /\ 0 \in 0 .. 1 - 1 /\ a[0] = c /\ b[0] = blank
    BY <2>2 DEF Taken, free
  <2> HIDE DEF a, b
  <2>12. Added(fat, st, p, s, e, 1, a, b, fat2, st2) /\ 1 \in Nat
    <3>1. fat2[0] \in {fat[0], EOF}
      BY <2>3, <2>8, ClusterFacts
    <3>2. \A d \in Clusters \ {c} : d # p => st2[d] = st[d]
      BY <2>7, <2>9
    <3>3. \A k \in 0 .. 1 - 1 : fat2[a[k]] = EOF /\ st2[a[k]] = b[k]
      BY <2>3, <2>6, <2>7, <2>8, <2>9, <2>10, <2>11
    <3>4. b[0] = EmptyDirectory(p)
      BY <2>11 DEF blank
    <3> QED BY <1>2, <2>4, <2>7, <2>8, <2>9, <2>10, <2>11, <3>1, <3>2, <3>3, <3>4
            DEF Added, Types
  <2>13. FreeClusters(fat) # {}
    BY <1>4 DEF free
  <2> QED BY <1>1, <2>1, <2>4, <2>12, <2>13
<1> QED BY <1>3, <1>4

\* In particular on a sound file system.
LEMMA FolderAddedAdds ==
    ASSUME NEW fat, NEW st, Sound(fat, st), NEW p \in Clusters, st[p].kind = "dir",
           NEW name \in Names, NEW ext \in Exts, WriteCheck(fat, st, p, name, ext) = 0,
           NEW new, new = FolderAdded(fat, st, p, name, ext)
    PROVE  \E s, e, m, a, b :
              /\ s \in Slots /\ e \in Entries /\ m \in Nat
              /\ IsDir(fat, st, p) /\ ~Live(fat, st, p, s) /\ NewKey(fat, st, p, e)
              /\ e.name = name /\ e.ext = ext
              /\ e.folder <=> FreeClusters(fat) # {}
              /\ Added(fat, st, p, s, e, m, a, b, new.fat, new.st)
<1>1. Types(fat, st)
  BY DEF Sound
<1> QED BY <1>1, FolderAddedTo

\* A folder is made in a sound file system, with room or without.
LEMMA FolderAddedSound ==
    ASSUME NEW fat, NEW st, Sound(fat, st), NEW p \in Clusters, st[p].kind = "dir",
           NEW name \in Names, NEW ext \in Exts, WriteCheck(fat, st, p, name, ext) = 0,
           NEW new, new = FolderAdded(fat, st, p, name, ext)
    PROVE  Sound(new.fat, new.st)
<1>1. PICK s, e, m, a, b :
         /\ s \in Slots /\ e \in Entries /\ m \in Nat
         /\ IsDir(fat, st, p) /\ ~Live(fat, st, p, s) /\ NewKey(fat, st, p, e)
         /\ Added(fat, st, p, s, e, m, a, b, new.fat, new.st)
  BY FolderAddedAdds
<1> QED BY <1>1, AddSound

-----------------------------------------------------------------------------
(* Following a chain. *)

\* One turn of a loop along the table.
Step(fat, x) == IF x \in Clusters THEN fat[x] ELSE x

\* The walk along the table is what it says: it starts at the head, and each turn
\* follows the table.
LEMMA WalkTurns ==
    ASSUME NEW fat, NEW head
    PROVE  LET at == Walk(fat, head)
           IN  /\ DOMAIN at = 0 .. CLUSTER_MAP_SIZE
               /\ at[0] = head
               /\ \A k \in 0 .. CLUSTER_MAP_SIZE : k # 0 => at[k] = Step(fat, at[k - 1])
<1> DEFINE N == CLUSTER_MAP_SIZE
           IsWalk(f, n) == f = [k \in 0 .. n |-> IF k = 0 THEN head
                                                 ELSE IF f[k - 1] \in Clusters THEN fat[f[k - 1]]
                                                 ELSE f[k - 1]]
<1>0. N \in Nat
  BY FAT32Assumption
<1>1. Walk(fat, head) = CHOOSE f : IsWalk(f, N)
  BY DEF Walk
<1>2. \E f : IsWalk(f, N)
  <2> DEFINE Bad == {n \in 0 .. N : ~\E f : IsWalk(f, n)}
  <2> SUFFICES ASSUME Bad # {} PROVE FALSE
    BY <1>0
  <2>1. PICK n \in Bad : IsFirst(Bad, n)
    <3>1. Bad \in SUBSET Nat
      OBVIOUS
    <3> HIDE DEF Bad
    <3> QED BY <3>1, LeastMember
  <2>2. CASE n = 0
    <3>1. IsWalk([k \in 0 .. 0 |-> head], 0)
      OBVIOUS
    <3> QED BY <2>2, <3>1
  <2>3. CASE n # 0
    <3>1. n - 1 \in 0 .. N /\ n \in Nat /\ n - 1 < n
      BY <1>0, <2>3
    <3>2. PICK f : IsWalk(f, n - 1)
      BY <2>1, <3>1 DEF IsFirst
    <3> DEFINE g == [k \in 0 .. n |-> IF k = n
                                      THEN IF f[n - 1] \in Clusters THEN fat[f[n - 1]] ELSE f[n - 1]
                                      ELSE f[k]]
    <3>3. \A k \in 0 .. n : g[k] = IF k = 0 THEN head
                                   ELSE IF g[k - 1] \in Clusters THEN fat[g[k - 1]] ELSE g[k - 1]
      <4> SUFFICES ASSUME NEW k \in 0 .. n
                   PROVE  g[k] = IF k = 0 THEN head
                                 ELSE IF g[k - 1] \in Clusters THEN fat[g[k - 1]] ELSE g[k - 1]
        OBVIOUS
      <4>1. \A j \in 0 .. n - 1 :
               /\ f[j] = IF j = 0 THEN head
                         ELSE IF f[j - 1] \in Clusters THEN fat[f[j - 1]] ELSE f[j - 1]
               /\ g[j] = f[j]
        <5>1. ASSUME NEW j \in 0 .. n - 1 PROVE g[j] = f[j]
          BY <3>1
        <5>2. \A j \in 0 .. n - 1 :
                 f[j] = IF j = 0 THEN head
                        ELSE IF f[j - 1] \in Clusters THEN fat[f[j - 1]] ELSE f[j - 1]
          BY <3>1, <3>2
        <5> QED BY <5>1, <5>2
      <4>2. g[n] = IF f[n - 1] \in Clusters THEN fat[f[n - 1]] ELSE f[n - 1]
        BY <3>1
      <4>3. n - 1 \in 0 .. n - 1 /\ g[n - 1] = f[n - 1]
        BY <3>1, <4>1
      <4> HIDE DEF g
      <4>4. CASE k = n
        BY <2>3, <4>2, <4>3, <4>4
      <4>5. CASE k # n
        <5>1. k \in 0 .. n - 1 /\ (k # 0 => k - 1 \in 0 .. n - 1)
          BY <3>1, <4>5
        <5> QED BY <4>1, <5>1
      <4> QED BY <4>4, <4>5
    <3>4. g = [k \in 0 .. n |-> g[k]]
      OBVIOUS
    <3> HIDE DEF g
    <3>5. IsWalk(g, n)
      BY <3>3, <3>4
    <3> QED BY <3>5
  <2> QED BY <2>2, <2>3
<1>3. IsWalk(Walk(fat, head), N)
  <2> HIDE DEF IsWalk
  <2> QED BY <1>1, <1>2
<1> QED BY <1>0, <1>3 DEF Step

\* The clusters of a file's chain are not directories.
LEMMA ChainOfFile ==
    ASSUME NEW fat, NEW st, Sound(fat, st), NEW h \in Clusters, st[h].kind # "dir",
           NEW k \in 0 .. CLUSTER_MAP_SIZE, Walk(fat, h)[k] \in Clusters
    PROVE  st[Walk(fat, h)[k]].kind # "dir"
<1> DEFINE at == Walk(fat, h)
<1>1. at[0] = h /\ (k # 0 => at[k] = Step(fat, at[k - 1]))
  BY WalkTurns
<1> HIDE DEF at
<1>2. CASE k = 0 \/ at[k - 1] \notin Clusters
  BY <1>1, <1>2 DEF Step, at
<1>3. CASE k # 0 /\ at[k - 1] \in Clusters
  <2>1. at[k] = fat[at[k - 1]] /\ at[k] = Ref(fat, st, at[k - 1], 0) /\ 0 \in Indices
    BY <1>1, <1>3 DEF Step, Ref, Indices
  <2>2. at[k] # 1 /\ at[k] # 2 /\ at[k] \in Clusters
    BY <1>3, <2>1 DEF Sound, RefsInside, ROOT_CLUSTER_NUMBER, at
  <2>3. at[k] \in DataClusters \/ at[k] = 0
    BY <2>2, ClusterFacts
  <2> QED BY <1>3, <2>1, <2>3 DEF Sound, KindsAgree, Reserved, at
<1> QED BY <1>2, <1>3

\* What is read of a file and written again contains no directory.
LEMMA ContentsFacts ==
    ASSUME NEW fat, NEW st, Sound(fat, st), NEW e \in Entries, st[e.cluster].kind # "dir"
    PROVE  /\ Contents(fat, st, e) \in [0 .. e.size - 1 -> Blocks]
           /\ \A k \in 0 .. e.size - 1 : Contents(fat, st, e)[k].kind # "dir"
<1> DEFINE at == Walk(fat, e.cluster)
<1>1. e.cluster \in Clusters
  BY DEF Entries
<1>2. DOMAIN at = 0 .. CLUSTER_MAP_SIZE
  BY WalkTurns
<1>3. \A k \in DOMAIN at : at[k] \in Clusters =>
          st[at[k]] \in Blocks /\ st[at[k]].kind # "dir"
  BY <1>1, <1>2, ChainOfFile DEF Sound, Types
<1>4. Contents(fat, st, e) = [k \in 0 .. e.size - 1 |->
          IF k \in DOMAIN at /\ at[k] \in Clusters THEN st[at[k]] ELSE Unknown]
  BY DEF Contents
<1> HIDE DEF at
<1>5. \A k \in 0 .. e.size - 1 :
          Contents(fat, st, e)[k] \in Blocks /\ Contents(fat, st, e)[k].kind # "dir"
  BY <1>3, <1>4, BlockFacts
<1> QED BY <1>4, <1>5

-----------------------------------------------------------------------------
(* The steps of the driver. *)

\* A new file system is empty, whatever was on the disk.
LEMMA FreshIsEmpty ==
    ASSUME NEW st \in [Clusters -> Blocks], st[0].kind # "dir", st[1].kind # "dir"
    PROVE  LET fat == FreshTable
               st2 == [st EXCEPT ![ROOT_CLUSTER_NUMBER] = EmptyDirectory(ROOT_CLUSTER_NUMBER)]
           IN  /\ fat \in [Clusters -> FatValues] /\ st2 \in [Clusters -> Blocks]
               /\ fat[0] = CLUSTER_0_VALUE /\ fat[1] = EOF /\ fat[2] = EOF
               /\ \A c \in DataClusters : fat[c] = EMPTY
               /\ st2[2] = EmptyDirectory(ROOT_CLUSTER_NUMBER) /\ st2[2].kind = "dir"
               /\ \A c \in Clusters : c # 2 => st2[c] = st[c]
               /\ \A d \in Clusters, s \in Slots : ~Live(fat, st2, d, s)
<1> DEFINE new == EmptyDirectory(ROOT_CLUSTER_NUMBER)
           fat == FreshTable
           st2 == [st EXCEPT ![ROOT_CLUSTER_NUMBER] = new]
<1>1. /\ fat \in [Clusters -> FatValues]
      /\ fat[0] = CLUSTER_0_VALUE /\ fat[1] = EOF /\ fat[2] = EOF
      /\ \A c \in DataClusters : fat[c] = EMPTY
  <2>1. EMPTY \in Clusters
    BY ClusterFacts DEF EMPTY
  <2> QED BY <2>1, ClusterFacts DEF FreshTable, FatValues, ROOT_CLUSTER_NUMBER
<1>2. new \in Blocks /\ new.kind = "dir" /\ \A t \in Slots : new.table[t] = NoEntry
  <2>1. [t \in Slots |-> NoEntry] \in [Slots -> Entries \cup {NoEntry}]
    OBVIOUS
  <2> QED BY <2>1, BlockFacts, ClusterFacts DEF EmptyDirectory, ROOT_CLUSTER_NUMBER
<1> HIDE DEF new, fat
<1>3. /\ st2 \in [Clusters -> Blocks] /\ st2[2] = new
      /\ \A c \in Clusters : c # 2 => st2[c] = st[c]
  BY <1>2, ClusterFacts DEF ROOT_CLUSTER_NUMBER
<1> HIDE DEF st2
<1>4. EMPTY # EOF /\ EMPTY = 0 /\ EMPTY \notin DataClusters /\ EOF \notin DataClusters
      /\ CLUSTER_0_VALUE \notin DataClusters /\ EOF \notin {1, 2} /\ CLUSTER_0_VALUE \notin {1, 2}
  BY ClusterFacts DEF EMPTY
<1>5. \A d \in Clusters, s \in Slots : ~Live(fat, st2, d, s)
  <2> SUFFICES ASSUME NEW d \in Clusters, NEW s \in Slots PROVE ~Live(fat, st2, d, s)
    OBVIOUS
  <2>1. CASE d = 0 \/ d = 1
    BY <1>3, <2>1 DEF Live, IsDir
  <2>2. CASE d = 2
    BY <1>2, <1>3, <2>2 DEF Live
  <2>3. CASE d \in DataClusters
    BY <1>1, <1>4, <2>3 DEF Live, IsDir, IsParent
  <2> QED BY <2>1, <2>2, <2>3, ClusterFacts
<1> QED BY <1>1, <1>2, <1>3, <1>5 DEF fat, st2, new

\* It is sound.
LEMMA FreshSound ==
    ASSUME NEW st \in [Clusters -> Blocks], st[0].kind # "dir", st[1].kind # "dir"
    PROVE  Sound(FreshTable,
                 [st EXCEPT ![ROOT_CLUSTER_NUMBER] = EmptyDirectory(ROOT_CLUSTER_NUMBER)])
<1> DEFINE fat == FreshTable
           st2 == [st EXCEPT ![ROOT_CLUSTER_NUMBER] = EmptyDirectory(ROOT_CLUSTER_NUMBER)]
<1>1. /\ fat \in [Clusters -> FatValues] /\ st2 \in [Clusters -> Blocks]
      /\ fat[0] = CLUSTER_0_VALUE /\ fat[1] = EOF /\ fat[2] = EOF
      /\ \A c \in DataClusters : fat[c] = EMPTY
      /\ st2[2].kind = "dir"
      /\ \A c \in Clusters : c # 2 => st2[c] = st[c]
      /\ \A d \in Clusters, s \in Slots : ~Live(fat, st2, d, s)
  BY FreshIsEmpty
<1> HIDE DEF fat, st2
<1>4. EMPTY # EOF /\ EMPTY = 0 /\ EMPTY \notin DataClusters /\ EOF \notin DataClusters
      /\ CLUSTER_0_VALUE \notin DataClusters /\ EOF \notin {1, 2} /\ CLUSTER_0_VALUE \notin {1, 2}
  BY ClusterFacts DEF EMPTY
<1>6. \A d \in Clusters : fat[d] \in {EMPTY, EOF, CLUSTER_0_VALUE}
  BY <1>1, ClusterFacts
<1>7. \A d \in Clusters, i \in Indices : Ref(fat, st2, d, i) \in {EMPTY, EOF, CLUSTER_0_VALUE}
  BY <1>1, <1>6 DEF Ref, Indices
<1>8. Reserved(fat, st2)
  BY <1>1, <1>4, ClusterFacts DEF Reserved, IsDir, IsParent, ROOT_CLUSTER_NUMBER
<1>9. RefsInside(fat, st2) /\ OneOwner(fat, st2)
  BY <1>4, <1>7 DEF RefsInside, OneOwner, ROOT_CLUSTER_NUMBER
<1>10. KindsAgree(fat, st2) /\ UniqueKeys(fat, st2)
  BY <1>1, <1>4, <1>6 DEF KindsAgree, UniqueKeys
<1>11. NoneLost(fat, st2)
  BY <1>1 DEF NoneLost
<1> QED BY <1>1, <1>8, <1>9, <1>10, <1>11 DEF Sound, Types, fat, st2

\* A step that saves a sound file system keeps the invariant.
LEMMA SaveStep ==
    ASSUME DriverInv, mounted, NEW fat, NEW st, NEW zeroed, Sound(fat, st),
           Save(fat, st, zeroed), retcode' \in {-1, 0, 1, 2}
    PROVE  DriverInv'
<1>1. fat_table' = fat /\ disk_fat' = fat /\ storage' = st /\ mounted' /\ signature' \in BOOLEAN
      /\ mounted' \in BOOLEAN
  BY DEF Save, DriverInv, TypeOK
<1>2. fat \in [Clusters -> FatValues] /\ st \in [Clusters -> Blocks]
      /\ st[0].kind # "dir" /\ st[1].kind # "dir"
  BY DEF Sound, Types, Reserved
<1> QED BY <1>1, <1>2 DEF DriverInv, TypeOK

\* So does one that answers a code and changes nothing, and a hang.
LEMMA RefuseStep ==
    ASSUME DriverInv, NEW code \in {-1, 0, 1, 2}, Refuse(code)
    PROVE  DriverInv'
BY DEF DriverInv, TypeOK, Refuse

LEMMA HangStep ==
    ASSUME DriverInv, Hang
    PROVE  DriverInv'
BY DEF DriverInv, TypeOK, Hang

\* The directories of requests.
LEMMA ParentFacts ==
    ASSUME DriverInv, mounted, NEW p \in Parents
    PROVE  /\ p \in Clusters
           /\ IsParent(fat_table, p) =>
                 /\ p \in Directories /\ IsDir(fat_table, storage, p)
                 /\ storage[p].kind = "dir" /\ Table(storage, p) = storage[p].table
                 /\ \A s \in Slots : s \in Used(storage, p) <=> Live(fat_table, storage, p, s)
BY ClusterFacts DEF Parents, Directories, IsDir, Table, Used, Live

\* A deletion.
LEMMA EraseStep ==
    ASSUME DriverInv, mounted, NEW p \in Parents, IsParent(fat_table, p),
           NEW s \in Used(storage, p),
           Erase(Reach(fat_table, storage, Table(storage, p)[s].cluster), p, s)
    PROVE  DriverInv'
<1> DEFINE C == Reach(fat_table, storage, Table(storage, p)[s].cluster)
<1>1. s \in Slots /\ p \in Clusters /\ Live(fat_table, storage, p, s)
      /\ Table(storage, p) = storage[p].table
  BY ParentFacts DEF Used
<1>2. Sound(fat_table, storage)
  BY DEF DriverInv
<1>3. Sound(FreedTable(fat_table, C), Erased(storage, C, p, s))
  BY <1>1, <1>2, EraseSound
<1> HIDE DEF C
<1>4. CASE Save(FreedTable(fat_table, C), Erased(storage, C, p, s), C) /\ retcode' = 0
  BY <1>3, <1>4, SaveStep
<1>5. CASE Hang
  BY <1>5, HangStep
<1> QED BY <1>4, <1>5 DEF Erase, C

\* What copy_file makes of the destination: nothing, or the deletion of the one
\* file with that key.
LEMMA ClearedIs ==
    ASSUME DriverInv, mounted, NEW q \in Parents, NEW name, NEW ext,
           NEW now, now = DestinationCleared(q, name, ext)
    PROVE  \/ now.fat = fat_table /\ now.st = storage /\ now.clusters = {} /\ now.old = {}
           \/ \E t \in Slots :
                 /\ IsParent(fat_table, q) /\ Live(fat_table, storage, q, t) /\ now.old = {t}
                 /\ storage[q].table[t].name = name /\ storage[q].table[t].ext = ext
                 /\ ~storage[q].table[t].folder
                 /\ now.clusters = Reach(fat_table, storage, storage[q].table[t].cluster)
                 /\ now.fat = FreedTable(fat_table, now.clusters)
                 /\ now.st = Erased(storage, now.clusters, q, t)
<1> DEFINE old == IF IsParent(fat_table, q) THEN FilesMatching(storage, q, name, ext) ELSE {}
           C   == UNION {Reach(fat_table, storage, Table(storage, q)[t].cluster) : t \in old}
           st2 == IF old = {} THEN storage ELSE Erased(storage, C, q, CHOOSE t \in old : TRUE)
<1>0. Sound(fat_table, storage) /\ fat_table \in [Clusters -> FatValues] /\ q \in Clusters
  BY ParentFacts DEF DriverInv, TypeOK
<1>1. now.fat = FreedTable(fat_table, C) /\ now.st = st2 /\ now.clusters = C /\ now.old = old
  BY DEF DestinationCleared
<1>2. CASE old = {}
  <2>1. C = {}
    BY <1>2
  <2> HIDE DEF C, old
  <2>2. FreedTable(fat_table, C) = fat_table
    BY <1>0, <2>1 DEF FreedTable
  <2> QED BY <1>1, <1>2, <2>1, <2>2
<1>3. CASE old # {}
  <2>1. IsParent(fat_table, q) /\ old = FilesMatching(storage, q, name, ext)
    BY <1>3
  <2>2. Table(storage, q) = storage[q].table /\ storage[q].kind = "dir"
    BY <2>1, ParentFacts
  <2>3. \A t \in old : /\ t \in Slots /\ Live(fat_table, storage, q, t)
                       /\ storage[q].table[t].name = name /\ storage[q].table[t].ext = ext
                       /\ ~storage[q].table[t].folder
    BY <2>1, <2>2, ParentFacts DEF FilesMatching, Matching, Used
  <2>4. PICK t \in old : t = CHOOSE u \in old : TRUE
    BY <1>3
  <2>5. old = {t}
    <3> HIDE DEF old
    <3> QED BY <1>0, <2>3, <2>4 DEF Sound, UniqueKeys
  <2>6. C = Reach(fat_table, storage, storage[q].table[t].cluster)
    <3> HIDE DEF old
    <3> QED BY <2>2, <2>5
  <2>7. st2 = Erased(storage, C, q, t)
    BY <1>3, <2>4
  <2> HIDE DEF C, old, st2
  <2> QED BY <1>1, <2>1, <2>3, <2>5, <2>6, <2>7
<1> QED BY <1>2, <1>3

\* What it leaves is sound.
LEMMA ClearedSound ==
    ASSUME DriverInv, mounted, NEW q \in Parents, NEW name, NEW ext,
           NEW now, now = DestinationCleared(q, name, ext)
    PROVE  /\ Sound(now.fat, now.st)
           /\ IsParent(now.fat, q) => now.st[q].kind = "dir"
<1>0. Sound(fat_table, storage) /\ q \in Clusters
  BY ParentFacts DEF DriverInv
<1>1. CASE now.fat = fat_table /\ now.st = storage
  BY <1>0, <1>1, ParentFacts
<1>2. ASSUME NEW t \in Slots, IsParent(fat_table, q), Live(fat_table, storage, q, t),
             NEW C, C = Reach(fat_table, storage, storage[q].table[t].cluster),
             now.fat = FreedTable(fat_table, C), now.st = Erased(storage, C, q, t)
      PROVE  Sound(now.fat, now.st) /\ now.st[q].kind = "dir"
  <2>1. Sound(FreedTable(fat_table, C), Erased(storage, C, q, t))
    BY <1>0, <1>2, EraseSound
  <2>2. q \notin C /\ C \in SUBSET Clusters
    <3>1. q \notin C /\ C \subseteq Held(fat_table)
      BY <1>0, <1>2, FreedIsApart
    <3> QED BY <3>1, ClusterFacts DEF Held, ROOT_CLUSTER_NUMBER
  <2>3. (Erased(storage, C, q, t)[q].kind = "dir") = (q \notin C /\ storage[q].kind = "dir")
    <3>1. Types(fat_table, storage)
      BY <1>0 DEF Sound
    <3>2. IsErased(fat_table, storage, q, t, C, FreedTable(fat_table, C), Erased(storage, C, q, t))
      BY <1>0, <1>2, <2>2, <3>1, AfterErase
    <3> QED BY <1>0, <3>2 DEF IsErased
  <2>4. storage[q].kind = "dir"
    BY <1>2 DEF Live, IsDir
  <2> QED BY <1>2, <2>1, <2>2, <2>3, <2>4
<1> QED BY <1>1, <1>2, ClearedIs

\* A copy.
LEMMA CopyStep ==
    ASSUME DriverInv, NEW p \in Parents, NEW q \in Parents, NEW name \in Names, NEW ext \in Exts,
           NEW name2 \in Names, NEW ext2 \in Exts, copy_file(p, name, ext, q, name2, ext2)
    PROVE  DriverInv'
<1> DEFINE src == FilesMatching(storage, p, name, ext)
           now == DestinationCleared(q, name2, ext2)
           code == WriteCheck(now.fat, now.st, q, name2, ext2)
           data(s) == Contents(fat_table, storage, Table(storage, p)[s])
           new(s) == FileAdded(now.fat, now.st, q, name2, ext2, data(s))
<1>0. mounted /\ Sound(fat_table, storage)
  BY DEF copy_file, DriverInv
<1>1. code \in {-1, 0, 1, 2}
  BY DEF WriteCheck
<1>2. CASE Refuse(IF ~IsParent(fat_table, p) THEN -1
                  ELSE IF \E s \in src : Table(storage, p)[s].cluster # 0 THEN 0 ELSE 1)
  BY <1>2, RefuseStep
<1>3. Sound(now.fat, now.st) /\ (IsParent(now.fat, q) => now.st[q].kind = "dir")
  BY <1>0, ClearedSound
<1>4. CASE Hang
  BY <1>4, HangStep
<1>5. CASE retcode' = code /\ Save(now.fat, now.st, now.clusters)
  <2> HIDE DEF now, code
  <2> QED BY <1>0, <1>1, <1>3, <1>5, SaveStep
<1>6. ASSUME NEW s \in src, IsParent(fat_table, p), retcode' = code, code = 0,
             Save(new(s).fat, new(s).st, now.clusters)
      PROVE  DriverInv'
  <2> DEFINE e == Table(storage, p)[s]
  <2>1. s \in Slots /\ p \in Clusters /\ Live(fat_table, storage, p, s)
        /\ e = storage[p].table[s] /\ ~e.folder
    BY <1>0, <1>6, ParentFacts DEF FilesMatching, Matching, Used
  <2>2. e \in Entries /\ storage[e.cluster].kind # "dir"
    BY <1>0, <2>1, LiveEntry DEF Sound, KindsAgree
  <2>3. e.size \in Nat
    BY <2>2 DEF Entries
  <2> HIDE DEF e
  <2>4. /\ data(s) \in [0 .. e.size - 1 -> Blocks]
        /\ \A k \in 0 .. e.size - 1 : data(s)[k].kind # "dir"
    BY <1>0, <2>2, ContentsFacts DEF e
  <2>5. q \in Clusters /\ now.st[q].kind = "dir"
    <3>1. IsParent(now.fat, q)
      BY <1>6 DEF WriteCheck
    <3> QED BY <1>0, <1>3, <3>1, ParentFacts
  <2> HIDE DEF data, now
  <2>6. Sound(new(s).fat, new(s).st)
    BY <1>3, <1>6, <2>3, <2>4, <2>5, FileAddedSound
  <2> HIDE DEF new
  <2> QED BY <1>0, <1>6, <2>6, SaveStep
<1>7. \/ Refuse(IF ~IsParent(fat_table, p) THEN -1
                ELSE IF \E s \in src : Table(storage, p)[s].cluster # 0 THEN 0 ELSE 1)
      \/ Hang
      \/ retcode' = code /\ Save(now.fat, now.st, now.clusters)
      \/ \E s \in src : /\ IsParent(fat_table, p) /\ retcode' = code /\ code = 0
                        /\ Save(new(s).fat, new(s).st, now.clusters)
  BY DEF copy_file
<1> QED BY <1>2, <1>4, <1>5, <1>6, <1>7

\* The invariant is inductive.
LEMMA DriverInductive ==
    ASSUME DriverInv, [Next]_vars
    PROVE  DriverInv'
<1>1. CASE UNCHANGED vars
  BY <1>1 DEF DriverInv, TypeOK, vars
<1>2. CASE initialize_filesystem_fat32
  <2>1. mounted' = TRUE /\ retcode' = 0
    BY <1>2 DEF initialize_filesystem_fat32
  <2>2. CASE signature
    <3>1. mounted /\ fat_table' = fat_table /\ UNCHANGED <<signature, disk_fat, storage>>
      BY <1>2, <2>2 DEF initialize_filesystem_fat32, DriverInv
    <3> QED BY <2>1, <3>1 DEF DriverInv, TypeOK
  <2>3. CASE ~signature
    <3> DEFINE st == [storage EXCEPT ![ROOT_CLUSTER_NUMBER] = EmptyDirectory(ROOT_CLUSTER_NUMBER)]
    <3>1. /\ signature' = TRUE /\ fat_table' = FreshTable /\ disk_fat' = FreshTable
          /\ storage' = st
      BY <1>2, <2>3 DEF initialize_filesystem_fat32, create_fat32
    <3>2. Sound(FreshTable, st)
      BY FreshSound DEF DriverInv, TypeOK
    <3> HIDE DEF st
    <3>3. FreshTable \in [Clusters -> FatValues] /\ st \in [Clusters -> Blocks]
          /\ st[0].kind # "dir" /\ st[1].kind # "dir"
      BY <3>2 DEF Sound, Types, Reserved
    <3> QED BY <2>1, <3>1, <3>2, <3>3 DEF DriverInv, TypeOK
  <2>4. signature \in BOOLEAN
    BY DEF DriverInv, TypeOK
  <2> QED BY <2>2, <2>3
<1>3. ASSUME NEW p \in Parents, NEW name \in Names, NEW ext \in Exts, WriteRefused(p, name, ext)
      PROVE  DriverInv'
  <2>1. WriteCheck(fat_table, storage, p, name, ext) \in {-1, 0, 1, 2}
    BY DEF WriteCheck
  <2> QED BY <1>3, <2>1, RefuseStep DEF WriteRefused
<1>4. ASSUME NEW p \in Parents, NEW name \in Names, NEW ext \in Exts, WriteFolder(p, name, ext)
      PROVE  DriverInv'
  <2> DEFINE new == FolderAdded(fat_table, storage, p, name, ext)
  <2>1. /\ mounted /\ WriteCheck(fat_table, storage, p, name, ext) = 0
        /\ Save(new.fat, new.st, {}) /\ retcode' = 0
    BY <1>4 DEF WriteFolder
  <2>2. IsParent(fat_table, p)
    BY <2>1 DEF WriteCheck
  <2>3. Sound(new.fat, new.st)
    BY <2>1, <2>2, ParentFacts, FolderAddedSound DEF DriverInv
  <2> HIDE DEF new
  <2> QED BY <2>1, <2>3, SaveStep
<1>5. ASSUME NEW p \in Parents, NEW name \in Names, NEW ext \in Exts,
             NEW v \in Values, NEW n \in Sizes, WriteFile(p, name, ext, v, n)
      PROVE  DriverInv'
  <2> DEFINE data == [k \in 0 .. n - 1 |-> Piece(v, k)]
             new  == FileAdded(fat_table, storage, p, name, ext, data)
  <2>1. /\ mounted /\ WriteCheck(fat_table, storage, p, name, ext) = 0
        /\ Save(new.fat, new.st, {}) /\ retcode' = 0
    BY <1>5 DEF WriteFile
  <2>2. IsParent(fat_table, p)
    BY <2>1 DEF WriteCheck
  <2>3. n \in Nat
    BY FAT32Assumption
  <2>4. data \in [0 .. n - 1 -> Blocks] /\ \A k \in 0 .. n - 1 : data[k].kind # "dir"
    BY <2>3, BlockFacts
  <2> HIDE DEF data
  <2>5. Sound(new.fat, new.st)
    BY <2>1, <2>2, <2>3, <2>4, ParentFacts, FileAddedSound DEF DriverInv
  <2> HIDE DEF new
  <2> QED BY <2>1, <2>5, SaveStep
<1>6. ASSUME NEW p \in Parents, NEW name \in Names, NEW ext \in Exts, delete(p, name, ext)
      PROVE  DriverInv'
  <2> DEFINE match == Matching(storage, p, name, ext)
  <2>1. CASE Refuse(IF ~IsParent(fat_table, p) THEN -1 ELSE IF match = {} THEN 1 ELSE 0)
    BY <2>1, RefuseStep
  <2>2. CASE Refuse(2)
    BY <2>2, RefuseStep
  <2>3. ASSUME NEW s \in match, IsParent(fat_table, p), mounted,
               Erase(Reach(fat_table, storage, Table(storage, p)[s].cluster), p, s)
        PROVE  DriverInv'
    BY <2>3, EraseStep DEF Matching
  <2> QED BY <1>6, <2>1, <2>2, <2>3 DEF delete
<1>7. ASSUME NEW p \in Parents, NEW name \in Names, NEW ext \in Exts,
             delete_folder_rec(p, name, ext)
      PROVE  DriverInv'
  <2> DEFINE match == Matching(storage, p, name, ext)
             folders == {s \in match : Table(storage, p)[s].folder}
  <2>1. CASE Refuse(IF ~IsParent(fat_table, p) THEN -1
                    ELSE IF folders # {} THEN 0 ELSE IF match # {} THEN 1 ELSE 2)
    BY <2>1, RefuseStep
  <2>2. ASSUME NEW s \in folders, IsParent(fat_table, p), mounted,
               Erase(Reach(fat_table, storage, Table(storage, p)[s].cluster), p, s)
        PROVE  DriverInv'
    BY <2>2, EraseStep DEF Matching
  <2> QED BY <1>7, <2>1, <2>2 DEF delete_folder_rec
<1> QED BY <1>1, <1>2, <1>3, <1>4, <1>5, <1>6, <1>7, CopyStep DEF Next

\* The driver's invariant holds in every state, of every disk, full or not,
\* through every sequence of writes, deletions, copies and power-ons.
THEOREM DriverInvariance == Spec => []DriverInv
<1>1. Init => DriverInv
  <2> SUFFICES ASSUME Init PROVE DriverInv
    OBVIOUS
  <2>1. 0 \in FatValues /\ Zeros \in Blocks /\ Zeros.kind = "zeros" /\ 0 \in Clusters /\ 1 \in Clusters
    BY ClusterFacts, BlockFacts DEF FatValues
  <2> QED BY <2>1 DEF Init, DriverInv, TypeOK, EMPTY
<1>2. DriverInv /\ [Next]_vars => DriverInv'
  BY DriverInductive
<1> QED BY <1>1, <1>2, PTL DEF Spec
-----------------------------------------------------------------------------
(* What the invariant says. *)

\* Every index in the table and in a directory entry is inside the disk
\* (src/src/fat32.c, the loops along FAT and the directory tables), for every
\* size of the disk.
THEOREM FAT32TypeOK == Spec => []TypeOK
<1>1. DriverInv => TypeOK
  BY DEF DriverInv
<1> QED BY <1>1, DriverInvariance, PTL

\* The entries that TLC's properties quantify over are the live ones.
LEMMA LiveEntriesAreLive ==
    ASSUME DriverInv, NEW x \in LiveEntries
    PROVE  /\ mounted /\ Sound(fat_table, storage)
           /\ x[1] \in Clusters /\ x[2] \in Slots /\ x = <<x[1], x[2]>>
           /\ Live(fat_table, storage, x[1], x[2])
           /\ EntryAt(x) = storage[x[1]].table[x[2]]
           /\ x[2] \in Indices
           /\ Ref(fat_table, storage, x[1], x[2]) = EntryAt(x).cluster
<1>1. /\ x[1] \in Directories /\ x[2] \in Slots /\ x = <<x[1], x[2]>>
      /\ storage[x[1]].table[x[2]] # NoEntry
  BY DEF LiveEntries
<1>2. mounted /\ x[1] \in Clusters /\ Live(fat_table, storage, x[1], x[2])
  BY <1>1 DEF Directories, Live, IsDir
<1> QED BY <1>1, <1>2, ClusterFacts DEF DriverInv, EntryAt, Ref, Indices

\* No cluster ever has two owners and none in use is free (create_fat32, write,
\* delete, rec_delete and copy_file of src/src/fat32.c), on a disk of any size,
\* also when it is full.
THEOREM FAT32NoSharedCluster == Spec => []NoSharedCluster
<1>1. ASSUME DriverInv PROVE NoSharedCluster
  <2> SUFFICES ASSUME mounted, NEW c \in DataClusters
               PROVE  LET heads == {x \in LiveEntries : EntryAt(x).cluster = c}
                          preds == {d \in Clusters : fat_table[d] = c}
                      IN  /\ Cardinality(heads) + Cardinality(preds) <= 1
                          /\ heads # {} \/ preds # {} => fat_table[c] # EMPTY
    BY DEF NoSharedCluster
  <2> DEFINE heads == {x \in LiveEntries : EntryAt(x).cluster = c}
             preds == {d \in Clusters : fat_table[d] = c}
  <2>1. Sound(fat_table, storage)
    BY <1>1 DEF DriverInv
  <2>2. \A x \in heads : /\ x[1] \in Clusters /\ x[2] \in Slots /\ x = <<x[1], x[2]>>
                         /\ x[2] \in Indices /\ Ref(fat_table, storage, x[1], x[2]) = c
    BY <1>1, LiveEntriesAreLive
  <2>3. \A d \in preds : d \in Clusters /\ 0 \in Indices /\ Ref(fat_table, storage, d, 0) = c
    BY DEF Ref, Indices
  <2> HIDE DEF heads, preds
  <2>4. \A x, y \in heads : x = y
    BY <2>1, <2>2 DEF Sound, OneOwner
  <2>5. \A d, e \in preds : d = e
    BY <2>1, <2>3 DEF Sound, OneOwner
  <2>6. heads = {} \/ preds = {}
    <3> SUFFICES ASSUME NEW x \in heads, NEW d \in preds PROVE FALSE
      OBVIOUS
    <3>1. x[2] = 0
      BY <2>1, <2>2, <2>3 DEF Sound, OneOwner
    <3> QED BY <2>2, <3>1, ClusterFacts
  <2>7. ASSUME NEW S, \A x, y \in S : x = y PROVE Cardinality(S) \in {0, 1}
    <3>1. CASE S = {}
      BY <3>1, FS_EmptySet
    <3>2. CASE S # {}
      <4>1. PICK x \in S : S = {x}
        BY <2>7, <3>2
      <4> QED BY <4>1, FS_Singleton
    <3> QED BY <3>1, <3>2
  <2>8. Cardinality(heads) \in {0, 1} /\ Cardinality(preds) \in {0, 1}
    BY <2>4, <2>5, <2>7
  <2>9. Cardinality({}) = 0
    BY FS_EmptySet
  <2>10. Cardinality(heads) + Cardinality(preds) <= 1
    BY <2>6, <2>8, <2>9
  <2>11. ASSUME heads # {} \/ preds # {} PROVE fat_table[c] # EMPTY
    BY <2>1, <2>2, <2>3, <2>11 DEF Sound, RefsInside
  <2> QED BY <2>10, <2>11 DEF heads, preds
<1> QED BY <1>1, DriverInvariance, PTL

\* No cluster is lost: what the allocation no longer gives can be reached from
\* the root, and so deleted (delete, rec_delete and copy_file of
\* src/src/fat32.c), on a disk of any size, also when it is full.
THEOREM FAT32NoLostCluster == Spec => []NoLostCluster
<1>1. DriverInv => NoLostCluster
  BY DEF DriverInv, Sound, NoneLost, NoLostCluster
<1> QED BY <1>1, DriverInvariance, PTL
-----------------------------------------------------------------------------
(* Files are whole, on a disk with room. *)

\* f is the chain of the file entry e: as many clusters as its size, ended by
\* EOF, with the pieces of contents v in order.
FileChain(fat, st, e, f, v) ==
    /\ e.size \in 1 .. CLUSTER_MAP_SIZE
    /\ f \in [0 .. e.size - 1 -> DataClusters]
    /\ f[0] = e.cluster
    /\ \A k \in 0 .. e.size - 1 :
          fat[f[k]] = (IF k = e.size - 1 THEN EOF ELSE f[k + 1]) /\ st[f[k]] = Piece(v, k)

WholeFiles(fat, st) ==
    \A p \in Clusters, s \in Slots :
        Live(fat, st, p, s) /\ ~st[p].table[s].folder =>
            \E f, v : v \in Values /\ FileChain(fat, st, st[p].table[s], f, v)

WholeInv == mounted => WholeFiles(fat_table, storage)

\* A loop along the table follows a chain to its end.
LEMMA WalkAlong ==
    ASSUME NEW fat, NEW n \in 1 .. CLUSTER_MAP_SIZE, NEW f \in [0 .. n - 1 -> DataClusters],
           \A k \in 0 .. n - 1 : fat[f[k]] = IF k = n - 1 THEN EOF ELSE f[k + 1]
    PROVE  LET at == Walk(fat, f[0])
           IN  /\ \A k \in 0 .. n - 1 : k \in DOMAIN at /\ at[k] = f[k]
               /\ n \in DOMAIN at /\ at[n] = EOF
<1> DEFINE at == Walk(fat, f[0])
<1>1. /\ DOMAIN at = 0 .. CLUSTER_MAP_SIZE /\ at[0] = f[0]
      /\ \A k \in 0 .. CLUSTER_MAP_SIZE : k # 0 => at[k] = Step(fat, at[k - 1])
  BY WalkTurns
<1>2. /\ n \in 1 .. CLUSTER_MAP_SIZE
      /\ \A k \in 0 .. n - 1 : f[k] \in Clusters
      /\ \A k \in 0 .. n - 1 : fat[f[k]] = IF k = n - 1 THEN EOF ELSE f[k + 1]
  BY ClusterFacts
<1>3. CLUSTER_MAP_SIZE \in Nat
  BY FAT32Assumption
<1> HIDE DEF at
<1>4. \A k \in 0 .. n - 1 : k \in 0 .. CLUSTER_MAP_SIZE
  BY <1>2, <1>3
<1>5. \A k \in 0 .. n - 1 : at[k] = f[k]
  <2> DEFINE Bad == {k \in 0 .. n - 1 : at[k] # f[k]}
  <2> SUFFICES ASSUME Bad # {} PROVE FALSE
    OBVIOUS
  <2>1. PICK k \in Bad : IsFirst(Bad, k)
    <3>1. Bad \in SUBSET Nat
      BY <1>2
    <3> HIDE DEF Bad
    <3> QED BY <3>1, LeastMember
  <2>2. k \in 0 .. n - 1 /\ at[k] # f[k] /\ k # 0
    BY <1>1, <1>2
  <2>3. k - 1 \in 0 .. n - 1 /\ k - 1 # n - 1 /\ (k - 1) + 1 = k
    BY <1>2, <2>2
  <2>4. at[k - 1] = f[k - 1]
    BY <2>1, <2>3 DEF IsFirst
  <2>5. at[k] = Step(fat, f[k - 1])
    BY <1>1, <1>4, <2>2, <2>4
  <2> QED BY <1>2, <2>2, <2>3, <2>5 DEF Step
<1>6. at[n] = EOF
  <2>1. n \in 0 .. CLUSTER_MAP_SIZE /\ n # 0 /\ n - 1 \in 0 .. n - 1
    BY <1>2, <1>3
  <2>2. at[n] = Step(fat, f[n - 1])
    BY <1>1, <1>5, <2>1
  <2> QED BY <1>2, <2>1, <2>2 DEF Step
<1>7. n \in 0 .. CLUSTER_MAP_SIZE
  BY <1>2, <1>3
<1> QED BY <1>1, <1>4, <1>5, <1>6, <1>7 DEF at

\* So the loops from a file's entry follow the chain of the file.
LEMMA WalkAlongChain ==
    ASSUME NEW fat, NEW st, NEW e, NEW f, NEW v, FileChain(fat, st, e, f, v)
    PROVE  LET at == Walk(fat, e.cluster)
           IN  /\ \A k \in 0 .. e.size - 1 : k \in DOMAIN at /\ at[k] = f[k]
               /\ at[e.size] = EOF
<1>1. /\ e.size \in 1 .. CLUSTER_MAP_SIZE /\ f \in [0 .. e.size - 1 -> DataClusters]
      /\ \A k \in 0 .. e.size - 1 : fat[f[k]] = IF k = e.size - 1 THEN EOF ELSE f[k + 1]
      /\ f[0] = e.cluster
  BY DEF FileChain
<1>2. LET at == Walk(fat, f[0])
      IN  /\ \A k \in 0 .. e.size - 1 : k \in DOMAIN at /\ at[k] = f[k]
          /\ e.size \in DOMAIN at /\ at[e.size] = EOF
  BY <1>1, WalkAlong
<1> QED BY <1>1, <1>2

\* What read copies of a whole file are its pieces in order.
LEMMA ContentsOfChain ==
    ASSUME NEW fat, NEW st, NEW e, NEW f, NEW v, FileChain(fat, st, e, f, v)
    PROVE  Contents(fat, st, e) = [k \in 0 .. e.size - 1 |-> Piece(v, k)]
<1> DEFINE at == Walk(fat, e.cluster)
<1>1. \A k \in 0 .. e.size - 1 : k \in DOMAIN at /\ at[k] = f[k]
  BY WalkAlongChain
<1>2. \A k \in 0 .. e.size - 1 : f[k] \in Clusters /\ st[f[k]] = Piece(v, k)
  BY ClusterFacts DEF FileChain
<1>3. Contents(fat, st, e) = [k \in 0 .. e.size - 1 |->
          IF k \in DOMAIN at /\ at[k] \in Clusters THEN st[at[k]] ELSE Unknown]
  BY DEF Contents
<1> HIDE DEF at
<1> QED BY <1>1, <1>2, <1>3

\* The chain of a file that is left has no cluster of what is freed.
LEMMA EraseChain ==
    ASSUME NEW fat, NEW st, Sound(fat, st), NEW p \in Clusters, NEW s \in Slots,
           Live(fat, st, p, s), NEW C, C = Reach(fat, st, st[p].table[s].cluster),
           NEW q \in Clusters, NEW t \in Slots,
           Live(FreedTable(fat, C), Erased(st, C, p, s), q, t),
           NEW f, NEW v, FileChain(fat, st, st[q].table[t], f, v)
    PROVE  FileChain(FreedTable(fat, C), Erased(st, C, p, s), st[q].table[t], f, v)
<1> DEFINE fat2 == FreedTable(fat, C)
           st2  == Erased(st, C, p, s)
<1>1. /\ C \subseteq Held(fat) /\ p \notin C
      /\ \A d \in Clusters, i \in Indices :
            Ref(fat, st, d, i) \in C \cap DataClusters => d \in C \/ (d = p /\ i = s)
  BY FreedIsApart
<1>2. C \in SUBSET Clusters
  BY <1>1, ClusterFacts DEF Held, ROOT_CLUSTER_NUMBER
<1>3. /\ \A c \in Clusters : fat2[c] = IF c \in C THEN EMPTY ELSE fat[c]
      /\ \A d \in Clusters \ C : d # p => st2[d] = st[d]
      /\ \A d \in Clusters, i \in Slots :
            Live(fat2, st2, d, i) <=>
               d \notin C /\ Live(fat, st, d, i) /\ ~(d = p /\ i = s)
      /\ \A d \in Clusters, i \in Slots :
            Live(fat2, st2, d, i) => st2[d].table[i] = st[d].table[i]
  <2>1. Types(fat, st)
    BY DEF Sound
  <2>2. IsErased(fat, st, p, s, C, fat2, st2)
    BY <1>1, <1>2, <2>1, AfterErase
  <2> HIDE DEF fat2, st2
  <2> QED BY <2>2 DEF IsErased
<1> HIDE DEF fat2, st2
<1> DEFINE e == st[q].table[t]
<1>4. Live(fat, st, q, t) /\ q \notin C /\ ~(q = p /\ t = s)
  BY <1>3 DEF fat2, st2
<1>5. FileChain(fat, st, e, f, v)
  OBVIOUS
<1>6. t \in Indices /\ Ref(fat, st, q, t) = e.cluster /\ 0 \in Indices /\ s # 0
  BY <1>4, ClusterFacts DEF Ref, Indices
<1> HIDE DEF e
<1>7. /\ e.size \in 1 .. CLUSTER_MAP_SIZE /\ f[0] = e.cluster
      /\ f \in [0 .. e.size - 1 -> DataClusters]
      /\ \A k \in 0 .. e.size - 1 : f[k] \in DataClusters /\ f[k] \in Clusters
      /\ \A k \in 0 .. e.size - 1 : fat[f[k]] = IF k = e.size - 1 THEN EOF ELSE f[k + 1]
      /\ \A k \in 0 .. e.size - 1 : st[f[k]] = Piece(v, k)
  BY <1>5, ClusterFacts DEF FileChain
<1>8. \A k \in 0 .. e.size - 1 : f[k] \notin C
  <2> DEFINE Bad == {k \in 0 .. e.size - 1 : f[k] \in C}
  <2> SUFFICES ASSUME Bad # {} PROVE FALSE
    OBVIOUS
  <2>1. PICK k \in Bad : IsFirst(Bad, k)
    <3>1. Bad \in SUBSET Nat
      BY <1>7
    <3> HIDE DEF Bad
    <3> QED BY <3>1, LeastMember
  <2>2. CASE k = 0
    BY <1>1, <1>4, <1>6, <1>7, <2>2
  <2>3. CASE k # 0
    <3>1. k - 1 \in 0 .. e.size - 1 /\ k - 1 # e.size - 1 /\ (k - 1) + 1 = k
      BY <1>7, <2>3
    <3>2. f[k - 1] \notin C
      BY <1>7, <2>1, <3>1 DEF IsFirst
    <3>3. Ref(fat, st, f[k - 1], 0) = f[k]
      BY <1>7, <3>1 DEF Ref
    <3> QED BY <1>1, <1>6, <1>7, <3>1, <3>2, <3>3
  <2> QED BY <2>2, <2>3
<1>9. \A k \in 0 .. e.size - 1 : f[k] # p
  <2>1. st[p].kind = "dir"
    BY DEF Live, IsDir
  <2>2. \A k : Piece(v, k).kind = "piece"
    BY DEF Piece
  <2> QED BY <1>7, <2>1, <2>2
<1>10. FileChain(fat2, st2, e, f, v)
  BY <1>3, <1>7, <1>8, <1>9 DEF FileChain
<1> QED BY <1>10 DEF fat2, st2, e

LEMMA EraseWhole ==
    ASSUME NEW fat, NEW st, Sound(fat, st), WholeFiles(fat, st),
           NEW p \in Clusters, NEW s \in Slots, Live(fat, st, p, s),
           NEW C, C = Reach(fat, st, st[p].table[s].cluster)
    PROVE  WholeFiles(FreedTable(fat, C), Erased(st, C, p, s))
<1> DEFINE fat2 == FreedTable(fat, C)
           st2  == Erased(st, C, p, s)
<1>1. p \notin C /\ C \in SUBSET Clusters
  <2>1. p \notin C /\ C \subseteq Held(fat)
    BY FreedIsApart
  <2> QED BY <2>1, ClusterFacts DEF Held, ROOT_CLUSTER_NUMBER
<1>2. \A d \in Clusters, i \in Slots :
         Live(fat2, st2, d, i) => Live(fat, st, d, i) /\ st2[d].table[i] = st[d].table[i]
  <2>1. Types(fat, st)
    BY DEF Sound
  <2>2. IsErased(fat, st, p, s, C, fat2, st2)
    BY <1>1, <2>1, AfterErase
  <2> HIDE DEF fat2, st2
  <2> QED BY <2>2 DEF IsErased
<1> HIDE DEF fat2, st2
<1> SUFFICES ASSUME NEW q \in Clusters, NEW t \in Slots, Live(fat2, st2, q, t),
                    ~st2[q].table[t].folder
             PROVE  \E f, v : v \in Values /\ FileChain(fat2, st2, st2[q].table[t], f, v)
  BY DEF WholeFiles, fat2, st2
<1>3. PICK f, v : v \in Values /\ FileChain(fat, st, st[q].table[t], f, v)
  BY <1>2 DEF WholeFiles
<1>4. FileChain(fat2, st2, st[q].table[t], f, v)
  BY <1>3, EraseChain DEF fat2, st2
<1> QED BY <1>2, <1>3, <1>4

\* Adding an entry leaves the chains of the files as they are.
LEMMA AddChain ==
    ASSUME NEW fat, NEW st, Sound(fat, st), NEW p \in Clusters, NEW s \in Slots,
           IsDir(fat, st, p), ~Live(fat, st, p, s), NEW e, NEW m, NEW a, NEW b,
           NEW fat2, NEW st2, Added(fat, st, p, s, e, m, a, b, fat2, st2),
           NEW x, NEW f, NEW v, FileChain(fat, st, x, f, v)
    PROVE  FileChain(fat2, st2, x, f, v)
<1>1. \A c \in Taken(m, a) : fat[c] = EMPTY
  BY AddedRefs
<1>2. FileChain(fat, st, x, f, v)
  OBVIOUS
<1>3. /\ x.size \in 1 .. CLUSTER_MAP_SIZE /\ f[0] = x.cluster
      /\ f \in [0 .. x.size - 1 -> DataClusters]
      /\ \A k \in 0 .. x.size - 1 : f[k] \in DataClusters /\ f[k] \in Clusters /\ f[k] # 0
      /\ \A k \in 0 .. x.size - 1 : fat[f[k]] = IF k = x.size - 1 THEN EOF ELSE f[k + 1]
      /\ \A k \in 0 .. x.size - 1 : st[f[k]] = Piece(v, k)
  <2>1. /\ x.size \in 1 .. CLUSTER_MAP_SIZE /\ f[0] = x.cluster
        /\ f \in [0 .. x.size - 1 -> DataClusters]
        /\ \A k \in 0 .. x.size - 1 : fat[f[k]] = IF k = x.size - 1 THEN EOF ELSE f[k + 1]
        /\ \A k \in 0 .. x.size - 1 : st[f[k]] = Piece(v, k)
    BY <1>2 DEF FileChain
  <2>2. \A c \in DataClusters : c \in Clusters /\ c # 0
    BY ClusterFacts
  <2> QED BY <2>1, <2>2
<1>4. \A k \in 0 .. x.size - 1 : fat[f[k]] # EMPTY
  <2> SUFFICES ASSUME NEW k \in 0 .. x.size - 1 PROVE fat[f[k]] # EMPTY
    OBVIOUS
  <2>1. k # x.size - 1 => k + 1 \in 0 .. x.size - 1
    BY <1>3
  <2>2. EMPTY # EOF /\ EMPTY = 0
    BY ClusterFacts DEF EMPTY
  <2> QED BY <1>3, <2>1, <2>2
<1>5. \A k \in 0 .. x.size - 1 : f[k] # p /\ f[k] \notin Taken(m, a)
  <2>1. st[p].kind = "dir"
    BY DEF IsDir
  <2>2. \A k : Piece(v, k).kind = "piece"
    BY DEF Piece
  <2> QED BY <1>1, <1>3, <1>4, <2>1, <2>2
<1>6. \A k \in 0 .. x.size - 1 : fat2[f[k]] = fat[f[k]] /\ st2[f[k]] = st[f[k]]
  BY <1>3, <1>5 DEF Added
<1>7. FileChain(fat2, st2, x, f, v)
  BY <1>3, <1>6 DEF FileChain
<1> QED BY <1>7

\* They stay whole, and a new file gets a whole chain when there are enough clusters.
LEMMA AddWhole ==
    ASSUME NEW fat, NEW st, Sound(fat, st), WholeFiles(fat, st),
           NEW p \in Clusters, NEW s \in Slots,
           IsDir(fat, st, p), ~Live(fat, st, p, s), NEW e, NEW m, NEW a, NEW b,
           NEW fat2, NEW st2, Added(fat, st, p, s, e, m, a, b, fat2, st2),
           ~e.folder => /\ m = e.size /\ m # 0 /\ m <= CLUSTER_MAP_SIZE
                        /\ \E v \in Values : \A k \in 0 .. m - 1 : b[k] = Piece(v, k)
    PROVE  WholeFiles(fat2, st2)
<1>1. /\ Taken(m, a) \subseteq DataClusters /\ \A c \in Taken(m, a) : fat[c] = EMPTY
      /\ st2[p].table[s] = e
      /\ \A d \in Clusters, i \in Slots : ~(d = p /\ i = s) =>
            /\ Live(fat2, st2, d, i) <=> d \notin Taken(m, a) /\ Live(fat, st, d, i)
            /\ Live(fat2, st2, d, i) => st2[d].table[i] = st[d].table[i]
  BY AddedRefs
<1> SUFFICES ASSUME NEW q \in Clusters, NEW t \in Slots, Live(fat2, st2, q, t),
                    ~st2[q].table[t].folder
             PROVE  \E f, v : v \in Values /\ FileChain(fat2, st2, st2[q].table[t], f, v)
  BY DEF WholeFiles
<1>2. CASE q = p /\ t = s
  <2>1. PICK v \in Values : \A k \in 0 .. m - 1 : b[k] = Piece(v, k)
    BY <1>1, <1>2
  <2>2. m = e.size /\ m # 0 /\ m <= CLUSTER_MAP_SIZE /\ m \in Nat
    BY <1>1, <1>2 DEF Added
  <2>3. m \in 1 .. CLUSTER_MAP_SIZE
    BY <2>2, FAT32Assumption
  <2>4. a \in [0 .. m - 1 -> DataClusters] /\ a[0] = e.cluster
    BY <2>2, FreeFacts DEF Added
  <2>5. \A k \in 0 .. m - 1 :
           fat2[a[k]] = (IF k = m - 1 THEN EOF ELSE a[k + 1]) /\ st2[a[k]] = b[k]
    BY DEF Added
  <2>6. FileChain(fat2, st2, e, a, v)
    BY <2>1, <2>2, <2>3, <2>4, <2>5 DEF FileChain
  <2> QED BY <1>1, <1>2, <2>6
<1>3. CASE ~(q = p /\ t = s)
  <2>1. st2[q].table[t] = st[q].table[t] /\ Live(fat, st, q, t)
    BY <1>1, <1>3
  <2>2. PICK f, v : v \in Values /\ FileChain(fat, st, st[q].table[t], f, v)
    BY <2>1 DEF WholeFiles
  <2>3. FileChain(fat2, st2, st[q].table[t], f, v)
    BY <2>2, AddChain
  <2> QED BY <2>1, <2>2, <2>3
<1> QED BY <1>2, <1>3

\* A file that fits is written whole.
LEMMA FileAddedWhole ==
    ASSUME NEW fat, NEW st, Sound(fat, st), WholeFiles(fat, st), NEW p \in Clusters,
           st[p].kind = "dir", NEW name \in Names, NEW ext \in Exts,
           WriteCheck(fat, st, p, name, ext) = 0, ~FullDisk,
           NEW n \in Nat, n # 0, Fits(fat, n), NEW v \in Values,
           NEW data \in [0 .. n - 1 -> Blocks], \A k \in 0 .. n - 1 : data[k] = Piece(v, k),
           NEW new, new = FileAdded(fat, st, p, name, ext, data)
    PROVE  WholeFiles(new.fat, new.st)
<1>1. \A k \in 0 .. n - 1 : data[k].kind # "dir"
  BY BlockFacts
<1>0. WritesFile(fat, st, p, name, ext, n, data, new)
  BY <1>1, FileAddedAdds
<1>2. PICK s, e, m, a :
         /\ s \in Slots /\ e \in Entries /\ m \in Nat
         /\ IsDir(fat, st, p) /\ ~Live(fat, st, p, s) /\ NewKey(fat, st, p, e)
         /\ e.name = name /\ e.ext = ext /\ ~e.folder /\ e.size = n
         /\ m <= Cardinality(FreeClusters(fat))
         /\ n <= Cardinality(FreeClusters(fat)) => m = n
         /\ Added(fat, st, p, s, e, m, a, data, new.fat, new.st)
  BY <1>0 DEF WritesFile
<1>3. Cardinality(FreeClusters(fat)) \in Nat /\ Cardinality(FreeClusters(fat)) <= CLUSTER_MAP_SIZE
  <2>1. 3 \in Int /\ CLUSTER_MAP_SIZE - 1 \in Int /\ CLUSTER_MAP_SIZE > 3 /\ CLUSTER_MAP_SIZE \in Nat
    BY FAT32Assumption
  <2>2. Cardinality(DataClusters) = CLUSTER_MAP_SIZE - 3
    <3>1. Cardinality(DataClusters) = IF 3 > CLUSTER_MAP_SIZE - 1 THEN 0
                                      ELSE (CLUSTER_MAP_SIZE - 1) - 3 + 1
      BY <2>1, FS_Interval DEF DataClusters
    <3> QED BY <2>1, <3>1
  <2>3. /\ Cardinality(FreeClusters(fat)) <= Cardinality(DataClusters)
        /\ Cardinality(FreeClusters(fat)) \in Nat
    BY FreeFacts, ClusterFacts, FS_Subset, FS_CardinalityType
  <2> QED BY <2>1, <2>2, <2>3
<1>4. m = n
  BY <1>2, <1>3 DEF Fits
<1>5. \A k \in 0 .. m - 1 : data[k] = Piece(v, k)
  BY <1>4
<1>6. m = e.size /\ m # 0 /\ m <= CLUSTER_MAP_SIZE
  BY <1>2, <1>3, <1>4, FAT32Assumption
<1> QED BY <1>2, <1>5, <1>6, AddWhole

\* A step that saves whole files keeps them whole.
LEMMA WholeSaved ==
    ASSUME NEW fat, NEW st, NEW zeroed, WholeFiles(fat, st), Save(fat, st, zeroed)
    PROVE  WholeInv'
<1>1. fat_table' = fat /\ storage' = st
  BY DEF Save
<1> QED BY <1>1 DEF WholeInv

LEMMA WholeErased ==
    ASSUME DriverInv, WholeInv, mounted, NEW p \in Parents, IsParent(fat_table, p),
           NEW s \in Used(storage, p),
           Erase(Reach(fat_table, storage, Table(storage, p)[s].cluster), p, s)
    PROVE  WholeInv'
<1> DEFINE C == Reach(fat_table, storage, Table(storage, p)[s].cluster)
<1>1. s \in Slots /\ p \in Clusters /\ Live(fat_table, storage, p, s)
      /\ Table(storage, p) = storage[p].table
  BY ParentFacts DEF Used
<1>2. Sound(fat_table, storage) /\ WholeFiles(fat_table, storage)
  BY DEF DriverInv, WholeInv
<1>3. WholeFiles(FreedTable(fat_table, C), Erased(storage, C, p, s))
  BY <1>1, <1>2, EraseWhole
<1> HIDE DEF C
<1>4. CASE Save(FreedTable(fat_table, C), Erased(storage, C, p, s), C)
  BY <1>3, <1>4, WholeSaved
<1>5. CASE Hang
  BY <1>5 DEF Hang, WholeInv
<1> QED BY <1>4, <1>5 DEF Erase, C

\* What copy_file leaves of the destination: the other files are whole.
LEMMA ClearedWhole ==
    ASSUME DriverInv, WholeInv, mounted, NEW q \in Parents, NEW name, NEW ext,
           NEW now, now = DestinationCleared(q, name, ext)
    PROVE  WholeFiles(now.fat, now.st)
<1>0. /\ Sound(fat_table, storage) /\ WholeFiles(fat_table, storage) /\ q \in Clusters
  BY ParentFacts DEF DriverInv, WholeInv
<1>1. CASE now.fat = fat_table /\ now.st = storage
  BY <1>0, <1>1
<1>2. ASSUME NEW t \in Slots, Live(fat_table, storage, q, t),
             NEW C, C = Reach(fat_table, storage, storage[q].table[t].cluster),
             now.fat = FreedTable(fat_table, C), now.st = Erased(storage, C, q, t)
      PROVE  WholeFiles(now.fat, now.st)
  BY <1>0, <1>2, EraseWhole
<1> QED BY <1>1, <1>2, ClearedIs

\* On a disk with room every step keeps files whole.
LEMMA WholeInductive ==
    ASSUME ~FullDisk, DriverInv, WholeInv, [Next]_vars
    PROVE  WholeInv'
<1>1. CASE UNCHANGED vars
  BY <1>1 DEF WholeInv, vars
<1>2. ASSUME NEW code, Refuse(code) PROVE WholeInv'
  BY <1>2 DEF WholeInv, Refuse
<1>3. CASE initialize_filesystem_fat32
  <2>1. CASE signature
    <3>1. mounted /\ fat_table' = fat_table /\ UNCHANGED storage
      BY <1>3, <2>1 DEF initialize_filesystem_fat32, DriverInv
    <3> QED BY <3>1 DEF WholeInv
  <2>2. CASE ~signature
    <3> DEFINE st == [storage EXCEPT ![ROOT_CLUSTER_NUMBER] = EmptyDirectory(ROOT_CLUSTER_NUMBER)]
    <3>1. fat_table' = FreshTable /\ storage' = st
      BY <1>3, <2>2 DEF initialize_filesystem_fat32, create_fat32
    <3>2. \A d \in Clusters, s \in Slots : ~Live(FreshTable, st, d, s)
      BY FreshIsEmpty DEF DriverInv, TypeOK
    <3> HIDE DEF st
    <3> QED BY <3>1, <3>2 DEF WholeInv, WholeFiles
  <2> QED BY <2>1, <2>2
<1>4. ASSUME NEW p \in Parents, NEW name \in Names, NEW ext \in Exts, WriteFolder(p, name, ext)
      PROVE  WholeInv'
  <2> DEFINE new == FolderAdded(fat_table, storage, p, name, ext)
  <2>1. /\ mounted /\ WriteCheck(fat_table, storage, p, name, ext) = 0
        /\ Save(new.fat, new.st, {}) /\ Fits(fat_table, 1)
    BY <1>4 DEF WriteFolder
  <2>2. IsParent(fat_table, p)
    BY <2>1 DEF WriteCheck
  <2>3. p \in Clusters /\ storage[p].kind = "dir" /\ Sound(fat_table, storage)
        /\ WholeFiles(fat_table, storage)
    BY <2>1, <2>2, ParentFacts DEF DriverInv, WholeInv
  <2>4. FreeClusters(fat_table) # {}
    BY <2>1, FS_EmptySet DEF Fits
  <2>5. PICK s, e, m, a, b :
           /\ s \in Slots /\ e \in Entries /\ m \in Nat
           /\ IsDir(fat_table, storage, p) /\ ~Live(fat_table, storage, p, s)
           /\ NewKey(fat_table, storage, p, e)
           /\ e.name = name /\ e.ext = ext
           /\ e.folder <=> FreeClusters(fat_table) # {}
           /\ Added(fat_table, storage, p, s, e, m, a, b, new.fat, new.st)
    BY <2>1, <2>3, FolderAddedAdds
  <2> HIDE DEF new
  <2>6. WholeFiles(new.fat, new.st)
    BY <2>3, <2>4, <2>5, AddWhole
  <2> QED BY <2>1, <2>6, WholeSaved
<1>5. ASSUME NEW p \in Parents, NEW name \in Names, NEW ext \in Exts,
             NEW v \in Values, NEW n \in Sizes, WriteFile(p, name, ext, v, n)
      PROVE  WholeInv'
  <2> DEFINE data == [k \in 0 .. n - 1 |-> Piece(v, k)]
             new  == FileAdded(fat_table, storage, p, name, ext, data)
  <2>1. /\ mounted /\ WriteCheck(fat_table, storage, p, name, ext) = 0
        /\ Save(new.fat, new.st, {}) /\ Fits(fat_table, n)
    BY <1>5 DEF WriteFile
  <2>2. IsParent(fat_table, p)
    BY <2>1 DEF WriteCheck
  <2>3. n \in Nat /\ n # 0
    BY FAT32Assumption
  <2>4. data \in [0 .. n - 1 -> Blocks] /\ \A k \in 0 .. n - 1 : data[k] = Piece(v, k)
    BY <2>3, BlockFacts
  <2>5. p \in Clusters /\ storage[p].kind = "dir" /\ Sound(fat_table, storage)
        /\ WholeFiles(fat_table, storage)
    BY <2>1, <2>2, ParentFacts DEF DriverInv, WholeInv
  <2> HIDE DEF data
  <2>6. WholeFiles(new.fat, new.st)
    BY <2>1, <2>3, <2>4, <2>5, FileAddedWhole
  <2> HIDE DEF new
  <2> QED BY <2>1, <2>6, WholeSaved
<1>6. ASSUME NEW p \in Parents, NEW name \in Names, NEW ext \in Exts, delete(p, name, ext)
      PROVE  WholeInv'
  <2> DEFINE match == Matching(storage, p, name, ext)
  <2>1. ASSUME NEW s \in match, IsParent(fat_table, p), mounted,
               Erase(Reach(fat_table, storage, Table(storage, p)[s].cluster), p, s)
        PROVE  WholeInv'
    BY <2>1, WholeErased DEF Matching
  <2> QED BY <1>2, <1>6, <2>1 DEF delete
<1>7. ASSUME NEW p \in Parents, NEW name \in Names, NEW ext \in Exts,
             delete_folder_rec(p, name, ext)
      PROVE  WholeInv'
  <2> DEFINE match == Matching(storage, p, name, ext)
             folders == {s \in match : Table(storage, p)[s].folder}
  <2>1. ASSUME NEW s \in folders, IsParent(fat_table, p), mounted,
               Erase(Reach(fat_table, storage, Table(storage, p)[s].cluster), p, s)
        PROVE  WholeInv'
    BY <2>1, WholeErased DEF Matching
  <2> QED BY <1>2, <1>7, <2>1 DEF delete_folder_rec
<1>8. ASSUME NEW p \in Parents, NEW name \in Names, NEW ext \in Exts, NEW q \in Parents,
             NEW name2 \in Names, NEW ext2 \in Exts, copy_file(p, name, ext, q, name2, ext2)
      PROVE  WholeInv'
  <2> DEFINE src == FilesMatching(storage, p, name, ext)
             now == DestinationCleared(q, name2, ext2)
             code == WriteCheck(now.fat, now.st, q, name2, ext2)
             data(s) == Contents(fat_table, storage, Table(storage, p)[s])
             new(s) == FileAdded(now.fat, now.st, q, name2, ext2, data(s))
  <2>0. mounted /\ Sound(fat_table, storage) /\ WholeFiles(fat_table, storage)
    BY <1>8 DEF copy_file, DriverInv, WholeInv
  <2>1. \/ \E x : Refuse(x)
        \/ Hang
        \/ Save(now.fat, now.st, now.clusters)
        \/ \E s \in src : /\ IsParent(fat_table, p) /\ code = 0
                          /\ Fits(now.fat, Table(storage, p)[s].size)
                          /\ Save(new(s).fat, new(s).st, now.clusters)
    BY <1>8 DEF copy_file
  <2>2. CASE Hang
    BY <2>2 DEF Hang, WholeInv
  <2>3. WholeFiles(now.fat, now.st) /\ Sound(now.fat, now.st)
        /\ (IsParent(now.fat, q) => now.st[q].kind = "dir") /\ q \in Clusters
    BY <2>0, ClearedWhole, ClearedSound, ParentFacts
  <2>4. CASE Save(now.fat, now.st, now.clusters)
    <3> HIDE DEF now
    <3> QED BY <2>3, <2>4, WholeSaved
  <2>5. ASSUME NEW s \in src, IsParent(fat_table, p), code = 0,
               Fits(now.fat, Table(storage, p)[s].size),
               Save(new(s).fat, new(s).st, now.clusters)
        PROVE  WholeInv'
    <3> DEFINE e == Table(storage, p)[s]
    <3>1. s \in Slots /\ p \in Clusters /\ Live(fat_table, storage, p, s)
          /\ e = storage[p].table[s] /\ ~e.folder
      BY <2>0, <2>5, ParentFacts DEF FilesMatching, Matching, Used
    <3>2. PICK f, v : v \in Values /\ FileChain(fat_table, storage, e, f, v)
      BY <2>0, <3>1 DEF WholeFiles
    <3>3. now.st[q].kind = "dir"
      <4>1. IsParent(now.fat, q)
        BY <2>5 DEF WriteCheck
      <4> QED BY <2>3, <4>1
    <3> HIDE DEF e
    <3>4. e.size \in Nat /\ e.size # 0
      BY <3>2, FAT32Assumption DEF FileChain
    <3>5. data(s) = [k \in 0 .. e.size - 1 |-> Piece(v, k)]
      <4>1. data(s) = Contents(fat_table, storage, e)
        BY DEF e
      <4> HIDE DEF data
      <4> QED BY <3>2, <4>1, ContentsOfChain
    <3>6. data(s) \in [0 .. e.size - 1 -> Blocks]
          /\ \A k \in 0 .. e.size - 1 : data(s)[k] = Piece(v, k)
      <4>1. \A k \in 0 .. e.size - 1 : Piece(v, k) \in Blocks
        BY <3>2, <3>4, BlockFacts
      <4> HIDE DEF data
      <4> QED BY <3>5, <4>1
    <3> HIDE DEF data, now
    <3>7. Fits(now.fat, e.size)
      BY <2>5 DEF e
    <3>8. WholeFiles(new(s).fat, new(s).st)
      <4> DEFINE b == data(s)
      <4>1. /\ b \in [0 .. e.size - 1 -> Blocks]
            /\ \A k \in 0 .. e.size - 1 : b[k] = Piece(v, k)
        BY <3>6
      <4>2. new(s) = FileAdded(now.fat, now.st, q, name2, ext2, b)
        OBVIOUS
      <4> HIDE DEF b, new
      <4> QED BY <2>3, <2>5, <3>2, <3>3, <3>4, <3>7, <4>1, <4>2, FileAddedWhole
    <3> HIDE DEF new
    <3> QED BY <2>5, <3>8, WholeSaved
  <2> QED BY <1>2, <2>1, <2>2, <2>4, <2>5
<1> QED BY <1>1, <1>2, <1>3, <1>4, <1>5, <1>6, <1>7, <1>8 DEF Next, WriteRefused

\* As long as requests fit on the disk, every file that write or copy_file
\* reported as stored keeps all its clusters, in order, whatever is written,
\* deleted and copied around it (src/src/fat32.c), for every size of the disk, of
\* the directories and of the files.
THEOREM FAT32FilesWhole ==
    ASSUME ~FullDisk
    PROVE  Spec => []FilesWhole
<1>1. Init => WholeInv
  BY DEF Init, WholeInv
<1>2. DriverInv /\ WholeInv /\ [Next]_vars => WholeInv'
  BY WholeInductive
<1>3. ASSUME DriverInv, WholeInv PROVE FilesWhole
  <2> SUFFICES ASSUME NEW x \in LiveEntries, ~EntryAt(x).folder
               PROVE  LET e  == EntryAt(x)
                          at == Walk(fat_table, e.cluster)
                      IN  /\ at[e.size] = EOF
                          /\ \E v \in Values : \A k \in 0 .. e.size - 1 :
                                at[k] \in DataClusters /\ storage[at[k]] = Piece(v, k)
    BY DEF FilesWhole
  <2> DEFINE e  == EntryAt(x)
             at == Walk(fat_table, e.cluster)
  <2>1. PICK f, v : v \in Values /\ FileChain(fat_table, storage, e, f, v)
    BY <1>3, LiveEntriesAreLive DEF WholeInv, WholeFiles
  <2> HIDE DEF e
  <2>2. at[e.size] = EOF /\ \A k \in 0 .. e.size - 1 : at[k] = f[k]
    BY <2>1, WalkAlongChain
  <2> HIDE DEF at
  <2>3. \A k \in 0 .. e.size - 1 : at[k] \in DataClusters /\ storage[at[k]] = Piece(v, k)
    BY <2>1, <2>2 DEF FileChain
  <2> QED BY <2>1, <2>2, <2>3 DEF at, e
<1> QED BY <1>1, <1>2, <1>3, DriverInvariance, PTL DEF Spec
-----------------------------------------------------------------------------
(* The lookups and the tree. *)

\* The search of one directory: at most one entry has a key, the node of the
\* tree is that entry, and what the loops find first is there.
LEMMA Search ==
    ASSUME DriverInv, NEW p \in Directories, NEW name \in Names, NEW ext \in Exts
    PROVE  LET M == Matching(storage, p, name, ext)
           IN  /\ p \in Clusters /\ mounted /\ IsParent(fat_table, p)
               /\ Table(storage, p) = storage[p].table /\ Sound(fat_table, storage)
               /\ \A s \in Used(storage, p) : s \in Slots /\ Live(fat_table, storage, p, s)
               /\ M \subseteq Used(storage, p)
               /\ \A s, t \in M : s = t
               /\ M = {} => Node(p, <<name, ext>>) = Missing
               /\ \A s \in M :
                     LET e == storage[p].table[s]
                     IN  Node(p, <<name, ext>>) =
                            IF e.folder THEN [kind |-> "folder", id |-> e.cluster]
                            ELSE [kind |-> "file", data |-> Contents(fat_table, storage, e)]
<1> DEFINE M == Matching(storage, p, name, ext)
<1>1. p \in Clusters /\ mounted /\ IsParent(fat_table, p) /\ storage[p].kind = "dir"
  BY DEF Directories
<1>2. Table(storage, p) = storage[p].table /\ Sound(fat_table, storage)
  BY <1>1 DEF Table, DriverInv
<1>3. \A s \in Used(storage, p) : s \in Slots /\ Live(fat_table, storage, p, s)
  BY <1>1, <1>2 DEF Used, Live, IsDir
<1>4. M \subseteq Used(storage, p)
      /\ \A s \in M : storage[p].table[s].name = name /\ storage[p].table[s].ext = ext
  BY <1>2 DEF Matching
<1>5. \A s, t \in M : s = t
  BY <1>1, <1>2, <1>3, <1>4 DEF Sound, UniqueKeys
<1>6. <<name, ext>>[1] = name /\ <<name, ext>>[2] = ext
  OBVIOUS
<1>7. M = {} => Node(p, <<name, ext>>) = Missing
  BY <1>6 DEF Node
<1>8. ASSUME NEW s \in M
      PROVE  LET e == storage[p].table[s]
             IN  Node(p, <<name, ext>>) =
                    IF e.folder THEN [kind |-> "folder", id |-> e.cluster]
                    ELSE [kind |-> "file", data |-> Contents(fat_table, storage, e)]
  <2>1. (CHOOSE t \in M : TRUE) = s
    <3> HIDE DEF M
    <3> QED BY <1>5
  <2> QED BY <1>2, <1>6, <1>8, <2>1 DEF Node
<1> QED BY <1>1, <1>2, <1>3, <1>4, <1>5, <1>7, <1>8

\* The four lookups (read, read_directory, search_file and get_cluster_number of
\* src/src/fat32.c) agree with the tree of files and with each other, and ".."
\* leads back, for every tree on a disk with room.
THEOREM FAT32LookupsMatchTree ==
    ASSUME ~FullDisk
    PROVE  Spec => []LookupsMatchTree
<1>1. Init => WholeInv
  BY DEF Init, WholeInv
<1>2. DriverInv /\ WholeInv /\ [Next]_vars => WholeInv'
  BY WholeInductive
<1>3. ASSUME DriverInv, WholeInv, NEW p \in Directories, NEW name \in Names, NEW ext \in Exts
      PROVE  LET n == get_cluster_number(fat_table, storage, p, name)
             IN  /\ (read(p, name, ext, CLUSTER_MAP_SIZE) = 0) = FS!IsFile(Tree[p][<<name, ext>>])
                 /\ (search_file(p, name, ext) = 0) = FS!IsFile(Tree[p][<<name, ext>>])
                 /\ (read_directory(p, name) = 0) = (n # 0)
                 /\ n # 0 => n \in Directories /\ storage[n].up = p
                 /\ search_file(p, name, ext) = 2 => n = 0 /\ read(p, name, ext, 0) = 2
  <2> DEFINE M == Matching(storage, p, name, ext)
             F == FilesMatching(storage, p, name, ext)
             D == FoldersNamed(storage, p, name)
             T == storage[p].table
             n == get_cluster_number(fat_table, storage, p, name)
  <2>1. /\ p \in Clusters /\ mounted /\ IsParent(fat_table, p)
        /\ Table(storage, p) = T /\ Sound(fat_table, storage)
        /\ \A s \in Used(storage, p) : s \in Slots /\ Live(fat_table, storage, p, s)
        /\ M \subseteq Used(storage, p)
        /\ \A s, t \in M : s = t
        /\ M = {} => Node(p, <<name, ext>>) = Missing
        /\ \A s \in M :
              LET e == T[s]
              IN  Node(p, <<name, ext>>) =
                     IF e.folder THEN [kind |-> "folder", id |-> e.cluster]
                     ELSE [kind |-> "file", data |-> Contents(fat_table, storage, e)]
    BY <1>3, Search
  <2>2. Tree[p][<<name, ext>>] = Node(p, <<name, ext>>)
    BY DEF Tree, Keys
  <2>3. /\ F = {s \in M : ~T[s].folder} /\ D = {s \in Used(storage, p) : T[s].name = name /\ T[s].folder}
        /\ M = {s \in Used(storage, p) : T[s].name = name /\ T[s].ext = ext}
    BY <2>1 DEF FilesMatching, FoldersNamed, Matching
  <2>4. FS!IsFile(Tree[p][<<name, ext>>]) <=> F # {}
    <3>1. CASE M = {}
      BY <2>1, <2>2, <2>3, <3>1 DEF FS!IsFile, Missing
    <3>2. CASE M # {}
      <4>1. PICK s \in M : M = {s}
        BY <2>1, <3>2
      <4>2. F # {} <=> ~T[s].folder
        BY <2>3, <4>1
      <4>3. CASE T[s].folder
        <5>0. Node(p, <<name, ext>>) = [kind |-> "folder", id |-> T[s].cluster]
          BY <2>1, <4>3
        <5>1. Node(p, <<name, ext>>).kind = "folder"
          BY <5>0
        <5> QED BY <2>2, <4>2, <4>3, <5>1 DEF FS!IsFile
      <4>4. CASE ~T[s].folder
        <5>0. Node(p, <<name, ext>>) =
                 [kind |-> "file", data |-> Contents(fat_table, storage, T[s])]
          BY <2>1, <4>4
        <5>1. Node(p, <<name, ext>>).kind = "file"
          BY <5>0
        <5> QED BY <2>2, <4>2, <4>4, <5>1 DEF FS!IsFile
      <4> QED BY <4>3, <4>4
    <3> QED BY <3>1, <3>2
  <2>5. \A s \in F : T[s].size \in Nat /\ ~(CLUSTER_MAP_SIZE < T[s].size)
    <3> SUFFICES ASSUME NEW s \in F
                 PROVE  T[s].size \in Nat /\ ~(CLUSTER_MAP_SIZE < T[s].size)
      OBVIOUS
    <3>1. s \in Slots /\ Live(fat_table, storage, p, s) /\ ~T[s].folder
      BY <2>1, <2>3
    <3>2. PICK f, v : FileChain(fat_table, storage, T[s], f, v)
      BY <1>3, <2>1, <3>1 DEF WholeInv, WholeFiles
    <3>3. T[s].size \in 1 .. CLUSTER_MAP_SIZE /\ CLUSTER_MAP_SIZE \in Nat
      BY <3>2, FAT32Assumption DEF FileChain
    <3> HIDE DEF T
    <3> QED BY <3>3
  <2>6. D # {} => /\ n \in DataClusters /\ n \in Directories /\ storage[n].up = p
    <3> SUFFICES ASSUME D # {}
                 PROVE  n \in DataClusters /\ n \in Directories /\ storage[n].up = p
      OBVIOUS
    <3>1. PICK t \in D : IsFirst(D, t)
      <4>1. D \in SUBSET Nat
        BY <2>1, <2>3, ClusterFacts
      <4> HIDE DEF D
      <4> QED BY <4>1, LeastMember
    <3>2. t \in Slots
      BY <2>1, <2>3, <3>1
    <3> DEFINE s == CHOOSE u \in Slots : IsFirst(D, u)
    <3>3. s \in D
      <4>1. s \in Slots /\ IsFirst(D, s)
        BY <3>1, <3>2
      <4> QED BY <4>1 DEF IsFirst
    <3>4. n = T[s].cluster
      BY <2>1 DEF get_cluster_number
    <3> HIDE DEF s
    <3>5. s \in Slots /\ Live(fat_table, storage, p, s) /\ T[s].folder
      BY <2>1, <2>3, <3>3
    <3>6. n \in DataClusters /\ storage[n].kind = "dir" /\ storage[n].up = p
      BY <2>1, <3>4, <3>5 DEF Sound, KindsAgree
    <3>7. s \in Indices /\ Ref(fat_table, storage, p, s) = n
      BY <3>4, <3>5, ClusterFacts DEF Ref, Indices
    <3>8. fat_table[n] # EMPTY
      BY <2>1, <3>6, <3>7 DEF Sound, RefsInside
    <3>9. fat_table[n] = EOF /\ n \in Clusters
      BY <2>1, <3>6, <3>8, ClusterFacts DEF Sound, KindsAgree
    <3> QED BY <2>1, <3>6, <3>9 DEF Directories, IsParent
  <2>7. D = {} => n = 0
    BY DEF get_cluster_number
  <2>8. n # 0 <=> D # {}
    BY <2>6, <2>7, ClusterFacts
  <2>9. read(p, name, ext, CLUSTER_MAP_SIZE) = 0 <=> F # {}
    BY <2>1, <2>5 DEF read
  <2>10. search_file(p, name, ext) = 0 <=> F # {}
    BY <2>1 DEF search_file
  <2>11. read_directory(p, name) = 0 <=> D # {}
    BY <2>1 DEF read_directory
  <2>12. ASSUME search_file(p, name, ext) = 2 PROVE D = {} /\ F = {}
    <3>1. F = {} /\ ~\E s \in Used(storage, p) : T[s].name = name
      BY <2>1, <2>12 DEF search_file
    <3> QED BY <2>3, <3>1
  <2>13. D = {} /\ F = {} => read(p, name, ext, 0) = 2
    BY <2>1 DEF read
  <2> HIDE DEF F, D, M, T, n
  <2>14. (read(p, name, ext, CLUSTER_MAP_SIZE) = 0) = FS!IsFile(Tree[p][<<name, ext>>])
    BY <2>4, <2>9 DEF FS!IsFile
  <2>15. (search_file(p, name, ext) = 0) = FS!IsFile(Tree[p][<<name, ext>>])
    BY <2>4, <2>10 DEF FS!IsFile
  <2>16. (read_directory(p, name) = 0) = (n # 0)
    BY <2>8, <2>11
  <2>17. n # 0 => n \in Directories /\ storage[n].up = p
    BY <2>6, <2>8
  <2>18. search_file(p, name, ext) = 2 => n = 0 /\ read(p, name, ext, 0) = 2
    BY <2>7, <2>12, <2>13
  <2> QED BY <2>14, <2>15, <2>16, <2>17, <2>18 DEF n
<1>4. DriverInv /\ WholeInv => LookupsMatchTree
  BY <1>3 DEF LookupsMatchTree
<1> QED BY <1>1, <1>2, <1>4, DriverInvariance, PTL DEF Spec
=============================================================================
