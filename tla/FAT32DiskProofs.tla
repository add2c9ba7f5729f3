--------------------------- MODULE FAT32DiskProofs ---------------------------
(***************************************************************************)
(* Proofs about the driver on a disk that can lose power, for disks,       *)
(* directories, blocks and files of any size and any number of calls and   *)
(* cuts, as long as requests fit the disk: the writes of a call bring the  *)
(* disk to what the driver believes, deletions cut anywhere leave a disk   *)
(* on which no cluster has two owners, and a call cut anywhere spares the  *)
(* files and folders it is not about.                                      *)
(*                                                                         *)
(* After a cut deletion the disk itself is not sound: clusters are lost    *)
(* and folders zeroed.  The argument is that it keeps a sound file system  *)
(* (Kept, Tidy), the one in which what was lost is free and what was       *)
(* zeroed is an empty folder, that the driver works on that one without    *)
(* knowing, and that the order of the writes of a deletion takes one such  *)
(* disk to the next (DeleteLeft).                                          *)
(***************************************************************************)
EXTENDS FAT32Disk, FAT32Proofs, SequenceTheorems

\* f and r are what fat and st keep after calls that were cut: in f the lost
\* clusters are free, and in r a folder whose table was zeroed, or whose ".."
\* was, is a directory again.  Nothing that was lost is a directory.
Kept(fat, st, f, r) ==
    /\ \A c \in Clusters : f[c] # EMPTY \/ c \notin DataClusters => f[c] = fat[c]
    /\ \A c \in Clusters :
          \/ r[c] = st[c]
          \/ /\ r[c].kind = "dir" /\ r[c].table = Table(st, c)
             /\ st[c].kind \in {"dir", "zeros"}
    /\ \A c \in Clusters : fat[c] # EMPTY /\ f[c] = EMPTY => st[c].kind # "dir"

\* g is a chain of n clusters from c on.
Chain(fat, c, n, g) ==
    /\ n \in 1 .. CLUSTER_MAP_SIZE /\ g \in [0 .. n - 1 -> DataClusters] /\ g[0] = c
    /\ \A k \in 0 .. n - 1 : fat[g[k]] = IF k = n - 1 THEN EOF ELSE g[k + 1]

ChainsEnd(fat) ==
    \A c \in DataClusters : fat[c] # EMPTY => \E n, g : Chain(fat, c, n, g)

\* No entry was written to a full disk.
NoStubs(fat, st) ==
    \A p \in Clusters, s \in Slots :
        Live(fat, st, p, s) =>
            /\ st[p].table[s].cluster \in DataClusters
            /\ ~st[p].table[s].folder => st[p].table[s].size # 0

Tidy(f, r) == Sound(f, r) /\ ChainsEnd(f) /\ NoStubs(f, r)

\* What the disk holds between two calls as long as only deletions were cut.
Good(fat, st) == Types(fat, st) /\ \E f, r : Kept(fat, st, f, r) /\ Tidy(f, r)

-----------------------------------------------------------------------------
(* What is kept is what the driver sees. *)

\* The directories, their tables and their entries.
LEMMA KeptFacts ==
    ASSUME NEW fat, NEW st, NEW f, NEW r, Types(fat, st), Types(f, r), Kept(fat, st, f, r)
    PROVE  /\ \A c \in Clusters : Table(r, c) = Table(st, c) /\ Used(r, c) = Used(st, c)
           /\ \A c \in Clusters : fat[c] = EOF /\ st[c].kind = "dir" => IsDir(f, r, c)
           /\ \A c \in Clusters : IsDir(f, r, c) =>
                 fat[c] = EOF /\ st[c].kind \in {"dir", "zeros"} /\ r[c].table = Table(st, c)
           /\ \A p \in Clusters, s \in Slots :
                 Live(f, r, p, s) <=> IsDir(f, r, p) /\ s \in Used(st, p)
           /\ \A p \in Clusters, s \in Slots :
                 Live(f, r, p, s) => r[p].table[s] = Table(st, p)[s]
<1>0. EOF # EMPTY
  BY ClusterFacts DEF EMPTY
<1>1. ASSUME NEW c \in Clusters
      PROVE  /\ Table(r, c) = Table(st, c) /\ Used(r, c) = Used(st, c)
             /\ fat[c] = EOF /\ st[c].kind = "dir" => IsDir(f, r, c)
             /\ IsDir(f, r, c) =>
                   fat[c] = EOF /\ st[c].kind \in {"dir", "zeros"} /\ r[c].table = Table(st, c)
  <2>1. \/ r[c] = st[c]
        \/ r[c].kind = "dir" /\ r[c].table = Table(st, c) /\ st[c].kind \in {"dir", "zeros"}
    BY DEF Kept
  <2>2. Table(r, c) = Table(st, c)
    BY <2>1 DEF Table
  <2>3. Used(r, c) = Used(st, c)
    BY <2>2 DEF Used
  <2>4. ASSUME fat[c] = EOF, st[c].kind = "dir" PROVE IsDir(f, r, c)
    BY <1>0, <2>1, <2>4 DEF Kept, IsDir, IsParent
  <2>5. ASSUME IsDir(f, r, c)
        PROVE  fat[c] = EOF /\ st[c].kind \in {"dir", "zeros"} /\ r[c].table = Table(st, c)
    <3>1. f[c] = EOF /\ r[c].kind = "dir"
      BY <2>5 DEF IsDir, IsParent
    <3>2. fat[c] = EOF
      BY <1>0, <3>1 DEF Kept
    <3> QED BY <2>1, <3>1, <3>2 DEF Table
  <2> QED BY <2>2, <2>3, <2>4, <2>5
<1>2. ASSUME NEW p \in Clusters, NEW s \in Slots
      PROVE  /\ Live(f, r, p, s) <=> IsDir(f, r, p) /\ s \in Used(st, p)
             /\ Live(f, r, p, s) => r[p].table[s] = Table(st, p)[s]
  BY <1>1 DEF Live, Used
<1> QED BY <1>1, <1>2

\* What is reached from a cluster that is kept.
LEMMA KeptReach ==
    ASSUME NEW fat, NEW st, NEW f, NEW r, Types(fat, st), Sound(f, r), Kept(fat, st, f, r),
           NEW h \in Held(f)
    PROVE  Reach(fat, st, h) = Reach(f, r, h)
<1>0. Types(f, r) /\ Linked(f, r) /\ Reserved(f, r)
  BY DEF Sound, Linked
<1>1. h \in Clusters
  BY ClusterFacts DEF Held, ROOT_CLUSTER_NUMBER
<1>2. ASSUME NEW c \in Held(f)
      PROVE  Successors(fat, st, c) = Successors(f, r, c)
  <2>1. c \in Clusters
    BY ClusterFacts DEF Held, ROOT_CLUSTER_NUMBER
  <2>2. f[c] = fat[c]
    BY <2>1, ClusterFacts DEF Kept, Held, ROOT_CLUSTER_NUMBER
  <2>3. Table(r, c) = Table(st, c) /\ Used(r, c) = Used(st, c)
    BY <1>0, <2>1, KeptFacts
  <2>4. \/ r[c] = st[c]
        \/ r[c].kind = "dir" /\ st[c].kind \in {"dir", "zeros"}
    BY <2>1 DEF Kept
  <2>5. st[c].kind = "zeros" => Used(st, c) = {}
    BY DEF Used, Table
  <2> QED BY <2>2, <2>3, <2>4, <2>5 DEF Successors
<1>3. Reach(f, r, h) \subseteq Held(f)
  BY <1>0, ReachStep
<1>4. /\ Reach(f, r, h) \in SUBSET Clusters /\ h \in Reach(f, r, h)
      /\ Closed(f, r, Reach(f, r, h))
      /\ Reach(fat, st, h) \in SUBSET Clusters /\ h \in Reach(fat, st, h)
      /\ Closed(fat, st, Reach(fat, st, h))
  BY <1>0, <1>1, ReachFacts
<1>5. Closed(fat, st, Reach(f, r, h))
  BY <1>2, <1>3, <1>4 DEF Closed
<1>6. Reach(fat, st, h) \subseteq Reach(f, r, h)
  BY <1>1, <1>4, <1>5, ReachFacts
<1>7. Closed(f, r, Reach(fat, st, h))
  BY <1>2, <1>3, <1>4, <1>6 DEF Closed
<1>8. Reach(f, r, h) \subseteq Reach(fat, st, h)
  BY <1>0, <1>1, <1>4, <1>7, ReachFacts
<1> QED BY <1>6, <1>8

-----------------------------------------------------------------------------
(* Deletions. *)

\* What is below an entry are data clusters in use, and the directory of the entry
\* is not among them.
LEMMA BelowEntry ==
    ASSUME NEW f, NEW r, Tidy(f, r), NEW p \in Clusters, NEW s \in Slots, Live(f, r, p, s),
           NEW C, C = Reach(f, r, r[p].table[s].cluster)
    PROVE  /\ \A c \in C : c \in DataClusters /\ f[c] # EMPTY
           /\ r[p].table[s].cluster \in C /\ p \notin C /\ C \in SUBSET Clusters
<1> DEFINE h == r[p].table[s].cluster
           D == Held(f) \ {0}
<1>0. Sound(f, r) /\ NoStubs(f, r) /\ Types(f, r) /\ Linked(f, r)
  BY DEF Tidy, Sound, Linked
<1>1. h \in Held(f) \cap C /\ C \subseteq Held(f) /\ ROOT_CLUSTER_NUMBER \notin C /\ p \notin C
  BY <1>0, FreedIsApart
<1>2. h \in DataClusters /\ h # 0 /\ h \in Clusters
  BY <1>0, ClusterFacts DEF NoStubs
<1>3. D \in SUBSET Clusters /\ h \in D
  BY <1>1, <1>2, ClusterFacts DEF Held, ROOT_CLUSTER_NUMBER
<1>4. Closed(f, r, D)
  <2> SUFFICES ASSUME NEW d \in D, NEW x \in Successors(f, r, d) PROVE x \in D
    BY DEF Closed
  <2>0. d \in Held(f) /\ d # 0 /\ d \in Clusters
    BY <1>3
  <2>1. x = 0 \/ (x \in DataClusters /\ \E i \in Indices : Ref(f, r, d, i) = x)
    BY <1>0, <2>0, SuccessorsAreRefs DEF Linked
  <2>2. CASE x \in DataClusters /\ \E i \in Indices : Ref(f, r, d, i) = x
    BY <1>0, <2>0, <2>2, ClusterFacts DEF Sound, RefsInside, Held
  <2>3. ASSUME x = 0 PROVE FALSE
    <3>1. PICK t \in Used(r, d) : r[d].kind = "dir" /\ x = Table(r, d)[t].cluster
      BY <2>3 DEF Successors, EMPTY
    <3>2. f[d] = EOF
      <4>1. CASE d \in DataClusters
        BY <1>0, <2>0, <3>1, <4>1, ClusterFacts DEF Sound, KindsAgree, Held, ROOT_CLUSTER_NUMBER
      <4>2. CASE d = ROOT_CLUSTER_NUMBER
        BY <1>0, <4>2 DEF Sound, Reserved, IsDir, IsParent
      <4> QED BY <2>0, <4>1, <4>2 DEF Held
    <3>3. t \in Slots /\ Live(f, r, d, t) /\ x = r[d].table[t].cluster
      BY <3>1, <3>2 DEF Used, Table, Live, IsDir, IsParent
    <3> QED BY <1>0, <2>0, <2>3, <3>3, ClusterFacts DEF NoStubs
  <2> QED BY <2>1, <2>2, <2>3
<1> HIDE DEF D
<1>5. C \subseteq D
  BY <1>0, <1>2, <1>3, <1>4, ReachFacts
<1>6. \A c \in C : c \in DataClusters /\ f[c] # EMPTY
  BY <1>1, <1>5 DEF D, Held
<1> QED BY <1>1, <1>3, <1>5, <1>6

\* A chain that begins outside of what is below an entry stays outside.
LEMMA ChainApart ==
    ASSUME NEW f, NEW r, Sound(f, r), NEW p \in Clusters, NEW s \in Slots, Live(f, r, p, s),
           NEW C, C = Reach(f, r, r[p].table[s].cluster),
           NEW c, NEW n, NEW g, Chain(f, c, n, g), c \notin C
    PROVE  \A k \in 0 .. n - 1 : g[k] \notin C
<1> DEFINE Bad == {k \in 0 .. n - 1 : g[k] \in C}
<1> SUFFICES ASSUME Bad # {} PROVE FALSE
  OBVIOUS
<1>0. n \in Nat
  BY FAT32Assumption DEF Chain
<1>1. PICK k \in Bad : IsFirst(Bad, k)
  <2>1. Bad \in SUBSET Nat
    BY <1>0
  <2> HIDE DEF Bad
  <2> QED BY <2>1, LeastMember
<1>2. k \in 0 .. n - 1 /\ g[k] \in C /\ k # 0
  BY DEF Chain
<1>3. k - 1 \in 0 .. n - 1 /\ k - 1 # n - 1 /\ (k - 1) + 1 = k /\ ~(k <= k - 1)
  BY <1>0, <1>2
<1>4. g[k - 1] \notin C
  BY <1>1, <1>3 DEF IsFirst
<1>5. f[g[k - 1]] = g[k] /\ g[k] \in DataClusters /\ g[k - 1] \in Clusters
  BY <1>2, <1>3, ClusterFacts DEF Chain
<1>6. Ref(f, r, g[k - 1], 0) = g[k] /\ 0 \in Indices /\ s # 0
  BY <1>5, ClusterFacts DEF Ref, Indices
<1>7. \A d \in Clusters, i \in Indices :
         Ref(f, r, d, i) \in C \cap DataClusters => d \in C \/ (d = p /\ i = s)
  BY FreedIsApart
<1> QED BY <1>2, <1>4, <1>5, <1>6, <1>7

\* What Erased does to each cluster.
LEMMA ErasedBlocks ==
    ASSUME NEW st \in [Clusters -> Blocks], NEW p \in Clusters, st[p].kind = "dir",
           NEW s \in Slots, NEW C \in SUBSET Clusters, p \notin C
    PROVE  LET st2 == Erased(st, C, p, s)
           IN  /\ st2 \in [Clusters -> Blocks]
               /\ \A c \in C : st2[c] = Zeros
               /\ \A c \in Clusters \ C : c # p => st2[c] = st[c]
               /\ st2[p].kind = "dir" /\ st2[p].up = st[p].up
               /\ st2[p].table = [t \in Slots |-> IF t = s THEN NoEntry ELSE st[p].table[t]]
<1> DEFINE st1 == [c \in Clusters |-> IF c \in C THEN Zeros ELSE st[c]]
           st2 == Erased(st, C, p, s)
           tab == [t \in Slots |-> IF t = s THEN NoEntry ELSE st[p].table[t]]
           new == [kind |-> "dir", up |-> st[p].up, table |-> tab]
<1>1. st1[p] = st[p] /\ Table(st1, p) = st[p].table
  BY DEF Table
<1>2. st2 = [c \in Clusters |-> IF c # p THEN st1[c] ELSE new]
  BY <1>1 DEF Erased, SetSlot
<1>3. tab \in [Slots -> Entries \cup {NoEntry}] /\ st[p].up \in Clusters
  <2>1. st[p].up \in Clusters /\ st[p].table \in [Slots -> Entries \cup {NoEntry}]
    BY BlockFacts
  <2> QED BY <2>1
<1> HIDE DEF tab, st2
<1>4. new \in Blocks /\ new.kind = "dir" /\ new.up = st[p].up /\ new.table = tab
  BY <1>3, BlockFacts
<1> HIDE DEF new
<1>5. \A c \in Clusters : st1[c] \in Blocks
  BY BlockFacts
<1>6. st2 \in [Clusters -> Blocks] /\ st2[p] = new
  <2> HIDE DEF st1
  <2> QED BY <1>2, <1>4, <1>5
<1>7. \A c \in Clusters : c # p => st2[c] = IF c \in C THEN Zeros ELSE st[c]
  BY <1>2
<1> QED BY <1>4, <1>6, <1>7 DEF st2, tab

\* A deletion keeps what it is not about, also when the table is only partly
\* written: what it did not free is lost.
LEMMA EraseKept ==
    ASSUME NEW fat, NEW st, NEW f, NEW r, Types(fat, st), Kept(fat, st, f, r), Tidy(f, r),
           NEW p \in Clusters, NEW s \in Slots, Live(f, r, p, s),
           NEW C, C = Reach(f, r, r[p].table[s].cluster),
           NEW fat2 \in [Clusters -> FatValues], \A c \in Clusters \ C : fat2[c] = fat[c]
    PROVE  /\ Kept(fat2, Erased(st, C, p, s), FreedTable(f, C), Erased(r, C, p, s))
           /\ Types(fat2, Erased(st, C, p, s))
<1> DEFINE st2 == Erased(st, C, p, s)
           r2  == Erased(r, C, p, s)
           f2  == FreedTable(f, C)
<1>0. Types(f, r) /\ EOF # EMPTY
  BY ClusterFacts DEF Tidy, Sound, EMPTY
<1>1. p \notin C /\ C \in SUBSET Clusters /\ C \subseteq DataClusters
  BY BelowEntry
<1>2. IsDir(f, r, p) /\ s \in Used(st, p) /\ r[p].table = Table(st, p) /\ fat[p] = EOF
  BY <1>0, KeptFacts
<1>3. st[p].kind = "dir" /\ r[p].kind = "dir" /\ r[p].table = st[p].table
  BY <1>2 DEF Used, Table, IsDir
<1>4. /\ st2 \in [Clusters -> Blocks]
      /\ \A c \in C : st2[c] = Zeros
      /\ \A c \in Clusters \ C : c # p => st2[c] = st[c]
      /\ st2[p].kind = "dir"
      /\ st2[p].table = [t \in Slots |-> IF t = s THEN NoEntry ELSE st[p].table[t]]
  BY <1>1, <1>3, ErasedBlocks DEF Types
<1>5. /\ \A c \in C : r2[c] = Zeros
      /\ \A c \in Clusters \ C : c # p => r2[c] = r[c]
      /\ r2[p].kind = "dir"
      /\ r2[p].table = [t \in Slots |-> IF t = s THEN NoEntry ELSE r[p].table[t]]
  BY <1>0, <1>1, <1>3, ErasedBlocks DEF Types
<1>6. \A c \in Clusters : f2[c] = IF c \in C THEN EMPTY ELSE f[c]
  BY DEF FreedTable
<1> HIDE DEF st2, r2, f2
<1>7. Zeros.kind = "zeros"
  BY BlockFacts
<1>8. \A c \in Clusters : f2[c] # EMPTY \/ c \notin DataClusters => f2[c] = fat2[c]
  BY <1>1, <1>6 DEF Kept
<1>9. ASSUME NEW c \in Clusters
      PROVE  \/ r2[c] = st2[c]
             \/ /\ r2[c].kind = "dir" /\ r2[c].table = Table(st2, c)
                /\ st2[c].kind \in {"dir", "zeros"}
  <2>1. CASE c \in C
    BY <1>4, <1>5, <2>1
  <2>2. CASE c = p
    BY <1>3, <1>4, <1>5, <2>2 DEF Table
  <2>3. CASE c \notin C /\ c # p
    <3>1. r2[c] = r[c] /\ st2[c] = st[c]
      BY <1>4, <1>5, <2>3
    <3>2. Table(st2, c) = Table(st, c)
      BY <3>1 DEF Table
    <3> QED BY <3>1, <3>2 DEF Kept
  <2> QED BY <2>1, <2>2, <2>3
<1>10. ASSUME NEW c \in Clusters, fat2[c] # EMPTY, f2[c] = EMPTY
       PROVE  st2[c].kind # "dir"
  <2>1. CASE c \in C
    BY <1>4, <1>7, <2>1
  <2>2. CASE c \notin C
    <3>1. f[c] = EMPTY /\ fat[c] # EMPTY
      BY <1>6, <1>10, <2>2
    <3>2. c # p
      BY <1>0, <1>2, <3>1 DEF IsDir, IsParent
    <3> QED BY <1>4, <2>2, <3>1, <3>2 DEF Kept
  <2> QED BY <2>1, <2>2
<1>11. Kept(fat2, st2, f2, r2)
  BY <1>8, <1>9, <1>10 DEF Kept
<1>12. Types(fat2, st2)
  BY <1>4 DEF Types
<1> QED BY <1>11, <1>12 DEF st2, r2, f2

\* What it leaves is tidy.
LEMMA EraseTidy ==
    ASSUME NEW f, NEW r, Tidy(f, r), NEW p \in Clusters, NEW s \in Slots, Live(f, r, p, s),
           NEW C, C = Reach(f, r, r[p].table[s].cluster)
    PROVE  Tidy(FreedTable(f, C), Erased(r, C, p, s))
<1> DEFINE r2  == Erased(r, C, p, s)
           f2  == FreedTable(f, C)
<1>0. Sound(f, r) /\ Types(f, r) /\ ChainsEnd(f) /\ NoStubs(f, r)
  BY DEF Tidy, Sound
<1>1. p \notin C /\ C \in SUBSET Clusters
  BY BelowEntry
<1>2. Sound(f2, r2)
  BY <1>0, EraseSound
<1>3. IsErased(f, r, p, s, C, f2, r2)
  BY <1>0, <1>1, AfterErase
<1> HIDE DEF f2, r2
<1>4. ASSUME NEW c \in DataClusters, f2[c] # EMPTY PROVE \E n, g : Chain(f2, c, n, g)
  <2>1. c \notin C /\ f[c] # EMPTY
    BY <1>3, <1>4, ClusterFacts DEF IsErased
  <2>2. PICK n, g : Chain(f, c, n, g)
    BY <1>0, <2>1 DEF ChainsEnd
  <2>3. \A k \in 0 .. n - 1 : g[k] \notin C
    BY <1>0, <2>1, <2>2, ChainApart
  <2>4. \A k \in 0 .. n - 1 : g[k] \in Clusters
    BY <2>2, ClusterFacts DEF Chain
  <2>5. \A k \in 0 .. n - 1 : f2[g[k]] = f[g[k]]
    BY <1>3, <2>3, <2>4 DEF IsErased
  <2>6. Chain(f2, c, n, g)
    BY <2>2, <2>5 DEF Chain
  <2> QED BY <2>6
<1>5. NoStubs(f2, r2)
  <2> SUFFICES ASSUME NEW d \in Clusters, NEW t \in Slots, Live(f2, r2, d, t)
               PROVE  /\ r2[d].table[t].cluster \in DataClusters
                      /\ ~r2[d].table[t].folder => r2[d].table[t].size # 0
    BY DEF NoStubs
  <2>1. Live(f, r, d, t) /\ r2[d].table[t] = r[d].table[t]
    BY <1>3 DEF IsErased
  <2> QED BY <1>0, <2>1 DEF NoStubs
<1> QED BY <1>2, <1>4, <1>5 DEF Tidy, ChainsEnd, f2, r2

-----------------------------------------------------------------------------
(* Deletions that are cut while they zero clusters. *)

\* r has the directories of r0, some entries of them gone.
Thinned(r0, r) ==
    /\ r \in [Clusters -> Blocks]
    /\ \A c \in Clusters : (r[c].kind = "dir") = (r0[c].kind = "dir")
    /\ \A c \in Clusters : r0[c].kind = "dir" =>
          /\ r[c].up = r0[c].up
          /\ \A s \in Slots : r[c].table[s] \in {r0[c].table[s], NoEntry}

\* The table f without what is no longer reached.
Pruned(f, r) ==
    [c \in Clusters |-> IF c \in DataClusters \ Reach(f, r, ROOT_CLUSTER_NUMBER)
                        THEN EMPTY ELSE f[c]]

\* The references that are left are old ones.
LEMMA ThinnedRefs ==
    ASSUME NEW f, NEW r0, NEW r, Sound(f, r0), Thinned(r0, r)
    PROVE  /\ \A c \in Clusters : IsDir(f, r, c) <=> IsDir(f, r0, c)
           /\ \A c \in Clusters, s \in Slots :
                 Live(f, r, c, s) => Live(f, r0, c, s) /\ r[c].table[s] = r0[c].table[s]
           /\ \A c \in Clusters, i \in Indices :
                 Ref(f, r, c, i) \in {Ref(f, r0, c, i), EMPTY}
           /\ Linked(f, r) /\ OneOwner(f, r) /\ UniqueKeys(f, r)
<1>0. Types(f, r0) /\ Reserved(f, r0) /\ RefsInside(f, r0) /\ KindsAgree(f, r0)
      /\ OneOwner(f, r0) /\ UniqueKeys(f, r0)
  BY DEF Sound
<1>1. \A c \in Clusters : IsDir(f, r, c) <=> IsDir(f, r0, c)
  BY DEF Thinned, IsDir
<1>2. \A c \in Clusters, s \in Slots :
         Live(f, r, c, s) => Live(f, r0, c, s) /\ r[c].table[s] = r0[c].table[s]
  BY <1>1 DEF Thinned, IsDir, Live
<1>3. \A c \in Clusters, i \in Indices : Ref(f, r, c, i) \in {Ref(f, r0, c, i), EMPTY}
  BY <1>2 DEF Ref, Indices
<1>4. EMPTY \notin DataClusters /\ EMPTY \notin {1, ROOT_CLUSTER_NUMBER}
  BY ClusterFacts DEF EMPTY, ROOT_CLUSTER_NUMBER
<1>5. Types(f, r)
  BY <1>0 DEF Types, Thinned
<1>6. Reserved(f, r)
  BY <1>0, <1>1, ClusterFacts DEF Reserved, Thinned, ROOT_CLUSTER_NUMBER
<1>7. RefsInside(f, r)
  BY <1>0, <1>3, <1>4 DEF RefsInside
<1>8. OneOwner(f, r)
  BY <1>0, <1>3, <1>4 DEF OneOwner
<1>9. UniqueKeys(f, r)
  BY <1>0, <1>2 DEF UniqueKeys
<1>10. KindsAgree(f, r)
  <2>1. \A c \in DataClusters : f[c] # EMPTY /\ r[c].kind = "dir" => f[c] = EOF
    BY <1>0, ClusterFacts DEF KindsAgree, Thinned
  <2>2. \A d \in Clusters : f[d] \in DataClusters => r[f[d]].kind # "dir"
    BY <1>0, ClusterFacts DEF KindsAgree, Thinned
  <2>3. ASSUME NEW p \in Clusters, NEW s \in Slots, Live(f, r, p, s),
               NEW e, e = r[p].table[s]
        PROVE  IF e.folder
               THEN e.cluster \in DataClusters /\ r[e.cluster].kind = "dir" /\ r[e.cluster].up = p
               ELSE r[e.cluster].kind # "dir"
    <3>1. Live(f, r0, p, s) /\ e = r0[p].table[s]
      BY <1>2, <2>3
    <3>2. e.cluster \in Clusters
      BY <1>0, <3>1, LiveEntry
    <3>3. IF e.folder
          THEN e.cluster \in DataClusters /\ r0[e.cluster].kind = "dir" /\ r0[e.cluster].up = p
          ELSE r0[e.cluster].kind # "dir"
      BY <1>0, <3>1 DEF KindsAgree
    <3> QED BY <3>2, <3>3 DEF Thinned
  <2> QED BY <2>1, <2>2, <2>3 DEF KindsAgree
<1> QED BY <1>1, <1>2, <1>3, <1>5, <1>6, <1>7, <1>8, <1>9, <1>10 DEF Linked

\* What is still reached is a tidy file system.
LEMMA PruneTidy ==
    ASSUME NEW f, NEW r0, NEW r, Tidy(f, r0), Thinned(r0, r)
    PROVE  Tidy(Pruned(f, r), r)
<1> DEFINE R  == Reach(f, r, ROOT_CLUSTER_NUMBER)
           f1 == Pruned(f, r)
<1>0. Sound(f, r0) /\ ChainsEnd(f) /\ NoStubs(f, r0)
  BY DEF Tidy
<1>1. /\ \A c \in Clusters, s \in Slots :
            Live(f, r, c, s) => Live(f, r0, c, s) /\ r[c].table[s] = r0[c].table[s]
      /\ Linked(f, r) /\ OneOwner(f, r) /\ UniqueKeys(f, r)
  BY <1>0, ThinnedRefs
<1>2. Types(f, r) /\ Reserved(f, r) /\ RefsInside(f, r) /\ KindsAgree(f, r)
  BY <1>1 DEF Linked
<1>3. ROOT_CLUSTER_NUMBER \in Held(f) /\ ROOT_CLUSTER_NUMBER \in Clusters
      /\ ROOT_CLUSTER_NUMBER \notin DataClusters /\ ROOT_CLUSTER_NUMBER = 2
  BY ClusterFacts DEF Held, ROOT_CLUSTER_NUMBER
<1>4. /\ R \subseteq Held(f) /\ ROOT_CLUSTER_NUMBER \in R
      /\ \A d \in R, i \in Indices : Ref(f, r, d, i) \in DataClusters => Ref(f, r, d, i) \in R
  BY <1>1, <1>3, ReachStep
<1>5. \A c \in Clusters : f1[c] = IF c \in DataClusters \ R THEN EMPTY ELSE f[c]
  BY DEF Pruned
<1>6. f1 \in [Clusters -> FatValues]
  BY <1>2, ClusterFacts DEF Pruned, Types, FatValues, EMPTY
<1> HIDE DEF R, f1
<1>7. EMPTY # EOF /\ EMPTY \notin DataClusters /\ EMPTY \notin {1, ROOT_CLUSTER_NUMBER}
  BY ClusterFacts DEF EMPTY, ROOT_CLUSTER_NUMBER
<1>8. \A c \in Clusters, s \in Slots : Live(f1, r, c, s) <=> c \notin DataClusters \ R /\ Live(f, r, c, s)
  BY <1>5, <1>7 DEF Live, IsDir, IsParent
<1>9. \A c \in Clusters, i \in Indices :
         Ref(f1, r, c, i) = IF c \in DataClusters \ R THEN EMPTY ELSE Ref(f, r, c, i)
  BY <1>5, <1>8 DEF Ref, Indices
<1>10. \A c \in Clusters, i \in Indices :
          Ref(f1, r, c, i) \in DataClusters => c \in R /\ Ref(f1, r, c, i) \in R
                                               /\ Ref(f1, r, c, i) = Ref(f, r, c, i)
  <2> SUFFICES ASSUME NEW c \in Clusters, NEW i \in Indices, Ref(f1, r, c, i) \in DataClusters
               PROVE  c \in R /\ Ref(f1, r, c, i) \in R /\ Ref(f1, r, c, i) = Ref(f, r, c, i)
    OBVIOUS
  <2>1. c \notin DataClusters \ R /\ Ref(f1, r, c, i) = Ref(f, r, c, i)
    BY <1>7, <1>9
  <2>2. c # 0 /\ c # 1
    BY <1>2, <2>1, ClusterFacts DEF Reserved, Ref, Live, IsDir, EMPTY
  <2>3. c \in R
    BY <1>3, <1>4, <2>1, <2>2, ClusterFacts
  <2> QED BY <1>4, <2>1, <2>3
<1>11. Reserved(f1, r)
  BY <1>2, <1>3, <1>5, ClusterFacts DEF Reserved, IsDir, IsParent
<1>12. RefsInside(f1, r)
  <2> SUFFICES ASSUME NEW d \in Clusters, NEW i \in Indices
               PROVE  /\ Ref(f1, r, d, i) \notin {1, ROOT_CLUSTER_NUMBER}
                      /\ Ref(f1, r, d, i) \in DataClusters => f1[Ref(f1, r, d, i)] # EMPTY
    BY DEF RefsInside
  <2>1. Ref(f1, r, d, i) \notin {1, ROOT_CLUSTER_NUMBER}
    BY <1>2, <1>7, <1>9 DEF RefsInside
  <2>2. ASSUME Ref(f1, r, d, i) \in DataClusters PROVE f1[Ref(f1, r, d, i)] # EMPTY
    <3>1. Ref(f1, r, d, i) \in R /\ Ref(f1, r, d, i) = Ref(f, r, d, i)
      BY <1>10, <2>2
    <3>2. f[Ref(f, r, d, i)] # EMPTY
      BY <1>2, <2>2, <3>1 DEF RefsInside
    <3> QED BY <1>5, <2>2, <3>1, <3>2, ClusterFacts
  <2> QED BY <2>1, <2>2
<1>13. OneOwner(f1, r)
  BY <1>1, <1>10 DEF OneOwner
<1>14. KindsAgree(f1, r)
  <2>1. \A c \in DataClusters : f1[c] # EMPTY /\ r[c].kind = "dir" => f1[c] = EOF
    BY <1>2, <1>5, ClusterFacts DEF KindsAgree
  <2>2. \A d \in Clusters : f1[d] \in DataClusters => r[f1[d]].kind # "dir"
    BY <1>2, <1>5, <1>7 DEF KindsAgree
  <2>3. \A p \in Clusters, s \in Slots : Live(f1, r, p, s) => Live(f, r, p, s)
    BY <1>8
  <2> QED BY <1>2, <2>1, <2>2, <2>3 DEF KindsAgree
<1>15. UniqueKeys(f1, r)
  BY <1>1, <1>8 DEF UniqueKeys
<1>16. Linked(f1, r) /\ Types(f1, r)
  BY <1>2, <1>6, <1>11, <1>12, <1>14 DEF Linked, Types
<1>17. NoneLost(f1, r)
  <2> DEFINE D == Reach(f1, r, ROOT_CLUSTER_NUMBER) \cup {0}
  <2>1. ROOT_CLUSTER_NUMBER \in Held(f1)
    BY DEF Held
  <2>2. /\ Reach(f1, r, ROOT_CLUSTER_NUMBER) \subseteq Held(f1)
        /\ ROOT_CLUSTER_NUMBER \in Reach(f1, r, ROOT_CLUSTER_NUMBER)
        /\ \A d \in Reach(f1, r, ROOT_CLUSTER_NUMBER), i \in Indices :
              Ref(f1, r, d, i) \in DataClusters =>
                  Ref(f1, r, d, i) \in Reach(f1, r, ROOT_CLUSTER_NUMBER)
    BY <1>16, <2>1, ReachStep
  <2>3. D \in SUBSET Clusters /\ ROOT_CLUSTER_NUMBER \in D /\ 0 \in D
    BY <1>3, <2>2, ClusterFacts DEF Held
  <2>4. \A d \in D \cap Held(f), i \in Indices :
           Ref(f, r, d, i) \in DataClusters => Ref(f, r, d, i) \in D
    <3> SUFFICES ASSUME NEW d \in D, NEW i \in Indices, Ref(f, r, d, i) \in DataClusters
                 PROVE  Ref(f, r, d, i) \in D
      OBVIOUS
    <3>1. d # 0
      BY <1>2, ClusterFacts DEF Reserved, Ref, Live, IsDir, EMPTY
    <3>2. d \in Reach(f1, r, ROOT_CLUSTER_NUMBER) /\ d \in Held(f1) /\ d \in Clusters
      BY <2>2, <2>3, <3>1
    <3>3. d \notin DataClusters \ R
      BY <1>5, <3>2, <1>3, <3>1 DEF Held
    <3>4. Ref(f1, r, d, i) = Ref(f, r, d, i)
      BY <1>9, <3>2, <3>3
    <3> QED BY <2>2, <3>2, <3>4
  <2> HIDE DEF D
  <2>5. R \subseteq D \cap Held(f)
    BY <1>1, <1>3, <2>3, <2>4, ReachMin DEF R
  <2> SUFFICES ASSUME NEW c \in DataClusters, f1[c] # EMPTY
               PROVE  c \in Reach(f1, r, ROOT_CLUSTER_NUMBER)
    BY DEF NoneLost
  <2>6. c \in R /\ c # 0
    BY <1>5, ClusterFacts
  <2> QED BY <2>5, <2>6 DEF D
<1>18. Sound(f1, r)
  BY <1>11, <1>12, <1>13, <1>14, <1>15, <1>16, <1>17 DEF Sound
<1>19. NoStubs(f1, r)
  BY <1>0, <1>1, <1>8 DEF NoStubs
<1>20. ASSUME NEW c \in DataClusters, f1[c] # EMPTY PROVE \E n, g : Chain(f1, c, n, g)
  <2>1. c \in R /\ f[c] # EMPTY
    BY <1>5, <1>20, ClusterFacts
  <2>2. PICK n, g : Chain(f, c, n, g)
    BY <1>0, <2>1 DEF ChainsEnd
  <2>3. n \in Nat /\ \A k \in 0 .. n - 1 : g[k] \in DataClusters /\ g[k] \in Clusters
    <3>1. n \in 1 .. CLUSTER_MAP_SIZE /\ g \in [0 .. n - 1 -> DataClusters]
      BY <2>2 DEF Chain
    <3>2. n \in Nat
      BY <3>1, FAT32Assumption
    <3> QED BY <3>1, <3>2, ClusterFacts
  <2>4. \A k \in 0 .. n - 1 : g[k] \in R
    <3> DEFINE Bad == {k \in 0 .. n - 1 : g[k] \notin R}
    <3> SUFFICES ASSUME Bad # {} PROVE FALSE
      OBVIOUS
    <3>1. PICK k \in Bad : IsFirst(Bad, k)
      <4>1. Bad \in SUBSET Nat
        BY <2>3
      <4> HIDE DEF Bad
      <4> QED BY <4>1, LeastMember
    <3>2. k \in 0 .. n - 1 /\ g[k] \notin R /\ k # 0
      BY <2>1, <2>2 DEF Chain
    <3>3. k - 1 \in 0 .. n - 1 /\ k - 1 # n - 1 /\ (k - 1) + 1 = k /\ ~(k <= k - 1)
      BY <2>3, <3>2
    <3>4. g[k - 1] \in R
      BY <3>1, <3>3 DEF IsFirst
    <3>5. f[g[k - 1]] = g[k] /\ g[k] \in DataClusters
      BY <2>2, <2>3, <3>2, <3>3 DEF Chain
    <3>6. Ref(f, r, g[k - 1], 0) = g[k] /\ 0 \in Indices
      BY <3>5 DEF Ref, Indices
    <3> QED BY <1>4, <3>2, <3>4, <3>5, <3>6
  <2>5. \A k \in 0 .. n - 1 : f1[g[k]] = f[g[k]]
    BY <1>5, <2>3, <2>4
  <2>6. Chain(f1, c, n, g)
    BY <2>2, <2>5 DEF Chain
  <2> QED BY <2>6
<1> QED BY <1>18, <1>19, <1>20 DEF Tidy, ChainsEnd, f1

\* new is old with some of its bytes zeroed.
PartlyZeroed(old, new) ==
    /\ old.kind \in {"dir", "zeros"} => new.kind \in {"dir", "zeros"}
    /\ new.kind = "dir" =>
          old.kind = "dir" /\ \A s \in Slots : new.table[s] \in {old.table[s], NoEntry}

\* In st2 the clusters of Z were zeroed and those of T partly; what is in one of
\* these folders is in Z.
ZeroedIn(f, r, st, st2, Z, T) ==
    /\ Z \in SUBSET DataClusters /\ T \in SUBSET DataClusters
    /\ st2 \in [Clusters -> Blocks]
    /\ \A c \in Clusters : PartlyZeroed(st[c], st2[c])
    /\ \A c \in Clusters \ (Z \cup T) : st2[c] = st[c]
    /\ \A c \in Z : st2[c].kind # "dir"
    /\ \A d \in Z \cup T, t \in Slots : Live(f, r, d, t) => r[d].table[t].cluster \in Z

\* Such a disk keeps a file system: no folder is lost.
LEMMA ZeroKept ==
    ASSUME NEW fat, NEW st, NEW f, NEW r, Types(fat, st), Kept(fat, st, f, r), Tidy(f, r),
           NEW Z, NEW T, NEW st2, ZeroedIn(f, r, st, st2, Z, T)
    PROVE  Good(fat, st2)
<1> SUFFICES ASSUME Z \in SUBSET DataClusters, T \in SUBSET DataClusters,
                    st2 \in [Clusters -> Blocks],
                    \A c \in Clusters : PartlyZeroed(st[c], st2[c]),
                    \A c \in Clusters \ (Z \cup T) : st2[c] = st[c],
                    \A c \in Z : st2[c].kind # "dir",
                    \A d \in Z \cup T, t \in Slots :
                       Live(f, r, d, t) => r[d].table[t].cluster \in Z
             PROVE  Good(fat, st2)
  BY DEF ZeroedIn
<1> DEFINE r1 == [c \in Clusters |-> IF r[c].kind = "dir"
                     THEN [kind |-> "dir", up |-> r[c].up, table |-> Table(st2, c)]
                     ELSE st2[c]]
           f1 == Pruned(f, r1)
           R  == Reach(f, r1, ROOT_CLUSTER_NUMBER)
<1>0. Sound(f, r) /\ Types(f, r) /\ Linked(f, r) /\ KindsAgree(f, r) /\ Reserved(f, r)
  BY DEF Tidy, Sound, Linked
<1>1. ASSUME NEW c \in Clusters
      PROVE  /\ r[c].kind = "dir" => /\ r[c].table = Table(st, c) /\ r[c].up \in Clusters
                                     /\ st[c].kind \in {"dir", "zeros"}
             /\ r[c].kind # "dir" => st[c].kind # "dir"
             /\ Table(st2, c) \in [Slots -> Entries \cup {NoEntry}]
             /\ \A s \in Slots : Table(st2, c)[s] \in {Table(st, c)[s], NoEntry}
  <2>1. \/ r[c] = st[c]
        \/ r[c].kind = "dir" /\ r[c].table = Table(st, c) /\ st[c].kind \in {"dir", "zeros"}
    BY DEF Kept
  <2>2. r[c].kind = "dir" => r[c].up \in Clusters
    BY <1>0, BlockFacts DEF Types
  <2>3. r[c].kind = "dir" => r[c].table = Table(st, c) /\ st[c].kind \in {"dir", "zeros"}
    BY <2>1 DEF Table
  <2>4. Table(st2, c) \in [Slots -> Entries \cup {NoEntry}]
    BY BlockFacts DEF Table
  <2>5. PartlyZeroed(st[c], st2[c])
    OBVIOUS
  <2>6. ASSUME NEW s \in Slots PROVE Table(st2, c)[s] \in {Table(st, c)[s], NoEntry}
    <3>1. CASE st2[c].kind = "dir"
      BY <2>5, <3>1 DEF Table, PartlyZeroed
    <3>2. CASE st2[c].kind # "dir"
      BY <3>2 DEF Table
    <3> QED BY <3>1, <3>2
  <2> QED BY <2>1, <2>2, <2>3, <2>4, <2>6
<1>2. ASSUME NEW c \in Clusters
      PROVE  /\ r1[c] \in Blocks /\ (r1[c].kind = "dir") = (r[c].kind = "dir")
             /\ r[c].kind = "dir" => r1[c].up = r[c].up /\ r1[c].table = Table(st2, c)
             /\ r[c].kind # "dir" => r1[c] = st2[c]
  <2>1. CASE r[c].kind = "dir"
    <3>1. r1[c] = [kind |-> "dir", up |-> r[c].up, table |-> Table(st2, c)]
      BY <2>1
    <3>2. r[c].up \in Clusters /\ Table(st2, c) \in [Slots -> Entries \cup {NoEntry}]
      BY <1>1, <2>1
    <3>3. r1[c] \in Blocks
      BY <3>1, <3>2, BlockFacts
    <3> QED BY <2>1, <3>1, <3>3
  <2>2. CASE r[c].kind # "dir"
    <3>1. r1[c] = st2[c] /\ st[c].kind # "dir" /\ PartlyZeroed(st[c], st2[c])
      BY <1>1, <2>2
    <3> QED BY <2>2, <3>1 DEF PartlyZeroed
  <2> QED BY <2>1, <2>2
<1>3. r1 \in [Clusters -> Blocks]
  <2>1. r1 = [c \in Clusters |-> r1[c]]
    OBVIOUS
  <2> HIDE DEF r1
  <2> QED BY <1>2, <2>1
<1> HIDE DEF r1
<1>4. Thinned(r, r1)
  BY <1>1, <1>2, <1>3 DEF Thinned
<1>5. Tidy(f1, r1)
  BY <1>4, PruneTidy
<1>6. \A c \in Clusters : f1[c] = IF c \in DataClusters \ R THEN EMPTY ELSE f[c]
  BY DEF Pruned
<1>7. Linked(f, r1) /\ ROOT_CLUSTER_NUMBER \in Held(f)
      /\ \A c \in Clusters : IsDir(f, r1, c) <=> IsDir(f, r, c)
  BY <1>0, <1>4, ThinnedRefs DEF Held
<1>8. /\ R \subseteq Held(f) /\ ROOT_CLUSTER_NUMBER \in R
      /\ \A d \in R, i \in Indices : Ref(f, r1, d, i) \in DataClusters => Ref(f, r1, d, i) \in R
  BY <1>7, ReachStep
<1> HIDE DEF f1, R
<1>9. ASSUME NEW c \in DataClusters, f[c] # EMPTY, r[c].kind = "dir", c \notin Z
      PROVE  c \in R
  <2> DEFINE Y == R \cup Z \cup {d \in Clusters : r[d].kind # "dir"}
  <2>1. Y \in SUBSET Clusters /\ 0 \in Y /\ ROOT_CLUSTER_NUMBER \in Y
    BY <1>0, <1>8, ClusterFacts DEF Held, Reserved, ROOT_CLUSTER_NUMBER
  <2>2. ASSUME NEW d \in Y, d \in Held(f), NEW i \in Indices, Ref(f, r, d, i) \in DataClusters
        PROVE  Ref(f, r, d, i) \in Y
    <3>0. d \in Clusters
      BY <2>1
    <3>1. CASE r[d].kind # "dir"
      <4>1. i = 0
        BY <2>2, <3>1, ClusterFacts DEF Ref, Live, IsDir, EMPTY
      <4>2. f[d] \in DataClusters /\ Ref(f, r, d, i) = f[d]
        BY <2>2, <4>1 DEF Ref
      <4>3. r[f[d]].kind # "dir"
        BY <1>0, <3>0, <4>2 DEF KindsAgree
      <4> QED BY <4>2, <4>3, ClusterFacts
    <3>2. CASE r[d].kind = "dir"
      <4>1. f[d] = EOF
        <5>1. CASE d \in DataClusters
          BY <1>0, <2>2, <3>2, <5>1, ClusterFacts DEF KindsAgree, Held, ROOT_CLUSTER_NUMBER
        <5>2. CASE d = 0 \/ d = ROOT_CLUSTER_NUMBER
          BY <1>0, <3>2, <5>2 DEF Reserved, IsDir, IsParent
        <5> QED BY <2>2, <5>1, <5>2 DEF Held
      <4>2. i \in Slots /\ Live(f, r, d, i) /\ Ref(f, r, d, i) = r[d].table[i].cluster
        BY <2>2, <4>1, ClusterFacts DEF Ref, Indices, EMPTY
      <4>3. CASE d \in Z \cup T
        BY <4>2, <4>3
      <4>4. CASE d \notin Z \cup T
        <5>1. d \in R
          BY <2>2, <3>2, <4>4
        <5>2. st2[d] = st[d]
          BY <3>0, <4>4
        <5>3. Table(st2, d) = Table(st, d)
          BY <5>2 DEF Table
        <5>4. r1[d].table = r[d].table /\ r1[d].kind = "dir"
          BY <1>1, <1>2, <3>0, <3>2, <5>3
        <5>5. Ref(f, r1, d, i) = Ref(f, r, d, i)
          BY <3>2, <4>1, <4>2, <5>4, ClusterFacts DEF Ref, Live, IsDir, IsParent
        <5> QED BY <1>8, <2>2, <5>1, <5>5
      <4> QED BY <4>3, <4>4
    <3> QED BY <3>1, <3>2
  <2> HIDE DEF Y
  <2>3. Reach(f, r, ROOT_CLUSTER_NUMBER) \subseteq Y \cap Held(f)
    BY <1>0, <1>7, <2>1, <2>2, ReachMin
  <2>4. c \in Reach(f, r, ROOT_CLUSTER_NUMBER)
    BY <1>0, <1>9 DEF Sound, NoneLost
  <2> QED BY <1>9, <2>3, <2>4 DEF Y
<1>10. Kept(fat, st2, f1, r1)
  <2>1. \A c \in Clusters : f1[c] # EMPTY \/ c \notin DataClusters => f1[c] = fat[c]
    BY <1>6 DEF Kept
  <2>2. ASSUME NEW c \in Clusters
        PROVE  \/ r1[c] = st2[c]
               \/ /\ r1[c].kind = "dir" /\ r1[c].table = Table(st2, c)
                  /\ st2[c].kind \in {"dir", "zeros"}
    <3>1. PartlyZeroed(st[c], st2[c])
      OBVIOUS
    <3> QED BY <1>1, <1>2, <3>1 DEF PartlyZeroed
  <2>3. ASSUME NEW c \in Clusters, fat[c] # EMPTY, f1[c] = EMPTY, st2[c].kind = "dir"
        PROVE  FALSE
    <3>1. PartlyZeroed(st[c], st2[c])
      OBVIOUS
    <3>2. st[c].kind = "dir" /\ c \notin Z /\ r[c].kind = "dir"
      BY <1>1, <2>3, <3>1 DEF PartlyZeroed
    <3>3. f[c] # EMPTY
      BY <2>3, <3>2 DEF Kept
    <3>4. c \in DataClusters \ R
      BY <1>6, <2>3, <3>3
    <3> QED BY <1>9, <3>2, <3>3, <3>4
  <2> QED BY <2>1, <2>2, <2>3 DEF Kept
<1>11. Types(fat, st2)
  BY DEF Types
<1> QED BY <1>5, <1>10, <1>11 DEF Good

-----------------------------------------------------------------------------
(* What a sequence of writes leaves on the disk. *)

Writes == [at : {0}, is : {TRUE}] \cup [at : {1}, is : [Clusters -> FatValues]]
              \cup [at : Clusters \ {0, 1}, is : Blocks]

\* Once the writes of W are made cluster c, which held x, holds y.
Leaves(W, c, x, y) ==
    \E i \in 0 .. Len(W) :
        /\ IF i = 0 THEN x = y ELSE W[i].at = c /\ W[i].is = y
        /\ \A j \in i + 1 .. Len(W) : W[j].at = c => W[j].is = y

\* The first write and the rest.
LEMMA FirstWrite ==
    ASSUME NEW W \in Seq(Writes), W # <<>>
    PROVE  /\ Len(W) \in Nat \ {0} /\ Head(W) = W[1] /\ W[1] \in Writes
           /\ Tail(W) \in Seq(Writes) /\ Len(Tail(W)) = Len(W) - 1
           /\ \A i \in 1 .. Len(W) - 1 : Tail(W)[i] = W[i + 1]
<1>1. Len(W) \in Nat \ {0}
  BY EmptySeq
<1>2. Head(W) \in Writes /\ Tail(W) \in Seq(Writes) /\ Len(Tail(W)) = Len(W) - 1
      /\ \A i \in 1 .. Len(Tail(W)) : Tail(W)[i] = W[i + 1]
  BY HeadTailProperties
<1>3. Head(W) = W[1]
  OBVIOUS
<1> QED BY <1>1, <1>2, <1>3

LEMMA LeavesTail ==
    ASSUME NEW W \in Seq(Writes), W # <<>>, NEW c, NEW x, NEW y, Leaves(W, c, x, y)
    PROVE  Leaves(Tail(W), c, IF W[1].at = c THEN W[1].is ELSE x, y)
<1>1. /\ Len(W) \in Nat \ {0} /\ Len(Tail(W)) = Len(W) - 1
      /\ \A i \in 1 .. Len(W) - 1 : Tail(W)[i] = W[i + 1]
  BY FirstWrite
<1>2. PICK i \in 0 .. Len(W) :
         /\ IF i = 0 THEN x = y ELSE W[i].at = c /\ W[i].is = y
         /\ \A j \in i + 1 .. Len(W) : W[j].at = c => W[j].is = y
  BY DEF Leaves
<1>3. CASE i \in {0, 1}
  <2>1. 0 \in 0 .. Len(W) - 1 /\ 1 \in 1 .. Len(W)
    BY <1>1
  <2>2. (IF W[1].at = c THEN W[1].is ELSE x) = y
    <3>1. CASE i = 0
      BY <1>2, <2>1, <3>1
    <3>2. CASE i = 1
      BY <1>2, <3>2
    <3> QED BY <1>3, <3>1, <3>2
  <2>3. ASSUME NEW j \in 1 .. Len(W) - 1, Tail(W)[j].at = c PROVE Tail(W)[j].is = y
    <3>1. j + 1 \in i + 1 .. Len(W) /\ Tail(W)[j] = W[j + 1]
      BY <1>1, <1>3
    <3> QED BY <1>2, <2>3, <3>1
  <2> QED BY <1>1, <2>1, <2>2, <2>3 DEF Leaves
<1>4. CASE i \notin {0, 1}
  <2>1. i - 1 \in 0 .. Len(W) - 1 /\ i - 1 # 0 /\ i # 0
    BY <1>1, <1>4
  <2>2. Tail(W)[i - 1] = W[i]
    BY <1>1, <2>1
  <2>3. ASSUME NEW j \in (i - 1) + 1 .. Len(W) - 1, Tail(W)[j].at = c PROVE Tail(W)[j].is = y
    <3>1. j + 1 \in i + 1 .. Len(W) /\ j \in 1 .. Len(W) - 1
      BY <1>1, <1>4
    <3>2. Tail(W)[j] = W[j + 1]
      BY <1>1, <3>1
    <3> QED BY <1>2, <2>3, <3>1, <3>2
  <2> QED BY <1>1, <1>2, <2>1, <2>2, <2>3 DEF Leaves
<1> QED BY <1>3, <1>4

\* Two sequences of writes after each other.
LEMMA ConcatWrites ==
    ASSUME NEW V \in Seq(Writes), NEW W \in Seq(Writes)
    PROVE  /\ Len(V) \in Nat /\ Len(W) \in Nat
           /\ V \o W \in Seq(Writes) /\ Len(V \o W) = Len(V) + Len(W)
           /\ \A i \in 1 .. Len(V) + Len(W) :
                 (V \o W)[i] = IF i <= Len(V) THEN V[i] ELSE W[i - Len(V)]
BY ConcatProperties, LenProperties

LEMMA LeavesConcat ==
    ASSUME NEW V \in Seq(Writes), NEW W \in Seq(Writes), NEW c, NEW x, NEW y, NEW z,
           Leaves(V, c, x, y), Leaves(W, c, y, z)
    PROVE  Leaves(V \o W, c, x, z)
<1>1. /\ Len(V) \in Nat /\ Len(W) \in Nat /\ Len(V \o W) = Len(V) + Len(W)
      /\ \A i \in 1 .. Len(V) + Len(W) :
            (V \o W)[i] = IF i <= Len(V) THEN V[i] ELSE W[i - Len(V)]
  BY ConcatProperties, LenProperties
<1>2. PICK i \in 0 .. Len(V) :
         /\ IF i = 0 THEN x = y ELSE V[i].at = c /\ V[i].is = y
         /\ \A j \in i + 1 .. Len(V) : V[j].at = c => V[j].is = y
  BY DEF Leaves
<1>3. PICK k \in 0 .. Len(W) :
         /\ IF k = 0 THEN y = z ELSE W[k].at = c /\ W[k].is = z
         /\ \A j \in k + 1 .. Len(W) : W[j].at = c => W[j].is = z
  BY DEF Leaves
<1>4. CASE k = 0
  <2>1. i \in 0 .. Len(V) + Len(W) /\ (i # 0 => (V \o W)[i] = V[i])
    BY <1>1
  <2>2. ASSUME NEW j \in i + 1 .. Len(V) + Len(W), (V \o W)[j].at = c
        PROVE  (V \o W)[j].is = z
    <3>1. CASE j <= Len(V)
      <4>1. (V \o W)[j] = V[j] /\ j \in i + 1 .. Len(V)
        BY <1>1, <3>1
      <4> QED BY <1>2, <1>3, <1>4, <2>2, <4>1
    <3>2. CASE ~(j <= Len(V))
      <4>1. (V \o W)[j] = W[j - Len(V)] /\ j - Len(V) \in 1 .. Len(W)
        BY <1>1, <3>2
      <4> QED BY <1>3, <1>4, <2>2, <4>1
    <3> QED BY <3>1, <3>2
  <2>3. IF i = 0 THEN x = z ELSE (V \o W)[i].at = c /\ (V \o W)[i].is = z
    BY <1>2, <1>3, <1>4, <2>1
  <2> QED BY <1>1, <2>1, <2>2, <2>3 DEF Leaves
<1>5. CASE k # 0
  <2>1. /\ Len(V) + k \in 0 .. Len(V) + Len(W) /\ Len(V) + k # 0
        /\ (V \o W)[Len(V) + k] = W[k]
    <3>1. Len(V) + k \in 1 .. Len(V) + Len(W) /\ ~(Len(V) + k <= Len(V)) /\ (Len(V) + k) - Len(V) = k
      BY <1>1, <1>5
    <3> QED BY <1>1, <3>1
  <2>2. ASSUME NEW j \in (Len(V) + k) + 1 .. Len(V) + Len(W), (V \o W)[j].at = c
        PROVE  (V \o W)[j].is = z
    <3>1. j \in 1 .. Len(V) + Len(W) /\ ~(j <= Len(V)) /\ j - Len(V) \in k + 1 .. Len(W)
      BY <1>1, <1>5
    <3> QED BY <1>1, <1>3, <2>2, <3>1
  <2> QED BY <1>1, <1>3, <1>5, <2>1, <2>2 DEF Leaves
<1> QED BY <1>4, <1>5

\* Writes that all carry what is to be held, one of them at least if that changes.
LEMMA LeavesWritten ==
    ASSUME NEW W \in Seq(Writes), NEW c, NEW x, NEW y,
           \A i \in 1 .. Len(W) : W[i].at = c => W[i].is = y,
           x = y \/ \E i \in 1 .. Len(W) : W[i].at = c
    PROVE  Leaves(W, c, x, y)
<1>0. Len(W) \in Nat
  BY LenProperties
<1>1. CASE x = y
  <2>1. 0 \in 0 .. Len(W) /\ 0 + 1 = 1
    BY <1>0
  <2> QED BY <1>1, <2>1 DEF Leaves
<1>2. ASSUME NEW i \in 1 .. Len(W), W[i].at = c PROVE Leaves(W, c, x, y)
  <2>1. i \in 0 .. Len(W) /\ i # 0 /\ \A j \in i + 1 .. Len(W) : j \in 1 .. Len(W)
    BY <1>0
  <2> QED BY <1>2, <2>1 DEF Leaves
<1> QED BY <1>1, <1>2

\* No writes.
LEMMA LeavesNothing ==
    ASSUME NEW c, NEW x, NEW y
    PROVE  Leaves(<<>>, c, x, y) <=> x = y
<1>1. Len(<<>>) = 0 /\ \A i \in 0 .. 0 : i = 0 /\ 0 \in 0 .. 0 /\ \A j \in 1 .. 0 : FALSE
  OBVIOUS
<1> QED BY <1>1 DEF Leaves

-----------------------------------------------------------------------------
(* What the requests name. *)

\* The entries the driver sees are those that are kept.
LEMMA LiveKept ==
    ASSUME NEW f, NEW r, Types(fat_table, storage), Types(f, r),
           Kept(fat_table, storage, f, r), NEW x \in LiveEntries
    PROVE  /\ x[1] \in Clusters /\ x[2] \in Slots /\ x = <<x[1], x[2]>>
           /\ Live(f, r, x[1], x[2]) /\ EntryAt(x) = r[x[1]].table[x[2]]
<1>1. /\ x[1] \in Directories /\ x[2] \in Slots /\ x = <<x[1], x[2]>>
      /\ storage[x[1]].table[x[2]] # NoEntry
  BY DEF LiveEntries
<1>2. x[1] \in Clusters /\ fat_table[x[1]] = EOF /\ storage[x[1]].kind = "dir"
  BY <1>1 DEF Directories, IsParent
<1>3. IsDir(f, r, x[1]) /\ x[2] \in Used(storage, x[1])
      /\ Table(storage, x[1])[x[2]] = storage[x[1]].table[x[2]]
  BY <1>1, <1>2, KeptFacts DEF Used, Table
<1>4. Live(f, r, x[1], x[2]) /\ r[x[1]].table[x[2]] = storage[x[1]].table[x[2]]
  BY <1>1, <1>2, <1>3, KeptFacts
<1> QED BY <1>1, <1>2, <1>4 DEF EntryAt

\* So are the folders, those whose table was zeroed too.
LEMMA FoldersKept ==
    ASSUME NEW f, NEW r, Types(fat_table, storage), Sound(f, r),
           Kept(fat_table, storage, f, r), NEW p \in Folders
    PROVE  p \in Clusters /\ IsDir(f, r, p)
<1>0. Types(f, r)
  BY DEF Sound
<1>1. CASE p \in Directories
  BY <1>0, <1>1, KeptFacts DEF Directories, IsParent
<1>2. CASE p \notin Directories
  <2>1. PICK x \in LiveEntries : EntryAt(x).folder /\ p = EntryAt(x).cluster
    BY <1>2 DEF Folders
  <2>2. /\ x[1] \in Clusters /\ x[2] \in Slots
        /\ Live(f, r, x[1], x[2]) /\ EntryAt(x) = r[x[1]].table[x[2]]
    BY <1>0, LiveKept
  <2>3. p \in DataClusters /\ r[p].kind = "dir" /\ p \in Clusters
    BY <2>1, <2>2, ClusterFacts DEF Sound, KindsAgree
  <2>4. Ref(f, r, x[1], x[2]) = p /\ x[2] \in Indices
    BY <2>1, <2>2, ClusterFacts DEF Ref, Indices
  <2>5. f[p] # EMPTY
    BY <2>2, <2>3, <2>4 DEF Sound, RefsInside
  <2> QED BY <2>3, <2>5 DEF Sound, KindsAgree, IsDir, IsParent
<1> QED BY <1>1, <1>2

\* What is below an entry is what the driver sees there: clusters in use.
LEMMA BelowKept ==
    ASSUME NEW fat, NEW st, NEW f, NEW r, Types(fat, st), Kept(fat, st, f, r), Tidy(f, r),
           NEW p \in Clusters, NEW s \in Slots, Live(f, r, p, s),
           NEW C, C = Reach(f, r, r[p].table[s].cluster)
    PROVE  /\ Reach(fat, st, r[p].table[s].cluster) = C
           /\ \A c \in C : fat[c] = f[c] /\ fat[c] # EMPTY
<1> DEFINE h == r[p].table[s].cluster
<1>1. /\ \A c \in C : c \in DataClusters /\ f[c] # EMPTY /\ c \in Clusters
      /\ h \in C
  BY BelowEntry, ClusterFacts
<1>2. h \in Held(f)
  BY <1>1 DEF Held
<1>3. Reach(fat, st, h) = C
  BY <1>2, KeptReach DEF Tidy
<1> QED BY <1>1, <1>3 DEF Kept

\* What is below two entries of a directory is apart.
LEMMA EntriesApart ==
    ASSUME NEW f, NEW r, Tidy(f, r), NEW p \in Clusters, NEW s \in Slots, Live(f, r, p, s),
           NEW t \in Slots, Live(f, r, p, t), s # t
    PROVE  Reach(f, r, r[p].table[s].cluster) \cap Reach(f, r, r[p].table[t].cluster) = {}
<1> DEFINE C == Reach(f, r, r[p].table[s].cluster)
           h == r[p].table[t].cluster
           E == Reach(f, r, h)
           D == (E \cup {0}) \ C
<1>0. Sound(f, r) /\ Linked(f, r) /\ Reserved(f, r)
  BY DEF Tidy, Sound, Linked
<1>1. /\ \A c \in C : c \in DataClusters /\ f[c] # EMPTY
      /\ p \notin C /\ C \in SUBSET Clusters
  BY BelowEntry
<1>2. /\ \A c \in E : c \in DataClusters /\ f[c] # EMPTY
      /\ h \in E /\ p \notin E /\ E \in SUBSET Clusters
  BY BelowEntry
<1>3. \A d \in Clusters, i \in Indices :
         Ref(f, r, d, i) \in C \cap DataClusters => d \in C \/ (d = p /\ i = s)
  BY <1>0, FreedIsApart
<1>4. h \in Held(f) /\ h \in DataClusters
  BY <1>2 DEF Held
<1>5. \A d \in E, i \in Indices : Ref(f, r, d, i) \in DataClusters => Ref(f, r, d, i) \in E
  BY <1>0, <1>4, ReachStep
<1>6. t \in Indices /\ Ref(f, r, p, t) = h
  BY ClusterFacts DEF Indices, Ref
<1> HIDE DEF C, E, h
<1>7. h \notin C
  BY <1>1, <1>3, <1>4, <1>6
<1>8. \A i \in Indices : Ref(f, r, 0, i) \notin DataClusters
  BY <1>0, ClusterFacts DEF Reserved, Ref, Live, IsDir, EMPTY
<1>9. D \in SUBSET Clusters /\ h \in D /\ 0 \in D
  BY <1>1, <1>2, <1>7, ClusterFacts
<1>10. \A d \in D \cap Held(f), i \in Indices :
          Ref(f, r, d, i) \in DataClusters => Ref(f, r, d, i) \in D
  BY <1>2, <1>3, <1>5, <1>8, <1>9
<1> HIDE DEF D
<1>11. E \subseteq D \cap Held(f)
  BY <1>0, <1>4, <1>9, <1>10, ReachMin DEF E
<1>12. C \cap E = {}
  BY <1>11 DEF D
<1> QED BY <1>12 DEF C, E, h

\* A file system that is kept has the owners of its clusters apart.
LEMMA GoodOwners ==
    ASSUME Good(fat_table, storage), NEW x \in LiveEntries,
           NEW C, C = Reach(fat_table, storage, EntryAt(x).cluster)
    PROVE  /\ \A c \in C : c \in DataClusters /\ fat_table[c] # EMPTY
           /\ \A y \in LiveEntries : x # y /\ x[1] = y[1] =>
                 C \cap Reach(fat_table, storage, EntryAt(y).cluster) = {}
<1>1. PICK f, r : Kept(fat_table, storage, f, r) /\ Tidy(f, r)
  BY DEF Good
<1>2. Types(fat_table, storage) /\ Types(f, r)
  BY <1>1 DEF Good, Tidy, Sound
<1>3. /\ x[1] \in Clusters /\ x[2] \in Slots /\ x = <<x[1], x[2]>>
      /\ Live(f, r, x[1], x[2]) /\ EntryAt(x) = r[x[1]].table[x[2]]
  BY <1>1, <1>2, LiveKept
<1>4. C = Reach(f, r, r[x[1]].table[x[2]].cluster) /\ \A c \in C : fat_table[c] # EMPTY
  BY <1>1, <1>2, <1>3, BelowKept
<1>5. \A c \in C : c \in DataClusters
  BY <1>1, <1>3, <1>4, BelowEntry
<1>6. ASSUME NEW y \in LiveEntries, x # y, x[1] = y[1]
      PROVE  C \cap Reach(fat_table, storage, EntryAt(y).cluster) = {}
  <2>1. /\ y[1] \in Clusters /\ y[2] \in Slots /\ y = <<y[1], y[2]>>
        /\ Live(f, r, y[1], y[2]) /\ EntryAt(y) = r[y[1]].table[y[2]]
    BY <1>1, <1>2, LiveKept
  <2>2. Reach(fat_table, storage, EntryAt(y).cluster) = Reach(f, r, r[y[1]].table[y[2]].cluster)
    BY <1>1, <1>2, <2>1, BelowKept
  <2>3. x[2] # y[2]
    BY <1>3, <1>6, <2>1
  <2> QED BY <1>1, <1>3, <1>4, <1>6, <2>1, <2>2, <2>3, EntriesApart
<1> QED BY <1>4, <1>5, <1>6

-----------------------------------------------------------------------------
(* The loops along what is kept. *)

\* The chains that are kept are those of the driver's table.
LEMMA KeptChain ==
    ASSUME NEW fat, NEW st, NEW f, NEW r, Kept(fat, st, f, r), NEW c, NEW n, NEW g,
           Chain(f, c, n, g)
    PROVE  Chain(fat, c, n, g) /\ \A k \in 0 .. n - 1 : fat[g[k]] # EMPTY /\ g[k] \in Clusters
<1>1. n \in 1 .. CLUSTER_MAP_SIZE /\ n \in Nat /\ g \in [0 .. n - 1 -> DataClusters]
  BY FAT32Assumption DEF Chain
<1>2. ASSUME NEW k \in 0 .. n - 1
      PROVE  fat[g[k]] = f[g[k]] /\ f[g[k]] # EMPTY /\ g[k] \in Clusters
  <2>1. g[k] \in DataClusters /\ (k # n - 1 => g[k + 1] \in DataClusters)
    BY <1>1
  <2>2. f[g[k]] # EMPTY
    BY <2>1, ClusterFacts DEF Chain, EMPTY
  <2> QED BY <2>1, <2>2, ClusterFacts DEF Kept
<1>3. Chain(fat, c, n, g)
  BY <1>1, <1>2 DEF Chain
<1> QED BY <1>2, <1>3

\* A loop along a chain goes through its clusters and stays at its end.
LEMMA WalkOnChain ==
    ASSUME NEW fat, NEW c, NEW n, NEW g, Chain(fat, c, n, g)
    PROVE  /\ n \in DOMAIN Walk(fat, c) /\ Walk(fat, c)[n] = EOF
           /\ \A k \in 0 .. CLUSTER_MAP_SIZE :
                 IF k < n THEN Walk(fat, c)[k] = g[k] ELSE Walk(fat, c)[k] = EOF
<1> DEFINE at == Walk(fat, c)
<1>0. /\ n \in 1 .. CLUSTER_MAP_SIZE /\ g \in [0 .. n - 1 -> DataClusters] /\ g[0] = c
      /\ \A k \in 0 .. n - 1 : fat[g[k]] = IF k = n - 1 THEN EOF ELSE g[k + 1]
      /\ CLUSTER_MAP_SIZE \in Nat
  BY FAT32Assumption DEF Chain
<1>1. /\ \A k \in 0 .. n - 1 : k \in DOMAIN at /\ at[k] = g[k]
      /\ n \in DOMAIN at /\ at[n] = EOF
  BY <1>0, WalkAlong
<1>2. \A k \in 0 .. CLUSTER_MAP_SIZE : k # 0 => at[k] = Step(fat, at[k - 1])
  BY WalkTurns
<1> HIDE DEF at
<1>3. \A k \in n .. CLUSTER_MAP_SIZE : at[k] = EOF
  <2> DEFINE Bad == {k \in n .. CLUSTER_MAP_SIZE : at[k] # EOF}
  <2> SUFFICES ASSUME Bad # {} PROVE FALSE
    OBVIOUS
  <2>1. PICK k \in Bad : IsFirst(Bad, k)
    <3>1. Bad \in SUBSET Nat
      BY <1>0
    <3> HIDE DEF Bad
    <3> QED BY <3>1, LeastMember
  <2>2. k \in n .. CLUSTER_MAP_SIZE /\ at[k] # EOF /\ k # n
    BY <1>1
  <2>3. k - 1 \in n .. CLUSTER_MAP_SIZE /\ ~(k <= k - 1) /\ k \in 0 .. CLUSTER_MAP_SIZE /\ k # 0
    BY <1>0, <2>2
  <2>4. at[k - 1] = EOF
    BY <2>1, <2>3 DEF IsFirst
  <2> QED BY <1>2, <2>2, <2>3, <2>4, ClusterFacts DEF Step
<1>4. ASSUME NEW k \in 0 .. CLUSTER_MAP_SIZE
      PROVE  IF k < n THEN at[k] = g[k] ELSE at[k] = EOF
  <2>1. IF k < n THEN k \in 0 .. n - 1 ELSE k \in n .. CLUSTER_MAP_SIZE
    BY <1>0
  <2> QED BY <1>1, <1>3, <2>1
<1> QED BY <1>1, <1>4 DEF at

\* The loops of a deletion end: it never zeroes the boot signature.
LEMMA GoodLoops ==
    ASSUME NEW fat, NEW st, NEW f, NEW r, Types(fat, st), Kept(fat, st, f, r), Tidy(f, r),
           NEW p \in Clusters, NEW s \in Slots, Live(f, r, p, s),
           NEW C, C = Reach(f, r, r[p].table[s].cluster)
    PROVE  LoopsEnd(fat, st, C) /\ 0 \notin C
<1> DEFINE stubs == {x \in C \X Slots : /\ Table(st, x[1])[x[2]] # NoEntry
                                        /\ Table(st, x[1])[x[2]].cluster = 0}
<1>0. Sound(f, r) /\ ChainsEnd(f) /\ NoStubs(f, r) /\ Types(f, r) /\ KindsAgree(f, r)
  BY DEF Tidy, Sound
<1>1. \A c \in C : c \in DataClusters /\ f[c] # EMPTY /\ c \in Clusters
  BY BelowEntry, ClusterFacts
<1>2. ASSUME NEW c \in C PROVE WalkEnds(fat, c)
  <2>1. PICK n, g : Chain(f, c, n, g)
    BY <1>0, <1>1 DEF ChainsEnd
  <2>2. Chain(fat, c, n, g)
    BY <2>1, KeptChain
  <2>3. n \in DOMAIN Walk(fat, c) /\ Walk(fat, c)[n] = EOF
    BY <2>2, WalkOnChain
  <2> QED BY <2>3 DEF WalkEnds, Range
<1>3. ASSUME NEW x \in stubs PROVE FALSE
  <2>1. x[1] \in C /\ x[2] \in Slots /\ x[1] \in Clusters /\ x[1] \in DataClusters /\ f[x[1]] # EMPTY
        /\ Table(st, x[1])[x[2]] # NoEntry /\ Table(st, x[1])[x[2]].cluster = 0
    BY <1>1
  <2>2. x[2] \in Used(st, x[1]) /\ x[2] \in Used(r, x[1])
    BY <1>0, <2>1, KeptFacts DEF Used
  <2>3. r[x[1]].kind = "dir"
    BY <2>2 DEF Used, Table
  <2>4. IsDir(f, r, x[1])
    BY <1>0, <2>1, <2>3 DEF KindsAgree, IsDir, IsParent
  <2>5. Live(f, r, x[1], x[2]) /\ r[x[1]].table[x[2]] = Table(st, x[1])[x[2]]
    BY <1>0, <2>1, <2>2, <2>4, KeptFacts
  <2> QED BY <1>0, <2>1, <2>5, ClusterFacts DEF NoStubs
<1>4. stubs = {}
  BY <1>3
<1>5. Cardinality(stubs) <= 1
  <2>1. Cardinality({}) = 0
    BY FS_EmptySet
  <2> HIDE DEF stubs
  <2> QED BY <1>4, <2>1
<1> QED BY <1>1, <1>2, <1>5, ClusterFacts DEF LoopsEnd

-----------------------------------------------------------------------------
(* Writes. *)

\* A new file or folder leaves a tidy file system.
LEMMA AddTidy ==
    ASSUME NEW f, NEW r, Tidy(f, r), NEW p \in Clusters, NEW s \in Slots,
           IsDir(f, r, p), ~Live(f, r, p, s), NEW e, NEW m \in 1 .. CLUSTER_MAP_SIZE, NEW a, NEW b,
           NEW f2, NEW r2, Added(f, r, p, s, e, m, a, b, f2, r2), NewKey(f, r, p, e),
           ~e.folder => e.size # 0
    PROVE  Tidy(f2, r2)
<1>0. Sound(f, r) /\ ChainsEnd(f) /\ NoStubs(f, r)
  BY DEF Tidy
<1>1. Sound(f2, r2)
  BY <1>0, AddSound
<1>2. /\ Taken(m, a) \subseteq DataClusters /\ \A c \in Taken(m, a) : f[c] = EMPTY
      /\ r2[p].table[s] = e
      /\ \A d \in Clusters, i \in Slots : ~(d = p /\ i = s) =>
            /\ Live(f2, r2, d, i) => Live(f, r, d, i) /\ r2[d].table[i] = r[d].table[i]
  BY <1>0, AddedRefs
<1>3. m \in Nat /\ m # 0 /\ 0 \in 0 .. m - 1 /\ m <= CLUSTER_MAP_SIZE /\ CLUSTER_MAP_SIZE \in Nat
  BY FAT32Assumption
<1>4. /\ e.cluster = a[0]
      /\ \A k \in 0 .. m - 1 : f2[a[k]] = IF k = m - 1 THEN EOF ELSE a[k + 1]
      /\ \A c \in Clusters \ Taken(m, a) : c # 0 => f2[c] = f[c]
  BY <1>3 DEF Added
<1>5. \A k \in 0 .. m - 1 : a[k] \in DataClusters /\ a[k] \in Taken(m, a)
  BY <1>2 DEF Taken
<1>6. NoStubs(f2, r2)
  <2> SUFFICES ASSUME NEW d \in Clusters, NEW t \in Slots, Live(f2, r2, d, t)
               PROVE  /\ r2[d].table[t].cluster \in DataClusters
                      /\ ~r2[d].table[t].folder => r2[d].table[t].size # 0
    BY DEF NoStubs
  <2>1. CASE d = p /\ t = s
    BY <1>2, <1>3, <1>4, <1>5, <2>1
  <2>2. CASE ~(d = p /\ t = s)
    BY <1>0, <1>2, <2>2 DEF NoStubs
  <2> QED BY <2>1, <2>2
<1>7. ASSUME NEW c \in DataClusters, f2[c] # EMPTY PROVE \E n, g : Chain(f2, c, n, g)
  <2>0. c \in Clusters /\ c # 0
    BY ClusterFacts
  <2>1. CASE c \in Taken(m, a)
    <3>1. PICK j \in 0 .. m - 1 : c = a[j]
      BY <2>1 DEF Taken
    <3> DEFINE n == m - j
               g == [k \in 0 .. n - 1 |-> a[j + k]]
    <3>2. n \in 1 .. CLUSTER_MAP_SIZE /\ \A k \in 0 .. n - 1 : j + k \in 0 .. m - 1
      BY <1>3
    <3>3. g \in [0 .. n - 1 -> DataClusters]
      BY <1>5, <3>2
    <3>4. g[0] = c
      <4>1. 0 \in 0 .. n - 1 /\ j + 0 = j
        BY <3>2
      <4> QED BY <3>1, <4>1
    <3>5. ASSUME NEW k \in 0 .. n - 1 PROVE f2[g[k]] = IF k = n - 1 THEN EOF ELSE g[k + 1]
      <4>1. j + k \in 0 .. m - 1 /\ g[k] = a[j + k] /\ (k = n - 1 <=> j + k = m - 1)
        BY <1>3, <3>2
      <4>2. k # n - 1 => g[k + 1] = a[(j + k) + 1]
        <5>1. k # n - 1 => k + 1 \in 0 .. n - 1 /\ j + (k + 1) = (j + k) + 1
          BY <3>2
        <5> QED BY <5>1
      <4> HIDE DEF g, n
      <4> QED BY <1>4, <4>1, <4>2
    <3> HIDE DEF g, n
    <3>6. Chain(f2, c, n, g)
      BY <3>2, <3>3, <3>4, <3>5 DEF Chain
    <3> QED BY <3>6
  <2>2. CASE c \notin Taken(m, a)
    <3>1. f[c] # EMPTY
      BY <1>4, <1>7, <2>0, <2>2
    <3>2. PICK n, g : Chain(f, c, n, g)
      BY <1>0, <3>1 DEF ChainsEnd
    <3>3. n \in 1 .. CLUSTER_MAP_SIZE /\ n \in Nat /\ g \in [0 .. n - 1 -> DataClusters]
      BY <3>2, FAT32Assumption DEF Chain
    <3>4. ASSUME NEW k \in 0 .. n - 1 PROVE f2[g[k]] = f[g[k]]
      <4>1. g[k] \in DataClusters /\ (k # n - 1 => g[k + 1] \in DataClusters)
        BY <3>3
      <4>2. f[g[k]] # EMPTY
        BY <3>2, <4>1, ClusterFacts DEF Chain, EMPTY
      <4> QED BY <1>2, <1>4, <4>1, <4>2, ClusterFacts
    <3>5. Chain(f2, c, n, g)
      BY <3>2, <3>4 DEF Chain
    <3> QED BY <3>5
  <2> QED BY <2>1, <2>2
<1> QED BY <1>1, <1>6, <1>7 DEF Tidy, ChainsEnd

\* fat2 and st2 are fat and st with entry e in the empty slot s of folder p, and
\* its chain of m clusters a.
Grown(fat, st, p, s, e, m, a, fat2, st2) ==
    /\ s \in Slots \ Used(st, p) /\ e \in Entries /\ m \in 1 .. CLUSTER_MAP_SIZE
    /\ Matching(st, p, e.name, e.ext) = {}
    /\ a \in [0 .. m - 1 -> FreeClusters(fat)]
    /\ e.cluster = a[0] /\ (e.folder => m = 1)
    /\ Types(fat2, st2)
    /\ \A k \in 0 .. m - 1 : fat2[a[k]] = IF k = m - 1 THEN EOF ELSE a[k + 1]
    /\ \A c \in Clusters \ Taken(m, a) : c # 0 => fat2[c] = fat[c]
    /\ \A c \in Clusters \ Taken(m, a) : c # p => st2[c] = st[c]
    /\ p \notin Taken(m, a) /\ st2[p].kind = "dir"
    /\ \A t \in Slots : st2[p].table[t] = IF t = s THEN e ELSE Table(st, p)[t]

\* What is written to a folder whose table was zeroed is written as if it had not
\* been, but for slot 1.
LEMMA AddKept ==
    ASSUME NEW fat, NEW st, NEW f, NEW r, Types(fat, st), Kept(fat, st, f, r), Tidy(f, r),
           NEW p \in Clusters, IsDir(f, r, p), NEW s \in Slots,
           NEW st1, st1[p] = r[p], \A c \in Clusters : c # p => st1[c] = st[c],
           ~Live(fat, st1, p, s),
           NEW e, NEW m \in 1 .. CLUSTER_MAP_SIZE, NEW a, NEW b, NEW fat2, NEW st3,
           Added(fat, st1, p, s, e, m, a, b, fat2, st3), NewKey(fat, st1, p, e),
           ~e.folder => e.size # 0,
           NEW st2 \in [Clusters -> Blocks], \A c \in Clusters : c # p => st2[c] = st3[c],
           st2[p].kind = "dir", st2[p].table = st3[p].table
    PROVE  Good(fat2, st2) /\ Grown(fat, st, p, s, e, m, a, fat2, st2)
<1> DEFINE A  == Taken(m, a)
           f2 == [c \in Clusters |-> IF c \in A \cup {0} THEN fat2[c] ELSE f[c]]
           r2 == [c \in Clusters |-> IF c \in A \cup {p} THEN st3[c] ELSE r[c]]
<1>0. Sound(f, r) /\ Types(f, r) /\ Reserved(f, r) /\ EOF # EMPTY
  BY ClusterFacts DEF Tidy, Sound, EMPTY
<1>1. /\ Table(r, p) = Table(st, p) /\ Used(r, p) = Used(st, p)
      /\ fat[p] = EOF /\ r[p].table = Table(st, p) /\ r[p].kind = "dir" /\ f[p] = EOF
  BY <1>0, KeptFacts DEF IsDir, IsParent
<1>2. st1[p] = r[p] /\ \A c \in Clusters : c # p => st1[c] = st[c]
  OBVIOUS
<1>3. /\ m \in Nat /\ m # 0 /\ 0 \in 0 .. m - 1
      /\ a \in [0 .. m - 1 -> FreeClusters(fat)]
      /\ \A j, k \in 0 .. m - 1 : a[j] = a[k] => j = k
      /\ e \in Entries /\ e.cluster = a[0]
      /\ IF e.folder THEN m = 1 /\ b[0] = EmptyDirectory(p)
         ELSE \A k \in 0 .. m - 1 : b[k].kind # "dir"
      /\ Types(fat2, st3)
      /\ \A k \in 0 .. m - 1 :
            fat2[a[k]] = (IF k = m - 1 THEN EOF ELSE a[k + 1]) /\ st3[a[k]] = b[k]
      /\ \A c \in Clusters \ A : c # 0 => fat2[c] = fat[c]
      /\ fat2[0] \in {fat[0], EOF}
      /\ \A c \in Clusters \ A : c # p => st3[c] = st[c]
      /\ st3[p].kind = "dir" /\ st3[p].up = r[p].up
      /\ \A t \in Slots : st3[p].table[t] = IF t = s THEN e ELSE r[p].table[t]
  <2>1. m \in Nat /\ m # 0 /\ 0 \in 0 .. m - 1
    BY FAT32Assumption
  <2> QED BY <1>2, <2>1 DEF Added
<1>4. \A k \in 0 .. m - 1 : a[k] \in FreeClusters(fat) /\ a[k] \in Clusters /\ a[k] # 0
                            /\ fat[a[k]] = EMPTY /\ a[k] \in DataClusters /\ a[k] \in A
  BY <1>3, FreeFacts DEF Taken
<1>5. A \in SUBSET Clusters /\ 0 \notin A /\ p \notin A /\ \A c \in A : c \in DataClusters /\ fat[c] = EMPTY
  BY <1>0, <1>1, <1>4 DEF Taken
<1>6. \A c \in A : f[c] = EMPTY
  BY <1>5 DEF Kept
<1>7. p # 0 /\ f[0] = fat[0]
  BY <1>0, <1>1, ClusterFacts DEF Reserved, Kept
<1> HIDE DEF A
<1>8. /\ f2 \in [Clusters -> FatValues] /\ r2 \in [Clusters -> Blocks]
      /\ \A c \in A : f2[c] = fat2[c] /\ r2[c] = st3[c]
      /\ f2[0] = fat2[0] /\ r2[p] = st3[p]
      /\ \A c \in Clusters \ A : (c # 0 => f2[c] = f[c]) /\ (c # p => r2[c] = r[c])
  <2>1. /\ \A c \in Clusters : fat2[c] \in FatValues /\ f[c] \in FatValues
        /\ \A c \in Clusters : st3[c] \in Blocks /\ r[c] \in Blocks
    BY <1>0, <1>3 DEF Types
  <2> QED BY <1>5, <1>7, <2>1, ClusterFacts
<1> HIDE DEF f2, r2
<1>9. a \in [0 .. m - 1 -> FreeClusters(f)]
  <2>1. \A k \in 0 .. m - 1 : a[k] \in FreeClusters(f)
    BY <1>4, <1>6 DEF FreeClusters
  <2> QED BY <1>3, <2>1
<1>10. Added(f, r, p, s, e, m, a, b, f2, r2)
  <2>1. \A k \in 0 .. m - 1 :
           f2[a[k]] = (IF k = m - 1 THEN EOF ELSE a[k + 1]) /\ r2[a[k]] = b[k]
    BY <1>3, <1>4, <1>8
  <2>2. f2[0] \in {f[0], EOF}
    BY <1>3, <1>7, <1>8
  <2>3. /\ \A c \in Clusters \ Taken(m, a) : c # 0 => f2[c] = f[c]
        /\ \A c \in Clusters \ Taken(m, a) : c # p => r2[c] = r[c]
    BY <1>8 DEF A
  <2>4. e.cluster = IF m = 0 THEN 0 ELSE a[0]
    BY <1>3
  <2>5. Types(f2, r2)
    BY <1>8 DEF Types
  <2>6. r2[p].kind = "dir" /\ r2[p].up = r[p].up
        /\ \A t \in Slots : r2[p].table[t] = IF t = s THEN e ELSE r[p].table[t]
    BY <1>3, <1>8
  <2> QED BY <1>3, <1>9, <2>1, <2>2, <2>3, <2>4, <2>5, <2>6 DEF Added
<1>11. IsDir(fat, st1, p) /\ st1[p] = r[p]
  BY <1>1, <1>2 DEF IsDir, IsParent
<1>12. ~Live(f, r, p, s) /\ NewKey(f, r, p, e) /\ r[p].table[s] = NoEntry
  BY <1>11 DEF Live, NewKey
<1>13. Tidy(f2, r2)
  BY <1>10, <1>12, AddTidy
<1>14. Kept(fat2, st2, f2, r2)
  <2>1. \A c \in Clusters : f2[c] # EMPTY \/ c \notin DataClusters => f2[c] = fat2[c]
    <3> SUFFICES ASSUME NEW c \in Clusters, f2[c] # EMPTY \/ c \notin DataClusters
                 PROVE  f2[c] = fat2[c]
      OBVIOUS
    <3>1. CASE c \in A \/ c = 0
      BY <1>8, <3>1
    <3>2. CASE c \notin A /\ c # 0
      BY <1>3, <1>8, <3>2 DEF Kept
    <3> QED BY <3>1, <3>2
  <2>2. ASSUME NEW c \in Clusters
        PROVE  \/ r2[c] = st2[c]
               \/ /\ r2[c].kind = "dir" /\ r2[c].table = Table(st2, c)
                  /\ st2[c].kind \in {"dir", "zeros"}
    <3>1. CASE c \in A
      BY <1>5, <1>8, <3>1
    <3>2. CASE c = p
      BY <1>3, <1>8, <3>2 DEF Table
    <3>3. CASE c \notin A /\ c # p
      <4>1. r2[c] = r[c] /\ st2[c] = st[c]
        BY <1>3, <1>8, <3>3
      <4>2. Table(st2, c) = Table(st, c)
        BY <4>1 DEF Table
      <4> QED BY <4>1, <4>2 DEF Kept
    <3> QED BY <3>1, <3>2, <3>3
  <2>3. ASSUME NEW c \in Clusters, fat2[c] # EMPTY, f2[c] = EMPTY
        PROVE  st2[c].kind # "dir"
    <3>1. c \notin A /\ c # 0
      BY <1>8, <2>3
    <3>2. f[c] = EMPTY /\ fat[c] # EMPTY
      BY <1>3, <1>8, <2>3, <3>1
    <3>3. c # p
      BY <1>0, <1>1, <3>2
    <3>4. st2[c] = st[c]
      BY <1>3, <3>1, <3>3
    <3> QED BY <3>2, <3>4 DEF Kept
  <2> QED BY <2>1, <2>2, <2>3 DEF Kept
<1>15. Types(fat2, st2)
  BY <1>3 DEF Types
<1>16. Good(fat2, st2)
  BY <1>13, <1>14, <1>15 DEF Good
<1>17. s \notin Used(st, p)
  BY <1>1, <1>12 DEF Used
<1>18. Matching(st, p, e.name, e.ext) = {}
  <2> SUFFICES ASSUME NEW t \in Matching(st, p, e.name, e.ext) PROVE FALSE
    OBVIOUS
  <2>1. t \in Slots /\ r[p].table[t] # NoEntry
        /\ r[p].table[t].name = e.name /\ r[p].table[t].ext = e.ext
    BY <1>1 DEF Matching, Used
  <2>2. Live(f, r, p, t)
    BY <2>1 DEF Live
  <2> QED BY <1>12, <2>1, <2>2 DEF NewKey
<1>19. /\ \A c \in Clusters \ Taken(m, a) : c # 0 => fat2[c] = fat[c]
       /\ \A c \in Clusters \ Taken(m, a) : c # p => st2[c] = st[c]
       /\ p \notin Taken(m, a)
  BY <1>3, <1>5 DEF A
<1>20. \A t \in Slots : st2[p].table[t] = IF t = s THEN e ELSE Table(st, p)[t]
  BY <1>1, <1>3
<1> QED BY <1>3, <1>15, <1>16, <1>17, <1>18, <1>19, <1>20 DEF Grown

\* A slot set in a zeroed table and in the table it was.
LEMMA SetSlotMended ==
    ASSUME NEW F, NEW G, NEW p \in Clusters, NEW s \in Slots, NEW e,
           \A c \in Clusters : c # p => F[c] = G[c],
           \/ F[p] = G[p]
           \/ /\ G[p].kind = "dir" /\ Table(G, p) = Table(F, p)
              /\ F[p].kind = "zeros" \/ (F[p].kind = "dir" /\ F[p].up \in Clusters),
           SetSlot(G, p, s, e) \in [Clusters -> Blocks], SetSlot(G, p, s, e)[p].kind = "dir"
    PROVE  /\ SetSlot(F, p, s, e) \in [Clusters -> Blocks]
           /\ \A c \in Clusters : c # p => SetSlot(F, p, s, e)[c] = SetSlot(G, p, s, e)[c]
           /\ SetSlot(F, p, s, e)[p].kind = "dir"
           /\ SetSlot(F, p, s, e)[p].table = SetSlot(G, p, s, e)[p].table
<1> DEFINE F2 == SetSlot(F, p, s, e)
           G2 == SetSlot(G, p, s, e)
           T  == [t \in Slots |-> IF t = s THEN e ELSE Table(F, p)[t]]
<1>1. /\ F2 = [c \in Clusters |-> F2[c]] /\ G2 = [c \in Clusters |-> G2[c]]
      /\ \A c \in Clusters : c # p => F2[c] = F[c] /\ G2[c] = G[c]
  BY DEF SetSlot
<1>2. Table(G, p) = Table(F, p)
  BY DEF Table
<1>3. F2[p] = IF F[p].kind = "dir" THEN [kind |-> "dir", up |-> F[p].up, table |-> T]
              ELSE IF F[p].kind = "zeros" THEN [kind |-> "dir", up |-> 0, table |-> T]
              ELSE Overwritten
  BY DEF SetSlot
<1>4. G2[p] = IF G[p].kind = "dir" THEN [kind |-> "dir", up |-> G[p].up, table |-> T]
              ELSE IF G[p].kind = "zeros" THEN [kind |-> "dir", up |-> 0, table |-> T]
              ELSE Overwritten
  BY <1>2 DEF SetSlot
<1> HIDE DEF F2, G2, T
<1>5. G2[p] \in Blocks /\ G2[p].kind = "dir"
  BY DEF G2
<1>6. CASE F[p] = G[p]
  <2>1. F2[p] = G2[p]
    BY <1>3, <1>4, <1>6
  <2>2. \A c \in Clusters : F2[c] = G2[c] /\ G2[c] \in Blocks
    BY <1>1, <2>1 DEF G2
  <2> QED BY <1>1, <1>5, <2>1, <2>2 DEF F2, G2
<1>7. CASE /\ G[p].kind = "dir"
           /\ F[p].kind = "zeros" \/ (F[p].kind = "dir" /\ F[p].up \in Clusters)
  <2>1. G2[p] = [kind |-> "dir", up |-> G[p].up, table |-> T]
    BY <1>4, <1>7
  <2>2. T \in [Slots -> Entries \cup {NoEntry}] /\ G2[p].table = T
    BY <1>5, <2>1, BlockFacts
  <2>3. PICK u \in Clusters : F2[p] = [kind |-> "dir", up |-> u, table |-> T]
    BY <1>3, <1>7, ClusterFacts
  <2>4. F2[p] \in Blocks /\ F2[p].kind = "dir" /\ F2[p].table = T
    BY <2>2, <2>3, BlockFacts
  <2>5. \A c \in Clusters : F2[c] \in Blocks
    BY <1>1, <2>4 DEF G2
  <2> QED BY <1>1, <2>2, <2>4, <2>5 DEF F2, G2
<1> QED BY <1>6, <1>7

\* A folder that is kept and its table as it was.
LEMMA MendedFacts ==
    ASSUME NEW fat, NEW st, NEW f, NEW r, Types(fat, st), Kept(fat, st, f, r), Tidy(f, r),
           NEW p \in Clusters, IsDir(f, r, p), NEW st1 \in [Clusters -> Blocks], st1[p] = r[p]
    PROVE  /\ Types(fat, st1) /\ st1[p].kind = "dir"
           /\ Table(st1, p) = Table(st, p) /\ Used(st1, p) = Used(st, p)
           /\ st[p].kind = "zeros" \/ (st[p].kind = "dir" /\ st[p].up \in Clusters)
           /\ \A name, ext : WriteCheck(fat, st1, p, name, ext) = WriteCheck(fat, st, p, name, ext)
<1>0. Types(f, r)
  BY DEF Tidy, Sound
<1>1. st1[p] = r[p] /\ r[p].kind = "dir"
  BY DEF IsDir
<1>2. Table(st1, p) = Table(st, p)
  BY <1>0, <1>1, KeptFacts DEF Table
<1>3. Used(st1, p) = Used(st, p)
  BY <1>2 DEF Used
<1>4. \A name, ext : Matching(st1, p, name, ext) = Matching(st, p, name, ext)
  BY <1>2, <1>3 DEF Matching
<1>5. \A name, ext : WriteCheck(fat, st1, p, name, ext) = WriteCheck(fat, st, p, name, ext)
  BY <1>3, <1>4 DEF WriteCheck
<1>6. st[p].kind = "zeros" \/ (st[p].kind = "dir" /\ st[p].up \in Clusters)
  <2>1. st[p].kind \in {"dir", "zeros"}
    BY <1>0, KeptFacts
  <2> QED BY <2>1, BlockFacts DEF Types
<1>7. Types(fat, st1)
  BY <1>0 DEF Types
<1> QED BY <1>1, <1>2, <1>3, <1>5, <1>6, <1>7

\* The number of clusters is a bound of every allocation.
LEMMA FreeCount ==
    ASSUME NEW fat
    PROVE  /\ Cardinality(FreeClusters(fat)) \in Nat
           /\ Cardinality(FreeClusters(fat)) <= CLUSTER_MAP_SIZE
           /\ Cardinality(FreeClusters(fat)) >= 1 => FreeClusters(fat) # {}
<1>1. 3 \in Int /\ CLUSTER_MAP_SIZE - 1 \in Int /\ CLUSTER_MAP_SIZE > 3 /\ CLUSTER_MAP_SIZE \in Nat
  BY FAT32Assumption
<1>2. Cardinality(DataClusters) = CLUSTER_MAP_SIZE - 3
  <2>1. Cardinality(DataClusters) = IF 3 > CLUSTER_MAP_SIZE - 1 THEN 0
                                    ELSE (CLUSTER_MAP_SIZE - 1) - 3 + 1
    BY <1>1, FS_Interval DEF DataClusters
  <2> QED BY <1>1, <2>1
<1>3. /\ Cardinality(FreeClusters(fat)) <= Cardinality(DataClusters)
      /\ Cardinality(FreeClusters(fat)) \in Nat
  BY FreeFacts, ClusterFacts, FS_Subset, FS_CardinalityType
<1>4. Cardinality({}) = 0
  BY FS_EmptySet
<1> QED BY <1>1, <1>2, <1>3, <1>4

\* A write that its test lets through finds a slot.
LEMMA SlotFound ==
    ASSUME NEW fat, NEW st, NEW p, NEW name, NEW ext, WriteCheck(fat, st, p, name, ext) = 0
    PROVE  (CHOOSE t \in Slots : NewSlot(st, p, t)) \in Slots
<1>1. Used(st, p) # Slots
  BY DEF WriteCheck
<1>2. Slots \ Used(st, p) # {} /\ Slots \ Used(st, p) \in SUBSET Nat
  BY <1>1, ClusterFacts DEF Used
<1>3. \E t \in Slots : NewSlot(st, p, t)
  BY <1>2, LeastMember DEF NewSlot
<1> QED BY <1>3

\* Writing a file.
LEMMA FileWritten ==
    ASSUME NEW fat, NEW st, NEW f, NEW r, Types(fat, st), Kept(fat, st, f, r), Tidy(f, r),
           NEW p \in Clusters, IsDir(f, r, p), NEW name \in Names, NEW ext \in Exts,
           WriteCheck(fat, st, p, name, ext) = 0, ~FullDisk, NEW n \in Nat, n # 0, Fits(fat, n),
           NEW data \in [0 .. n - 1 -> Blocks], \A k \in 0 .. n - 1 : data[k].kind # "dir",
           NEW new, new = FileAdded(fat, st, p, name, ext, data)
    PROVE  /\ Good(new.fat, new.st)
           /\ \E s, e, m, a : /\ Grown(fat, st, p, s, e, m, a, new.fat, new.st)
                              /\ e.name = name /\ e.ext = ext
<1>01. PICK st1 \in [Clusters -> Blocks] :
          st1[p] = r[p] /\ \A c \in Clusters : c # p => st1[c] = st[c]
  <2>1. [st EXCEPT ![p] = r[p]] \in [Clusters -> Blocks]
    BY DEF Tidy, Sound, Types
  <2> QED BY <2>1 DEF Types
<1>02. PICK new1 : new1 = FileAdded(fat, st1, p, name, ext, data)
  OBVIOUS
<1>03. PICK s0 : s0 = CHOOSE t \in Slots : NewSlot(st, p, t)
  OBVIOUS
<1> DEFINE size == Cardinality(DOMAIN data)
           a0   == CHOOSE b \in FirstFit(FreeClusters(fat), size) : TRUE
           e0   == Entry(name, ext, FALSE, IF DOMAIN a0 = {} THEN 0 ELSE a0[0], size)
           F    == Filled(st, a0, data)
           G    == Filled(st1, a0, data)
<1>1. /\ Types(fat, st1) /\ st1[p] = r[p] /\ st1[p].kind = "dir"
      /\ \A c \in Clusters : c # p => st1[c] = st[c]
      /\ Table(st1, p) = Table(st, p) /\ Used(st1, p) = Used(st, p)
      /\ st[p].kind = "zeros" \/ (st[p].kind = "dir" /\ st[p].up \in Clusters)
      /\ WriteCheck(fat, st1, p, name, ext) = 0
  BY <1>01, MendedFacts
<1>2. WritesFile(fat, st1, p, name, ext, n, data, new1)
  BY <1>1, <1>02, FileAddedTo
<1>3. PICK s, e, m, a :
         /\ s \in Slots /\ e \in Entries /\ m \in Nat
         /\ IsDir(fat, st1, p) /\ ~Live(fat, st1, p, s) /\ NewKey(fat, st1, p, e)
         /\ e.name = name /\ e.ext = ext /\ ~e.folder /\ e.size = n
         /\ m <= Cardinality(FreeClusters(fat))
         /\ n <= Cardinality(FreeClusters(fat)) => m = n
         /\ Added(fat, st1, p, s, e, m, a, data, new1.fat, new1.st)
  BY <1>2 DEF WritesFile
<1>4. m = n /\ m \in 1 .. CLUSTER_MAP_SIZE
  BY <1>3, FreeCount, FAT32Assumption DEF Fits
<1>5. s0 = CHOOSE t \in Slots : NewSlot(st1, p, t)
  BY <1>1, <1>03 DEF NewSlot
<1>6. s0 \in Slots
  BY <1>03, SlotFound
<1>7. /\ new.fat = new1.fat /\ new.st = SetSlot(F, p, s0, e0) /\ new1.st = SetSlot(G, p, s0, e0)
  <2>1. new = [fat |-> Chained(fat, a0), st |-> SetSlot(F, p, s0, e0)]
    BY <1>03 DEF FileAdded
  <2>2. new1 = [fat |-> Chained(fat, a0), st |-> SetSlot(G, p, s0, e0)]
    BY <1>02, <1>5 DEF FileAdded
  <2> QED BY <2>1, <2>2
<1>8. new1.st \in [Clusters -> Blocks] /\ new1.st[p].kind = "dir"
  BY <1>3 DEF Added, Types
<1>9. /\ \A c \in Clusters : c # p => F[c] = G[c]
      /\ F[p] = G[p] \/ (F[p] = st[p] /\ G[p] = st1[p])
  BY <1>1 DEF Filled
<1> HIDE DEF F, G, e0
<1>10. \/ F[p] = G[p]
       \/ /\ G[p].kind = "dir" /\ Table(G, p) = Table(F, p)
          /\ F[p].kind = "zeros" \/ (F[p].kind = "dir" /\ F[p].up \in Clusters)
  <2>1. CASE F[p] = st[p] /\ G[p] = st1[p]
    <3>1. Table(G, p) = Table(st1, p) /\ Table(F, p) = Table(st, p)
      BY <2>1 DEF Table
    <3> QED BY <1>1, <2>1, <3>1
  <2> QED BY <1>9, <2>1
<1>11. /\ new.st \in [Clusters -> Blocks]
       /\ \A c \in Clusters : c # p => new.st[c] = new1.st[c]
       /\ new.st[p].kind = "dir" /\ new.st[p].table = new1.st[p].table
  <2>1. SetSlot(G, p, s0, e0) \in [Clusters -> Blocks] /\ SetSlot(G, p, s0, e0)[p].kind = "dir"
    BY <1>7, <1>8
  <2> QED BY <1>6, <1>7, <1>9, <1>10, <2>1, SetSlotMended
<1>12. Good(new.fat, new.st) /\ Grown(fat, st, p, s, e, m, a, new.fat, new.st)
  <2>1. Added(fat, st1, p, s, e, m, a, data, new.fat, new1.st)
    BY <1>3, <1>7
  <2> QED BY <1>3, <1>4, <1>01, <1>11, <2>1, AddKept
<1> QED BY <1>3, <1>12

\* Making a folder.
LEMMA FolderWritten ==
    ASSUME NEW fat, NEW st, NEW f, NEW r, Types(fat, st), Kept(fat, st, f, r), Tidy(f, r),
           NEW p \in Clusters, IsDir(f, r, p), NEW name \in Names, NEW ext \in Exts,
           WriteCheck(fat, st, p, name, ext) = 0, ~FullDisk, Fits(fat, 1),
           NEW new, new = FolderAdded(fat, st, p, name, ext)
    PROVE  /\ Good(new.fat, new.st)
           /\ \E s, e, m, a : /\ Grown(fat, st, p, s, e, m, a, new.fat, new.st)
                              /\ e.name = name /\ e.ext = ext
<1>01. PICK st1 \in [Clusters -> Blocks] :
          st1[p] = r[p] /\ \A c \in Clusters : c # p => st1[c] = st[c]
  <2>1. [st EXCEPT ![p] = r[p]] \in [Clusters -> Blocks]
    BY DEF Tidy, Sound, Types
  <2> QED BY <2>1 DEF Types
<1>02. PICK new1 : new1 = FolderAdded(fat, st1, p, name, ext)
  OBVIOUS
<1>03. PICK s0 : s0 = CHOOSE t \in Slots : NewSlot(st, p, t)
  OBVIOUS
<1> DEFINE free == FreeClusters(fat)
           c0   == CHOOSE d \in free : IsFirst(free, d)
           e0   == Entry(name, ext, TRUE, c0, 0)
           F    == [st EXCEPT ![c0] = EmptyDirectory(p)]
           G    == [st1 EXCEPT ![c0] = EmptyDirectory(p)]
<1>0. free # {} /\ c0 \in Clusters
  <2>1. free # {}
    BY FreeCount DEF Fits
  <2>2. c0 \in free
    BY <2>1, FreeFacts, LeastMember
  <2> HIDE DEF c0, free
  <2> QED BY <2>1, <2>2, FreeFacts DEF free
<1>1. /\ Types(fat, st1) /\ st1[p] = r[p] /\ st1[p].kind = "dir"
      /\ \A c \in Clusters : c # p => st1[c] = st[c]
      /\ Table(st1, p) = Table(st, p) /\ Used(st1, p) = Used(st, p)
      /\ st[p].kind = "zeros" \/ (st[p].kind = "dir" /\ st[p].up \in Clusters)
      /\ WriteCheck(fat, st1, p, name, ext) = 0
  BY <1>01, MendedFacts
<1>3. PICK s, e, m, a, b :
         /\ s \in Slots /\ e \in Entries /\ m \in Nat
         /\ IsDir(fat, st1, p) /\ ~Live(fat, st1, p, s) /\ NewKey(fat, st1, p, e)
         /\ e.name = name /\ e.ext = ext
         /\ e.folder <=> FreeClusters(fat) # {}
         /\ Added(fat, st1, p, s, e, m, a, b, new1.fat, new1.st)
  BY <1>1, <1>02, FolderAddedTo
<1>4. e.folder /\ m = 1 /\ m \in 1 .. CLUSTER_MAP_SIZE
  BY <1>0, <1>3, FAT32Assumption DEF Added
<1>5. s0 = CHOOSE t \in Slots : NewSlot(st1, p, t)
  BY <1>1, <1>03 DEF NewSlot
<1>6. s0 \in Slots
  BY <1>03, SlotFound
<1>7. /\ new.fat = new1.fat /\ new.st = SetSlot(F, p, s0, e0) /\ new1.st = SetSlot(G, p, s0, e0)
  BY <1>0, <1>02, <1>03, <1>5 DEF FolderAdded
<1>8. new1.st \in [Clusters -> Blocks] /\ new1.st[p].kind = "dir"
  BY <1>3 DEF Added, Types
<1> HIDE DEF c0
<1>9. /\ \A c \in Clusters : c # p => F[c] = G[c]
      /\ F[p] = G[p] \/ (F[p] = st[p] /\ G[p] = st1[p])
  BY <1>0, <1>1 DEF Types
<1> HIDE DEF F, G, e0
<1>10. \/ F[p] = G[p]
       \/ /\ G[p].kind = "dir" /\ Table(G, p) = Table(F, p)
          /\ F[p].kind = "zeros" \/ (F[p].kind = "dir" /\ F[p].up \in Clusters)
  <2>1. CASE F[p] = st[p] /\ G[p] = st1[p]
    <3>1. Table(G, p) = Table(st1, p) /\ Table(F, p) = Table(st, p)
      BY <2>1 DEF Table
    <3> QED BY <1>1, <2>1, <3>1
  <2> QED BY <1>9, <2>1
<1>11. /\ new.st \in [Clusters -> Blocks]
       /\ \A c \in Clusters : c # p => new.st[c] = new1.st[c]
       /\ new.st[p].kind = "dir" /\ new.st[p].table = new1.st[p].table
  <2>1. SetSlot(G, p, s0, e0) \in [Clusters -> Blocks] /\ SetSlot(G, p, s0, e0)[p].kind = "dir"
    BY <1>7, <1>8
  <2> QED BY <1>6, <1>7, <1>9, <1>10, <2>1, SetSlotMended
<1>12. Good(new.fat, new.st) /\ Grown(fat, st, p, s, e, m, a, new.fat, new.st)
  <2>1. Added(fat, st1, p, s, e, m, a, b, new.fat, new1.st)
    BY <1>3, <1>7
  <2> QED BY <1>3, <1>4, <1>01, <1>11, <2>1, AddKept
<1> QED BY <1>3, <1>12

-----------------------------------------------------------------------------
(* The writes of a call. *)

\* W writes table fat2 and the clusters of X, as they are in st2.
Puts(W, fat2, st2, X) ==
    /\ W \in Seq(Writes)
    /\ \A i \in 1 .. Len(W) :
          \/ W[i].at = 1 /\ W[i].is = fat2
          \/ W[i].at \in X /\ W[i].is = st2[W[i].at]
    /\ \A c \in X \cup {1} : \E i \in 1 .. Len(W) : W[i].at = c

\* Such writes leave fat2 and st2.
LEMMA PutsLeave ==
    ASSUME NEW W, NEW fat, NEW st, NEW fat2, NEW st2, NEW X \in SUBSET (Clusters \ {0, 1}),
           Puts(W, fat2, st2, X), \A c \in Clusters \ X : st2[c] = st[c]
    PROVE  /\ Leaves(W, 1, fat, fat2)
           /\ \A c \in Clusters \ {0, 1} : Leaves(W, c, st[c], st2[c])
           /\ \A x : Leaves(W, 0, x, x)
<1>1. W \in Seq(Writes)
  BY DEF Puts
<1>2. Leaves(W, 1, fat, fat2)
  <2>1. \A i \in 1 .. Len(W) : W[i].at = 1 => W[i].is = fat2
    BY DEF Puts
  <2>2. \E i \in 1 .. Len(W) : W[i].at = 1
    BY DEF Puts
  <2> QED BY <1>1, <2>1, <2>2, LeavesWritten
<1>3. ASSUME NEW c \in Clusters \ {0, 1} PROVE Leaves(W, c, st[c], st2[c])
  <2>1. \A i \in 1 .. Len(W) : W[i].at = c => W[i].is = st2[c]
    BY DEF Puts
  <2>2. st[c] = st2[c] \/ \E i \in 1 .. Len(W) : W[i].at = c
    BY DEF Puts
  <2> QED BY <1>1, <2>1, <2>2, LeavesWritten
<1>4. ASSUME NEW x PROVE Leaves(W, 0, x, x)
  <2>1. \A i \in 1 .. Len(W) : W[i].at = 0 => W[i].is = x
    BY DEF Puts
  <2> QED BY <1>1, <2>1, LeavesWritten
<1> QED BY <1>2, <1>3, <1>4

\* Kinds of writes.
LEMMA WriteFacts ==
    /\ \A c \in Clusters \ {0, 1}, b \in Blocks :
          Put(c, b) \in Writes /\ Put(c, b).at = c /\ Put(c, b).is = b
    /\ \A fat \in [Clusters -> FatValues] :
          PutTable(fat) \in Writes /\ PutTable(fat).at = 1 /\ PutTable(fat).is = fat
    /\ PutSignature \in Writes /\ PutSignature.at = 0 /\ PutSignature.is = TRUE
    /\ \A w \in Writes :
          /\ w.at = 0 => w.is = TRUE
          /\ w.at = 1 => w.is \in [Clusters -> FatValues]
          /\ w.at \notin {0, 1} => w.at \in Clusters /\ w.is \in Blocks
<1>1. \A c \in Clusters \ {0, 1}, b \in Blocks :
         Put(c, b) \in Writes /\ Put(c, b).at = c /\ Put(c, b).is = b
  BY DEF Writes, Put
<1>2. \A fat \in [Clusters -> FatValues] :
         PutTable(fat) \in Writes /\ PutTable(fat).at = 1 /\ PutTable(fat).is = fat
  BY DEF Writes, PutTable
<1>3. PutSignature \in Writes /\ PutSignature.at = 0 /\ PutSignature.is = TRUE
  BY DEF Writes, PutSignature
<1>4. ASSUME NEW w \in Writes
      PROVE  /\ w.at = 0 => w.is = TRUE
             /\ w.at = 1 => w.is \in [Clusters -> FatValues]
             /\ w.at \notin {0, 1} => w.at \in Clusters /\ w.is \in Blocks
  <2>1. CASE w \in [at : {0}, is : {TRUE}]
    <3>1. w.at = 0
      BY <2>1
    <3>2. w.is \in {TRUE}
      BY <2>1, Zenon
    <3>3. w.is = TRUE
      BY <3>2, Zenon
    <3> QED BY <3>1, <3>3
  <2>2. CASE w \in [at : {1}, is : [Clusters -> FatValues]]
    BY <2>2
  <2>3. CASE w \in [at : Clusters \ {0, 1}, is : Blocks]
    BY <2>3
  <2> QED BY <2>1, <2>2, <2>3 DEF Writes
<1> QED BY <1>1, <1>2, <1>3, <1>4

\* W is the m writes V, the table of directory p, and the allocation table.
Committed(W, m, V, fat2, st2, p) ==
    /\ W \in Seq(Writes) /\ Len(W) = m + 2
    /\ \A k \in 1 .. m : W[k] = V[k]
    /\ W[m + 1] = Put(p, st2[p]) /\ W[m + 2] = PutTable(fat2)

LEMMA CommitParts ==
    ASSUME NEW m \in Nat, NEW V \in [1 .. m -> Writes], NEW fat2, NEW st2, Types(fat2, st2),
           NEW p \in Clusters \ {0, 1}
    PROVE  Committed(V \o Commit(fat2, st2, p), m, V, fat2, st2, p)
<1> DEFINE E == Commit(fat2, st2, p)
           W == V \o E
<1>0. fat2 \in [Clusters -> FatValues] /\ st2[p] \in Blocks /\ p \in Clusters \ {0, 1}
  BY DEF Types
<1>1. V \in Seq(Writes)
  BY SeqDef
<1>2. Len(V) = m
  BY <1>1, LenProperties
<1>3. Put(p, st2[p]) \in Writes /\ PutTable(fat2) \in Writes
  BY <1>0, WriteFacts
<1>4. E \in Seq(Writes) /\ Len(E) = 2 /\ E[1] = Put(p, st2[p]) /\ E[2] = PutTable(fat2)
  BY <1>3 DEF Commit
<1>5. W = V \o E
  OBVIOUS
<1> HIDE DEF E
<1>6. /\ V \o E \in Seq(Writes) /\ Len(V \o E) = Len(V) + Len(E)
      /\ \A i \in 1 .. Len(V) + Len(E) :
            (V \o E)[i] = IF i <= Len(V) THEN V[i] ELSE E[i - Len(V)]
  BY <1>1, <1>4, ConcatWrites
<1> HIDE DEF W
<1>7. /\ W \in Seq(Writes) /\ Len(W) = m + 2
      /\ \A i \in 1 .. m + 2 : W[i] = IF i <= m THEN V[i] ELSE E[i - m]
  BY <1>2, <1>4, <1>5, <1>6, Zenon
<1>8. \A k \in 1 .. m : W[k] = V[k]
  BY <1>7
<1>9. W[m + 1] = Put(p, st2[p]) /\ W[m + 2] = PutTable(fat2)
  <2>1. m + 1 \in 1 .. m + 2 /\ m + 2 \in 1 .. m + 2 /\ ~(m + 1 <= m) /\ ~(m + 2 <= m)
        /\ (m + 1) - m = 1 /\ (m + 2) - m = 2
    OBVIOUS
  <2> QED BY <1>4, <1>7, <2>1
<1>10. Committed(W, m, V, fat2, st2, p)
  BY <1>7, <1>8, <1>9 DEF Committed
<1> QED BY <1>10 DEF W, E

\* When the writes that come first are those of the other clusters of X.
LEMMA CommitOrder ==
    ASSUME NEW m \in Nat, NEW fat2, NEW st2, Types(fat2, st2),
           NEW X \in SUBSET (Clusters \ {0, 1}), NEW p \in X,
           NEW W \in Seq(Writes), Len(W) = m + 2,
           W[m + 1] = Put(p, st2[p]), W[m + 2] = PutTable(fat2),
           \A k \in 1 .. m : W[k].at \in X /\ W[k].is = st2[W[k].at],
           \A c \in X : c # p => \E k \in 1 .. m : W[k].at = c
    PROVE  Puts(W, fat2, st2, X)
<1>1. /\ Put(p, st2[p]).at = p /\ Put(p, st2[p]).is = st2[p]
      /\ PutTable(fat2).at = 1 /\ PutTable(fat2).is = fat2
  BY DEF Put, PutTable
<1>2. /\ \A i \in 1 .. m + 2 : i \in 1 .. m \/ i = m + 1 \/ i = m + 2
      /\ m + 1 \in 1 .. m + 2 /\ m + 2 \in 1 .. m + 2
      /\ \A i \in 1 .. m : i \in 1 .. m + 2
  OBVIOUS
<1>3. \A i \in 1 .. m + 2 :
          \/ W[i].at = 1 /\ W[i].is = fat2
          \/ W[i].at \in X /\ W[i].is = st2[W[i].at]
  BY <1>1, <1>2
<1>4. \A c \in X \cup {1} : \E i \in 1 .. m + 2 : W[i].at = c
  <2> SUFFICES ASSUME NEW c \in X \cup {1} PROVE \E i \in 1 .. m + 2 : W[i].at = c
    OBVIOUS
  <2>1. CASE c = 1
    BY <1>1, <1>2, <2>1
  <2>2. CASE c = p
    BY <1>1, <1>2, <2>2
  <2>3. CASE c # 1 /\ c # p
    BY <1>2, <2>3
  <2> QED BY <2>1, <2>2, <2>3
<1> QED BY <1>3, <1>4 DEF Puts

\* The entry and the chain that a write finds again are the new ones.
LEMMA GrownEntry ==
    ASSUME NEW fat, NEW st, NEW p \in Clusters, NEW s, NEW e, NEW m, NEW a, NEW fat2, NEW st2,
           Grown(fat, st, p, s, e, m, a, fat2, st2)
    PROVE  EntryOf(st2, p, e.name, e.ext) = e
<1>1. s \in Slots /\ s \in Nat /\ e \in Entries /\ e # NoEntry
  BY ClusterFacts, NoEntryAssumption DEF Grown
<1>2. Table(st2, p) = st2[p].table
  BY DEF Grown, Table
<1>3. \A t \in Slots : Table(st2, p)[t] = IF t = s THEN e ELSE Table(st, p)[t]
  BY <1>2 DEF Grown
<1>4. Matching(st2, p, e.name, e.ext) = {s}
  <2>1. s \in Matching(st2, p, e.name, e.ext)
    BY <1>1, <1>3 DEF Matching, Used
  <2>2. ASSUME NEW t \in Matching(st2, p, e.name, e.ext), t # s PROVE FALSE
    <3>1. t \in Matching(st, p, e.name, e.ext)
      BY <1>3, <2>2 DEF Matching, Used
    <3> QED BY <3>1 DEF Grown
  <2> QED BY <2>1, <2>2
<1>5. IsFirst({s}, s) /\ \A t \in {s} : t = s
  BY <1>1 DEF IsFirst
<1>6. (CHOOSE t \in {s} : IsFirst({s}, t)) = s
  BY <1>5
<1>7. EntryOf(st2, p, e.name, e.ext) = Table(st2, p)[s]
  BY <1>4, <1>6 DEF EntryOf
<1> QED BY <1>1, <1>3, <1>7

LEMMA GrownChain ==
    ASSUME NEW fat, NEW st, NEW p \in Clusters, NEW s, NEW e, NEW m, NEW a, NEW fat2, NEW st2,
           Grown(fat, st, p, s, e, m, a, fat2, st2)
    PROVE  ChainOf(fat2, e) = [k \in 1 .. m |-> a[k - 1]]
<1> DEFINE at == Walk(fat2, e.cluster)
           Ends(k) == at[k] = EOF /\ \A j \in 0 .. k - 1 : at[j] # EOF
<1>1. /\ m \in 1 .. CLUSTER_MAP_SIZE /\ m \in Nat /\ e.cluster = a[0]
      /\ \A k \in 0 .. m - 1 : fat2[a[k]] = IF k = m - 1 THEN EOF ELSE a[k + 1]
      /\ CLUSTER_MAP_SIZE \in Nat
  BY FAT32Assumption DEF Grown
<1>2. a \in [0 .. m - 1 -> DataClusters]
  BY FreeFacts DEF Grown
<1>3. Chain(fat2, e.cluster, m, a)
  BY <1>1, <1>2 DEF Chain
<1>4. /\ at[m] = EOF
      /\ \A k \in 0 .. CLUSTER_MAP_SIZE : IF k < m THEN at[k] = a[k] ELSE at[k] = EOF
  BY <1>3, WalkOnChain
<1>5. DOMAIN at = 0 .. CLUSTER_MAP_SIZE
  BY WalkTurns
<1> HIDE DEF at
<1>6. \A k \in 0 .. m - 1 : a[k] \in Clusters /\ a[k] # EOF /\ k < m /\ k \in 0 .. CLUSTER_MAP_SIZE
  <2>1. \A k \in 0 .. m - 1 : k < m /\ k \in 0 .. CLUSTER_MAP_SIZE
    BY <1>1
  <2>2. \A c \in DataClusters : c \in Clusters /\ c # EOF
    BY ClusterFacts
  <2> QED BY <1>2, <2>1, <2>2
<1>7. \A k \in 0 .. m - 1 : at[k] = a[k] /\ at[k] # EOF
  BY <1>4, <1>6
<1>8. m \in DOMAIN at /\ Ends(m)
  BY <1>1, <1>4, <1>5, <1>7
<1>9. ASSUME NEW k \in DOMAIN at, Ends(k) PROVE k = m
  <2>1. CASE k < m
    BY <1>1, <1>5, <1>7, <1>9, <2>1
  <2>2. CASE k > m
    <3>1. m \in 0 .. k - 1
      BY <1>1, <1>5, <2>2
    <3> QED BY <1>4, <1>9, <3>1
  <2> QED BY <1>1, <1>5, <2>1, <2>2
<1>10. (CHOOSE k \in DOMAIN at : Ends(k)) = m
  <2> HIDE DEF Ends
  <2> QED BY <1>8, <1>9
<1>11. ChainOf(fat2, e) = [k \in 1 .. m |-> at[k - 1]]
  BY <1>10 DEF ChainOf, at
<1>12. \A k \in 1 .. m : at[k - 1] = a[k - 1]
  BY <1>1, <1>7
<1> QED BY <1>11, <1>12

\* So it writes the new clusters and the end.
LEMMA GrownOrder ==
    ASSUME NEW fat, NEW st, NEW p \in Clusters \ {0, 1}, NEW s, NEW e, NEW m, NEW a,
           NEW fat2, NEW st2, Grown(fat, st, p, s, e, m, a, fat2, st2)
    PROVE  Puts(WriteOrder(fat2, st2, p, e.name, e.ext), fat2, st2, Taken(m, a) \cup {p})
<1> DEFINE B == IF e.folder THEN <<e.cluster>> ELSE ChainOf(fat2, e)
           V == [k \in DOMAIN B |-> Put(B[k], st2[B[k]])]
           X == Taken(m, a) \cup {p}
<1>1. /\ m \in 1 .. CLUSTER_MAP_SIZE /\ m \in Nat /\ e.cluster = a[0] /\ (e.folder => m = 1)
      /\ Types(fat2, st2) /\ CLUSTER_MAP_SIZE \in Nat
  BY FAT32Assumption DEF Grown
<1>2. \A k \in 0 .. m - 1 : a[k] \in Clusters \ {0, 1} /\ a[k] \in Taken(m, a)
  <2>1. \A k \in 0 .. m - 1 : a[k] \in DataClusters
    BY FreeFacts DEF Grown
  <2> QED BY <2>1, ClusterFacts DEF Taken
<1>3. DOMAIN B = 1 .. m /\ \A k \in 1 .. m : B[k] = a[k - 1] /\ k - 1 \in 0 .. m - 1
  <2>1. CASE e.folder
    <3>1. B = <<a[0]>> /\ m = 1
      BY <1>1, <2>1
    <3>2. \A k \in 1 .. 1 : k = 1 /\ k - 1 = 0 /\ k - 1 \in 0 .. 1 - 1
      OBVIOUS
    <3> HIDE DEF B
    <3> QED BY <3>1, <3>2
  <2>2. CASE ~e.folder
    <3>1. B = [k \in 1 .. m |-> a[k - 1]]
      BY <2>2, GrownChain
    <3> HIDE DEF B
    <3> QED BY <1>1, <3>1
  <2> QED BY <2>1, <2>2
<1>4. WriteOrder(fat2, st2, p, e.name, e.ext) = V \o Commit(fat2, st2, p)
  BY GrownEntry DEF WriteOrder
<1> HIDE DEF B
<1>5. \A k \in 1 .. m : /\ V[k] \in Writes /\ V[k].at = a[k - 1] /\ V[k].is = st2[a[k - 1]]
                        /\ a[k - 1] \in Taken(m, a)
  <2> SUFFICES ASSUME NEW k \in 1 .. m
               PROVE  /\ V[k] \in Writes /\ V[k].at = a[k - 1] /\ V[k].is = st2[a[k - 1]]
                      /\ a[k - 1] \in Taken(m, a)
    OBVIOUS
  <2>1. V[k] = Put(a[k - 1], st2[a[k - 1]]) /\ a[k - 1] \in Clusters \ {0, 1}
        /\ a[k - 1] \in Taken(m, a)
    BY <1>2, <1>3
  <2>2. st2[a[k - 1]] \in Blocks
    BY <1>1, <2>1 DEF Types
  <2> HIDE DEF V
  <2> QED BY <2>1, <2>2, WriteFacts
<1>6. V \in [1 .. m -> Writes]
  <2>1. V = [k \in 1 .. m |-> V[k]]
    BY <1>3
  <2> HIDE DEF V
  <2> QED BY <1>5, <2>1
<1> HIDE DEF V
<1>7. X \in SUBSET (Clusters \ {0, 1}) /\ p \in X
  BY <1>2 DEF Taken
<1> DEFINE W == V \o Commit(fat2, st2, p)
<1>8. Committed(W, m, V, fat2, st2, p) /\ W = V \o Commit(fat2, st2, p)
  BY <1>1, <1>6, CommitParts
<1> HIDE DEF W
<1>8a. /\ W \in Seq(Writes) /\ Len(W) = m + 2
       /\ \A k \in 1 .. m : W[k] = V[k]
       /\ W[m + 1] = Put(p, st2[p]) /\ W[m + 2] = PutTable(fat2)
  BY <1>8 DEF Committed
<1>8b. \A k \in 1 .. m : W[k].at \in X /\ W[k].is = st2[W[k].at]
  BY <1>5, <1>8a
<1>9. ASSUME NEW c \in X, c # p PROVE \E k \in 1 .. m : W[k].at = c
  <2>1. PICK j \in 0 .. m - 1 : c = a[j]
    BY <1>9 DEF Taken
  <2>2. j + 1 \in 1 .. m /\ (j + 1) - 1 = j
    BY <1>1
  <2> QED BY <1>5, <1>8a, <2>1, <2>2
<1> HIDE DEF X
<1>10. Puts(W, fat2, st2, X)
  BY <1>1, <1>7, <1>8a, <1>8b, <1>9, CommitOrder
<1> QED BY <1>4, <1>8, <1>10 DEF X

-----------------------------------------------------------------------------
(* The writes of a deletion. *)

\* Slot s of folder p, below which are the clusters C, is deleted from what fat and
\* st keep.
Deletes(fat, st, f, r, p, s, C) ==
    /\ Types(fat, st) /\ Kept(fat, st, f, r) /\ Tidy(f, r)
    /\ p \in Clusters /\ s \in Slots /\ Live(f, r, p, s)
    /\ C = Reach(f, r, r[p].table[s].cluster)

\* What is in a folder of S is in Z.
BelowIn(f, r, S, Z) ==
    \A d \in S, t \in Slots : Live(f, r, d, t) => r[d].table[t].cluster \in Z

\* The writes W are left of it, the clusters of Z having been zeroed: what is in a
\* folder is always zeroed before it.
ZeroingLeft(W, fat, st, f, r, p, s, C, Z, pst) ==
    /\ Len(W) >= 2
    /\ W[Len(W)] = PutTable(FreedTable(fat, C))
    /\ W[Len(W) - 1] = Put(p, Erased(st, C, p, s)[p])
    /\ Z \subseteq C
    /\ \A j \in 1 .. Len(W) - 2 : W[j].at \in C /\ W[j].is = Zeros
    /\ \A c \in C : c \in Z \/ \E j \in 1 .. Len(W) - 2 : W[j].at = c
    /\ BelowIn(f, r, Z, Z)
    /\ \A j \in 1 .. Len(W) - 2 :
          BelowIn(f, r, {W[j].at}, Z \cup {W[i].at : i \in 1 .. j - 1})
    /\ \A c \in Clusters : pst[c] = IF c \in Z THEN Zeros ELSE st[c]

\* The allocation table is left.
TableLeft(W, fat, st, p, s, C, pst) ==
    /\ Len(W) = 1 /\ W[1] = PutTable(FreedTable(fat, C))
    /\ pst = Erased(st, C, p, s)

DeleteLeft(W, fat, pst) ==
    \E st, f, r, p, s, C, Z :
        /\ Deletes(fat, st, f, r, p, s, C)
        /\ \/ ZeroingLeft(W, fat, st, f, r, p, s, C, Z, pst)
           \/ TableLeft(W, fat, st, p, s, C, pst)

\* What a deletion works on.
LEMMA DeletesFacts ==
    ASSUME NEW fat, NEW st, NEW f, NEW r, NEW p, NEW s, NEW C, Deletes(fat, st, f, r, p, s, C)
    PROVE  /\ p \in DataClusters \cup {ROOT_CLUSTER_NUMBER} /\ p \in Clusters \ {0, 1}
           /\ C \in SUBSET DataClusters /\ p \notin C /\ C \cup {p} \in SUBSET (Clusters \ {0, 1})
           /\ st[p].kind = "dir" /\ Types(f, r)
           /\ Types(FreedTable(fat, C), Erased(st, C, p, s))
           /\ \A c \in C : Erased(st, C, p, s)[c] = Zeros
           /\ \A c \in Clusters \ (C \cup {p}) : Erased(st, C, p, s)[c] = st[c]
           /\ Reach(fat, st, r[p].table[s].cluster) = C
           /\ r[p].table[s] = Table(st, p)[s]
<1>1. /\ Types(fat, st) /\ Kept(fat, st, f, r) /\ Tidy(f, r) /\ p \in Clusters /\ s \in Slots
      /\ Live(f, r, p, s) /\ C = Reach(f, r, r[p].table[s].cluster)
  BY DEF Deletes
<1>2. Types(f, r) /\ Reserved(f, r)
  BY <1>1 DEF Tidy, Sound
<1>3. p \notin {0, 1}
  BY <1>1, <1>2 DEF Live, IsDir, Reserved
<1>4. C \in SUBSET DataClusters /\ p \notin C
  BY <1>1, BelowEntry
<1>5. Live(f, r, p, s) => IsDir(f, r, p) /\ s \in Used(st, p) /\ r[p].table[s] = Table(st, p)[s]
  BY <1>1, <1>2, KeptFacts
<1>6. st[p].kind = "dir" /\ r[p].table[s] = Table(st, p)[s]
  BY <1>1, <1>5 DEF Used, Table
<1>7. st \in [Clusters -> Blocks] /\ fat \in [Clusters -> FatValues] /\ C \in SUBSET Clusters
  BY <1>1, <1>4, ClusterFacts DEF Types
<1>8. /\ Erased(st, C, p, s) \in [Clusters -> Blocks]
      /\ \A c \in C : Erased(st, C, p, s)[c] = Zeros
      /\ \A c \in Clusters \ C : c # p => Erased(st, C, p, s)[c] = st[c]
  <2>1. p \in Clusters /\ s \in Slots /\ p \notin C
    BY <1>1, <1>4
  <2>2. st \in [Clusters -> Blocks] /\ C \in SUBSET Clusters
    BY <1>7
  <2>3. st[p].kind = "dir"
    BY <1>6
  <2> DEFINE st2 == Erased(st, C, p, s)
  <2>4. /\ st2 \in [Clusters -> Blocks]
        /\ \A c \in C : st2[c] = Zeros
        /\ \A c \in Clusters \ C : c # p => st2[c] = st[c]
        /\ st2[p].kind = "dir"
        /\ st2[p].table = [t \in Slots |-> IF t = s THEN NoEntry ELSE st[p].table[t]]
    BY <2>1, <2>2, <2>3, ErasedBlocks
  <2> QED BY <2>4
<1>9. FreedTable(fat, C) \in [Clusters -> FatValues]
  BY <1>7, ClusterFacts DEF FreedTable, FatValues, EMPTY
<1>10. Reach(fat, st, r[p].table[s].cluster) = C
  BY <1>1, BelowKept
<1>11. p \in DataClusters \cup {ROOT_CLUSTER_NUMBER} /\ C \cup {p} \in SUBSET (Clusters \ {0, 1})
  BY <1>1, <1>3, <1>4, ClusterFacts DEF ROOT_CLUSTER_NUMBER
<1> QED BY <1>1, <1>2, <1>3, <1>4, <1>6, <1>8, <1>9, <1>10, <1>11 DEF Types

\* What is in a folder that is deleted is zeroed before it.
LEMMA ChildrenBefore ==
    ASSUME NEW fat, NEW st, NEW f, NEW r, NEW p, NEW s, NEW C, Deletes(fat, st, f, r, p, s, C),
           NEW d \in C, NEW t \in Slots, Live(f, r, d, t), NEW y, y = r[d].table[t].cluster
    PROVE  y \in C /\ ZeroedBefore(fat, st, C, y, d)
<1>1. /\ Types(fat, st) /\ Kept(fat, st, f, r) /\ Tidy(f, r) /\ p \in Clusters /\ s \in Slots
      /\ Live(f, r, p, s) /\ C = Reach(f, r, r[p].table[s].cluster) /\ Sound(f, r)
  BY DEF Deletes, Tidy
<1>2. Types(f, r) /\ C \in SUBSET DataClusters /\ d \in Clusters
  BY DeletesFacts, ClusterFacts
<1>3. y \in Reach(f, r, y) /\ d \notin Reach(f, r, y)
  BY <1>1, <1>2, BelowEntry
<1>4. y \in DataClusters
  BY <1>1, <1>2, <1>3, BelowEntry
<1>5. Ref(f, r, d, t) = y /\ t \in Indices
  BY ClusterFacts DEF Ref, Indices
<1>6. y \in C
  BY <1>1, <1>4, <1>5, FreedIsApart
<1>7. t \in Used(st, d) /\ r[d].table[t] = Table(st, d)[t]
  BY <1>1, <1>2, KeptFacts
<1>8. st[d].kind = "dir"
  BY <1>7 DEF Used, Table
<1>9. y \in Successors(fat, st, d)
  BY <1>7, <1>8 DEF Successors
<1>10. y \in Reach(fat, st, d)
  BY <1>1, <1>2, <1>9, ReachFacts DEF Closed
<1> QED BY <1>3, <1>6, <1>8, <1>10 DEF ZeroedBefore

\* The writes of a deletion, before the first is made.
LEMMA DeleteOrdered ==
    ASSUME NEW fat, NEW st, NEW f, NEW r, NEW p, NEW s, NEW C, Deletes(fat, st, f, r, p, s, C),
           NEW e, e = r[p].table[s], NEW fat2, fat2 = FreedTable(fat, C),
           NEW st2, st2 = Erased(st, C, p, s), NEW W \in DeleteOrders(fat, st, p, e, fat2, st2)
    PROVE  Puts(W, fat2, st2, C \cup {p}) /\ DeleteLeft(W, fat, st)
<1>1. /\ C \in SUBSET DataClusters /\ C \cup {p} \in SUBSET (Clusters \ {0, 1})
      /\ Types(fat2, st2) /\ \A c \in C : st2[c] = Zeros
      /\ Reach(fat, st, e.cluster) = C /\ p \notin C
  BY DeletesFacts
<1>2. PICK z \in ZeroingOrders(fat, st, e.cluster) :
         W = [k \in DOMAIN z |-> Put(z[k], Zeros)] \o Commit(fat2, st2, p)
  BY DEF DeleteOrders
<1> DEFINE m == Cardinality(C)
           before == {x \in C \X C : ZeroedBefore(fat, st, C, x[1], x[2])}
<1>3. /\ z \in [1 .. m -> C] /\ Range(z) = C
      /\ \A i, j \in DOMAIN z : <<z[i], z[j]>> \in before => i < j
  BY <1>1, <1>2 DEF ZeroingOrders
<1>4. m \in Nat
  BY <1>1, ClusterFacts, FS_Subset, FS_CardinalityType
<1> HIDE DEF m
<1> DEFINE V == [k \in 1 .. m |-> Put(z[k], Zeros)]
<1>5. W = V \o Commit(fat2, st2, p)
  BY <1>2, <1>3
<1>6. \A k \in 1 .. m : V[k] \in Writes /\ V[k].at = z[k] /\ V[k].is = Zeros /\ z[k] \in C
  <2> SUFFICES ASSUME NEW k \in 1 .. m
               PROVE  V[k] \in Writes /\ V[k].at = z[k] /\ V[k].is = Zeros /\ z[k] \in C
    OBVIOUS
  <2>1. z[k] \in C /\ z[k] \in Clusters \ {0, 1} /\ V[k] = Put(z[k], Zeros)
    BY <1>1, <1>3
  <2> HIDE DEF V
  <2> QED BY <2>1, WriteFacts, BlockFacts
<1>7. V \in [1 .. m -> Writes]
  <2>1. V = [k \in 1 .. m |-> V[k]]
    OBVIOUS
  <2> HIDE DEF V
  <2> QED BY <1>6, <2>1
<1> HIDE DEF V
<1>8. \A c \in C : \E k \in 1 .. m : V[k].at = c
  <2>1. \A c \in C : \E k \in 1 .. m : z[k] = c
    BY <1>3 DEF Range
  <2> QED BY <1>6, <2>1
<1>9. /\ Puts(W, fat2, st2, C \cup {p}) /\ Len(W) = m + 2
      /\ \A k \in 1 .. m : W[k] = V[k]
      /\ W[m + 1] = Put(p, st2[p]) /\ W[m + 2] = PutTable(fat2)
  <2> DEFINE X == C \cup {p}
  <2>1. p \in X /\ X \in SUBSET (Clusters \ {0, 1}) /\ p \in Clusters /\ p # 0 /\ p # 1
    BY <1>1
  <2>2. /\ W \in Seq(Writes) /\ Len(W) = m + 2
        /\ \A k \in 1 .. m : W[k] = V[k]
        /\ W[m + 1] = Put(p, st2[p]) /\ W[m + 2] = PutTable(fat2)
    <3>1. Committed(V \o Commit(fat2, st2, p), m, V, fat2, st2, p)
      BY <1>1, <1>4, <1>7, <2>1, CommitParts
    <3> QED BY <1>5, <3>1 DEF Committed
  <2>3. \A k \in 1 .. m : W[k].at \in X /\ W[k].is = st2[W[k].at]
    BY <1>1, <1>6, <2>2
  <2>4. \A c \in X : c # p => \E k \in 1 .. m : W[k].at = c
    BY <1>8, <2>2
  <2> HIDE DEF X
  <2>5. Types(fat2, st2) /\ m \in Nat /\ p \in X /\ X \in SUBSET (Clusters \ {0, 1})
    BY <1>1, <1>4, <2>1
  <2>6. /\ W \in Seq(Writes) /\ Len(W) = m + 2
        /\ W[m + 1] = Put(p, st2[p]) /\ W[m + 2] = PutTable(fat2)
    BY <2>2
  <2>7. Puts(W, fat2, st2, X)
    BY <2>3, <2>4, <2>5, <2>6, CommitOrder
  <2> QED BY <2>2, <2>7 DEF X
<1>10. Len(W) >= 2 /\ Len(W) - 1 = m + 1 /\ Len(W) - 2 = m
  BY <1>4, <1>9
<1>11. ASSUME NEW j \in 1 .. m
       PROVE  BelowIn(f, r, {W[j].at}, {} \cup {W[i].at : i \in 1 .. j - 1})
  <2> SUFFICES ASSUME NEW t \in Slots, Live(f, r, z[j], t)
               PROVE  r[z[j]].table[t].cluster \in {W[i].at : i \in 1 .. j - 1}
    BY <1>6, <1>9 DEF BelowIn
  <2> DEFINE y == r[z[j]].table[t].cluster
  <2>1. z[j] \in C
    BY <1>6
  <2>2. y \in C /\ ZeroedBefore(fat, st, C, y, z[j])
    BY <2>1, ChildrenBefore
  <2> HIDE DEF y
  <2>3. PICK i \in 1 .. m : z[i] = y
    BY <1>3, <2>2 DEF Range
  <2>4. <<z[i], z[j]>> \in before
    BY <2>1, <2>2, <2>3
  <2>5. i < j
    BY <1>3, <2>4
  <2>6. i \in 1 .. j - 1
    BY <1>4, <2>5
  <2>7. W[i].at = y
    BY <1>6, <1>9, <2>3
  <2> QED BY <2>6, <2>7 DEF y
<1>12. ZeroingLeft(W, fat, st, f, r, p, s, C, {}, st)
  <2>1. \A j \in 1 .. m : W[j].at \in C /\ W[j].is = Zeros
    BY <1>6, <1>9
  <2>2. \A c \in C : \E j \in 1 .. m : W[j].at = c
    BY <1>8, <1>9
  <2>3. BelowIn(f, r, {}, {})
    BY DEF BelowIn
  <2> QED BY <1>9, <1>10, <1>11, <2>1, <2>2, <2>3 DEF ZeroingLeft
<1> QED BY <1>9, <1>12 DEF DeleteLeft

\* The next write of a deletion, when it is not the last.
LEMMA DeleteNext ==
    ASSUME NEW W \in Seq(Writes), NEW fat, NEW pst \in [Clusters -> Blocks],
           DeleteLeft(W, fat, pst), Len(W) # 1
    PROVE  /\ W # <<>> /\ W[1].at \notin {0, 1}
           /\ DeleteLeft(Tail(W), fat, Holds(pst, W[1].at, W[1].is))
<1>1. PICK st, f, r, p, s, C, Z :
         /\ Deletes(fat, st, f, r, p, s, C)
         /\ ZeroingLeft(W, fat, st, f, r, p, s, C, Z, pst)
  BY DEF DeleteLeft, TableLeft
<1>2. /\ Len(W) >= 2
      /\ W[Len(W)] = PutTable(FreedTable(fat, C))
      /\ W[Len(W) - 1] = Put(p, Erased(st, C, p, s)[p])
      /\ Z \subseteq C
      /\ \A j \in 1 .. Len(W) - 2 : W[j].at \in C /\ W[j].is = Zeros
      /\ \A c \in C : c \in Z \/ \E j \in 1 .. Len(W) - 2 : W[j].at = c
      /\ BelowIn(f, r, Z, Z)
      /\ \A j \in 1 .. Len(W) - 2 :
            BelowIn(f, r, {W[j].at}, Z \cup {W[i].at : i \in 1 .. j - 1})
      /\ \A c \in Clusters : pst[c] = IF c \in Z THEN Zeros ELSE st[c]
  BY <1>1 DEF ZeroingLeft
<1>3. Len(W) \in Nat /\ W # <<>>
  BY <1>2, LenProperties, EmptySeq
<1> DEFINE V == Tail(W)
           w == W[1]
           pst2 == Holds(pst, w.at, w.is)
<1>4. Len(V) = Len(W) - 1 /\ \A i \in 1 .. Len(W) - 1 : V[i] = W[i + 1]
  BY <1>3, FirstWrite
<1> HIDE DEF V
<1>5. /\ p \in Clusters \ {0, 1} /\ C \in SUBSET Clusters /\ p \notin C /\ Types(f, r)
      /\ \A c \in C : c \in Clusters \ {0, 1}
      /\ Erased(st, C, p, s) \in [Clusters -> Blocks]
      /\ \A c \in C : Erased(st, C, p, s)[c] = Zeros
      /\ \A c \in Clusters \ (C \cup {p}) : Erased(st, C, p, s)[c] = st[c]
  <2>1. /\ p \in Clusters \ {0, 1} /\ C \in SUBSET DataClusters /\ p \notin C /\ Types(f, r)
        /\ C \cup {p} \in SUBSET (Clusters \ {0, 1})
        /\ Types(FreedTable(fat, C), Erased(st, C, p, s))
        /\ \A c \in C : Erased(st, C, p, s)[c] = Zeros
        /\ \A c \in Clusters \ (C \cup {p}) : Erased(st, C, p, s)[c] = st[c]
    BY <1>1, DeletesFacts
  <2> QED BY <2>1 DEF Types
<1>6. w.at \in Clusters => \A c \in Clusters : pst2[c] = IF c = w.at THEN w.is ELSE pst[c]
  BY DEF Holds
<1>7. CASE Len(W) = 2
  <2>1. W[1] = Put(p, Erased(st, C, p, s)[p]) /\ W[2] = PutTable(FreedTable(fat, C))
    BY <1>2, <1>7
  <2>2. w.at = p /\ w.is = Erased(st, C, p, s)[p]
    BY <2>1 DEF Put
  <2>3. Len(V) = 1 /\ V[1] = W[2]
    BY <1>4, <1>7
  <2>4. \A c \in Clusters : pst[c] = IF c \in C THEN Zeros ELSE st[c]
    <3>1. \A j \in 1 .. Len(W) - 2 : FALSE
      BY <1>7
    <3>2. Z = C
      BY <1>2, <3>1
    <3> QED BY <1>2, <3>2
  <2>5. \A c \in Clusters : pst2[c] = Erased(st, C, p, s)[c]
    BY <1>5, <1>6, <2>2, <2>4
  <2>6. pst2 = [c \in Clusters |-> pst2[c]]
    BY DEF Holds
  <2> HIDE DEF pst2
  <2>7. pst2 = Erased(st, C, p, s)
    BY <1>5, <2>5, <2>6
  <2>8. TableLeft(V, fat, st, p, s, C, pst2)
    BY <2>1, <2>3, <2>7 DEF TableLeft
  <2>9. DeleteLeft(V, fat, pst2)
    BY <1>1, <2>8 DEF DeleteLeft
  <2> QED BY <1>3, <1>5, <2>2, <2>9 DEF V, pst2
<1>8. CASE Len(W) # 2
  <2> DEFINE Y == Z \cup {w.at}
  <2>1. /\ 1 \in 1 .. Len(W) - 2 /\ Len(V) >= 2 /\ Len(V) - 2 = (Len(W) - 2) - 1
        /\ V[Len(V)] = W[Len(W)] /\ V[Len(V) - 1] = W[Len(W) - 1]
    <3>1. Len(W) >= 3
      <4>1. Len(W) >= 2 /\ Len(W) \in Nat /\ Len(W) # 2
        BY <1>2, <1>3, <1>8
      <4>2. \A n \in Nat : n >= 2 /\ n # 2 => n >= 3
        OBVIOUS
      <4> QED BY <4>1, <4>2
    <3>2. /\ 1 \in 1 .. Len(W) - 2 /\ Len(V) >= 2 /\ Len(V) - 2 = (Len(W) - 2) - 1
          /\ Len(V) \in 1 .. Len(W) - 1 /\ Len(V) - 1 \in 1 .. Len(W) - 1
          /\ Len(V) + 1 = Len(W) /\ (Len(V) - 1) + 1 = Len(W) - 1
      BY <1>3, <1>4, <3>1
    <3> QED BY <1>4, <3>2
  <2>2. w.at \in C /\ w.is = Zeros /\ w.at \in Clusters \ {0, 1}
    BY <1>2, <1>5, <2>1
  <2>3. \A j \in 1 .. Len(V) - 2 : j + 1 \in 1 .. Len(W) - 2 /\ V[j] = W[j + 1]
    BY <1>3, <1>4
  <2>4. \A j \in 1 .. Len(V) - 2 : V[j].at \in C /\ V[j].is = Zeros
    BY <1>2, <2>3
  <2>5. ASSUME NEW c \in C PROVE c \in Y \/ \E j \in 1 .. Len(V) - 2 : V[j].at = c
    <3>1. CASE c \in Z
      BY <3>1
    <3>2. ASSUME NEW j \in 1 .. Len(W) - 2, W[j].at = c
          PROVE  c \in Y \/ \E i \in 1 .. Len(V) - 2 : V[i].at = c
      <4>1. CASE j = 1
        BY <3>2, <4>1
      <4>2. CASE j # 1
        <5>1. j - 1 \in 1 .. Len(V) - 2 /\ j - 1 \in 1 .. Len(W) - 1 /\ (j - 1) + 1 = j
          BY <1>3, <1>4, <4>2
        <5> QED BY <1>4, <3>2, <5>1
      <4> QED BY <4>1, <4>2
    <3> QED BY <1>2, <3>1, <3>2
  <2>6. BelowIn(f, r, Y, Y)
    <3>1. BelowIn(f, r, {w.at}, Z)
      <4>1. Z \cup {W[i].at : i \in 1 .. 1 - 1} = Z
        <5>1. \A i \in 1 .. 1 - 1 : FALSE
          OBVIOUS
        <5> QED BY <5>1
      <4> QED BY <1>2, <2>1, <4>1
    <3> QED BY <1>2, <3>1 DEF BelowIn
  <2>7. ASSUME NEW j \in 1 .. Len(V) - 2
        PROVE  BelowIn(f, r, {V[j].at}, Y \cup {V[i].at : i \in 1 .. j - 1})
    <3>1. BelowIn(f, r, {W[j + 1].at}, Z \cup {W[i].at : i \in 1 .. (j + 1) - 1}) /\ V[j] = W[j + 1]
      BY <1>2, <2>3
    <3>2. ASSUME NEW i \in 1 .. (j + 1) - 1 PROVE W[i].at \in Y \cup {V[k].at : k \in 1 .. j - 1}
      <4>1. CASE i = 1
        BY <4>1
      <4>2. CASE i # 1
        <5>1. i - 1 \in 1 .. j - 1 /\ i - 1 \in 1 .. Len(W) - 1 /\ (i - 1) + 1 = i
          BY <1>3, <1>4, <4>2
        <5>2. V[i - 1] = W[i]
          BY <1>4, <5>1
        <5> QED BY <5>1, <5>2
      <4> QED BY <4>1, <4>2
    <3>3. Z \cup {W[i].at : i \in 1 .. (j + 1) - 1} \subseteq Y \cup {V[k].at : k \in 1 .. j - 1}
      BY <3>2
    <3> QED BY <3>1, <3>3 DEF BelowIn
  <2>8. \A c \in Clusters : pst2[c] = IF c \in Y THEN Zeros ELSE st[c]
    BY <1>2, <1>6, <2>2
  <2>9. Y \subseteq C
    BY <1>2, <2>2
  <2> HIDE DEF Y, pst2, w
  <2>10. ZeroingLeft(V, fat, st, f, r, p, s, C, Y, pst2)
    BY <1>2, <2>1, <2>4, <2>5, <2>6, <2>7, <2>8, <2>9 DEF ZeroingLeft
  <2>11. DeleteLeft(V, fat, pst2)
    BY <1>1, <2>10 DEF DeleteLeft
  <2> QED BY <1>3, <2>2, <2>11 DEF V, pst2, w
<1> QED BY <1>7, <1>8

-----------------------------------------------------------------------------
(* Torn writes. *)

\* What the driver takes for the table of a block.
SlotsOf(x) == IF x.kind = "dir" THEN x.table ELSE [s \in Slots |-> NoEntry]

\* A torn directory table has in each slot what it had or what was to be written.
TornTo(old, new, k, x) ==
    /\ k = 0 => x = old
    /\ k # 0 /\ ~({old.kind, new.kind} \subseteq {"dir", "zeros"}) => x = Unknown
    /\ k # 0 /\ {old.kind, new.kind} \subseteq {"dir", "zeros"} =>
          \E table \in [Slots -> Entries \cup {NoEntry}] :
             /\ \A s \in Slots : table[s] \in {SlotsOf(old)[s], SlotsOf(new)[s]}
             /\ \/ x = Zeros /\ \A s \in Slots : table[s] = NoEntry
                \/ /\ x = [kind |-> "dir", up |-> IF new.kind = "dir" THEN new.up ELSE 0,
                           table |-> table]
                   /\ new.kind = "dir" \/ Slots = {} \/ \E s \in Slots : table[s] # NoEntry

LEMMA TornFacts ==
    ASSUME NEW old \in Blocks, NEW new \in Blocks, NEW k \in Nat
    PROVE  /\ TornCluster(old, new, k) \in Blocks
           /\ TornTo(old, new, k, TornCluster(old, new, k))
<1> DEFINE x == TornCluster(old, new, k)
<1> SUFFICES x \in Blocks /\ TornTo(old, new, k, x)
  OBVIOUS
<1> DEFINE Up(y) == IF y.kind = "dir" THEN y.up ELSE 0
           table == [s \in Slots |-> IF s < k * SLOTS_PER_BLOCK THEN SlotsOf(new)[s]
                                     ELSE SlotsOf(old)[s]]
<1>1. /\ SlotsOf(old) \in [Slots -> Entries \cup {NoEntry}]
      /\ SlotsOf(new) \in [Slots -> Entries \cup {NoEntry}] /\ Up(new) \in Clusters
  <2>1. [s \in Slots |-> NoEntry] \in [Slots -> Entries \cup {NoEntry}] /\ 0 \in Clusters
    BY ClusterFacts
  <2> QED BY <2>1, BlockFacts DEF SlotsOf
<1>2. table \in [Slots -> Entries \cup {NoEntry}]
  BY <1>1
<1>3. \A s \in Slots : table[s] \in {SlotsOf(old)[s], SlotsOf(new)[s]}
  OBVIOUS
<1>4. x = IF k = 0 THEN old
          ELSE IF ~({old.kind, new.kind} \subseteq {"dir", "zeros"}) THEN Unknown
          ELSE IF Up(new) = 0 /\ Range(table) = {NoEntry} THEN Zeros
          ELSE [kind |-> "dir", up |-> Up(new), table |-> table]
  BY DEF TornCluster, SlotsOf
<1>5. Range(table) = {NoEntry} => \A s \in Slots : table[s] = NoEntry
  <2>1. \A s \in Slots : table[s] \in Range(table)
    BY <1>2 DEF Range
  <2> HIDE DEF table
  <2> QED BY <2>1
<1>6. Range(table) # {NoEntry} => Slots = {} \/ \E s \in Slots : table[s] # NoEntry
  <2>1. \A y \in Range(table) : \E s \in Slots : y = table[s]
    BY <1>2 DEF Range
  <2>2. \A s \in Slots : table[s] \in Range(table)
    BY <1>2 DEF Range
  <2> HIDE DEF table
  <2> QED BY <2>1, <2>2
<1> HIDE DEF table, x
<1>7. CASE k = 0
  BY <1>4, <1>7 DEF TornTo
<1>8. CASE k # 0 /\ ~({old.kind, new.kind} \subseteq {"dir", "zeros"})
  BY <1>4, <1>8, BlockFacts DEF TornTo
<1>9. CASE k # 0 /\ {old.kind, new.kind} \subseteq {"dir", "zeros"}
  <2>1. CASE Up(new) = 0 /\ Range(table) = {NoEntry}
    <3>1. x = Zeros
      BY <1>4, <1>9, <2>1
    <3> QED BY <1>2, <1>3, <1>5, <1>9, <2>1, <3>1, BlockFacts DEF TornTo
  <2>2. CASE ~(Up(new) = 0 /\ Range(table) = {NoEntry})
    <3>1. x = [kind |-> "dir", up |-> Up(new), table |-> table]
      BY <1>4, <1>9, <2>2
    <3>2. x \in Blocks
      BY <1>1, <1>2, <3>1, BlockFacts
    <3>3. new.kind = "dir" \/ Slots = {} \/ \E s \in Slots : table[s] # NoEntry
      BY <1>6, <2>2
    <3> QED BY <1>2, <1>3, <1>9, <3>1, <3>2, <3>3 DEF TornTo
  <2> QED BY <2>1, <2>2
<1> QED BY <1>7, <1>8, <1>9

\* A block that is torn while it is zeroed.
LEMMA TornZeros ==
    ASSUME NEW old \in Blocks, NEW k \in Nat, Slots # {}, NEW x, x = TornCluster(old, Zeros, k)
    PROVE  x \in Blocks /\ PartlyZeroed(old, x)
<1>1. Zeros \in Blocks /\ Zeros.kind = "zeros" /\ Unknown.kind = "unknown"
  BY BlockFacts
<1>2. x \in Blocks /\ TornTo(old, Zeros, k, x)
  BY <1>1, TornFacts
<1>3. CASE k = 0
  BY <1>2, <1>3 DEF PartlyZeroed, TornTo
<1>4. CASE k # 0 /\ ~({old.kind, Zeros.kind} \subseteq {"dir", "zeros"})
  <2>1. x = Unknown
    BY <1>2, <1>4 DEF TornTo
  <2>2. old.kind \notin {"dir", "zeros"}
    BY <1>1, <1>4
  <2> QED BY <1>1, <1>2, <2>1, <2>2 DEF PartlyZeroed
<1>5. CASE k # 0 /\ {old.kind, Zeros.kind} \subseteq {"dir", "zeros"}
  <2>1. PICK table \in [Slots -> Entries \cup {NoEntry}] :
           /\ \A s \in Slots : table[s] \in {SlotsOf(old)[s], SlotsOf(Zeros)[s]}
           /\ \/ x = Zeros /\ \A s \in Slots : table[s] = NoEntry
              \/ /\ x = [kind |-> "dir", up |-> IF Zeros.kind = "dir" THEN Zeros.up ELSE 0,
                         table |-> table]
                 /\ Zeros.kind = "dir" \/ Slots = {} \/ \E s \in Slots : table[s] # NoEntry
    BY <1>2, <1>5 DEF TornTo
  <2>2. CASE x = Zeros
    BY <1>1, <1>2, <2>2 DEF PartlyZeroed
  <2>3. CASE x # Zeros
    <3>1. x.kind = "dir" /\ x.table = table /\ \E s \in Slots : table[s] # NoEntry
      BY <1>1, <2>1, <2>3
    <3>2. \A s \in Slots : table[s] \in {SlotsOf(old)[s], NoEntry}
      BY <1>1, <2>1 DEF SlotsOf
    <3>3. old.kind = "dir"
      BY <3>1, <3>2 DEF SlotsOf
    <3>4. SlotsOf(old) = old.table
      BY <3>3 DEF SlotsOf
    <3> QED BY <1>2, <3>1, <3>2, <3>3, <3>4 DEF PartlyZeroed
  <2> QED BY <2>2, <2>3
<1> QED BY <1>3, <1>4, <1>5

\* An empty table that is zeros is kept.
LEMMA KeptBlank ==
    ASSUME NEW fat, NEW st, NEW f, NEW r, Kept(fat, st, f, r), NEW p \in Clusters,
           r[p].kind = "dir", st[p].kind = "dir", st[p].table = [t \in Slots |-> NoEntry],
           NEW st2, st2[p] = Zeros, \A c \in Clusters : c # p => st2[c] = st[c]
    PROVE  Kept(fat, st2, f, r)
<1>1. Zeros.kind = "zeros"
  BY BlockFacts
<1>2. r[p].table = Table(st2, p)
  BY <1>1 DEF Kept, Table
<1>3. \A c \in Clusters : c # p => Table(st2, c) = Table(st, c)
  BY DEF Table
<1> QED BY <1>1, <1>2, <1>3 DEF Kept

\* A deletion that is cut while it zeroes.
LEMMA CutZeroing ==
    ASSUME NEW fat, NEW st, NEW f, NEW r, NEW p, NEW s, NEW C, Deletes(fat, st, f, r, p, s, C),
           NEW Z \in SUBSET C, NEW d \in C, BelowIn(f, r, Z \cup {d}, Z),
           NEW st2 \in [Clusters -> Blocks], NEW old \in Blocks,
           old = IF d \in Z THEN Zeros ELSE st[d],
           PartlyZeroed(old, st2[d]),
           \A c \in Clusters : c # d => st2[c] = IF c \in Z THEN Zeros ELSE st[c]
    PROVE  Good(fat, st2)
<1>1. /\ Types(fat, st) /\ Kept(fat, st, f, r) /\ Tidy(f, r)
      /\ C \in SUBSET DataClusters /\ \A c \in C : c \in Clusters
  BY DeletesFacts, ClusterFacts DEF Deletes
<1>2. Zeros.kind = "zeros"
  BY BlockFacts
<1>3. \A x : PartlyZeroed(x, Zeros) /\ PartlyZeroed(x, x)
  BY <1>2 DEF PartlyZeroed
<1>4. PartlyZeroed(st[d], st2[d])
  BY <1>2 DEF PartlyZeroed
<1>5. \A c \in Clusters : PartlyZeroed(st[c], st2[c])
  BY <1>3, <1>4
<1>6. \A c \in Z : st2[c].kind # "dir"
  <2>1. d \in Z => st2[d].kind # "dir"
    BY <1>2 DEF PartlyZeroed
  <2>2. \A c \in Z : c \in Clusters
    BY <1>1
  <2> QED BY <1>2, <2>1, <2>2
<1> DEFINE T == {d}
<1>7. /\ Z \in SUBSET DataClusters /\ T \in SUBSET DataClusters
      /\ \A c \in Clusters \ (Z \cup T) : st2[c] = st[c]
      /\ \A e \in Z \cup T, t \in Slots : Live(f, r, e, t) => r[e].table[t].cluster \in Z
  BY <1>1 DEF BelowIn
<1>8. ZeroedIn(f, r, st, st2, Z, T)
  BY <1>5, <1>6, <1>7 DEF ZeroedIn
<1> QED BY <1>1, <1>8, ZeroKept

\* A deletion whose entry is cleared, the table written as far as it may be.
LEMMA CutTable ==
    ASSUME NEW fat, NEW st, NEW f, NEW r, NEW p, NEW s, NEW C, Deletes(fat, st, f, r, p, s, C),
           NEW fat2 \in [Clusters -> FatValues], \A c \in Clusters \ C : fat2[c] = fat[c]
    PROVE  /\ Types(fat2, Erased(st, C, p, s)) /\ Good(fat2, Erased(st, C, p, s))
           /\ Kept(fat2, Erased(st, C, p, s), FreedTable(f, C), Erased(r, C, p, s))
           /\ Tidy(FreedTable(f, C), Erased(r, C, p, s)) /\ Erased(r, C, p, s)[p].kind = "dir"
<1>1. /\ Types(fat, st) /\ Kept(fat, st, f, r) /\ Tidy(f, r) /\ p \in Clusters /\ s \in Slots
      /\ Live(f, r, p, s) /\ C = Reach(f, r, r[p].table[s].cluster)
  BY DEF Deletes
<1>2. /\ Types(fat2, Erased(st, C, p, s))
      /\ Kept(fat2, Erased(st, C, p, s), FreedTable(f, C), Erased(r, C, p, s))
  BY <1>1, EraseKept
<1>3. Tidy(FreedTable(f, C), Erased(r, C, p, s))
  BY <1>1, EraseTidy
<1>4. Erased(r, C, p, s)[p].kind = "dir"
  <2> DEFINE r2 == Erased(r, C, p, s)
  <2>1. C \in SUBSET DataClusters /\ p \notin C /\ Types(f, r)
    BY DeletesFacts
  <2>2. r \in [Clusters -> Blocks] /\ r[p].kind = "dir" /\ C \in SUBSET Clusters
    BY <1>1, <2>1, ClusterFacts DEF Live, IsDir, Types
  <2>3. /\ r2 \in [Clusters -> Blocks]
        /\ \A c \in C : r2[c] = Zeros
        /\ \A c \in Clusters \ C : c # p => r2[c] = r[c]
        /\ r2[p].kind = "dir"
        /\ r2[p].table = [t \in Slots |-> IF t = s THEN NoEntry ELSE r[p].table[t]]
    BY <1>1, <2>1, <2>2, ErasedBlocks
  <2> QED BY <2>3
<1> QED BY <1>2, <1>3, <1>4 DEF Good

\* The directory table with the entry is torn: the entry is there or not.
LEMMA CutEntry ==
    ASSUME NEW fat, NEW st, NEW f, NEW r, NEW p, NEW s, NEW C, Deletes(fat, st, f, r, p, s, C),
           NEW k \in Nat, NEW x, x = TornCluster(st[p], Erased(st, C, p, s)[p], k),
           NEW st2 \in [Clusters -> Blocks], st2[p] = x,
           \A c \in Clusters : c # p => st2[c] = IF c \in C THEN Zeros ELSE st[c]
    PROVE  Good(fat, st2)
<1> DEFINE st3 == Erased(st, C, p, s)
           new == st3[p]
<1>1. /\ Types(fat, st) /\ Kept(fat, st, f, r) /\ Tidy(f, r) /\ p \in Clusters /\ s \in Slots
  BY DEF Deletes
<1>2. /\ C \in SUBSET DataClusters /\ p \notin C /\ Types(f, r) /\ st[p].kind = "dir"
      /\ C \in SUBSET Clusters /\ st \in [Clusters -> Blocks] /\ fat \in [Clusters -> FatValues]
  BY <1>1, DeletesFacts, ClusterFacts DEF Types
<1>3. /\ st3 \in [Clusters -> Blocks]
      /\ \A c \in C : st3[c] = Zeros
      /\ \A c \in Clusters \ C : c # p => st3[c] = st[c]
      /\ st3[p].kind = "dir" /\ st3[p].up = st[p].up
      /\ st3[p].table = [t \in Slots |-> IF t = s THEN NoEntry ELSE st[p].table[t]]
  BY <1>1, <1>2, ErasedBlocks
<1>4. /\ Types(fat, st3) /\ Good(fat, st3)
      /\ Kept(fat, st3, FreedTable(f, C), Erased(r, C, p, s))
      /\ Tidy(FreedTable(f, C), Erased(r, C, p, s)) /\ Erased(r, C, p, s)[p].kind = "dir"
  BY <1>2, CutTable
<1>5. x \in Blocks /\ TornTo(st[p], new, k, x) /\ new \in Blocks /\ st[p] \in Blocks
  BY <1>1, <1>2, <1>3, TornFacts
<1> HIDE DEF st3
<1>6. CASE x = st[p]
  <2>1. Zeros.kind = "zeros"
    BY BlockFacts
  <2>2. \A y : PartlyZeroed(y, Zeros) /\ PartlyZeroed(y, y)
    BY <2>1 DEF PartlyZeroed
  <2>3. \A d \in C, t \in Slots : Live(f, r, d, t) => r[d].table[t].cluster \in C
    BY ChildrenBefore
  <2>4. \A c \in Clusters : st2[c] = IF c \in C THEN Zeros ELSE st[c]
    BY <1>2, <1>6
  <2>5. ZeroedIn(f, r, st, st2, C, {})
    BY <1>2, <2>1, <2>2, <2>3, <2>4 DEF ZeroedIn
  <2> QED BY <1>1, <2>5, ZeroKept
<1>7. CASE x # st[p]
  <2>1. k # 0 /\ {st[p].kind, new.kind} \subseteq {"dir", "zeros"}
    BY <1>2, <1>3, <1>5, <1>7 DEF TornTo
  <2>2. PICK table \in [Slots -> Entries \cup {NoEntry}] :
           /\ \A t \in Slots : table[t] \in {SlotsOf(st[p])[t], SlotsOf(new)[t]}
           /\ \/ x = Zeros /\ \A t \in Slots : table[t] = NoEntry
              \/ x = [kind |-> "dir", up |-> IF new.kind = "dir" THEN new.up ELSE 0, table |-> table]
    BY <1>5, <2>1 DEF TornTo
  <2>3. SlotsOf(st[p]) = st[p].table /\ SlotsOf(new) = new.table
    BY <1>2, <1>3 DEF SlotsOf
  <2>4. /\ st[p] \in Tables /\ st[p].table \in [Slots -> Entries \cup {NoEntry}]
        /\ new \in Tables /\ new.table \in [Slots -> Entries \cup {NoEntry}]
    BY <1>2, <1>3, <1>5, BlockFacts
  <2>5. \A t \in Slots : table[t] = (IF t = s THEN table[t] ELSE st[p].table[t])
    BY <1>3, <2>2, <2>3
  <2>6. \A t \in Slots : new.table[t] = IF t = s THEN NoEntry ELSE st[p].table[t]
    BY <1>3
  <2>7. table[s] = NoEntry
    <3>1. SUFFICES ASSUME table[s] # NoEntry PROVE FALSE
      OBVIOUS
    <3>2. table[s] = st[p].table[s]
      BY <1>1, <2>2, <2>3, <2>6, <3>1
    <3>3. \A t \in Slots : table[t] = st[p].table[t]
      BY <2>5, <3>2
    <3>4. table = st[p].table
      BY <2>4, <3>3
    <3>5. x = [kind |-> "dir", up |-> st[p].up, table |-> st[p].table]
      BY <1>1, <1>3, <2>2, <3>1, <3>4
    <3>6. st[p] = [kind |-> "dir", up |-> st[p].up, table |-> st[p].table]
      BY <2>4 DEF Tables
    <3> QED BY <1>7, <3>5, <3>6
  <2>8. \A t \in Slots : table[t] = new.table[t]
    BY <2>5, <2>6, <2>7
  <2>9. table = new.table
    BY <2>4, <2>8
  <2>10. CASE x = Zeros
    <3>1. new.table = [t \in Slots |-> NoEntry]
      <4>1. Zeros.kind = "zeros"
        BY BlockFacts
      <4>2. x.kind # "dir"
        BY <2>10, <4>1
      <4>3. \A t \in Slots : table[t] = NoEntry
        BY <2>2, <4>2
      <4> QED BY <2>2, <2>9, <4>3
    <3>2. \A c \in Clusters : c # p => st2[c] = st3[c]
      BY <1>3
    <3>3. Kept(fat, st2, FreedTable(f, C), Erased(r, C, p, s))
      BY <1>1, <1>3, <1>4, <2>10, <3>1, <3>2, KeptBlank
    <3> QED BY <1>2, <1>4, <3>3 DEF Good, Types
  <2>11. CASE x # Zeros
    <3>1. x = [kind |-> "dir", up |-> new.up, table |-> new.table]
      BY <1>3, <2>2, <2>9, <2>11
    <3>2. x = new
      BY <2>4, <3>1 DEF Tables
    <3>3. \A c \in Clusters : st2[c] = st3[c]
      BY <1>3, <3>2
    <3>4. st2 = st3
      BY <1>3, <3>3
    <3> QED BY <1>4, <3>4
  <2> QED BY <2>10, <2>11
<1> QED BY <1>6, <1>7

\* Whenever a deletion is cut a file system is kept.
LEMMA DeleteCut ==
    ASSUME NEW W \in Seq(Writes), W # <<>>, NEW fat, NEW st \in [Clusters -> Blocks],
           DeleteLeft(W, fat, st), NEW k \in Nat, NEW w, w = W[1],
           NEW fat2, fat2 = IF w.at = 1 THEN TornTable(fat, w.is, k) ELSE fat,
           NEW st2, st2 = IF w.at \in {0, 1} THEN st
                          ELSE Holds(st, w.at, TornCluster(st[w.at], w.is, k))
    PROVE  Good(fat2, st2)
<1>1. PICK st0, f, r, p, s, C, Z :
         /\ Deletes(fat, st0, f, r, p, s, C)
         /\ \/ ZeroingLeft(W, fat, st0, f, r, p, s, C, Z, st)
            \/ TableLeft(W, fat, st0, p, s, C, st)
  BY DEF DeleteLeft
<1>2. /\ p \in Clusters \ {0, 1} /\ C \in SUBSET DataClusters /\ p \notin C
      /\ C \cup {p} \in SUBSET (Clusters \ {0, 1}) /\ s \in Slots
      /\ fat \in [Clusters -> FatValues] /\ FreedTable(fat, C) \in [Clusters -> FatValues]
      /\ st0 \in [Clusters -> Blocks] /\ Erased(st0, C, p, s) \in [Clusters -> Blocks]
  <2>1. /\ p \in Clusters \ {0, 1} /\ C \in SUBSET DataClusters /\ p \notin C
        /\ C \cup {p} \in SUBSET (Clusters \ {0, 1})
        /\ Types(FreedTable(fat, C), Erased(st0, C, p, s))
    BY <1>1, DeletesFacts
  <2>2. Types(fat, st0) /\ s \in Slots
    BY <1>1 DEF Deletes
  <2> QED BY <2>1, <2>2 DEF Types
<1>3. Len(W) \in Nat \ {0}
  BY FirstWrite
<1>4. ASSUME w.at \in Clusters \ {0, 1}, NEW x \in Blocks, x = TornCluster(st[w.at], w.is, k)
      PROVE  /\ fat2 = fat /\ st2 \in [Clusters -> Blocks] /\ st2[w.at] = x
             /\ \A c \in Clusters : c # w.at => st2[c] = st[c]
  BY <1>4 DEF Holds
<1>5. CASE TableLeft(W, fat, st0, p, s, C, st)
  <2>1. w.at = 1 /\ w.is = FreedTable(fat, C) /\ st = Erased(st0, C, p, s)
    BY <1>5 DEF TableLeft, PutTable
  <2>2. st2 = Erased(st0, C, p, s) /\ fat2 = TornTable(fat, FreedTable(fat, C), k)
    BY <2>1
  <2>3. \A c \in Clusters : fat2[c] \in {FreedTable(fat, C)[c], fat[c]}
    BY <2>2 DEF TornTable
  <2>4. \A c \in Clusters \ C : FreedTable(fat, C)[c] = fat[c]
    BY DEF FreedTable
  <2>5. fat2 \in [Clusters -> FatValues]
    <3>1. fat2 = [c \in Clusters |-> fat2[c]]
      BY <2>2 DEF TornTable
    <3> QED BY <1>2, <2>3, <3>1
  <2>6. \A c \in Clusters \ C : fat2[c] = fat[c]
    BY <2>3, <2>4
  <2> QED BY <1>1, <2>2, <2>5, <2>6, CutTable
<1>6. CASE ZeroingLeft(W, fat, st0, f, r, p, s, C, Z, st) /\ Len(W) = 2
  <2>1. W[1] = Put(p, Erased(st0, C, p, s)[p])
    BY <1>6 DEF ZeroingLeft
  <2>2. w.at = p /\ w.is = Erased(st0, C, p, s)[p]
    BY <2>1 DEF Put
  <2>3. \A c \in Clusters : st[c] = IF c \in C THEN Zeros ELSE st0[c]
    <3>1. \A j \in 1 .. Len(W) - 2 : FALSE
      BY <1>6
    <3>2. Z = C
      BY <1>6, <3>1 DEF ZeroingLeft
    <3> QED BY <1>6, <3>2 DEF ZeroingLeft
  <2>4. st[p] = st0[p] /\ w.is \in Blocks /\ st[p] \in Blocks
    BY <1>2, <2>2, <2>3
  <2> DEFINE x == TornCluster(st[p], w.is, k)
  <2>5. x \in Blocks
    BY <2>4, TornFacts
  <2>6. x = TornCluster(st0[p], Erased(st0, C, p, s)[p], k)
    BY <2>2, <2>4
  <2>7. x = TornCluster(st[w.at], w.is, k)
    BY <2>2
  <2> HIDE DEF x
  <2>8. /\ fat2 = fat /\ st2 \in [Clusters -> Blocks] /\ st2[p] = x
        /\ \A c \in Clusters : c # p => st2[c] = st[c]
    BY <1>2, <1>4, <2>2, <2>5, <2>7
  <2>9. \A c \in Clusters : c # p => st2[c] = IF c \in C THEN Zeros ELSE st0[c]
    BY <2>3, <2>8
  <2> QED BY <1>1, <2>6, <2>8, <2>9, CutEntry
<1>7. CASE ZeroingLeft(W, fat, st0, f, r, p, s, C, Z, st) /\ Len(W) # 2
  <2>1. 1 \in 1 .. Len(W) - 2
    <3>1. Len(W) >= 2
      BY <1>7 DEF ZeroingLeft
    <3>2. \A n \in Nat : n >= 2 /\ n # 2 => 1 \in 1 .. n - 2
      OBVIOUS
    <3> QED BY <1>3, <1>7, <3>1, <3>2
  <2> DEFINE d == w.at
             x == TornCluster(st[d], w.is, k)
             old == IF d \in Z THEN Zeros ELSE st0[d]
  <2>2. /\ d \in C /\ w.is = Zeros /\ Z \in SUBSET C /\ d \in Clusters \ {0, 1}
        /\ \A c \in Clusters : st[c] = IF c \in Z THEN Zeros ELSE st0[c]
    BY <1>2, <1>7, <2>1 DEF ZeroingLeft
  <2>3. BelowIn(f, r, Z \cup {d}, Z)
    <3>1. BelowIn(f, r, {W[1].at}, Z \cup {W[i].at : i \in 1 .. 1 - 1}) /\ BelowIn(f, r, Z, Z)
      BY <1>7, <2>1 DEF ZeroingLeft
    <3>2. Z \cup {W[i].at : i \in 1 .. 1 - 1} = Z
      <4>1. \A i \in 1 .. 1 - 1 : FALSE
        OBVIOUS
      <4> QED BY <4>1
    <3>3. BelowIn(f, r, {d}, Z)
      BY <3>1, <3>2
    <3> QED BY <3>1, <3>3 DEF BelowIn
  <2>4. st[d] = old /\ old \in Blocks
    BY <2>2
  <2>5. x \in Blocks /\ PartlyZeroed(old, x)
    <3>1. Slots # {}
      BY <1>2
    <3>2. x = TornCluster(old, Zeros, k)
      BY <2>2, <2>4
    <3> HIDE DEF x, old
    <3> QED BY <2>4, <3>1, <3>2, TornZeros
  <2>6. /\ fat2 = fat /\ st2 \in [Clusters -> Blocks] /\ st2[d] = x
        /\ \A c \in Clusters : c # d => st2[c] = st[c]
    BY <1>4, <2>2, <2>5
  <2>7. \A c \in Clusters : c # d => st2[c] = IF c \in Z THEN Zeros ELSE st0[c]
    BY <2>2, <2>6
  <2>8. PartlyZeroed(old, st2[d]) /\ old = IF d \in Z THEN Zeros ELSE st0[d]
    BY <2>5, <2>6
  <2> HIDE DEF x, old, d
  <2> QED BY <1>1, <2>2, <2>3, <2>4, <2>6, <2>7, <2>8, CutZeroing
<1> QED BY <1>1, <1>5, <1>6, <1>7

-----------------------------------------------------------------------------
(* What the calls do. *)

\* At most one entry of a folder has a key: it is the one that is found.
LEMMA FoundEntry ==
    ASSUME NEW fat, NEW st, NEW f, NEW r, Types(fat, st), Kept(fat, st, f, r), Tidy(f, r),
           NEW p \in Clusters, IsDir(f, r, p), NEW name, NEW ext,
           NEW s \in Matching(st, p, name, ext)
    PROVE  /\ s \in Slots /\ Live(f, r, p, s) /\ r[p].table[s] = Table(st, p)[s]
           /\ r[p].table[s].name = name /\ r[p].table[s].ext = ext
           /\ Matching(st, p, name, ext) = {s}
           /\ EntryOf(st, p, name, ext) = r[p].table[s]
<1>1. Types(f, r) /\ UniqueKeys(f, r)
  BY DEF Tidy, Sound
<1>2. ASSUME NEW t \in Matching(st, p, name, ext)
      PROVE  /\ t \in Slots /\ Live(f, r, p, t) /\ r[p].table[t] = Table(st, p)[t]
             /\ r[p].table[t].name = name /\ r[p].table[t].ext = ext
  <2>1. t \in Slots /\ t \in Used(st, p) /\ Table(st, p)[t].name = name /\ Table(st, p)[t].ext = ext
    BY DEF Matching, Used
  <2>2. Live(f, r, p, t)
    BY <1>1, <2>1, KeptFacts
  <2>3. r[p].table[t] = Table(st, p)[t]
    BY <1>1, <2>1, <2>2, KeptFacts
  <2> QED BY <2>1, <2>2, <2>3
<1>3. Matching(st, p, name, ext) = {s}
  BY <1>1, <1>2 DEF UniqueKeys
<1>4. s \in Nat
  BY <1>2, ClusterFacts
<1>5. (CHOOSE t \in {s} : IsFirst({s}, t)) = s
  <2>1. IsFirst({s}, s) /\ \A t \in {s} : t = s
    BY <1>4 DEF IsFirst
  <2> QED BY <2>1
<1>6. EntryOf(st, p, name, ext) = Table(st, p)[s]
  BY <1>3, <1>5 DEF EntryOf
<1> QED BY <1>2, <1>3, <1>6

\* The table and the clusters that are saved leave the boot signature alone.
Saved(fat, st) ==
    /\ fat_table' = fat /\ disk_fat' = fat /\ storage' = st
    /\ signature' = signature /\ mounted' = mounted

LEMMA SavedFacts ==
    ASSUME signature \in BOOLEAN, NEW fat, NEW st, NEW C, 0 \notin C, Save(fat, st, C)
    PROVE  Saved(fat, st)
<1>1. signature' = (signature /\ TRUE)
  BY DEF Save
<1>2. signature' = signature
  BY <1>1, Zenon
<1> QED BY <1>2 DEF Save, Saved

\* A deletion that succeeds.
LEMMA DeleteRuns ==
    ASSUME signature \in BOOLEAN, NEW f, NEW r, Types(fat_table, storage),
           Kept(fat_table, storage, f, r), Tidy(f, r), NEW p \in Folders, NEW name, NEW ext,
           delete(p, name, ext) \/ delete_folder_rec(p, name, ext), retcode' = 0
    PROVE  \E s, C :
              /\ Deletes(fat_table, storage, f, r, p, s, C)
              /\ r[p].table[s].name = name /\ r[p].table[s].ext = ext
              /\ EntryOf(storage, p, name, ext) = r[p].table[s]
              /\ Saved(FreedTable(fat_table, C), Erased(storage, C, p, s))
<1>1. p \in Clusters /\ IsDir(f, r, p)
  BY FoldersKept DEF Tidy
<1> DEFINE Run(s) == Erase(Reach(fat_table, storage, Table(storage, p)[s].cluster), p, s)
<1>2. \A code : ~Refuse(code)
  BY DEF Refuse
<1>3. PICK s \in Matching(storage, p, name, ext) : Run(s)
  <2>1. CASE delete(p, name, ext)
    BY <1>2, <2>1 DEF delete
  <2>2. CASE delete_folder_rec(p, name, ext)
    BY <1>2, <2>2 DEF delete_folder_rec
  <2> QED BY <2>1, <2>2
<1>4. /\ s \in Slots /\ Live(f, r, p, s) /\ r[p].table[s] = Table(storage, p)[s]
      /\ r[p].table[s].name = name /\ r[p].table[s].ext = ext
      /\ EntryOf(storage, p, name, ext) = r[p].table[s]
  BY <1>1, FoundEntry
<1> DEFINE C == Reach(f, r, r[p].table[s].cluster)
<1>5. Deletes(fat_table, storage, f, r, p, s, C)
  BY <1>1, <1>4 DEF Deletes
<1>6. C = Reach(fat_table, storage, Table(storage, p)[s].cluster)
  BY <1>4, <1>5, DeletesFacts
<1>7. C = Reach(f, r, r[p].table[s].cluster)
  OBVIOUS
<1> HIDE DEF C
<1>8. LoopsEnd(fat_table, storage, C) /\ 0 \notin C
  BY <1>1, <1>4, <1>7, GoodLoops
<1>9. Save(FreedTable(fat_table, C), Erased(storage, C, p, s), C)
  BY <1>3, <1>6, <1>8 DEF Erase
<1> QED BY <1>4, <1>5, <1>8, <1>9, SavedFacts

\* A write that succeeds.
LEMMA WriteRuns ==
    ASSUME ~FullDisk, signature \in BOOLEAN, NEW f, NEW r, Types(fat_table, storage),
           Kept(fat_table, storage, f, r), Tidy(f, r), NEW p \in Folders,
           NEW name \in Names, NEW ext \in Exts,
           \/ WriteFolder(p, name, ext)
           \/ \E v \in Values, n \in Sizes : WriteFile(p, name, ext, v, n)
    PROVE  \E fat2, st2, s, e, m, a :
              /\ Good(fat2, st2) /\ Grown(fat_table, storage, p, s, e, m, a, fat2, st2)
              /\ e.name = name /\ e.ext = ext /\ Saved(fat2, st2)
<1>1. p \in Clusters /\ IsDir(f, r, p)
  BY FoldersKept DEF Tidy
<1>2. CASE WriteFolder(p, name, ext)
  <2> DEFINE new == FolderAdded(fat_table, storage, p, name, ext)
  <2>1. /\ WriteCheck(fat_table, storage, p, name, ext) = 0 /\ Fits(fat_table, 1)
        /\ Save(new.fat, new.st, {})
    BY <1>2 DEF WriteFolder
  <2>2. new = FolderAdded(fat_table, storage, p, name, ext)
    OBVIOUS
  <2> HIDE DEF new
  <2>3. /\ Good(new.fat, new.st)
        /\ \E s, e, m, a : /\ Grown(fat_table, storage, p, s, e, m, a, new.fat, new.st)
                           /\ e.name = name /\ e.ext = ext
    BY <1>1, <2>1, <2>2, FolderWritten
  <2>4. Saved(new.fat, new.st)
    BY <2>1, SavedFacts
  <2> QED BY <2>3, <2>4
<1>3. ASSUME NEW v \in Values, NEW n \in Sizes, WriteFile(p, name, ext, v, n)
      PROVE  \E fat2, st2, s, e, m, a :
                /\ Good(fat2, st2) /\ Grown(fat_table, storage, p, s, e, m, a, fat2, st2)
                /\ e.name = name /\ e.ext = ext /\ Saved(fat2, st2)
  <2> DEFINE data == [k \in 0 .. n - 1 |-> Piece(v, k)]
             new == FileAdded(fat_table, storage, p, name, ext, data)
  <2>0. n \in Nat /\ n # 0
    BY FAT32Assumption
  <2>1. /\ WriteCheck(fat_table, storage, p, name, ext) = 0 /\ Fits(fat_table, n)
        /\ Save(new.fat, new.st, {})
    BY <1>3 DEF WriteFile
  <2>2. \A k \in 0 .. n - 1 : k \in Nat /\ Piece(v, k) \in Blocks /\ Piece(v, k).kind # "dir"
    BY <2>0, BlockFacts
  <2>3. data \in [0 .. n - 1 -> Blocks] /\ \A k \in 0 .. n - 1 : data[k].kind # "dir"
    BY <2>2
  <2> HIDE DEF data
  <2>4. new = FileAdded(fat_table, storage, p, name, ext, data)
    OBVIOUS
  <2> HIDE DEF new
  <2>5. /\ Good(new.fat, new.st)
        /\ \E s, e, m, a : /\ Grown(fat_table, storage, p, s, e, m, a, new.fat, new.st)
                           /\ e.name = name /\ e.ext = ext
    BY <1>1, <2>0, <2>1, <2>3, <2>4, FileWritten
  <2>6. Saved(new.fat, new.st)
    BY <2>1, SavedFacts
  <2> QED BY <2>5, <2>6
<1> QED BY <1>2, <1>3

\* The chain of a file that is kept has no directory, no free cluster, and is the
\* driver's.
LEMMA FileKept ==
    ASSUME NEW fat, NEW st, NEW f, NEW r, Types(fat, st), Kept(fat, st, f, r), Tidy(f, r),
           NEW p \in Clusters, NEW s \in Slots, Live(f, r, p, s), ~r[p].table[s].folder
    PROVE  \E n, g : /\ Chain(f, r[p].table[s].cluster, n, g)
                     /\ Chain(fat, r[p].table[s].cluster, n, g)
                     /\ \A k \in 0 .. n - 1 : /\ g[k] \in DataClusters /\ fat[g[k]] # EMPTY
                                              /\ r[g[k]].kind # "dir" /\ st[g[k]] = r[g[k]]
<1> DEFINE h == r[p].table[s].cluster
<1>1. Sound(f, r) /\ ChainsEnd(f) /\ NoStubs(f, r) /\ KindsAgree(f, r) /\ RefsInside(f, r)
  BY DEF Tidy, Sound
<1>2. h \in DataClusters /\ r[h].kind # "dir"
  BY <1>1 DEF NoStubs, KindsAgree
<1>3. f[h] # EMPTY
  <2>1. Ref(f, r, p, s) = h /\ s \in Indices
    BY ClusterFacts DEF Ref, Indices
  <2> QED BY <1>1, <1>2, <2>1 DEF RefsInside
<1>4. PICK n, g : Chain(f, h, n, g)
  BY <1>1, <1>2, <1>3 DEF ChainsEnd
<1>5. Chain(fat, h, n, g) /\ \A k \in 0 .. n - 1 : fat[g[k]] # EMPTY /\ g[k] \in Clusters
  BY <1>4, KeptChain
<1>6. ASSUME NEW k \in 0 .. n - 1 PROVE g[k] \in DataClusters /\ r[g[k]].kind # "dir"
  <2>0. /\ n \in 1 .. CLUSTER_MAP_SIZE /\ g \in [0 .. n - 1 -> DataClusters] /\ g[0] = h
        /\ \A j \in 0 .. n - 1 : f[g[j]] = IF j = n - 1 THEN EOF ELSE g[j + 1]
    BY <1>4 DEF Chain
  <2>1. CASE k = 0
    BY <1>2, <2>0, <2>1
  <2>2. CASE k # 0
    <3>1. k - 1 \in 0 .. n - 1 /\ k - 1 # n - 1 /\ (k - 1) + 1 = k
      BY <2>0, <2>2, FAT32Assumption
    <3>2. f[g[k - 1]] = g[k] /\ g[k] \in DataClusters /\ g[k - 1] \in Clusters
      BY <1>5, <2>0, <3>1
    <3> QED BY <1>1, <3>2 DEF KindsAgree
  <2> QED BY <2>1, <2>2
<1>7. \A k \in 0 .. n - 1 : st[g[k]] = r[g[k]]
  BY <1>5, <1>6 DEF Kept
<1> QED BY <1>4, <1>5, <1>6, <1>7

\* What copy_file reads.
LEMMA ContentsKept ==
    ASSUME NEW fat, NEW st, NEW f, NEW r, Types(fat, st), Kept(fat, st, f, r), Tidy(f, r),
           NEW p \in Clusters, NEW s \in Slots, Live(f, r, p, s), ~r[p].table[s].folder,
           NEW e, e = r[p].table[s], NEW data, data = Contents(fat, st, e)
    PROVE  /\ e.size \in Nat /\ e.size # 0
           /\ data \in [0 .. e.size - 1 -> Blocks]
           /\ \A k \in 0 .. e.size - 1 : data[k].kind # "dir"
<1>1. Types(f, r) /\ NoStubs(f, r)
  BY DEF Tidy, Sound
<1>2. e \in Entries /\ e.size # 0
  BY <1>1, LiveEntry DEF NoStubs
<1>3. e.size \in Nat
  BY <1>2 DEF Entries
<1>4. PICK n, g : /\ Chain(fat, e.cluster, n, g)
                  /\ \A k \in 0 .. n - 1 : /\ g[k] \in DataClusters
                                           /\ r[g[k]].kind # "dir" /\ st[g[k]] = r[g[k]]
  BY FileKept
<1> DEFINE at == Walk(fat, e.cluster)
<1>5. \A k \in 0 .. CLUSTER_MAP_SIZE : IF k < n THEN at[k] = g[k] ELSE at[k] = EOF
  BY <1>4, WalkOnChain
<1>6. DOMAIN at = 0 .. CLUSTER_MAP_SIZE
  BY WalkTurns
<1>7. data = [k \in 0 .. e.size - 1 |->
                 IF k \in DOMAIN at /\ at[k] \in Clusters THEN st[at[k]] ELSE Unknown]
  BY DEF Contents
<1> HIDE DEF at
<1>8. ASSUME NEW k \in 0 .. e.size - 1
      PROVE  data[k] \in Blocks /\ data[k].kind # "dir"
  <2>0. data[k] = IF k \in DOMAIN at /\ at[k] \in Clusters THEN st[at[k]] ELSE Unknown
    BY <1>7
  <2>1. CASE k \in DOMAIN at /\ at[k] \in Clusters
    <3>1. k < n /\ at[k] = g[k]
      BY <1>5, <1>6, <2>1, ClusterFacts
    <3>2. k \in 0 .. n - 1
      BY <1>3, <1>4, <3>1 DEF Chain
    <3>3. data[k] = st[g[k]] /\ g[k] \in Clusters /\ st[g[k]].kind # "dir"
      BY <1>4, <2>0, <2>1, <3>1, <3>2
    <3> QED BY <3>3 DEF Types
  <2>2. CASE ~(k \in DOMAIN at /\ at[k] \in Clusters)
    BY <2>0, <2>2, BlockFacts
  <2> QED BY <2>1, <2>2
<1>9. data \in [0 .. e.size - 1 -> Blocks]
  <2>1. data = [k \in 0 .. e.size - 1 |-> data[k]]
    BY <1>7
  <2> QED BY <1>8, <2>1
<1> QED BY <1>2, <1>3, <1>8, <1>9

\* The file that copy_file deletes at the destination.
ClearsFile(f, r, q, name, ext, t, C) ==
    /\ Deletes(fat_table, storage, f, r, q, t, C)
    /\ r[q].table[t].name = name /\ r[q].table[t].ext = ext /\ ~r[q].table[t].folder
    /\ EntryOf(storage, q, name, ext) = r[q].table[t]

LEMMA ClearedKept ==
    ASSUME NEW f, NEW r, Types(fat_table, storage), Kept(fat_table, storage, f, r), Tidy(f, r),
           NEW q \in Clusters, IsDir(f, r, q), NEW name, NEW ext,
           NEW now, now = DestinationCleared(q, name, ext)
    PROVE  \/ now.old = {} /\ now.fat = fat_table /\ now.st = storage /\ now.clusters = {}
           \/ \E t, C :
                 /\ ClearsFile(f, r, q, name, ext, t, C)
                 /\ now.old = {t} /\ now.clusters = C
                 /\ now.fat = FreedTable(fat_table, C) /\ now.st = Erased(storage, C, q, t)
<1> DEFINE old == FilesMatching(storage, q, name, ext)
           D == UNION {Reach(fat_table, storage, Table(storage, q)[t].cluster) : t \in old}
<1>0. Types(f, r)
  BY DEF Tidy, Sound
<1>1. IsParent(fat_table, q)
  BY <1>0, KeptFacts DEF IsParent
<1>2. /\ now.old = old /\ now.clusters = D /\ now.fat = FreedTable(fat_table, D)
      /\ now.st = IF old = {} THEN storage ELSE Erased(storage, D, q, CHOOSE t \in old : TRUE)
  BY <1>1 DEF DestinationCleared
<1>3. CASE old = {}
  <2>1. D = {}
    BY <1>3
  <2> HIDE DEF D, old
  <2>2. FreedTable(fat_table, {}) = fat_table
    BY DEF FreedTable, Types
  <2> QED BY <1>2, <1>3, <2>1, <2>2
<1>4. ASSUME NEW t \in old
      PROVE  \E C : /\ ClearsFile(f, r, q, name, ext, t, C)
                    /\ now.old = {t} /\ now.clusters = C
                    /\ now.fat = FreedTable(fat_table, C) /\ now.st = Erased(storage, C, q, t)
  <2>1. t \in Matching(storage, q, name, ext) /\ ~Table(storage, q)[t].folder
    BY DEF FilesMatching
  <2>2. /\ t \in Slots /\ Live(f, r, q, t) /\ r[q].table[t] = Table(storage, q)[t]
        /\ r[q].table[t].name = name /\ r[q].table[t].ext = ext
        /\ Matching(storage, q, name, ext) = {t}
        /\ EntryOf(storage, q, name, ext) = r[q].table[t]
    BY <2>1, FoundEntry
  <2>3. old = {t}
    BY <2>1, <2>2 DEF FilesMatching
  <2> DEFINE C == Reach(f, r, r[q].table[t].cluster)
  <2>4. Deletes(fat_table, storage, f, r, q, t, C)
    BY <2>2 DEF Deletes
  <2>5. C = Reach(fat_table, storage, Table(storage, q)[t].cluster)
    BY <2>2, <2>4, DeletesFacts
  <2>6. D = C
    BY <2>3, <2>5
  <2>7. (CHOOSE u \in {t} : TRUE) = t
    OBVIOUS
  <2> HIDE DEF C, D, old
  <2>8. now.old = {t} /\ now.clusters = C /\ now.fat = FreedTable(fat_table, C)
    BY <1>2, <2>3, <2>6
  <2>9. now.st = Erased(storage, C, q, t)
    <3>1. old # {}
      BY <2>3
    <3> QED BY <1>2, <2>3, <2>6, <2>7, <3>1
  <2>10. ClearsFile(f, r, q, name, ext, t, C)
    BY <2>1, <2>2, <2>4 DEF ClearsFile
  <2> QED BY <2>8, <2>9, <2>10
<1> QED BY <1>3, <1>4

\* Once it is deleted there is room for the entry.
LEMMA ClearedRoom ==
    ASSUME NEW f, NEW r, NEW q, NEW name, NEW ext, NEW t, NEW C,
           ClearsFile(f, r, q, name, ext, t, C),
           NEW fat1, fat1 = FreedTable(fat_table, C), NEW st1, st1 = Erased(storage, C, q, t)
    PROVE  /\ WriteCheck(fat1, st1, q, name, ext) = 0 /\ Types(fat1, st1) /\ 0 \notin C
           /\ \E f1, r1 : Kept(fat1, st1, f1, r1) /\ Tidy(f1, r1) /\ IsDir(f1, r1, q)
           /\ LoopsEnd(fat_table, storage, C)
<1>1. /\ Deletes(fat_table, storage, f, r, q, t, C)
      /\ Types(fat_table, storage) /\ Kept(fat_table, storage, f, r) /\ Tidy(f, r)
      /\ q \in Clusters /\ t \in Slots /\ Live(f, r, q, t)
      /\ C = Reach(f, r, r[q].table[t].cluster) /\ IsDir(f, r, q)
  BY DEF ClearsFile, Deletes, Live
<1>2. /\ C \in SUBSET DataClusters /\ q \notin C /\ Types(f, r) /\ storage[q].kind = "dir"
      /\ Types(fat1, st1) /\ r[q].table[t] = Table(storage, q)[t]
  BY <1>1, DeletesFacts
<1>3. LoopsEnd(fat_table, storage, C) /\ 0 \notin C
  BY <1>1, GoodLoops
<1>4. /\ st1 \in [Clusters -> Blocks]
      /\ \A c \in C : st1[c] = Zeros
      /\ \A c \in Clusters \ C : c # q => st1[c] = storage[c]
      /\ st1[q].kind = "dir"
      /\ st1[q].table = [u \in Slots |-> IF u = t THEN NoEntry ELSE storage[q].table[u]]
  <2>1. storage \in [Clusters -> Blocks] /\ C \in SUBSET Clusters
    BY <1>1, <1>2, ClusterFacts DEF Types
  <2> QED BY <1>1, <1>2, <2>1, ErasedBlocks
<1>5. fat_table[q] = EOF /\ fat1[q] = EOF
  BY <1>1, <1>2, KeptFacts DEF FreedTable
<1>6. Table(st1, q) = st1[q].table /\ Table(storage, q) = storage[q].table
  BY <1>2, <1>4 DEF Table
<1>7. Used(st1, q) # Slots
  BY <1>1, <1>4, <1>6 DEF Used
<1>8. Matching(st1, q, name, ext) = {}
  <2>1. SUFFICES ASSUME NEW u \in Matching(st1, q, name, ext) PROVE FALSE
    OBVIOUS
  <2>2. u # t /\ u \in Matching(storage, q, name, ext)
    BY <1>4, <1>6 DEF Matching, Used
  <2>3. t \in Matching(storage, q, name, ext)
    BY <1>1, <1>2, KeptFacts DEF Matching, ClearsFile
  <2>4. Matching(storage, q, name, ext) = {t}
    BY <1>1, <2>3, FoundEntry
  <2> QED BY <2>2, <2>4
<1>9. WriteCheck(fat1, st1, q, name, ext) = 0
  BY <1>5, <1>7, <1>8 DEF WriteCheck, IsParent
<1>10. \A c \in Clusters \ C : fat1[c] = fat_table[c]
  BY DEF FreedTable
<1>11. /\ Kept(fat1, st1, FreedTable(f, C), Erased(r, C, q, t))
       /\ Tidy(FreedTable(f, C), Erased(r, C, q, t)) /\ Erased(r, C, q, t)[q].kind = "dir"
  BY <1>1, <1>2, <1>10, CutTable DEF Types
<1>12. FreedTable(f, C)[q] = EOF
  BY <1>1, <1>2 DEF FreedTable, IsDir, IsParent
<1> QED BY <1>2, <1>3, <1>9, <1>11, <1>12 DEF IsDir, IsParent

\* There is nothing to loop over when nothing is deleted.
LEMMA NoLoops ==
    ASSUME NEW fat, NEW st
    PROVE  LoopsEnd(fat, st, {})
<1>1. {x \in {} \X Slots : /\ Table(st, x[1])[x[2]] # NoEntry
                           /\ Table(st, x[1])[x[2]].cluster = 0} = {}
  OBVIOUS
<1>2. Cardinality({}) = 0
  BY FS_EmptySet
<1> QED BY <1>1, <1>2 DEF LoopsEnd

\* The source of a copy.
LEMMA SourceFacts ==
    ASSUME NEW f, NEW r, Types(fat_table, storage), Kept(fat_table, storage, f, r), Tidy(f, r),
           NEW p \in Folders, NEW name, NEW ext, NEW s \in FilesMatching(storage, p, name, ext),
           NEW e, e = Table(storage, p)[s], NEW data, data = Contents(fat_table, storage, e)
    PROVE  /\ IsParent(fat_table, p) /\ e.cluster # 0
           /\ e.size \in Nat /\ e.size # 0
           /\ data \in [0 .. e.size - 1 -> Blocks]
           /\ \A k \in 0 .. e.size - 1 : data[k].kind # "dir"
<1>1. p \in Clusters /\ IsDir(f, r, p) /\ Types(f, r) /\ NoStubs(f, r)
  BY FoldersKept DEF Tidy, Sound
<1>2. IsParent(fat_table, p)
  BY <1>1, KeptFacts DEF IsParent
<1>3. s \in Matching(storage, p, name, ext) /\ ~e.folder
  BY DEF FilesMatching
<1>4. s \in Slots /\ Live(f, r, p, s) /\ r[p].table[s] = e
  BY <1>1, <1>3, FoundEntry
<1>5. e.cluster # 0
  BY <1>1, <1>4, ClusterFacts DEF NoStubs
<1>6. /\ e.size \in Nat /\ e.size # 0 /\ data \in [0 .. e.size - 1 -> Blocks]
      /\ \A k \in 0 .. e.size - 1 : data[k].kind # "dir"
  BY <1>1, <1>3, <1>4, ContentsKept
<1> QED BY <1>2, <1>5, <1>6

\* A copy that changes the disk.
LEMMA CopyRuns ==
    ASSUME ~FullDisk, signature \in BOOLEAN, NEW f, NEW r, Types(fat_table, storage),
           Kept(fat_table, storage, f, r), Tidy(f, r), NEW p \in Folders, NEW q \in Folders,
           NEW name, NEW ext, NEW name2 \in Names, NEW ext2 \in Exts,
           FilesMatching(storage, p, name, ext) # {}, copy_file(p, name, ext, q, name2, ext2),
           NEW W \in CopyOrders(q, name2, ext2), W # <<>>
    PROVE  \E fat1, st1, fat2, st2, s, e, m, a, V :
              /\ Good(fat2, st2) /\ Grown(fat1, st1, q, s, e, m, a, fat2, st2)
              /\ e.name = name2 /\ e.ext = ext2 /\ Saved(fat2, st2)
              /\ W = V \o WriteOrder(fat2, st2, q, name2, ext2)
              /\ \/ V = <<>> /\ fat1 = fat_table /\ st1 = storage
                 \/ \E t, C : /\ ClearsFile(f, r, q, name2, ext2, t, C)
                              /\ fat1 = FreedTable(fat_table, C) /\ st1 = Erased(storage, C, q, t)
                              /\ V \in DeleteOrders(fat_table, storage, q, r[q].table[t], fat1, st1)
<1> DEFINE src == FilesMatching(storage, p, name, ext)
           now == DestinationCleared(q, name2, ext2)
           code == WriteCheck(now.fat, now.st, q, name2, ext2)
           Data(e) == Contents(fat_table, storage, e)
           New(e) == FileAdded(now.fat, now.st, q, name2, ext2, Data(e))
<1>0. q \in Clusters /\ IsDir(f, r, q)
  BY FoldersKept DEF Tidy
<1>1. ~Refuse(IF ~IsParent(fat_table, p) THEN -1
              ELSE IF \E s \in src : Table(storage, p)[s].cluster # 0 THEN 0 ELSE 1)
  <2>1. \E s \in src : Table(storage, p)[s].cluster # 0 /\ IsParent(fat_table, p)
    BY SourceFacts
  <2> QED BY <2>1 DEF Refuse
<1>2. PICK s \in src :
         LET e == Table(storage, p)[s]
         IN  \/ ~LoopsEnd(fat_table, storage, now.clusters)
             \/ /\ retcode' = code
                /\ \/ code # 0
                   \/ code = 0 /\ Fits(now.fat, e.size) /\ Save(New(e).fat, New(e).st, now.clusters)
  BY <1>1 DEF copy_file
<1> DEFINE e == Table(storage, p)[s]
           data == Data(e)
           new == New(e)
<1>3. /\ e.size \in Nat /\ e.size # 0 /\ data \in [0 .. e.size - 1 -> Blocks]
      /\ \A k \in 0 .. e.size - 1 : data[k].kind # "dir"
  BY SourceFacts
<1>4. new = FileAdded(now.fat, now.st, q, name2, ext2, data)
  OBVIOUS
<1>5. now = DestinationCleared(q, name2, ext2)
  OBVIOUS
<1>6. \/ ~LoopsEnd(fat_table, storage, now.clusters)
      \/ /\ retcode' = code
         /\ \/ code # 0
            \/ code = 0 /\ Fits(now.fat, e.size) /\ Save(new.fat, new.st, now.clusters)
  BY <1>2
<1>7. \E V : /\ V \in (IF now.old = {} THEN {<<>>}
                       ELSE DeleteOrders(fat_table, storage, q, EntryOf(storage, q, name2, ext2),
                                         now.fat, now.st))
             /\ W = V \o (IF retcode' # 0 THEN <<>>
                          ELSE WriteOrder(fat_table', storage', q, name2, ext2))
  BY DEF CopyOrders
<1> HIDE DEF now, new, data, e, src
<1>8. ASSUME LoopsEnd(fat_table, storage, now.clusters), 0 \notin now.clusters, code = 0,
             Types(now.fat, now.st),
             NEW f1, NEW r1, Kept(now.fat, now.st, f1, r1), Tidy(f1, r1), IsDir(f1, r1, q)
      PROVE  /\ retcode' = 0 /\ Good(new.fat, new.st) /\ Saved(new.fat, new.st)
             /\ fat_table' = new.fat /\ storage' = new.st
             /\ \E t, x, m, a : /\ Grown(now.fat, now.st, q, t, x, m, a, new.fat, new.st)
                                /\ x.name = name2 /\ x.ext = ext2
  <2>1. retcode' = 0 /\ Fits(now.fat, e.size) /\ Save(new.fat, new.st, now.clusters)
    BY <1>6, <1>8
  <2>2. /\ Good(new.fat, new.st)
        /\ \E t, x, m, a : /\ Grown(now.fat, now.st, q, t, x, m, a, new.fat, new.st)
                           /\ x.name = name2 /\ x.ext = ext2
    BY <1>0, <1>3, <1>4, <1>8, <2>1, FileWritten
  <2>3. Saved(new.fat, new.st)
    BY <1>8, <2>1, SavedFacts
  <2> QED BY <2>1, <2>2, <2>3 DEF Saved
<1>9. CASE now.old = {} /\ now.fat = fat_table /\ now.st = storage /\ now.clusters = {}
  <2>1. LoopsEnd(fat_table, storage, now.clusters) /\ 0 \notin now.clusters
    BY <1>9, NoLoops
  <2>2. PICK V : V = <<>> /\ W = V \o (IF retcode' # 0 THEN <<>>
                                       ELSE WriteOrder(fat_table', storage', q, name2, ext2))
    BY <1>7, <1>9
  <2>3. code = 0
    <3>1. SUFFICES ASSUME code # 0 PROVE FALSE
      OBVIOUS
    <3>2. retcode' # 0
      BY <1>6, <2>1, <3>1
    <3>3. W = <<>> \o <<>>
      BY <2>2, <3>2
    <3> QED BY <3>3
  <2>4. /\ retcode' = 0 /\ Good(new.fat, new.st) /\ Saved(new.fat, new.st)
        /\ fat_table' = new.fat /\ storage' = new.st
        /\ \E t, x, m, a : /\ Grown(now.fat, now.st, q, t, x, m, a, new.fat, new.st)
                           /\ x.name = name2 /\ x.ext = ext2
    BY <1>0, <1>8, <1>9, <2>1, <2>3
  <2>5. W = V \o WriteOrder(new.fat, new.st, q, name2, ext2)
    BY <2>2, <2>4
  <2> QED BY <1>9, <2>2, <2>4, <2>5
<1>10. ASSUME NEW t, NEW C, ClearsFile(f, r, q, name2, ext2, t, C),
              now.old = {t}, now.clusters = C,
              now.fat = FreedTable(fat_table, C), now.st = Erased(storage, C, q, t)
       PROVE  \E fat1, st1, fat2, st2, u, x, m, a, V :
                 /\ Good(fat2, st2) /\ Grown(fat1, st1, q, u, x, m, a, fat2, st2)
                 /\ x.name = name2 /\ x.ext = ext2 /\ Saved(fat2, st2)
                 /\ W = V \o WriteOrder(fat2, st2, q, name2, ext2)
                 /\ ClearsFile(f, r, q, name2, ext2, t, C)
                 /\ fat1 = FreedTable(fat_table, C) /\ st1 = Erased(storage, C, q, t)
                 /\ V \in DeleteOrders(fat_table, storage, q, r[q].table[t], fat1, st1)
  <2>1. /\ code = 0 /\ Types(now.fat, now.st) /\ 0 \notin C
        /\ \E f1, r1 : Kept(now.fat, now.st, f1, r1) /\ Tidy(f1, r1) /\ IsDir(f1, r1, q)
        /\ LoopsEnd(fat_table, storage, C)
    BY <1>10, ClearedRoom
  <2>2. /\ retcode' = 0 /\ Good(new.fat, new.st) /\ Saved(new.fat, new.st)
        /\ fat_table' = new.fat /\ storage' = new.st
        /\ \E u, x, m, a : /\ Grown(now.fat, now.st, q, u, x, m, a, new.fat, new.st)
                           /\ x.name = name2 /\ x.ext = ext2
    BY <1>8, <1>10, <2>1
  <2>3. now.old # {} /\ EntryOf(storage, q, name2, ext2) = r[q].table[t]
    BY <1>10 DEF ClearsFile
  <2>4. PICK V : /\ V \in DeleteOrders(fat_table, storage, q, r[q].table[t], now.fat, now.st)
                 /\ W = V \o WriteOrder(new.fat, new.st, q, name2, ext2)
    BY <1>7, <2>2, <2>3
  <2> QED BY <1>10, <2>2, <2>4
<1>11. \/ now.old = {} /\ now.fat = fat_table /\ now.st = storage /\ now.clusters = {}
       \/ \E t, C :
             /\ ClearsFile(f, r, q, name2, ext2, t, C)
             /\ now.old = {t} /\ now.clusters = C
             /\ now.fat = FreedTable(fat_table, C) /\ now.st = Erased(storage, C, q, t)
  BY <1>0, <1>5, ClearedKept
<1>12. ASSUME NEW t, NEW C, ClearsFile(f, r, q, name2, ext2, t, C),
              now.old = {t}, now.clusters = C,
              now.fat = FreedTable(fat_table, C), now.st = Erased(storage, C, q, t)
       PROVE  \E fat1, st1, fat2, st2, u, x, m, a, V :
                 /\ Good(fat2, st2) /\ Grown(fat1, st1, q, u, x, m, a, fat2, st2)
                 /\ x.name = name2 /\ x.ext = ext2 /\ Saved(fat2, st2)
                 /\ W = V \o WriteOrder(fat2, st2, q, name2, ext2)
                 /\ \E t1, C1 :
                      /\ ClearsFile(f, r, q, name2, ext2, t1, C1)
                      /\ fat1 = FreedTable(fat_table, C1) /\ st1 = Erased(storage, C1, q, t1)
                      /\ V \in DeleteOrders(fat_table, storage, q, r[q].table[t1], fat1, st1)
  BY <1>10, <1>12
<1> QED BY <1>9, <1>11, <1>12

-----------------------------------------------------------------------------
(* The inductive invariant. *)

\* The writes W turn fat and st into fat2 and st2, a file system.
Changes(W, fat, st, fat2, st2) ==
    /\ W \in Seq(Writes) /\ Good(fat2, st2)
    /\ \A x : Leaves(W, 0, x, x)
    /\ Leaves(W, 1, fat, fat2)
    /\ \A c \in Clusters \ {0, 1} : Leaves(W, c, st[c], st2[c])
    /\ st2[0] = st[0] /\ st2[1] = st[1]

CallKinds == {"none", "format", "write", "delete"}

DiskTypes ==
    /\ Types(fat_table, storage) /\ Types(disk_fat, storage) /\ Types(platter_fat, platter)
    /\ signature \in BOOLEAN /\ platter_signature \in BOOLEAN
    /\ storage[0].kind # "dir" /\ storage[1].kind # "dir"
    /\ writes \in Seq(Writes) /\ call \in CallKinds /\ cuts \in Seq(CallKinds)

\* Once the writes that are left are made the disk holds what the driver believes.
Syncing ==
    /\ Leaves(writes, 0, platter_signature, signature)
    /\ Leaves(writes, 1, platter_fat, fat_table)
    /\ \A c \in Clusters \ {0, 1} : Leaves(writes, c, platter[c], storage[c])
    /\ platter[0] = storage[0] /\ platter[1] = storage[1]

CutsFine == Range(cuts) \subseteq {"delete"}

PoweredOff ==
    /\ writes = <<>>
    /\ platter_signature = signature /\ platter_fat = disk_fat /\ platter = storage
    /\ signature /\ CutsFine => Good(disk_fat, storage)

PoweredOn == Syncing /\ (CutsFine => Good(fat_table, storage))

\* The inductive invariant.  While only deletions were cut, the disk keeps a file
\* system; while a deletion is under way, its writes are left in its order.
DiskInv ==
    /\ DiskTypes
    /\ mounted => PoweredOn
    /\ ~mounted => PoweredOff
    /\ call = "delete" /\ writes # <<>> => DeleteLeft(writes, platter_fat, platter)

\* With no writes left the disk is in sync.
LEMMA NothingLeft ==
    ASSUME DiskTypes, writes = <<>>
    PROVE  Syncing <=> /\ platter_signature = signature
                       /\ platter_fat = fat_table
                       /\ platter = storage
<1>1. Syncing <=> /\ platter_signature = signature
                  /\ platter_fat = fat_table
                  /\ \A c \in Clusters \ {0, 1} : platter[c] = storage[c]
                  /\ platter[0] = storage[0] /\ platter[1] = storage[1]
  BY LeavesNothing DEF Syncing
<1>2. platter \in [Clusters -> Blocks] /\ storage \in [Clusters -> Blocks]
  BY DEF DiskTypes, Types
<1>3. (\A c \in Clusters : platter[c] = storage[c]) <=> platter = storage
  BY <1>2
<1>4. 0 \in Clusters /\ 1 \in Clusters
  BY ClusterFacts
<1>5. (\A c \in Clusters : platter[c] = storage[c]) <=>
         /\ \A c \in Clusters \ {0, 1} : platter[c] = storage[c]
         /\ platter[0] = storage[0] /\ platter[1] = storage[1]
  BY <1>4
<1> QED BY <1>1, <1>3, <1>5

\* A new file system is one that is kept.
LEMMA FreshGood ==
    ASSUME NEW st \in [Clusters -> Blocks], st[0].kind # "dir", st[1].kind # "dir"
    PROVE  Good(FreshTable,
                [st EXCEPT ![ROOT_CLUSTER_NUMBER] = EmptyDirectory(ROOT_CLUSTER_NUMBER)])
<1> DEFINE fat == FreshTable
           st2 == [st EXCEPT ![ROOT_CLUSTER_NUMBER] = EmptyDirectory(ROOT_CLUSTER_NUMBER)]
<1>1. Sound(fat, st2)
  BY FreshSound
<1>2. /\ \A c \in DataClusters : fat[c] = EMPTY
      /\ \A d \in Clusters, s \in Slots : ~Live(fat, st2, d, s)
  BY FreshIsEmpty
<1> HIDE DEF fat, st2
<1>3. ChainsEnd(fat) /\ NoStubs(fat, st2)
  BY <1>2 DEF ChainsEnd, NoStubs
<1>4. Kept(fat, st2, fat, st2)
  BY DEF Kept
<1>5. Types(fat, st2) /\ Tidy(fat, st2)
  BY <1>1, <1>3 DEF Sound, Tidy
<1>6. Good(fat, st2)
  BY <1>4, <1>5 DEF Good
<1> QED BY <1>6 DEF fat, st2

\* Writes that put what is to be held change the disk into that.
LEMMA PutsChange ==
    ASSUME NEW W, NEW fat, NEW st, NEW fat2, NEW st2, NEW X \in SUBSET (Clusters \ {0, 1}),
           Puts(W, fat2, st2, X), \A c \in Clusters \ X : st2[c] = st[c], Good(fat2, st2)
    PROVE  Changes(W, fat, st, fat2, st2)
<1>1. /\ Leaves(W, 1, fat, fat2)
      /\ \A c \in Clusters \ {0, 1} : Leaves(W, c, st[c], st2[c])
      /\ \A x : Leaves(W, 0, x, x)
  BY PutsLeave
<1>2. st2[0] = st[0] /\ st2[1] = st[1]
  BY ClusterFacts
<1>3. W \in Seq(Writes)
  BY DEF Puts
<1> QED BY <1>1, <1>2, <1>3 DEF Changes

LEMMA ChangesConcat ==
    ASSUME NEW V, NEW W, NEW fat, NEW st, NEW fat1, NEW st1, NEW fat2, NEW st2,
           Changes(V, fat, st, fat1, st1), Changes(W, fat1, st1, fat2, st2)
    PROVE  Changes(V \o W, fat, st, fat2, st2)
<1>1. V \in Seq(Writes) /\ W \in Seq(Writes) /\ V \o W \in Seq(Writes)
  BY ConcatWrites DEF Changes
<1>2. ASSUME NEW x PROVE Leaves(V \o W, 0, x, x)
  <2>1. Leaves(V, 0, x, x) /\ Leaves(W, 0, x, x)
    BY DEF Changes
  <2> QED BY <1>1, <2>1, LeavesConcat
<1>3. Leaves(V \o W, 1, fat, fat2)
  <2>1. Leaves(V, 1, fat, fat1) /\ Leaves(W, 1, fat1, fat2)
    BY DEF Changes
  <2> QED BY <1>1, <2>1, LeavesConcat
<1>4. ASSUME NEW c \in Clusters \ {0, 1} PROVE Leaves(V \o W, c, st[c], st2[c])
  <2>1. Leaves(V, c, st[c], st1[c]) /\ Leaves(W, c, st1[c], st2[c])
    BY DEF Changes
  <2> QED BY <1>1, <2>1, LeavesConcat
<1>5. Good(fat2, st2) /\ st2[0] = st[0] /\ st2[1] = st[1]
  BY DEF Changes
<1> QED BY <1>1, <1>2, <1>3, <1>4, <1>5 DEF Changes

-----------------------------------------------------------------------------
(* The steps. *)

\* The driver is ready for a call: the disk holds a file system, and no writes are
\* left.
LEMMA ReadyFacts ==
    ASSUME DiskInv, Ready
    PROVE  /\ mounted /\ writes = <<>> /\ CutsFine /\ DiskTypes /\ signature \in BOOLEAN
           /\ Types(fat_table, storage) /\ Good(fat_table, storage)
           /\ platter_signature = signature /\ platter_fat = fat_table /\ platter = storage
<1>1. mounted /\ writes = <<>> /\ CutsFine
  BY DEF Ready, CutsFine
<1>2. DiskTypes /\ PoweredOn
  BY <1>1 DEF DiskInv
<1>3. Syncing /\ Good(fat_table, storage)
  BY <1>1, <1>2 DEF PoweredOn
<1>4. platter_signature = signature /\ platter_fat = fat_table /\ platter = storage
  BY <1>1, <1>2, <1>3, NothingLeft
<1> QED BY <1>1, <1>2, <1>3, <1>4 DEF DiskTypes

\* A call that makes the writes W starts.
Called(W, fat2, st2) ==
    /\ Changes(W, fat_table, storage, fat2, st2) /\ Saved(fat2, st2)
    /\ writes' = W /\ UNCHANGED <<platterVars, cuts>>
    /\ call' \in CallKinds
    /\ call' = "delete" => DeleteLeft(W, fat_table, storage)

LEMMA CallStep ==
    ASSUME DiskInv, Ready, NEW fat2, NEW st2, NEW W, Called(W, fat2, st2)
    PROVE  DiskInv'
<1>1. /\ mounted /\ writes = <<>> /\ DiskTypes /\ signature \in BOOLEAN
      /\ platter_signature = signature /\ platter_fat = fat_table /\ platter = storage
  BY ReadyFacts
<1>2. /\ fat_table' = fat2 /\ disk_fat' = fat2 /\ storage' = st2
      /\ signature' = signature /\ mounted' = mounted
  BY DEF Called, Saved
<1>3. /\ writes' = W /\ call' \in CallKinds /\ cuts' = cuts
      /\ platter_signature' = platter_signature /\ platter_fat' = platter_fat
      /\ platter' = platter
      /\ call' = "delete" => DeleteLeft(W, fat_table, storage)
  BY DEF Called, platterVars
<1>4. /\ W \in Seq(Writes) /\ Good(fat2, st2) /\ Types(fat2, st2)
      /\ \A x : Leaves(W, 0, x, x)
      /\ Leaves(W, 1, fat_table, fat2)
      /\ \A c \in Clusters \ {0, 1} : Leaves(W, c, storage[c], st2[c])
      /\ st2[0] = storage[0] /\ st2[1] = storage[1]
  BY DEF Called, Changes, Good
<1>5. DiskTypes'
  <2>1. /\ (signature \in BOOLEAN)' /\ (platter_signature \in BOOLEAN)'
    BY <1>1, <1>2, <1>3
  <2> QED BY <1>1, <1>2, <1>3, <1>4, <2>1 DEF DiskTypes
<1>6. Syncing'
  <2>1. Leaves(W, 0, platter_signature, signature)
    BY <1>1, <1>4
  <2>2. Leaves(writes, 0, platter_signature, signature)'
    BY <1>2, <1>3, <2>1
  <2>3. /\ Leaves(writes, 1, platter_fat, fat_table)'
        /\ \A c \in Clusters \ {0, 1} : Leaves(writes, c, platter[c], storage[c])'
        /\ platter'[0] = storage'[0] /\ platter'[1] = storage'[1]
    BY <1>1, <1>2, <1>3, <1>4
  <2> QED BY <2>2, <2>3 DEF Syncing
<1>7. PoweredOn'
  BY <1>2, <1>4, <1>6 DEF PoweredOn
<1>8. (call = "delete" /\ writes # <<>> => DeleteLeft(writes, platter_fat, platter))'
  BY <1>1, <1>3
<1> QED BY <1>1, <1>2, <1>5, <1>7, <1>8 DEF DiskInv

LEMMA DeleteStep ==
    ASSUME DiskInv, NEW p \in Folders, NEW name \in Names, NEW ext \in Exts,
           CallDelete(p, name, ext)
    PROVE  DiskInv'
<1>1. Ready /\ signature \in BOOLEAN /\ Types(fat_table, storage) /\ Good(fat_table, storage)
  BY ReadyFacts DEF CallDelete
<1>2. PICK f, r : Kept(fat_table, storage, f, r) /\ Tidy(f, r)
  BY <1>1 DEF Good
<1>3. (delete(p, name, ext) \/ delete_folder_rec(p, name, ext)) /\ retcode' = 0
  BY DEF CallDelete
<1>4. PICK s, C : /\ Deletes(fat_table, storage, f, r, p, s, C)
                  /\ EntryOf(storage, p, name, ext) = r[p].table[s]
                  /\ Saved(FreedTable(fat_table, C), Erased(storage, C, p, s))
  BY <1>1, <1>2, <1>3, DeleteRuns
<1> DEFINE fat2 == FreedTable(fat_table, C)
           st2 == Erased(storage, C, p, s)
           e == r[p].table[s]
<1>5. fat_table' = fat2 /\ storage' = st2
  BY <1>4 DEF Saved
<1>6. PICK W, others : W \in DeleteOrders(fat_table, storage, p, e, fat2, st2)
                       /\ Starts("delete", W, others)
  BY <1>4, <1>5 DEF CallDelete
<1>7. /\ Types(fat2, st2) /\ C \cup {p} \in SUBSET (Clusters \ {0, 1})
      /\ \A c \in Clusters \ (C \cup {p}) : st2[c] = storage[c]
  BY <1>4, DeletesFacts
<1>8. Puts(W, fat2, st2, C \cup {p}) /\ DeleteLeft(W, fat_table, storage)
  BY <1>4, <1>6, DeleteOrdered
<1>9. Good(fat2, st2)
  <2>1. fat2 \in [Clusters -> FatValues]
    BY <1>7 DEF Types
  <2>2. \A c \in Clusters \ C : fat2[c] = fat_table[c]
    BY DEF FreedTable
  <2> HIDE DEF fat2
  <2> QED BY <1>4, <2>1, <2>2, CutTable
<1> HIDE DEF fat2, st2
<1>10. Changes(W, fat_table, storage, fat2, st2)
  <2> DEFINE X == C \cup {p}
  <2>1. /\ X \in SUBSET (Clusters \ {0, 1}) /\ Puts(W, fat2, st2, X)
        /\ \A c \in Clusters \ X : st2[c] = storage[c]
    BY <1>7, <1>8
  <2> HIDE DEF X
  <2> QED BY <1>9, <2>1, PutsChange
<1>11. Saved(fat2, st2)
  BY <1>4 DEF fat2, st2
<1>12. Called(W, fat2, st2)
  BY <1>6, <1>8, <1>10, <1>11 DEF Called, Starts, CallKinds
<1> QED BY <1>1, <1>12, CallStep

\* What a new entry changes.
LEMMA GrownChanges ==
    ASSUME NEW fat, NEW st, NEW f, NEW r, Kept(fat, st, f, r), Tidy(f, r), NEW p \in Clusters,
           IsDir(f, r, p), NEW s, NEW e, NEW m, NEW a, NEW fat2, NEW st2,
           Grown(fat, st, p, s, e, m, a, fat2, st2), Good(fat2, st2)
    PROVE  /\ Changes(WriteOrder(fat2, st2, p, e.name, e.ext), fat, st, fat2, st2)
           /\ Puts(WriteOrder(fat2, st2, p, e.name, e.ext), fat2, st2, Taken(m, a) \cup {p})
<1> DEFINE X == Taken(m, a) \cup {p}
           W == WriteOrder(fat2, st2, p, e.name, e.ext)
<1>1. p \in Clusters \ {0, 1}
  BY DEF Tidy, Sound, Reserved, IsDir
<1>2. Puts(W, fat2, st2, X)
  BY <1>1, GrownOrder
<1>3. X \in SUBSET (Clusters \ {0, 1})
  <2>1. m \in 1 .. CLUSTER_MAP_SIZE /\ a \in [0 .. m - 1 -> FreeClusters(fat)]
    BY DEF Grown
  <2>2. \A c \in FreeClusters(fat) : c \in Clusters \ {0, 1}
    BY ClusterFacts DEF FreeClusters
  <2>3. \A c \in Taken(m, a) : c \in Clusters \ {0, 1}
    BY <2>1, <2>2 DEF Taken
  <2> QED BY <1>1, <2>3
<1>4. \A c \in Clusters \ X : st2[c] = st[c]
  BY DEF Grown
<1> HIDE DEF X, W
<1>5. Changes(W, fat, st, fat2, st2)
  BY <1>2, <1>3, <1>4, PutsChange
<1> QED BY <1>2, <1>5 DEF W, X

LEMMA WriteStep ==
    ASSUME ~FullDisk, DiskInv, NEW p \in Folders, NEW name \in Names, NEW ext \in Exts,
           CallWrite(p, name, ext)
    PROVE  DiskInv'
<1>1. Ready /\ signature \in BOOLEAN /\ Types(fat_table, storage) /\ Good(fat_table, storage)
  BY ReadyFacts DEF CallWrite
<1>2. PICK f, r : Kept(fat_table, storage, f, r) /\ Tidy(f, r)
  BY <1>1 DEF Good
<1>3. \/ WriteFolder(p, name, ext)
      \/ \E v \in Values, n \in Sizes : WriteFile(p, name, ext, v, n)
  BY DEF CallWrite
<1>4. PICK fat2, st2, s, e, m, a :
         /\ Good(fat2, st2) /\ Grown(fat_table, storage, p, s, e, m, a, fat2, st2)
         /\ e.name = name /\ e.ext = ext /\ Saved(fat2, st2)
  BY <1>1, <1>2, <1>3, WriteRuns
<1>5. p \in Clusters /\ IsDir(f, r, p)
  BY <1>1, <1>2, FoldersKept DEF Tidy
<1> DEFINE W == WriteOrder(fat2, st2, p, e.name, e.ext)
<1>6. Changes(W, fat_table, storage, fat2, st2)
  BY <1>2, <1>4, <1>5, GrownChanges
<1>7. fat_table' = fat2 /\ storage' = st2
  BY <1>4 DEF Saved
<1>8. PICK others : Starts("write", W, others)
  BY <1>4, <1>7 DEF CallWrite
<1> HIDE DEF W
<1>9. Called(W, fat2, st2)
  BY <1>4, <1>6, <1>8 DEF Called, Starts, CallKinds
<1> QED BY <1>1, <1>9, CallStep

LEMMA CopyFileStep ==
    ASSUME ~FullDisk, DiskInv, NEW p \in Folders, NEW name \in Names, NEW ext \in Exts,
           NEW q \in Folders, NEW name2 \in Names, NEW ext2 \in Exts,
           CallCopy(p, name, ext, q, name2, ext2)
    PROVE  DiskInv'
<1>1. Ready /\ signature \in BOOLEAN /\ Types(fat_table, storage) /\ Good(fat_table, storage)
  BY ReadyFacts DEF CallCopy
<1>2. PICK f, r : Kept(fat_table, storage, f, r) /\ Tidy(f, r)
  BY <1>1 DEF Good
<1>3. PICK W, others : W \in CopyOrders(q, name2, ext2) /\ W # <<>> /\ Starts("write", W, others)
  BY DEF CallCopy
<1>4. FilesMatching(storage, p, name, ext) # {} /\ copy_file(p, name, ext, q, name2, ext2)
  BY DEF CallCopy
<1>5. PICK fat1, st1, fat2, st2, s, e, m, a, V :
         /\ Good(fat2, st2) /\ Grown(fat1, st1, q, s, e, m, a, fat2, st2)
         /\ e.name = name2 /\ e.ext = ext2 /\ Saved(fat2, st2)
         /\ W = V \o WriteOrder(fat2, st2, q, name2, ext2)
         /\ \/ V = <<>> /\ fat1 = fat_table /\ st1 = storage
            \/ \E t, C : /\ ClearsFile(f, r, q, name2, ext2, t, C)
                         /\ fat1 = FreedTable(fat_table, C) /\ st1 = Erased(storage, C, q, t)
                         /\ V \in DeleteOrders(fat_table, storage, q, r[q].table[t], fat1, st1)
  BY <1>1, <1>2, <1>3, <1>4, CopyRuns
<1>6. q \in Clusters /\ IsDir(f, r, q)
  BY <1>1, <1>2, FoldersKept DEF Tidy
<1> DEFINE U == WriteOrder(fat2, st2, q, name2, ext2)
<1>7. CASE V = <<>> /\ fat1 = fat_table /\ st1 = storage
  <2>1. Changes(U, fat_table, storage, fat2, st2)
    BY <1>2, <1>5, <1>6, <1>7, GrownChanges
  <2>2. U \in Seq(Writes)
    BY <2>1 DEF Changes
  <2>3. <<>> \o U = U
    BY <2>2, ConcatEmptySeq
  <2>4. W = U
    BY <1>5, <1>7, <2>3
  <2> HIDE DEF U
  <2>5. Called(W, fat2, st2)
    BY <1>3, <1>5, <2>1, <2>4 DEF Called, Starts, CallKinds
  <2> QED BY <1>1, <2>5, CallStep
<1>8. ASSUME NEW t, NEW C, ClearsFile(f, r, q, name2, ext2, t, C),
             fat1 = FreedTable(fat_table, C), st1 = Erased(storage, C, q, t),
             V \in DeleteOrders(fat_table, storage, q, r[q].table[t], fat1, st1)
      PROVE  DiskInv'
  <2>1. Deletes(fat_table, storage, f, r, q, t, C)
    BY <1>8 DEF ClearsFile
  <2>2. /\ Types(fat1, st1) /\ C \cup {q} \in SUBSET (Clusters \ {0, 1})
        /\ \A c \in Clusters \ (C \cup {q}) : st1[c] = storage[c]
    BY <1>8, <2>1, DeletesFacts
  <2>3. Puts(V, fat1, st1, C \cup {q})
    BY <1>8, <2>1, DeleteOrdered
  <2>4. PICK f1, r1 : Kept(fat1, st1, f1, r1) /\ Tidy(f1, r1) /\ IsDir(f1, r1, q)
    BY <1>8, ClearedRoom
  <2>5. Good(fat1, st1)
    BY <2>2, <2>4 DEF Good
  <2>6. Changes(V, fat_table, storage, fat1, st1)
    <3> DEFINE X == C \cup {q}
    <3>1. /\ X \in SUBSET (Clusters \ {0, 1}) /\ Puts(V, fat1, st1, X)
          /\ \A c \in Clusters \ X : st1[c] = storage[c]
      BY <2>2, <2>3
    <3> HIDE DEF X
    <3> QED BY <2>5, <3>1, PutsChange
  <2>7. Changes(U, fat1, st1, fat2, st2)
    BY <1>5, <1>6, <2>4, GrownChanges
  <2>8. W = V \o U
    BY <1>5
  <2> HIDE DEF U
  <2>9. Changes(W, fat_table, storage, fat2, st2)
    BY <2>6, <2>7, <2>8, ChangesConcat
  <2>10. Called(W, fat2, st2)
    BY <1>3, <1>5, <2>9 DEF Called, Starts, CallKinds
  <2> QED BY <1>1, <2>10, CallStep
<1> QED BY <1>5, <1>7, <1>8

\* Power-on of a disk with a file system, and of a new one.
LEMMA MountStep ==
    ASSUME DiskInv, PowerOn, signature
    PROVE  DiskInv'
<1>1. DiskTypes /\ ~mounted /\ writes = <<>> /\ PoweredOff
  BY DEF DiskInv, PowerOn
<1>2. /\ fat_table' = disk_fat /\ disk_fat' = disk_fat /\ storage' = storage
      /\ (signature' <=> signature) /\ mounted'
      /\ platter_fat' = platter_fat /\ platter' = platter
      /\ writes' = writes /\ call' = call /\ cuts' = cuts
  BY DEF PowerOn, initialize_filesystem_fat32, platterVars
<1>3. signature' = signature /\ platter_signature' = platter_signature
  BY DEF PowerOn, initialize_filesystem_fat32, platterVars
<1>4. DiskTypes'
  <2>1. (signature \in BOOLEAN)' /\ (platter_signature \in BOOLEAN)'
    BY <1>1, <1>3 DEF DiskTypes
  <2> QED BY <1>1, <1>2, <2>1 DEF DiskTypes
<1>5. Syncing'
  <2>1. (platter_signature = signature)'
    BY <1>1, <1>3 DEF PoweredOff
  <2>2. (platter_fat = fat_table)' /\ (platter = storage)' /\ (writes = <<>>)'
    BY <1>1, <1>2 DEF PoweredOff
  <2>3. Leaves(<<>>, 0, platter_signature', signature')
    BY <2>1, LeavesNothing
  <2>4. Leaves(<<>>, 1, platter_fat', fat_table')
    BY <2>2, LeavesNothing
  <2>5. \A c \in Clusters \ {0, 1} : Leaves(<<>>, c, platter'[c], storage'[c])
    BY <2>2, LeavesNothing
  <2> QED BY <2>2, <2>3, <2>4, <2>5 DEF Syncing
<1>6. (CutsFine => Good(fat_table, storage))'
  BY <1>1, <1>2 DEF PoweredOff, CutsFine
<1> QED BY <1>1, <1>2, <1>4, <1>5, <1>6 DEF DiskInv, PoweredOn

LEMMA FormatStep ==
    ASSUME DiskInv, PowerOn, ~signature
    PROVE  DiskInv'
<1>1. DiskTypes /\ ~mounted /\ writes = <<>> /\ PoweredOff
  BY DEF DiskInv, PowerOn
<1> DEFINE root == EmptyDirectory(ROOT_CLUSTER_NUMBER)
           st2 == [storage EXCEPT ![ROOT_CLUSTER_NUMBER] = root]
           W == <<PutSignature, Put(2, root), PutTable(FreshTable)>>
<1>2. /\ storage \in [Clusters -> Blocks] /\ storage[0].kind # "dir" /\ storage[1].kind # "dir"
      /\ ROOT_CLUSTER_NUMBER = 2 /\ 0 \in Clusters /\ 1 \in Clusters /\ 2 \in Clusters
  BY <1>1, ClusterFacts DEF DiskTypes, Types, ROOT_CLUSTER_NUMBER
<1>3. Good(FreshTable, st2)
  BY <1>2, FreshGood
<1>4. /\ Types(FreshTable, st2)
      /\ st2[2] = root /\ \A c \in Clusters \ {2} : st2[c] = storage[c]
  BY <1>2, <1>3 DEF Good
<1>5. root \in Blocks
  BY <1>2, <1>4 DEF Types
<1>6. /\ PutSignature \in Writes /\ PutSignature.at = 0 /\ PutSignature.is = TRUE
      /\ Put(2, root) \in Writes /\ Put(2, root).at = 2 /\ Put(2, root).is = root
      /\ PutTable(FreshTable) \in Writes /\ PutTable(FreshTable).at = 1
      /\ PutTable(FreshTable).is = FreshTable
  BY <1>2, <1>4, <1>5, WriteFacts DEF Types
<1>7. /\ fat_table' = FreshTable /\ disk_fat' = FreshTable /\ storage' = st2 /\ mounted'
      /\ writes' = W /\ call' = "format" /\ cuts' = cuts
      /\ platter_fat' = platter_fat /\ platter' = platter
  BY <1>2, <1>4 DEF PowerOn, initialize_filesystem_fat32, create_fat32, Starts, FormatOrder, platterVars
<1>8. signature' = TRUE /\ platter_signature' = platter_signature
  BY DEF PowerOn, initialize_filesystem_fat32, create_fat32, Starts, platterVars
<1> HIDE DEF st2, root
<1>9. /\ W \in Seq(Writes) /\ Len(W) = 3
      /\ W[1] = PutSignature /\ W[2] = Put(2, root) /\ W[3] = PutTable(FreshTable)
  BY <1>6
<1> HIDE DEF W
<1>10. \A i \in 1 .. Len(W) : i = 1 \/ i = 2 \/ i = 3
  BY <1>9
<1>11. 1 \in 1 .. Len(W) /\ 2 \in 1 .. Len(W) /\ 3 \in 1 .. Len(W)
  BY <1>9
<1>12. Leaves(W, 0, platter_signature, TRUE)
  <2>1. \A i \in 1 .. Len(W) : W[i].at = 0 => W[i].is = TRUE
    BY <1>6, <1>9, <1>10
  <2>2. \E i \in 1 .. Len(W) : W[i].at = 0
    BY <1>6, <1>9, <1>11
  <2> QED BY <1>9, <2>1, <2>2, LeavesWritten
<1>13. Leaves(W, 1, platter_fat, FreshTable)
  <2>1. \A i \in 1 .. Len(W) : W[i].at = 1 => W[i].is = FreshTable
    BY <1>6, <1>9, <1>10
  <2>2. \E i \in 1 .. Len(W) : W[i].at = 1
    BY <1>6, <1>9, <1>11
  <2> QED BY <1>9, <2>1, <2>2, LeavesWritten
<1>14. ASSUME NEW c \in Clusters \ {0, 1}
       PROVE  Leaves(W, c, platter[c], st2[c])
  <2>1. \A i \in 1 .. Len(W) : W[i].at = c => W[i].is = st2[c]
    BY <1>4, <1>6, <1>9, <1>10
  <2>2. platter[c] = st2[c] \/ \E i \in 1 .. Len(W) : W[i].at = c
    BY <1>1, <1>4, <1>6, <1>9, <1>11 DEF PoweredOff
  <2> QED BY <1>9, <2>1, <2>2, LeavesWritten
<1>15. Syncing'
  <2>1. Leaves(writes, 0, platter_signature, signature)'
    BY <1>7, <1>8, <1>12
  <2>2. platter'[0] = storage'[0] /\ platter'[1] = storage'[1]
    BY <1>1, <1>2, <1>4, <1>7 DEF PoweredOff
  <2> QED BY <1>7, <1>13, <1>14, <2>1, <2>2 DEF Syncing
<1>16. DiskTypes'
  <2>1. (signature \in BOOLEAN)' /\ (platter_signature \in BOOLEAN)'
    BY <1>1, <1>8 DEF DiskTypes
  <2> QED BY <1>1, <1>2, <1>4, <1>7, <1>9, <2>1 DEF DiskTypes, CallKinds
<1>17. PoweredOn'
  BY <1>3, <1>7, <1>15 DEF PoweredOn
<1> QED BY <1>7, <1>16, <1>17 DEF DiskInv

\* The next write is made.
LEMMA DiskWriteStep ==
    ASSUME DiskInv, DiskWrite
    PROVE  DiskInv'
<1> DEFINE w == writes[1]
<1>1. DiskTypes /\ writes # <<>> /\ mounted /\ PoweredOn
  BY DEF DiskInv, PoweredOff, DiskWrite
<1>2. writes \in Seq(Writes) /\ platter \in [Clusters -> Blocks]
  BY <1>1 DEF DiskTypes, Types
<1>3. /\ Head(writes) = w /\ w \in Writes /\ Tail(writes) \in Seq(Writes)
      /\ Len(writes) \in Nat \ {0} /\ Len(Tail(writes)) = Len(writes) - 1
  BY <1>1, <1>2, FirstWrite
<1>4. /\ w.at = 1 => w.is \in [Clusters -> FatValues]
      /\ w.at \notin {0, 1} => w.at \in Clusters /\ w.is \in Blocks
  BY <1>3, WriteFacts
<1>5. w.at = 0 => w.is = TRUE
  BY <1>3, WriteFacts
<1>6. /\ platter_fat' = (IF w.at = 1 THEN w.is ELSE platter_fat)
      /\ platter' = (IF w.at \in {0, 1} THEN platter ELSE Holds(platter, w.at, w.is))
      /\ writes' = Tail(writes)
      /\ fat_table' = fat_table /\ disk_fat' = disk_fat /\ storage' = storage
      /\ mounted' = mounted /\ call' = call /\ cuts' = cuts
  BY <1>3 DEF DiskWrite, vars
<1>7. signature' = signature /\ platter_signature' = (platter_signature \/ w.at = 0)
  BY <1>3 DEF DiskWrite, vars
<1> HIDE DEF w
<1>8. signature \in BOOLEAN /\ platter_signature \in BOOLEAN
  BY <1>1 DEF DiskTypes
<1>9. platter_signature' = (IF w.at = 0 THEN w.is ELSE platter_signature)
  <2>1. CASE w.at = 0
    <3>1. platter_signature' = TRUE
      BY <1>7, <2>1, Zenon
    <3> QED BY <1>5, <2>1, <3>1, Zenon
  <2>2. CASE w.at # 0
    <3>1. platter_signature' = platter_signature
      BY <1>7, <1>8, <2>2, Zenon
    <3> QED BY <2>2, <3>1, Zenon
  <2> QED BY <2>1, <2>2
<1>10. /\ platter' \in [Clusters -> Blocks] /\ platter'[0] = platter[0] /\ platter'[1] = platter[1]
       /\ \A c \in Clusters \ {0, 1} : platter'[c] = IF w.at = c THEN w.is ELSE platter[c]
  BY <1>2, <1>4, <1>6, ClusterFacts DEF Holds
<1>11. DiskTypes'
  <2>1. (signature \in BOOLEAN)' /\ (platter_signature \in BOOLEAN)'
    <3>1. platter_signature' \in BOOLEAN
      BY <1>7, Zenon
    <3> QED BY <1>7, <1>8, <3>1
  <2>2. platter_fat' \in [Clusters -> FatValues]
    BY <1>1, <1>4, <1>6 DEF DiskTypes, Types
  <2> QED BY <1>1, <1>3, <1>6, <1>10, <2>1, <2>2 DEF DiskTypes, Types
<1>12. Syncing'
  <2>0. Syncing
    BY <1>1 DEF PoweredOn
  <2>1. Leaves(Tail(writes), 0, platter_signature', signature')
    <3>1. Leaves(writes, 0, platter_signature, signature)
      BY <2>0 DEF Syncing
    <3>2. Leaves(Tail(writes), 0, IF w.at = 0 THEN w.is ELSE platter_signature, signature)
      BY <1>1, <1>2, <3>1, LeavesTail DEF w
    <3> QED BY <1>7, <1>9, <3>2, Zenon
  <2>2. Leaves(Tail(writes), 1, platter_fat', fat_table')
    <3>1. Leaves(writes, 1, platter_fat, fat_table)
      BY <2>0 DEF Syncing
    <3>2. Leaves(Tail(writes), 1, IF w.at = 1 THEN w.is ELSE platter_fat, fat_table)
      BY <1>1, <1>2, <3>1, LeavesTail DEF w
    <3> QED BY <1>6, <3>2
  <2>3. ASSUME NEW c \in Clusters \ {0, 1}
        PROVE  Leaves(Tail(writes), c, platter'[c], storage'[c])
    <3>1. Leaves(writes, c, platter[c], storage[c])
      BY <2>0 DEF Syncing
    <3>2. Leaves(Tail(writes), c, IF w.at = c THEN w.is ELSE platter[c], storage[c])
      BY <1>1, <1>2, <3>1, LeavesTail DEF w
    <3> QED BY <1>6, <1>10, <3>2
  <2>4. platter'[0] = storage'[0] /\ platter'[1] = storage'[1]
    BY <1>6, <1>10, <2>0 DEF Syncing
  <2>5. Leaves(writes, 0, platter_signature, signature)'
    BY <1>6, <2>1
  <2> QED BY <1>6, <2>2, <2>3, <2>4, <2>5 DEF Syncing
<1>13. PoweredOn'
  BY <1>1, <1>6, <1>12 DEF PoweredOn, CutsFine
<1>14. ASSUME call' = "delete", writes' # <<>>
       PROVE  DeleteLeft(writes', platter_fat', platter')
  <2>1. DeleteLeft(writes, platter_fat, platter)
    BY <1>1, <1>6, <1>14 DEF DiskInv
  <2>2. Len(writes) # 1
    BY <1>3, <1>6, <1>14, EmptySeq
  <2>3. /\ w.at \notin {0, 1}
        /\ DeleteLeft(Tail(writes), platter_fat, Holds(platter, w.at, w.is))
    BY <1>2, <2>1, <2>2, DeleteNext DEF w
  <2>4. platter_fat' = platter_fat /\ platter' = Holds(platter, w.at, w.is)
    BY <1>6, <2>3
  <2> QED BY <1>6, <2>3, <2>4
<1> QED BY <1>1, <1>6, <1>11, <1>13, <1>14 DEF DiskInv

\* Power is lost.
LEMMA PowerLossStep ==
    ASSUME DiskInv, PowerLoss
    PROVE  DiskInv'
<1> DEFINE w == writes[1]
<1>1. DiskTypes /\ writes # <<>> /\ mounted /\ PoweredOn
  BY DEF DiskInv, PoweredOff, PowerLoss
<1>2. writes \in Seq(Writes) /\ platter \in [Clusters -> Blocks] /\ Types(platter_fat, platter)
  BY <1>1 DEF DiskTypes, Types
<1>3. Head(writes) = w /\ w \in Writes
  BY <1>1, <1>2, FirstWrite
<1>4. /\ w.at = 1 => w.is \in [Clusters -> FatValues]
      /\ w.at \notin {0, 1} => w.at \in Clusters /\ w.is \in Blocks
  BY <1>3, WriteFacts
<1>5. PICK k \in 0 .. 3 :
         /\ disk_fat' = (IF w.at = 1 THEN TornTable(platter_fat, w.is, k) ELSE platter_fat)
         /\ storage' = (IF w.at \in {0, 1} THEN platter
                        ELSE Holds(platter, w.at, TornCluster(platter[w.at], w.is, k)))
  BY <1>3 DEF PowerLoss, CLUSTER_BLOCK_COUNT
<1>6. /\ platter_fat' = disk_fat' /\ platter' = storage'
      /\ fat_table' = [c \in Clusters |-> EMPTY] /\ mounted' = FALSE /\ writes' = <<>>
      /\ cuts' = Append(cuts, call) /\ call' = call
  BY DEF PowerLoss
<1>7. signature' = platter_signature /\ platter_signature' = platter_signature
  BY DEF PowerLoss
<1>8. k \in Nat
  OBVIOUS
<1> HIDE DEF w
<1>9. disk_fat' \in [Clusters -> FatValues]
  BY <1>2, <1>4, <1>5 DEF Types, TornTable
<1>10. /\ storage' \in [Clusters -> Blocks]
       /\ storage'[0] = platter[0] /\ storage'[1] = platter[1]
  <2>1. w.at \notin {0, 1} => TornCluster(platter[w.at], w.is, k) \in Blocks
    BY <1>2, <1>4, <1>8, TornFacts
  <2> QED BY <1>2, <1>4, <1>5, <2>1, ClusterFacts DEF Holds
<1>11. DiskTypes'
  <2>1. (signature \in BOOLEAN)' /\ (platter_signature \in BOOLEAN)'
    BY <1>1, <1>7 DEF DiskTypes
  <2>2. storage'[0].kind # "dir" /\ storage'[1].kind # "dir"
    BY <1>1, <1>10 DEF DiskTypes, PoweredOn, Syncing
  <2>3. Append(cuts, call) \in Seq(CallKinds) /\ <<>> \in Seq(Writes)
    BY <1>1, AppendProperties DEF DiskTypes
  <2>4. fat_table' \in [Clusters -> FatValues]
    <3>1. EMPTY \in FatValues
      BY ClusterFacts DEF FatValues, EMPTY
    <3> QED BY <1>6, <3>1
  <2> QED BY <1>1, <1>6, <1>9, <1>10, <2>1, <2>2, <2>3, <2>4 DEF DiskTypes, Types
<1>12. ASSUME CutsFine' PROVE Good(disk_fat', storage')
  <2>1. cuts \in Seq(CallKinds) /\ call \in CallKinds
    BY <1>1 DEF DiskTypes
  <2>2. /\ Len(cuts) \in Nat /\ Len(Append(cuts, call)) = Len(cuts) + 1
        /\ Append(cuts, call)[Len(cuts) + 1] = call
    BY <2>1, AppendProperties, LenProperties
  <2>3. call \in Range(Append(cuts, call))
    <3>1. DOMAIN Append(cuts, call) = 1 .. Len(cuts) + 1
      BY <2>1, <2>2
    <3>2. Len(cuts) + 1 \in DOMAIN Append(cuts, call)
      BY <2>2, <3>1
    <3> QED BY <2>2, <3>2 DEF Range
  <2>4. call = "delete"
    BY <1>6, <1>12, <2>3 DEF CutsFine
  <2>5. DeleteLeft(writes, platter_fat, platter)
    BY <1>1, <2>4 DEF DiskInv
  <2> DEFINE fat2 == disk_fat'
             st2 == storage'
  <2>6. /\ fat2 = (IF w.at = 1 THEN TornTable(platter_fat, w.is, k) ELSE platter_fat)
        /\ st2 = (IF w.at \in {0, 1} THEN platter
                  ELSE Holds(platter, w.at, TornCluster(platter[w.at], w.is, k)))
    BY <1>5
  <2>7. w = writes[1]
    BY DEF w
  <2> HIDE DEF fat2, st2
  <2>8. Good(fat2, st2)
    BY <1>1, <1>2, <1>8, <2>5, <2>6, <2>7, DeleteCut
  <2> QED BY <2>8 DEF fat2, st2
<1>13. PoweredOff'
  <2>1. (platter_signature = signature)'
    BY <1>7
  <2> QED BY <1>6, <1>12, <2>1 DEF PoweredOff
<1> QED BY <1>6, <1>11, <1>13 DEF DiskInv

-----------------------------------------------------------------------------
(* Theorems. *)

LEMMA DiskStarts ==
    DiskInit => DiskInv
<1> SUFFICES ASSUME DiskInit PROVE DiskInv
  OBVIOUS
<1>1. /\ fat_table = [c \in Clusters |-> EMPTY] /\ disk_fat = [c \in Clusters |-> EMPTY]
      /\ storage = [c \in Clusters |-> Zeros] /\ ~mounted
      /\ platter_fat = disk_fat /\ platter = storage
      /\ writes = <<>> /\ call = "none" /\ cuts = <<>>
  BY DEF DiskInit, Init
<1>2. signature = FALSE /\ platter_signature = signature
  BY DEF DiskInit, Init
<1>3. EMPTY \in FatValues /\ Zeros \in Blocks /\ Zeros.kind # "dir"
      /\ 0 \in Clusters /\ 1 \in Clusters
  BY ClusterFacts DEF FatValues, EMPTY, Blocks, Zeros
<1>4. DiskTypes
  <2>1. signature \in BOOLEAN /\ platter_signature \in BOOLEAN
    BY <1>2
  <2>2. <<>> \in Seq(Writes) /\ <<>> \in Seq(CallKinds)
    OBVIOUS
  <2> QED BY <1>1, <1>3, <2>1, <2>2 DEF DiskTypes, Types, CallKinds
<1>5. PoweredOff
  <2>1. ~signature
    BY <1>2
  <2> QED BY <1>1, <1>2, <2>1 DEF PoweredOff
<1> QED BY <1>1, <1>4, <1>5 DEF DiskInv

LEMMA DiskInductive ==
    ASSUME ~FullDisk, DiskInv, [DiskNext]_diskVars
    PROVE  DiskInv'
<1>1. CASE PowerOn
  BY <1>1, MountStep, FormatStep
<1>2. CASE DiskWrite
  BY <1>2, DiskWriteStep
<1>3. CASE PowerLoss
  BY <1>3, PowerLossStep
<1>4. ASSUME NEW p \in Folders, NEW name \in Names, NEW ext \in Exts,
             \/ CallWrite(p, name, ext)
             \/ CallDelete(p, name, ext)
             \/ \E q \in Folders, name2 \in Names, ext2 \in Exts :
                   CallCopy(p, name, ext, q, name2, ext2)
      PROVE  DiskInv'
  BY <1>4, WriteStep, DeleteStep, CopyFileStep
<1>5. CASE UNCHANGED diskVars
  BY <1>5 DEF diskVars, vars, platterVars, DiskInv, DiskTypes, PoweredOn, PoweredOff, Syncing,
              CutsFine
<1> QED BY <1>1, <1>2, <1>3, <1>4, <1>5 DEF DiskNext

\* At every moment the writes that are left turn what the disk holds into what
\* the driver believes, and as long as power was lost only inside delete
\* (src/src/fat32.c) the disk holds a file system.
THEOREM DiskInvariance ==
    ASSUME ~FullDisk
    PROVE  DiskSpec => []DiskInv
BY DiskStarts, DiskInductive, PTL DEF DiskSpec

\* When a call is done (write, delete, copy, create_fat32), the disk holds what
\* the driver believes it holds, whatever earlier calls were cut.
THEOREM CallsReachTheDisk ==
    ASSUME ~FullDisk
    PROVE  DiskSpec => []DiskInSync
<1>1. DiskInv => DiskInSync
  BY NothingLeft DEF DiskInv, PoweredOn, DiskInSync
<1> QED BY <1>1, DiskInvariance, PTL

\* Deletions that were cut anywhere in rec_delete or between its writes never
\* make two files share a cluster or an entry lead to a free one, whatever calls
\* follow: delete clears the entry on disk before it frees the clusters.
THEOREM CutDeletionsKeepOwnersApart ==
    ASSUME ~FullDisk
    PROVE  DiskSpec => []OwnersApart
<1>1. DiskInv => OwnersApart
  <2> SUFFICES ASSUME DiskInv, mounted, CutsFine PROVE OwnersApart
    BY DEF OwnersApart, CutsFine
  <2>1. Good(fat_table, storage)
    BY DEF DiskInv, PoweredOn
  <2> QED BY <2>1, GoodOwners DEF OwnersApart
<1> QED BY <1>1, DiskInvariance, PTL

-----------------------------------------------------------------------------
(* What a call that is cut spares. *)

\* Node, on a disk that holds fat and st.
NodeIn(fat, st, p, k) ==
    LET match == Matching(st, p, k[1], k[2])
        e     == Table(st, p)[CHOOSE s \in match : TRUE]
    IN  IF match = {} THEN Missing
        ELSE IF e.folder THEN [kind |-> "folder", id |-> e.cluster]
        ELSE [kind |-> "file", data |-> Contents(fat, st, e)]

HasKey(e, k) == e # NoEntry /\ e.name = k[1] /\ e.ext = k[2]

\* Block b is a table that has key k where block b0 has it.
Alike(b0, b, k) ==
    /\ b0.kind \in {"dir", "zeros"} /\ b.kind \in {"dir", "zeros"}
    /\ \A s \in Slots :
          HasKey(SlotsOf(b0)[s], k) \/ HasKey(SlotsOf(b)[s], k) => SlotsOf(b)[s] = SlotsOf(b0)[s]

\* The chain from cluster c on is in G.
ChainIn(fat, c, G) == \E n, g : Chain(fat, c, n, g) /\ \A j \in 0 .. n - 1 : g[j] \in G

\* The chains of the files with key k in folder p are in G.
Holding(fat, st, p, k, G) ==
    /\ p \in Clusters \ {0, 1} /\ G \in SUBSET (Clusters \ {0, 1}) /\ p \notin G
    /\ \A s \in Slots :
          HasKey(SlotsOf(st[p])[s], k) /\ ~SlotsOf(st[p])[s].folder =>
              ChainIn(fat, SlotsOf(st[p])[s].cluster, G)

\* fat and st have key k of folder p, and its chains in G, as fat0 and st0 do.
Near(fat0, st0, p, k, G, fat, st) ==
    /\ Alike(st0[p], st[p], k)
    /\ \A c \in G : fat[c] = fat0[c] /\ st[c] = st0[c]

\* A write that leaves it so.
NearWrite(fat0, st0, p, k, G, w) ==
    /\ w.at = 1 => \A c \in G : w.is[c] = fat0[c]
    /\ w.at \notin G
    /\ w.at = p => Alike(st0[p], w.is, k)

\* Neither the disk nor the writes that are left disturb x.
Spares(x, fat0, st0, G, W, fat, st) ==
    /\ Holding(fat0, st0, x[1], x[2], G) /\ x[3] = NodeIn(fat0, st0, x[1], x[2])
    /\ Near(fat0, st0, x[1], x[2], G, fat, st)
    /\ \A i \in 1 .. Len(W) : NearWrite(fat0, st0, x[1], x[2], G, W[i])

\* The inductive invariant of what is spared.
SparedInv ==
    \A x \in spared : \E fat0, st0, G : Spares(x, fat0, st0, G, writes, platter_fat, platter)

\* The chain of a file tells its contents.
LEMMA SameContents ==
    ASSUME NEW fat, NEW st, NEW fat0, NEW st0, NEW p, NEW key, NEW G, NEW e,
           Near(fat0, st0, p, key, G, fat, st), ChainIn(fat0, e.cluster, G)
    PROVE  Contents(fat, st, e) = Contents(fat0, st0, e)
<1>0. /\ \E n, g : Chain(fat0, e.cluster, n, g) /\ \A j \in 0 .. n - 1 : g[j] \in G
      /\ \A c \in G : fat[c] = fat0[c] /\ st[c] = st0[c]
  BY DEF Near, ChainIn
<1> SUFFICES ASSUME NEW n, NEW g, Chain(fat0, e.cluster, n, g),
                    \A j \in 0 .. n - 1 : g[j] \in G
             PROVE  Contents(fat, st, e) = Contents(fat0, st0, e)
  BY <1>0
<1> DEFINE at == Walk(fat, e.cluster)
           at0 == Walk(fat0, e.cluster)
           L == [k \in 0 .. e.size - 1 |->
                   IF k \in DOMAIN at /\ at[k] \in Clusters THEN st[at[k]] ELSE Unknown]
           L0 == [k \in 0 .. e.size - 1 |->
                   IF k \in DOMAIN at0 /\ at0[k] \in Clusters THEN st0[at0[k]] ELSE Unknown]
<1>1. Chain(fat, e.cluster, n, g)
  BY <1>0 DEF Chain
<1>2. /\ \A k \in 0 .. CLUSTER_MAP_SIZE : IF k < n THEN at[k] = g[k] ELSE at[k] = EOF
      /\ \A k \in 0 .. CLUSTER_MAP_SIZE : IF k < n THEN at0[k] = g[k] ELSE at0[k] = EOF
  BY <1>1, WalkOnChain
<1>3. DOMAIN at = 0 .. CLUSTER_MAP_SIZE /\ DOMAIN at0 = 0 .. CLUSTER_MAP_SIZE
  BY WalkTurns
<1>4. n \in 1 .. CLUSTER_MAP_SIZE /\ CLUSTER_MAP_SIZE \in Nat
  BY FAT32Assumption DEF Chain
<1>5. Contents(fat, st, e) = L /\ Contents(fat0, st0, e) = L0
  BY DEF Contents
<1> HIDE DEF at, at0
<1>6. ASSUME NEW k \in 0 .. e.size - 1 PROVE L[k] = L0[k]
  <2>1. CASE k \in 0 .. CLUSTER_MAP_SIZE /\ k < n
    <3>1. k \in 0 .. n - 1
      BY <1>4, <2>1
    <3>2. at[k] = g[k] /\ at0[k] = g[k] /\ g[k] \in G
      BY <1>2, <2>1, <3>1
    <3> QED BY <1>0, <1>3, <3>2
  <2>2. CASE k \in 0 .. CLUSTER_MAP_SIZE /\ ~(k < n)
    <3>1. at[k] = EOF /\ at0[k] = EOF
      BY <1>2, <2>2
    <3> QED BY <3>1, ClusterFacts
  <2>3. CASE k \notin 0 .. CLUSTER_MAP_SIZE
    BY <1>3, <2>3
  <2> QED BY <2>1, <2>2, <2>3
<1>7. L = L0
  BY <1>6
<1> QED BY <1>5, <1>7

\* What leads to the same is the same.
LEMMA SameNodeIn ==
    ASSUME NEW fat, NEW st, NEW fat0, NEW st0, NEW p, NEW k, NEW G,
           Holding(fat0, st0, p, k, G), Near(fat0, st0, p, k, G, fat, st)
    PROVE  NodeIn(fat, st, p, k) = NodeIn(fat0, st0, p, k)
<1> DEFINE M == Matching(st, p, k[1], k[2])
           M0 == Matching(st0, p, k[1], k[2])
<1>1. SlotsOf(st[p]) = Table(st, p) /\ SlotsOf(st0[p]) = Table(st0, p)
  BY DEF SlotsOf, Table
<1>2. /\ M = {s \in Slots : HasKey(Table(st, p)[s], k)}
      /\ M0 = {s \in Slots : HasKey(Table(st0, p)[s], k)}
  BY DEF Matching, Used, HasKey
<1>3. \A s \in Slots : HasKey(Table(st0, p)[s], k) \/ HasKey(Table(st, p)[s], k) =>
         Table(st, p)[s] = Table(st0, p)[s]
  BY <1>1 DEF Near, Alike
<1>4. M = M0
  BY <1>2, <1>3
<1> DEFINE s == CHOOSE t \in M : TRUE
           e == Table(st, p)[s]
           e0 == Table(st0, p)[s]
<1>5. NodeIn(fat, st, p, k) = IF M = {} THEN Missing
                              ELSE IF e.folder THEN [kind |-> "folder", id |-> e.cluster]
                              ELSE [kind |-> "file", data |-> Contents(fat, st, e)]
  BY DEF NodeIn
<1>6. NodeIn(fat0, st0, p, k) = IF M = {} THEN Missing
                              ELSE IF e0.folder THEN [kind |-> "folder", id |-> e0.cluster]
                              ELSE [kind |-> "file", data |-> Contents(fat0, st0, e0)]
  BY <1>4 DEF NodeIn
<1>7. CASE M = {}
  BY <1>5, <1>6, <1>7
<1>8. CASE M # {}
  <2>1. s \in M
    BY <1>8
  <2> HIDE DEF s
  <2>2. s \in Slots /\ HasKey(e0, k) /\ e = e0
    BY <1>2, <1>3, <1>4, <2>1
  <2>3. CASE e0.folder
    BY <1>5, <1>6, <1>8, <2>2, <2>3
  <2>4. CASE ~e0.folder
    <3>1. ChainIn(fat0, e0.cluster, G)
      BY <1>1, <2>2, <2>4 DEF Holding
    <3>2. Contents(fat, st, e0) = Contents(fat0, st0, e0)
      BY <3>1, SameContents
    <3> QED BY <1>5, <1>6, <1>8, <2>2, <2>4, <3>2
  <2> QED BY <2>3, <2>4
<1> QED BY <1>7, <1>8

\* The blocks of a table that is torn between two that have key k alike have it too.
LEMMA TornAlike ==
    ASSUME NEW b0, NEW old \in Blocks, NEW new \in Blocks, NEW key, NEW k \in Nat,
           Alike(b0, old, key), Alike(b0, new, key)
    PROVE  Alike(b0, TornCluster(old, new, k), key)
<1> DEFINE x == TornCluster(old, new, k)
<1>1. TornTo(old, new, k, x)
  BY TornFacts
<1>2. {old.kind, new.kind} \subseteq {"dir", "zeros"} /\ b0.kind \in {"dir", "zeros"}
  BY DEF Alike
<1> HIDE DEF x
<1>3. CASE k = 0
  BY <1>1, <1>3 DEF TornTo, x
<1>4. CASE k # 0
  <2>1. PICK table \in [Slots -> Entries \cup {NoEntry}] :
           /\ \A s \in Slots : table[s] \in {SlotsOf(old)[s], SlotsOf(new)[s]}
           /\ \/ x = Zeros /\ \A s \in Slots : table[s] = NoEntry
              \/ x = [kind |-> "dir", up |-> IF new.kind = "dir" THEN new.up ELSE 0,
                      table |-> table]
    BY <1>1, <1>2, <1>4 DEF TornTo
  <2>2. x.kind \in {"dir", "zeros"} /\ \A s \in Slots : SlotsOf(x)[s] = table[s]
    BY <2>1 DEF SlotsOf, Zeros
  <2>3. ASSUME NEW s \in Slots, HasKey(SlotsOf(b0)[s], key) \/ HasKey(table[s], key)
        PROVE  table[s] = SlotsOf(b0)[s]
    <3>1. table[s] = SlotsOf(old)[s] \/ table[s] = SlotsOf(new)[s]
      BY <2>1
    <3> QED BY <2>3, <3>1 DEF Alike
  <2>4. Alike(b0, x, key)
    BY <1>2, <2>2, <2>3 DEF Alike
  <2> QED BY <2>4 DEF x
<1> QED BY <1>3, <1>4

\* A write that is made, or torn, leaves what is spared as it is.
LEMMA NearWritten ==
    ASSUME NEW fat0, NEW st0, NEW p \in Clusters \ {0, 1}, NEW key, NEW G \in SUBSET (Clusters \ {0, 1}),
           p \notin G, NEW fat, NEW st \in [Clusters -> Blocks], NEW w \in Writes,
           Near(fat0, st0, p, key, G, fat, st), NearWrite(fat0, st0, p, key, G, w), NEW k \in Nat
    PROVE  /\ Near(fat0, st0, p, key, G, IF w.at = 1 THEN w.is ELSE fat,
                   IF w.at \in {0, 1} THEN st ELSE Holds(st, w.at, w.is))
           /\ Near(fat0, st0, p, key, G, IF w.at = 1 THEN TornTable(fat, w.is, k) ELSE fat,
                   IF w.at \in {0, 1} THEN st
                   ELSE Holds(st, w.at, TornCluster(st[w.at], w.is, k)))
<1>1. w.at \notin {0, 1} => w.at \in Clusters /\ w.is \in Blocks
  BY WriteFacts
<1>2. /\ Alike(st0[p], st[p], key) /\ \A c \in G : fat[c] = fat0[c] /\ st[c] = st0[c]
      /\ w.at = 1 => \A c \in G : w.is[c] = fat0[c]
      /\ w.at \notin G
      /\ w.at = p => Alike(st0[p], w.is, key)
  BY DEF Near, NearWrite
<1> DEFINE fat2 == IF w.at = 1 THEN w.is ELSE fat
           fat3 == IF w.at = 1 THEN TornTable(fat, w.is, k) ELSE fat
           st2 == IF w.at \in {0, 1} THEN st ELSE Holds(st, w.at, w.is)
           b == TornCluster(st[w.at], w.is, k)
           st3 == IF w.at \in {0, 1} THEN st ELSE Holds(st, w.at, b)
<1>3. \A c \in G : c \in Clusters /\ c # w.at
  BY <1>2
<1>4. \A c \in G : fat2[c] = fat0[c]
  BY <1>2
<1>5. \A c \in G : fat3[c] = fat0[c]
  BY <1>2, <1>3 DEF TornTable
<1>6. w.at = p => Alike(st0[p], b, key)
  <2> SUFFICES ASSUME w.at = p PROVE Alike(st0[p], b, key)
    OBVIOUS
  <2>1. st[p] \in Blocks /\ w.is \in Blocks
    BY <1>1
  <2> QED BY <1>2, <2>1, TornAlike
<1> HIDE DEF b
<1>7. \A c \in G : st2[c] = st0[c] /\ st3[c] = st0[c]
  BY <1>1, <1>2, <1>3 DEF Holds
<1>8. Alike(st0[p], st2[p], key)
  BY <1>1, <1>2 DEF Holds
<1>9. Alike(st0[p], st3[p], key)
  BY <1>1, <1>2, <1>6 DEF Holds
<1> HIDE DEF fat2, fat3, st2, st3
<1>10. Near(fat0, st0, p, key, G, fat2, st2) /\ Near(fat0, st0, p, key, G, fat3, st3)
  BY <1>4, <1>5, <1>7, <1>8, <1>9 DEF Near
<1> QED BY <1>10 DEF fat2, fat3, st2, st3, b

LEMMA SparedWritten ==
    ASSUME DiskInv, SparedInv, DiskWrite
    PROVE  SparedInv'
<1> SUFFICES ASSUME NEW x \in spared'
             PROVE  (\E fat0, st0, G : Spares(x, fat0, st0, G, writes, platter_fat, platter))'
  BY DEF SparedInv
<1> DEFINE w == writes[1]
<1>1. DiskTypes /\ writes # <<>>
  BY DEF DiskInv, DiskWrite
<1>2. writes \in Seq(Writes) /\ platter \in [Clusters -> Blocks]
  BY <1>1 DEF DiskTypes, Types
<1>3. /\ Head(writes) = w /\ w \in Writes
      /\ Len(writes) \in Nat \ {0} /\ Len(Tail(writes)) = Len(writes) - 1
      /\ \A i \in 1 .. Len(writes) - 1 : Tail(writes)[i] = writes[i + 1]
  BY <1>1, <1>2, FirstWrite
<1>4. /\ platter_fat' = (IF w.at = 1 THEN w.is ELSE platter_fat)
      /\ platter' = (IF w.at \in {0, 1} THEN platter ELSE Holds(platter, w.at, w.is))
      /\ writes' = Tail(writes) /\ spared' = spared
  BY <1>3 DEF DiskWrite
<1>5. PICK fat0, st0, G : Spares(x, fat0, st0, G, writes, platter_fat, platter)
  BY <1>4 DEF SparedInv
<1>6. /\ Holding(fat0, st0, x[1], x[2], G) /\ x[3] = NodeIn(fat0, st0, x[1], x[2])
      /\ Near(fat0, st0, x[1], x[2], G, platter_fat, platter)
      /\ \A i \in 1 .. Len(writes) : NearWrite(fat0, st0, x[1], x[2], G, writes[i])
  BY <1>5 DEF Spares
<1>7. NearWrite(fat0, st0, x[1], x[2], G, w)
  <2>1. 1 \in 1 .. Len(writes)
    BY <1>3
  <2> QED BY <1>6, <2>1
<1>8. x[1] \in Clusters \ {0, 1} /\ G \in SUBSET (Clusters \ {0, 1}) /\ x[1] \notin G
  BY <1>6 DEF Holding
<1> HIDE DEF w
<1>9. Near(fat0, st0, x[1], x[2], G, platter_fat', platter')
  <2>1. 0 \in Nat
    OBVIOUS
  <2>2. Near(fat0, st0, x[1], x[2], G, IF w.at = 1 THEN w.is ELSE platter_fat,
             IF w.at \in {0, 1} THEN platter ELSE Holds(platter, w.at, w.is))
    BY <1>2, <1>3, <1>6, <1>7, <1>8, <2>1, NearWritten
  <2> QED BY <1>4, <2>2
<1>10. \A i \in 1 .. Len(Tail(writes)) : NearWrite(fat0, st0, x[1], x[2], G, Tail(writes)[i])
  <2> SUFFICES ASSUME NEW i \in 1 .. Len(Tail(writes))
               PROVE  NearWrite(fat0, st0, x[1], x[2], G, Tail(writes)[i])
    OBVIOUS
  <2>1. i \in 1 .. Len(writes) - 1 /\ i + 1 \in 1 .. Len(writes)
    BY <1>3
  <2>2. Tail(writes)[i] = writes[i + 1]
    BY <1>3, <2>1
  <2> QED BY <1>6, <2>1, <2>2
<1>11. Spares(x, fat0, st0, G, writes', platter_fat', platter')
  BY <1>4, <1>6, <1>9, <1>10 DEF Spares
<1> QED BY <1>11

LEMMA SparedCut ==
    ASSUME DiskInv, SparedInv, PowerLoss
    PROVE  SparedInv'
<1> SUFFICES ASSUME NEW x \in spared'
             PROVE  (\E fat0, st0, G : Spares(x, fat0, st0, G, writes, platter_fat, platter))'
  BY DEF SparedInv
<1> DEFINE w == writes[1]
<1>1. DiskTypes /\ writes # <<>>
  BY DEF DiskInv, PowerLoss
<1>2. writes \in Seq(Writes) /\ platter \in [Clusters -> Blocks]
  BY <1>1 DEF DiskTypes, Types
<1>3. Head(writes) = w /\ w \in Writes /\ Len(writes) \in Nat \ {0}
  BY <1>1, <1>2, FirstWrite
<1>4. PICK k \in 0 .. 3 :
         /\ disk_fat' = (IF w.at = 1 THEN TornTable(platter_fat, w.is, k) ELSE platter_fat)
         /\ storage' = (IF w.at \in {0, 1} THEN platter
                        ELSE Holds(platter, w.at, TornCluster(platter[w.at], w.is, k)))
  BY <1>3 DEF PowerLoss, CLUSTER_BLOCK_COUNT
<1>5. /\ platter_fat' = disk_fat' /\ platter' = storage'
      /\ writes' = <<>> /\ spared' = spared /\ k \in Nat
  BY DEF PowerLoss
<1>6. PICK fat0, st0, G : Spares(x, fat0, st0, G, writes, platter_fat, platter)
  BY <1>5 DEF SparedInv
<1>7. /\ Holding(fat0, st0, x[1], x[2], G) /\ x[3] = NodeIn(fat0, st0, x[1], x[2])
      /\ Near(fat0, st0, x[1], x[2], G, platter_fat, platter)
      /\ \A i \in 1 .. Len(writes) : NearWrite(fat0, st0, x[1], x[2], G, writes[i])
  BY <1>6 DEF Spares
<1>8. NearWrite(fat0, st0, x[1], x[2], G, w)
  <2>1. 1 \in 1 .. Len(writes)
    BY <1>3
  <2> QED BY <1>7, <2>1
<1>9. x[1] \in Clusters \ {0, 1} /\ G \in SUBSET (Clusters \ {0, 1}) /\ x[1] \notin G
  BY <1>7 DEF Holding
<1> HIDE DEF w
<1>10. Near(fat0, st0, x[1], x[2], G, disk_fat', storage')
  <2>1. Near(fat0, st0, x[1], x[2], G,
             IF w.at = 1 THEN TornTable(platter_fat, w.is, k) ELSE platter_fat,
             IF w.at \in {0, 1} THEN platter
             ELSE Holds(platter, w.at, TornCluster(platter[w.at], w.is, k)))
    BY <1>2, <1>3, <1>5, <1>7, <1>8, <1>9, NearWritten
  <2> QED BY <1>4, <2>1
<1>11. \A i \in 1 .. Len(<<>>) : NearWrite(fat0, st0, x[1], x[2], G, <<>>[i])
  OBVIOUS
<1>12. Spares(x, fat0, st0, G, writes', platter_fat', platter')
  BY <1>5, <1>7, <1>10, <1>11 DEF Spares
<1> QED BY <1>12

\* The clusters of files that are not in C.
FilesLeft(fat, r, C) ==
    {c \in Clusters \ {0, 1} : fat[c] # EMPTY /\ r[c].kind # "dir" /\ c \notin C}

\* The chains of the files with key k in folder d are not in C.
Outside(f, r, C, d, k) ==
    \A s \in Slots : \A n, g :
        Live(f, r, d, s) /\ HasKey(r[d].table[s], k) /\ Chain(f, r[d].table[s].cluster, n, g) =>
            \A j \in 0 .. n - 1 : g[j] \notin C

\* What a file system that is kept holds.
LEMMA HoldingKept ==
    ASSUME NEW fat, NEW st, NEW f, NEW r, Types(fat, st), Kept(fat, st, f, r), Tidy(f, r),
           NEW d \in Clusters, IsDir(f, r, d), NEW k, NEW C, Outside(f, r, C, d, k)
    PROVE  Holding(fat, st, d, k, FilesLeft(fat, r, C))
<1> DEFINE G == FilesLeft(fat, r, C)
<1>1. Types(f, r) /\ Reserved(f, r)
  BY DEF Tidy, Sound
<1>2. d \in Clusters \ {0, 1} /\ r[d].kind = "dir"
  BY <1>1 DEF Reserved, IsDir
<1>3. G \in SUBSET (Clusters \ {0, 1}) /\ d \notin G
  BY <1>2 DEF FilesLeft
<1>4. SlotsOf(st[d]) = Table(st, d)
  BY DEF SlotsOf, Table
<1>5. ASSUME NEW s \in Slots, HasKey(Table(st, d)[s], k), ~Table(st, d)[s].folder
      PROVE  ChainIn(fat, Table(st, d)[s].cluster, G)
  <2>1. s \in Used(st, d)
    BY <1>5 DEF Used, HasKey
  <2>2. Live(f, r, d, s) /\ r[d].table = Table(st, d)
    BY <1>1, <2>1, KeptFacts
  <2>3. PICK n, g : /\ Chain(f, r[d].table[s].cluster, n, g)
                    /\ Chain(fat, r[d].table[s].cluster, n, g)
                    /\ \A j \in 0 .. n - 1 : /\ g[j] \in DataClusters /\ fat[g[j]] # EMPTY
                                             /\ r[g[j]].kind # "dir" /\ st[g[j]] = r[g[j]]
    BY <1>5, <2>2, FileKept
  <2>4. \A j \in 0 .. n - 1 : g[j] \notin C
    BY <1>5, <2>2, <2>3 DEF Outside
  <2>5. \A j \in 0 .. n - 1 : g[j] \in G
    BY <2>3, <2>4, ClusterFacts DEF FilesLeft
  <2> QED BY <2>2, <2>3, <2>5 DEF ChainIn
<1> HIDE DEF G
<1>6. Holding(fat, st, d, k, G)
  BY <1>2, <1>3, <1>4, <1>5 DEF Holding
<1> QED BY <1>6 DEF G

\* The disk of such a file system.
LEMMA NearItself ==
    ASSUME NEW fat, NEW st, NEW f, NEW r, Types(fat, st), Kept(fat, st, f, r), Tidy(f, r),
           NEW d \in Clusters, IsDir(f, r, d), NEW k, NEW G
    PROVE  Near(fat, st, d, k, G, fat, st)
<1>1. Types(f, r)
  BY DEF Tidy, Sound
<1>2. st[d].kind \in {"dir", "zeros"}
  BY <1>1, KeptFacts
<1> QED BY <1>2 DEF Near, Alike

\* Putting the clusters X of st2, and the table fat2, leaves key k of folder d and
\* the clusters G as they are in fat and st.
LeavesAlone(fat, st, d, k, G, X, fat2, st2) ==
    /\ X \in SUBSET (Clusters \ {0, 1}) /\ X \cap G = {}
    /\ \A c \in G : fat2[c] = fat[c]
    /\ d \in X => Alike(st[d], st2[d], k)

LEMMA PutsNear ==
    ASSUME NEW fat, NEW st, NEW d \in Clusters \ {0, 1}, NEW k, NEW G \in SUBSET (Clusters \ {0, 1}),
           NEW X, NEW fat2, NEW st2, LeavesAlone(fat, st, d, k, G, X, fat2, st2),
           NEW W, Puts(W, fat2, st2, X)
    PROVE  \A i \in 1 .. Len(W) : NearWrite(fat, st, d, k, G, W[i])
<1> SUFFICES ASSUME NEW i \in 1 .. Len(W) PROVE NearWrite(fat, st, d, k, G, W[i])
  OBVIOUS
<1>1. CASE W[i].at = 1 /\ W[i].is = fat2
  BY <1>1 DEF LeavesAlone, NearWrite
<1>2. CASE W[i].at \in X /\ W[i].is = st2[W[i].at]
  BY <1>2 DEF LeavesAlone, NearWrite
<1> QED BY <1>1, <1>2 DEF Puts

\* A deletion clears a slot with another key.
LEMMA ErasedAlike ==
    ASSUME NEW fat, NEW st, NEW f, NEW r, NEW p, NEW s, NEW C, Deletes(fat, st, f, r, p, s, C),
           NEW k, ~HasKey(r[p].table[s], k)
    PROVE  Alike(st[p], Erased(st, C, p, s)[p], k)
<1> DEFINE st2 == Erased(st, C, p, s)
<1>1. /\ p \in Clusters /\ p \notin C /\ C \in SUBSET Clusters /\ s \in Slots
      /\ st[p].kind = "dir" /\ st \in [Clusters -> Blocks] /\ r[p].table[s] = Table(st, p)[s]
  BY DeletesFacts DEF Deletes, Types
<1>2. /\ st2 \in [Clusters -> Blocks]
      /\ \A c \in C : st2[c] = Zeros
      /\ \A c \in Clusters \ C : c # p => st2[c] = st[c]
      /\ st2[p].kind = "dir" /\ st2[p].up = st[p].up
      /\ st2[p].table = [t \in Slots |-> IF t = s THEN NoEntry ELSE st[p].table[t]]
  BY <1>1, ErasedBlocks
<1> HIDE DEF st2
<1>3. SlotsOf(st[p]) = st[p].table /\ SlotsOf(st2[p]) = st2[p].table
  BY <1>1, <1>2 DEF SlotsOf
<1>4. ~HasKey(st[p].table[s], k)
  BY <1>1 DEF Table
<1>5. ~HasKey(NoEntry, k)
  BY DEF HasKey
<1>6. Alike(st[p], st2[p], k)
  BY <1>1, <1>2, <1>3, <1>4, <1>5 DEF Alike
<1> QED BY <1>6 DEF st2

\* So does a new entry.
LEMMA GrownAlike ==
    ASSUME NEW fat, NEW st, NEW p, NEW s, NEW e, NEW m, NEW a, NEW fat2, NEW st2,
           Grown(fat, st, p, s, e, m, a, fat2, st2), NEW k, ~HasKey(e, k),
           st[p].kind \in {"dir", "zeros"}
    PROVE  Alike(st[p], st2[p], k)
<1>1. SlotsOf(st[p]) = Table(st, p)
  BY DEF SlotsOf, Table
<1>2. s \in Slots /\ Table(st, p)[s] = NoEntry
  BY DEF Grown, Used
<1>3. ~HasKey(NoEntry, k)
  BY DEF HasKey
<1>4. st2[p].kind = "dir" /\ SlotsOf(st2[p]) = st2[p].table
  BY DEF Grown, SlotsOf
<1>5. \A t \in Slots : st2[p].table[t] = IF t = s THEN e ELSE Table(st, p)[t]
  BY DEF Grown
<1> QED BY <1>1, <1>2, <1>3, <1>4, <1>5 DEF Alike

LEMMA AlikeTwice ==
    ASSUME NEW a, NEW b, NEW c, NEW k, Alike(a, b, k), Alike(b, c, k)
    PROVE  Alike(a, c, k)
BY DEF Alike

\* What is below a file is no directory.
LEMMA FileBelow ==
    ASSUME NEW f, NEW r, Sound(f, r), NEW p \in Clusters, NEW s \in Slots, Live(f, r, p, s),
           ~r[p].table[s].folder, NEW C, C = Reach(f, r, r[p].table[s].cluster)
    PROVE  \A c \in C : r[c].kind # "dir"
<1> DEFINE D == {c \in Clusters : r[c].kind # "dir"}
           h == r[p].table[s].cluster
<1>1. Linked(f, r) /\ KindsAgree(f, r) /\ Reserved(f, r)
  BY DEF Sound, Linked
<1>2. h \in Held(f)
  BY FreedIsApart
<1>3. h \in D
  BY <1>1, <1>2, ClusterFacts DEF KindsAgree, Held, ROOT_CLUSTER_NUMBER
<1>4. 0 \in D
  BY <1>1, ClusterFacts DEF Reserved
<1>5. ASSUME NEW d \in D \cap Held(f), NEW i \in Indices, Ref(f, r, d, i) \in DataClusters
      PROVE  Ref(f, r, d, i) \in D
  <2>1. CASE i = 0
    BY <1>1, <1>5, <2>1, ClusterFacts DEF Ref, KindsAgree
  <2>2. CASE i # 0
    <3>1. ~Live(f, r, d, i)
      BY DEF Live, IsDir
    <3>2. EMPTY \notin DataClusters
      BY ClusterFacts DEF EMPTY
    <3> QED BY <1>5, <2>2, <3>1, <3>2 DEF Ref
  <2> QED BY <2>1, <2>2
<1>6. D \in SUBSET Clusters
  OBVIOUS
<1>7. \A c \in D : r[c].kind # "dir"
  OBVIOUS
<1> HIDE DEF D, h
<1>8. Reach(f, r, h) \subseteq D \cap Held(f)
  BY <1>1, <1>2, <1>3, <1>4, <1>5, <1>6, ReachMin
<1> QED BY <1>7, <1>8 DEF h

\* The files of other entries are outside of what a deletion frees.
LEMMA OutsideFreed ==
    ASSUME NEW fat, NEW st, NEW f, NEW r, NEW p, NEW s, NEW C, Deletes(fat, st, f, r, p, s, C),
           NEW d \in Clusters, d \notin C, NEW k, d = p => ~HasKey(r[p].table[s], k)
    PROVE  Outside(f, r, C, d, k)
<1> SUFFICES ASSUME NEW t \in Slots, NEW n, NEW g, Live(f, r, d, t), HasKey(r[d].table[t], k),
                    Chain(f, r[d].table[t].cluster, n, g)
             PROVE  \A j \in 0 .. n - 1 : g[j] \notin C
  BY DEF Outside
<1> DEFINE h == r[d].table[t].cluster
<1>1. /\ Sound(f, r) /\ NoStubs(f, r) /\ p \in Clusters /\ s \in Slots /\ Live(f, r, p, s)
      /\ C = Reach(f, r, r[p].table[s].cluster)
  BY DEF Deletes, Tidy
<1>2. \A x \in Clusters, i \in Indices :
         Ref(f, r, x, i) \in C \cap DataClusters => x \in C \/ (x = p /\ i = s)
  BY <1>1, FreedIsApart
<1>3. Ref(f, r, d, t) = h /\ t \in Indices
  BY ClusterFacts DEF Ref, Indices
<1>4. h \in DataClusters
  BY <1>1 DEF NoStubs
<1>5. ~(d = p /\ t = s)
  OBVIOUS
<1>6. h \notin C
  BY <1>2, <1>3, <1>4, <1>5
<1> HIDE DEF h
<1>7. Chain(f, h, n, g)
  BY DEF h
<1> QED BY <1>1, <1>6, <1>7, ChainApart

\* What a call is not about.
LEMMA OthersFacts ==
    ASSUME NEW gone, NEW p, NEW name, NEW ext, NEW x \in Others(gone, p, <<name, ext>>)
    PROVE  /\ x[1] \in Folders /\ x[1] \notin gone
           /\ x[3] = NodeIn(fat_table, storage, x[1], x[2])
           /\ \A e : HasKey(e, x[2]) /\ e.name = name /\ e.ext = ext => x[1] # p
<1>1. PICK y \in ((Folders \ gone) \X Keys) \ {<<p, <<name, ext>> >>} :
         x = <<y[1], y[2], Node(y[1], y[2])>>
  BY DEF Others
<1>2. y[1] \in Folders \ gone /\ y[2] \in Names \X Exts /\ y # <<p, <<name, ext>> >>
      /\ y = <<y[1], y[2]>>
  BY <1>1 DEF Keys
<1>3. x[1] = y[1] /\ x[2] = y[2] /\ x[3] = Node(y[1], y[2])
  BY <1>1
<1>4. Node(y[1], y[2]) = NodeIn(fat_table, storage, y[1], y[2])
  BY DEF Node, NodeIn
<1>5. ASSUME NEW e, HasKey(e, y[2]), e.name = name, e.ext = ext, y[1] = p PROVE FALSE
  <2>1. y[2][1] = name /\ y[2][2] = ext
    BY <1>5 DEF HasKey
  <2>2. y[2] = <<name, ext>>
    BY <1>2, <2>1
  <2> QED BY <1>2, <1>5, <2>2
<1> QED BY <1>2, <1>3, <1>4, <1>5

\* A call starts whose writes leave x alone.
LEMMA CallSpares ==
    ASSUME NEW fat, NEW st, NEW f, NEW r, Types(fat, st), Kept(fat, st, f, r), Tidy(f, r),
           NEW x, x[1] \in Clusters, IsDir(f, r, x[1]), x[3] = NodeIn(fat, st, x[1], x[2]),
           NEW C, Outside(f, r, C, x[1], x[2]), NEW W,
           \A i \in 1 .. Len(W) : NearWrite(fat, st, x[1], x[2], FilesLeft(fat, r, C), W[i])
    PROVE  \E fat0, st0, G : Spares(x, fat0, st0, G, W, fat, st)
<1> DEFINE G == FilesLeft(fat, r, C)
           d == x[1]
           k == x[2]
<1>1. d \in Clusters /\ IsDir(f, r, d) /\ Outside(f, r, C, d, k)
  OBVIOUS
<1>2. Holding(fat, st, d, k, FilesLeft(fat, r, C))
  <2> HIDE DEF d, k
  <2> QED BY <1>1, HoldingKept
<1>3. Near(fat, st, d, k, G, fat, st)
  <2> HIDE DEF d, k, G
  <2> QED BY <1>1, NearItself
<1>4. Spares(x, fat, st, G, W, fat, st)
  BY <1>2, <1>3 DEF Spares
<1> QED BY <1>4

\* Every call leaves spared what it says.
LEMMA DeleteSpares ==
    ASSUME DiskInv, NEW p \in Folders, NEW name \in Names, NEW ext \in Exts,
           CallDelete(p, name, ext)
    PROVE  SparedInv'
<1>1. /\ Ready /\ signature \in BOOLEAN /\ Types(fat_table, storage) /\ Good(fat_table, storage)
      /\ platter_fat = fat_table /\ platter = storage
  BY ReadyFacts DEF CallDelete
<1>2. PICK f, r : Kept(fat_table, storage, f, r) /\ Tidy(f, r)
  BY <1>1 DEF Good
<1>3. (delete(p, name, ext) \/ delete_folder_rec(p, name, ext)) /\ retcode' = 0
  BY DEF CallDelete
<1>4. PICK s, C : /\ Deletes(fat_table, storage, f, r, p, s, C)
                  /\ r[p].table[s].name = name /\ r[p].table[s].ext = ext
                  /\ EntryOf(storage, p, name, ext) = r[p].table[s]
                  /\ Saved(FreedTable(fat_table, C), Erased(storage, C, p, s))
  BY <1>1, <1>2, <1>3, DeleteRuns
<1> DEFINE fat2 == FreedTable(fat_table, C)
           st2 == Erased(storage, C, p, s)
           e == r[p].table[s]
           gone == Reach(fat_table, storage, e.cluster)
<1>5. fat_table' = fat2 /\ storage' = st2
  BY <1>4 DEF Saved
<1>6. PICK W : W \in DeleteOrders(fat_table, storage, p, e, fat2, st2)
               /\ Starts("delete", W, Others(gone, p, <<name, ext>>))
  BY <1>4, <1>5 DEF CallDelete
<1>7. /\ C \cup {p} \in SUBSET (Clusters \ {0, 1}) /\ gone = C
  BY <1>4, DeletesFacts
<1>8. Puts(W, fat2, st2, C \cup {p})
  BY <1>4, <1>6, DeleteOrdered
<1>9. /\ spared' = Others(gone, p, <<name, ext>>) /\ writes' = W
      /\ platter_fat' = fat_table /\ platter' = storage
  BY <1>1, <1>6 DEF Starts, platterVars
<1>10. Sound(f, r) /\ IsDir(f, r, p) /\ r[p].kind = "dir"
  BY <1>2, <1>4 DEF Tidy, Deletes, Live, IsDir
<1> HIDE DEF gone
<1>11. ASSUME NEW x \in Others(gone, p, <<name, ext>>)
       PROVE  \E fat0, st0, G : Spares(x, fat0, st0, G, W, fat_table, storage)
  <2> DEFINE d == x[1]
             k == x[2]
             G == FilesLeft(fat_table, r, C)
             X == C \cup {p}
  <2>1. /\ d \in Folders /\ d \notin C /\ x[3] = NodeIn(fat_table, storage, d, k)
        /\ d = p => ~HasKey(e, k)
    BY <1>4, <1>7, OthersFacts
  <2>2. d \in Clusters /\ IsDir(f, r, d)
    BY <1>1, <1>2, <1>10, <2>1, FoldersKept
  <2>3. Outside(f, r, C, d, k)
    <3> HIDE DEF d, k
    <3> QED BY <1>4, <2>1, <2>2, OutsideFreed
  <2>4. Alike(storage[p], st2[p], k) \/ d # p
    BY <1>4, <2>1, ErasedAlike
  <2>5. G \in SUBSET (Clusters \ {0, 1}) /\ X \cap G = {}
    BY <1>10 DEF FilesLeft
  <2>6. \A c \in G : fat2[c] = fat_table[c]
    BY DEF FilesLeft, FreedTable
  <2>7. d \in Clusters \ {0, 1}
    BY <1>10, <2>2 DEF Sound, Reserved, IsDir
  <2> HIDE DEF fat2, st2, e, G, d, k
  <2>8. LeavesAlone(fat_table, storage, d, k, G, X, fat2, st2)
    BY <1>7, <2>1, <2>4, <2>5, <2>6 DEF LeavesAlone
  <2> HIDE DEF X
  <2>9. Puts(W, fat2, st2, X)
    BY <1>8 DEF X
  <2>10. \A i \in 1 .. Len(W) : NearWrite(fat_table, storage, d, k, G, W[i])
    BY <2>5, <2>7, <2>8, <2>9, PutsNear
  <2> USE DEF d, k, G
  <2> QED BY <1>1, <1>2, <2>1, <2>2, <2>3, <2>10, CallSpares
<1> QED BY <1>9, <1>11 DEF SparedInv

\* A new entry leaves alone what is not in C, in a table in which only C was freed.
LEMMA GrownAlone ==
    ASSUME NEW fat0, NEW st0, NEW r, NEW C, NEW fat1, NEW st1, NEW q, NEW s, NEW e, NEW m, NEW a,
           NEW fat2, NEW st2, Grown(fat1, st1, q, s, e, m, a, fat2, st2),
           q \in Clusters \ {0, 1}, r[q].kind = "dir",
           \A c \in Clusters \ C : fat1[c] = fat0[c],
           NEW d \in Clusters \ C, fat0[d] # EMPTY, NEW k, d = q => ~HasKey(e, k),
           Alike(st0[d], st1[d], k)
    PROVE  LeavesAlone(fat0, st0, d, k, FilesLeft(fat0, r, C), Taken(m, a) \cup {q}, fat2, st2)
<1> DEFINE G == FilesLeft(fat0, r, C)
           X == Taken(m, a) \cup {q}
<1>1. \A c \in Taken(m, a) : c \in Clusters \ {0, 1} /\ fat1[c] = EMPTY
  <2>1. a \in [0 .. m - 1 -> FreeClusters(fat1)]
    BY DEF Grown
  <2>2. \A c \in FreeClusters(fat1) : c \in Clusters \ {0, 1} /\ fat1[c] = EMPTY
    BY ClusterFacts DEF FreeClusters
  <2> QED BY <2>1, <2>2 DEF Taken
<1>2. \A c \in G : c \in Clusters \ {0, 1} /\ fat0[c] # EMPTY /\ r[c].kind # "dir" /\ c \notin C
  BY DEF FilesLeft
<1> HIDE DEF G
<1>3. \A c \in G : c \notin Taken(m, a) /\ c # q /\ fat1[c] = fat0[c]
  BY <1>1, <1>2
<1>4. \A c \in G : fat2[c] = fat1[c]
  BY <1>2, <1>3 DEF Grown
<1>5. d \in X => d = q
  BY <1>1
<1>6. d = q => Alike(st0[d], st2[d], k)
  <2> SUFFICES ASSUME d = q PROVE Alike(st0[q], st2[q], k)
    OBVIOUS
  <2>1. Alike(st0[q], st1[q], k) /\ st1[q].kind \in {"dir", "zeros"}
    BY DEF Alike
  <2>2. Alike(st1[q], st2[q], k)
    BY <2>1, GrownAlike
  <2> QED BY <2>1, <2>2, AlikeTwice
<1>7. X \in SUBSET (Clusters \ {0, 1}) /\ X \cap G = {}
  BY <1>1, <1>3
<1> HIDE DEF X
<1>8. LeavesAlone(fat0, st0, d, k, G, X, fat2, st2)
  BY <1>3, <1>4, <1>5, <1>6, <1>7 DEF LeavesAlone
<1> QED BY <1>8 DEF G, X

LEMMA WriteSpares ==
    ASSUME ~FullDisk, DiskInv, NEW p \in Folders, NEW name \in Names, NEW ext \in Exts,
           CallWrite(p, name, ext)
    PROVE  SparedInv'
<1>1. /\ Ready /\ signature \in BOOLEAN /\ Types(fat_table, storage) /\ Good(fat_table, storage)
      /\ platter_fat = fat_table /\ platter = storage
  BY ReadyFacts DEF CallWrite
<1>2. PICK f, r : Kept(fat_table, storage, f, r) /\ Tidy(f, r)
  BY <1>1 DEF Good
<1>3. \/ WriteFolder(p, name, ext)
      \/ \E v \in Values, n \in Sizes : WriteFile(p, name, ext, v, n)
  BY DEF CallWrite
<1>4. PICK fat2, st2, s, e, m, a :
         /\ Good(fat2, st2) /\ Grown(fat_table, storage, p, s, e, m, a, fat2, st2)
         /\ e.name = name /\ e.ext = ext /\ Saved(fat2, st2)
  BY <1>1, <1>2, <1>3, WriteRuns
<1>5. p \in Clusters /\ IsDir(f, r, p) /\ Sound(f, r)
  BY <1>1, <1>2, FoldersKept DEF Tidy
<1> DEFINE W == WriteOrder(fat2, st2, p, e.name, e.ext)
           X == Taken(m, a) \cup {p}
<1>6. Puts(W, fat2, st2, X)
  BY <1>2, <1>4, <1>5, GrownChanges
<1>7. fat_table' = fat2 /\ storage' = st2
  BY <1>4 DEF Saved
<1>8. Starts("write", W, Others({}, p, <<name, ext>>))
  BY <1>4, <1>7 DEF CallWrite
<1>9. /\ spared' = Others({}, p, <<name, ext>>) /\ writes' = W
      /\ platter_fat' = fat_table /\ platter' = storage
  BY <1>1, <1>8 DEF Starts, platterVars
<1> HIDE DEF W
<1>10. ASSUME NEW x \in Others({}, p, <<name, ext>>)
       PROVE  \E fat0, st0, G : Spares(x, fat0, st0, G, W, fat_table, storage)
  <2> DEFINE d == x[1]
             k == x[2]
             C == {}
             G == FilesLeft(fat_table, r, C)
  <2>1. d \in Folders /\ x[3] = NodeIn(fat_table, storage, d, k) /\ (d = p => ~HasKey(e, k))
    BY <1>4, OthersFacts
  <2>2. d \in Clusters /\ IsDir(f, r, d)
    BY <1>1, <1>2, <1>5, <2>1, FoldersKept
  <2>3. Outside(f, r, C, d, k)
    BY DEF Outside
  <2>4. LeavesAlone(fat_table, storage, d, k, G, X, fat2, st2)
    <3>1. fat_table[d] # EMPTY
      <4>1. Types(f, r)
        BY <1>5 DEF Sound
      <4>2. fat_table[d] = EOF
        BY <1>1, <1>2, <2>2, <4>1, KeptFacts
      <4> QED BY <4>2, ClusterFacts DEF EMPTY
    <3>2. Near(fat_table, storage, d, k, G, fat_table, storage)
      <4> HIDE DEF d, k, G
      <4> QED BY <1>1, <1>2, <2>2, NearItself
    <3>3. Alike(storage[d], storage[d], k)
      BY <3>2 DEF Near
    <3>4. p \in Clusters \ {0, 1} /\ r[p].kind = "dir"
      BY <1>5 DEF Sound, Reserved, IsDir
    <3>5. d \in Clusters \ C /\ \A c \in Clusters \ C : fat_table[c] = fat_table[c]
      BY <2>2
    <3> HIDE DEF d, k, C
    <3> QED BY <1>4, <2>1, <3>1, <3>3, <3>4, <3>5, GrownAlone
  <2>5. d \in Clusters \ {0, 1} /\ G \in SUBSET (Clusters \ {0, 1})
    BY <1>5, <2>2 DEF Sound, Reserved, IsDir, FilesLeft
  <2> HIDE DEF d, k, G, C, X
  <2>6. \A i \in 1 .. Len(W) : NearWrite(fat_table, storage, d, k, G, W[i])
    BY <1>6, <2>4, <2>5, PutsNear
  <2> USE DEF d, k, G
  <2> QED BY <1>1, <1>2, <2>1, <2>2, <2>3, <2>6, CallSpares
<1> QED BY <1>9, <1>10 DEF SparedInv

\* The new entry of a copy, over a destination whose clusters C were freed before.
LEMMA CopyGrown ==
    ASSUME NEW f, NEW r, Types(fat_table, storage), Kept(fat_table, storage, f, r), Tidy(f, r),
           NEW C, NEW fat1, NEW st1, NEW q \in Clusters, IsDir(f, r, q),
           NEW s, NEW e, NEW m, NEW a, NEW fat2, NEW st2,
           Grown(fat1, st1, q, s, e, m, a, fat2, st2),
           \A c \in Clusters \ C : fat1[c] = fat_table[c],
           NEW d \in Clusters, d \notin C, IsDir(f, r, d), NEW k, d = q => ~HasKey(e, k),
           Alike(storage[d], st1[d], k), NEW U, Puts(U, fat2, st2, Taken(m, a) \cup {q})
    PROVE  \A i \in 1 .. Len(U) :
              NearWrite(fat_table, storage, d, k, FilesLeft(fat_table, r, C), U[i])
<1> DEFINE G == FilesLeft(fat_table, r, C)
           X == Taken(m, a) \cup {q}
<1>1. Types(f, r) /\ Reserved(f, r)
  BY DEF Tidy, Sound
<1>2. fat_table[d] # EMPTY
  <2>1. fat_table[d] = EOF
    BY <1>1, KeptFacts
  <2> QED BY <2>1, ClusterFacts DEF EMPTY
<1>3. q \in Clusters \ {0, 1} /\ r[q].kind = "dir" /\ d \in Clusters \ {0, 1}
  BY <1>1 DEF Reserved, IsDir
<1>4. LeavesAlone(fat_table, storage, d, k, G, X, fat2, st2)
  BY <1>2, <1>3, GrownAlone
<1>5. G \in SUBSET (Clusters \ {0, 1})
  BY DEF FilesLeft
<1> HIDE DEF G, X
<1>6. Puts(U, fat2, st2, X)
  BY DEF X
<1>7. \A i \in 1 .. Len(U) : NearWrite(fat_table, storage, d, k, G, U[i])
  BY <1>3, <1>4, <1>5, <1>6, PutsNear
<1> QED BY <1>7 DEF G

LEMMA CopySpares ==
    ASSUME ~FullDisk, DiskInv, NEW p \in Folders, NEW name \in Names, NEW ext \in Exts,
           NEW q \in Folders, NEW name2 \in Names, NEW ext2 \in Exts,
           CallCopy(p, name, ext, q, name2, ext2)
    PROVE  SparedInv'
<1>1. /\ Ready /\ signature \in BOOLEAN /\ Types(fat_table, storage) /\ Good(fat_table, storage)
      /\ platter_fat = fat_table /\ platter = storage
  BY ReadyFacts DEF CallCopy
<1>2. PICK f, r : Kept(fat_table, storage, f, r) /\ Tidy(f, r)
  BY <1>1 DEF Good
<1>3. PICK W : /\ W \in CopyOrders(q, name2, ext2) /\ W # <<>>
               /\ Starts("write", W, Others({}, q, <<name2, ext2>>))
  BY DEF CallCopy
<1>4. FilesMatching(storage, p, name, ext) # {} /\ copy_file(p, name, ext, q, name2, ext2)
  BY DEF CallCopy
<1>5. PICK fat1, st1, fat2, st2, s, e, m, a, V :
         /\ Good(fat2, st2) /\ Grown(fat1, st1, q, s, e, m, a, fat2, st2)
         /\ e.name = name2 /\ e.ext = ext2 /\ Saved(fat2, st2)
         /\ W = V \o WriteOrder(fat2, st2, q, name2, ext2)
         /\ \/ V = <<>> /\ fat1 = fat_table /\ st1 = storage
            \/ \E t, C : /\ ClearsFile(f, r, q, name2, ext2, t, C)
                         /\ fat1 = FreedTable(fat_table, C) /\ st1 = Erased(storage, C, q, t)
                         /\ V \in DeleteOrders(fat_table, storage, q, r[q].table[t], fat1, st1)
  BY <1>1, <1>2, <1>3, <1>4, CopyRuns
<1>6. q \in Clusters /\ IsDir(f, r, q) /\ Sound(f, r)
  BY <1>1, <1>2, FoldersKept DEF Tidy
<1>7. /\ spared' = Others({}, q, <<name2, ext2>>) /\ writes' = W
      /\ platter_fat' = fat_table /\ platter' = storage
  BY <1>1, <1>3 DEF Starts, platterVars
<1> DEFINE U == WriteOrder(fat2, st2, q, name2, ext2)
<1> SUFFICES ASSUME NEW x \in Others({}, q, <<name2, ext2>>)
             PROVE  \E fat0, st0, G : Spares(x, fat0, st0, G, W, fat_table, storage)
  BY <1>7 DEF SparedInv
<1> DEFINE d == x[1]
           k == x[2]
<1>8. /\ d \in Folders /\ x[3] = NodeIn(fat_table, storage, d, k)
      /\ d = q => ~HasKey(e, k)
      /\ d = q => \A y : y.name = name2 /\ y.ext = ext2 => ~HasKey(y, k)
  BY <1>5, OthersFacts
<1>9. d \in Clusters /\ IsDir(f, r, d)
  BY <1>1, <1>2, <1>6, <1>8, FoldersKept
<1>10. d \in Clusters \ {0, 1} /\ r[d].kind = "dir" /\ r[q].kind = "dir"
  BY <1>6, <1>9 DEF Sound, Reserved, IsDir
<1>11. CASE V = <<>> /\ fat1 = fat_table /\ st1 = storage
  <2> DEFINE C == {}
             G == FilesLeft(fat_table, r, C)
  <2>1. Changes(U, fat_table, storage, fat2, st2) /\ Puts(U, fat2, st2, Taken(m, a) \cup {q})
    BY <1>2, <1>5, <1>6, <1>11, GrownChanges
  <2>2. W = U
    <3>1. U \in Seq(Writes)
      BY <2>1 DEF Changes
    <3>2. <<>> \o U = U
      BY <3>1, ConcatEmptySeq
    <3> QED BY <1>5, <1>11, <3>2
  <2>3. Alike(storage[d], storage[d], k)
    <3>1. Near(fat_table, storage, d, k, {}, fat_table, storage)
      <4> HIDE DEF d, k
      <4> QED BY <1>1, <1>2, <1>9, NearItself
    <3> QED BY <3>1 DEF Near
  <2>4. d \notin C /\ \A c \in Clusters \ C : fat_table[c] = fat_table[c]
    OBVIOUS
  <2>5. \A i \in 1 .. Len(U) : NearWrite(fat_table, storage, d, k, G, U[i])
    <3> HIDE DEF d, k, C, U
    <3> QED BY <1>1, <1>2, <1>5, <1>6, <1>8, <1>9, <1>11, <2>1, <2>3, <2>4, CopyGrown
  <2>6. Outside(f, r, C, d, k)
    BY DEF Outside
  <2> HIDE DEF U
  <2> QED BY <1>1, <1>2, <1>8, <1>9, <2>2, <2>5, <2>6, CallSpares
<1>12. ASSUME NEW t, NEW C, ClearsFile(f, r, q, name2, ext2, t, C),
              fat1 = FreedTable(fat_table, C), st1 = Erased(storage, C, q, t),
              V \in DeleteOrders(fat_table, storage, q, r[q].table[t], fat1, st1)
       PROVE  \E fat0, st0, G : Spares(x, fat0, st0, G, W, fat_table, storage)
  <2> DEFINE G == FilesLeft(fat_table, r, C)
             X == C \cup {q}
  <2>1. /\ Deletes(fat_table, storage, f, r, q, t, C)
        /\ r[q].table[t].name = name2 /\ r[q].table[t].ext = ext2 /\ ~r[q].table[t].folder
    BY <1>12 DEF ClearsFile
  <2>2. /\ X \in SUBSET (Clusters \ {0, 1})
        /\ \A c \in Clusters \ (C \cup {q}) : st1[c] = storage[c]
    BY <1>12, <2>1, DeletesFacts
  <2>3. Puts(V, fat1, st1, X)
    BY <1>12, <2>1, DeleteOrdered
  <2>4. d \notin C
    <3>1. \A c \in C : r[c].kind # "dir"
      BY <1>6, <2>1, FileBelow DEF Deletes
    <3> QED BY <1>10, <3>1
  <2>5. d = q => ~HasKey(r[q].table[t], k)
    BY <1>8, <2>1
  <2>6. Outside(f, r, C, d, k)
    <3> HIDE DEF d, k
    <3> QED BY <1>9, <2>1, <2>4, <2>5, OutsideFreed
  <2>7. Alike(storage[d], st1[d], k)
    <3>1. CASE d = q
      <4>1. Alike(storage[q], Erased(storage, C, q, t)[q], k)
        BY <2>1, <2>5, <3>1, ErasedAlike
      <4> QED BY <1>12, <3>1, <4>1
    <3>2. CASE d # q
      <4>1. st1[d] = storage[d]
        BY <1>9, <2>2, <2>4, <3>2
      <4>2. Near(fat_table, storage, d, k, {}, fat_table, storage)
        <5> HIDE DEF d, k
        <5> QED BY <1>1, <1>2, <1>9, NearItself
      <4> QED BY <4>1, <4>2 DEF Near
    <3> QED BY <3>1, <3>2
  <2>8. \A c \in Clusters \ C : fat1[c] = fat_table[c]
    BY <1>12 DEF FreedTable
  <2>9. G \in SUBSET (Clusters \ {0, 1}) /\ X \cap G = {} /\ \A c \in G : fat1[c] = fat_table[c]
    BY <1>10, <2>8 DEF FilesLeft
  <2>10. \A i \in 1 .. Len(V) : NearWrite(fat_table, storage, d, k, G, V[i])
    <3> HIDE DEF d, k, G, X
    <3>1. LeavesAlone(fat_table, storage, d, k, G, X, fat1, st1)
      BY <2>2, <2>7, <2>9 DEF LeavesAlone
    <3> QED BY <1>10, <2>3, <2>9, <3>1, PutsNear
  <2>11. PICK f1, r1 : Kept(fat1, st1, f1, r1) /\ Tidy(f1, r1) /\ IsDir(f1, r1, q)
    BY <1>12, ClearedRoom
  <2>12. Changes(U, fat1, st1, fat2, st2) /\ Puts(U, fat2, st2, Taken(m, a) \cup {q})
    BY <1>5, <1>6, <2>11, GrownChanges
  <2>13. \A i \in 1 .. Len(U) : NearWrite(fat_table, storage, d, k, G, U[i])
    <3>1. Grown(fat1, st1, q, s, e, m, a, fat2, st2) /\ Puts(U, fat2, st2, Taken(m, a) \cup {q})
      BY <1>5, <2>12
    <3>2. /\ Types(fat_table, storage) /\ Kept(fat_table, storage, f, r) /\ Tidy(f, r)
          /\ q \in Clusters /\ IsDir(f, r, q) /\ d \in Clusters /\ IsDir(f, r, d)
          /\ d = q => ~HasKey(e, k)
      BY <1>1, <1>2, <1>6, <1>8, <1>9
    <3> HIDE DEF d, k, U
    <3> QED BY <2>4, <2>7, <2>8, <3>1, <3>2, CopyGrown
  <2>14. V \in Seq(Writes) /\ U \in Seq(Writes) /\ W = V \o U
    BY <1>5, <2>3, <2>12 DEF Puts
  <2> HIDE DEF U
  <2>15. ASSUME NEW i \in 1 .. Len(W) PROVE NearWrite(fat_table, storage, d, k, G, W[i])
    <3> HIDE DEF d, k, G
    <3>1. /\ Len(V) \in Nat /\ Len(U) \in Nat /\ Len(W) = Len(V) + Len(U)
          /\ W[i] = IF i <= Len(V) THEN V[i] ELSE U[i - Len(V)]
      BY <2>14, ConcatWrites
    <3>2. CASE i <= Len(V)
      <4>1. i \in 1 .. Len(V)
        BY <3>1, <3>2
      <4> QED BY <2>10, <3>1, <3>2, <4>1
    <3>3. CASE ~(i <= Len(V))
      <4>1. i - Len(V) \in 1 .. Len(U)
        BY <3>1, <3>3
      <4> QED BY <2>13, <3>1, <3>3, <4>1
    <3> QED BY <3>2, <3>3
  <2> QED BY <1>1, <1>2, <1>8, <1>9, <2>6, <2>15, CallSpares
<1> QED BY <1>5, <1>11, <1>12

LEMMA SparedInductive ==
    ASSUME ~FullDisk, DiskInv, SparedInv, [DiskNext]_diskVars
    PROVE  SparedInv'
<1>1. CASE PowerOn
  <2>1. CASE signature
    <3>1. /\ spared' = spared /\ writes' = writes
          /\ platter_fat' = platter_fat /\ platter' = platter
      BY <1>1, <2>1 DEF PowerOn, platterVars
    <3> QED BY <3>1 DEF SparedInv
  <2>2. CASE ~signature
    <3>1. spared' = {}
      BY <1>1, <2>2 DEF PowerOn, Starts
    <3> QED BY <3>1 DEF SparedInv
  <2> QED BY <2>1, <2>2
<1>2. CASE DiskWrite
  BY <1>2, SparedWritten
<1>3. CASE PowerLoss
  BY <1>3, SparedCut
<1>4. ASSUME NEW p \in Folders, NEW name \in Names, NEW ext \in Exts,
             \/ CallWrite(p, name, ext)
             \/ CallDelete(p, name, ext)
             \/ \E q \in Folders, name2 \in Names, ext2 \in Exts :
                   CallCopy(p, name, ext, q, name2, ext2)
      PROVE  SparedInv'
  BY <1>4, WriteSpares, DeleteSpares, CopySpares
<1>5. CASE UNCHANGED diskVars
  BY <1>5 DEF diskVars, platterVars, SparedInv
<1> QED BY <1>1, <1>2, <1>3, <1>4, <1>5 DEF DiskNext

\* A call of write, delete or copy_file (src/src/fat32.c) that loses power at any
\* of its writes, or inside one, spares everything it was not about: at the next
\* power-on every other file and folder is there with its contents, and nothing
\* else has appeared, whatever deletions were cut before.
THEOREM CutCallsSpareOthers ==
    ASSUME ~FullDisk
    PROVE  DiskSpec => []CrashSparesOthers
<1>1. DiskInit => SparedInv
  BY DEF DiskInit, SparedInv
<1>2. DiskInv /\ SparedInv /\ [DiskNext]_diskVars => SparedInv'
  BY SparedInductive
<1>3. DiskInv /\ SparedInv => CrashSparesOthers
  <2> SUFFICES ASSUME DiskInv, SparedInv, mounted, writes = <<>>, NEW x \in spared
               PROVE  Node(x[1], x[2]) = x[3]
    BY DEF CrashSparesOthers
  <2>1. platter_fat = fat_table /\ platter = storage
    BY NothingLeft DEF DiskInv, PoweredOn
  <2>2. PICK fat0, st0, G : Spares(x, fat0, st0, G, writes, platter_fat, platter)
    BY DEF SparedInv
  <2>3. NodeIn(fat_table, storage, x[1], x[2]) = NodeIn(fat0, st0, x[1], x[2])
    BY <2>1, <2>2, SameNodeIn DEF Spares
  <2>4. Node(x[1], x[2]) = NodeIn(fat_table, storage, x[1], x[2])
    BY DEF Node, NodeIn
  <2> QED BY <2>2, <2>3, <2>4 DEF Spares
<1> QED BY <1>1, <1>2, <1>3, DiskInvariance, PTL DEF DiskSpec
=============================================================================
