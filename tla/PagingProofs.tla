---------------------------- MODULE PagingProofs ----------------------------
(***************************************************************************)
(* Proofs about the memory manager, for any number of frames, directories  *)
(* and pages: PagingInv is inductive, and Paging implements AddressSpaces. *)
(***************************************************************************)
EXTENDS Paging, LinearScanProofs

\* The free frames are finitely many, and at most all of them.
LEMMA FramesFinite ==
    /\ IsFiniteSet(Frames)
    /\ Cardinality(Frames) = PAGE_FRAME_MAX_COUNT
    /\ IsFiniteSet(FreeFrames)
    /\ Cardinality(FreeFrames) \in 0 .. PAGE_FRAME_MAX_COUNT
<1>1. IsFiniteSet(Frames) /\ Cardinality(Frames) = PAGE_FRAME_MAX_COUNT
  BY PagingAssumption, FS_Interval DEF Frames
<1>2. FreeFrames \in SUBSET Frames
  BY DEF FreeFrames
<1>3. IsFiniteSet(FreeFrames) /\ Cardinality(FreeFrames) <= PAGE_FRAME_MAX_COUNT
  BY <1>1, <1>2, FS_Subset
<1>4. Cardinality(FreeFrames) \in Nat
  BY <1>3, FS_CardinalityType
<1> QED BY <1>1, <1>3, <1>4, PagingAssumption

-----------------------------------------------------------------------------
\* Initially every frame but the kernel's is free and every directory blank.
LEMMA PagingInitInv == PagingInit => PagingInv
<1> SUFFICES ASSUME PagingInit PROVE PagingInv
  OBVIOUS
<1> USE DEF PagingInit
<1>1. PagingTypeOK
  BY PagingAssumption DEF PagingTypeOK, Frames, Dirs, Pages
<1>2. FrameIsolation
  BY DEF FrameIsolation
<1>3. BlankWhenUnused
  BY DEF BlankWhenUnused
<1>4. free_page_frame_count = Cardinality(FreeFrames)
  <2>1. FreeFrames = Frames \ {0}
    BY DEF FreeFrames
  <2>2. 0 \in Frames
    BY PagingAssumption DEF Frames
  <2> QED BY <2>1, <2>2, FramesFinite, FS_RemoveElement
<1>5. FrameAccounting
  BY <1>4 DEF FrameAccounting
<1> QED BY <1>1, <1>2, <1>3, <1>5 DEF PagingInv

\* Building an address space: the frames taken were free, so no directory in
\* use mapped them, and the counter drops by as many as the bitmap gains.
LEMMA BuildPreservesInv ==
    ASSUME PagingInv, NEW d \in Dirs, NEW n \in 1 .. PROCESS_PAGE_FRAME_COUNT_MAX,
           BuildAddressSpace(d, n)
    PROVE  PagingInv'
<1> USE DEF PagingInv
<1>0. n \in Nat /\ n > 0 /\ n <= PROCESS_PAGE_FRAME_COUNT_MAX
  BY PagingAssumption
<1>1. n <= Cardinality(FreeFrames) /\ IsFiniteSet(FreeFrames) /\ FreeFrames \in SUBSET Nat
  BY FramesFinite, <1>0, PagingAssumption
     DEF BuildAddressSpace, paging_allocate_check, FrameAccounting, FreeFrames, Frames
<1> PICK a \in FirstFit(FreeFrames, n) :
        /\ page_frame_map' = [f \in Frames |-> page_frame_map[f] \/ f \in Range(a)]
        /\ free_page_frame_count' = free_page_frame_count - Cardinality(DOMAIN a)
        /\ page_table' = MapPages(d, a)
  BY DEF BuildAddressSpace
<1>2. /\ a \in [0 .. n - 1 -> FreeFrames]
      /\ \A i, j \in 0 .. n - 1 : a[i] = a[j] => i = j
      /\ Range(a) \subseteq FreeFrames
      /\ IsFiniteSet(Range(a))
      /\ Cardinality(Range(a)) = n
      /\ Cardinality(DOMAIN a) = n
  BY <1>0, <1>1, FirstFitTakes
<1>3. DOMAIN a = 0 .. n - 1 /\ DOMAIN a \subseteq Pages /\ 0 \in DOMAIN a
  BY <1>0, <1>2, PagingAssumption DEF Pages
<1>4. ~page_directory_used[d]
  BY DEF BuildAddressSpace, UnusedDirectory, IsFirst
<1>5. \A p \in Pages : page_table[d][p] = NoFrame
  BY <1>4 DEF BlankWhenUnused
<1>6. /\ \A p \in Pages : page_table'[d][p] = IF p \in DOMAIN a THEN a[p] ELSE NoFrame
      /\ \A e \in Dirs \ {d} : page_table'[e] = page_table[e]
  BY <1>3, <1>5 DEF MapPages, PagingTypeOK
<1>7. /\ page_directory_used' = [page_directory_used EXCEPT ![d] = TRUE]
      /\ kernel_entry' = [kernel_entry EXCEPT ![d] = TRUE]
  BY DEF BuildAddressSpace
<1>8. \A i \in DOMAIN a : a[i] \in Frames /\ ~page_frame_map[a[i]] /\ a[i] # 0
                          /\ a[i] # NoFrame
  BY <1>2, <1>3, PagingAssumption DEF FreeFrames, FrameAccounting, Frames
<1>9. PagingTypeOK'
  <2>1. free_page_frame_count' \in 0 .. PAGE_FRAME_MAX_COUNT
    BY <1>0, <1>1, <1>2, FramesFinite, PagingAssumption DEF PagingTypeOK, FrameAccounting
  <2>2. page_table' \in [Dirs -> [Pages -> Frames \cup {NoFrame}]]
    BY <1>3, <1>5, <1>8 DEF MapPages, PagingTypeOK
  <2>3. page_frame_map' \in [Frames -> BOOLEAN]
    OBVIOUS
  <2> QED BY <2>1, <2>2, <2>3, <1>7 DEF PagingTypeOK
<1>10. BlankWhenUnused'
  <2> SUFFICES ASSUME NEW e \in Dirs
               PROVE  /\ kernel_entry'[e] = page_directory_used'[e]
                      /\ ~page_directory_used'[e] =>
                            \A p \in Pages : page_table'[e][p] = NoFrame
    BY DEF BlankWhenUnused
  <2>1. CASE e = d
    BY <2>1, <1>7 DEF PagingTypeOK
  <2>2. CASE e # d
    <3>1. kernel_entry'[e] = kernel_entry[e] /\ page_directory_used'[e] = page_directory_used[e]
      BY <2>2, <1>7 DEF PagingTypeOK
    <3>2. page_table'[e] = page_table[e]
      BY <2>2, <1>6
    <3> QED BY <3>1, <3>2 DEF BlankWhenUnused
  <2> QED BY <2>1, <2>2
<1>11. FrameIsolation'
  <2> SUFFICES ASSUME NEW x \in Dirs, NEW y \in Dirs, NEW p \in Pages, NEW q \in Pages,
                      page_directory_used'[x], page_directory_used'[y],
                      page_table'[x][p] # NoFrame,
                      page_table'[x][p] = page_table'[y][q]
               PROVE  x = y /\ p = q /\ page_table'[x][p] # 0
    BY DEF FrameIsolation
  <2>1. CASE x = d /\ y = d
    BY <2>1, <1>2, <1>3, <1>6, <1>8
  <2>2. CASE x # d /\ y # d
    BY <2>2, <1>6, <1>7 DEF FrameIsolation, PagingTypeOK
  <2>3. ASSUME NEW z \in Dirs, z # d, page_directory_used'[z], NEW r \in Pages, NEW s \in Pages,
               page_table'[z][r] = page_table'[d][s], page_table'[z][r] # NoFrame
        PROVE  FALSE
    <3>1. page_directory_used[z] /\ page_table'[z] = page_table[z]
      BY <2>3, <1>6, <1>7 DEF PagingTypeOK
    <3>2. s \in DOMAIN a /\ page_table[z][r] = a[s]
      BY <2>3, <3>1, <1>6
    <3>3. page_frame_map[a[s]]
      BY <3>1, <3>2, <1>8 DEF FrameAccounting
    <3> QED BY <3>2, <3>3, <1>8
  <2> QED BY <2>1, <2>2, <2>3
<1>12. FrameAccounting'
  <2>1. free_page_frame_count' = Cardinality(FreeFrames')
    <3>1. FreeFrames' = FreeFrames \ Range(a)
      BY DEF FreeFrames
    <3>2. FreeFrames \cap Range(a) = Range(a)
      BY <1>2
    <3>3. Cardinality(FreeFrames \ Range(a)) =
             Cardinality(FreeFrames) - Cardinality(FreeFrames \cap Range(a))
      BY <1>1, FS_Difference, Zenon
    <3> QED BY <3>1, <3>2, <3>3, <1>2 DEF FrameAccounting
  <2>2. ASSUME NEW f \in Frames
        PROVE  page_frame_map'[f] <=>
                  \/ f = 0
                  \/ \E e \in Dirs : page_directory_used'[e]
                                     /\ \E p \in Pages : page_table'[e][p] = f
    <3>0. f # NoFrame
      BY PagingAssumption DEF Frames
    <3>1. page_frame_map'[f] <=> (page_frame_map[f] \/ f \in Range(a))
      OBVIOUS
    <3>2. f \in Range(a) <=> \E p \in Pages : page_table'[d][p] = f
      BY <3>0, <1>3, <1>6 DEF Range
    <3>3. \A e \in Dirs \ {d} : page_directory_used'[e] = page_directory_used[e]
                                /\ page_table'[e] = page_table[e]
      BY <1>6, <1>7 DEF PagingTypeOK
    <3>4. page_directory_used'[d]
      BY <1>7 DEF PagingTypeOK
    <3>5. page_frame_map[f] <=> \/ f = 0
                                \/ \E e \in Dirs \ {d} : page_directory_used[e]
                                         /\ \E p \in Pages : page_table[e][p] = f
      BY <1>4 DEF FrameAccounting
    <3> QED BY <3>1, <3>2, <3>3, <3>4, <3>5
  <2> QED BY <2>1, <2>2 DEF FrameAccounting
<1> QED BY <1>9, <1>10, <1>11, <1>12

\* Freeing a directory: its present entries name as many different frames, all
\* taken and none of them the kernel's, and no other directory maps one.
LEMMA FreePreservesInv ==
    ASSUME PagingInv, NEW d \in Dirs, paging_free_page_directory(d)
    PROVE  PagingInv'
<1> USE DEF PagingInv
<1> DEFINE freed == {page_table[d][p] : p \in PresentPages(d)}
<1>1. /\ page_directory_used' = [page_directory_used EXCEPT ![d] = FALSE]
      /\ page_frame_map' = [f \in Frames |-> page_frame_map[f]
                              /\ \A p \in PresentPages(d) : page_table[d][p] # f]
      /\ free_page_frame_count' = free_page_frame_count + Cardinality(PresentPages(d))
      /\ page_table' = [page_table EXCEPT ![d] = [p \in Pages |-> NoFrame]]
      /\ kernel_entry' = [kernel_entry EXCEPT ![d] = FALSE]
  BY DEF paging_free_page_directory, ClearEntries
<1>2. /\ \A p \in Pages : page_table'[d][p] = NoFrame
      /\ \A e \in Dirs \ {d} : page_table'[e] = page_table[e]
  BY <1>1 DEF PagingTypeOK
<1>3. /\ IsFiniteSet(freed)
      /\ Cardinality(freed) = Cardinality(PresentPages(d))
  <2> DEFINE g == [p \in PresentPages(d) |-> page_table[d][p]]
  <2>1. IsFiniteSet(PresentPages(d))
    <3>1. 0 \in Int /\ PROCESS_PAGE_FRAME_COUNT_MAX - 1 \in Int
      BY PagingAssumption
    <3>2. IsFiniteSet(Pages)
      BY <3>1, FS_Interval, Zenon DEF Pages
    <3>3. PresentPages(d) \in SUBSET Pages
      BY DEF PresentPages
    <3> QED BY <3>2, <3>3, FS_Subset
  <2>2. \A p, q \in PresentPages(d) : g[p] = g[q] => p = q
    BY DEF PresentPages, FrameIsolation, BlankWhenUnused, PagingTypeOK
  <2>3. freed = Range(g)
    BY DEF Range
  <2>4. g \in [PresentPages(d) -> freed]
    OBVIOUS
  <2> HIDE DEF g, freed
  <2>5. IsFiniteSet(Range(g)) /\ Cardinality(Range(g)) = Cardinality(PresentPages(d))
    BY <2>1, <2>2, <2>4, InjectiveRange
  <2> QED BY <2>3, <2>5
<1>4. freed \subseteq Frames /\ freed \cap FreeFrames = {}
  <2> SUFFICES ASSUME NEW p \in PresentPages(d)
               PROVE  page_table[d][p] \in Frames /\ page_frame_map[page_table[d][p]]
    BY DEF FreeFrames
  <2>1. p \in Pages /\ page_table[d][p] # NoFrame
    BY DEF PresentPages
  <2>2. page_directory_used[d]
    BY <2>1 DEF BlankWhenUnused, PagingTypeOK
  <2>3. page_table[d][p] \in Frames
    BY <2>1 DEF PagingTypeOK
  <2> QED BY <2>1, <2>2, <2>3 DEF FrameAccounting
<1>5. FreeFrames' = FreeFrames \cup freed
  BY <1>1, <1>4 DEF FreeFrames
<1>6. free_page_frame_count' = Cardinality(FreeFrames')
  <2>1. FreeFrames \cap freed = {}
    BY <1>4
  <2>2. Cardinality(FreeFrames \cap freed) = 0
    BY <2>1, FS_EmptySet
  <2> HIDE DEF freed
  <2>3. Cardinality(FreeFrames') = Cardinality(FreeFrames) + Cardinality(freed)
                                     - Cardinality(FreeFrames \cap freed)
    BY <1>3, <1>5, FramesFinite, FS_Union
  <2>4. Cardinality(FreeFrames) \in Nat /\ Cardinality(freed) \in Nat
    BY <1>3, FramesFinite, FS_CardinalityType
  <2> QED BY <1>1, <1>3, <2>2, <2>3, <2>4 DEF FrameAccounting
<1>7. PagingTypeOK'
  <2>1. FreeFrames' \in SUBSET Frames
    BY DEF FreeFrames
  <2>2. Cardinality(FreeFrames') \in Nat /\ Cardinality(FreeFrames') <= PAGE_FRAME_MAX_COUNT
    BY <2>1, FramesFinite, FS_Subset, FS_CardinalityType
  <2> QED BY <1>1, <1>6, <2>2, PagingAssumption DEF PagingTypeOK
<1>8. BlankWhenUnused'
  BY <1>1, <1>2 DEF BlankWhenUnused, PagingTypeOK
<1>9. FrameIsolation'
  BY <1>1, <1>2 DEF FrameIsolation, PagingTypeOK
<1>10. FrameAccounting'
  <2>1. ASSUME NEW f \in Frames
        PROVE  page_frame_map'[f] <=>
                  \/ f = 0
                  \/ \E e \in Dirs : page_directory_used'[e]
                                     /\ \E p \in Pages : page_table'[e][p] = f
    <3>0. f # NoFrame
      BY PagingAssumption DEF Frames
    <3>1. page_frame_map'[f] <=> page_frame_map[f] /\ \A p \in Pages : page_table[d][p] # f
      BY <1>1, <3>0 DEF PresentPages
    <3>2. \A e \in Dirs \ {d} : page_directory_used'[e] = page_directory_used[e]
                                /\ page_table'[e] = page_table[e]
      BY <1>1, <1>2 DEF PagingTypeOK
    <3>3. ~page_directory_used'[d]
      BY <1>1 DEF PagingTypeOK
    <3>4. CASE f = 0
      <4>1. page_frame_map[f]
        BY <3>4 DEF FrameAccounting
      <4>2. \A p \in Pages : page_table[d][p] # f
        BY <3>0, <3>4 DEF FrameIsolation, BlankWhenUnused, PagingTypeOK
      <4> QED BY <3>1, <3>4, <4>1, <4>2
    <3>5. CASE f # 0 /\ \E p \in Pages : page_table[d][p] = f
      <4>1. ~page_frame_map'[f]
        BY <3>1, <3>5
      <4>2. page_directory_used[d]
        BY <3>0, <3>5 DEF BlankWhenUnused, PagingTypeOK
      <4>3. \A e \in Dirs \ {d} : page_directory_used[e] =>
                                    \A p \in Pages : page_table[e][p] # f
        BY <3>0, <3>5, <4>2 DEF FrameIsolation
      <4> QED BY <3>2, <3>3, <3>5, <4>1, <4>3
    <3>6. CASE f # 0 /\ \A p \in Pages : page_table[d][p] # f
      <4>1. page_frame_map[f] <=> \E e \in Dirs \ {d} : page_directory_used[e]
                                         /\ \E p \in Pages : page_table[e][p] = f
        BY <3>6 DEF FrameAccounting
      <4> QED BY <3>1, <3>2, <3>3, <3>6, <4>1
    <3> QED BY <3>4, <3>5, <3>6
  <2> QED BY <1>6, <2>1 DEF FrameAccounting
<1> QED BY <1>7, <1>8, <1>9, <1>10

\* A step that leaves the memory manager alone leaves its invariant alone.
LEMMA PagingStutterInv == PagingInv /\ UNCHANGED pagingVars => PagingInv'
BY DEF PagingInv, pagingVars, PagingTypeOK, FrameIsolation, FrameAccounting,
       BlankWhenUnused, FreeFrames

LEMMA PagingStepInv == PagingInv /\ [PagingNext]_pagingVars => PagingInv'
<1> SUFFICES ASSUME PagingInv, [PagingNext]_pagingVars PROVE PagingInv'
  OBVIOUS
<1>1. ASSUME NEW d \in Dirs, NEW n \in 1 .. PROCESS_PAGE_FRAME_COUNT_MAX,
             BuildAddressSpace(d, n)
      PROVE  PagingInv'
  BY <1>1, BuildPreservesInv
<1>2. ASSUME NEW d \in Dirs, paging_free_page_directory(d)
      PROVE  PagingInv'
  BY <1>2, FreePreservesInv
<1>3. CASE UNCHANGED pagingVars
  BY <1>3, PagingStutterInv
<1> QED BY <1>1, <1>2, <1>3 DEF PagingNext

\* The memory manager keeps its invariant, whatever the sizes of its tables.
THEOREM PagingInvariance == PagingSpec => []PagingInv
<1>1. PagingInit => PagingInv
  BY PagingInitInv
<1>2. PagingInv /\ [PagingNext]_pagingVars => PagingInv'
  BY PagingStepInv
<1> QED BY <1>1, <1>2, PTL DEF PagingSpec

\* No two entries of directories in use share a frame (paging.c).
THEOREM PagingIsolation == PagingSpec => []FrameIsolation
<1>1. PagingInv => FrameIsolation
  BY DEF PagingInv
<1> QED BY <1>1, PagingInvariance, PTL

\* The free counter and the bitmap agree with the directories (paging.c).
THEOREM PagingAccounting == PagingSpec => []FrameAccounting
<1>1. PagingInv => FrameAccounting
  BY DEF PagingInv
<1> QED BY <1>1, PagingInvariance, PTL

-----------------------------------------------------------------------------
\* The frames a directory owns follow its entries.
LEMMA OwnedFramesOf ==
    ASSUME NEW d \in Dirs
    PROVE  OwnedFrames[d] = {f \in Frames : \E p \in Pages : page_table[d][p] = f}
BY DEF OwnedFrames

\* The tables at boot map to an initial state of AddressSpaces.
LEMMA AbstractInit == PagingInit => Abstract!Init
<1> SUFFICES ASSUME PagingInit
             PROVE  \A d \in Dirs : {f \in Frames : \E p \in Pages : page_table[d][p] = f} = {}
  BY DEF Abstract!Init, OwnedFrames
<1> QED BY PagingAssumption DEF PagingInit, Frames

\* Building an address space is a grant of the frames it took.
LEMMA AbstractBuild ==
    ASSUME PagingInv, NEW d \in Dirs, NEW n \in 1 .. PROCESS_PAGE_FRAME_COUNT_MAX,
           BuildAddressSpace(d, n)
    PROVE  Abstract!Next
<1> USE DEF PagingInv
<1>0. n \in Nat /\ n > 0 /\ n <= PROCESS_PAGE_FRAME_COUNT_MAX
  BY PagingAssumption
<1>1. n <= Cardinality(FreeFrames) /\ IsFiniteSet(FreeFrames) /\ FreeFrames \in SUBSET Nat
  BY FramesFinite, <1>0, PagingAssumption
     DEF BuildAddressSpace, paging_allocate_check, FrameAccounting, FreeFrames, Frames
<1> PICK a \in FirstFit(FreeFrames, n) : page_table' = MapPages(d, a)
  BY DEF BuildAddressSpace
<1>2. a \in [0 .. n - 1 -> FreeFrames] /\ Range(a) \subseteq FreeFrames
  BY <1>0, <1>1, FirstFitTakes
<1>3. DOMAIN a = 0 .. n - 1 /\ DOMAIN a \subseteq Pages /\ 0 \in DOMAIN a
  BY <1>0, <1>2, PagingAssumption DEF Pages
<1>4. ~page_directory_used[d] /\ \A p \in Pages : page_table[d][p] = NoFrame
  BY DEF BuildAddressSpace, UnusedDirectory, IsFirst, BlankWhenUnused
<1>5. \A f \in Frames : f # NoFrame
  BY PagingAssumption DEF Frames
<1>6. OwnedFrames[d] = {}
  BY <1>4, <1>5, OwnedFramesOf
<1>7. Range(a) # {}
  BY <1>3 DEF Range
<1>8. Range(a) \subseteq Abstract!Available
  <2> SUFFICES ASSUME NEW f \in Range(a)
               PROVE  f \in Frames \ {0} /\ \A e \in Dirs : f \notin OwnedFrames[e]
    BY DEF Abstract!Available
  <2>1. f \in Frames /\ ~page_frame_map[f]
    BY <1>2 DEF FreeFrames
  <2>2. f # 0
    BY <2>1 DEF FrameAccounting
  <2>3. ASSUME NEW e \in Dirs, NEW p \in Pages, page_table[e][p] = f PROVE FALSE
    <3>1. page_directory_used[e]
      BY <2>1, <2>3, <1>5 DEF BlankWhenUnused, PagingTypeOK
    <3> QED BY <2>1, <2>3, <3>1 DEF FrameAccounting
  <2> QED BY <2>1, <2>2, <2>3, OwnedFramesOf
<1>9. OwnedFrames' = [OwnedFrames EXCEPT ![d] = Range(a)]
  <2>1. /\ \A p \in Pages : page_table'[d][p] = IF p \in DOMAIN a THEN a[p] ELSE NoFrame
        /\ \A e \in Dirs \ {d} : page_table'[e] = page_table[e]
    BY <1>3, <1>4 DEF MapPages, PagingTypeOK
  <2>2. {f \in Frames : \E p \in Pages : page_table'[d][p] = f} = Range(a)
    BY <2>1, <1>2, <1>3, <1>5 DEF Range, FreeFrames
  <2>3. \A e \in Dirs \ {d} : {f \in Frames : \E p \in Pages : page_table'[e][p] = f}
                              = {f \in Frames : \E p \in Pages : page_table[e][p] = f}
    BY <2>1
  <2>4. \A e \in Dirs : OwnedFrames'[e] = IF e = d THEN Range(a) ELSE OwnedFrames[e]
    BY <2>2, <2>3 DEF OwnedFrames
  <2>5. DOMAIN OwnedFrames = Dirs /\ DOMAIN OwnedFrames' = Dirs
    BY DEF OwnedFrames
  <2>6. OwnedFrames' = [e \in Dirs |-> OwnedFrames'[e]]
    BY DEF OwnedFrames
  <2> QED BY <2>4, <2>5, <2>6
<1>10. Abstract!Grant(d, Range(a))
  BY <1>6, <1>7, <1>9 DEF Abstract!Grant
<1> QED BY <1>8, <1>10 DEF Abstract!Next

\* Freeing a directory is the return of all its frames.
LEMMA AbstractFree ==
    ASSUME PagingTypeOK, NEW d \in Dirs, paging_free_page_directory(d)
    PROVE  Abstract!Next
<1>1. /\ \A p \in Pages : page_table'[d][p] = NoFrame
      /\ \A e \in Dirs \ {d} : page_table'[e] = page_table[e]
  BY DEF paging_free_page_directory, ClearEntries, PagingTypeOK
<1>2. {f \in Frames : \E p \in Pages : page_table'[d][p] = f} = {}
  BY <1>1, PagingAssumption DEF Frames
<1>3. OwnedFrames' = [OwnedFrames EXCEPT ![d] = {}]
  BY <1>1, <1>2 DEF OwnedFrames
<1> QED BY <1>3 DEF Abstract!Next, Abstract!Revoke

\* paging.c implements AddressSpaces: every step of the memory manager is a
\* grant of frames nobody owns, a return of all frames of a space, or invisible.
THEOREM PagingRefinement == PagingSpec => ImplementsAddressSpaces
<1>1. PagingInit => Abstract!Init
  BY AbstractInit
<1>2. PagingInv /\ [PagingNext]_pagingVars => [Abstract!Next]_OwnedFrames
  <2> SUFFICES ASSUME PagingInv, [PagingNext]_pagingVars
               PROVE  [Abstract!Next]_OwnedFrames
    OBVIOUS
  <2>1. ASSUME NEW d \in Dirs, NEW n \in 1 .. PROCESS_PAGE_FRAME_COUNT_MAX,
               BuildAddressSpace(d, n)
        PROVE  Abstract!Next
    BY <2>1, AbstractBuild
  <2>2. ASSUME NEW d \in Dirs, paging_free_page_directory(d)
        PROVE  Abstract!Next
    BY <2>2, AbstractFree DEF PagingInv
  <2>3. CASE UNCHANGED pagingVars
    BY <2>3 DEF pagingVars, OwnedFrames
  <2> QED BY <2>1, <2>2, <2>3 DEF PagingNext
<1> QED BY <1>1, <1>2, PagingInvariance, PTL DEF PagingSpec, ImplementsAddressSpaces, Abstract!Spec
=============================================================================
