------------------------------- MODULE Paging -------------------------------
(***************************************************************************)
(* The memory manager of src/paging.c: the bitmap of physical page frames  *)
(* and its free counter (page_manager_state), and the pool of page         *)
(* directories handed to processes (page_directory_list and                *)
(* page_directory_manager).                                                *)
(*                                                                         *)
(* Interrupt gates keep IF clear in the kernel, so a kernel call runs to   *)
(* its end undisturbed: building an address space, which                   *)
(* process_create_user_process does with a sequence of calls, is one step. *)
(* Every caller in the repository asks for entry address 0, so the pages   *)
(* of a process are the first ones of its directory; the entry of the      *)
(* kernel half (index 0x300) is kept apart.                                *)
(***************************************************************************)
EXTENDS LinearScan

CONSTANTS PAGE_FRAME_MAX_COUNT,              \* physical frames of 4 MiB (32)
          PAGING_DIRECTORY_TABLE_MAX_COUNT,  \* page directories (32)
          PROCESS_PAGE_FRAME_COUNT_MAX,      \* frames one process may have (8)
          NoFrame                            \* a directory entry that is not present

ASSUME PagingAssumption ==
    /\ PAGE_FRAME_MAX_COUNT \in Nat \ {0}
    /\ PAGING_DIRECTORY_TABLE_MAX_COUNT \in Nat
    /\ PROCESS_PAGE_FRAME_COUNT_MAX \in Nat
    /\ NoFrame \notin 0 .. PAGE_FRAME_MAX_COUNT - 1

Frames == 0 .. PAGE_FRAME_MAX_COUNT - 1
Dirs   == 0 .. PAGING_DIRECTORY_TABLE_MAX_COUNT - 1
Pages  == 0 .. PROCESS_PAGE_FRAME_COUNT_MAX - 1

VARIABLES page_frame_map,          \* page_frame_map[f]: frame f is taken
          free_page_frame_count,   \* the counter kept beside the bitmap
          page_directory_used,     \* page_directory_used[d]: d is handed out
          page_table,              \* page_table[d][p]: frame of page p in d, or NoFrame
          kernel_entry             \* kernel_entry[d]: entry 0x300 of d is present

pagingVars == <<page_frame_map, free_page_frame_count, page_directory_used,
                page_table, kernel_entry>>

-----------------------------------------------------------------------------
\* Frame 0 holds the kernel.  The counter is initialised apart from the bitmap.
PagingInit ==
    /\ page_frame_map = [f \in Frames |-> f = 0]
    /\ free_page_frame_count = PAGE_FRAME_MAX_COUNT - 1
    /\ page_directory_used = [d \in Dirs |-> FALSE]
    /\ page_table = [d \in Dirs |-> [p \in Pages |-> NoFrame]]
    /\ kernel_entry = [d \in Dirs |-> FALSE]

FreeFrames == {f \in Frames : ~page_frame_map[f]}

\* The test is on the counter, the allocation on the bitmap.
paging_allocate_check(n) == free_page_frame_count >= n

\* Mutant: the entry of page 0 made for the new directory is never replaced.
MapKeepingPageZero(d, a) ==
    [page_table EXCEPT ![d] =
        [p \in Pages |-> IF p = 0 THEN 0
                         ELSE IF p \in DOMAIN a THEN a[p] ELSE page_table[d][p]]]

\* A new directory d maps page 0 to frame 0 until the first allocation
\* overwrites that entry; entries not allocated keep what an earlier owner of
\* d left in them.
MapPages(d, a) ==
    [page_table EXCEPT ![d] =
        [p \in Pages |-> IF p \in DOMAIN a THEN a[p]
                         ELSE IF p = 0 THEN 0 ELSE page_table[d][p]]]

\* Mutant: the search for a directory does not look at page_directory_used.
FirstDirectory(d) == IsFirst(Dirs, d)

\* The directory paging_create_new_page_directory hands out.
UnusedDirectory(d) == IsFirst({e \in Dirs : ~page_directory_used[e]}, d)

\* paging_create_new_page_directory finds d, then
\* paging_allocate_user_page_frame runs once for each of n pages.
BuildAddressSpace(d, n) ==
    /\ paging_allocate_check(n)
    /\ UnusedDirectory(d)
    /\ \E a \in FirstFit(FreeFrames, n) :
          /\ page_frame_map' = [f \in Frames |-> page_frame_map[f] \/ f \in Range(a)]
          /\ free_page_frame_count' = free_page_frame_count - Cardinality(DOMAIN a)
          /\ page_table' = MapPages(d, a)
    /\ page_directory_used' = [page_directory_used EXCEPT ![d] = TRUE]
    /\ kernel_entry' = [kernel_entry EXCEPT ![d] = TRUE]

\* Mutants: the loop over the entries starts one too late; the entries are not
\* zeroed.
PresentAfterFirst(d) == {p \in Pages \ {0} : page_table[d][p] # NoFrame}
LeaveEntries(d) == page_table

\* The pages of d whose entry is present.
PresentPages(d) == {p \in Pages : page_table[d][p] # NoFrame}

\* The directories after every entry of d is set to zero.
ClearEntries(d) == [page_table EXCEPT ![d] = [p \in Pages |-> NoFrame]]

\* Every present entry is released: its frame leaves the bitmap, the counter
\* goes up once per entry, the entry is zeroed.  The code does not ask
\* whether d is in use.
paging_free_page_directory(d) ==
    /\ page_directory_used' = [page_directory_used EXCEPT ![d] = FALSE]
    /\ page_frame_map' =
          [f \in Frames |-> page_frame_map[f] /\ \A p \in PresentPages(d) : page_table[d][p] # f]
    /\ free_page_frame_count' = free_page_frame_count + Cardinality(PresentPages(d))
    /\ page_table' = ClearEntries(d)
    /\ kernel_entry' = [kernel_entry EXCEPT ![d] = FALSE]

PagingNext ==
    \E d \in Dirs :
        \/ \E n \in 1 .. PROCESS_PAGE_FRAME_COUNT_MAX : BuildAddressSpace(d, n)
        \/ paging_free_page_directory(d)

PagingSpec == PagingInit /\ [][PagingNext]_pagingVars

-----------------------------------------------------------------------------
PagingTypeOK ==
    /\ page_frame_map \in [Frames -> BOOLEAN]
    /\ free_page_frame_count \in 0 .. PAGE_FRAME_MAX_COUNT
    /\ page_directory_used \in [Dirs -> BOOLEAN]
    /\ page_table \in [Dirs -> [Pages -> Frames \cup {NoFrame}]]
    /\ kernel_entry \in [Dirs -> BOOLEAN]

\* Two entries of directories in use never share a frame, whether in one
\* directory or in two, and none of them maps frame 0: a process can reach
\* neither the memory of another nor the kernel's frame through its low pages,
\* although paging_create_new_page_directory leaves stale entries in place and
\* maps page 0 to frame 0.
FrameIsolation ==
    \A d, e \in Dirs : \A p, q \in Pages :
        (/\ page_directory_used[d] /\ page_directory_used[e]
         /\ page_table[d][p] # NoFrame
         /\ page_table[d][p] = page_table[e][q])
        => d = e /\ p = q /\ page_table[d][p] # 0

\* The counter that paging_allocate_check trusts is the number of free frames,
\* and a frame is marked taken exactly when it is the kernel's or some
\* directory in use maps it, so an allocation that passed the check cannot
\* fall short and no frame is lost.
FrameAccounting ==
    /\ free_page_frame_count = Cardinality(FreeFrames)
    /\ \A f \in Frames :
          page_frame_map[f] <=> \/ f = 0
                                \/ \E d \in Dirs : /\ page_directory_used[d]
                                                   /\ \E p \in Pages : page_table[d][p] = f

\* A directory that is not handed out is blank: the next process to get it
\* inherits no mapping from the one before, which is what makes leaving the
\* old entries alone in paging_create_new_page_directory safe.
BlankWhenUnused ==
    \A d \in Dirs :
        /\ kernel_entry[d] = page_directory_used[d]
        /\ ~page_directory_used[d] => \A p \in Pages : page_table[d][p] = NoFrame

\* The inductive invariant: each of the three parts needs the other two.
PagingInv == PagingTypeOK /\ FrameIsolation /\ FrameAccounting /\ BlankWhenUnused

-----------------------------------------------------------------------------
\* The refinement mapping: an address space owns the frames its directory maps.
OwnedFrames == [d \in Dirs |-> {f \in Frames : \E p \in Pages : page_table[d][p] = f}]

Abstract == INSTANCE AddressSpaces
                WITH Spaces <- Dirs, UserFrames <- Frames \ {0}, owned <- OwnedFrames

\* paging.c implements AddressSpaces: every step of its tables is the grant of
\* unowned frames to an empty address space, or the return of all of a space's
\* frames.
ImplementsAddressSpaces == Abstract!Spec
=============================================================================
