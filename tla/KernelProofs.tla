---------------------------- MODULE KernelProofs ----------------------------
(***************************************************************************)
(* Proofs about the kernel, for any number of frames, directories, pages   *)
(* and process slots.  The kernel's tables of frames evolve as Paging says *)
(* (KernelRefinesPaging), so the invariant of PagingProofs holds of them;  *)
(* with it, the coherence of the process table, the ownership of the       *)
(* processor and the integrity of saved contexts are inductive together.   *)
(***************************************************************************)
EXTENDS Kernel, PagingProofs

\* The part of a creation that touches memory is a step of Paging.
LEMMA CreateIsPagingStep ==
    ASSUME NEW n \in Nat \ {0}, NEW d \in Dirs,
           CreateCheck(n, TRUE) = PROCESS_CREATE_SUCCESS, BuildAddressSpace(d, n)
    PROVE  n \in 1 .. PROCESS_PAGE_FRAME_COUNT_MAX /\ PagingNext
<1>1. n \in 1 .. PROCESS_PAGE_FRAME_COUNT_MAX
  BY PagingAssumption
     DEF CreateCheck, PROCESS_CREATE_SUCCESS, PROCESS_CREATE_FAIL_MAX_PROCESS_EXCEEDED,
         PROCESS_CREATE_FAIL_INVALID_ENTRYPOINT, PROCESS_CREATE_FAIL_NOT_ENOUGH_MEMORY
<1> QED BY <1>1 DEF PagingNext

\* Destroying a process is, for the memory manager, freeing a directory.
LEMMA DestroyIsPagingStep ==
    ASSUME NEW p \in Pids, process_destroy(p)
    PROVE  PagingNext
BY DEF process_destroy, ReleaseAddressSpace, PagingNext

\* Every step of the kernel is a step of the memory manager or leaves it alone.
LEMMA KernelStepIsPagingStep ==
    ASSUME TypeOK, [Next]_vars
    PROVE  [PagingNext]_pagingVars
<1>1. CASE kernel_setup
  <2>0. 1 \in Nat \ {0}
    OBVIOUS
  <2>1. ASSUME NEW i \in Pids, NEW d \in Dirs, CreateSuccess(1, i, d) PROVE PagingNext
    BY <2>0, <2>1, CreateIsPagingStep DEF CreateSuccess
  <2>2. ASSUME CreateUnreadable(1) PROVE PagingNext
    BY <2>0, <2>2, CreateIsPagingStep DEF CreateUnreadable
  <2> QED BY <1>1, <2>1, <2>2 DEF kernel_setup
<1>2. CASE SyscallExec
  <2>1. PICK n \in RequestFrames :
          \/ \E low \in BOOLEAN : CreateRefused(n, low)
          \/ CreateUnreadable(n)
          \/ \E i \in Pids, d \in Dirs : CreateSuccess(n, i, d)
    BY <1>2 DEF SyscallExec
  <2>2. n \in Nat \ {0}
    BY ProcessAssumption
  <2>3. CASE \E low \in BOOLEAN : CreateRefused(n, low)
    BY <2>3 DEF CreateRefused
  <2>4. CASE CreateUnreadable(n)
    BY <2>2, <2>4, CreateIsPagingStep DEF CreateUnreadable
  <2>5. CASE \E i \in Pids, d \in Dirs : CreateSuccess(n, i, d)
    BY <2>2, <2>5, CreateIsPagingStep DEF CreateSuccess
  <2> QED BY <2>1, <2>3, <2>4, <2>5
<1>3. CASE SyscallKill
  BY <1>3, DestroyIsPagingStep DEF SyscallKill
<1>4. CASE SyscallKillSelf
  BY <1>4, DestroyIsPagingStep DEF SyscallKillSelf, RunningIn
<1>5. CASE SyscallExit
  <2>1. PICK p \in Pids : process_destroy(process_list[p].pid)
    BY <1>5 DEF SyscallExit
  <2>2. process_list[p].pid \in Pids
    BY DEF TypeOK, PCBs
  <2> QED BY <2>1, <2>2, DestroyIsPagingStep
<1>6. CASE UserStep \/ TimerInterrupt \/ KernelTranslationLost \/ UNCHANGED vars
  BY <1>6 DEF UserStep, TimerInterrupt, KernelTranslationLost, vars, pagingVars
<1> QED BY <1>1, <1>2, <1>3, <1>4, <1>5, <1>6 DEF Next

-----------------------------------------------------------------------------
\* ProcessTable without its counter, of a table pl that a handler is still
\* working on.
Slots(pl, used, dirUsed) ==
    /\ \A p \in Pids : used[p] =>
          /\ pl[p].pid = p
          /\ pl[p].state \in {"READY", "RUNNING"}
          /\ pl[p].dir \in Dirs
          /\ dirUsed[pl[p].dir]
    /\ \A p, q \in Pids : used[p] /\ used[q] /\ pl[p].dir = pl[q].dir => p = q
    /\ \A p \in Pids : ~used[p] => pl[p] = NullPCB

\* A zeroed control block is a control block.
LEMMA NullPCBType == NullPCB \in PCBs
BY PagingAssumption, ProcessAssumption DEF NullPCB, PCBs, Pids, Eips

\* Setting the state of a process changes nothing else.
LEMMA WithStateFields ==
    ASSUME NEW pl \in [Pids -> PCBs], NEW i \in Pids, NEW s \in {"READY", "RUNNING"}
    PROVE  /\ WithState(pl, i, s) \in [Pids -> PCBs]
           /\ \A p \in Pids \ {i} : WithState(pl, i, s)[p] = pl[p]
           /\ WithState(pl, i, s)[i].state = s
           /\ WithState(pl, i, s)[i].pid = pl[i].pid
           /\ WithState(pl, i, s)[i].dir = pl[i].dir
           /\ WithState(pl, i, s)[i].eip = pl[i].eip
BY DEF WithState, PCBs

\* What a switch does to a coherent table with at most one running process:
\* some process gets the processor and the interrupted one becomes READY, or
\* there was no process and the machine is wedged.
LEMMA SwitchResult ==
    ASSUME NEW pl \in [Pids -> PCBs], NEW used \in [Pids -> BOOLEAN], NEW dirUsed,
           Slots(pl, used, dirUsed),
           \A p, q \in RunningIn(pl, used) : p = q,
           scheduler_switch_to_next_process(pl, used)
    PROVE  \/ \E i \in Pids :
                 /\ used[i]
                 /\ process_list' \in [Pids -> PCBs]
                 /\ \A p \in Pids :
                       /\ process_list'[p].pid = pl[p].pid
                       /\ process_list'[p].dir = pl[p].dir
                       /\ process_list'[p].eip = pl[p].eip
                       /\ used[p] /\ p # i => process_list'[p].state = "READY"
                       /\ ~used[p] => process_list'[p] = pl[p]
                 /\ process_list'[i].state = "RUNNING"
                 /\ cr3' = pl[i].dir
                 /\ eip' = pl[i].eip
                 /\ cpu' = ConditionAfterLoading(pl[i].dir)
           \/ /\ \A p \in Pids : ~used[p]
              /\ process_list' \in [Pids -> PCBs]
              /\ cr3' = NULL
              /\ eip' = 0
              /\ cpu' = "wedged"
<1>1. CASE RunningIn(pl, used) = {} /\ Dispatch(pl, 0)
  <2>1. PICK i \in Pids :
          /\ ScanFinds(pl, 0, i)
          /\ process_list' = WithState(pl, i, "RUNNING")
          /\ cr3' = pl[i].dir
          /\ eip' = pl[i].eip
          /\ cpu' = ConditionAfterLoading(pl[i].dir)
    BY <1>1 DEF Dispatch
  <2>2. \A p \in Pids : used[p] => pl[p].state = "READY"
    BY <1>1 DEF RunningIn, Slots
  <2>3. \A p \in Pids : ~used[p] => pl[p].state = "BLOCKED"
    BY DEF Slots, NullPCB
  <2>4. process_list' \in [Pids -> PCBs]
    BY <2>1, WithStateFields
  <2>5. CASE used[i]
    BY <2>1, <2>2, <2>4, <2>5, WithStateFields DEF Slots
  <2>6. CASE ~used[i]
    <3>1. \A p \in Pids : pl[p].state # "READY"
      BY <2>1, <2>3, <2>6 DEF ScanFinds
    <3>2. \A p \in Pids : ~used[p]
      BY <2>2, <3>1
    <3>3. pl[i].dir = NULL /\ pl[i].eip = 0
      BY <2>6 DEF Slots, NullPCB
    <3>4. NULL \notin Dirs
      BY ProcessAssumption DEF Dirs
    <3> QED BY <2>1, <2>4, <3>2, <3>3, <3>4 DEF ConditionAfterLoading
  <2> QED BY <2>5, <2>6
<1>2. ASSUME NEW c \in Pids, IsFirst(RunningIn(pl, used), c),
             Dispatch(Preempted(pl, c), (pl[c].pid + 1) % PROCESS_COUNT_MAX)
      PROVE  \E i \in Pids :
                 /\ used[i]
                 /\ process_list' \in [Pids -> PCBs]
                 /\ \A p \in Pids :
                       /\ process_list'[p].pid = pl[p].pid
                       /\ process_list'[p].dir = pl[p].dir
                       /\ process_list'[p].eip = pl[p].eip
                       /\ used[p] /\ p # i => process_list'[p].state = "READY"
                       /\ ~used[p] => process_list'[p] = pl[p]
                 /\ process_list'[i].state = "RUNNING"
                 /\ cr3' = pl[i].dir
                 /\ eip' = pl[i].eip
                 /\ cpu' = ConditionAfterLoading(pl[i].dir)
  <2> DEFINE pr == Preempted(pl, c)
  <2>1. used[c] /\ pl[c].state = "RUNNING" /\ \A p \in RunningIn(pl, used) : p = c
    BY <1>2 DEF IsFirst, RunningIn
  <2>2. /\ pr \in [Pids -> PCBs]
        /\ \A p \in Pids \ {c} : pr[p] = pl[p]
        /\ pr[c].state = "READY" /\ pr[c].pid = pl[c].pid
        /\ pr[c].dir = pl[c].dir /\ pr[c].eip = pl[c].eip
    BY WithStateFields DEF Preempted
  <2>3. /\ \A p \in Pids : pr[p].pid = pl[p].pid /\ pr[p].dir = pl[p].dir /\ pr[p].eip = pl[p].eip
        /\ \A p \in Pids : used[p] => pr[p].state = "READY"
        /\ \A p \in Pids : ~used[p] => pr[p] = pl[p] /\ pr[p].state = "BLOCKED"
    BY <2>1, <2>2 DEF RunningIn, Slots, NullPCB
  <2> HIDE DEF pr
  <2>4. PICK i \in Pids :
          /\ ScanFinds(pr, (pl[c].pid + 1) % PROCESS_COUNT_MAX, i)
          /\ process_list' = WithState(pr, i, "RUNNING")
          /\ cr3' = pr[i].dir
          /\ eip' = pr[i].eip
          /\ cpu' = ConditionAfterLoading(pr[i].dir)
    BY <1>2 DEF Dispatch, pr
  <2>5. used[i]
    BY <2>1, <2>3, <2>4 DEF ScanFinds
  <2>6. /\ process_list' \in [Pids -> PCBs]
        /\ \A p \in Pids \ {i} : process_list'[p] = pr[p]
        /\ process_list'[i].state = "RUNNING" /\ process_list'[i].pid = pr[i].pid
        /\ process_list'[i].dir = pr[i].dir /\ process_list'[i].eip = pr[i].eip
    BY <2>2, <2>4, WithStateFields
  <2> QED BY <2>3, <2>4, <2>5, <2>6
<1> QED BY <1>1, <1>2 DEF scheduler_switch_to_next_process

\* The slots in use are finitely many.
LEMMA UsedFinite ==
    ASSUME NEW used \in [Pids -> BOOLEAN]
    PROVE  /\ IsFiniteSet({p \in Pids : used[p]})
           /\ Cardinality({p \in Pids : used[p]}) \in 0 .. PROCESS_COUNT_MAX
<1>1. IsFiniteSet(Pids) /\ Cardinality(Pids) = PROCESS_COUNT_MAX
  BY ProcessAssumption, FS_Interval DEF Pids
<1>2. {p \in Pids : used[p]} \in SUBSET Pids
  OBVIOUS
<1>3. /\ IsFiniteSet({p \in Pids : used[p]})
      /\ Cardinality({p \in Pids : used[p]}) <= PROCESS_COUNT_MAX
  BY <1>1, <1>2, FS_Subset
<1>4. Cardinality({p \in Pids : used[p]}) \in Nat
  BY <1>3, FS_CardinalityType
<1> QED BY <1>3, <1>4, ProcessAssumption

\* A creation puts a coherent READY process, at address 0, in a free slot and
\* leaves every other slot alone.
LEMMA CreateResult ==
    ASSUME KernelInv, cpu # "wedged", NEW n \in Nat \ {0}, NEW i \in Pids, NEW d \in Dirs,
           CreateSuccess(n, i, d)
    PROVE  /\ ~pid_used[i]
           /\ pid_used' \in [Pids -> BOOLEAN]
           /\ pid_used'[i] /\ \A p \in Pids \ {i} : pid_used'[p] = pid_used[p]
           /\ WithNewProcess(i, d) \in [Pids -> PCBs]
           /\ \A p \in Pids \ {i} : WithNewProcess(i, d)[p] = process_list[p]
           /\ WithNewProcess(i, d)[i] = [pid |-> i, state |-> "READY", dir |-> d, eip |-> 0]
           /\ Slots(WithNewProcess(i, d), pid_used', page_directory_used')
           /\ active_process_count' = Cardinality({p \in Pids : pid_used'[p]})
           /\ active_process_count' \in 0 .. PROCESS_COUNT_MAX
<1> USE DEF KernelInv
<1>1. ~pid_used[i]
  BY DEF CreateSuccess, InactiveIndex, IsFirst
<1>2. /\ pid_used' = [pid_used EXCEPT ![i] = TRUE]
      /\ active_process_count' = active_process_count + 1
      /\ page_directory_used' = [page_directory_used EXCEPT ![d] = TRUE]
      /\ ~page_directory_used[d]
  BY DEF CreateSuccess, BuildAddressSpace, UnusedDirectory, IsFirst
<1>3. /\ pid_used' \in [Pids -> BOOLEAN]
      /\ pid_used'[i] /\ \A p \in Pids \ {i} : pid_used'[p] = pid_used[p]
  BY <1>2 DEF TypeOK
<1>4. process_list[i] = NullPCB
  BY <1>1 DEF ProcessTable
<1>5. /\ \A p \in Pids \ {i} : WithNewProcess(i, d)[p] = process_list[p]
      /\ WithNewProcess(i, d)[i] = [pid |-> i, state |-> "READY", dir |-> d, eip |-> 0]
      /\ WithNewProcess(i, d) \in [Pids -> PCBs]
  <2> DEFINE new == [pid |-> i, state |-> "READY", dir |-> d, eip |-> 0]
  <2>2. WithNewProcess(i, d) = [process_list EXCEPT ![i] = new]
    BY <1>4 DEF WithNewProcess, NullPCB
  <2>3. new \in PCBs
    BY ProcessAssumption DEF PCBs, Eips
  <2> HIDE DEF new
  <2>4. process_list \in [Pids -> PCBs]
    BY DEF TypeOK
  <2>5. /\ \A p \in Pids \ {i} : WithNewProcess(i, d)[p] = process_list[p]
        /\ WithNewProcess(i, d)[i] = new
        /\ WithNewProcess(i, d) \in [Pids -> PCBs]
    BY <2>2, <2>3, <2>4
  <2> QED BY <2>5 DEF new
<1>6. Slots(WithNewProcess(i, d), pid_used', page_directory_used')
  <2>1. \A e \in Dirs : page_directory_used[e] => page_directory_used'[e]
    BY <1>2 DEF TypeOK, PagingTypeOK
  <2>2. page_directory_used'[d]
    BY <1>2 DEF TypeOK, PagingTypeOK
  <2> HIDE DEF KernelInv
  <2>3. /\ \A p \in Pids : pid_used[p] =>
              /\ process_list[p].pid = p
              /\ process_list[p].state \in {"READY", "RUNNING"}
              /\ process_list[p].dir \in Dirs
              /\ page_directory_used[process_list[p].dir]
        /\ \A p, q \in Pids :
              pid_used[p] /\ pid_used[q] /\ process_list[p].dir = process_list[q].dir => p = q
        /\ \A p \in Pids : ~pid_used[p] => process_list[p] = NullPCB
    BY DEF KernelInv, ProcessTable
  <2> QED BY <1>2, <1>3, <1>5, <2>1, <2>2, <2>3 DEF Slots
<1>7. active_process_count' = Cardinality({p \in Pids : pid_used'[p]})
  <2>1. {p \in Pids : pid_used'[p]} = {p \in Pids : pid_used[p]} \cup {i}
    BY <1>3
  <2>2. IsFiniteSet({p \in Pids : pid_used[p]})
    BY UsedFinite DEF TypeOK
  <2>3. i \notin {p \in Pids : pid_used[p]}
    BY <1>1
  <2>4. active_process_count = Cardinality({p \in Pids : pid_used[p]})
    BY DEF ProcessTable
  <2> QED BY <1>2, <2>1, <2>2, <2>3, <2>4, FS_AddElement
<1>8. active_process_count' \in 0 .. PROCESS_COUNT_MAX
  BY <1>3, <1>7, UsedFinite
<1> QED BY <1>1, <1>3, <1>5, <1>6, <1>7, <1>8

\* A destruction zeroes one slot, releases its directory, and leaves every
\* other slot alone.
LEMMA DestroyResult ==
    ASSUME KernelInv, cpu # "wedged", NEW p \in Pids, process_destroy(p)
    PROVE  /\ pid_used[p]
           /\ pid_used' \in [Pids -> BOOLEAN]
           /\ ~pid_used'[p] /\ \A q \in Pids \ {p} : pid_used'[q] = pid_used[q]
           /\ process_list' \in [Pids -> PCBs]
           /\ process_list'[p] = NullPCB
           /\ \A q \in Pids \ {p} : process_list'[q] = process_list[q]
           /\ ~page_directory_used'[process_list[p].dir]
           /\ \A e \in Dirs \ {process_list[p].dir} :
                   page_directory_used'[e] = page_directory_used[e]
           /\ Slots(process_list', pid_used', page_directory_used')
           /\ active_process_count' = Cardinality({q \in Pids : pid_used'[q]})
           /\ active_process_count' \in 0 .. PROCESS_COUNT_MAX
<1> USE DEF KernelInv
<1> DEFINE d == process_list[p].dir
<1>1. /\ pid_used[p] /\ d \in Dirs
      /\ process_list' = [process_list EXCEPT ![p] = NullPCB]
      /\ pid_used' = [pid_used EXCEPT ![p] = FALSE]
      /\ active_process_count' = active_process_count - 1
      /\ page_directory_used' = [page_directory_used EXCEPT ![d] = FALSE]
  BY DEF process_destroy, WithoutProcess, ReleaseAddressSpace, paging_free_page_directory
<1>2. /\ pid_used' \in [Pids -> BOOLEAN]
      /\ ~pid_used'[p] /\ \A q \in Pids \ {p} : pid_used'[q] = pid_used[q]
  BY <1>1 DEF TypeOK
<1>3. /\ process_list' \in [Pids -> PCBs]
      /\ process_list'[p] = NullPCB
      /\ \A q \in Pids \ {p} : process_list'[q] = process_list[q]
  BY <1>1, NullPCBType DEF TypeOK
<1>4. /\ ~page_directory_used'[d]
      /\ \A e \in Dirs \ {d} : page_directory_used'[e] = page_directory_used[e]
  BY <1>1 DEF TypeOK, PagingTypeOK
<1>5. Slots(process_list', pid_used', page_directory_used')
  <2>1. /\ \A q \in Pids : pid_used[q] =>
              /\ process_list[q].pid = q
              /\ process_list[q].state \in {"READY", "RUNNING"}
              /\ process_list[q].dir \in Dirs
              /\ page_directory_used[process_list[q].dir]
        /\ \A q, r \in Pids :
              pid_used[q] /\ pid_used[r] /\ process_list[q].dir = process_list[r].dir => q = r
        /\ \A q \in Pids : ~pid_used[q] => process_list[q] = NullPCB
    BY DEF ProcessTable
  <2> HIDE DEF KernelInv
  <2> QED BY <1>1, <1>2, <1>3, <1>4, <2>1 DEF Slots
<1>6. active_process_count' = Cardinality({q \in Pids : pid_used'[q]})
  <2>1. {q \in Pids : pid_used'[q]} = {q \in Pids : pid_used[q]} \ {p}
    BY <1>2
  <2>2. IsFiniteSet({q \in Pids : pid_used[q]})
    BY UsedFinite DEF TypeOK
  <2>3. p \in {q \in Pids : pid_used[q]}
    BY <1>1
  <2>4. active_process_count = Cardinality({q \in Pids : pid_used[q]})
    BY DEF ProcessTable
  <2> QED BY <1>1, <2>1, <2>2, <2>3, <2>4, FS_RemoveElement
<1>7. active_process_count' \in 0 .. PROCESS_COUNT_MAX
  BY <1>2, <1>6, UsedFinite
<1> QED BY <1>1, <1>2, <1>3, <1>4, <1>5, <1>6, <1>7

-----------------------------------------------------------------------------
\* A handler that ends with a switch from a coherent table, in which every
\* saved instruction pointer is up to date, establishes the invariant.
LEMMA SwitchEstablishes ==
    ASSUME NEW pl \in [Pids -> PCBs], pid_used' \in [Pids -> BOOLEAN],
           Slots(pl, pid_used', page_directory_used'), PagingInv',
           \A p, q \in RunningIn(pl, pid_used') : p = q,
           progress' \in [Pids -> Eips],
           \A p \in Pids : pid_used'[p] => pl[p].eip = progress'[p],
           active_process_count' = Cardinality({p \in Pids : pid_used'[p]}),
           active_process_count' \in 0 .. PROCESS_COUNT_MAX,
           retcode' \in PROCESS_CREATE_SUCCESS .. PROCESS_CREATE_FAIL_FS_READ_FAILURE,
           scheduler_switch_to_next_process(pl, pid_used')
    PROVE  KernelInv' /\ (cpu' = "wedged" => active_process_count' = 0)
<1> DEFINE Chosen(i) ==
        /\ pid_used'[i]
        /\ process_list' \in [Pids -> PCBs]
        /\ \A p \in Pids :
              /\ process_list'[p].pid = pl[p].pid
              /\ process_list'[p].dir = pl[p].dir
              /\ process_list'[p].eip = pl[p].eip
              /\ pid_used'[p] /\ p # i => process_list'[p].state = "READY"
              /\ ~pid_used'[p] => process_list'[p] = pl[p]
        /\ process_list'[i].state = "RUNNING"
        /\ cr3' = pl[i].dir
        /\ eip' = pl[i].eip
        /\ cpu' = ConditionAfterLoading(pl[i].dir)
<1>1. \/ \E i \in Pids : Chosen(i)
      \/ /\ \A p \in Pids : ~pid_used'[p]
         /\ process_list' \in [Pids -> PCBs]
         /\ cr3' = NULL
         /\ eip' = 0
         /\ cpu' = "wedged"
  BY SwitchResult
<1>2. ASSUME NEW i \in Pids, Chosen(i) PROVE KernelInv' /\ cpu' = "user"
  <2>1. pl[i].dir \in Dirs /\ page_directory_used'[pl[i].dir]
    BY <1>2 DEF Slots
  <2>2. kernel_entry'[pl[i].dir]
    BY <2>1 DEF PagingInv, BlankWhenUnused, PagingTypeOK
  <2>3. cpu' = "user"
    BY <1>2, <2>1, <2>2 DEF ConditionAfterLoading
  <2>4. TypeOK'
    <3>1. eip' \in Eips
      BY <1>2 DEF PCBs
    <3>2. cr3' \in Dirs \cup {NULL, KernelDir}
      BY <1>2, <2>1
    <3>3. process_list' \in [Pids -> PCBs]
      BY <1>2
    <3> QED BY <2>3, <3>1, <3>2, <3>3 DEF TypeOK, PagingInv
  <2>5. ProcessTable'
    <3>1. \A p \in Pids : pid_used'[p] =>
              /\ process_list'[p].pid = p
              /\ process_list'[p].state \in {"READY", "RUNNING"}
              /\ process_list'[p].dir \in Dirs
              /\ page_directory_used'[process_list'[p].dir]
      BY <1>2 DEF Slots
    <3>2. \A p, q \in Pids : pid_used'[p] /\ pid_used'[q]
              /\ process_list'[p].dir = process_list'[q].dir => p = q
      BY <1>2 DEF Slots
    <3>3. \A p \in Pids : ~pid_used'[p] => process_list'[p] = NullPCB
      BY <1>2 DEF Slots
    <3> QED BY <3>1, <3>2, <3>3 DEF ProcessTable
  <2>6. RunningOwnsCPU'
    <3>1. RunningIn(process_list', pid_used') = {i}
      BY <1>2 DEF RunningIn
    <3> QED BY <1>2, <2>2, <2>3, <3>1 DEF RunningOwnsCPU, Running
  <2>7. ContextIntegrity'
    BY <1>2 DEF ContextIntegrity
  <2> QED BY <2>3, <2>4, <2>5, <2>6, <2>7 DEF KernelInv
<1>3. CASE /\ \A p \in Pids : ~pid_used'[p]
           /\ process_list' \in [Pids -> PCBs]
           /\ cr3' = NULL
           /\ eip' = 0
           /\ cpu' = "wedged"
  <2>1. TypeOK'
    <3>1. eip' \in Eips
      BY <1>3, ProcessAssumption DEF Eips
    <3> QED BY <1>3, <3>1 DEF TypeOK, PagingInv
  <2>2. ProcessTable'
    BY <1>3 DEF ProcessTable
  <2>3. RunningOwnsCPU' /\ ContextIntegrity'
    BY <1>3 DEF RunningOwnsCPU, ContextIntegrity
  <2>4. active_process_count' = 0
    <3>1. {p \in Pids : pid_used'[p]} = {}
      BY <1>3
    <3> QED BY <3>1, FS_EmptySet
  <2> QED BY <2>1, <2>2, <2>3, <2>4 DEF KernelInv
<1> QED BY <1>1, <1>2, <1>3

\* kernel_setup leaves a coherent kernel, with or without a shell.
LEMMA SetupInv ==
    ASSUME KernelInv, PagingInv', kernel_setup
    PROVE  KernelInv' /\ (cpu' = "wedged" => active_process_count' = 0)
<1>0. /\ cpu = "boot" /\ cpu # "wedged"
      /\ \A p \in Pids : ~pid_used[p]
      /\ progress \in [Pids -> Eips] /\ 0 \in Eips
      /\ process_list \in [Pids -> PCBs] /\ pid_used \in [Pids -> BOOLEAN]
      /\ active_process_count \in 0 .. PROCESS_COUNT_MAX
      /\ active_process_count = Cardinality({p \in Pids : pid_used[p]})
      /\ \A p \in Pids : process_list[p] = NullPCB
  BY ProcessAssumption DEF kernel_setup, KernelInv, RunningOwnsCPU, TypeOK, ProcessTable, Eips
<1>1. ASSUME NEW i \in Pids, NEW d \in Dirs, CreateSuccess(1, i, d),
             progress' = [progress EXCEPT ![i] = 0],
             scheduler_switch_to_next_process(WithNewProcess(i, d), pid_used')
      PROVE  KernelInv' /\ (cpu' = "wedged" => active_process_count' = 0)
  <2> DEFINE pl == WithNewProcess(i, d)
  <2>1. 1 \in Nat \ {0}
    OBVIOUS
  <2>2. /\ pid_used' \in [Pids -> BOOLEAN]
        /\ pid_used'[i] /\ \A p \in Pids \ {i} : pid_used'[p] = pid_used[p]
        /\ pl \in [Pids -> PCBs]
        /\ pl[i] = [pid |-> i, state |-> "READY", dir |-> d, eip |-> 0]
        /\ Slots(pl, pid_used', page_directory_used')
        /\ active_process_count' = Cardinality({p \in Pids : pid_used'[p]})
        /\ active_process_count' \in 0 .. PROCESS_COUNT_MAX
    BY <1>0, <1>1, <2>1, CreateResult
  <2>3. \A p \in Pids : pid_used'[p] => p = i
    BY <1>0, <2>2
  <2>4. RunningIn(pl, pid_used') = {}
    BY <2>2, <2>3 DEF RunningIn
  <2>5. progress' \in [Pids -> Eips] /\ \A p \in Pids : pid_used'[p] => pl[p].eip = progress'[p]
    BY <1>0, <1>1, <2>2, <2>3
  <2>6. retcode' \in PROCESS_CREATE_SUCCESS .. PROCESS_CREATE_FAIL_FS_READ_FAILURE
    BY <1>1 DEF CreateSuccess, PROCESS_CREATE_SUCCESS, PROCESS_CREATE_FAIL_FS_READ_FAILURE
  <2>7. scheduler_switch_to_next_process(pl, pid_used')
    BY <1>1
  <2> HIDE DEF pl
  <2> QED BY <2>2, <2>4, <2>5, <2>6, <2>7, SwitchEstablishes
<1>2. ASSUME CreateUnreadable(1), scheduler_switch_to_next_process(process_list, pid_used),
             UNCHANGED progress
      PROVE  KernelInv' /\ (cpu' = "wedged" => active_process_count' = 0)
  <2>1. pid_used' = pid_used /\ active_process_count' = active_process_count
    BY <1>2 DEF CreateUnreadable
  <2>2. RunningIn(process_list, pid_used') = {}
    BY <1>0, <2>1 DEF RunningIn
  <2>3. Slots(process_list, pid_used', page_directory_used')
    BY <1>0, <2>1 DEF Slots
  <2>4. retcode' \in PROCESS_CREATE_SUCCESS .. PROCESS_CREATE_FAIL_FS_READ_FAILURE
    BY <1>2 DEF CreateUnreadable, PROCESS_CREATE_SUCCESS, PROCESS_CREATE_FAIL_FS_READ_FAILURE
  <2>5. \A p \in Pids : pid_used'[p] => process_list[p].eip = progress'[p]
    BY <1>0, <2>1
  <2>6. scheduler_switch_to_next_process(process_list, pid_used')
    BY <1>2, <2>1
  <2>7. active_process_count' = Cardinality({p \in Pids : pid_used'[p]})
    BY <1>0, <2>1
  <2> QED BY <1>0, <1>2, <2>1, <2>2, <2>3, <2>4, <2>5, <2>6, <2>7, SwitchEstablishes
<1> QED BY <1>1, <1>2 DEF kernel_setup

\* The timer interrupt saves the running context before it switches.
LEMMA TimerInv ==
    ASSUME KernelInv, PagingInv', TimerInterrupt
    PROVE  KernelInv' /\ (cpu' = "wedged" => active_process_count' = 0)
<1> DEFINE pl == SavedContext(process_list)
<1>0. /\ UNCHANGED <<pagingVars, pid_used, active_process_count, retcode, progress>>
      /\ cpu \in {"user", "faulting"}
      /\ scheduler_switch_to_next_process(pl, pid_used')
  BY DEF TimerInterrupt
<1>1. /\ process_list \in [Pids -> PCBs] /\ pid_used \in [Pids -> BOOLEAN]
      /\ progress \in [Pids -> Eips] /\ eip \in Eips
      /\ active_process_count \in 0 .. PROCESS_COUNT_MAX
      /\ retcode \in PROCESS_CREATE_SUCCESS .. PROCESS_CREATE_FAIL_FS_READ_FAILURE
      /\ active_process_count = Cardinality({p \in Pids : pid_used[p]})
  BY DEF KernelInv, TypeOK, ProcessTable
<1>2. /\ pid_used' = pid_used /\ progress' = progress
      /\ page_directory_used' = page_directory_used
      /\ active_process_count' = active_process_count /\ retcode' = retcode
  BY <1>0 DEF pagingVars
<1>3. /\ pl \in [Pids -> PCBs]
      /\ \A p \in Pids : /\ pl[p].pid = process_list[p].pid
                         /\ pl[p].state = process_list[p].state
                         /\ pl[p].dir = process_list[p].dir
                         /\ p \notin Running => pl[p] = process_list[p]
                         /\ IsFirst(Running, p) => pl[p].eip = eip
  BY <1>1 DEF SavedContext, PCBs, IsFirst, Running
<1> HIDE DEF pl
<1>4. \A p, q \in Running : p = q
  BY <1>0 DEF KernelInv, RunningOwnsCPU
<1>5. RunningIn(pl, pid_used') = Running
  BY <1>2, <1>3 DEF RunningIn, Running
<1>6. Slots(pl, pid_used', page_directory_used')
  <2>1. /\ \A p \in Pids : pid_used[p] =>
              /\ process_list[p].pid = p
              /\ process_list[p].state \in {"READY", "RUNNING"}
              /\ process_list[p].dir \in Dirs
              /\ page_directory_used[process_list[p].dir]
        /\ \A p, q \in Pids :
              pid_used[p] /\ pid_used[q] /\ process_list[p].dir = process_list[q].dir => p = q
        /\ \A p \in Pids : ~pid_used[p] => process_list[p] = NullPCB
    BY <1>0 DEF KernelInv, ProcessTable
  <2>2. \A p \in Pids : ~pid_used[p] => p \notin Running
    BY DEF Running, RunningIn
  <2> QED BY <1>2, <1>3, <2>1, <2>2 DEF Slots
<1>7. ASSUME NEW p \in Pids, pid_used'[p] PROVE pl[p].eip = progress'[p]
  <2>1. CASE p \in Running
    <3>1. IsFirst(Running, p)
      BY <1>4, <2>1 DEF IsFirst, Pids
    <3>2. pl[p].eip = eip
      BY <1>3, <3>1
    <3>3. cpu = "user" /\ process_list[p].state = "RUNNING"
      BY <1>0, <2>1 DEF KernelInv, RunningOwnsCPU, Running, RunningIn
    <3> QED BY <1>2, <1>7, <3>2, <3>3 DEF KernelInv, ContextIntegrity
  <2>2. CASE p \notin Running
    <3>1. process_list[p].state = "READY"
      BY <1>2, <1>7, <2>2 DEF KernelInv, ProcessTable, Running, RunningIn
    <3> QED BY <1>2, <1>3, <1>7, <2>2, <3>1 DEF KernelInv, ContextIntegrity
  <2> QED BY <2>1, <2>2
<1>8. active_process_count' = Cardinality({p \in Pids : pid_used'[p]})
  BY <1>1, <1>2
<1> QED BY <1>0, <1>1, <1>2, <1>3, <1>4, <1>5, <1>6, <1>7, <1>8, SwitchEstablishes

\* An instruction moves the register and the history of the one running process.
LEMMA UserStepInv == ASSUME KernelInv, PagingInv', UserStep PROVE KernelInv'
<1> USE DEF KernelInv
<1>1. /\ UNCHANGED <<pagingVars, processVars, cpu, cr3>>
      /\ cpu = "user" /\ eip' = (eip + 1) % EipCount
  BY DEF UserStep
<1>2. PICK c \in Pids : /\ IsFirst(Running, c)
                        /\ progress' = [progress EXCEPT ![c] = (@ + 1) % EipCount]
  BY DEF UserStep, Running
<1>3. pid_used[c] /\ process_list[c].state = "RUNNING" /\ \A p \in Running : p = c
  BY <1>1, <1>2 DEF IsFirst, Running, RunningIn, RunningOwnsCPU
<1>4. eip = progress[c] /\ eip \in Eips /\ progress \in [Pids -> Eips]
  BY <1>1, <1>3 DEF ContextIntegrity, TypeOK
<1>5. (eip + 1) % EipCount \in Eips
  BY <1>4, ProcessAssumption DEF Eips
<1>6. eip' \in Eips /\ progress' \in [Pids -> Eips]
  BY <1>1, <1>2, <1>4, <1>5
<1>7. TypeOK'
  BY <1>1, <1>6 DEF TypeOK, processVars, PagingInv
<1>8. ProcessTable' /\ RunningOwnsCPU'
  BY <1>1 DEF ProcessTable, RunningOwnsCPU, Running, processVars, pagingVars
<1>9. ContextIntegrity'
  <2> SUFFICES ASSUME NEW p \in Pids, pid_used[p]
               PROVE  /\ process_list[p].state = "READY" => process_list[p].eip = progress'[p]
                      /\ process_list[p].state = "RUNNING" => eip' = progress'[p]
    BY <1>1 DEF ContextIntegrity, processVars
  <2>1. CASE p = c
    BY <1>1, <1>2, <1>3, <1>4, <2>1
  <2>2. CASE p # c
    <3>1. process_list[p].state # "RUNNING"
      BY <1>3, <2>2 DEF Running, RunningIn
    <3>2. progress'[p] = progress[p]
      BY <1>2, <1>4, <2>2
    <3> QED BY <3>1, <3>2 DEF ContextIntegrity
  <2> QED BY <2>1, <2>2
<1> QED BY <1>7, <1>8, <1>9

\* The exec system call: a refusal changes no table, a failed read only those
\* of the memory manager, a success adds a READY process.
LEMMA ExecInv == ASSUME KernelInv, PagingInv', SyscallExec PROVE KernelInv'
<1> USE DEF KernelInv
<1>0. cpu = "user" /\ cpu' = cpu /\ cr3' = cr3 /\ eip' = eip
  BY DEF SyscallExec, cpuVars
<1>a. PICK r \in Pids : Running = {r} /\ cr3 = process_list[r].dir /\ kernel_entry[cr3]
  BY <1>0 DEF RunningOwnsCPU
<1>b. pid_used[r] /\ process_list[r].state = "RUNNING" /\ cr3 \in Dirs /\ page_directory_used[cr3]
  BY <1>a DEF Running, RunningIn, ProcessTable
<1>1. PICK n \in RequestFrames :
          \/ /\ \E low \in BOOLEAN : CreateRefused(n, low)
             /\ UNCHANGED progress
          \/ /\ CreateUnreadable(n)
             /\ UNCHANGED <<process_list, progress>>
          \/ \E i \in Pids, d \in Dirs :
                /\ CreateSuccess(n, i, d)
                /\ process_list' = WithNewProcess(i, d)
                /\ progress' = [progress EXCEPT ![i] = 0]
  BY DEF SyscallExec
<1>2. n \in Nat \ {0}
  BY ProcessAssumption
<1>3. retcode' \in PROCESS_CREATE_SUCCESS .. PROCESS_CREATE_FAIL_FS_READ_FAILURE
  BY <1>1 DEF CreateRefused, CreateUnreadable, CreateSuccess, CreateCheck,
              PROCESS_CREATE_SUCCESS, PROCESS_CREATE_FAIL_MAX_PROCESS_EXCEEDED,
              PROCESS_CREATE_FAIL_INVALID_ENTRYPOINT, PROCESS_CREATE_FAIL_NOT_ENOUGH_MEMORY,
              PROCESS_CREATE_FAIL_FS_READ_FAILURE
<1>4. CASE \/ /\ \E low \in BOOLEAN : CreateRefused(n, low)
              /\ UNCHANGED progress
           \/ /\ CreateUnreadable(n)
              /\ UNCHANGED <<process_list, progress>>
  <2>1. UNCHANGED <<process_list, pid_used, active_process_count, progress>>
    BY <1>4 DEF CreateRefused, CreateUnreadable
  <2>2. \A e \in Dirs : page_directory_used[e] => page_directory_used'[e]
    <3>1. CASE UNCHANGED pagingVars
      BY <3>1 DEF pagingVars
    <3>2. CASE \E d \in Dirs : BuildAddressSpace(d, n)
      BY <3>2 DEF BuildAddressSpace, TypeOK, PagingTypeOK
    <3> QED BY <1>4, <3>1, <3>2 DEF CreateRefused, CreateUnreadable
  <2>3. TypeOK'
    BY <1>0, <1>3, <2>1 DEF TypeOK, PagingInv
  <2>4. ProcessTable'
    BY <1>0, <2>1, <2>2 DEF ProcessTable
  <2>5. kernel_entry'[cr3]
    BY <1>b, <2>2 DEF PagingInv, BlankWhenUnused, PagingTypeOK
  <2>6. RunningOwnsCPU'
    BY <1>0, <1>a, <2>1, <2>5 DEF RunningOwnsCPU, Running
  <2>7. ContextIntegrity'
    BY <1>0, <2>1 DEF ContextIntegrity
  <2> QED BY <2>3, <2>4, <2>6, <2>7
<1>5. ASSUME NEW i \in Pids, NEW d \in Dirs, CreateSuccess(n, i, d),
             process_list' = WithNewProcess(i, d), progress' = [progress EXCEPT ![i] = 0]
      PROVE  KernelInv'
  <2>1. /\ ~pid_used[i]
        /\ pid_used' \in [Pids -> BOOLEAN]
        /\ pid_used'[i] /\ \A p \in Pids \ {i} : pid_used'[p] = pid_used[p]
        /\ process_list' \in [Pids -> PCBs]
        /\ \A p \in Pids \ {i} : process_list'[p] = process_list[p]
        /\ process_list'[i] = [pid |-> i, state |-> "READY", dir |-> d, eip |-> 0]
        /\ Slots(process_list', pid_used', page_directory_used')
        /\ active_process_count' = Cardinality({p \in Pids : pid_used'[p]})
        /\ active_process_count' \in 0 .. PROCESS_COUNT_MAX
    BY <1>0, <1>2, <1>5, CreateResult
  <2>2. progress' \in [Pids -> Eips] /\ progress'[i] = 0
        /\ \A p \in Pids \ {i} : progress'[p] = progress[p]
    BY <1>5, ProcessAssumption DEF TypeOK, Eips
  <2>3. TypeOK'
    BY <1>0, <1>3, <2>1, <2>2 DEF TypeOK, PagingInv
  <2>4. ProcessTable'
    BY <2>1 DEF ProcessTable, Slots
  <2>5. r # i /\ process_list'[r] = process_list[r]
    BY <1>b, <2>1
  <2>6. RunningIn(process_list', pid_used') = {r}
    <3>1. i \notin RunningIn(process_list', pid_used')
      BY <2>1 DEF RunningIn
    <3>2. \A p \in Pids \ {i} : p \in RunningIn(process_list', pid_used') <=> p \in Running
      BY <2>1 DEF RunningIn, Running
    <3>3. RunningIn(process_list', pid_used') \subseteq Pids
      BY DEF RunningIn
    <3> QED BY <1>a, <2>5, <3>1, <3>2, <3>3
  <2>7. kernel_entry'[cr3]
    <3>1. page_directory_used'[cr3]
      BY <1>a, <2>1, <2>5, <1>b DEF Slots
    <3> QED BY <1>b, <3>1 DEF PagingInv, BlankWhenUnused, PagingTypeOK
  <2>8. RunningOwnsCPU'
    BY <1>0, <1>a, <2>5, <2>6, <2>7 DEF RunningOwnsCPU, Running
  <2>9. ContextIntegrity'
    BY <1>0, <2>1, <2>2 DEF ContextIntegrity
  <2> QED BY <2>3, <2>4, <2>8, <2>9
<1> QED BY <1>1, <1>4, <1>5

\* Destroying a process, by whichever system call, keeps the tables coherent
\* and the contexts of the others intact.
LEMMA DestroyInv ==
    ASSUME KernelInv, PagingInv', cpu = "user", NEW p \in Pids, process_destroy(p),
           cr3' = cr3, eip' = eip, progress' = progress,
           cpu' \in {"user", "faulting", "wedged"}
    PROVE  TypeOK' /\ ProcessTable' /\ ContextIntegrity'
<1>0. cpu # "wedged" /\ retcode' = retcode
  BY DEF process_destroy
<1>1. /\ pid_used' \in [Pids -> BOOLEAN]
      /\ ~pid_used'[p] /\ \A q \in Pids \ {p} : pid_used'[q] = pid_used[q]
      /\ process_list' \in [Pids -> PCBs]
      /\ \A q \in Pids \ {p} : process_list'[q] = process_list[q]
      /\ Slots(process_list', pid_used', page_directory_used')
      /\ active_process_count' = Cardinality({q \in Pids : pid_used'[q]})
      /\ active_process_count' \in 0 .. PROCESS_COUNT_MAX
  BY <1>0, DestroyResult
<1>2. TypeOK'
  BY <1>0, <1>1 DEF KernelInv, TypeOK, PagingInv
<1>3. ProcessTable'
  BY <1>1 DEF ProcessTable, Slots
<1>4. ContextIntegrity'
  BY <1>1 DEF KernelInv, ContextIntegrity
<1> QED BY <1>2, <1>3, <1>4

\* Killing another process leaves the caller running in its own directory.
LEMMA KillInv == ASSUME KernelInv, PagingInv', SyscallKill PROVE KernelInv'
<1>0. cpu = "user" /\ cpu' = cpu /\ cr3' = cr3 /\ eip' = eip /\ progress' = progress
  BY DEF SyscallKill, cpuVars
<1>1. PICK p \in Pids : p \notin Running /\ process_destroy(p)
  BY DEF SyscallKill, Running
<1>2. TypeOK' /\ ProcessTable' /\ ContextIntegrity'
  BY <1>0, <1>1, DestroyInv
<1>3. PICK r \in Pids : Running = {r} /\ cr3 = process_list[r].dir
  BY <1>0 DEF KernelInv, RunningOwnsCPU
<1>4. /\ ~pid_used'[p] /\ \A q \in Pids \ {p} : pid_used'[q] = pid_used[q]
      /\ \A q \in Pids \ {p} : process_list'[q] = process_list[q]
      /\ Slots(process_list', pid_used', page_directory_used')
  BY <1>0, <1>1, DestroyResult
<1>5. r # p /\ pid_used[r] /\ process_list'[r] = process_list[r] /\ pid_used'[r]
  BY <1>1, <1>3, <1>4 DEF Running, RunningIn
<1>6. RunningIn(process_list', pid_used') = {r}
  <2>1. p \notin RunningIn(process_list', pid_used')
    BY <1>4 DEF RunningIn
  <2>2. \A q \in Pids \ {p} : q \in RunningIn(process_list', pid_used') <=> q \in Running
    BY <1>4 DEF RunningIn, Running
  <2>3. RunningIn(process_list', pid_used') \subseteq Pids
    BY DEF RunningIn
  <2> QED BY <1>3, <1>5, <2>1, <2>2, <2>3
<1>7. kernel_entry'[cr3]
  <2>1. cr3 \in Dirs /\ page_directory_used'[cr3]
    BY <1>3, <1>4, <1>5 DEF Slots
  <2> QED BY <2>1 DEF PagingInv, BlankWhenUnused, PagingTypeOK
<1>8. RunningOwnsCPU'
  BY <1>0, <1>3, <1>5, <1>6, <1>7 DEF RunningOwnsCPU, Running
<1> QED BY <1>2, <1>8 DEF KernelInv

\* Killing oneself leaves coherent tables, and a wedged machine.
LEMMA KillSelfInv == ASSUME KernelInv, PagingInv', SyscallKillSelf PROVE KernelInv'
<1>0. cpu = "user" /\ cpu' = "wedged" /\ cr3' = cr3 /\ eip' = eip /\ progress' = progress
  BY DEF SyscallKillSelf
<1>1. PICK p \in Pids : process_destroy(p)
  BY DEF SyscallKillSelf, RunningIn
<1>2. TypeOK' /\ ProcessTable' /\ ContextIntegrity'
  BY <1>0, <1>1, DestroyInv
<1>3. RunningOwnsCPU'
  BY <1>0 DEF RunningOwnsCPU
<1> QED BY <1>2, <1>3 DEF KernelInv

\* After an exit nothing is running and the loaded directory belongs to nobody.
LEMMA ExitInv == ASSUME KernelInv, PagingInv', SyscallExit PROVE KernelInv'
<1>0. cpu = "user" /\ cpu' = "faulting" /\ cr3' = cr3 /\ eip' = eip /\ progress' = progress
  BY DEF SyscallExit
<1>1. PICK p \in Pids : IsFirst(Running, p) /\ process_destroy(process_list[p].pid)
  BY DEF SyscallExit, Running
<1>2. pid_used[p] /\ process_list[p].pid = p
  BY <1>1 DEF IsFirst, Running, RunningIn, KernelInv, ProcessTable
<1>3. process_destroy(p)
  BY <1>1, <1>2
<1>4. TypeOK' /\ ProcessTable' /\ ContextIntegrity'
  BY <1>0, <1>3, DestroyInv
<1>5. Running = {p} /\ cr3 = process_list[p].dir
  BY <1>0, <1>1 DEF KernelInv, RunningOwnsCPU, IsFirst
<1>6. /\ ~pid_used'[p] /\ \A q \in Pids \ {p} : pid_used'[q] = pid_used[q]
      /\ \A q \in Pids \ {p} : process_list'[q] = process_list[q]
      /\ ~page_directory_used'[process_list[p].dir]
  BY <1>0, <1>3, DestroyResult
<1>7. RunningIn(process_list', pid_used') = {}
  <2> SUFFICES ASSUME NEW q \in Pids, pid_used'[q], process_list'[q].state = "RUNNING"
               PROVE  FALSE
    BY DEF RunningIn
  <2>1. q # p /\ pid_used[q] /\ process_list[q].state = "RUNNING"
    BY <1>6
  <2> QED BY <1>5, <2>1 DEF Running, RunningIn
<1>8. process_list[p].dir \in Dirs
  BY <1>2 DEF KernelInv, ProcessTable
<1>9. RunningOwnsCPU'
  BY <1>0, <1>5, <1>6, <1>7, <1>8 DEF RunningOwnsCPU, Running
<1> QED BY <1>4, <1>9 DEF KernelInv

\* Losing the kernel's translations changes the condition of the processor only.
LEMMA LostInv == ASSUME KernelInv, PagingInv', KernelTranslationLost PROVE KernelInv'
<1>1. /\ cpu' = "wedged"
      /\ UNCHANGED <<pagingVars, processVars, cr3, eip, progress>>
  BY DEF KernelTranslationLost
<1>2. TypeOK'
  BY <1>1 DEF KernelInv, TypeOK, PagingInv, processVars
<1>3. ProcessTable' /\ ContextIntegrity'
  BY <1>1 DEF KernelInv, ProcessTable, ContextIntegrity, processVars, pagingVars
<1>4. RunningOwnsCPU'
  BY <1>1 DEF RunningOwnsCPU
<1> QED BY <1>2, <1>3, <1>4 DEF KernelInv

-----------------------------------------------------------------------------
\* Before kernel_setup every table is blank.
LEMMA KernelInitInv == Init => KernelInv
<1> SUFFICES ASSUME Init PROVE KernelInv
  OBVIOUS
<1> USE DEF Init, ProcessInit
<1>1. PagingInv
  BY PagingInitInv
<1>2. TypeOK
  BY <1>1, NullPCBType, ProcessAssumption
     DEF TypeOK, PagingInv, Eips, PROCESS_CREATE_SUCCESS, PROCESS_CREATE_FAIL_FS_READ_FAILURE
<1>3. ProcessTable
  <2>1. {p \in Pids : pid_used[p]} = {}
    OBVIOUS
  <2>2. active_process_count = Cardinality({p \in Pids : pid_used[p]})
    BY <2>1, FS_EmptySet
  <2> QED BY <2>2 DEF ProcessTable
<1>4. RunningOwnsCPU /\ ContextIntegrity
  BY DEF RunningOwnsCPU, ContextIntegrity
<1> QED BY <1>1, <1>2, <1>3, <1>4 DEF KernelInv

\* Every step of the kernel keeps the invariant: one case per action of Next.
LEMMA KernelStepInv == KernelInv /\ [Next]_vars => KernelInv'
<1> SUFFICES ASSUME KernelInv, [Next]_vars PROVE KernelInv'
  OBVIOUS
<1>1. PagingInv'
  BY KernelStepIsPagingStep, PagingStepInv DEF KernelInv
<1>2. CASE UNCHANGED vars
  <2>1. UNCHANGED <<pagingVars, processVars, cpuVars, progress>>
    BY <1>2 DEF vars
  <2>2. TypeOK'
    BY <1>1, <2>1 DEF KernelInv, TypeOK, PagingInv, processVars, cpuVars
  <2>3. ProcessTable' /\ RunningOwnsCPU' /\ ContextIntegrity'
    BY <2>1 DEF KernelInv, ProcessTable, RunningOwnsCPU, ContextIntegrity, Running,
                processVars, cpuVars, pagingVars
  <2> QED BY <1>1, <2>2, <2>3 DEF KernelInv
<1> QED BY <1>1, <1>2, SetupInv, UserStepInv, TimerInv, ExecInv, KillInv, KillSelfInv,
           ExitInv, LostInv DEF Next

\* The kernel keeps its invariant for every size of its tables: coherent process
\* table, one owner of the processor, contexts intact (process.c, scheduler.c).
THEOREM KernelInvariance == Spec => []KernelInv
<1> QED BY KernelInitInv, KernelStepInv, PTL DEF Spec

\* The process table is coherent (process.c).
THEOREM KernelProcessTable == Spec => []ProcessTable
<1>1. KernelInv => ProcessTable
  BY DEF KernelInv
<1> QED BY <1>1, KernelInvariance, PTL

\* Every index the kernel computes is inside its table, and its one running
\* context is typed (scheduler.c, process.c, interrupt.c).
THEOREM KernelTypeOK == Spec => []TypeOK
<1>1. KernelInv => TypeOK
  BY DEF KernelInv
<1> QED BY <1>1, KernelInvariance, PTL

\* A directory that is handed to a new process maps nothing yet, whoever had it
\* before (paging_free_page_directory, paging_create_new_page_directory).
THEOREM KernelBlankWhenUnused == Spec => []BlankWhenUnused
<1>1. KernelInv => BlankWhenUnused
  BY DEF KernelInv, PagingInv
<1> QED BY <1>1, KernelInvariance, PTL

\* While user code executes, the one RUNNING process owns the loaded directory
\* (scheduler.c, paging_use_page_directory).
THEOREM KernelRunningOwnsCPU == Spec => []RunningOwnsCPU
<1>1. KernelInv => RunningOwnsCPU
  BY DEF KernelInv
<1> QED BY <1>1, KernelInvariance, PTL

\* A process resumes where it was interrupted (the save and the switch of
\* scheduler.c, the zeroing of process_destroy).
THEOREM KernelContextIntegrity == Spec => []ContextIntegrity
<1>1. KernelInv => ContextIntegrity
  BY DEF KernelInv
<1> QED BY <1>1, KernelInvariance, PTL

\* The kernel's memory tables evolve as Paging says, so FrameIsolation and
\* FrameAccounting hold inside the kernel.
THEOREM KernelRefinesPaging == Spec => ImplementsPaging
<1>1. Init => PagingInit
  BY DEF Init
<1>2. KernelInv /\ [Next]_vars => [PagingNext]_pagingVars
  BY KernelStepIsPagingStep DEF KernelInv
<1> QED BY <1>1, <1>2, KernelInvariance, PTL DEF Spec, ImplementsPaging, PagingSpec

\* No two entries of live address spaces share a frame in the running kernel.
THEOREM KernelIsolation == Spec => [](FrameIsolation /\ FrameAccounting)
<1>1. KernelInv => FrameIsolation /\ FrameAccounting
  BY DEF KernelInv, PagingInv
<1> QED BY <1>1, KernelInvariance, PTL

\* Inside the running kernel address spaces still are granted unowned frames and
\* give them back, and nothing else happens to them.
THEOREM KernelImplementsAddressSpaces == Spec => ImplementsAddressSpaces
<1> QED BY KernelRefinesPaging, PagingRefinement, PTL DEF ImplementsPaging

\* A switch moves no process to another directory.
LEMMA SwitchKeepsDirs ==
    ASSUME NEW pl \in [Pids -> PCBs], NEW used, scheduler_switch_to_next_process(pl, used),
           NEW p \in Pids
    PROVE  process_list'[p].dir = pl[p].dir
<1>1. ASSUME NEW ql \in [Pids -> PCBs], NEW start, Dispatch(ql, start)
      PROVE  process_list'[p].dir = ql[p].dir
  <2>1. PICK i \in Pids : process_list' = WithState(ql, i, "RUNNING")
    BY <1>1 DEF Dispatch
  <2> QED BY <2>1, WithStateFields
<1>2. \A c \in Pids : Preempted(pl, c) \in [Pids -> PCBs] /\ Preempted(pl, c)[p].dir = pl[p].dir
  BY WithStateFields DEF Preempted
<1>3. CASE Dispatch(pl, 0)
  BY <1>1, <1>3
<1>4. ASSUME NEW c \in Pids,
             Dispatch(Preempted(pl, c), (pl[c].pid + 1) % PROCESS_COUNT_MAX)
      PROVE  process_list'[p].dir = pl[p].dir
  <2>1. process_list'[p].dir = Preempted(pl, c)[p].dir
    BY <1>1, <1>2, <1>4
  <2> QED BY <1>2, <2>1
<1> QED BY <1>3, <1>4 DEF scheduler_switch_to_next_process

\* A step keeps the mapping of a process that lives before and after it.
LEMMA StableStep ==
    ASSUME KernelInv, [Next]_vars, NEW p \in Pids, pid_used[p], pid_used'[p]
    PROVE  page_table'[process_list'[p].dir] = page_table[process_list[p].dir]
<1> DEFINE d == process_list[p].dir
<1>0. process_list \in [Pids -> PCBs] /\ page_table \in [Dirs -> [Pages -> Frames \cup {NoFrame}]]
  BY DEF KernelInv, TypeOK, PagingTypeOK
<1>1. CASE UNCHANGED <<process_list, pagingVars>>
  BY <1>1 DEF pagingVars
<1>2. ASSUME NEW e \in Dirs, NEW n, BuildAddressSpace(e, n) PROVE page_table'[d] = page_table[d]
  <2>1. d \in Dirs /\ page_directory_used[d]
    BY <1>2 DEF KernelInv, ProcessTable
  <2>2. e # d
    BY <1>2, <2>1 DEF BuildAddressSpace, UnusedDirectory, IsFirst
  <2> QED BY <1>0, <1>2, <2>1, <2>2 DEF BuildAddressSpace, MapPages
<1>3. ASSUME NEW q \in Pids, process_destroy(q)
      PROVE  process_list'[p] = process_list[p] /\ page_table'[d] = page_table[d]
  <2>1. q # p /\ pid_used[q]
    BY <1>3 DEF process_destroy, KernelInv, TypeOK
  <2>2. d \in Dirs /\ d # process_list[q].dir
    BY <2>1 DEF KernelInv, ProcessTable
  <2> QED BY <1>0, <1>3, <2>1, <2>2
          DEF process_destroy, ReleaseAddressSpace, paging_free_page_directory, ClearEntries,
              WithoutProcess
<1>4. CASE kernel_setup
  BY <1>4 DEF kernel_setup, KernelInv, RunningOwnsCPU
<1>5. CASE TimerInterrupt
  <2>1. /\ page_table' = page_table
        /\ scheduler_switch_to_next_process(SavedContext(process_list), pid_used)
    BY <1>5 DEF TimerInterrupt, pagingVars
  <2>2. eip \in Eips
    BY DEF KernelInv, TypeOK
  <2>3. /\ SavedContext(process_list) \in [Pids -> PCBs]
        /\ SavedContext(process_list)[p].dir = d
    BY <1>0, <2>2 DEF SavedContext, PCBs
  <2>4. process_list'[p].dir = d
    BY <2>1, <2>3, SwitchKeepsDirs
  <2> QED BY <2>1, <2>4
<1>6. CASE SyscallExec
  <2>1. PICK n \in RequestFrames :
          \/ \E low \in BOOLEAN : CreateRefused(n, low)
          \/ CreateUnreadable(n) /\ UNCHANGED process_list
          \/ \E i \in Pids, e \in Dirs :
                CreateSuccess(n, i, e) /\ process_list' = WithNewProcess(i, e)
    BY <1>6 DEF SyscallExec
  <2>2. CASE \E low \in BOOLEAN : CreateRefused(n, low)
    BY <1>1, <2>2 DEF CreateRefused
  <2>3. CASE CreateUnreadable(n) /\ UNCHANGED process_list
    BY <1>2, <2>3 DEF CreateUnreadable
  <2>4. ASSUME NEW i \in Pids, NEW e \in Dirs,
               CreateSuccess(n, i, e), process_list' = WithNewProcess(i, e)
        PROVE  page_table'[process_list'[p].dir] = page_table[d]
    <3>1. i # p
      BY <2>4 DEF CreateSuccess, InactiveIndex, IsFirst
    <3>2. process_list'[p] = process_list[p]
      BY <1>0, <2>4, <3>1 DEF WithNewProcess
    <3> QED BY <1>2, <2>4, <3>2 DEF CreateSuccess
  <2> QED BY <2>1, <2>2, <2>3, <2>4
<1>7. CASE SyscallKill \/ SyscallKillSelf
  BY <1>3, <1>7 DEF SyscallKill, SyscallKillSelf, RunningIn
<1>8. CASE SyscallExit
  <2>1. PICK q \in Pids : process_destroy(process_list[q].pid)
    BY <1>8 DEF SyscallExit
  <2>2. process_list[q].pid \in Pids
    BY <1>0 DEF PCBs
  <2> QED BY <1>3, <2>1, <2>2
<1>9. CASE UserStep \/ KernelTranslationLost \/ UNCHANGED vars
  <2>1. UNCHANGED <<process_list, pagingVars>>
    BY <1>9 DEF UserStep, KernelTranslationLost, vars, processVars
  <2> QED BY <1>1, <2>1
<1> QED BY <1>4, <1>5, <1>6, <1>7, <1>8, <1>9 DEF Next

\* While a process lives, no step of the kernel changes what its pages map.
THEOREM KernelAddressSpaceStable == Spec => AddressSpaceStable
<1>1. KernelInv /\ [Next]_vars =>
        [\A p \in Pids : pid_used[p] /\ pid_used'[p] =>
            page_table'[process_list'[p].dir] = page_table[process_list[p].dir]]_vars
  BY StableStep
<1> QED BY <1>1, KernelInvariance, PTL DEF Spec, AddressSpaceStable

-----------------------------------------------------------------------------
\* The steps that stop the machine: a switch without a process, a process that
\* kills itself, the loss of the kernel's translations.
LEMMA StopStep ==
    ASSUME KernelInv, [Next]_vars, cpu # "wedged", cpu' = "wedged"
    PROVE  \/ active_process_count' = 0
           \/ cpu = "user" /\ \E p \in Running : ~pid_used'[p]
           \/ cpu = "faulting" /\ process_list' = process_list
<1>1. PagingInv'
  BY KernelStepIsPagingStep, PagingStepInv DEF KernelInv
<1>2. CASE kernel_setup \/ TimerInterrupt
  BY <1>1, <1>2, SetupInv, TimerInv
<1>3. CASE SyscallKillSelf
  <2>1. PICK p \in Running : process_destroy(p)
    BY <1>3 DEF SyscallKillSelf, Running
  <2>2. p \in Pids
    BY DEF Running, RunningIn
  <2>3. ~pid_used'[p]
    BY <2>1, <2>2, DestroyResult
  <2> QED BY <1>3, <2>1, <2>3 DEF SyscallKillSelf
<1>4. CASE KernelTranslationLost
  BY <1>4 DEF KernelTranslationLost, processVars
<1>5. CASE UserStep \/ SyscallExec \/ SyscallKill \/ SyscallExit \/ UNCHANGED vars
  BY <1>5 DEF UserStep, SyscallExec, SyscallKill, SyscallExit, vars, cpuVars
<1> QED BY <1>2, <1>3, <1>4, <1>5 DEF Next

\* The machine stops only with a cause: a tick of the timer with a process left
\* always finds one whose directory maps the kernel (scheduler.c, process.c).
THEOREM KernelStopsOnlyWithCause == Spec => StopsOnlyWithCause
<1>1. KernelInv /\ [Next]_vars =>
        [cpu # "wedged" /\ cpu' = "wedged" =>
            \/ active_process_count' = 0
            \/ cpu = "user" /\ \E p \in Running : ~pid_used'[p]
            \/ cpu = "faulting" /\ process_list' = process_list]_vars
  BY StopStep
<1> QED BY <1>1, KernelInvariance, PTL DEF Spec, StopsOnlyWithCause
=============================================================================
