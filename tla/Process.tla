------------------------------ MODULE Process ------------------------------
(***************************************************************************)
(* The process manager of src/process.c: the table of process control      *)
(* blocks (_process_list), process_manager_state, and the creation and     *)
(* destruction of processes on top of the memory manager.                  *)
(*                                                                         *)
(* A request for a process is reduced to what decides its outcome: the     *)
(* number of page frames its buffer size needs, whether its entry address  *)
(* lies below the kernel, and whether the file system can read it, which   *)
(* is left open here.  A PCB keeps its pid, its state, its page directory  *)
(* and the instruction pointer; the other saved registers are copied along *)
(* with the last.                                                          *)
(***************************************************************************)
EXTENDS Paging

CONSTANTS PROCESS_COUNT_MAX,  \* slots of the process table (16)
          RequestFrames,      \* the frame counts programs ask for
          EipCount,           \* bound on distinct values of the instruction pointer
          NULL                \* the null pointer

ASSUME ProcessAssumption ==
    /\ PROCESS_COUNT_MAX \in Nat \ {0}
    /\ RequestFrames \subseteq Nat \ {0}
    /\ EipCount \in Nat \ {0}
    /\ NULL \notin 0 .. PAGING_DIRECTORY_TABLE_MAX_COUNT - 1

Pids == 0 .. PROCESS_COUNT_MAX - 1
Eips == 0 .. EipCount - 1

\* Return codes of process_create_user_process.
PROCESS_CREATE_SUCCESS == 0
PROCESS_CREATE_FAIL_MAX_PROCESS_EXCEEDED == 1
PROCESS_CREATE_FAIL_INVALID_ENTRYPOINT == 2
PROCESS_CREATE_FAIL_NOT_ENOUGH_MEMORY == 3
PROCESS_CREATE_FAIL_FS_READ_FAILURE == 4

VARIABLES process_list,          \* process_list[p]: the control block of slot p
          pid_used,              \* pid_used[p]: slot p holds a process
          active_process_count,  \* the counter kept beside pid_used
          retcode                \* what the last creation returned

processVars == <<process_list, pid_used, active_process_count, retcode>>

\* A zeroed control block: BLOCKED is 0, the directory pointer is NULL.
NullPCB == [pid |-> 0, state |-> "BLOCKED", dir |-> NULL, eip |-> 0]

PCBs == [pid : Pids, state : {"BLOCKED", "READY", "RUNNING"},
         dir : Dirs \cup {NULL}, eip : Eips]

ProcessInit ==
    /\ process_list = [p \in Pids |-> NullPCB]
    /\ pid_used = [p \in Pids |-> FALSE]
    /\ active_process_count = 0
    /\ retcode = PROCESS_CREATE_SUCCESS

-----------------------------------------------------------------------------
\* The checks made before anything is changed, in the order of the code.
CreateCheck(n, low) ==
    IF active_process_count >= PROCESS_COUNT_MAX
        THEN PROCESS_CREATE_FAIL_MAX_PROCESS_EXCEEDED
    ELSE IF ~low
        THEN PROCESS_CREATE_FAIL_INVALID_ENTRYPOINT
    ELSE IF \/ ~paging_allocate_check(n)
            \/ n > PROCESS_PAGE_FRAME_COUNT_MAX
            \/ \A d \in Dirs : page_directory_used[d]
        THEN PROCESS_CREATE_FAIL_NOT_ENOUGH_MEMORY
    ELSE PROCESS_CREATE_SUCCESS

\* One of the checks fails.
CreateRefused(n, low) ==
    /\ CreateCheck(n, low) # PROCESS_CREATE_SUCCESS
    /\ retcode' = CreateCheck(n, low)
    /\ UNCHANGED <<pagingVars, process_list, pid_used, active_process_count>>

\* read fails after the address space was built: the caller's directory is
\* loaded again and the code is returned, the new directory and its frames stay
\* taken.
CreateUnreadable(n) ==
    /\ CreateCheck(n, TRUE) = PROCESS_CREATE_SUCCESS
    /\ \E d \in Dirs : BuildAddressSpace(d, n)
    /\ retcode' = PROCESS_CREATE_FAIL_FS_READ_FAILURE
    /\ UNCHANGED <<pid_used, active_process_count>>

\* process_list_get_inactive_index
InactiveIndex(i) == IsFirst({p \in Pids : ~pid_used[p]}, i)

\* The table once slot i holds a process of directory d.  The instruction
\* pointer is not written: a process starts at 0 because its slot was zeroed.
WithNewProcess(i, d) ==
    [process_list EXCEPT ![i] =
        [pid |-> i, state |-> "READY", dir |-> d, eip |-> process_list[i].eip]]

\* read succeeds and the process gets slot i and directory d.
CreateSuccess(n, i, d) ==
    /\ CreateCheck(n, TRUE) = PROCESS_CREATE_SUCCESS
    /\ BuildAddressSpace(d, n)
    /\ InactiveIndex(i)
    /\ active_process_count' = active_process_count + 1
    /\ pid_used' = [pid_used EXCEPT ![i] = TRUE]
    /\ retcode' = PROCESS_CREATE_SUCCESS

\* Mutant: the control block is left as it is, only the state says BLOCKED.
KeepPCB(p) == [process_list EXCEPT ![p].state = "BLOCKED"]

\* Mutant: the slot is given back without being zeroed.
KeepSlot(p) == process_list

\* The table after slot p is zeroed.
WithoutProcess(p) == [process_list EXCEPT ![p] = NullPCB]

\* Mutant: the directory is given back, its frames are not.
ReleaseFlagOnly(p) ==
    /\ page_directory_used' = [page_directory_used EXCEPT ![process_list[p].dir] = FALSE]
    /\ UNCHANGED <<page_frame_map, free_page_frame_count, page_table, kernel_entry>>

ReleaseAddressSpace(p) == paging_free_page_directory(process_list[p].dir)

\* process_destroy of a slot in use.  The release fails only for a directory
\* outside the pool, which no slot in use has (ProcessTable in Kernel.tla).
process_destroy(p) ==
    /\ pid_used[p]
    /\ process_list[p].dir \in Dirs
    /\ ReleaseAddressSpace(p)
    /\ process_list' = WithoutProcess(p)
    /\ pid_used' = [pid_used EXCEPT ![p] = FALSE]
    /\ active_process_count' = active_process_count - 1
    /\ UNCHANGED retcode
=============================================================================
