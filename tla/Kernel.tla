------------------------------- MODULE Kernel -------------------------------
(***************************************************************************)
(* The kernel as it runs: kernel_setup (src/kernel.c), the timer interrupt *)
(* and the process system calls (src/interrupt.c), the round-robin         *)
(* scheduler (src/scheduler.c) and the processor state they save, load and *)
(* depend on.  User code and the kernel interleave at interrupts and       *)
(* system calls; a handler runs with interrupts off and is one step.       *)
(*                                                                         *)
(* The processor is in one of four conditions:                             *)
(*   boot      before kernel_setup                                         *)
(*   user      executing the instructions of the running process           *)
(*   faulting  back in user mode after process_exit freed the address      *)
(*             space it executes in: every instruction fetch faults, the   *)
(*             handler returns, until the timer interrupt; the kernel is   *)
(*             reachable only while its translations stay in the TLB       *)
(*   wedged    never again executing anything but a fault loop or a reset  *)
(***************************************************************************)
EXTENDS Process

CONSTANTS ProgramsExit,  \* whether programs return from main (crt0.s then exits)
          KernelDir      \* _paging_kernel_page_directory

ASSUME KernelAssumption ==
    /\ ProgramsExit \in BOOLEAN
    /\ KernelDir \notin Dirs
    \* Enough for the shell that kernel_setup starts.
    /\ PAGE_FRAME_MAX_COUNT > 1
    /\ PAGING_DIRECTORY_TABLE_MAX_COUNT > 0
    /\ PROCESS_PAGE_FRAME_COUNT_MAX > 0

VARIABLES cpu,      \* the condition of the processor
          cr3,      \* the loaded page directory
          eip,      \* the instruction pointer of the executing process
          progress  \* history: progress[p] is the next instruction of process p

cpuVars == <<cpu, cr3, eip>>
vars == <<pagingVars, processVars, cpuVars, progress>>

Init ==
    /\ PagingInit
    /\ ProcessInit
    /\ cpu = "boot"
    /\ cr3 = KernelDir
    /\ eip = 0
    /\ progress = [p \in Pids |-> 0]

-----------------------------------------------------------------------------
(* The scheduler. *)

\* The processes process_get_current_running_pcb_pointer searches for.
RunningIn(pl, used) == {p \in Pids : used[p] /\ pl[p].state = "RUNNING"}

\* The table with the state of process i set to s.
WithState(pl, i, s) ==
    [p \in Pids |-> IF p = i THEN [pl[p] EXCEPT !.state = s] ELSE pl[p]]

\* How many slots a scan that starts at slot a passes before it reaches b.
Distance(a, b) == (b - a + PROCESS_COUNT_MAX) % PROCESS_COUNT_MAX

\* Mutant: the scan always starts at slot 0.
LowestReady(pl, start, i) ==
    LET ready == {p \in Pids : pl[p].state = "READY"}
    IN  IF ready = {} THEN i = start ELSE IsFirst(ready, i)

\* The scan stops at the first READY slot, or back at start when there is
\* none.  It looks at the state alone, not at pid_used.
ScanFinds(pl, start, i) ==
    LET ready == {p \in Pids : pl[p].state = "READY"}
    IN  IF ready = {} THEN i = start
        ELSE i \in ready /\ \A j \in ready : Distance(start, i) <= Distance(start, j)

\* Loading a directory that does not map the kernel is the end.
ConditionAfterLoading(d) ==
    IF d \in Dirs /\ kernel_entry'[d] THEN "user" ELSE "wedged"

\* The context switch to what a scan of pl from slot start finds.
Dispatch(pl, start) ==
    \E i \in Pids :
        /\ ScanFinds(pl, start, i)
        /\ process_list' = WithState(pl, i, "RUNNING")
        /\ cr3' = pl[i].dir
        /\ eip' = pl[i].eip
        /\ cpu' = ConditionAfterLoading(pl[i].dir)

\* Mutant: the interrupted process stays RUNNING.
NotPreempted(pl, c) == pl

\* The interrupted process goes back to the READY ones.
Preempted(pl, c) == WithState(pl, c, "READY")

scheduler_switch_to_next_process(pl, used) ==
    \/ /\ RunningIn(pl, used) = {}
       /\ Dispatch(pl, 0)
    \/ \E c \in Pids :
          /\ IsFirst(RunningIn(pl, used), c)
          /\ Dispatch(Preempted(pl, c), (pl[c].pid + 1) % PROCESS_COUNT_MAX)

\* Mutant: the context of the interrupted process is not saved.
SaveNothing(pl) == pl

\* scheduler_save_context_to_current_running_pcb
SavedContext(pl) ==
    [p \in Pids |-> IF IsFirst(RunningIn(pl, pid_used), p)
                    THEN [pl[p] EXCEPT !.eip = eip] ELSE pl[p]]

-----------------------------------------------------------------------------
(* The steps. *)

\* Start the shell, then the scheduler.  The result of the creation is not
\* looked at: without a shell on the disk the scheduler runs with no process.
kernel_setup ==
    /\ cpu = "boot"
    /\ \/ \E i \in Pids, d \in Dirs :
             /\ CreateSuccess(1, i, d)
             /\ progress' = [progress EXCEPT ![i] = 0]
             /\ scheduler_switch_to_next_process(WithNewProcess(i, d), pid_used')
       \/ /\ CreateUnreadable(1)
          /\ scheduler_switch_to_next_process(process_list, pid_used)
          /\ UNCHANGED progress

\* The running process executes an instruction.
UserStep ==
    /\ cpu = "user"
    /\ eip' = (eip + 1) % EipCount
    /\ \E c \in Pids :
          /\ IsFirst(RunningIn(process_list, pid_used), c)
          /\ progress' = [progress EXCEPT ![c] = (@ + 1) % EipCount]
    /\ UNCHANGED <<pagingVars, processVars, cpu, cr3>>

\* Save the interrupted context, acknowledge, switch.
TimerInterrupt ==
    /\ cpu \in {"user", "faulting"}
    /\ UNCHANGED <<pagingVars, pid_used, active_process_count, retcode, progress>>
    /\ scheduler_switch_to_next_process(SavedContext(process_list), pid_used)

\* System call 21, process_create_user_process.
SyscallExec ==
    /\ cpu = "user"
    /\ \E n \in RequestFrames :
          \/ /\ \E low \in BOOLEAN : CreateRefused(n, low)
             /\ UNCHANGED progress
          \/ /\ CreateUnreadable(n)
             /\ UNCHANGED <<process_list, progress>>
          \/ \E i \in Pids, d \in Dirs :
                /\ CreateSuccess(n, i, d)
                /\ process_list' = WithNewProcess(i, d)
                /\ progress' = [progress EXCEPT ![i] = 0]
    /\ UNCHANGED cpuVars

\* System call 20, process_destroy, for another process.  For a pid that is
\* not in use it returns false and changes nothing.
SyscallKill ==
    /\ cpu = "user"
    /\ \E p \in Pids \ RunningIn(process_list, pid_used) : process_destroy(p)
    /\ UNCHANGED <<cpuVars, progress>>

\* System call 20 for the caller's own pid: the address space it executes in is
\* freed, and the result is then stored through a user address that is no
\* longer mapped.  The store faults in the kernel, with interrupts off, for ever.
SyscallKillSelf ==
    /\ cpu = "user"
    /\ \E p \in RunningIn(process_list, pid_used) : process_destroy(p)
    /\ cpu' = "wedged"
    /\ UNCHANGED <<cr3, eip, progress>>

\* System call 19, process_exit: the running process is destroyed and the
\* handler returns to it.
SyscallExit ==
    /\ cpu = "user"
    /\ ProgramsExit
    /\ \E p \in Pids :
          /\ IsFirst(RunningIn(process_list, pid_used), p)
          /\ process_destroy(process_list[p].pid)
    /\ cpu' = "faulting"
    /\ UNCHANGED <<cr3, eip, progress>>

\* The kernel's translations leave the TLB while the loaded directory does not
\* map it.
KernelTranslationLost ==
    /\ cpu = "faulting"
    /\ cpu' = "wedged"
    /\ UNCHANGED <<pagingVars, processVars, cr3, eip, progress>>

Next ==
    \/ kernel_setup
    \/ UserStep
    \/ TimerInterrupt
    \/ SyscallExec
    \/ SyscallKill
    \/ SyscallKillSelf
    \/ SyscallExit
    \/ KernelTranslationLost

\* The programmable interval timer keeps interrupting.
Fairness == WF_vars(TimerInterrupt)

Spec == Init /\ [][Next]_vars
FairSpec == Spec /\ Fairness

-----------------------------------------------------------------------------
Running == RunningIn(process_list, pid_used)

TypeOK ==
    /\ PagingTypeOK
    /\ process_list \in [Pids -> PCBs]
    /\ pid_used \in [Pids -> BOOLEAN]
    /\ active_process_count \in 0 .. PROCESS_COUNT_MAX
    /\ retcode \in PROCESS_CREATE_SUCCESS .. PROCESS_CREATE_FAIL_FS_READ_FAILURE
    /\ cpu \in {"boot", "user", "faulting", "wedged"}
    /\ cr3 \in Dirs \cup {NULL, KernelDir}
    /\ eip \in Eips
    /\ progress \in [Pids -> Eips]

\* The process table is coherent: the counter that limits creation is the
\* number of slots in use; a slot in use names itself, is schedulable, and has
\* a page directory of its own that is in use; a free slot is all zero, which
\* is what lets the scan of the scheduler skip pid_used and a new process start
\* at address 0.  Only a scheduler that found no process marks a free slot.
ProcessTable ==
    /\ active_process_count = Cardinality({p \in Pids : pid_used[p]})
    /\ \A p \in Pids :
          pid_used[p] =>
              /\ process_list[p].pid = p
              /\ process_list[p].state \in {"READY", "RUNNING"}
              /\ process_list[p].dir \in Dirs
              /\ page_directory_used[process_list[p].dir]
    /\ \A p, q \in Pids :
          pid_used[p] /\ pid_used[q] /\ process_list[p].dir = process_list[q].dir => p = q
    /\ cpu # "wedged" => \A p \in Pids : ~pid_used[p] => process_list[p] = NullPCB

\* While user code executes, exactly one process is RUNNING and the loaded
\* directory is its own, in use and mapping the kernel; between an exit and the
\* next timer tick none is, and the freed directory still loaded has not been
\* handed to another process.
RunningOwnsCPU ==
    /\ cpu = "user" =>
          \E p \in Pids : /\ Running = {p}
                          /\ cr3 = process_list[p].dir
                          /\ kernel_entry[cr3]
    /\ cpu = "faulting" => Running = {} /\ cr3 \in Dirs /\ ~page_directory_used[cr3]
    /\ cpu = "boot" => \A p \in Pids : ~pid_used[p]

\* A process resumes where it was interrupted and a new one starts at its entry
\* point, whatever ran in its slot before and whoever was created, killed or
\* interrupted in between.
ContextIntegrity ==
    \A p \in Pids : pid_used[p] =>
        /\ process_list[p].state = "READY" => process_list[p].eip = progress[p]
        /\ process_list[p].state = "RUNNING" /\ cpu = "user" => eip = progress[p]

\* The inductive invariant of the kernel.
KernelInv == TypeOK /\ PagingInv /\ ProcessTable /\ RunningOwnsCPU /\ ContextIntegrity

\* The tables of the memory manager change only as paging.c changes them, so
\* what holds of it alone holds of it inside the kernel.
ImplementsPaging == PagingSpec

\* As long as a process lives, no step of the kernel changes what its pages map:
\* creating, failing to create, killing or ending others leaves it alone.
AddressSpaceStable ==
    [][\A p \in Pids : pid_used[p] /\ pid_used'[p] =>
          page_table'[process_list'[p].dir] = page_table[process_list[p].dir]]_vars

\* A READY process gets the processor or is killed, unless a program exits or
\* the machine is wedged meanwhile: round robin starves nobody.  An exit makes
\* the next scan start at slot 0, so programs that keep exiting can starve one.
NoStarvation ==
    \A p \in Pids :
        (pid_used[p] /\ process_list[p].state = "READY")
            ~> (~pid_used[p] \/ process_list[p].state = "RUNNING" \/ cpu \in {"faulting", "wedged"})

\* What may stop the machine: no process is left for the scheduler (or none
\* could be started), the running process killed itself, or the kernel's
\* translations were lost while a freed directory was loaded.  A tick with a
\* process left never does: what the scan finds has a directory that maps the
\* kernel, whoever was killed, ended or failed to start before.
StopsOnlyWithCause ==
    [][cpu # "wedged" /\ cpu' = "wedged" =>
          \/ active_process_count' = 0
          \/ cpu = "user" /\ \E p \in Running : ~pid_used'[p]
          \/ cpu = "faulting" /\ process_list' = process_list]_vars

-----------------------------------------------------------------------------
\* paging.h says of page_frame_map: "True when the page frame is currently
\* used".  Every frame marked so belongs to the kernel or to a live process.
UsedFramesHaveAProcess ==
    cpu = "user" => \A f \in Frames : page_frame_map[f] =>
        \/ f = 0
        \/ \E p \in Pids : /\ pid_used[p]
                           /\ \E q \in Pages : page_table[process_list[p].dir][q] = f

\* scheduler.c, above scheduler_switch_to_next_process: "assume that there's
\* must be a process".  Whenever the timer can call it, there is one.
SchedulerHasAProcess == cpu \in {"user", "faulting"} => active_process_count > 0

\* README: "kill [pid]: kill process with process id pid".  Killing one of
\* several processes leaves a machine that runs the others.
KillSparesTheOthers == cpu = "wedged" => active_process_count = 0
=============================================================================
