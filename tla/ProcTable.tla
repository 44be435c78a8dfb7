----------------------------- MODULE ProcTable -----------------------------
(***************************************************************************)
(* Processes and the process table: kern/proc/proctable.c, the creation    *)
(* and destruction of processes in kern/proc/proc.c, sys_fork and sys_exit *)
(* and the menu's common_prog that start and end them.                     *)
(*                                                                         *)
(* Each routine of proctable.c runs under the spinlock pt_lock and is one  *)
(* step; between two of them other processes run.  User processes have one *)
(* thread, so a process stands for its thread.                             *)
(***************************************************************************)
EXTENDS Integers, FiniteSets

CONSTANTS
    KProc,      \* the kernel process, which runs the menu
    UProcs,     \* the memory kmalloc can hand out for other struct procs
    NULL,
    PID_MAX,    \* one more than the highest pid
    MaxActive   \* bound: no process is created once active_procs has reached it

Procs == UProcs \cup {KProc}
Pids == 2 .. PID_MAX - 1

ASSUME ProcAssumption ==
    /\ KProc \notin UProcs
    /\ NULL \notin Procs
    /\ IsFiniteSet(UProcs)
    /\ PID_MAX \in Nat
    /\ PID_MAX > 2
    /\ MaxActive \in Nat

VARIABLES
    procs,          \* proc_table->procs
    active_procs,   \* proc_table->active_procs
    p_pid,          \* p_pid[p]: proc->p_pid, -1 for memory not in use
    p_numthreads,   \* p_numthreads[p]: proc->p_numthreads
    p_addrspace,    \* p_addrspace[p]: it has one
    thread_count,   \* thread_count of thread.c, kernel threads at boot not counted
    kthreads,       \* the test threads the menu has started in the kernel process
    tc,             \* common_prog's tc: the thread_count the menu waits for
    pc,             \* pc[p]: where process p is
    child,          \* child[p]: the process p is creating
    panic           \* "none", or what stopped the machine

tableVars == <<procs, active_procs>>
threadVars == <<p_numthreads, thread_count, kthreads, tc>>
procVars == <<p_pid, p_addrspace>>
vars == <<tableVars, threadVars, procVars, pc, child, panic>>

(***************************************************************************)
(* absent  not in use                                                      *)
(* embryo  created by another process, not running yet                     *)
(* menu    the kernel menu, at its prompt                                  *)
(* mwait   the menu, in thread_wait_for_count                              *)
(* start   a new program, in runprogram                                    *)
(* user    in user mode                                                    *)
(* create  proc_create: has a pid, add_proc to come                        *)
(* again   sys_fork: about to call add_proc once more                      *)
(* copyas  sys_fork: about to copy the address space                       *)
(* copyft  sys_fork: about to copy the file table                          *)
(* spawn   about to allocate the trapframe and call thread_fork            *)
(* ret     sys_fork: about to store the child's pid                        *)
(***************************************************************************)
Labels == {"absent", "embryo", "menu", "mwait", "start", "user",
           "create", "again", "copyas", "copyft", "spawn", "ret"}

\* proc_bootstrap: the kernel process takes the first pid.
Init ==
    /\ procs = [i \in Pids |-> IF i = 2 THEN KProc ELSE NULL]
    /\ active_procs = 1
    /\ p_pid = [p \in Procs |-> IF p = KProc THEN 2 ELSE -1]
    /\ p_numthreads = [p \in Procs |-> IF p = KProc THEN 1 ELSE 0]
    /\ p_addrspace = [p \in Procs |-> FALSE]
    /\ thread_count = 0
    /\ kthreads = 0
    /\ tc = 0
    /\ pc = [p \in Procs |-> IF p = KProc THEN "menu" ELSE "absent"]
    /\ child = [p \in Procs |-> NULL]
    /\ panic = "none"

(***************************************************************************)
(* proctable.c.                                                            *)
(***************************************************************************)
FreePids == {i \in Pids : procs[i] = NULL}

\* Fault: the loop runs to PID_MAX included.
assign_pid_past_end ==
    IF FreePids = {} THEN PID_MAX
    ELSE CHOOSE i \in FreePids : \A j \in FreePids : i <= j

\* The lowest pid with an empty slot, or -1.
assign_pid ==
    IF FreePids = {} THEN -1
    ELSE CHOOSE i \in FreePids : \A j \in FreePids : i <= j

\* Fault: the process is not counted.
add_proc_uncounted(p) ==
    /\ procs' = [procs EXCEPT ![p_pid[p]] = p]
    /\ UNCHANGED active_procs

add_proc(p) ==
    /\ procs' = [procs EXCEPT ![p_pid[p]] = p]
    /\ active_procs' = active_procs + 1

\* Fault: the slot is left as it is.
remove_proc_kept(p) ==
    /\ active_procs' = active_procs - 1
    /\ UNCHANGED procs

\* The slot of p's pid, whoever is in it, is emptied.
remove_proc(p) ==
    /\ procs' = [procs EXCEPT ![p_pid[p]] = NULL]
    /\ active_procs' = active_procs - 1

(***************************************************************************)
(* proc_create up to add_proc: by sys_fork and by the menu.                *)
(***************************************************************************)
NewProc(p, q) ==
    /\ pc[q] = "absent"
    /\ assign_pid # -1
    /\ p_pid' = [p_pid EXCEPT ![q] = assign_pid]
    /\ child' = [child EXCEPT ![p] = q]
    /\ pc' = [pc EXCEPT ![p] = "create", ![q] = "embryo"]
    /\ UNCHANGED <<tableVars, threadVars, p_addrspace, panic>>

OutOfProcs == assign_pid = -1 \/ \A q \in Procs : pc[q] # "absent"

\* sys_fork writes through the null child before it tests it.
ForkNoProc(p) ==
    /\ pc[p] = "user"
    /\ OutOfProcs
    /\ panic' = "null child"
    /\ UNCHANGED <<tableVars, threadVars, procVars, pc, child>>

Create(p) ==
    /\ pc[p] \in {"user", "menu"}
    /\ active_procs < MaxActive
    /\ \E q \in UProcs : NewProc(p, q)

Add(p) ==
    /\ pc[p] = "create"
    /\ add_proc(child[p])
    /\ pc' = [pc EXCEPT ![p] = IF p = KProc THEN "spawn" ELSE "again"]
    /\ UNCHANGED <<threadVars, procVars, child, panic>>

\* sys_fork adds to the table what proc_create has added already.
AddAgain(p) ==
    /\ pc[p] = "again"
    /\ add_proc(child[p])
    /\ pc' = [pc EXCEPT ![p] = "copyas"]
    /\ UNCHANGED <<threadVars, p_pid, p_addrspace, child, panic>>

(***************************************************************************)
(* proc_destroy(q), after which pc is pc2 and child is child2.  asGone: the*)
(* caller has destroyed q's address space itself and left the pointer; the *)
(* heap is corrupt once it is destroyed again.  KASSERT(p_numthreads == 0) *)
(* is left out: the callers have counted the thread out or started none.   *)
(***************************************************************************)
proc_destroy(q, pc2, child2, asGone) ==
    \/ /\ asGone /\ p_addrspace[q]
       /\ panic' = "address space destroyed twice"
       /\ UNCHANGED <<tableVars, procVars, pc, child>>
    \/ /\ ~(asGone /\ p_addrspace[q])
       /\ procs[p_pid[q]] = NULL
       /\ panic' = "remove_proc: empty slot"
       /\ UNCHANGED <<tableVars, procVars, pc, child>>
    \/ /\ ~(asGone /\ p_addrspace[q])
       /\ procs[p_pid[q]] # NULL
       /\ remove_proc(q)
       /\ p_pid' = [p_pid EXCEPT ![q] = -1]
       /\ p_addrspace' = [p_addrspace EXCEPT ![q] = FALSE]
       /\ pc' = [pc2 EXCEPT ![q] = "absent"]
       /\ child' = child2
       /\ UNCHANGED panic

(***************************************************************************)
(* The rest of sys_fork.  A failed fork reports an error and destroys the  *)
(* child; after as_copy the error paths destroy the address space first.   *)
(***************************************************************************)
CopyAs(p) ==
    /\ pc[p] = "copyas"
    /\ p_addrspace' = [p_addrspace EXCEPT ![child[p]] = TRUE]
    /\ pc' = [pc EXCEPT ![p] = "copyft"]
    /\ UNCHANGED <<tableVars, threadVars, p_pid, child, panic>>

CopyFt(p) ==
    /\ pc[p] = "copyft"
    /\ pc' = [pc EXCEPT ![p] = "spawn"]
    /\ UNCHANGED <<tableVars, threadVars, procVars, child, panic>>

ForkFails(p) ==
    /\ p # KProc
    /\ pc[p] \in {"copyas", "copyft", "spawn"}
    /\ proc_destroy(child[p], [pc EXCEPT ![p] = "user"], [child EXCEPT ![p] = NULL],
                    pc[p] # "copyas")
    /\ UNCHANGED <<threadVars>>

\* thread_fork: the child enters user mode, where its fork returns 0.
Spawn(p) ==
    /\ p # KProc
    /\ pc[p] = "spawn"
    /\ p_numthreads' = [p_numthreads EXCEPT ![child[p]] = @ + 1]
    /\ thread_count' = thread_count + 1
    /\ pc' = [pc EXCEPT ![p] = "ret", ![child[p]] = "user"]
    /\ UNCHANGED <<tableVars, kthreads, tc, p_pid, p_addrspace, child, panic>>

(***************************************************************************)
(* syscall() passes as sys_fork's retval the user's register a0, to which  *)
(* fork() gives no value.  The store of the pid through it lands somewhere *)
(* in user memory or is a fatal kernel fault.                              *)
(***************************************************************************)
Return(p) ==
    /\ pc[p] = "ret"
    /\ pc' = [pc EXCEPT ![p] = "user"]
    /\ child' = [child EXCEPT ![p] = NULL]
    /\ UNCHANGED <<tableVars, threadVars, p_pid, p_addrspace, panic>>

ReturnFaults(p) ==
    /\ pc[p] = "ret"
    /\ panic' = "fork: store through a0"
    /\ UNCHANGED <<tableVars, threadVars, procVars, pc, child>>

(***************************************************************************)
(* The menu: common_prog starts a program and waits until the number of    *)
(* threads is back to what it was; a test starts a thread in the kernel    *)
(* process.                                                                *)
(***************************************************************************)
\* Fault: tc is read after thread_fork.
MenuSpawn_counts_late ==
    /\ pc[KProc] = "spawn"
    /\ tc' = thread_count + 1
    /\ p_numthreads' = [p_numthreads EXCEPT ![child[KProc]] = @ + 1]
    /\ thread_count' = thread_count + 1
    /\ pc' = [pc EXCEPT ![KProc] = "mwait", ![child[KProc]] = "start"]
    /\ child' = [child EXCEPT ![KProc] = NULL]
    /\ UNCHANGED <<tableVars, kthreads, procVars, panic>>

\* tc is read before thread_fork; no thread but the menu changes thread_count in between.
MenuSpawn ==
    /\ pc[KProc] = "spawn"
    /\ tc' = thread_count
    /\ p_numthreads' = [p_numthreads EXCEPT ![child[KProc]] = @ + 1]
    /\ thread_count' = thread_count + 1
    /\ pc' = [pc EXCEPT ![KProc] = "mwait", ![child[KProc]] = "start"]
    /\ child' = [child EXCEPT ![KProc] = NULL]
    /\ UNCHANGED <<tableVars, kthreads, procVars, panic>>

MenuSpawnFails ==
    /\ pc[KProc] = "spawn"
    /\ proc_destroy(child[KProc], [pc EXCEPT ![KProc] = "menu"], [child EXCEPT ![KProc] = NULL], FALSE)
    /\ UNCHANGED <<threadVars>>

MenuBack ==
    /\ pc[KProc] = "mwait"
    /\ thread_count = tc
    /\ pc' = [pc EXCEPT ![KProc] = "menu"]
    /\ UNCHANGED <<tableVars, threadVars, procVars, child, panic>>

MenuTest ==
    /\ pc[KProc] = "menu"
    /\ kthreads = 0
    /\ kthreads' = 1
    /\ p_numthreads' = [p_numthreads EXCEPT ![KProc] = @ + 1]
    /\ thread_count' = thread_count + 1
    /\ UNCHANGED <<tableVars, tc, procVars, pc, child, panic>>

(***************************************************************************)
(* runprogram: the program starts, or the thread returns and exits.        *)
(***************************************************************************)
RunStarts(p) ==
    /\ pc[p] = "start"
    /\ p_addrspace' = [p_addrspace EXCEPT ![p] = TRUE]
    /\ pc' = [pc EXCEPT ![p] = "user"]
    /\ UNCHANGED <<tableVars, threadVars, p_pid, child, panic>>

\* thread_exit: proc_remthread counts the thread out and destroys the process.
RunFails(p) ==
    /\ pc[p] = "start"
    /\ p_numthreads' = [p_numthreads EXCEPT ![p] = @ - 1]
    /\ proc_destroy(p, pc, child, FALSE)
    /\ thread_count' = IF panic' = "none" THEN thread_count - 1 ELSE thread_count
    /\ UNCHANGED <<kthreads, tc>>

(***************************************************************************)
(* The two exits that end in a failed KASSERT: cv_broadcast is called      *)
(* without the exit lock, and proc_destroy is called for the kernel.       *)
(***************************************************************************)
sys_exit(p) ==
    /\ pc[p] = "user"
    /\ panic' = "cv_broadcast: lock not held"
    /\ UNCHANGED <<tableVars, threadVars, procVars, pc, child>>

KThreadExit ==
    /\ kthreads > 0
    /\ p_numthreads' = [p_numthreads EXCEPT ![KProc] = @ - 1]
    /\ panic' = "proc_destroy: kernel process"
    /\ UNCHANGED <<tableVars, thread_count, kthreads, tc, procVars, pc, child>>

Step(p) ==
    \/ Create(p) \/ ForkNoProc(p) \/ Add(p) \/ AddAgain(p)
    \/ CopyAs(p) \/ CopyFt(p) \/ ForkFails(p) \/ Spawn(p)
    \/ Return(p) \/ ReturnFaults(p)
    \/ RunStarts(p) \/ RunFails(p) \/ sys_exit(p)

Next ==
    /\ panic = "none"
    /\ \/ \E p \in Procs : Step(p)
       \/ MenuSpawn \/ MenuSpawnFails \/ MenuBack \/ MenuTest \/ KThreadExit

Spec == Init /\ [][Next]_vars

(***************************************************************************)
(* Properties.                                                             *)
(***************************************************************************)
Panics == {"none", "null child", "remove_proc: empty slot", "fork: store through a0",
           "address space destroyed twice", "cv_broadcast: lock not held", "proc_destroy: kernel process"}

\* Type invariant: pids stay inside the table's array and the counters are numbers.
TypeOK ==
    /\ procs \in [Pids -> Procs \cup {NULL}]
    /\ active_procs \in Nat
    /\ p_pid \in [Procs -> Pids \cup {-1}]
    /\ p_numthreads \in [Procs -> Nat]
    /\ p_addrspace \in [Procs -> BOOLEAN]
    /\ {thread_count, kthreads, tc} \subseteq Nat
    /\ pc \in [Procs -> Labels]
    /\ child \in [Procs -> UProcs \cup {NULL}]
    /\ panic \in Panics

InUse(p) == pc[p] # "absent"

\* What find_process returns is a process that is in use and has the pid asked
\* for: an entry never outlives the proc that proc_destroy frees, although two
\* forks may be given the same pid and overwrite each other's entries.
EntriesMatch ==
    \A i \in Pids : procs[i] # NULL => InUse(procs[i]) /\ p_pid[procs[i]] = i

\* active_procs never falls below the number of entries: remove_proc cannot take
\* it under zero, whatever add_proc has overwritten before.
CountCoversTable == active_procs >= Cardinality({i \in Pids : procs[i] # NULL})

\* While the menu is at its prompt or creates a process, no user process runs:
\* thread_wait_for_count (menu.c:151) returns only when every process that the last
\* program has forked is gone as well.  It is the contrary of what the comment on
\* common_prog says, that it "does not wait for the subprogram to finish, but returns
\* immediately to the menu" (menu.c:107-108).
MenuRunsAlone ==
    pc[KProc] # "mwait" => \A p \in UProcs : pc[p] \in {"absent", "embryo"}

(***************************************************************************)
(* What the manual page of fork says and the code does not do.             *)
(***************************************************************************)
\* fork gives the child a unique process id: no two processes have the same one.
UniquePids ==
    \A p, q \in Procs : InUse(p) /\ p_pid[p] = p_pid[q] => p = q
=============================================================================
