----------------------------- MODULE FileTable -----------------------------
(***************************************************************************)
(* Open files: kern/thread/file_table.c with sys_open, sys_close, sys_dup2,*)
(* sys_read, sys_write, sys_lseek, and the copy that sys_fork makes.       *)
(*                                                                         *)
(* Every process has a table of its own.  The table of the kernel process, *)
(* kproc->proc_ft, is the global one: every file has its master_fd there.  *)
(* A file is shared by the processes that fork after it was opened, and a  *)
(* vnode by all files opened under one path.  User processes have one      *)
(* thread, so nobody waits for the lock of a local table.                  *)
(***************************************************************************)
EXTENDS Integers, FiniteSets

CONSTANTS
    Procs,      \* user processes
    FirstProc,  \* the one that runs at the start
    Files,      \* the memory kmalloc can hand out for files
    Vnodes,     \* the paths that can be opened
    NULL,
    OPEN_MAX,   \* one more than the highest file descriptor
    MaxRefs,    \* bound: no open and no fork takes vn_refcount beyond it
    INT         \* how many values an int has, as which seek_pos is kept

MIN_FD == 3
FLOATING_FILE == -1
ONE_FILE_OWNER == 2
Slots == MIN_FD .. OPEN_MAX - 1

ASSUME FileAssumption ==
    /\ FirstProc \in Procs
    /\ NULL \notin Procs \cup Files \cup Vnodes
    /\ IsFiniteSet(Procs) /\ IsFiniteSet(Files)
    /\ OPEN_MAX \in Nat /\ OPEN_MAX > MIN_FD
    /\ MaxRefs \in Nat
    /\ INT \in Nat \ {0}

VARIABLES
    local,          \* local[p][fd]: file_arr of p's table
    global,         \* global[fd]: file_arr of the kernel process's table
    glock,          \* the owner of the global table's file_table_lock
    alive,          \* alive[f]: f is allocated
    file_vnode,     \* file_vnode[f]
    master_fd,      \* master_fd[f]
    file_lock,      \* file_lock[f]: the owner of f's lock
    seek_pos,       \* seek_pos[f], modulo INT
    vn_refcount,    \* vn_refcount[v], 0 when v is not loaded
    stuck,          \* the processes that have left their table's lock locked
    dupped,         \* a dup2 has got as far as to change slots
    pc,             \* pc[p]: where p is
    cur,            \* cur[p]: the file p's call works on
    pos,            \* pos[p]: the uio_offset of p's read or write, or 0
    from,           \* from[p], to[p]: dup2's oldfd and newfd; from[p] is also the
    to,             \* slot file_table_copy has come to
    kid,            \* kid[p]: the process p is forking
    fault           \* "none", or the failed assertion or invalid access

tables == <<local, global>>
files == <<alive, file_vnode, master_fd>>
offsets == <<seek_pos, pos>>
vars == <<tables, glock, files, offsets, file_lock, vn_refcount, stuck, dupped,
          pc, cur, from, to, kid, fault>>

(***************************************************************************)
(* absent  not in use                embryo   being forked                 *)
(* user    between two calls                                               *)
(* add     sys_open: the file is made, file_table_add comes next           *)
(* test    file_destroy: about to lock the file and look at vn_refcount    *)
(* decref  file_destroy: vn_refcount was not 2                             *)
(* last    file_destroy: vn_refcount was 2                                 *)
(* unlink  file_destroy: about to leave the global table and free          *)
(* read    sys_read, write sys_write: has the lock of the file             *)
(* copy    file_table_copy                                                 *)
(* dupg    file_copy: has the lock of the file at oldfd                    *)
(* dupc    file_copy: has the global lock too, about to close newfd        *)
(* dupi    file_copy: about to install the file at newfd                   *)
(***************************************************************************)
Labels == {"absent", "embryo", "user", "add", "test", "decref", "last", "unlink",
           "read", "write", "copy", "dupg", "dupc", "dupi"}

NoFiles == [i \in Slots |-> NULL]

Init ==
    /\ local = [p \in Procs |-> NoFiles]
    /\ global = NoFiles
    /\ glock = NULL
    /\ alive = [f \in Files |-> FALSE]
    /\ file_vnode = [f \in Files |-> NULL]
    /\ master_fd = [f \in Files |-> FLOATING_FILE]
    /\ file_lock = [f \in Files |-> NULL]
    /\ seek_pos = [f \in Files |-> 0]
    /\ vn_refcount = [v \in Vnodes |-> 0]
    /\ stuck = {}
    /\ dupped = FALSE
    /\ pc = [p \in Procs |-> IF p = FirstProc THEN "user" ELSE "absent"]
    /\ cur = [p \in Procs |-> NULL]
    /\ pos = [p \in Procs |-> 0]
    /\ from = [p \in Procs |-> MIN_FD]
    /\ to = [p \in Procs |-> MIN_FD]
    /\ kid = [p \in Procs |-> NULL]
    /\ fault = "none"

Fails(why) ==
    /\ fault' = why
    /\ UNCHANGED <<tables, glock, files, file_lock, vn_refcount, offsets, stuck, dupped,
                   pc, cur, from, to, kid>>

(***************************************************************************)
(* lock_acquire on the table of p, and on the lock of file f: both assert  *)
(* that the caller does not hold the lock already.  Act is what follows.   *)
(***************************************************************************)
WithTable(p, Act) ==
    \/ p \in stuck /\ Fails("lock_acquire: held by caller")
    \/ p \notin stuck /\ Act

WithFile(p, f, Act) ==
    \/ ~alive[f] /\ Fails("file used after it was freed")
    \/ alive[f] /\ file_lock[f] = p /\ Fails("lock_acquire: held by caller")
    \/ alive[f] /\ file_lock[f] = NULL /\ Act

Free(tab) == {i \in Slots : tab[i] = NULL}
Lowest(S) == CHOOSE i \in S : \A j \in S : i <= j

(***************************************************************************)
(* VOP_DECREF: at 1 the vnode is reclaimed, at 0 it has been already.      *)
(***************************************************************************)
VOP_DECREF(v) ==
    IF vn_refcount[v] > 0
    THEN vn_refcount' = [vn_refcount EXCEPT ![v] = @ - 1] /\ UNCHANGED fault
    ELSE fault' = "vnode used after it was reclaimed" /\ UNCHANGED vn_refcount

VOP_INCREF(v) == vn_refcount' = [vn_refcount EXCEPT ![v] = @ + 1]

(***************************************************************************)
(* sys_open: vfs_open and file_create.                                     *)
(***************************************************************************)
Open(p) ==
    /\ pc[p] = "user"
    /\ \E v \in Vnodes, f \in Files :
        /\ ~alive[f]
        /\ vn_refcount[v] + 1 < MaxRefs
        /\ VOP_INCREF(v)
        /\ alive' = [alive EXCEPT ![f] = TRUE]
        /\ file_vnode' = [file_vnode EXCEPT ![f] = v]
        /\ master_fd' = [master_fd EXCEPT ![f] = FLOATING_FILE]
        /\ seek_pos' = [seek_pos EXCEPT ![f] = 0]
        /\ cur' = [cur EXCEPT ![p] = f]
    /\ pc' = [pc EXCEPT ![p] = "add"]
    /\ UNCHANGED <<tables, glock, file_lock, pos, stuck, dupped, from, to, kid, fault>>

\* When vfs_open fails, v is an uninitialised variable.
OpenMissing(p) ==
    /\ pc[p] = "user"
    /\ Fails("vnode_cleanup: no vnode")

\* When file_create fails, v is still listed by its file system: vnode_cleanup fails its
\* KASSERT or, if nobody else refers to v, clears what the file system goes on using.
\* Both count as the end here.
OpenNoMemory(p) ==
    /\ pc[p] = "user"
    /\ \A f \in Files : alive[f]
    /\ Fails("vnode_cleanup: vnode in use")

(***************************************************************************)
(* file_table_add, and file_destroy if it finds no room.                   *)
(***************************************************************************)
\* Fault: vn_refcount is not raised.
AddFound_uncounted(p, f) ==
    /\ local' = [local EXCEPT ![p][Lowest(Free(local[p]))] = f]
    /\ global' = [global EXCEPT ![Lowest(Free(global))] = f]
    /\ master_fd' = [master_fd EXCEPT ![f] = Lowest(Free(global))]
    /\ UNCHANGED vn_refcount

AddFound(p, f) ==
    /\ local' = [local EXCEPT ![p][Lowest(Free(local[p]))] = f]
    /\ global' = [global EXCEPT ![Lowest(Free(global))] = f]
    /\ master_fd' = [master_fd EXCEPT ![f] = Lowest(Free(global))]
    /\ VOP_INCREF(file_vnode[f])

\* An add that fails may have raised vn_refcount and lowers it again, which is left out:
\* another process that tests it for 2 in between only leaks its file.
Add(p) ==
    /\ \/ /\ Free(local[p]) # {} /\ Free(global) # {}
          /\ AddFound(p, cur[p])
          /\ pc' = [pc EXCEPT ![p] = "user"]
          /\ cur' = [cur EXCEPT ![p] = NULL]
       \/ /\ Free(local[p]) = {} \/ Free(global) = {}
          /\ pc' = [pc EXCEPT ![p] = "test"]
          /\ UNCHANGED <<tables, master_fd, vn_refcount, cur>>
    /\ UNCHANGED <<glock, alive, file_vnode, file_lock, offsets, stuck, dupped,
                   from, to, kid, fault>>

file_table_add(p) ==
    /\ pc[p] = "add"
    /\ glock = NULL
    /\ WithTable(p, Add(p))

(***************************************************************************)
(* sys_close: the slot is emptied first, then the file is destroyed.       *)
(***************************************************************************)
CloseSlot(p, i) ==
    /\ local' = [local EXCEPT ![p][i] = NULL]
    /\ cur' = [cur EXCEPT ![p] = local[p][i]]
    /\ pc' = [pc EXCEPT ![p] = "test"]
    /\ UNCHANGED <<global, glock, files, file_lock, vn_refcount, offsets, stuck, dupped,
                   from, to, kid, fault>>

Close(p) ==
    /\ pc[p] = "user"
    /\ \E i \in Slots : local[p][i] # NULL /\ WithTable(p, CloseSlot(p, i))

(***************************************************************************)
(* file_destroy.  vn_refcount is read under the lock of the file only; it  *)
(* changes with every open of the same path.                               *)
(***************************************************************************)
TestCount(p) ==
    /\ file_lock' = [file_lock EXCEPT ![cur[p]] = p]
    /\ pc' = [pc EXCEPT ![p] = IF vn_refcount[file_vnode[cur[p]]] = ONE_FILE_OWNER
                               THEN "last" ELSE "decref"]
    /\ UNCHANGED <<tables, glock, files, vn_refcount, offsets, stuck, dupped,
                   cur, from, to, kid, fault>>

Test(p) == pc[p] = "test" /\ WithFile(p, cur[p], TestCount(p))

Decref(p) ==
    /\ pc[p] = "decref"
    /\ VOP_DECREF(file_vnode[cur[p]])
    /\ file_lock' = [file_lock EXCEPT ![cur[p]] = NULL]
    /\ pc' = [pc EXCEPT ![p] = "user"]
    /\ cur' = [cur EXCEPT ![p] = NULL]
    /\ UNCHANGED <<tables, glock, files, offsets, stuck, dupped, from, to, kid>>

\* file_vnode is cleared before the global lock is asked for, here with the rest when
\* the file is freed: up to the first dup2 nobody else has the file any more.
LastDecref(p) ==
    /\ pc[p] = "last"
    /\ VOP_DECREF(file_vnode[cur[p]])
    /\ seek_pos' = [seek_pos EXCEPT ![cur[p]] = 0]
    /\ pc' = [pc EXCEPT ![p] = "unlink"]
    /\ UNCHANGED <<tables, glock, files, file_lock, pos, stuck, dupped, cur, from, to, kid>>

\* Fault: a file that is freed stays in the global table.
LeaveGlobal_kept(f) == UNCHANGED global

LeaveGlobal(f) ==
    IF master_fd[f] = FLOATING_FILE THEN UNCHANGED global
    ELSE glock = NULL /\ global' = [global EXCEPT ![master_fd[f]] = NULL]

\* What a file that is freed holds does not matter any more.
Unlink(p) ==
    /\ pc[p] = "unlink"
    /\ LeaveGlobal(cur[p])
    /\ alive' = [alive EXCEPT ![cur[p]] = FALSE]
    /\ file_vnode' = [file_vnode EXCEPT ![cur[p]] = NULL]
    /\ master_fd' = [master_fd EXCEPT ![cur[p]] = FLOATING_FILE]
    /\ file_lock' = [file_lock EXCEPT ![cur[p]] = NULL]
    /\ pc' = [pc EXCEPT ![p] = "user"]
    /\ cur' = [cur EXCEPT ![p] = NULL]
    /\ UNCHANGED <<local, glock, vn_refcount, offsets, stuck, dupped,
                   from, to, kid, fault>>

(***************************************************************************)
(* sys_read, sys_write: the lock of the file is held through the transfer, *)
(* which may sleep.  Only a read moves seek_pos, by n bytes, and one whose *)
(* VOP_READ fails returns with the lock.                                   *)
(***************************************************************************)
\* Fault: the lock of the file is not kept through the transfer.
Transfer_unlocked(p, f, label) ==
    /\ cur' = [cur EXCEPT ![p] = f]
    /\ pos' = [pos EXCEPT ![p] = seek_pos[f]]
    /\ pc' = [pc EXCEPT ![p] = label]
    /\ UNCHANGED <<tables, glock, files, file_lock, seek_pos, vn_refcount, stuck, dupped,
                   from, to, kid, fault>>

Transfer(p, f, label) ==
    /\ file_lock' = [file_lock EXCEPT ![f] = p]
    /\ cur' = [cur EXCEPT ![p] = f]
    /\ pos' = [pos EXCEPT ![p] = seek_pos[f]]
    /\ pc' = [pc EXCEPT ![p] = label]
    /\ UNCHANGED <<tables, glock, files, seek_pos, vn_refcount, stuck, dupped,
                   from, to, kid, fault>>

Start(p, label) ==
    /\ pc[p] = "user"
    /\ \E i \in Slots :
        /\ local[p][i] # NULL
        /\ WithTable(p, WithFile(p, local[p][i], Transfer(p, local[p][i], label)))

sys_read(p) == Start(p, "read")
sys_write(p) == Start(p, "write")

Finish(p) ==
    /\ cur' = [cur EXCEPT ![p] = NULL]
    /\ pos' = [pos EXCEPT ![p] = 0]
    /\ pc' = [pc EXCEPT ![p] = "user"]
    /\ UNCHANGED <<tables, glock, files, vn_refcount, stuck, dupped, from, to, kid, fault>>

ReadDone(p) ==
    /\ pc[p] = "read"
    /\ \E n \in 0 .. INT - 1 : seek_pos' = [seek_pos EXCEPT ![cur[p]] = (@ + n) % INT]
    /\ file_lock' = [file_lock EXCEPT ![cur[p]] = NULL]
    /\ Finish(p)

ReadFails(p) ==
    /\ pc[p] = "read"
    /\ Finish(p)
    /\ UNCHANGED <<seek_pos, file_lock>>

WriteDone(p) ==
    /\ pc[p] = "write"
    /\ file_lock' = [file_lock EXCEPT ![cur[p]] = NULL]
    /\ Finish(p)
    /\ UNCHANGED seek_pos

(***************************************************************************)
(* sys_lseek.  seek_pos keeps the low half of the sum, without the fd that *)
(* join32to64 put into the high one, so that whatever whence is an offset  *)
(* can lead to any position.  A VOP_STAT that fails lets go of a lock that *)
(* is not taken yet, unless an earlier read of p has left it locked.       *)
(***************************************************************************)
Seek(f, to_pos) ==
    /\ seek_pos' = [seek_pos EXCEPT ![f] = to_pos]
    /\ UNCHANGED <<tables, glock, files, file_lock, vn_refcount, stuck, dupped,
                   pc, cur, pos, from, to, kid, fault>>

Lseek(p) ==
    /\ pc[p] = "user"
    /\ \E i \in Slots, to_pos \in 0 .. INT - 1 :
        /\ local[p][i] # NULL
        /\ WithTable(p, WithFile(p, local[p][i], Seek(local[p][i], to_pos)))

SeekRelease(f) ==
    /\ file_lock' = [file_lock EXCEPT ![f] = NULL]
    /\ UNCHANGED <<tables, glock, files, offsets, vn_refcount, stuck, dupped,
                   pc, cur, from, to, kid, fault>>

LseekStatFails(p) ==
    /\ pc[p] = "user"
    /\ \E i \in Slots :
        LET f == local[p][i]
        IN  /\ f # NULL
            /\ WithTable(p,
                \/ ~alive[f] /\ Fails("file used after it was freed")
                \/ alive[f] /\ file_lock[f] # p /\ Fails("lock_release: not held by caller")
                \/ alive[f] /\ file_lock[f] = p /\ SeekRelease(f))

(***************************************************************************)
(* file_table_copy for sys_fork.  If there is no memory for the table it   *)
(* returns with the lock of the parent's table.  When it is the lock of    *)
(* the new table that cannot be had, file_table_create passes file_arr, an *)
(* array inside the table, to kfree and then the table; the same step here.*)
(***************************************************************************)
CopyStart(p, k) ==
    /\ pc' = [pc EXCEPT ![p] = "copy", ![k] = "embryo"]
    /\ kid' = [kid EXCEPT ![p] = k]
    /\ from' = [from EXCEPT ![p] = MIN_FD]
    /\ UNCHANGED <<tables, glock, files, file_lock, vn_refcount, offsets, stuck, dupped,
                   cur, to, fault>>

ForkStart(p) ==
    /\ pc[p] = "user"
    /\ \E k \in Procs : pc[k] = "absent" /\ WithTable(p, CopyStart(p, k))

CopyNoTable(p) ==
    /\ stuck' = stuck \cup {p}
    /\ UNCHANGED <<tables, glock, files, file_lock, vn_refcount, offsets, dupped,
                   pc, cur, from, to, kid, fault>>

ForkNoTable(p) == pc[p] = "user" /\ WithTable(p, CopyNoTable(p))

\* Fault: the copy is not counted.
CopyFile_uncounted(p, f) ==
    /\ local' = [local EXCEPT ![kid[p]][from[p]] = f]
    /\ UNCHANGED vn_refcount

CopyFile(p, f) ==
    /\ local' = [local EXCEPT ![kid[p]][from[p]] = f]
    /\ VOP_INCREF(file_vnode[f])

NextSlot(p) ==
    /\ from' = [from EXCEPT ![p] = @ + 1]
    /\ UNCHANGED <<global, glock, files, file_lock, offsets, stuck, dupped,
                   pc, cur, to, kid, fault>>

CopySlot(p) ==
    /\ pc[p] = "copy"
    /\ from[p] < OPEN_MAX
    /\ LET f == local[p][from[p]]
       IN  \/ f = NULL /\ NextSlot(p) /\ UNCHANGED <<local, vn_refcount>>
           \/ /\ f # NULL
              /\ WithFile(p, f,
                    vn_refcount[file_vnode[f]] < MaxRefs /\ CopyFile(p, f) /\ NextSlot(p))

CopyDone(p) ==
    /\ pc[p] = "copy"
    /\ from[p] = OPEN_MAX
    /\ pc' = [pc EXCEPT ![p] = "user", ![kid[p]] = "user"]
    /\ kid' = [kid EXCEPT ![p] = NULL]
    /\ from' = [from EXCEPT ![p] = MIN_FD]
    /\ UNCHANGED <<tables, glock, files, file_lock, vn_refcount, offsets, stuck, dupped,
                   cur, to, fault>>

\* thread_fork fails: proc_destroy drops the copy and keeps its references.
CopyDropped(p) ==
    /\ pc[p] = "copy"
    /\ from[p] = OPEN_MAX
    /\ pc' = [pc EXCEPT ![p] = "user", ![kid[p]] = "absent"]
    /\ local' = [local EXCEPT ![kid[p]] = NoFiles]
    /\ kid' = [kid EXCEPT ![p] = NULL]
    /\ from' = [from EXCEPT ![p] = MIN_FD]
    /\ UNCHANGED <<global, glock, files, file_lock, vn_refcount, offsets, stuck, dupped,
                   cur, to, fault>>

(***************************************************************************)
(* sys_dup2: file_copy.  oldfd is looked up in the global table before any *)
(* lock is taken, and in the local one for the lock.                       *)
(***************************************************************************)
Dup2Locked(p, o, n) ==
    /\ file_lock' = [file_lock EXCEPT ![local[p][o]] = p]
    /\ from' = [from EXCEPT ![p] = o]
    /\ to' = [to EXCEPT ![p] = n]
    /\ pc' = [pc EXCEPT ![p] = "dupg"]
    /\ UNCHANGED <<tables, glock, files, vn_refcount, offsets, stuck, dupped,
                   cur, kid, fault>>

Dup2(p) ==
    /\ pc[p] = "user"
    /\ \E o, n \in Slots :
        /\ global[o] # NULL
        /\ WithTable(p,
            \/ local[p][o] = NULL /\ Fails("dup2: no file at oldfd")
            \/ local[p][o] # NULL /\ WithFile(p, local[p][o], Dup2Locked(p, o, n)))

Dup2Global(p) ==
    /\ pc[p] = "dupg"
    /\ glock = NULL
    /\ glock' = p
    /\ dupped' = TRUE
    /\ pc' = [pc EXCEPT ![p] = "dupc"]
    /\ UNCHANGED <<tables, files, file_lock, vn_refcount, offsets, stuck,
                   cur, from, to, kid, fault>>

\* file_destroy(newfd): a last reference asks for the global lock once more.
Dup2Closed(p) ==
    /\ pc' = [pc EXCEPT ![p] = "dupi"]
    /\ UNCHANGED <<tables, glock, files, file_lock, offsets, stuck, dupped,
                   cur, from, to, kid>>

Dup2Close(p) ==
    /\ pc[p] = "dupc"
    /\ LET f == local[p][to[p]]
       IN  \/ f = NULL /\ Dup2Closed(p) /\ UNCHANGED <<vn_refcount, fault>>
           \/ /\ f # NULL
              /\ WithFile(p, f,
                  \/ /\ vn_refcount[file_vnode[f]] = ONE_FILE_OWNER
                     /\ Fails("lock_acquire: held by caller")
                  \/ /\ vn_refcount[file_vnode[f]] # ONE_FILE_OWNER
                     /\ VOP_DECREF(file_vnode[f])
                     /\ Dup2Closed(p))

Dup2Install(p) ==
    /\ pc[p] = "dupi"
    /\ local' = [local EXCEPT ![p][to[p]] = global[from[p]]]
    /\ glock' = NULL
    /\ file_lock' = [file_lock EXCEPT ![local[p][from[p]]] = NULL]
    /\ pc' = [pc EXCEPT ![p] = "user"]
    /\ from' = [from EXCEPT ![p] = MIN_FD]
    /\ to' = [to EXCEPT ![p] = MIN_FD]
    /\ UNCHANGED <<global, files, vn_refcount, offsets, stuck, dupped, cur, kid, fault>>

Step(p) ==
    \/ Open(p) \/ OpenMissing(p) \/ OpenNoMemory(p) \/ file_table_add(p)
    \/ Close(p) \/ Test(p) \/ Decref(p) \/ LastDecref(p) \/ Unlink(p)
    \/ sys_read(p) \/ ReadDone(p) \/ ReadFails(p) \/ sys_write(p) \/ WriteDone(p)
    \/ Lseek(p) \/ LseekStatFails(p)
    \/ ForkStart(p) \/ ForkNoTable(p) \/ CopySlot(p) \/ CopyDone(p) \/ CopyDropped(p)
    \/ Dup2(p) \/ Dup2Global(p) \/ Dup2Close(p) \/ Dup2Install(p)

Next == fault = "none" /\ \E p \in Procs : Step(p)

Spec == Init /\ [][Next]_vars

(***************************************************************************)
(* Properties.                                                             *)
(***************************************************************************)
Faults == {"none", "lock_acquire: held by caller", "lock_release: not held by caller",
           "file used after it was freed", "vnode used after it was reclaimed",
           "vnode_cleanup: no vnode", "vnode_cleanup: vnode in use", "dup2: no file at oldfd"}

\* Type invariant; vn_refcount is never negative.
TypeOK ==
    /\ local \in [Procs -> [Slots -> Files \cup {NULL}]]
    /\ global \in [Slots -> Files \cup {NULL}]
    /\ glock \in Procs \cup {NULL}
    /\ alive \in [Files -> BOOLEAN]
    /\ file_vnode \in [Files -> Vnodes \cup {NULL}]
    /\ master_fd \in [Files -> Slots \cup {FLOATING_FILE}]
    /\ file_lock \in [Files -> Procs \cup {NULL}]
    /\ seek_pos \in [Files -> 0 .. INT - 1]
    /\ pos \in [Procs -> 0 .. INT - 1]
    /\ vn_refcount \in [Vnodes -> Nat]
    /\ stuck \subseteq Procs
    /\ dupped \in BOOLEAN
    /\ pc \in [Procs -> Labels]
    /\ cur \in [Procs -> Files \cup {NULL}]
    /\ from \in [Procs -> MIN_FD .. OPEN_MAX]
    /\ to \in [Procs -> Slots]
    /\ kid \in [Procs -> Procs \cup {NULL}]
    /\ fault \in Faults

\* Until dup2 has been used, what the global table lists is allocated and knows
\* its place there, also while other processes open and close the same paths.
GlobalMatches ==
    ~dupped => \A i \in Slots : global[i] # NULL => alive[global[i]] /\ master_fd[global[i]] = i

\* Until dup2 has been used, a file that some process has open is neither freed
\* nor gone from the global table, whichever of the processes that share it, or
\* share its vnode, closes first.
NoDangling ==
    ~dupped => \A p \in Procs, i \in Slots :
        LET f == local[p][i]
        IN  f # NULL => alive[f] /\ master_fd[f] # FLOATING_FILE /\ global[master_fd[f]] = f

\* What the count of vnode v has to cover: the reference vfs_open returned for each
\* file that is listed and not about to be freed, one for each slot, and the one that
\* an open or a close in progress has yet to hand over or to give up.
Listed(v) ==
    {f \in Files :
        /\ alive[f] /\ file_vnode[f] = v /\ master_fd[f] # FLOATING_FILE
        /\ \A p \in Procs : pc[p] = "unlink" => cur[p] # f}

Opened(v) ==
    {s \in Procs \X Slots :
        local[s[1]][s[2]] # NULL /\ file_vnode[local[s[1]][s[2]]] = v}

Pending(v) ==
    {p \in Procs :
        /\ pc[p] \in {"add", "test", "decref", "last"}
        /\ cur[p] # NULL /\ file_vnode[cur[p]] = v}

\* Until dup2 has been used, vn_refcount covers all of these, so file_destroy's test
\* for 2 is true only for the last slot of the last file of the vnode, whatever
\* happens between the test and the decrement.
RefsCovered ==
    /\ TypeOK
    /\ ~dupped => \A v \in Vnodes :
        vn_refcount[v] >=
            Cardinality(Listed(v)) + Cardinality(Opened(v)) + Cardinality(Pending(v))

\* While a read or write of one process is in progress, no process that shares the
\* file moves seek_pos, frees the file or takes it for another path: what a read adds
\* to seek_pos it adds to the position it has read from.
PlaceIsKept ==
    \A p \in Procs : pc[p] \in {"read", "write"} =>
        /\ alive[cur[p]]
        /\ seek_pos[cur[p]] = pos[p]

(***************************************************************************)
(* What comments and manual pages say and the code does not do.            *)
(***************************************************************************)
\* A file that no process has open, and none is closing, is not in the global table.
ClosedFilesLeave ==
    \A i \in Slots : global[i] # NULL =>
        \/ \E p \in Procs, j \in Slots : local[p][j] = global[i]
        \/ \E p \in Procs : cur[p] = global[i]

\* Two calls of dup2 that run at the same time behave as one after the other: they
\* do not wait for each other's locks, one with the global lock for the lock of a
\* file, the other with that for the global lock.
Dup2sComplete ==
    ~ \E p, q \in Procs :
        /\ pc[p] = "dupc" /\ local[p][to[p]] # NULL
        /\ file_lock[local[p][to[p]]] = q
        /\ pc[q] = "dupg"
=============================================================================
