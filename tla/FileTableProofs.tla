-------------------------- MODULE FileTableProofs --------------------------
(***************************************************************************)
(* Proofs about the file tables, for any number of processes, files, paths *)
(* and descriptors.                                                        *)
(*                                                                         *)
(* LockInv holds in every behaviour: a process that works on a file has    *)
(* its lock and the file is allocated.  PlaceIsKept follows, because only  *)
(* a holder of the lock moves seek_pos.  TableInv holds until dup2 has     *)
(* changed slots: vn_refcount covers what needs the vnode (RefsOK), so the *)
(* test for 2 is true only when the caller is the last to have the file    *)
(* (LastFound), and it stays the last until it has freed it (LastIsAlone), *)
(* because a new reference is made from an old one.                        *)
(***************************************************************************)
EXTENDS FileTable, Facts

\* A process that works on a file has its lock, and the file is not freed: from the
\* test of file_destroy to its end, during a transfer, and in file_copy.
HasLock ==
    \A p \in Procs :
        pc[p] \in {"read", "write", "decref", "last", "unlink"} =>
            cur[p] \in Files /\ alive[cur[p]] /\ file_lock[cur[p]] = p

HasSource ==
    \A p \in Procs :
        pc[p] \in {"dupg", "dupc", "dupi"} =>
            /\ from[p] \in Slots /\ local[p][from[p]] \in Files
            /\ alive[local[p][from[p]]] /\ file_lock[local[p][from[p]]] = p

\* A process that forks has an embryo, and nobody else has the same one.
KidIsEmbryo == \A p \in Procs : pc[p] = "copy" => kid[p] \in Procs /\ pc[kid[p]] = "embryo"

OneParent == \A p, q \in Procs : pc[p] = "copy" /\ pc[q] = "copy" /\ kid[p] = kid[q] => p = q

\* Exactly the allocated files have a vnode.
AliveHasVnode == \A f \in Files : alive[f] <=> file_vnode[f] \in Vnodes

\* A process has a file in hand exactly in the calls that work on one.
CurIsFile ==
    \A p \in Procs : cur[p] \in Files <=>
        pc[p] \in {"add", "test", "decref", "last", "unlink", "read", "write"}

Dup2Marked == \A p \in Procs : pc[p] \in {"dupc", "dupi"} => dupped

LockInv ==
    /\ TypeOK /\ HasLock /\ HasSource /\ KidIsEmbryo /\ OneParent
    /\ AliveHasVnode /\ CurIsFile /\ Dup2Marked

\* The file in hand is allocated.
CurIsAlive == \A p \in Procs : cur[p] \in Files => alive[cur[p]]

\* An allocated file with a master_fd is in the global table there.
ListedIsThere ==
    \A f \in Files : alive[f] /\ master_fd[f] # FLOATING_FILE => global[master_fd[f]] = f

\* What a slot holds is allocated and has a master_fd.
SlotsAreListed ==
    \A p \in Procs, i \in Slots : local[p][i] \in Files =>
        alive[local[p][i]] /\ master_fd[local[p][i]] # FLOATING_FILE

\* A file without a master_fd is in the hands of one process, which may be adding it.
FloatingIsAlone ==
    /\ \A p \in Procs : pc[p] = "add" => master_fd[cur[p]] = FLOATING_FILE
    /\ \A p, q \in Procs :
        cur[p] \in Files /\ cur[p] = cur[q] /\ master_fd[cur[p]] = FLOATING_FILE => p = q

\* When file_destroy has found the last reference, no slot and no other call has the file.
LastIsAlone ==
    \A p \in Procs : pc[p] \in {"last", "unlink"} =>
        /\ \A q \in Procs, i \in Slots : local[q][i] # cur[p]
        /\ \A q \in Procs \ {p} : cur[q] # cur[p]

GlobalListsAlive ==
    \A i \in Slots : global[i] # NULL => alive[global[i]] /\ master_fd[global[i]] = i

TableOK ==
    /\ glock = NULL /\ CurIsAlive /\ GlobalListsAlive /\ ListedIsThere /\ SlotsAreListed
    /\ FloatingIsAlone /\ LastIsAlone

Refs(v) == Cardinality(Listed(v)) + Cardinality(Opened(v)) + Cardinality(Pending(v))

RefsOK == \A v \in Vnodes : vn_refcount[v] >= Refs(v)

TableInv == ~dupped => TableOK /\ RefsOK

(***************************************************************************)
(* The steps.  A step ends in a fault or is one of these, with the guards  *)
(* that WithTable and WithFile add.                                        *)
(***************************************************************************)
Failed == \E why \in Faults : Fails(why)

FreeToLock(f) == f # NULL /\ alive[f] /\ file_lock[f] = NULL

Adds(p) == pc[p] = "add" /\ glock = NULL /\ Add(p)
Closes(p) == pc[p] = "user" /\ \E i \in Slots : local[p][i] # NULL /\ CloseSlot(p, i)
Tests(p) == pc[p] = "test" /\ alive[cur[p]] /\ file_lock[cur[p]] = NULL /\ TestCount(p)
Starts(p) ==
    /\ pc[p] = "user"
    /\ \E i \in Slots, l \in {"read", "write"} :
        FreeToLock(local[p][i]) /\ Transfer(p, local[p][i], l)
Seeks(p) ==
    /\ pc[p] = "user"
    /\ \E i \in Slots, n \in 0 .. INT - 1 : FreeToLock(local[p][i]) /\ Seek(local[p][i], n)
Unlocks(p) ==
    /\ pc[p] = "user"
    /\ \E i \in Slots :
        local[p][i] # NULL /\ file_lock[local[p][i]] = p /\ SeekRelease(local[p][i])
Forks(p) == pc[p] = "user" /\ \E k \in Procs : pc[k] = "absent" /\ CopyStart(p, k)
Sticks(p) == pc[p] = "user" /\ CopyNoTable(p)
Skips(p) ==
    pc[p] = "copy" /\ from[p] < OPEN_MAX /\ NextSlot(p) /\ UNCHANGED <<local, vn_refcount>>
Copies(p) ==
    /\ pc[p] = "copy" /\ from[p] < OPEN_MAX
    /\ FreeToLock(local[p][from[p]]) /\ CopyFile(p, local[p][from[p]]) /\ NextSlot(p)
Dups(p) ==
    /\ pc[p] = "user"
    /\ \E o, n \in Slots : FreeToLock(local[p][o]) /\ Dup2Locked(p, o, n)
DupCloses(p) ==
    /\ pc[p] = "dupc"
    /\ Dup2Closed(p)
    /\ \/ UNCHANGED <<vn_refcount, fault>>
       \/ /\ FreeToLock(local[p][to[p]])
          /\ VOP_DECREF(file_vnode[local[p][to[p]]])

Does(p) ==
    \/ Open(p) \/ Adds(p) \/ Closes(p) \/ Tests(p) \/ Decref(p) \/ LastDecref(p) \/ Unlink(p)
    \/ Starts(p) \/ ReadDone(p) \/ ReadFails(p) \/ WriteDone(p) \/ Seeks(p) \/ Unlocks(p)
    \/ Forks(p) \/ Sticks(p) \/ Skips(p) \/ Copies(p) \/ CopyDone(p) \/ CopyDropped(p)
    \/ Dups(p) \/ Dup2Global(p) \/ DupCloses(p) \/ Dup2Install(p)

\* Every step stops the machine or is one of the cases that Does names.
LEMMA Steps == Next => Failed \/ \E p \in Procs : Does(p)
<1> SUFFICES ASSUME NEW p \in Procs, Step(p) PROVE Failed \/ Does(p)
  BY DEF Next
<1> USE DEF WithTable, WithFile, Faults, Failed
<1>1. CASE Open(p) \/ OpenMissing(p) \/ OpenNoMemory(p)
  BY <1>1, Zenon DEF OpenMissing, OpenNoMemory, Does
<1>2. CASE file_table_add(p)
  BY <1>2, Zenon DEF file_table_add, Adds, Does
<1>3. CASE Close(p)
  BY <1>3, Zenon DEF Close, Closes, Does
<1>4. CASE Test(p)
  BY <1>4, Zenon DEF Test, Tests, Does
<1>5. CASE sys_read(p) \/ sys_write(p)
  BY <1>5, Zenon DEF sys_read, sys_write, Start, Starts, FreeToLock, Does
<1>6. CASE Lseek(p)
  BY <1>6, Zenon DEF Lseek, Seeks, FreeToLock, Does
<1>7. CASE LseekStatFails(p)
  BY <1>7, Zenon DEF LseekStatFails, Unlocks, Does
<1>8. CASE ForkStart(p) \/ ForkNoTable(p)
  BY <1>8, Zenon DEF ForkStart, ForkNoTable, Forks, Sticks, Does
<1>9. CASE CopySlot(p)
  BY <1>9, Zenon DEF CopySlot, Skips, Copies, FreeToLock, Does
<1>10. CASE Dup2(p)
  BY <1>10, Zenon DEF Dup2, Dups, FreeToLock, Does
<1>11. CASE Dup2Close(p)
  BY <1>11, Zenon DEF Dup2Close, DupCloses, FreeToLock, Does
<1>12. CASE Decref(p) \/ LastDecref(p) \/ Unlink(p) \/ ReadDone(p) \/ ReadFails(p) \/ WriteDone(p)
            \/ CopyDone(p) \/ CopyDropped(p) \/ Dup2Global(p) \/ Dup2Install(p)
  BY <1>12, Zenon DEF Does
<1> QED BY <1>1, <1>2, <1>3, <1>4, <1>5, <1>6, <1>7, <1>8, <1>9, <1>10, <1>11, <1>12, Zenon DEF Step

(***************************************************************************)
(* Types.                                                                  *)
(***************************************************************************)
\* file_table_add finds an empty slot where there is one.
LEMMA LowestFree ==
    ASSUME NEW tab, Free(tab) # {}
    PROVE Lowest(Free(tab)) \in Slots /\ tab[Lowest(Free(tab))] = NULL
<1>1. Free(tab) \in SUBSET Nat
  BY FileAssumption DEF Free, Slots, MIN_FD
<1>2. \E i \in Free(tab) : \A j \in Free(tab) : i <= j
  BY <1>1, NatLeast
<1>3. Lowest(Free(tab)) \in Free(tab)
  BY <1>2 DEF Lowest
<1> QED BY <1>3 DEF Free

\* Taking a reference leaves the counts numbers.
LEMMA IncrefType ==
    ASSUME vn_refcount \in [Vnodes -> Nat], NEW v, VOP_INCREF(v)
    PROVE vn_refcount' \in [Vnodes -> Nat]
<1>1. CASE v \in Vnodes
  BY <1>1 DEF VOP_INCREF
<1>2. CASE v \notin Vnodes
  BY <1>2 DEF VOP_INCREF
<1> QED BY <1>1, <1>2

\* So does giving one back.
LEMMA DecrefType ==
    ASSUME vn_refcount \in [Vnodes -> Nat], NEW v \in Vnodes, VOP_DECREF(v)
    PROVE vn_refcount' \in [Vnodes -> Nat]
<1>1. CASE vn_refcount[v] > 0
  <2>1. vn_refcount[v] - 1 \in Nat
    BY <1>1
  <2> QED BY <1>1, <2>1 DEF VOP_DECREF
<1>2. CASE ~ (vn_refcount[v] > 0)
  BY <1>2 DEF VOP_DECREF
<1> QED BY <1>1, <1>2

\* A failed step changes nothing but fault.
LEMMA FailedType == ASSUME TypeOK, Failed PROVE TypeOK'
BY DEF TypeOK, Failed, Fails, tables, files, offsets

\* The beginning of a file is a position.
LEMMA ZeroPlace == 0 \in 0 .. INT - 1
BY FileAssumption

\* Every step keeps the types.
LEMMA TypeStep == LockInv /\ [Next]_vars => TypeOK'
<1> SUFFICES ASSUME LockInv, [Next]_vars PROVE TypeOK'
  OBVIOUS
<1>a. TypeOK
  BY DEF LockInv
<1> USE FileAssumption, <1>a DEF tables, files, offsets
<1>b. CASE UNCHANGED vars
  BY <1>b DEF vars, TypeOK
<1>c. ASSUME NEW p \in Procs, Adds(p) PROVE TypeOK'
  <2>1. CASE Free(local[p]) # {} /\ Free(global) # {} /\ AddFound(p, cur[p])
    <3>1. Lowest(Free(local[p])) \in Slots /\ Lowest(Free(global)) \in Slots
      BY <2>1, LowestFree
    <3>2. cur[p] \in Files
      BY <1>c DEF Adds, LockInv, CurIsFile
    <3>3. local' \in [Procs -> [Slots -> Files \cup {NULL}]]
      BY <2>1, <3>1, <3>2 DEF AddFound, TypeOK
    <3>4. global' \in [Slots -> Files \cup {NULL}]
      BY <2>1, <3>1, <3>2 DEF AddFound, TypeOK
    <3>5. master_fd' \in [Files -> Slots \cup {FLOATING_FILE}]
      BY <2>1, <3>1, <3>2 DEF AddFound, TypeOK
    <3>6. vn_refcount' \in [Vnodes -> Nat]
      BY <2>1, IncrefType DEF AddFound, TypeOK
    <3>7. pc' \in [Procs -> Labels] /\ cur' \in [Procs -> Files \cup {NULL}]
      BY <1>c, <2>1 DEF Adds, Add, Labels, TypeOK
    <3> QED BY <1>c, <3>3, <3>4, <3>5, <3>6, <3>7 DEF Adds, Add, TypeOK
  <2>2. CASE pc' = [pc EXCEPT ![p] = "test"] /\ UNCHANGED <<tables, master_fd, vn_refcount, cur>>
    <3>1. pc' \in [Procs -> Labels]
      BY <2>2 DEF Labels, TypeOK
    <3> QED BY <1>c, <2>2, <3>1 DEF Adds, Add, TypeOK
  <2> QED BY <1>c, <2>1, <2>2 DEF Adds, Add
<1>1. ASSUME NEW p \in Procs, Open(p) PROVE TypeOK'
  <2>1. PICK v \in Vnodes, f \in Files :
          /\ VOP_INCREF(v)
          /\ alive' = [alive EXCEPT ![f] = TRUE]
          /\ file_vnode' = [file_vnode EXCEPT ![f] = v]
          /\ master_fd' = [master_fd EXCEPT ![f] = FLOATING_FILE]
          /\ seek_pos' = [seek_pos EXCEPT ![f] = 0]
          /\ cur' = [cur EXCEPT ![p] = f]
    BY <1>1 DEF Open
  <2>2. alive' \in [Files -> BOOLEAN]
    BY <1>1, <2>1 DEF Open, VOP_INCREF, TypeOK
  <2>3. file_vnode' \in [Files -> Vnodes \cup {NULL}]
    BY <1>1, <2>1 DEF Open, VOP_INCREF, TypeOK
  <2>4. master_fd' \in [Files -> Slots \cup {FLOATING_FILE}]
    BY <1>1, <2>1 DEF Open, VOP_INCREF, TypeOK
  <2>5. seek_pos' \in [Files -> 0 .. INT - 1]
    BY <1>1, <2>1, ZeroPlace DEF Open, TypeOK
  <2>6. vn_refcount' \in [Vnodes -> Nat]
    BY <1>1, <2>1 DEF Open, VOP_INCREF, TypeOK
  <2>7. pc' \in [Procs -> Labels]
    BY <1>1, <2>1 DEF Open, VOP_INCREF, TypeOK, Labels
  <2>8. cur' \in [Procs -> Files \cup {NULL}]
    BY <1>1, <2>1 DEF Open, VOP_INCREF, TypeOK
  <2> QED BY <1>1, <2>1, <2>2, <2>3, <2>4, <2>5, <2>6, <2>7, <2>8 DEF Open, VOP_INCREF, TypeOK
<1>2. ASSUME NEW p \in Procs, Closes(p) PROVE TypeOK'
  <2>1. PICK i \in Slots : local[p][i] # NULL /\ CloseSlot(p, i)
    BY <1>2 DEF Closes
  <2>2. local' \in [Procs -> [Slots -> Files \cup {NULL}]]
    BY <1>2, <2>1 DEF CloseSlot, TypeOK
  <2>3. pc' \in [Procs -> Labels]
    BY <1>2, <2>1 DEF CloseSlot, TypeOK, Labels
  <2>4. cur' \in [Procs -> Files \cup {NULL}]
    BY <1>2, <2>1 DEF CloseSlot, TypeOK
  <2> QED BY <1>2, <2>1, <2>2, <2>3, <2>4 DEF CloseSlot, TypeOK
<1>3. ASSUME NEW p \in Procs, Tests(p) PROVE TypeOK'
  <2>1. file_lock' \in [Files -> Procs \cup {NULL}]
    BY <1>3 DEF Tests, TestCount, TypeOK
  <2>2. pc' \in [Procs -> Labels]
    BY <1>3 DEF Tests, TestCount, TypeOK, Labels
  <2> QED BY <1>3, <2>1, <2>2 DEF Tests, TestCount, TypeOK
<1>4. ASSUME NEW p \in Procs, Decref(p) PROVE TypeOK'
  <2>1. file_vnode[cur[p]] \in Vnodes
    BY <1>4 DEF Decref, LockInv, HasLock, AliveHasVnode
  <2>2. vn_refcount' \in [Vnodes -> Nat]
    BY <1>4, <2>1, DecrefType DEF Decref, TypeOK
  <2>3. file_lock' \in [Files -> Procs \cup {NULL}]
    BY <1>4, <2>1 DEF Decref, VOP_DECREF, TypeOK
  <2>4. pc' \in [Procs -> Labels]
    BY <1>4, <2>1 DEF Decref, VOP_DECREF, TypeOK, Labels
  <2>5. cur' \in [Procs -> Files \cup {NULL}]
    BY <1>4, <2>1 DEF Decref, VOP_DECREF, TypeOK
  <2>6. fault' \in Faults
    BY <1>4, <2>1 DEF Decref, VOP_DECREF, TypeOK, Faults
  <2> QED BY <1>4, <2>2, <2>3, <2>4, <2>5, <2>6 DEF Decref, VOP_DECREF, TypeOK
<1>5. ASSUME NEW p \in Procs, LastDecref(p) PROVE TypeOK'
  <2>1. file_vnode[cur[p]] \in Vnodes
    BY <1>5 DEF LastDecref, LockInv, HasLock, AliveHasVnode
  <2>2. vn_refcount' \in [Vnodes -> Nat]
    BY <1>5, <2>1, DecrefType DEF LastDecref, TypeOK
  <2>3. seek_pos' \in [Files -> 0 .. INT - 1]
    BY <1>5, <2>1, ZeroPlace DEF LastDecref, TypeOK
  <2>4. pc' \in [Procs -> Labels]
    BY <1>5, <2>1 DEF LastDecref, VOP_DECREF, TypeOK, Labels
  <2>5. fault' \in Faults
    BY <1>5, <2>1 DEF LastDecref, VOP_DECREF, TypeOK, Faults
  <2> QED BY <1>5, <2>2, <2>3, <2>4, <2>5 DEF LastDecref, VOP_DECREF, TypeOK
<1>6. ASSUME NEW p \in Procs, Unlink(p) PROVE TypeOK'
  <2>1. global' \in [Slots -> Files \cup {NULL}]
    BY <1>6 DEF Unlink, LeaveGlobal, TypeOK
  <2>2. alive' \in [Files -> BOOLEAN]
    BY <1>6 DEF Unlink, LeaveGlobal, TypeOK
  <2>3. file_vnode' \in [Files -> Vnodes \cup {NULL}]
    BY <1>6 DEF Unlink, LeaveGlobal, TypeOK
  <2>4. master_fd' \in [Files -> Slots \cup {FLOATING_FILE}]
    BY <1>6 DEF Unlink, LeaveGlobal, TypeOK
  <2>5. file_lock' \in [Files -> Procs \cup {NULL}]
    BY <1>6 DEF Unlink, LeaveGlobal, TypeOK
  <2>6. pc' \in [Procs -> Labels]
    BY <1>6 DEF Unlink, LeaveGlobal, TypeOK, Labels
  <2>7. cur' \in [Procs -> Files \cup {NULL}]
    BY <1>6 DEF Unlink, LeaveGlobal, TypeOK
  <2> QED BY <1>6, <2>1, <2>2, <2>3, <2>4, <2>5, <2>6, <2>7 DEF Unlink, LeaveGlobal, TypeOK
<1>7. ASSUME NEW p \in Procs, Starts(p) PROVE TypeOK'
  <2>1. PICK i \in Slots, l \in {"read", "write"} :
          FreeToLock(local[p][i]) /\ Transfer(p, local[p][i], l)
    BY <1>7 DEF Starts
  <2>2. local[p][i] \in Files
    BY <1>7, <2>1 DEF TypeOK, FreeToLock
  <2>3. file_lock' \in [Files -> Procs \cup {NULL}]
    BY <1>7, <2>1, <2>2 DEF Transfer, TypeOK
  <2>4. cur' \in [Procs -> Files \cup {NULL}]
    BY <1>7, <2>1, <2>2 DEF Transfer, TypeOK
  <2>5. pos' \in [Procs -> 0 .. INT - 1]
    BY <1>7, <2>1, <2>2 DEF Transfer, TypeOK
  <2>6. pc' \in [Procs -> Labels]
    BY <1>7, <2>1, <2>2 DEF Transfer, TypeOK, Labels
  <2> QED BY <1>7, <2>1, <2>3, <2>4, <2>5, <2>6 DEF Transfer, TypeOK
<1>8. ASSUME NEW p \in Procs, ReadDone(p) PROVE TypeOK'
  <2>1. PICK n \in 0 .. INT - 1 : seek_pos' = [seek_pos EXCEPT ![cur[p]] = (@ + n) % INT]
    BY <1>8 DEF ReadDone
  <2>2. cur[p] \in Files
    BY <1>8, <2>1 DEF ReadDone, LockInv, HasLock
  <2>3. (seek_pos[cur[p]] + n) % INT \in 0 .. INT - 1
    BY <1>8, <2>1, <2>2 DEF TypeOK
  <2>4. seek_pos' \in [Files -> 0 .. INT - 1]
    BY <1>8, <2>1, <2>2, <2>3 DEF ReadDone, Finish, TypeOK
  <2>5. file_lock' \in [Files -> Procs \cup {NULL}]
    BY <1>8, <2>1, <2>2, <2>3 DEF ReadDone, Finish, TypeOK
  <2>6. cur' \in [Procs -> Files \cup {NULL}]
    BY <1>8, <2>1, <2>2, <2>3 DEF ReadDone, Finish, TypeOK
  <2>7. pos' \in [Procs -> 0 .. INT - 1]
    BY <1>8, <2>1, <2>2, <2>3 DEF ReadDone, Finish, TypeOK
  <2>8. pc' \in [Procs -> Labels]
    BY <1>8, <2>1, <2>2, <2>3 DEF ReadDone, Finish, TypeOK, Labels
  <2> QED BY <1>8, <2>1, <2>4, <2>5, <2>6, <2>7, <2>8 DEF ReadDone, Finish, TypeOK
<1>9. ASSUME NEW p \in Procs, ReadFails(p) PROVE TypeOK'
  <2>1. cur' \in [Procs -> Files \cup {NULL}]
    BY <1>9 DEF ReadFails, Finish, TypeOK
  <2>2. pos' \in [Procs -> 0 .. INT - 1]
    BY <1>9 DEF ReadFails, Finish, TypeOK
  <2>3. pc' \in [Procs -> Labels]
    BY <1>9 DEF ReadFails, Finish, TypeOK, Labels
  <2> QED BY <1>9, <2>1, <2>2, <2>3 DEF ReadFails, Finish, TypeOK
<1>10. ASSUME NEW p \in Procs, WriteDone(p) PROVE TypeOK'
  <2>1. file_lock' \in [Files -> Procs \cup {NULL}]
    BY <1>10 DEF WriteDone, Finish, TypeOK
  <2>2. cur' \in [Procs -> Files \cup {NULL}]
    BY <1>10 DEF WriteDone, Finish, TypeOK
  <2>3. pos' \in [Procs -> 0 .. INT - 1]
    BY <1>10 DEF WriteDone, Finish, TypeOK
  <2>4. pc' \in [Procs -> Labels]
    BY <1>10 DEF WriteDone, Finish, TypeOK, Labels
  <2> QED BY <1>10, <2>1, <2>2, <2>3, <2>4 DEF WriteDone, Finish, TypeOK
<1>11. ASSUME NEW p \in Procs, Seeks(p) PROVE TypeOK'
  <2>1. PICK i \in Slots, n \in 0 .. INT - 1 : Seek(local[p][i], n)
    BY <1>11 DEF Seeks
  <2>2. seek_pos' \in [Files -> 0 .. INT - 1]
    BY <1>11, <2>1 DEF Seek, TypeOK
  <2> QED BY <1>11, <2>1, <2>2 DEF Seek, TypeOK
<1>12. ASSUME NEW p \in Procs, Unlocks(p) PROVE TypeOK'
  <2>1. PICK i \in Slots : SeekRelease(local[p][i])
    BY <1>12 DEF Unlocks
  <2>2. file_lock' \in [Files -> Procs \cup {NULL}]
    BY <1>12, <2>1 DEF SeekRelease, TypeOK
  <2> QED BY <1>12, <2>1, <2>2 DEF SeekRelease, TypeOK
<1>13. ASSUME NEW p \in Procs, Forks(p) PROVE TypeOK'
  <2>1. PICK k \in Procs : CopyStart(p, k)
    BY <1>13 DEF Forks
  <2>2. pc' \in [Procs -> Labels]
    BY <1>13, <2>1 DEF CopyStart, TypeOK, Labels
  <2>3. kid' \in [Procs -> Procs \cup {NULL}]
    BY <1>13, <2>1 DEF CopyStart, TypeOK
  <2>4. from' \in [Procs -> MIN_FD .. OPEN_MAX]
    BY <1>13, <2>1 DEF CopyStart, TypeOK, MIN_FD, Slots
  <2> QED BY <1>13, <2>1, <2>2, <2>3, <2>4 DEF CopyStart, TypeOK
<1>14. ASSUME NEW p \in Procs, Sticks(p) PROVE TypeOK'
  <2>1. stuck' \subseteq Procs
    BY <1>14 DEF Sticks, CopyNoTable, TypeOK
  <2> QED BY <1>14, <2>1 DEF Sticks, CopyNoTable, TypeOK
<1>15. ASSUME NEW p \in Procs, Skips(p) PROVE TypeOK'
  <2>1. from' \in [Procs -> MIN_FD .. OPEN_MAX]
    BY <1>15 DEF Skips, NextSlot, TypeOK, MIN_FD, Slots
  <2> QED BY <1>15, <2>1 DEF Skips, NextSlot, TypeOK
<1>16. ASSUME NEW p \in Procs, Copies(p) PROVE TypeOK'
  <2>1. from[p] \in Slots
    BY <1>16 DEF Copies, TypeOK, Slots
  <2>2. local[p][from[p]] \in Files
    BY <1>16, <2>1 DEF Copies, TypeOK, FreeToLock
  <2>3. local' \in [Procs -> [Slots -> Files \cup {NULL}]]
    BY <1>16, <2>1, <2>2 DEF Copies, CopyFile, VOP_INCREF, NextSlot, TypeOK
  <2>4. vn_refcount' \in [Vnodes -> Nat]
    BY <1>16, <2>1, <2>2, IncrefType DEF Copies, CopyFile, TypeOK
  <2>5. from' \in [Procs -> MIN_FD .. OPEN_MAX]
    <3>1. from' = [from EXCEPT ![p] = from[p] + 1]
      BY <1>16 DEF Copies, NextSlot
    <3>2. from[p] + 1 \in MIN_FD .. OPEN_MAX
      BY <1>16, <2>1, FileAssumption DEF Slots, MIN_FD
    <3> QED BY <3>1, <3>2 DEF TypeOK
  <2> QED BY <1>16, <2>3, <2>4, <2>5 DEF Copies, CopyFile, VOP_INCREF, NextSlot, TypeOK
<1>17. ASSUME NEW p \in Procs, CopyDone(p) PROVE TypeOK'
  <2>1. pc' \in [Procs -> Labels]
    BY <1>17 DEF CopyDone, TypeOK, Labels
  <2>2. kid' \in [Procs -> Procs \cup {NULL}]
    BY <1>17 DEF CopyDone, TypeOK
  <2>3. from' \in [Procs -> MIN_FD .. OPEN_MAX]
    BY <1>17 DEF CopyDone, TypeOK, MIN_FD, Slots
  <2> QED BY <1>17, <2>1, <2>2, <2>3 DEF CopyDone, TypeOK
<1>18. ASSUME NEW p \in Procs, CopyDropped(p) PROVE TypeOK'
  <2>1. local' \in [Procs -> [Slots -> Files \cup {NULL}]]
    BY <1>18 DEF CopyDropped, NoFiles, TypeOK
  <2>2. pc' \in [Procs -> Labels]
    BY <1>18 DEF CopyDropped, NoFiles, TypeOK, Labels
  <2>3. kid' \in [Procs -> Procs \cup {NULL}]
    BY <1>18 DEF CopyDropped, NoFiles, TypeOK
  <2>4. from' \in [Procs -> MIN_FD .. OPEN_MAX]
    BY <1>18 DEF CopyDropped, NoFiles, TypeOK, MIN_FD, Slots
  <2> QED BY <1>18, <2>1, <2>2, <2>3, <2>4 DEF CopyDropped, NoFiles, TypeOK
<1>19. ASSUME NEW p \in Procs, Dups(p) PROVE TypeOK'
  <2>1. PICK o, n \in Slots : FreeToLock(local[p][o]) /\ Dup2Locked(p, o, n)
    BY <1>19 DEF Dups
  <2>2. file_lock' \in [Files -> Procs \cup {NULL}]
    BY <1>19, <2>1 DEF Dup2Locked, TypeOK
  <2>3. from' \in [Procs -> MIN_FD .. OPEN_MAX]
    BY <1>19, <2>1 DEF Dup2Locked, TypeOK, MIN_FD, Slots
  <2>4. to' \in [Procs -> Slots]
    BY <1>19, <2>1 DEF Dup2Locked, TypeOK, MIN_FD, Slots
  <2>5. pc' \in [Procs -> Labels]
    BY <1>19, <2>1 DEF Dup2Locked, TypeOK, Labels
  <2> QED BY <1>19, <2>1, <2>2, <2>3, <2>4, <2>5 DEF Dup2Locked, TypeOK
<1>20. ASSUME NEW p \in Procs, Dup2Global(p) PROVE TypeOK'
  <2>1. glock' \in Procs \cup {NULL}
    BY <1>20 DEF Dup2Global, TypeOK
  <2>2. dupped' \in BOOLEAN
    BY <1>20 DEF Dup2Global, TypeOK
  <2>3. pc' \in [Procs -> Labels]
    BY <1>20 DEF Dup2Global, TypeOK, Labels
  <2> QED BY <1>20, <2>1, <2>2, <2>3 DEF Dup2Global, TypeOK
<1>21. ASSUME NEW p \in Procs, DupCloses(p) PROVE TypeOK'
  <2>1. UNCHANGED <<vn_refcount, fault>> \/ file_vnode[local[p][to[p]]] \in Vnodes
    BY <1>21 DEF DupCloses, FreeToLock, LockInv, TypeOK, AliveHasVnode
  <2>2. vn_refcount' \in [Vnodes -> Nat]
    BY <1>21, <2>1, DecrefType DEF DupCloses, TypeOK
  <2>3. fault' \in Faults
    BY <1>21, <2>1 DEF DupCloses, Dup2Closed, VOP_DECREF, TypeOK, Faults
  <2>4. pc' \in [Procs -> Labels]
    BY <1>21, <2>1 DEF DupCloses, Dup2Closed, VOP_DECREF, TypeOK, Labels
  <2> QED BY <1>21, <2>2, <2>3, <2>4 DEF DupCloses, Dup2Closed, VOP_DECREF, TypeOK
<1>22. ASSUME NEW p \in Procs, Dup2Install(p) PROVE TypeOK'
  <2>1. from[p] \in Slots
    BY <1>22 DEF Dup2Install, LockInv, HasSource
  <2>2. local' \in [Procs -> [Slots -> Files \cup {NULL}]]
    BY <1>22, <2>1 DEF Dup2Install, TypeOK
  <2>3. glock' \in Procs \cup {NULL}
    BY <1>22, <2>1 DEF Dup2Install, TypeOK
  <2>4. file_lock' \in [Files -> Procs \cup {NULL}]
    BY <1>22, <2>1 DEF Dup2Install, TypeOK
  <2>5. pc' \in [Procs -> Labels]
    BY <1>22, <2>1 DEF Dup2Install, TypeOK, Labels
  <2>6. from' \in [Procs -> MIN_FD .. OPEN_MAX]
    BY <1>22, <2>1 DEF Dup2Install, TypeOK, MIN_FD, Slots
  <2>7. to' \in [Procs -> Slots]
    BY <1>22, <2>1 DEF Dup2Install, TypeOK, MIN_FD, Slots
  <2> QED BY <1>22, <2>2, <2>3, <2>4, <2>5, <2>6, <2>7 DEF Dup2Install, TypeOK
<1> QED
  BY Steps, FailedType, <1>b, <1>c, <1>1, <1>2, <1>3, <1>4, <1>5, <1>6, <1>7, <1>8, <1>9, <1>10, <1>11, <1>12, <1>13, <1>14, <1>15, <1>16, <1>17, <1>18, <1>19, <1>20, <1>21, <1>22 DEF Does

(***************************************************************************)
(* Locks.                                                                  *)
(***************************************************************************)
LEMMA LockStep == LockInv /\ [Next]_vars => LockInv'
<1> SUFFICES ASSUME LockInv, [Next]_vars PROVE LockInv'
  OBVIOUS
<1>a. TypeOK /\ TypeOK'
  BY TypeStep DEF LockInv
<1> USE FileAssumption DEF LockInv, tables, files
<1>b. CASE UNCHANGED vars \/ Failed
  BY <1>a, <1>b DEF vars, Failed, Fails, HasLock, HasSource, KidIsEmbryo, OneParent,
     AliveHasVnode, CurIsFile, Dup2Marked
<1>1. ASSUME NEW p \in Procs, Open(p) PROVE LockInv'
  <2>1. HasLock' /\ HasSource' /\ AliveHasVnode' /\ CurIsFile'
    BY <1>1 DEF Open, TypeOK, HasLock, HasSource, KidIsEmbryo, AliveHasVnode, CurIsFile
  <2>2. KidIsEmbryo' /\ OneParent' /\ Dup2Marked'
    BY <1>1 DEF Open, TypeOK, KidIsEmbryo, OneParent, Dup2Marked
  <2> QED BY <1>a, <2>1, <2>2
<1>2. ASSUME NEW p \in Procs, Adds(p) PROVE LockInv'
  <2>0. /\ pc[p] = "add"
        /\ \/ pc' = [pc EXCEPT ![p] = "user"] /\ cur' = [cur EXCEPT ![p] = NULL]
           \/ pc' = [pc EXCEPT ![p] = "test"] /\ UNCHANGED cur
        /\ UNCHANGED <<alive, file_lock, kid, dupped>>
    BY <1>2 DEF Adds, Add
  <2>1. HasLock' /\ CurIsFile'
    BY <2>0 DEF TypeOK, HasLock, CurIsFile
  <2>2. HasSource'
    BY <1>2 DEF Adds, Add, AddFound, TypeOK, HasSource
  <2>3. AliveHasVnode'
    BY <1>2 DEF Adds, Add, AliveHasVnode
  <2>4. KidIsEmbryo'
    BY <2>0 DEF TypeOK, KidIsEmbryo
  <2>5. OneParent'
    <3>1. \A q \in Procs : pc'[q] = "copy" => pc[q] = "copy"
      BY <2>0 DEF TypeOK
    <3> QED BY <2>0, <3>1, Zenon DEF OneParent
  <2>6. Dup2Marked'
    BY <2>0 DEF TypeOK, Dup2Marked
  <2> QED BY <1>a, <2>1, <2>2, <2>3, <2>4, <2>5, <2>6
<1>3. ASSUME NEW p \in Procs, Closes(p) PROVE LockInv'
  <2>1. HasLock' /\ HasSource' /\ AliveHasVnode' /\ CurIsFile'
    BY <1>3 DEF Closes, CloseSlot, TypeOK, HasLock, HasSource, KidIsEmbryo, AliveHasVnode, CurIsFile
  <2>2. KidIsEmbryo' /\ OneParent' /\ Dup2Marked'
    BY <1>3 DEF Closes, CloseSlot, TypeOK, KidIsEmbryo, OneParent, Dup2Marked
  <2> QED BY <1>a, <2>1, <2>2
<1>4. ASSUME NEW p \in Procs, Tests(p) PROVE LockInv'
  <2>1. HasLock' /\ HasSource' /\ AliveHasVnode' /\ CurIsFile'
    BY <1>4 DEF Tests, TestCount, TypeOK, HasLock, HasSource, KidIsEmbryo, AliveHasVnode, CurIsFile
  <2>2. KidIsEmbryo' /\ OneParent' /\ Dup2Marked'
    BY <1>4 DEF Tests, TestCount, TypeOK, KidIsEmbryo, OneParent, Dup2Marked
  <2> QED BY <1>a, <2>1, <2>2
<1>5. ASSUME NEW p \in Procs, Decref(p) PROVE LockInv'
  <2>1. HasLock' /\ HasSource' /\ AliveHasVnode' /\ CurIsFile'
    BY <1>5 DEF Decref, TypeOK, HasLock, HasSource, KidIsEmbryo, AliveHasVnode, CurIsFile
  <2>2. KidIsEmbryo' /\ OneParent' /\ Dup2Marked'
    BY <1>5 DEF Decref, TypeOK, KidIsEmbryo, OneParent, Dup2Marked
  <2> QED BY <1>a, <2>1, <2>2
<1>6. ASSUME NEW p \in Procs, LastDecref(p) PROVE LockInv'
  <2>1. HasLock' /\ HasSource' /\ AliveHasVnode' /\ CurIsFile'
    BY <1>6 DEF LastDecref, TypeOK, HasLock, HasSource, KidIsEmbryo, AliveHasVnode, CurIsFile
  <2>2. KidIsEmbryo' /\ OneParent' /\ Dup2Marked'
    BY <1>6 DEF LastDecref, TypeOK, KidIsEmbryo, OneParent, Dup2Marked
  <2> QED BY <1>a, <2>1, <2>2
<1>7. ASSUME NEW p \in Procs, Unlink(p) PROVE LockInv'
  <2>1. HasLock' /\ HasSource' /\ AliveHasVnode' /\ CurIsFile'
    BY <1>7 DEF Unlink, TypeOK, HasLock, HasSource, KidIsEmbryo, AliveHasVnode, CurIsFile
  <2>2. KidIsEmbryo' /\ OneParent' /\ Dup2Marked'
    BY <1>7 DEF Unlink, TypeOK, KidIsEmbryo, OneParent, Dup2Marked
  <2> QED BY <1>a, <2>1, <2>2
<1>8. ASSUME NEW p \in Procs, Starts(p) PROVE LockInv'
  <2>1. HasLock' /\ HasSource' /\ AliveHasVnode' /\ CurIsFile'
    BY <1>8 DEF Starts, FreeToLock, Transfer, TypeOK, HasLock, HasSource, KidIsEmbryo, AliveHasVnode, CurIsFile
  <2>2. KidIsEmbryo' /\ OneParent' /\ Dup2Marked'
    BY <1>8 DEF Starts, FreeToLock, Transfer, TypeOK, KidIsEmbryo, OneParent, Dup2Marked
  <2> QED BY <1>a, <2>1, <2>2
<1>9. ASSUME NEW p \in Procs, ReadDone(p) PROVE LockInv'
  <2>1. HasLock' /\ HasSource' /\ AliveHasVnode' /\ CurIsFile'
    BY <1>9 DEF ReadDone, Finish, TypeOK, HasLock, HasSource, KidIsEmbryo, AliveHasVnode, CurIsFile
  <2>2. KidIsEmbryo' /\ OneParent' /\ Dup2Marked'
    BY <1>9 DEF ReadDone, Finish, TypeOK, KidIsEmbryo, OneParent, Dup2Marked
  <2> QED BY <1>a, <2>1, <2>2
<1>10. ASSUME NEW p \in Procs, ReadFails(p) PROVE LockInv'
  <2>1. HasLock' /\ HasSource' /\ AliveHasVnode' /\ CurIsFile'
    BY <1>10 DEF ReadFails, Finish, TypeOK, HasLock, HasSource, KidIsEmbryo, AliveHasVnode, CurIsFile
  <2>2. KidIsEmbryo' /\ OneParent' /\ Dup2Marked'
    BY <1>10 DEF ReadFails, Finish, TypeOK, KidIsEmbryo, OneParent, Dup2Marked
  <2> QED BY <1>a, <2>1, <2>2
<1>11. ASSUME NEW p \in Procs, WriteDone(p) PROVE LockInv'
  <2>1. HasLock' /\ HasSource' /\ AliveHasVnode' /\ CurIsFile'
    BY <1>11 DEF WriteDone, Finish, TypeOK, HasLock, HasSource, KidIsEmbryo, AliveHasVnode, CurIsFile
  <2>2. KidIsEmbryo' /\ OneParent' /\ Dup2Marked'
    BY <1>11 DEF WriteDone, Finish, TypeOK, KidIsEmbryo, OneParent, Dup2Marked
  <2> QED BY <1>a, <2>1, <2>2
<1>12. ASSUME NEW p \in Procs, Seeks(p) PROVE LockInv'
  <2>1. HasLock' /\ HasSource' /\ AliveHasVnode' /\ CurIsFile'
    BY <1>12 DEF Seeks, Seek, TypeOK, HasLock, HasSource, KidIsEmbryo, AliveHasVnode, CurIsFile
  <2>2. KidIsEmbryo' /\ OneParent' /\ Dup2Marked'
    BY <1>12 DEF Seeks, Seek, TypeOK, KidIsEmbryo, OneParent, Dup2Marked
  <2> QED BY <1>a, <2>1, <2>2
<1>13. ASSUME NEW p \in Procs, Unlocks(p) PROVE LockInv'
  <2>1. HasLock' /\ HasSource' /\ AliveHasVnode' /\ CurIsFile'
    BY <1>13 DEF Unlocks, SeekRelease, TypeOK, HasLock, HasSource, KidIsEmbryo, AliveHasVnode, CurIsFile
  <2>2. KidIsEmbryo' /\ OneParent' /\ Dup2Marked'
    BY <1>13 DEF Unlocks, SeekRelease, TypeOK, KidIsEmbryo, OneParent, Dup2Marked
  <2> QED BY <1>a, <2>1, <2>2
<1>14. ASSUME NEW p \in Procs, Forks(p) PROVE LockInv'
  <2>1. HasLock'
    BY <1>14 DEF Forks, CopyStart, TypeOK, HasLock, CurIsFile
  <2>2. HasSource'
    BY <1>14 DEF Forks, CopyStart, TypeOK, HasSource, HasLock, KidIsEmbryo
  <2>3. AliveHasVnode'
    BY <1>14 DEF Forks, CopyStart, TypeOK, AliveHasVnode, CurIsFile, HasLock
  <2>4. CurIsFile'
    <3>1. PICK k \in Procs : pc[k] = "absent" /\ CopyStart(p, k)
      BY <1>14 DEF Forks
    <3>2. cur' = cur /\ \A q \in Procs : pc'[q] = IF q = k THEN "embryo" ELSE IF q = p THEN "copy" ELSE pc[q]
      BY <3>1 DEF CopyStart, TypeOK
    <3>3. pc[p] = "user"
      BY <1>14 DEF Forks
    <3> QED BY <3>1, <3>2, <3>3 DEF CurIsFile
  <2>5. KidIsEmbryo' /\ OneParent' /\ Dup2Marked'
    BY <1>14 DEF Forks, CopyStart, TypeOK, KidIsEmbryo, OneParent, Dup2Marked
  <2> QED BY <1>a, <2>1, <2>2, <2>3, <2>4, <2>5
<1>15. ASSUME NEW p \in Procs, Sticks(p) PROVE LockInv'
  <2>1. HasLock' /\ HasSource' /\ AliveHasVnode' /\ CurIsFile'
    BY <1>15 DEF Sticks, CopyNoTable, TypeOK, HasLock, HasSource, KidIsEmbryo, AliveHasVnode, CurIsFile
  <2>2. KidIsEmbryo' /\ OneParent' /\ Dup2Marked'
    BY <1>15 DEF Sticks, CopyNoTable, TypeOK, KidIsEmbryo, OneParent, Dup2Marked
  <2> QED BY <1>a, <2>1, <2>2
<1>16. ASSUME NEW p \in Procs, Skips(p) PROVE LockInv'
  <2>1. HasLock' /\ HasSource' /\ AliveHasVnode' /\ CurIsFile'
    BY <1>16 DEF Skips, NextSlot, TypeOK, HasLock, HasSource, KidIsEmbryo, AliveHasVnode, CurIsFile
  <2>2. KidIsEmbryo' /\ OneParent' /\ Dup2Marked'
    BY <1>16 DEF Skips, NextSlot, TypeOK, KidIsEmbryo, OneParent, Dup2Marked
  <2> QED BY <1>a, <2>1, <2>2
<1>17. ASSUME NEW p \in Procs, Copies(p) PROVE LockInv'
  <2>1. HasLock'
    BY <1>17 DEF Copies, CopyFile, NextSlot, TypeOK, HasLock, CurIsFile
  <2>2. HasSource'
    <3>1. \A q \in Procs : q # kid[p] => local'[q] = local[q]
      BY <1>17 DEF Copies, CopyFile, TypeOK
    <3>2. \A q \in Procs : pc[q] \in {"dupg", "dupc", "dupi"} => q # kid[p] /\ q # p
      BY <1>17 DEF Copies, KidIsEmbryo
    <3>3. \A q \in Procs : q # p => from'[q] = from[q]
      BY <1>17 DEF Copies, NextSlot, TypeOK
    <3> QED BY <1>17, <3>1, <3>2, <3>3 DEF Copies, NextSlot, HasSource
  <2>3. AliveHasVnode'
    BY <1>17 DEF Copies, CopyFile, NextSlot, TypeOK, AliveHasVnode, CurIsFile, HasLock
  <2>4. CurIsFile'
    BY <1>17 DEF Copies, CopyFile, NextSlot, TypeOK, CurIsFile, HasLock, KidIsEmbryo
  <2>5. KidIsEmbryo' /\ OneParent' /\ Dup2Marked'
    BY <1>17 DEF Copies, CopyFile, NextSlot, TypeOK, KidIsEmbryo, OneParent, Dup2Marked
  <2> QED BY <1>a, <2>1, <2>2, <2>3, <2>4, <2>5
<1>18. ASSUME NEW p \in Procs, CopyDone(p) PROVE LockInv'
  <2>1. HasLock'
    BY <1>18 DEF CopyDone, TypeOK, HasLock, CurIsFile
  <2>2. HasSource'
    BY <1>18 DEF CopyDone, TypeOK, HasSource, HasLock, KidIsEmbryo
  <2>3. AliveHasVnode'
    BY <1>18 DEF CopyDone, TypeOK, AliveHasVnode, CurIsFile, HasLock
  <2>4. CurIsFile'
    BY <1>18 DEF CopyDone, TypeOK, CurIsFile, HasLock, KidIsEmbryo
  <2>5. KidIsEmbryo' /\ OneParent' /\ Dup2Marked'
    BY <1>18 DEF CopyDone, TypeOK, KidIsEmbryo, OneParent, Dup2Marked
  <2> QED BY <1>a, <2>1, <2>2, <2>3, <2>4, <2>5
<1>19. ASSUME NEW p \in Procs, CopyDropped(p) PROVE LockInv'
  <2>1. HasLock'
    BY <1>19 DEF CopyDropped, NoFiles, TypeOK, HasLock, CurIsFile
  <2>2. HasSource'
    BY <1>19 DEF CopyDropped, NoFiles, TypeOK, HasSource, HasLock, KidIsEmbryo
  <2>3. AliveHasVnode'
    BY <1>19 DEF CopyDropped, NoFiles, TypeOK, AliveHasVnode, CurIsFile, HasLock
  <2>4. CurIsFile'
    <3>1. kid[p] \in Procs /\ pc[kid[p]] = "embryo" /\ pc[p] = "copy"
      BY <1>19 DEF CopyDropped, KidIsEmbryo
    <3>2. cur' = cur /\ \A q \in Procs : pc'[q] = IF q = kid[p] THEN "absent" ELSE IF q = p THEN "user" ELSE pc[q]
      BY <1>19, <3>1 DEF CopyDropped, TypeOK
    <3> QED BY <3>1, <3>2 DEF CurIsFile
  <2>5. KidIsEmbryo' /\ OneParent' /\ Dup2Marked'
    BY <1>19 DEF CopyDropped, NoFiles, TypeOK, KidIsEmbryo, OneParent, Dup2Marked
  <2> QED BY <1>a, <2>1, <2>2, <2>3, <2>4, <2>5
<1>20. ASSUME NEW p \in Procs, Dups(p) PROVE LockInv'
  <2>1. HasLock' /\ HasSource' /\ AliveHasVnode' /\ CurIsFile'
    BY <1>20 DEF Dups, Dup2Locked, FreeToLock, TypeOK, HasLock, HasSource, KidIsEmbryo, AliveHasVnode, CurIsFile
  <2>2. KidIsEmbryo' /\ OneParent' /\ Dup2Marked'
    BY <1>20 DEF Dups, Dup2Locked, FreeToLock, TypeOK, KidIsEmbryo, OneParent, Dup2Marked
  <2> QED BY <1>a, <2>1, <2>2
<1>21. ASSUME NEW p \in Procs, Dup2Global(p) PROVE LockInv'
  <2>1. HasLock' /\ HasSource' /\ AliveHasVnode' /\ CurIsFile'
    BY <1>21 DEF Dup2Global, TypeOK, HasLock, HasSource, KidIsEmbryo, AliveHasVnode, CurIsFile
  <2>2. KidIsEmbryo' /\ OneParent' /\ Dup2Marked'
    BY <1>21 DEF Dup2Global, TypeOK, KidIsEmbryo, OneParent, Dup2Marked
  <2> QED BY <1>a, <2>1, <2>2
<1>22. ASSUME NEW p \in Procs, DupCloses(p) PROVE LockInv'
  <2>1. HasLock' /\ HasSource' /\ AliveHasVnode' /\ CurIsFile'
    BY <1>22 DEF DupCloses, Dup2Closed, TypeOK, HasLock, HasSource, KidIsEmbryo, AliveHasVnode, CurIsFile
  <2>2. KidIsEmbryo' /\ OneParent' /\ Dup2Marked'
    BY <1>22 DEF DupCloses, Dup2Closed, TypeOK, KidIsEmbryo, OneParent, Dup2Marked
  <2> QED BY <1>a, <2>1, <2>2
<1>23. ASSUME NEW p \in Procs, Dup2Install(p) PROVE LockInv'
  <2>1. HasLock' /\ HasSource' /\ AliveHasVnode' /\ CurIsFile'
    BY <1>23 DEF Dup2Install, TypeOK, HasLock, HasSource, KidIsEmbryo, AliveHasVnode, CurIsFile
  <2>2. KidIsEmbryo' /\ OneParent' /\ Dup2Marked'
    BY <1>23 DEF Dup2Install, TypeOK, KidIsEmbryo, OneParent, Dup2Marked
  <2> QED BY <1>a, <2>1, <2>2
<1> QED
  BY Steps, <1>b, <1>1, <1>2, <1>3, <1>4, <1>5, <1>6, <1>7, <1>8, <1>9, <1>10, <1>11, <1>12, <1>13, <1>14, <1>15, <1>16, <1>17, <1>18, <1>19, <1>20, <1>21, <1>22, <1>23 DEF Does

(***************************************************************************)
(* The place of a transfer.  seek_pos[f] is written by Open when f is not  *)
(* allocated, and else by a process that has the lock of f.                *)
(***************************************************************************)
LEMMA PlaceStep == LockInv /\ PlaceIsKept /\ [Next]_vars => PlaceIsKept'
<1> SUFFICES ASSUME LockInv, PlaceIsKept, [Next]_vars PROVE PlaceIsKept'
  OBVIOUS
<1> USE FileAssumption DEF LockInv, PlaceIsKept, HasLock, tables, files, offsets
<1>b. CASE UNCHANGED vars \/ Failed
  BY <1>b DEF vars, Failed, Fails
<1>1. ASSUME NEW p \in Procs, Open(p) PROVE PlaceIsKept'
  BY <1>1 DEF Open, TypeOK
<1>2. ASSUME NEW p \in Procs, Adds(p) PROVE PlaceIsKept'
  BY <1>2 DEF Adds, Add, TypeOK
<1>3. ASSUME NEW p \in Procs, Closes(p) PROVE PlaceIsKept'
  BY <1>3 DEF Closes, CloseSlot, TypeOK
<1>4. ASSUME NEW p \in Procs, Tests(p) PROVE PlaceIsKept'
  BY <1>4 DEF Tests, TestCount, TypeOK
<1>5. ASSUME NEW p \in Procs, Decref(p) PROVE PlaceIsKept'
  BY <1>5 DEF Decref, TypeOK
<1>6. ASSUME NEW p \in Procs, LastDecref(p) PROVE PlaceIsKept'
  BY <1>6 DEF LastDecref, TypeOK
<1>7. ASSUME NEW p \in Procs, Unlink(p) PROVE PlaceIsKept'
  BY <1>7 DEF Unlink, TypeOK
<1>8. ASSUME NEW p \in Procs, Starts(p) PROVE PlaceIsKept'
  BY <1>8 DEF Starts, FreeToLock, Transfer, TypeOK
<1>9. ASSUME NEW p \in Procs, ReadDone(p) PROVE PlaceIsKept'
  BY <1>9 DEF ReadDone, Finish, TypeOK
<1>10. ASSUME NEW p \in Procs, ReadFails(p) PROVE PlaceIsKept'
  BY <1>10 DEF ReadFails, Finish, TypeOK
<1>11. ASSUME NEW p \in Procs, WriteDone(p) PROVE PlaceIsKept'
  BY <1>11 DEF WriteDone, Finish, TypeOK
<1>12. ASSUME NEW p \in Procs, Seeks(p) PROVE PlaceIsKept'
  BY <1>12 DEF Seeks, Seek, FreeToLock, TypeOK
<1>13. ASSUME NEW p \in Procs, Unlocks(p) PROVE PlaceIsKept'
  BY <1>13 DEF Unlocks, SeekRelease, TypeOK
<1>14. ASSUME NEW p \in Procs, Forks(p) PROVE PlaceIsKept'
  BY <1>14 DEF Forks, CopyStart, TypeOK
<1>15. ASSUME NEW p \in Procs, Sticks(p) PROVE PlaceIsKept'
  BY <1>15 DEF Sticks, CopyNoTable, TypeOK
<1>16. ASSUME NEW p \in Procs, Skips(p) PROVE PlaceIsKept'
  BY <1>16 DEF Skips, NextSlot, TypeOK
<1>17. ASSUME NEW p \in Procs, Copies(p) PROVE PlaceIsKept'
  BY <1>17 DEF Copies, NextSlot, TypeOK
<1>18. ASSUME NEW p \in Procs, CopyDone(p) PROVE PlaceIsKept'
  BY <1>18 DEF CopyDone, TypeOK
<1>19. ASSUME NEW p \in Procs, CopyDropped(p) PROVE PlaceIsKept'
  BY <1>19 DEF CopyDropped, NoFiles, TypeOK
<1>20. ASSUME NEW p \in Procs, Dups(p) PROVE PlaceIsKept'
  BY <1>20 DEF Dups, Dup2Locked, FreeToLock, TypeOK
<1>21. ASSUME NEW p \in Procs, Dup2Global(p) PROVE PlaceIsKept'
  BY <1>21 DEF Dup2Global, TypeOK
<1>22. ASSUME NEW p \in Procs, DupCloses(p) PROVE PlaceIsKept'
  BY <1>22 DEF DupCloses, Dup2Closed, TypeOK
<1>23. ASSUME NEW p \in Procs, Dup2Install(p) PROVE PlaceIsKept'
  BY <1>23 DEF Dup2Install, TypeOK
<1> QED
  BY Steps, <1>b, <1>1, <1>2, <1>3, <1>4, <1>5, <1>6, <1>7, <1>8, <1>9, <1>10, <1>11, <1>12, <1>13, <1>14, <1>15, <1>16, <1>17, <1>18, <1>19, <1>20, <1>21, <1>22, <1>23 DEF Does

(***************************************************************************)
(* The tables, until dup2 has been used.                                   *)
(***************************************************************************)
LEMMA DuppedStays == [Next]_vars /\ dupped => dupped'
<1> SUFFICES ASSUME [Next]_vars, dupped PROVE dupped'
  OBVIOUS
<1>1. CASE UNCHANGED vars \/ Failed
  BY <1>1 DEF vars, Failed, Fails
<1>2. ASSUME NEW p \in Procs, Does(p) PROVE dupped'
  BY <1>2 DEF Does, Open, Adds, Add, Closes, CloseSlot, Tests, TestCount, Decref, LastDecref, Unlink,
     Starts, Transfer, ReadDone, ReadFails, WriteDone, Finish, Seeks, Seek, Unlocks, SeekRelease,
     Forks, CopyStart, Sticks, CopyNoTable, Skips, Copies, NextSlot, CopyDone, CopyDropped,
     Dups, Dup2Locked, Dup2Global, DupCloses, Dup2Closed, Dup2Install
<1> QED BY Steps, <1>1, <1>2

\* Steps that open no file, add or empty no slot, free nothing and end no test: a
\* process may let go of the file it had in hand.
Quiet ==
    /\ UNCHANGED <<tables, glock, alive, file_vnode, master_fd>>
    /\ \A q \in Procs :
        /\ cur'[q] = cur[q] \/ cur'[q] = NULL
        /\ pc'[q] \in {"add", "test", "decref", "last"} => pc[q] = pc'[q] /\ cur'[q] = cur[q]
        /\ pc'[q] = "unlink" => pc[q] \in {"last", "unlink"} /\ cur'[q] = cur[q]
        /\ pc[q] = "unlink" => pc'[q] = "unlink" /\ cur'[q] = cur[q]

\* A step that touches neither tables nor counts keeps what is known of the tables ...
LEMMA QuietTable == ASSUME LockInv, TableOK, Quiet PROVE TableOK'
<1> USE FileAssumption DEF TableOK, Quiet, tables
<1>1. CurIsAlive'
  BY DEF CurIsAlive
<1>2. GlobalListsAlive' /\ ListedIsThere' /\ SlotsAreListed'
  BY DEF GlobalListsAlive, ListedIsThere, SlotsAreListed
<1>3. FloatingIsAlone'
  BY DEF FloatingIsAlone
<1>4. LastIsAlone'
  BY DEF LastIsAlone, LockInv, HasLock
<1> QED BY <1>1, <1>2, <1>3, <1>4

(***************************************************************************)
(* Cardinalities.                                                          *)
(***************************************************************************)
LEMMA RefsFinite ==
    ASSUME NEW v
    PROVE /\ IsFiniteSet(Listed(v)) /\ IsFiniteSet(Opened(v)) /\ IsFiniteSet(Pending(v))
          /\ Cardinality(Listed(v)) \in Nat /\ Cardinality(Opened(v)) \in Nat
          /\ Cardinality(Pending(v)) \in Nat
<1>0. IsFiniteSet(Slots)
  BY FileAssumption, FS_Interval DEF Slots, MIN_FD
<1>1. IsFiniteSet(Procs \X Slots)
  BY <1>0, FileAssumption, FS_Product
<1>2. Listed(v) \subseteq Files /\ Opened(v) \subseteq Procs \X Slots /\ Pending(v) \subseteq Procs
  BY DEF Listed, Opened, Pending
<1>3. IsFiniteSet(Listed(v)) /\ IsFiniteSet(Opened(v)) /\ IsFiniteSet(Pending(v))
  BY <1>1, <1>2, FileAssumption, FS_Subset
<1> QED BY <1>3, FS_CardinalityType

\* The count changes by at least as much as what it has to cover.
LEMMA Balance ==
    ASSUME NEW v \in Vnodes, vn_refcount \in [Vnodes -> Nat], vn_refcount' \in [Vnodes -> Nat],
           vn_refcount[v] >= Refs(v),
           NEW a \in Int, NEW b \in Int, NEW c \in Int,
           Cardinality(Listed(v)') \in Nat, Cardinality(Listed(v)') <= Cardinality(Listed(v)) + a,
           Cardinality(Opened(v)') \in Nat, Cardinality(Opened(v)') <= Cardinality(Opened(v)) + b,
           Cardinality(Pending(v)') \in Nat, Cardinality(Pending(v)') <= Cardinality(Pending(v)) + c,
           vn_refcount'[v] >= vn_refcount[v] + a + b + c
    PROVE vn_refcount'[v] >= Refs(v)'
BY RefsFinite DEF Refs

\* Nothing new to cover and nothing given up.
LEMMA NothingNew ==
    ASSUME NEW v \in Vnodes, vn_refcount \in [Vnodes -> Nat], vn_refcount' \in [Vnodes -> Nat],
           vn_refcount[v] >= Refs(v), vn_refcount'[v] >= vn_refcount[v],
           Listed(v)' \subseteq Listed(v), Opened(v)' \subseteq Opened(v),
           Pending(v)' \subseteq Pending(v)
    PROVE vn_refcount'[v] >= Refs(v)'
<1>1. /\ Cardinality(Listed(v)') \in Nat /\ Cardinality(Listed(v)') <= Cardinality(Listed(v))
      /\ Cardinality(Opened(v)') \in Nat /\ Cardinality(Opened(v)') <= Cardinality(Opened(v))
      /\ Cardinality(Pending(v)') \in Nat /\ Cardinality(Pending(v)') <= Cardinality(Pending(v))
  BY RefsFinite, CardWithin
<1> QED BY <1>1, RefsFinite DEF Refs

\* ... and adds nothing that a reference must cover.
LEMMA QuietSets ==
    ASSUME Quiet, NEW v
    PROVE /\ Listed(v)' \subseteq Listed(v) /\ Opened(v)' \subseteq Opened(v)
          /\ Pending(v)' \subseteq Pending(v)
<1>1. Listed(v)' \subseteq Listed(v)
  BY DEF Listed, Quiet
<1>2. Opened(v)' \subseteq Opened(v)
  BY DEF Opened, Quiet, tables
<1>3. Pending(v)' \subseteq Pending(v)
  BY DEF Pending, Quiet
<1> QED BY <1>1, <1>2, <1>3

\* The test of file_destroy: when the count is 2, the file in hand has no slot left
\* and nobody else has it in hand.
LEMMA LastFound ==
    ASSUME LockInv, TableOK, RefsOK, NEW p \in Procs, Tests(p),
           vn_refcount[file_vnode[cur[p]]] = ONE_FILE_OWNER
    PROVE /\ \A q \in Procs, i \in Slots : local[q][i] # cur[p]
          /\ \A q \in Procs \ {p} : cur[q] # cur[p]
<1> DEFINE f == cur[p]  v == file_vnode[cur[p]]
<1>1. /\ pc[p] = "test" /\ f \in Files /\ alive[f] /\ file_lock[f] = NULL /\ v \in Vnodes
      /\ f # NULL /\ v # NULL
  BY FileAssumption DEF Tests, LockInv, CurIsFile, AliveHasVnode
<1>2. \A q \in Procs : cur[q] = f => pc[q] \in {"add", "test"}
  BY <1>1, FileAssumption DEF LockInv, HasLock, CurIsFile
<1>3. \A q \in Procs : cur[q] = f => q \in Pending(v)
  BY <1>1, <1>2 DEF Pending
<1>4. CASE master_fd[f] = FLOATING_FILE
  <2>1. \A q \in Procs, i \in Slots : local[q][i] # f
    BY <1>1, <1>4 DEF TableOK, SlotsAreListed
  <2>2. \A q \in Procs : cur[q] = f => q = p
    BY <1>1, <1>4 DEF TableOK, FloatingIsAlone
  <2> QED BY <2>1, <2>2
<1>5. CASE master_fd[f] # FLOATING_FILE
  <2>1. f \in Listed(v)
    BY <1>1, <1>2, <1>5 DEF Listed
  <2>2. Cardinality(Listed(v)) >= 1
    BY <2>1, RefsFinite, CardHasOne
  <2>3. Cardinality(Pending(v)) >= 1
    BY <1>3, RefsFinite, CardHasOne
  <2>4. vn_refcount[v] = 2 /\ vn_refcount[v] >= Refs(v)
    BY <1>1 DEF ONE_FILE_OWNER, RefsOK
  <2>5. Cardinality(Opened(v)) = 0 /\ Cardinality(Pending(v)) <= 1
    BY <2>2, <2>3, <2>4, RefsFinite DEF Refs
  <2>6. Opened(v) = {}
    BY <2>5, RefsFinite, FS_EmptySet
  <2>7. ASSUME NEW q \in Procs, NEW i \in Slots, local[q][i] = f PROVE FALSE
    <3>1. <<q, i>> \in Opened(v)
      BY <1>1, <2>7 DEF Opened
    <3> QED BY <2>6, <3>1
  <2>8. \A q \in Procs : cur[q] = f => q = p
    BY <1>3, <2>5, RefsFinite, CardAtMostOne
  <2> QED BY <2>7, <2>8
<1> QED BY <1>4, <1>5

(***************************************************************************)
(* One lemma for each kind of step that the tables notice.                 *)
(***************************************************************************)
LEMMA QuietStep ==
    ASSUME LockInv, LockInv', TableOK, RefsOK, Quiet, UNCHANGED vn_refcount
    PROVE TableOK' /\ RefsOK'
<1>1. ASSUME NEW v \in Vnodes PROVE vn_refcount'[v] >= Refs(v)'
  <2>1. vn_refcount[v] >= Refs(v) /\ vn_refcount'[v] >= vn_refcount[v]
    BY DEF RefsOK, LockInv, TypeOK
  <2> QED BY <2>1, QuietSets, NothingNew DEF LockInv, TypeOK
<1> QED BY <1>1, QuietTable DEF RefsOK

\* Giving a reference back takes one off one count at most.
LEMMA DecrefCount ==
    ASSUME vn_refcount \in [Vnodes -> Nat], NEW u \in Vnodes, VOP_DECREF(u), NEW v \in Vnodes
    PROVE /\ vn_refcount'[v] >= vn_refcount[v] - 1
          /\ v # u => vn_refcount'[v] >= vn_refcount[v]
<1>0. vn_refcount[u] \in Nat /\ vn_refcount[v] \in Nat
  OBVIOUS
<1>1. CASE vn_refcount[u] > 0
  <2>1. vn_refcount' = [vn_refcount EXCEPT ![u] = vn_refcount[u] - 1]
    BY <1>1 DEF VOP_DECREF
  <2>2. CASE v = u
    BY <1>0, <2>1, <2>2
  <2>3. CASE v # u
    BY <1>0, <2>1, <2>3
  <2> QED BY <2>2, <2>3
<1>2. CASE ~ (vn_refcount[u] > 0)
  <2>1. vn_refcount' = vn_refcount
    BY <1>2 DEF VOP_DECREF
  <2> QED BY <1>0, <2>1
<1> QED BY <1>1, <1>2

\* file_destroy gives up one reference: the one of the close in progress.
LEMMA DecrefStep ==
    ASSUME LockInv, LockInv', TableOK, RefsOK, NEW p \in Procs, Decref(p) \/ LastDecref(p)
    PROVE TableOK' /\ RefsOK'
<1> DEFINE u == file_vnode[cur[p]]
<1>1. Quiet
  BY FileAssumption DEF Quiet, Decref, LastDecref, LockInv, TypeOK, HasLock, files, tables
<1>2. u \in Vnodes /\ p \in Pending(u) /\ cur[p] # NULL
  BY FileAssumption DEF Decref, LastDecref, LockInv, HasLock, AliveHasVnode, Pending
<1>3. \A v : p \notin Pending(v)'
  BY DEF Decref, LastDecref, LockInv, TypeOK, Pending
<1>4. ASSUME NEW v \in Vnodes PROVE vn_refcount'[v] >= Refs(v)'
  <2>1. vn_refcount[v] >= Refs(v)
    BY DEF RefsOK
  <2>2. CASE v = u
    <3>1. vn_refcount'[v] >= vn_refcount[v] - 1
      BY <1>2, <2>2, DecrefCount DEF Decref, LastDecref, LockInv, TypeOK
    <3>2. Pending(v)' \subseteq Pending(v) \ {p}
      BY <1>1, <1>3, QuietSets
    <3>3. /\ Cardinality(Pending(v)') \in Nat
          /\ Cardinality(Pending(v)') <= Cardinality(Pending(v)) - 1
      BY <1>2, <2>2, <3>2, RefsFinite, CardShrinks, FS_CardinalityType
    <3>4. /\ Cardinality(Listed(v)') \in Nat /\ Cardinality(Listed(v)') <= Cardinality(Listed(v))
          /\ Cardinality(Opened(v)') \in Nat /\ Cardinality(Opened(v)') <= Cardinality(Opened(v))
      BY <1>1, QuietSets, RefsFinite, CardWithin
    <3>5. vn_refcount[v] \in Nat /\ vn_refcount'[v] \in Nat
      BY DEF LockInv, TypeOK
    <3> QED BY <2>1, <3>1, <3>3, <3>4, <3>5, RefsFinite DEF Refs
  <2>3. CASE v # u
    <3>1. vn_refcount'[v] >= vn_refcount[v]
      BY <1>2, <2>3, DecrefCount DEF Decref, LastDecref, LockInv, TypeOK
    <3> QED BY <1>1, <2>1, <3>1, QuietSets, NothingNew DEF LockInv, TypeOK
  <2> QED BY <2>2, <2>3
<1> QED BY <1>1, <1>4, QuietTable DEF RefsOK

\* The open that has its vnode and its struct file keeps the tables and the counts right.
LEMMA OpenStep ==
    ASSUME LockInv, LockInv', TableOK, RefsOK, NEW p \in Procs, Open(p)
    PROVE TableOK' /\ RefsOK'
<1>1. PICK u \in Vnodes, f \in Files :
        /\ ~alive[f]
        /\ VOP_INCREF(u)
        /\ alive' = [alive EXCEPT ![f] = TRUE]
        /\ file_vnode' = [file_vnode EXCEPT ![f] = u]
        /\ master_fd' = [master_fd EXCEPT ![f] = FLOATING_FILE]
        /\ cur' = [cur EXCEPT ![p] = f]
  BY DEF Open
<1>2. /\ pc[p] = "user" /\ pc' = [pc EXCEPT ![p] = "add"]
      /\ UNCHANGED <<tables, glock>>
  BY DEF Open
<1> USE FileAssumption DEF LockInv, TypeOK, TableOK, tables
<1>3. /\ \A q \in Procs, i \in Slots : local[q][i] # f
      /\ \A q \in Procs : cur[q] # f
      /\ \A i \in Slots : global[i] # f
  BY <1>1 DEF SlotsAreListed, CurIsAlive, GlobalListsAlive
<1>4. CurIsAlive' /\ GlobalListsAlive' /\ ListedIsThere' /\ SlotsAreListed'
  BY <1>1, <1>2, <1>3 DEF CurIsAlive, GlobalListsAlive, ListedIsThere, SlotsAreListed
<1>5. FloatingIsAlone'
  BY <1>1, <1>2, <1>3 DEF FloatingIsAlone, CurIsFile
<1>6. LastIsAlone'
  BY <1>1, <1>2, <1>3 DEF LastIsAlone, HasLock
<1>7. ASSUME NEW v \in Vnodes PROVE vn_refcount'[v] >= Refs(v)'
  <2>1. vn_refcount[v] >= Refs(v)
    BY DEF RefsOK
  <2>2. Listed(v)' \subseteq Listed(v)
    BY <1>1, <1>2, <1>3 DEF Listed
  <2>3. Opened(v)' \subseteq Opened(v)
    BY <1>1, <1>2, <1>3 DEF Opened
  <2>4. CASE v = u
    <3>1. Pending(v)' \subseteq Pending(v) \cup {p}
      BY <1>1, <1>2, <1>3 DEF Pending
    <3>2. /\ Cardinality(Pending(v)') \in Nat
          /\ Cardinality(Pending(v)') <= Cardinality(Pending(v)) + 1
      BY <3>1, RefsFinite, CardGrows, FS_CardinalityType
    <3>3. /\ Cardinality(Listed(v)') \in Nat /\ Cardinality(Listed(v)') <= Cardinality(Listed(v))
          /\ Cardinality(Opened(v)') \in Nat /\ Cardinality(Opened(v)') <= Cardinality(Opened(v))
      BY <2>2, <2>3, RefsFinite, CardWithin
    <3>4. vn_refcount'[v] = vn_refcount[v] + 1
      BY <1>1, <2>4 DEF VOP_INCREF
    <3>5. vn_refcount[v] \in Nat
      OBVIOUS
    <3> QED BY <2>1, <3>2, <3>3, <3>4, <3>5, RefsFinite DEF Refs
  <2>5. CASE v # u
    <3>1. Pending(v)' \subseteq Pending(v)
      BY <1>1, <1>2, <1>3, <2>5 DEF Pending
    <3>2. vn_refcount'[v] >= vn_refcount[v]
      BY <1>1, <2>5 DEF VOP_INCREF
    <3> QED BY <2>1, <2>2, <2>3, <3>1, <3>2, NothingNew
  <2> QED BY <2>4, <2>5
<1> QED BY <1>2, <1>4, <1>5, <1>6, <1>7 DEF RefsOK

\* The descriptor of a file that is in no table is no slot of one.
LEMMA FloatingIsNoSlot == \A i \in Slots : i # FLOATING_FILE
BY FileAssumption DEF Slots, MIN_FD, FLOATING_FILE

\* file_table_add: a reference is added for the slot; the one that the open had
\* pending is now the one of the listed file.
LEMMA AddStep ==
    ASSUME LockInv, LockInv', TableOK, RefsOK, NEW p \in Procs, Adds(p)
    PROVE TableOK' /\ RefsOK'
<1> DEFINE f == cur[p]  u == file_vnode[f]
           i == Lowest(Free(local[p]))  g == Lowest(Free(global))
<1>1. pc[p] = "add" /\ UNCHANGED <<glock, alive, file_vnode>>
  BY DEF Adds, Add
<1>2. /\ f \in Files /\ alive[f] /\ u \in Vnodes /\ master_fd[f] = FLOATING_FILE
      /\ \A q \in Procs : cur[q] = f => q = p
      /\ \A q \in Procs, j \in Slots : local[q][j] # f
      /\ \A j \in Slots : global[j] # f
  <2>1. f \in Files /\ f # NULL
    BY <1>1, FileAssumption DEF LockInv, CurIsFile
  <2>2. alive[f] /\ u \in Vnodes
    BY <2>1 DEF LockInv, AliveHasVnode, TableOK, CurIsAlive
  <2>3. master_fd[f] = FLOATING_FILE /\ \A q \in Procs : cur[q] = f => q = p
    BY <1>1, <2>1 DEF TableOK, FloatingIsAlone
  <2>4. \A q \in Procs, j \in Slots : local[q][j] # f
    BY <2>1, <2>3 DEF TableOK, SlotsAreListed
  <2>6. \A j \in Slots : global[j] # f
    BY <2>1, <2>3, FloatingIsNoSlot DEF TableOK, GlobalListsAlive
  <2> QED BY <2>1, <2>2, <2>3, <2>4, <2>6
<1>3. CASE /\ pc' = [pc EXCEPT ![p] = "test"]
           /\ UNCHANGED <<tables, master_fd, vn_refcount, cur>>
  <2> USE FileAssumption DEF LockInv, TypeOK, TableOK, tables
  <2>1. CurIsAlive' /\ GlobalListsAlive' /\ ListedIsThere' /\ SlotsAreListed'
    BY <1>1, <1>3 DEF CurIsAlive, GlobalListsAlive, ListedIsThere, SlotsAreListed
  <2>2. FloatingIsAlone' /\ LastIsAlone'
    BY <1>1, <1>3 DEF FloatingIsAlone, LastIsAlone
  <2>3. ASSUME NEW v \in Vnodes PROVE vn_refcount'[v] >= Refs(v)'
    <3>1. /\ Listed(v)' \subseteq Listed(v) /\ Opened(v)' \subseteq Opened(v)
          /\ Pending(v)' \subseteq Pending(v)
      BY <1>1, <1>3 DEF Listed, Opened, Pending
    <3>2. vn_refcount[v] >= Refs(v) /\ vn_refcount'[v] >= vn_refcount[v]
      BY <1>3 DEF RefsOK
    <3> QED BY <3>1, <3>2, NothingNew
  <2> QED BY <1>1, <2>1, <2>2, <2>3 DEF RefsOK
<1>4. CASE /\ Free(local[p]) # {} /\ Free(global) # {} /\ AddFound(p, f)
           /\ pc' = [pc EXCEPT ![p] = "user"]
           /\ cur' = [cur EXCEPT ![p] = NULL]
  <2>1. /\ i \in Slots /\ local[p][i] = NULL
        /\ g \in Slots /\ global[g] = NULL /\ g # FLOATING_FILE
    BY <1>4, LowestFree, FileAssumption DEF Slots, MIN_FD, FLOATING_FILE
  <2>2. /\ local' = [local EXCEPT ![p][i] = f]
        /\ global' = [global EXCEPT ![g] = f]
        /\ master_fd' = [master_fd EXCEPT ![f] = g]
        /\ VOP_INCREF(u)
    BY <1>4 DEF AddFound
  <2> HIDE DEF i, g
  <2> USE FileAssumption DEF LockInv, TypeOK, TableOK
  <2>3. CurIsAlive'
    BY <1>1, <1>4 DEF CurIsAlive
  <2>4. GlobalListsAlive'
    BY <1>1, <1>2, <2>1, <2>2 DEF GlobalListsAlive
  <2>5. ListedIsThere'
    BY <1>1, <1>2, <2>1, <2>2 DEF ListedIsThere
  <2>6. SlotsAreListed'
    BY <1>1, <1>2, <2>1, <2>2 DEF SlotsAreListed
  <2>7. FloatingIsAlone'
    BY <1>1, <1>2, <1>4, <2>1, <2>2 DEF FloatingIsAlone, CurIsFile
  <2>8. LastIsAlone'
    BY <1>1, <1>2, <1>4, <2>1, <2>2 DEF LastIsAlone, HasLock
  <2>a. \A q \in Procs : pc[q] = "unlink" => pc'[q] = "unlink" /\ cur'[q] = cur[q]
    BY <1>1, <1>4
  <2>b. ASSUME NEW v \in Vnodes, NEW h \in Listed(v)', h # f PROVE h \in Listed(v)
    <3>1. h \in Files /\ alive[h] /\ file_vnode[h] = v /\ master_fd[h] # FLOATING_FILE
      BY <1>1, <1>2, <2>1, <2>2, <2>b DEF Listed
    <3>2. \A q \in Procs : pc[q] = "unlink" => cur[q] # h
      BY <2>a, <2>b DEF Listed
    <3> QED BY <3>1, <3>2 DEF Listed
  <2>9. ASSUME NEW v \in Vnodes PROVE vn_refcount'[v] >= Refs(v)'
    <3>1. vn_refcount[v] >= Refs(v) /\ vn_refcount[v] \in Nat
      BY DEF RefsOK
    <3>2. CASE v = u
      <4>1. Listed(v)' \subseteq Listed(v) \cup {f}
        BY <2>b
      <4>2. Opened(v)' \subseteq Opened(v) \cup {<<p, i>>}
        BY <1>1, <1>2, <2>1, <2>2 DEF Opened
      <4>3. Pending(v)' \subseteq Pending(v) \ {p} /\ p \in Pending(v)
        BY <1>1, <1>2, <1>4, <3>2 DEF Pending
      <4>4. /\ Cardinality(Listed(v)') \in Nat /\ Cardinality(Listed(v)') <= Cardinality(Listed(v)) + 1
            /\ Cardinality(Opened(v)') \in Nat /\ Cardinality(Opened(v)') <= Cardinality(Opened(v)) + 1
        <5>1. IsFiniteSet(Listed(v)) /\ IsFiniteSet(Opened(v))
          BY RefsFinite
        <5>2. Cardinality(Listed(v)') \in Nat /\ Cardinality(Listed(v)') <= Cardinality(Listed(v)) + 1
          BY <4>1, <5>1, CardGrows, FS_CardinalityType
        <5>3. Cardinality(Opened(v)') \in Nat /\ Cardinality(Opened(v)') <= Cardinality(Opened(v)) + 1
          BY <4>2, <5>1, CardGrows, FS_CardinalityType
        <5> QED BY <5>2, <5>3
      <4>5. Cardinality(Pending(v)') \in Nat /\ Cardinality(Pending(v)') <= Cardinality(Pending(v)) - 1
        BY <4>3, RefsFinite, CardShrinks, FS_CardinalityType
      <4>6. vn_refcount'[v] = vn_refcount[v] + 1
        BY <2>2, <3>2 DEF VOP_INCREF
      <4> QED BY <3>1, <4>4, <4>5, <4>6, RefsFinite DEF Refs
    <3>3. CASE v # u
      <4>1. Listed(v)' \subseteq Listed(v)
        <5>1. f \notin Listed(v)'
          BY <1>1, <1>2, <3>3 DEF Listed
        <5> QED BY <2>b, <5>1
      <4>2. Opened(v)' \subseteq Opened(v)
        BY <1>1, <1>2, <2>1, <2>2, <3>3 DEF Opened
      <4>3. Pending(v)' \subseteq Pending(v)
        BY <1>1, <1>2, <1>4 DEF Pending
      <4>4. vn_refcount'[v] >= vn_refcount[v]
        BY <2>2, <3>3 DEF VOP_INCREF
      <4> QED BY <3>1, <4>1, <4>2, <4>3, <4>4, NothingNew
    <3> QED BY <3>2, <3>3
  <2> QED BY <1>1, <2>3, <2>4, <2>5, <2>6, <2>7, <2>8, <2>9 DEF RefsOK
<1> QED BY <1>3, <1>4 DEF Adds, Add

\* sys_close turns the reference of the slot into the one of the close.
LEMMA CloseStep ==
    ASSUME LockInv, LockInv', TableOK, RefsOK, NEW p \in Procs, Closes(p)
    PROVE TableOK' /\ RefsOK'
<1>1. PICK i \in Slots : local[p][i] # NULL /\ CloseSlot(p, i)
  BY DEF Closes
<1> DEFINE f == local[p][i]  u == file_vnode[f]
<1>2. /\ pc[p] = "user"
      /\ local' = [local EXCEPT ![p][i] = NULL]
      /\ cur' = [cur EXCEPT ![p] = f]
      /\ pc' = [pc EXCEPT ![p] = "test"]
      /\ UNCHANGED <<global, glock, alive, file_vnode, master_fd, vn_refcount>>
  BY <1>1 DEF Closes, CloseSlot, files
<1> USE FileAssumption DEF LockInv, TypeOK, TableOK
<1>3. f \in Files /\ alive[f] /\ master_fd[f] # FLOATING_FILE /\ u \in Vnodes
  BY <1>1 DEF SlotsAreListed, AliveHasVnode
<1>4. CurIsAlive' /\ GlobalListsAlive' /\ ListedIsThere' /\ SlotsAreListed'
  BY <1>2, <1>3 DEF CurIsAlive, GlobalListsAlive, ListedIsThere, SlotsAreListed
<1>5. FloatingIsAlone'
  BY <1>2, <1>3 DEF FloatingIsAlone
<1>6. LastIsAlone'
  BY <1>1, <1>2, <1>3 DEF LastIsAlone, HasLock
<1>7. ASSUME NEW v \in Vnodes PROVE vn_refcount'[v] >= Refs(v)'
  <2>1. vn_refcount[v] >= Refs(v) /\ vn_refcount'[v] = vn_refcount[v] /\ vn_refcount[v] \in Nat
    BY <1>2 DEF RefsOK
  <2>2. Listed(v)' \subseteq Listed(v)
    <3>1. \A q \in Procs : pc[q] = "unlink" => pc'[q] = "unlink" /\ cur'[q] = cur[q]
      BY <1>2
    <3> QED BY <1>2, <3>1 DEF Listed
  <2>3. CASE v = u
    <3>1. Opened(v)' \subseteq Opened(v) \ {<<p, i>>} /\ <<p, i>> \in Opened(v)
      BY <1>1, <1>2, <2>3 DEF Opened
    <3>2. Pending(v)' \subseteq Pending(v) \cup {p}
      BY <1>2 DEF Pending
    <3>3. /\ Cardinality(Opened(v)') \in Nat
          /\ Cardinality(Opened(v)') <= Cardinality(Opened(v)) - 1
      BY <3>1, RefsFinite, CardShrinks, FS_CardinalityType
    <3>4. /\ Cardinality(Pending(v)') \in Nat
          /\ Cardinality(Pending(v)') <= Cardinality(Pending(v)) + 1
      BY <3>2, RefsFinite, CardGrows, FS_CardinalityType
    <3>5. Cardinality(Listed(v)') \in Nat /\ Cardinality(Listed(v)') <= Cardinality(Listed(v))
      BY <2>2, RefsFinite, CardWithin
    <3> QED BY <2>1, <3>3, <3>4, <3>5, RefsFinite DEF Refs
  <2>4. CASE v # u
    <3>1. Opened(v)' \subseteq Opened(v)
      BY <1>2 DEF Opened
    <3>2. Pending(v)' \subseteq Pending(v)
      BY <1>2, <1>3, <2>4 DEF Pending
    <3>3. vn_refcount'[v] >= vn_refcount[v]
      BY <2>1
    <3> QED BY <2>1, <2>2, <3>1, <3>2, <3>3, NothingNew
  <2> QED BY <2>3, <2>4
<1> QED BY <1>2, <1>4, <1>5, <1>6, <1>7 DEF RefsOK

\* The test of file_destroy for the last owner.
LEMMA TestStep ==
    ASSUME LockInv, LockInv', TableOK, RefsOK, NEW p \in Procs, Tests(p)
    PROVE TableOK' /\ RefsOK'
<1>1. /\ pc[p] = "test" /\ cur' = cur /\ pc' = [pc EXCEPT ![p] = pc'[p]]
      /\ pc'[p] = IF vn_refcount[file_vnode[cur[p]]] = ONE_FILE_OWNER THEN "last" ELSE "decref"
      /\ UNCHANGED <<tables, glock, alive, file_vnode, master_fd, vn_refcount>>
  BY DEF Tests, TestCount, files, LockInv, TypeOK
<1> USE FileAssumption DEF LockInv, TypeOK, TableOK, tables
<1>2. CurIsAlive' /\ GlobalListsAlive' /\ ListedIsThere' /\ SlotsAreListed'
  BY <1>1 DEF CurIsAlive, GlobalListsAlive, ListedIsThere, SlotsAreListed
<1>3. FloatingIsAlone'
  BY <1>1 DEF FloatingIsAlone
<1>4. LastIsAlone'
  <2>1. ASSUME NEW q \in Procs, pc'[q] \in {"last", "unlink"}
        PROVE /\ \A r \in Procs, i \in Slots : local[r][i] # cur[q]
              /\ \A r \in Procs \ {q} : cur[r] # cur[q]
    <3>1. CASE q = p
      <4>1. vn_refcount[file_vnode[cur[p]]] = ONE_FILE_OWNER
        BY <1>1, <2>1, <3>1
      <4> QED BY <3>1, <4>1, LastFound
    <3>2. CASE q # p
      BY <1>1, <2>1, <3>2 DEF LastIsAlone
    <3> QED BY <3>1, <3>2
  <2> QED BY <1>1, <2>1 DEF LastIsAlone
<1>5. ASSUME NEW v \in Vnodes PROVE vn_refcount'[v] >= Refs(v)'
  <2>1. /\ Listed(v)' \subseteq Listed(v) /\ Opened(v)' \subseteq Opened(v)
        /\ Pending(v)' \subseteq Pending(v)
    BY <1>1 DEF Listed, Opened, Pending
  <2>2. vn_refcount[v] >= Refs(v) /\ vn_refcount'[v] >= vn_refcount[v]
    BY <1>1 DEF RefsOK
  <2> QED BY <2>1, <2>2, NothingNew
<1> QED BY <1>1, <1>2, <1>3, <1>4, <1>5 DEF RefsOK

\* A file is freed when no table and no other call has it.
LEMMA UnlinkStep ==
    ASSUME LockInv, LockInv', TableOK, RefsOK, NEW p \in Procs, Unlink(p)
    PROVE TableOK' /\ RefsOK'
<1> DEFINE f == cur[p]
<1>1. /\ pc[p] = "unlink"
      /\ alive' = [alive EXCEPT ![f] = FALSE]
      /\ file_vnode' = [file_vnode EXCEPT ![f] = NULL]
      /\ master_fd' = [master_fd EXCEPT ![f] = FLOATING_FILE]
      /\ pc' = [pc EXCEPT ![p] = "user"]
      /\ cur' = [cur EXCEPT ![p] = NULL]
      /\ UNCHANGED <<local, glock, vn_refcount>>
  BY DEF Unlink
<1>2. IF master_fd[f] = FLOATING_FILE THEN UNCHANGED global
      ELSE global' = [global EXCEPT ![master_fd[f]] = NULL]
  BY DEF Unlink, LeaveGlobal
<1> USE FileAssumption DEF LockInv, TypeOK, TableOK
<1>3. /\ f \in Files /\ f # NULL /\ alive[f]
      /\ \A q \in Procs, i \in Slots : local[q][i] # f
      /\ \A q \in Procs \ {p} : cur[q] # f
  BY <1>1 DEF HasLock, LastIsAlone
<1>4. CurIsAlive' /\ SlotsAreListed'
  BY <1>1, <1>3 DEF CurIsAlive, SlotsAreListed
<1>5. \A i \in Slots : global'[i] # NULL => global'[i] = global[i] /\ global[i] # f
  BY <1>2, <1>3, FloatingIsNoSlot DEF GlobalListsAlive
<1>6. GlobalListsAlive'
  BY <1>1, <1>3, <1>5 DEF GlobalListsAlive
<1>7. ListedIsThere'
  BY <1>1, <1>2, <1>3 DEF ListedIsThere
<1>8. FloatingIsAlone'
  BY <1>1, <1>3 DEF FloatingIsAlone, CurIsFile
<1>9. LastIsAlone'
  <2>1. \A q \in Procs : pc'[q] \in {"last", "unlink"} =>
          q # p /\ pc[q] \in {"last", "unlink"} /\ cur'[q] = cur[q] /\ cur[q] \in Files
    BY <1>1 DEF HasLock
  <2>2. \A q, r \in Procs : cur'[r] # NULL => r # p /\ cur'[r] = cur[r]
    BY <1>1
  <2> QED BY <1>1, <2>1, <2>2 DEF LastIsAlone
<1>10. ASSUME NEW v \in Vnodes PROVE vn_refcount'[v] >= Refs(v)'
  <2>1. \A q \in Procs : pc[q] = "unlink" /\ q # p => pc'[q] = "unlink" /\ cur'[q] = cur[q]
    BY <1>1
  <2>2. Listed(v)' \subseteq Listed(v)
    <3>1. \A g \in Files : alive'[g] => g # f /\ alive[g] /\ file_vnode'[g] = file_vnode[g]
                                       /\ master_fd'[g] = master_fd[g]
      BY <1>1, <1>3
    <3>2. \A g \in Files : g # f => \A q \in Procs : pc[q] = "unlink" /\ cur[q] = g =>
                                       pc'[q] = "unlink" /\ cur'[q] = g
      BY <2>1
    <3> QED BY <3>1, <3>2 DEF Listed
  <2>3. Opened(v)' \subseteq Opened(v)
    BY <1>1, <1>3 DEF Opened
  <2>4. Pending(v)' \subseteq Pending(v)
    BY <1>1, <1>3 DEF Pending
  <2>5. vn_refcount[v] >= Refs(v) /\ vn_refcount'[v] >= vn_refcount[v]
    BY <1>1 DEF RefsOK
  <2> QED BY <2>2, <2>3, <2>4, <2>5, NothingNew
<1> QED BY <1>1, <1>4, <1>6, <1>7, <1>8, <1>9, <1>10 DEF RefsOK

\* A read or write that begins.
LEMMA StartStep ==
    ASSUME LockInv, LockInv', TableOK, RefsOK, NEW p \in Procs, Starts(p)
    PROVE TableOK' /\ RefsOK'
<1>1. PICK i \in Slots, l \in {"read", "write"} :
        FreeToLock(local[p][i]) /\ Transfer(p, local[p][i], l)
  BY DEF Starts
<1> DEFINE f == local[p][i]
<1>2. /\ pc[p] = "user" /\ f # NULL
      /\ cur' = [cur EXCEPT ![p] = f]
      /\ pc' = [pc EXCEPT ![p] = l]
      /\ UNCHANGED <<local, global, glock, alive, file_vnode, master_fd, vn_refcount>>
  BY <1>1 DEF Starts, FreeToLock, Transfer, files, tables
<1> USE FileAssumption DEF LockInv, TypeOK, TableOK
<1>3. f \in Files /\ alive[f] /\ master_fd[f] # FLOATING_FILE
  BY <1>2 DEF SlotsAreListed
<1>4. CurIsAlive' /\ GlobalListsAlive' /\ ListedIsThere' /\ SlotsAreListed'
  BY <1>2, <1>3 DEF CurIsAlive, GlobalListsAlive, ListedIsThere, SlotsAreListed
<1>5. FloatingIsAlone'
  BY <1>2, <1>3 DEF FloatingIsAlone
<1>6. LastIsAlone'
  <2>1. \A q \in Procs : pc'[q] \in {"last", "unlink"} =>
          q # p /\ pc[q] \in {"last", "unlink"} /\ cur'[q] = cur[q] /\ cur[q] # f
    BY <1>2 DEF LastIsAlone
  <2> QED BY <1>2, <2>1 DEF LastIsAlone
<1>7. ASSUME NEW v \in Vnodes PROVE vn_refcount'[v] >= Refs(v)'
  <2>1. /\ Listed(v)' \subseteq Listed(v) /\ Opened(v)' \subseteq Opened(v)
        /\ Pending(v)' \subseteq Pending(v)
    <3>1. \A q \in Procs : pc[q] = "unlink" => pc'[q] = "unlink" /\ cur'[q] = cur[q]
      BY <1>2
    <3>2. Listed(v)' \subseteq Listed(v)
      BY <1>2, <3>1 DEF Listed
    <3>3. Opened(v)' \subseteq Opened(v)
      BY <1>2 DEF Opened
    <3>4. Pending(v)' \subseteq Pending(v)
      BY <1>2 DEF Pending
    <3> QED BY <3>2, <3>3, <3>4
  <2>2. vn_refcount[v] >= Refs(v) /\ vn_refcount'[v] >= vn_refcount[v]
    BY <1>2 DEF RefsOK
  <2> QED BY <2>1, <2>2, NothingNew
<1> QED BY <1>2, <1>4, <1>5, <1>6, <1>7 DEF RefsOK

\* fork copies one descriptor and takes a reference for it.
LEMMA CopyStep ==
    ASSUME LockInv, LockInv', TableOK, RefsOK, NEW p \in Procs, Copies(p)
    PROVE TableOK' /\ RefsOK'
<1> DEFINE f == local[p][from[p]]  u == file_vnode[f]  k == kid[p]  i == from[p]
<1>1. /\ pc[p] = "copy" /\ f # NULL /\ k \in Procs /\ i \in Slots
      /\ local' = [local EXCEPT ![k][i] = f]
      /\ VOP_INCREF(u)
      /\ UNCHANGED <<global, glock, alive, file_vnode, master_fd, pc, cur>>
  BY DEF Copies, FreeToLock, CopyFile, NextSlot, files, LockInv, TypeOK, KidIsEmbryo, Slots
<1> HIDE DEF k, i
<1> USE FileAssumption DEF LockInv, TypeOK, TableOK
<1>2. f \in Files /\ alive[f] /\ master_fd[f] # FLOATING_FILE /\ u \in Vnodes
  BY <1>1 DEF SlotsAreListed, AliveHasVnode, i
<1>3. \A q \in Procs : pc[q] \in {"last", "unlink"} => cur[q] # f
  BY <1>1 DEF LastIsAlone, i
<1> HIDE DEF f, u
<1>4. CurIsAlive' /\ GlobalListsAlive' /\ ListedIsThere' /\ SlotsAreListed'
  BY <1>1, <1>2 DEF CurIsAlive, GlobalListsAlive, ListedIsThere, SlotsAreListed
<1>5. FloatingIsAlone' /\ LastIsAlone'
  BY <1>1, <1>2, <1>3 DEF FloatingIsAlone, LastIsAlone
<1>6. ASSUME NEW v \in Vnodes PROVE vn_refcount'[v] >= Refs(v)'
  <2>1. vn_refcount[v] >= Refs(v) /\ vn_refcount[v] \in Nat
    BY DEF RefsOK
  <2>2. Listed(v)' \subseteq Listed(v) /\ Pending(v)' \subseteq Pending(v)
    BY <1>1 DEF Listed, Pending
  <2>3. CASE v = u
    <3>1. Opened(v)' \subseteq Opened(v) \cup {<<k, i>>}
      BY <1>1 DEF Opened
    <3>2. /\ Cardinality(Opened(v)') \in Nat
          /\ Cardinality(Opened(v)') <= Cardinality(Opened(v)) + 1
      BY <3>1, RefsFinite, CardGrows, FS_CardinalityType
    <3>3. /\ Cardinality(Listed(v)') \in Nat /\ Cardinality(Listed(v)') <= Cardinality(Listed(v))
          /\ Cardinality(Pending(v)') \in Nat
          /\ Cardinality(Pending(v)') <= Cardinality(Pending(v))
      BY <2>2, RefsFinite, CardWithin
    <3>4. vn_refcount'[v] = vn_refcount[v] + 1
      BY <1>1, <2>3 DEF VOP_INCREF
    <3> QED BY <2>1, <3>2, <3>3, <3>4, RefsFinite DEF Refs
  <2>4. CASE v # u
    <3>1. Opened(v)' \subseteq Opened(v)
      BY <1>1, <2>4 DEF Opened, u
    <3>2. vn_refcount'[v] >= vn_refcount[v]
      BY <1>1, <2>4 DEF VOP_INCREF
    <3> QED BY <2>1, <2>2, <3>1, <3>2, NothingNew
  <2> QED BY <2>3, <2>4
<1> QED BY <1>1, <1>4, <1>5, <1>6 DEF RefsOK

\* The copy that sys_fork drops leaves its references behind.
LEMMA DropStep ==
    ASSUME LockInv, LockInv', TableOK, RefsOK, NEW p \in Procs, CopyDropped(p)
    PROVE TableOK' /\ RefsOK'
<1>1. /\ pc[p] = "copy" /\ kid[p] \in Procs /\ pc[kid[p]] = "embryo"
      /\ pc' = [pc EXCEPT ![p] = "user", ![kid[p]] = "absent"]
      /\ local' = [local EXCEPT ![kid[p]] = NoFiles]
      /\ UNCHANGED <<global, glock, alive, file_vnode, master_fd, vn_refcount, cur>>
  BY DEF CopyDropped, files, LockInv, KidIsEmbryo
<1> USE FileAssumption DEF LockInv, TypeOK, TableOK
<1>2. \A q \in Procs, i \in Slots : local'[q][i] # NULL => local'[q][i] = local[q][i]
  BY <1>1 DEF NoFiles
<1>3. \A q \in Procs : pc'[q] \in {"add", "test", "decref", "last", "unlink"} => pc[q] = pc'[q]
  BY <1>1
<1>4. \A q \in Procs : pc[q] = "unlink" => pc'[q] = "unlink"
  BY <1>1
<1>5. CurIsAlive' /\ GlobalListsAlive' /\ ListedIsThere'
  BY <1>1 DEF CurIsAlive, GlobalListsAlive, ListedIsThere
<1>6. SlotsAreListed'
  <2> SUFFICES ASSUME NEW q \in Procs, NEW i \in Slots, local'[q][i] \in Files
               PROVE alive'[local'[q][i]] /\ master_fd'[local'[q][i]] # FLOATING_FILE
    BY DEF SlotsAreListed
  <2>1. local'[q][i] = local[q][i]
    BY <1>2
  <2> QED BY <1>1, <2>1 DEF SlotsAreListed
<1>7. FloatingIsAlone'
  BY <1>1, <1>3 DEF FloatingIsAlone
<1>8. LastIsAlone'
  <2> SUFFICES ASSUME NEW q \in Procs, pc'[q] \in {"last", "unlink"}
               PROVE /\ \A r \in Procs, i \in Slots : local'[r][i] # cur'[q]
                     /\ \A r \in Procs \ {q} : cur'[r] # cur'[q]
    BY DEF LastIsAlone
  <2>1. pc[q] \in {"last", "unlink"} /\ cur[q] \in Files /\ cur[q] # NULL
    BY <1>3 DEF HasLock
  <2> QED BY <1>1, <1>2, <2>1 DEF LastIsAlone
<1>9. ASSUME NEW v \in Vnodes PROVE vn_refcount'[v] >= Refs(v)'
  <2>1. Listed(v)' \subseteq Listed(v)
    BY <1>1, <1>4 DEF Listed
  <2>2. Opened(v)' \subseteq Opened(v)
    BY <1>1, <1>2 DEF Opened
  <2>3. Pending(v)' \subseteq Pending(v)
    BY <1>1, <1>3 DEF Pending
  <2>4. vn_refcount[v] >= Refs(v) /\ vn_refcount'[v] >= vn_refcount[v]
    BY <1>1 DEF RefsOK
  <2> QED BY <2>1, <2>2, <2>3, <2>4, NothingNew
<1> QED BY <1>1, <1>5, <1>6, <1>7, <1>8, <1>9 DEF RefsOK

\* Every step up to dup2 keeps the tables and the counts right.
LEMMA TableStep == LockInv /\ LockInv' /\ TableInv /\ [Next]_vars => TableInv'
<1> SUFFICES ASSUME LockInv, LockInv', TableInv, [Next]_vars, ~dupped'
             PROVE TableOK' /\ RefsOK'
  BY DEF TableInv
<1>1. ~dupped /\ TableOK /\ RefsOK
  BY DuppedStays DEF TableInv
<1>2. CASE UNCHANGED vars \/ Failed
  <2>1. Quiet /\ UNCHANGED vn_refcount
    BY <1>2 DEF vars, Failed, Fails, Quiet, tables, files
  <2> QED BY <1>1, <2>1, QuietStep
<1>3. ASSUME NEW p \in Procs, ReadDone(p) \/ ReadFails(p) \/ WriteDone(p)
      PROVE TableOK' /\ RefsOK'
  <2>1. Quiet /\ UNCHANGED vn_refcount
    BY <1>3 DEF ReadDone, ReadFails, WriteDone, Finish, Quiet, files, LockInv, TypeOK
  <2> QED BY <1>1, <2>1, QuietStep
<1>4. ASSUME NEW p \in Procs, Seeks(p) \/ Unlocks(p) \/ Sticks(p) \/ Skips(p)
      PROVE TableOK' /\ RefsOK'
  <2>1. Quiet /\ UNCHANGED vn_refcount
    BY <1>4 DEF Seeks, Seek, Unlocks, SeekRelease, Sticks, CopyNoTable, Skips, NextSlot,
       Quiet, files, tables
  <2> QED BY <1>1, <2>1, QuietStep
<1>5. ASSUME NEW p \in Procs, Forks(p) \/ CopyDone(p) PROVE TableOK' /\ RefsOK'
  <2>1. UNCHANGED <<tables, glock, alive, file_vnode, master_fd, cur, vn_refcount>>
    BY <1>5 DEF Forks, CopyStart, CopyDone, files
  <2>2. PICK k \in Procs, l \in {"copy", "user"}, m \in {"embryo", "user"} :
          /\ pc[p] \in {"user", "copy"} /\ pc[k] \in {"absent", "embryo"}
          /\ pc' = [pc EXCEPT ![p] = l, ![k] = m]
    BY <1>5 DEF Forks, CopyStart, CopyDone, LockInv, KidIsEmbryo
  <2>3. Quiet
    BY <2>1, <2>2 DEF Quiet, LockInv, TypeOK
  <2> QED BY <1>1, <2>1, <2>3, QuietStep
<1>6. ASSUME NEW p \in Procs, Dups(p) PROVE TableOK' /\ RefsOK'
  <2>1. Quiet /\ UNCHANGED vn_refcount
    BY <1>6 DEF Dups, Dup2Locked, Quiet, files, LockInv, TypeOK
  <2> QED BY <1>1, <2>1, QuietStep
<1>7. ASSUME NEW p \in Procs, Dup2Global(p) \/ DupCloses(p) \/ Dup2Install(p) PROVE FALSE
  BY <1>1, <1>7 DEF Dup2Global, DupCloses, Dup2Install, LockInv, Dup2Marked
<1> QED
  BY Steps, <1>1, <1>2, <1>3, <1>4, <1>5, <1>6, <1>7, OpenStep, AddStep, CloseStep, TestStep,
     DecrefStep, UnlinkStep, StartStep, CopyStep, DropStep
  DEF Does

IInv == LockInv /\ PlaceIsKept /\ TableInv

\* The invariant holds at the start.
LEMMA InitFiles == Init => IInv
<1> SUFFICES ASSUME Init PROVE IInv
  OBVIOUS
<1> USE FileAssumption DEF Init
<1>1. TypeOK
  <2>1. local \in [Procs -> [Slots -> Files \cup {NULL}]] /\ global \in [Slots -> Files \cup {NULL}]
    BY DEF NoFiles
  <2>2. alive \in [Files -> BOOLEAN] /\ dupped \in BOOLEAN
    BY Zenon
  <2>3. MIN_FD \in Slots /\ MIN_FD \in MIN_FD .. OPEN_MAX
    BY DEF Slots, MIN_FD
  <2>4. from \in [Procs -> MIN_FD .. OPEN_MAX] /\ to \in [Procs -> Slots]
    BY <2>3
  <2>5. seek_pos \in [Files -> 0 .. INT - 1] /\ pos \in [Procs -> 0 .. INT - 1]
    BY ZeroPlace
  <2>6. pc \in [Procs -> Labels] /\ fault \in Faults
    BY DEF Labels, Faults
  <2> QED BY <2>1, <2>2, <2>4, <2>5, <2>6 DEF TypeOK
<1>2. LockInv
  BY <1>1 DEF LockInv, HasLock, HasSource, KidIsEmbryo, OneParent, AliveHasVnode, CurIsFile, Dup2Marked
<1>3. PlaceIsKept
  BY DEF PlaceIsKept
<1>4. TableOK
  BY DEF TableOK, CurIsAlive, GlobalListsAlive, ListedIsThere, SlotsAreListed, FloatingIsAlone,
     LastIsAlone, NoFiles
<1>5. ASSUME NEW v \in Vnodes PROVE vn_refcount[v] >= Refs(v)
  <2>1. Listed(v) = {} /\ Opened(v) = {} /\ Pending(v) = {}
    BY DEF Listed, Opened, Pending, NoFiles
  <2> QED BY <2>1, FS_EmptySet DEF Refs
<1> QED BY <1>2, <1>3, <1>4, <1>5 DEF IInv, TableInv, RefsOK

\* The inductive invariant.
LEMMA Inductive == Spec => []IInv
<1>1. IInv /\ [Next]_vars => IInv'
  BY LockStep, PlaceStep, TableStep DEF IInv
<1> QED BY <1>1, InitFiles, PTL DEF Spec

(***************************************************************************)
(* The results.                                                            *)
(***************************************************************************)
\* While a process transfers data, nobody else moves the file's position or frees
\* the file; this holds after dup2 as well.
THEOREM PlaceKept == Spec => []PlaceIsKept
<1>1. IInv => PlaceIsKept
  BY DEF IInv
<1> QED BY <1>1, Inductive, PTL

\* Until dup2 is used, vn_refcount covers every listed file, slot and call in progress.
THEOREM RefsAreCovered == Spec => []RefsCovered
<1>1. IInv => RefsCovered
  BY DEF IInv, LockInv, TableInv, RefsOK, Refs, RefsCovered
<1> QED BY <1>1, Inductive, PTL

\* Until dup2 is used, what the global table lists is allocated and knows its place.
THEOREM GlobalTruthful == Spec => []GlobalMatches
<1>1. IInv => GlobalMatches
  BY DEF IInv, TableInv, TableOK, GlobalListsAlive, GlobalMatches
<1> QED BY <1>1, Inductive, PTL

\* Until dup2 is used, a file that some process has open is neither freed nor gone from
\* the global table.
THEOREM OpenFilesKept == Spec => []NoDangling
<1>1. IInv => NoDangling
  BY FileAssumption
  DEF IInv, LockInv, TypeOK, TableInv, TableOK, ListedIsThere, SlotsAreListed, NoDangling
<1> QED BY <1>1, Inductive, PTL

\* Until dup2 is used, the file that file_destroy frees is in no table and in the
\* hands of no other call, whatever happened since vn_refcount was tested.
THEOREM LastCloserAlone == Spec => [](~dupped => LastIsAlone)
<1>1. IInv => (~dupped => LastIsAlone)
  BY DEF IInv, TableInv, TableOK
<1> QED BY <1>1, Inductive, PTL
=============================================================================
