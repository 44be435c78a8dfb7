-------------------------- MODULE ProcTableProofs --------------------------
(***************************************************************************)
(* Proofs about the process table for any number of processes and pids.    *)
(*                                                                         *)
(* That an entry of the table is a process in use depends on who may be    *)
(* added: only an embryo, which has one creator and a pid (StructInv).     *)
(* That the count covers the entries is an argument about cardinalities    *)
(* (CountInv), and so is that the menu runs alone: thread_count is the     *)
(* number of processes that run, and the menu waits until it has dropped   *)
(* to the number of the kernel's own threads (ThreadInv).                  *)
(***************************************************************************)
EXTENDS ProcTable, Facts

Creating == {"create", "again", "copyas", "copyft", "spawn"}

TypeStruct ==
    /\ procs \in [Pids -> Procs \cup {NULL}]
    /\ p_pid \in [Procs -> Pids \cup {-1}]
    /\ p_addrspace \in [Procs -> BOOLEAN]
    /\ pc \in [Procs -> Labels]
    /\ child \in [Procs -> UProcs \cup {NULL}]
    /\ panic \in Panics

\* The kernel process is in the menu and in the menu's calls, and nobody else is.
KernelInMenu ==
    /\ pc[KProc] \in {"menu", "mwait", "create", "spawn"}
    /\ \A p \in UProcs : pc[p] \notin {"menu", "mwait"}

HasPid == \A p \in Procs : InUse(p) <=> p_pid[p] \in Pids

\* Who is creating a process has an embryo, and nobody else has the same one.
ChildIsEmbryo ==
    \A p \in Procs : pc[p] \in Creating => child[p] \in UProcs /\ pc[child[p]] = "embryo"

OneParent ==
    \A p, q \in Procs : pc[p] \in Creating /\ pc[q] \in Creating /\ child[p] = child[q] => p = q

StructInv == TypeStruct /\ KernelInMenu /\ HasPid /\ ChildIsEmbryo /\ OneParent /\ EntriesMatch

CountInv == active_procs \in Nat /\ CountCoversTable

Running == {p \in UProcs : pc[p] \notin {"absent", "embryo"}}

ThreadType ==
    /\ p_numthreads \in [Procs -> Nat]
    /\ thread_count \in Nat /\ kthreads \in Nat /\ tc \in Nat

CountIsRunning == thread_count = kthreads + Cardinality(Running)

\* While the machine runs, a user process that runs has one thread.
OneThread ==
    panic = "none" =>
        /\ p_numthreads[KProc] = 1 + kthreads
        /\ \A p \in UProcs : p_numthreads[p] = IF p \in Running THEN 1 ELSE 0

TcIsBase == pc[KProc] = "mwait" => tc = kthreads

ThreadInv == ThreadType /\ CountIsRunning /\ OneThread /\ TcIsBase /\ MenuRunsAlone

IInv == StructInv /\ CountInv /\ ThreadInv

(***************************************************************************)
(* The structure of the table.                                             *)
(***************************************************************************)
LEMMA InitStruct == Init => StructInv
<1> SUFFICES ASSUME Init PROVE StructInv
  OBVIOUS
<1> USE ProcAssumption DEF Init, Procs, Pids
<1>1. TypeStruct
  <2>1. p_addrspace \in [Procs -> BOOLEAN]
    BY Zenon
  <2>2. pc \in [Procs -> Labels] /\ panic \in Panics
    BY DEF Labels, Panics
  <2>3. procs \in [Pids -> Procs \cup {NULL}] /\ p_pid \in [Procs -> Pids \cup {-1}]
    OBVIOUS
  <2> QED BY <2>1, <2>2, <2>3 DEF TypeStruct
<1>2. KernelInMenu /\ HasPid
  BY DEF KernelInMenu, HasPid, InUse
<1>3. ChildIsEmbryo /\ OneParent
  BY DEF ChildIsEmbryo, OneParent, Creating
<1>4. EntriesMatch
  BY DEF EntriesMatch, InUse
<1> QED BY <1>1, <1>2, <1>3, <1>4 DEF StructInv

\* Entering an embryo in the table.
LEMMA AddStruct ==
  ASSUME StructInv, NEW p \in Procs, NEW l \in Creating, pc[p] \in {"create", "again"},
         p = KProc => l = "spawn",
         procs' = [procs EXCEPT ![p_pid[child[p]]] = child[p]],
         pc' = [pc EXCEPT ![p] = l],
         UNCHANGED <<p_pid, p_addrspace, child, panic>>
  PROVE  StructInv'
<1> USE ProcAssumption DEF StructInv
<1>1. child[p] \in UProcs /\ child[p] \in Procs /\ pc[child[p]] = "embryo" /\ p_pid[child[p]] \in Pids
  BY DEF ChildIsEmbryo, HasPid, InUse, Creating, Procs
<1>2. TypeStruct'
  BY <1>1 DEF TypeStruct, Creating, Labels
<1>3. KernelInMenu' /\ HasPid'
  BY <1>1 DEF KernelInMenu, HasPid, InUse, TypeStruct, Creating, Procs
<1>4. ChildIsEmbryo' /\ OneParent'
  BY <1>1 DEF ChildIsEmbryo, OneParent, TypeStruct, Creating
<1>5. EntriesMatch'
  BY <1>1 DEF EntriesMatch, InUse, TypeStruct, Creating
<1> QED BY <1>2, <1>3, <1>4, <1>5

\* pc2 and child2 are what is left when the creator of q, if it has one, has given
\* q up and gone back to user mode or to the menu.
GivenUp(q, pc2, child2) ==
    /\ pc2 \in [Procs -> Labels] /\ child2 \in [Procs -> UProcs \cup {NULL}]
    /\ \A p \in Procs :
        /\ pc2[p] # pc[p] => pc2[p] = IF p = KProc THEN "menu" ELSE "user"
        /\ InUse(p) <=> pc2[p] # "absent"
        /\ pc[p] = "embryo" => pc2[p] = "embryo"
        /\ pc2[p] \in Creating => pc2[p] = pc[p] /\ child2[p] = child[p] /\ child[p] # q

\* Destroying a process that no one is creating any more.
LEMMA DestroyStruct ==
  ASSUME StructInv, NEW q \in UProcs, NEW pc2, NEW child2, NEW g,
         InUse(q), GivenUp(q, pc2, child2), proc_destroy(q, pc2, child2, g)
  PROVE  StructInv'
<1> USE ProcAssumption DEF StructInv, GivenUp
<1>1. q \in Procs /\ q # KProc /\ p_pid[q] \in Pids
  BY DEF HasPid, Procs
<1>2. CASE UNCHANGED <<tableVars, procVars, pc, child>> /\ panic' \in Panics
  BY <1>2 DEF tableVars, procVars, TypeStruct, KernelInMenu, HasPid, InUse, ChildIsEmbryo,
     OneParent, EntriesMatch
<1>3. CASE /\ remove_proc(q)
           /\ p_pid' = [p_pid EXCEPT ![q] = -1]
           /\ p_addrspace' = [p_addrspace EXCEPT ![q] = FALSE]
           /\ pc' = [pc2 EXCEPT ![q] = "absent"]
           /\ child' = child2
           /\ UNCHANGED panic
  <2> USE <1>3 DEF remove_proc
  <2>1. TypeStruct'
    <3>1. p_addrspace' \in [Procs -> BOOLEAN]
      BY Zenon DEF TypeStruct
    <3>2. pc' \in [Procs -> Labels]
      BY DEF Labels
    <3>3. procs' \in [Pids -> Procs \cup {NULL}] /\ p_pid' \in [Procs -> Pids \cup {-1}]
      BY <1>1 DEF TypeStruct
    <3> QED BY <3>1, <3>2, <3>3 DEF TypeStruct
  <2>2. KernelInMenu'
    BY <1>1 DEF KernelInMenu, Procs
  <2>3. HasPid'
    BY <1>1 DEF HasPid, InUse, TypeStruct, Pids
  <2>4. ChildIsEmbryo'
    BY <1>1 DEF ChildIsEmbryo, Creating, Procs
  <2>5. OneParent'
    BY <1>1 DEF OneParent, Creating
  <2>6. EntriesMatch'
    BY <1>1 DEF EntriesMatch, InUse, TypeStruct
  <2> QED BY <2>1, <2>2, <2>3, <2>4, <2>5, <2>6
<1> QED BY <1>2, <1>3 DEF proc_destroy, Panics

\* A process that is not creating another changes its place.
LEMMA MoveStruct ==
  ASSUME StructInv, NEW p \in Procs, NEW l \in Labels,
         pc[p] \notin {"absent", "embryo"}, l \notin {"absent", "embryo"},
         p = KProc => l \in {"menu", "mwait", "spawn"},
         p # KProc => l \notin {"menu", "mwait"},
         l \in Creating => pc[p] \in Creating,
         pc' = [pc EXCEPT ![p] = l],
         p_addrspace' \in [Procs -> BOOLEAN],
         child' = child \/ (l \notin Creating /\ child' = [child EXCEPT ![p] = NULL]),
         UNCHANGED <<procs, p_pid, panic>>
  PROVE  StructInv'
<1> USE ProcAssumption DEF StructInv
<1>1. TypeStruct'
  BY DEF TypeStruct
<1>2. KernelInMenu' /\ HasPid' /\ EntriesMatch'
  BY DEF KernelInMenu, HasPid, EntriesMatch, InUse, TypeStruct, Procs
<1>3. ChildIsEmbryo' /\ OneParent'
  BY DEF ChildIsEmbryo, OneParent, TypeStruct, Creating
<1> QED BY <1>1, <1>2, <1>3

\* The embryo becomes a process that runs.
LEMMA SpawnStruct ==
  ASSUME StructInv, NEW p \in Procs, pc[p] = "spawn", NEW l \in {"ret", "mwait"}, NEW m \in {"user", "start"},
         l = "mwait" <=> p = KProc,
         pc' = [pc EXCEPT ![p] = l, ![child[p]] = m],
         child' = child \/ child' = [child EXCEPT ![p] = NULL],
         UNCHANGED <<procs, p_pid, p_addrspace, panic>>
  PROVE  StructInv'
<1> USE ProcAssumption DEF StructInv
<1>1. child[p] \in UProcs /\ child[p] \in Procs /\ pc[child[p]] = "embryo" /\ child[p] # p
  BY DEF ChildIsEmbryo, Creating, Procs
<1>2. TypeStruct'
  BY <1>1 DEF TypeStruct, Labels
<1>3. KernelInMenu' /\ HasPid' /\ EntriesMatch'
  BY <1>1 DEF KernelInMenu, HasPid, EntriesMatch, InUse, TypeStruct, Procs
<1>4. \A q \in Procs : pc'[q] \in Creating =>
        q # p /\ q # child[p] /\ pc[q] \in Creating /\ child'[q] = child[q]
  BY <1>1 DEF TypeStruct, Creating
<1>5. \A q \in Procs : pc'[q] \in Creating => child[q] # child[p]
  BY <1>4 DEF OneParent, Creating
<1>6. ChildIsEmbryo'
  <2> SUFFICES ASSUME NEW q \in Procs, pc'[q] \in Creating
               PROVE  child'[q] \in UProcs /\ pc'[child'[q]] = "embryo"
    BY DEF ChildIsEmbryo, Creating
  <2>1. child[q] \in UProcs /\ child[q] \in Procs /\ pc[child[q]] = "embryo" /\ child[q] # p
    BY <1>4 DEF ChildIsEmbryo, Procs
  <2> QED BY <1>4, <1>5, <2>1 DEF TypeStruct
<1>7. OneParent'
  BY <1>4 DEF OneParent, Creating
<1> QED BY <1>2, <1>3, <1>6, <1>7
\* proc_create: a process takes a struct proc that is not in use.
LEMMA CreateStruct ==
  ASSUME StructInv, NEW p \in Procs, pc[p] \in {"user", "menu"}, NEW q \in UProcs, NewProc(p, q)
  PROVE  StructInv'
<1> USE ProcAssumption DEF StructInv, NewProc
<1>1. q \in Procs /\ q # p /\ q # KProc
  BY DEF Procs
<1>2. assign_pid \in Pids
  <2>1. FreePids # {} /\ FreePids \subseteq Pids
    BY DEF assign_pid, FreePids
  <2>2. \E i \in FreePids : \A j \in FreePids : i <= j
    <3>1. FreePids \subseteq Nat
      BY <2>1 DEF Pids
    <3> QED BY <2>1, <3>1, NatLeast
  <2> QED BY <2>1, <2>2 DEF assign_pid
<1>3. TypeStruct'
  BY <1>1, <1>2 DEF TypeStruct, Labels, tableVars
<1>4. KernelInMenu' /\ HasPid' /\ EntriesMatch'
  BY <1>1, <1>2 DEF KernelInMenu, HasPid, EntriesMatch, InUse, TypeStruct, Procs, tableVars
<1>5. \A r \in Procs : pc'[r] \in Creating /\ r # p =>
        /\ r # q /\ pc[r] \in Creating /\ child'[r] = child[r]
        /\ child[r] \in UProcs /\ child[r] # q /\ child[r] # p /\ pc[child[r]] = "embryo"
  BY <1>1 DEF ChildIsEmbryo, TypeStruct, Creating, Procs
<1>6. pc'[p] = "create" /\ child'[p] = q /\ pc'[q] = "embryo"
  BY <1>1 DEF TypeStruct
<1>7. ChildIsEmbryo'
  <2> SUFFICES ASSUME NEW r \in Procs, pc'[r] \in Creating
               PROVE  child'[r] \in UProcs /\ pc'[child'[r]] = "embryo"
    BY DEF ChildIsEmbryo, Creating
  <2>1. CASE r = p
    BY <2>1, <1>6
  <2>2. CASE r # p
    <3>1. child[r] \in Procs
      BY <2>2, <1>5 DEF Procs
    <3> QED BY <2>2, <3>1, <1>5 DEF TypeStruct
  <2> QED BY <2>1, <2>2
<1>8. OneParent'
  BY <1>5, <1>6 DEF OneParent, Creating
<1> QED BY <1>3, <1>4, <1>7, <1>8

\* Every step keeps StructInv.
LEMMA StepStruct == StructInv /\ [Next]_vars => StructInv'
<1> SUFFICES ASSUME StructInv, [Next]_vars PROVE StructInv'
  OBVIOUS
<1> USE ProcAssumption
<1>1. CASE UNCHANGED vars
  BY <1>1 DEF vars, tableVars, procVars, StructInv, TypeStruct, KernelInMenu, HasPid, InUse,
     ChildIsEmbryo, OneParent, EntriesMatch
<1>2. ASSUME NEW p \in Procs, Create(p) PROVE StructInv'
  BY <1>2, CreateStruct DEF Create
<1>3. ASSUME NEW p \in Procs, Add(p) PROVE StructInv'
  <2>1. CASE p = KProc
    BY <1>3, <2>1, AddStruct DEF Add, add_proc, procVars, Creating
  <2>2. CASE p # KProc
    BY <1>3, <2>2, AddStruct DEF Add, add_proc, procVars, Creating
  <2> QED BY <2>1, <2>2
<1>4. ASSUME NEW p \in Procs, AddAgain(p) PROVE StructInv'
  <2>1. p # KProc
    BY <1>4 DEF AddAgain, StructInv, KernelInMenu
  <2> QED BY <1>4, <2>1, AddStruct DEF AddAgain, add_proc, Creating, procVars
<1>5. ASSUME NEW p \in Procs, CopyAs(p) PROVE StructInv'
  <2>1. p # KProc /\ pc[p] = "copyas" /\ pc' = [pc EXCEPT ![p] = "copyft"] /\ UNCHANGED <<procs, p_pid, child, panic>>
    BY <1>5 DEF CopyAs, StructInv, KernelInMenu, tableVars
  <2>2. p_addrspace' \in [Procs -> BOOLEAN]
    BY <1>5, Zenon DEF CopyAs, StructInv, TypeStruct
  <2> QED BY <2>1, <2>2, MoveStruct DEF Creating, Labels
<1>6. ASSUME NEW p \in Procs, CopyFt(p) PROVE StructInv'
  <2>1. p # KProc /\ pc[p] = "copyft" /\ pc' = [pc EXCEPT ![p] = "spawn"]
        /\ UNCHANGED <<procs, p_pid, p_addrspace, child, panic>>
    BY <1>6 DEF CopyFt, StructInv, KernelInMenu, tableVars, procVars
  <2> QED BY <2>1, MoveStruct DEF Creating, Labels, StructInv, TypeStruct
<1>7. ASSUME NEW p \in Procs, ForkFails(p) PROVE StructInv'
  <2> DEFINE pc2 == [pc EXCEPT ![p] = "user"]
             child2 == [child EXCEPT ![p] = NULL]
             g == (pc[p] # "copyas")
  <2>1. p # KProc /\ pc[p] \in Creating /\ child[p] \in UProcs /\ pc[child[p]] = "embryo" /\ child[p] \in Procs
    BY <1>7 DEF ForkFails, StructInv, ChildIsEmbryo, Creating, Procs
  <2>2. pc2 \in [Procs -> Labels] /\ child2 \in [Procs -> UProcs \cup {NULL}]
    BY DEF StructInv, TypeStruct, Labels
  <2>3. \A r \in Procs : pc2[r] \in Creating => pc2[r] = pc[r] /\ child2[r] = child[r] /\ child[r] # child[p]
    BY <2>1 DEF StructInv, TypeStruct, OneParent, Creating
  <2>4. \A r \in Procs : /\ pc2[r] # pc[r] => pc2[r] = IF r = KProc THEN "menu" ELSE "user"
                         /\ InUse(r) <=> pc2[r] # "absent"
                         /\ pc[r] = "embryo" => pc2[r] = "embryo"
    BY <2>1 DEF StructInv, TypeStruct, InUse, Creating
  <2>5. GivenUp(child[p], pc2, child2)
    BY <2>2, <2>3, <2>4 DEF GivenUp
  <2>6. proc_destroy(child[p], pc2, child2, g) /\ InUse(child[p])
    BY <1>7, <2>1 DEF ForkFails, InUse
  <2> HIDE DEF pc2, child2, g
  <2> QED BY <2>1, <2>5, <2>6, DestroyStruct
<1>8. ASSUME NEW p \in Procs, Spawn(p) PROVE StructInv'
  BY <1>8, SpawnStruct DEF Spawn, tableVars
<1>9. ASSUME NEW p \in Procs, Return(p) PROVE StructInv'
  <2>1. p # KProc /\ pc[p] = "ret" /\ pc' = [pc EXCEPT ![p] = "user"]
        /\ child' = [child EXCEPT ![p] = NULL] /\ UNCHANGED <<procs, p_pid, p_addrspace, panic>>
    BY <1>9 DEF Return, StructInv, KernelInMenu, tableVars
  <2> QED BY <2>1, MoveStruct DEF Creating, Labels, StructInv, TypeStruct
<1>10. ASSUME NEW p \in Procs, RunStarts(p) PROVE StructInv'
  <2>1. p # KProc /\ pc[p] = "start" /\ pc' = [pc EXCEPT ![p] = "user"] /\ UNCHANGED <<procs, p_pid, child, panic>>
    BY <1>10 DEF RunStarts, StructInv, KernelInMenu, tableVars
  <2>2. p_addrspace' \in [Procs -> BOOLEAN]
    BY <1>10, Zenon DEF RunStarts, StructInv, TypeStruct
  <2> QED BY <2>1, <2>2, MoveStruct DEF Creating, Labels
<1>11. ASSUME NEW p \in Procs, RunFails(p) PROVE StructInv'
  <2>1. p \in UProcs /\ pc[p] = "start" /\ InUse(p) /\ proc_destroy(p, pc, child, FALSE)
    BY <1>11 DEF RunFails, StructInv, KernelInMenu, InUse, Procs
  <2>2. \A r \in Procs : pc[r] \in Creating => child[r] # p
    BY <2>1 DEF StructInv, ChildIsEmbryo
  <2>3. GivenUp(p, pc, child)
    BY <2>2 DEF GivenUp, InUse, StructInv, TypeStruct
  <2> QED BY <2>1, <2>3, DestroyStruct
<1>12. CASE MenuSpawn
  BY <1>12, SpawnStruct DEF MenuSpawn, tableVars, procVars, Procs
<1>13. CASE MenuSpawnFails
  <2> DEFINE pc2 == [pc EXCEPT ![KProc] = "menu"]
             child2 == [child EXCEPT ![KProc] = NULL]
             q == child[KProc]
  <2>1. KProc \in Procs /\ pc[KProc] \in Creating /\ q \in UProcs /\ pc[q] = "embryo" /\ q \in Procs
    BY <1>13 DEF MenuSpawnFails, StructInv, ChildIsEmbryo, Creating, Procs
  <2>2. pc2 \in [Procs -> Labels] /\ child2 \in [Procs -> UProcs \cup {NULL}]
    BY DEF StructInv, TypeStruct, Labels
  <2>3. \A r \in Procs : pc2[r] \in Creating => pc2[r] = pc[r] /\ child2[r] = child[r] /\ child[r] # q
    BY <2>1 DEF StructInv, TypeStruct, OneParent, Creating
  <2>4. \A r \in Procs : /\ pc2[r] # pc[r] => pc2[r] = IF r = KProc THEN "menu" ELSE "user"
                         /\ InUse(r) <=> pc2[r] # "absent"
                         /\ pc[r] = "embryo" => pc2[r] = "embryo"
    BY <2>1 DEF StructInv, TypeStruct, InUse, Creating
  <2>5. GivenUp(q, pc2, child2)
    BY <2>2, <2>3, <2>4 DEF GivenUp
  <2>6. proc_destroy(q, pc2, child2, FALSE) /\ InUse(q)
    BY <1>13, <2>1 DEF MenuSpawnFails, InUse
  <2> HIDE DEF pc2, child2, q
  <2> QED BY <2>1, <2>5, <2>6, DestroyStruct
<1>14. CASE MenuBack
  <2>1. KProc \in Procs /\ pc[KProc] = "mwait" /\ pc' = [pc EXCEPT ![KProc] = "menu"]
        /\ UNCHANGED <<procs, p_pid, p_addrspace, child, panic>>
    BY <1>14 DEF MenuBack, Procs, tableVars, procVars
  <2> QED BY <2>1, MoveStruct DEF Creating, Labels, StructInv, TypeStruct
<1>15. CASE MenuTest
  BY <1>15 DEF MenuTest, tableVars, procVars, StructInv, TypeStruct, KernelInMenu, HasPid, InUse,
     ChildIsEmbryo, OneParent, EntriesMatch
<1>16. ASSUME panic' \in Panics, UNCHANGED <<procs, procVars, pc, child>> PROVE StructInv'
  BY <1>16 DEF procVars, StructInv, TypeStruct, KernelInMenu, HasPid, InUse,
     ChildIsEmbryo, OneParent, EntriesMatch
<1>17. ASSUME NEW p \in Procs, ForkNoProc(p) \/ ReturnFaults(p) \/ sys_exit(p) PROVE StructInv'
  BY <1>16, <1>17 DEF ForkNoProc, ReturnFaults, sys_exit, tableVars, procVars, Panics
<1>18. CASE KThreadExit
  BY <1>16, <1>18 DEF KThreadExit, tableVars, procVars, Panics
<1> QED BY <1>1, <1>2, <1>3, <1>4, <1>5, <1>6, <1>7, <1>8, <1>9, <1>10, <1>11, <1>12, <1>13,
           <1>14, <1>15, <1>17, <1>18 DEF Next, Step

(***************************************************************************)
(* The count of the table.                                                 *)
(***************************************************************************)
Occupied == {i \in Pids : procs[i] # NULL}

\* The table is finite.
LEMMA OccupiedFinite == IsFiniteSet(Occupied) /\ Cardinality(Occupied) \in Nat
<1>1. IsFiniteSet(Pids)
  BY ProcAssumption, FS_Interval DEF Pids
<1>2. Occupied \in SUBSET Pids
  BY DEF Occupied
<1> QED BY <1>1, <1>2, FS_Subset, FS_CardinalityType

\* The kernel process is counted at the start.
LEMMA InitCount == Init => CountInv
<1> SUFFICES ASSUME Init PROVE CountInv
  OBVIOUS
<1>1. Occupied = {} \cup {2}
  BY ProcAssumption DEF Init, Occupied, Pids, Procs
<1>2. Cardinality(Occupied) = 1
  BY <1>1, FS_EmptySet, FS_AddElement
<1> QED BY <1>2 DEF Init, CountInv, CountCoversTable, Occupied

\* add_proc fills at most one slot and counts one process.
LEMMA AddCount ==
  ASSUME TypeStruct, CountInv, NEW q \in Procs, p_pid[q] \in Pids, add_proc(q)
  PROVE  CountInv'
<1>1. Occupied' = Occupied \cup {p_pid[q]}
  BY ProcAssumption DEF TypeStruct, add_proc, Occupied
<1> DEFINE more == Occupied \cup {p_pid[q]}
<1>2. IsFiniteSet(more) /\ (Cardinality(more) = Cardinality(Occupied) \/ Cardinality(more) = Cardinality(Occupied) + 1)
  BY OccupiedFinite, FS_AddElement, Zenon
<1>3. Cardinality(more) <= Cardinality(Occupied) + 1 /\ Cardinality(more) \in Nat
  BY <1>2, OccupiedFinite
<1>4. active_procs \in Nat /\ active_procs >= Cardinality(Occupied) /\ active_procs' = active_procs + 1
  BY DEF CountInv, CountCoversTable, Occupied, add_proc
<1>5. active_procs' >= Cardinality(Occupied')
  BY <1>1, <1>3, <1>4, OccupiedFinite
<1> QED BY <1>4, <1>5 DEF CountInv, CountCoversTable, Occupied

\* remove_proc empties one slot and counts one process less.
LEMMA RemoveCount ==
  ASSUME TypeStruct, CountInv, NEW q \in Procs, p_pid[q] \in Pids, procs[p_pid[q]] # NULL, remove_proc(q)
  PROVE  CountInv'
<1>1. Occupied' = Occupied \ {p_pid[q]} /\ p_pid[q] \in Occupied
  BY ProcAssumption DEF TypeStruct, remove_proc, Occupied
<1>2. Cardinality(Occupied') = Cardinality(Occupied) - 1
  BY <1>1, OccupiedFinite, FS_RemoveElement
<1>3. IsFiniteSet(Occupied')
  BY <1>1, OccupiedFinite, FS_RemoveElement
<1>4. Cardinality(Occupied') \in Nat
  BY <1>3, FS_CardinalityType
<1>5. active_procs \in Nat /\ active_procs >= Cardinality(Occupied) /\ active_procs' = active_procs - 1
  BY DEF CountInv, CountCoversTable, Occupied, remove_proc
<1>6. active_procs' \in Nat /\ active_procs' >= Cardinality(Occupied')
  BY <1>2, <1>4, <1>5, OccupiedFinite
<1> QED BY <1>6 DEF CountInv, CountCoversTable, Occupied

\* Every step keeps CountInv.
LEMMA StepCount == StructInv /\ CountInv /\ [Next]_vars => CountInv'
<1> SUFFICES ASSUME StructInv, CountInv, [Next]_vars PROVE CountInv'
  OBVIOUS
<1>1. CASE UNCHANGED tableVars
  BY <1>1 DEF tableVars, CountInv, CountCoversTable
<1>2. ASSUME NEW p \in Procs, Add(p) \/ AddAgain(p) PROVE CountInv'
  <2>1. child[p] \in Procs /\ p_pid[child[p]] \in Pids /\ add_proc(child[p])
    BY <1>2 DEF Add, AddAgain, StructInv, ChildIsEmbryo, Creating, HasPid, InUse, Procs
  <2> QED BY <2>1, AddCount DEF StructInv
<1>3. ASSUME NEW q \in Procs, InUse(q), NEW pc2, NEW child2, NEW g, proc_destroy(q, pc2, child2, g)
      PROVE  CountInv'
  <2>1. p_pid[q] \in Pids
    BY <1>3 DEF StructInv, HasPid
  <2> QED BY <1>1, <1>3, <2>1, RemoveCount DEF proc_destroy, StructInv
<1>4. ASSUME NEW p \in Procs, ForkFails(p) PROVE CountInv'
  <2>1. child[p] \in Procs /\ InUse(child[p])
    BY <1>4 DEF ForkFails, StructInv, ChildIsEmbryo, Creating, InUse, Procs
  <2> QED BY <1>3, <1>4, <2>1 DEF ForkFails
<1>5. CASE MenuSpawnFails
  <2>1. child[KProc] \in Procs /\ InUse(child[KProc])
    BY <1>5 DEF MenuSpawnFails, StructInv, ChildIsEmbryo, Creating, InUse, Procs
  <2> QED BY <1>3, <1>5, <2>1 DEF MenuSpawnFails
<1>6. ASSUME NEW p \in Procs, RunFails(p) PROVE CountInv'
  BY <1>3, <1>6 DEF RunFails, InUse
<1> QED BY <1>1, <1>2, <1>4, <1>5, <1>6 DEF Next, Step, vars, Create, NewProc, ForkNoProc, CopyAs,
           CopyFt, Spawn, Return, ReturnFaults, RunStarts, sys_exit, MenuSpawn, MenuBack, MenuTest,
           KThreadExit

(***************************************************************************)
(* The threads and the menu.                                               *)
(***************************************************************************)
LEMMA RunningFinite == IsFiniteSet(Running) /\ Cardinality(Running) \in Nat
<1>1. Running \in SUBSET UProcs
  BY DEF Running
<1> QED BY <1>1, ProcAssumption, FS_Subset, FS_CardinalityType

\* ThreadInv holds at the start.
LEMMA InitThread == Init => ThreadInv
<1> SUFFICES ASSUME Init PROVE ThreadInv
  OBVIOUS
<1>1. Running = {}
  BY ProcAssumption DEF Init, Running, Procs
<1>2. CountIsRunning
  BY <1>1, FS_EmptySet DEF Init, CountIsRunning
<1>3. ThreadType /\ OneThread /\ TcIsBase
  BY <1>1, ProcAssumption DEF Init, ThreadType, OneThread, TcIsBase, Procs
<1>4. MenuRunsAlone
  BY ProcAssumption DEF Init, MenuRunsAlone, Procs
<1> QED BY <1>2, <1>3, <1>4 DEF ThreadInv

\* Nobody starts or stops running, and the menu stays at its prompt or waiting.
LEMMA SameThreads ==
  ASSUME ThreadInv, Running' = Running, UNCHANGED threadVars,
         (pc[KProc] = "mwait") <=> (pc'[KProc] = "mwait"),
         panic = "none"
  PROVE  ThreadInv'
<1>1. ThreadType' /\ CountIsRunning' /\ OneThread' /\ TcIsBase'
  BY DEF ThreadInv, ThreadType, CountIsRunning, OneThread, TcIsBase, threadVars
<1>2. MenuRunsAlone'
  BY DEF ThreadInv, MenuRunsAlone, Running
<1> QED BY <1>1, <1>2 DEF ThreadInv

\* A thread of a new process: by sys_fork or by the menu.
LEMMA SpawnThread ==
  ASSUME StructInv, ThreadInv, NEW p \in Procs, panic = "none", pc[p] = "spawn", NEW l \in {"ret", "mwait"},
         NEW m \in {"user", "start"},
         l = "mwait" <=> p = KProc,
         pc' = [pc EXCEPT ![p] = l, ![child[p]] = m],
         p_numthreads' = [p_numthreads EXCEPT ![child[p]] = @ + 1],
         thread_count' = thread_count + 1,
         tc' = IF p = KProc THEN thread_count ELSE tc,
         UNCHANGED <<kthreads, panic>>
  PROVE  ThreadInv'
<1> USE ProcAssumption
<1>1. child[p] \in UProcs /\ child[p] \in Procs /\ pc[child[p]] = "embryo" /\ child[p] # p /\ child[p] # KProc
  BY DEF StructInv, ChildIsEmbryo, Creating, Procs
<1>2. Running' = Running \cup {child[p]} /\ child[p] \notin Running
  BY <1>1 DEF Running, StructInv, TypeStruct, Procs
<1>3. ThreadType'
  BY <1>1 DEF ThreadInv, ThreadType
<1>4. Cardinality(Running \cup {child[p]}) = Cardinality(Running) + 1
  BY <1>2, RunningFinite, FS_AddElement, Zenon
<1>5. CountIsRunning'
  BY <1>2, <1>4, RunningFinite DEF ThreadInv, ThreadType, CountIsRunning
<1>6. OneThread'
  BY <1>1, <1>2 DEF ThreadInv, ThreadType, OneThread, Procs
<1>7. pc'[KProc] = "mwait"
  <2>1. CASE p = KProc
    BY <1>1, <2>1 DEF StructInv, TypeStruct, Procs
  <2>2. CASE p # KProc
    BY <1>1, <2>2 DEF StructInv, TypeStruct, ThreadInv, MenuRunsAlone, Procs
  <2> QED BY <2>1, <2>2
<1>8. TcIsBase'
  <2>1. CASE p = KProc
    <3>1. Running = {}
      BY <2>1 DEF ThreadInv, MenuRunsAlone, Running
    <3>2. Cardinality(Running) = 0
      BY <3>1, FS_EmptySet
    <3> QED BY <2>1, <3>2 DEF ThreadInv, ThreadType, CountIsRunning, TcIsBase
  <2>2. CASE p # KProc
    <3>1. pc[KProc] = "mwait"
      BY <2>2 DEF ThreadInv, MenuRunsAlone, Procs
    <3> QED BY <2>2, <3>1 DEF ThreadInv, TcIsBase
  <2> QED BY <2>1, <2>2
<1>9. MenuRunsAlone'
  BY <1>7 DEF MenuRunsAlone
<1> QED BY <1>3, <1>5, <1>6, <1>8, <1>9 DEF ThreadInv

\* Destroying a process that never ran changes nothing for the threads.
LEMMA DestroyThread ==
  ASSUME StructInv, ThreadInv, panic = "none", NEW q \in UProcs, NEW pc2, NEW child2, NEW g,
         pc[q] = "embryo", pc2 \in [Procs -> Labels],
         \A p \in UProcs : pc2[p] \in {"absent", "embryo"} <=> pc[p] \in {"absent", "embryo"},
         pc2[KProc] = "mwait" <=> pc[KProc] = "mwait",
         proc_destroy(q, pc2, child2, g), UNCHANGED threadVars
  PROVE  ThreadInv'
<1> USE ProcAssumption
<1>1. CASE UNCHANGED pc
  <2>1. Running' = Running
    BY <1>1 DEF Running
  <2> QED BY <1>1, <2>1, SameThreads
<1>2. CASE pc' = [pc2 EXCEPT ![q] = "absent"]
  <2>1. Running' = Running
    BY <1>2 DEF Running, Procs
  <2>2. (pc[KProc] = "mwait") <=> (pc'[KProc] = "mwait")
    BY <1>2 DEF Procs
  <2> QED BY <2>1, <2>2, SameThreads
<1> QED BY <1>1, <1>2 DEF proc_destroy

\* The thread of a program that cannot be loaded exits.
LEMMA RunFailsThread ==
  ASSUME StructInv, ThreadInv, panic = "none", NEW p \in Procs, RunFails(p)
  PROVE  ThreadInv'
<1> USE ProcAssumption
<1>1. p \in UProcs /\ p # KProc /\ p \in Running /\ pc[KProc] = "mwait" /\ p_numthreads[p] = 1
  BY DEF RunFails, StructInv, KernelInMenu, Running, Procs, ThreadInv, MenuRunsAlone, OneThread
<1>2. Cardinality(Running) >= 1
  <2>1. Cardinality(Running) # 0
    BY <1>1, RunningFinite, FS_EmptySet, Zenon
  <2> QED BY <2>1, RunningFinite
<1>3. ThreadType'
  BY <1>1, <1>2, RunningFinite DEF RunFails, ThreadInv, ThreadType, CountIsRunning
<1>4. CASE panic' # "none"
  <2>1. UNCHANGED <<pc, thread_count, kthreads, tc>>
    BY <1>4 DEF RunFails, proc_destroy
  <2>2. Running' = Running
    BY <2>1 DEF Running
  <2> QED BY <1>3, <1>4, <2>1, <2>2
          DEF ThreadInv, CountIsRunning, OneThread, TcIsBase, MenuRunsAlone
<1>5. CASE panic' = "none"
  <2>1. pc' = [pc EXCEPT ![p] = "absent"] /\ thread_count' = thread_count - 1 /\ UNCHANGED <<kthreads, tc>>
    BY <1>5 DEF RunFails, proc_destroy
  <2>2. Running' = Running \ {p}
    BY <1>1, <2>1 DEF Running, StructInv, TypeStruct, Procs
  <2>3. Cardinality(Running \ {p}) = Cardinality(Running) - 1
    BY <1>1, RunningFinite, FS_RemoveElement, Zenon
  <2>4. CountIsRunning'
    BY <2>1, <2>2, <2>3, <1>2, RunningFinite DEF ThreadInv, ThreadType, CountIsRunning
  <2>5. OneThread'
    BY <1>1, <2>1, <2>2 DEF RunFails, ThreadInv, ThreadType, OneThread, Procs
  <2>6. TcIsBase' /\ MenuRunsAlone'
    BY <1>1, <2>1 DEF ThreadInv, TcIsBase, MenuRunsAlone, StructInv, TypeStruct, Procs
  <2> QED BY <1>3, <2>4, <2>5, <2>6 DEF ThreadInv
<1> QED BY <1>4, <1>5

\* Every step keeps ThreadInv.
LEMMA StepThread == StructInv /\ ThreadInv /\ [Next]_vars => ThreadInv'
<1> SUFFICES ASSUME StructInv, ThreadInv, [Next]_vars PROVE ThreadInv'
  OBVIOUS
<1> USE ProcAssumption
<1>1. CASE UNCHANGED vars
  BY <1>1 DEF vars, threadVars, ThreadInv, ThreadType, CountIsRunning, OneThread, TcIsBase,
     MenuRunsAlone, Running
<1>2. CASE Next
  <2> USE <1>2
  <2>0. panic = "none" /\ KProc \in Procs
    BY DEF Next, Procs
  <2>1. ASSUME NEW p \in Procs, Create(p) PROVE ThreadInv'
    <3>1. PICK q \in UProcs : NewProc(p, q)
      BY <2>1 DEF Create
    <3>2. Running' = Running
      BY <2>1, <3>1 DEF Create, NewProc, Running, StructInv, TypeStruct, KernelInMenu, Procs
    <3>3. UNCHANGED threadVars /\ ((pc[KProc] = "mwait") <=> (pc'[KProc] = "mwait"))
      BY <2>1, <3>1 DEF Create, NewProc, StructInv, TypeStruct, KernelInMenu, Procs
    <3> QED BY <2>0, <3>2, <3>3, SameThreads
  <2>2. ASSUME NEW p \in Procs, NEW l \in Labels, pc' = [pc EXCEPT ![p] = l],
               pc[p] \notin {"absent", "embryo", "mwait"}, l \notin {"absent", "embryo", "mwait"},
               UNCHANGED threadVars
        PROVE  ThreadInv'
    <3>1. Running' = Running /\ ((pc[KProc] = "mwait") <=> (pc'[KProc] = "mwait"))
      BY <2>2 DEF Running, StructInv, TypeStruct, Procs
    <3> QED BY <2>0, <2>2, <3>1, SameThreads
  <2>3. ASSUME NEW p \in Procs, Add(p) \/ AddAgain(p) \/ CopyAs(p) \/ CopyFt(p) \/ Return(p) \/ RunStarts(p)
        PROVE  ThreadInv'
    BY <2>2, <2>3 DEF Add, AddAgain, CopyAs, CopyFt, Return, RunStarts, Labels
  <2>4. ASSUME NEW p \in Procs, ForkFails(p) PROVE ThreadInv'
    <3> DEFINE pc2 == [pc EXCEPT ![p] = "user"]
               child2 == [child EXCEPT ![p] = NULL]
               g == (pc[p] # "copyas")
    <3>1. p # KProc /\ child[p] \in UProcs /\ pc[child[p]] = "embryo"
      BY <2>4 DEF ForkFails, StructInv, ChildIsEmbryo, Creating
    <3>2. /\ pc2 \in [Procs -> Labels]
          /\ \A r \in UProcs : pc2[r] \in {"absent", "embryo"} <=> pc[r] \in {"absent", "embryo"}
          /\ pc2[KProc] = "mwait" <=> pc[KProc] = "mwait"
      BY <2>4, <3>1 DEF ForkFails, StructInv, TypeStruct, Labels, Procs
    <3>3. proc_destroy(child[p], pc2, child2, g) /\ UNCHANGED threadVars
      BY <2>4 DEF ForkFails
    <3> HIDE DEF pc2, child2, g
    <3> QED BY <2>0, <3>1, <3>2, <3>3, DestroyThread
  <2>5. CASE MenuSpawnFails
    <3> DEFINE pc2 == [pc EXCEPT ![KProc] = "menu"]
               child2 == [child EXCEPT ![KProc] = NULL]
    <3>1. child[KProc] \in UProcs /\ pc[child[KProc]] = "embryo"
      BY <2>0, <2>5 DEF MenuSpawnFails, StructInv, ChildIsEmbryo, Creating
    <3>2. /\ pc2 \in [Procs -> Labels]
          /\ \A r \in UProcs : pc2[r] \in {"absent", "embryo"} <=> pc[r] \in {"absent", "embryo"}
          /\ pc2[KProc] = "mwait" <=> pc[KProc] = "mwait"
      BY <2>5 DEF MenuSpawnFails, StructInv, TypeStruct, Labels, Procs
    <3>3. proc_destroy(child[KProc], pc2, child2, FALSE) /\ UNCHANGED threadVars
      BY <2>5 DEF MenuSpawnFails
    <3> HIDE DEF pc2, child2
    <3> QED BY <2>0, <3>1, <3>2, <3>3, DestroyThread
  <2>6. ASSUME NEW p \in Procs, Spawn(p) PROVE ThreadInv'
    BY <2>0, <2>6, SpawnThread DEF Spawn
  <2>7. CASE MenuSpawn
    BY <2>0, <2>7, SpawnThread DEF MenuSpawn
  <2>8. ASSUME NEW p \in Procs, RunFails(p) PROVE ThreadInv'
    BY <2>0, <2>8, RunFailsThread
  <2>9. CASE MenuBack
    <3>1. Cardinality(Running) = 0
      BY <2>9, RunningFinite DEF MenuBack, ThreadInv, ThreadType, TcIsBase, CountIsRunning
    <3>2. Running = {}
      BY <3>1, RunningFinite, FS_EmptySet, Zenon
    <3>3. Running' = Running
      BY <2>9 DEF MenuBack, Running, StructInv, TypeStruct, Procs
    <3>4. MenuRunsAlone'
      BY <3>2, <3>3 DEF MenuRunsAlone, Running
    <3>5. pc'[KProc] = "menu"
      BY <2>0, <2>9 DEF MenuBack, StructInv, TypeStruct
    <3>6. TcIsBase'
      BY <3>5 DEF TcIsBase
    <3> QED BY <2>9, <3>3, <3>4, <3>6
            DEF MenuBack, threadVars, ThreadInv, ThreadType, CountIsRunning, OneThread
  <2>10. CASE MenuTest
    <3>1. Running' = Running
      BY <2>10 DEF MenuTest, Running
    <3> QED BY <2>0, <2>10, <3>1, RunningFinite DEF MenuTest, ThreadInv, ThreadType, CountIsRunning,
            OneThread, TcIsBase, MenuRunsAlone, Procs
  <2>11. ASSUME panic' # "none", UNCHANGED <<pc, thread_count, kthreads, tc>>, p_numthreads' \in [Procs -> Nat]
         PROVE  ThreadInv'
    <3>1. Running' = Running
      BY <2>11 DEF Running
    <3> QED BY <2>11, <3>1 DEF ThreadInv, ThreadType, CountIsRunning, OneThread, TcIsBase, MenuRunsAlone
  <2>12. ASSUME NEW p \in Procs, ForkNoProc(p) \/ ReturnFaults(p) \/ sys_exit(p) PROVE ThreadInv'
    BY <2>11, <2>12 DEF ForkNoProc, ReturnFaults, sys_exit, threadVars, ThreadInv, ThreadType
  <2>13. CASE KThreadExit
    <3>0. p_numthreads[KProc] = 1 + kthreads /\ kthreads \in Nat
      BY <2>0, Zenon DEF ThreadInv, ThreadType, OneThread
    <3>1. p_numthreads[KProc] - 1 \in Nat
      BY <3>0
    <3>2. p_numthreads' \in [Procs -> Nat]
      BY <2>13, <3>1 DEF KThreadExit, ThreadInv, ThreadType
    <3> QED BY <2>11, <2>13, <3>2 DEF KThreadExit
  <2> QED BY <2>1, <2>3, <2>4, <2>5, <2>6, <2>7, <2>8, <2>9, <2>10, <2>12, <2>13 DEF Next, Step
<1> QED BY <1>1, <1>2

(***************************************************************************)
(* The theorems.                                                           *)
(***************************************************************************)
\* IInv is an invariant of the process table, for any number of pids and processes.
THEOREM Invariance == Spec => []IInv
<1>1. Init => IInv
  BY InitStruct, InitCount, InitThread DEF IInv
<1>2. IInv /\ [Next]_vars => IInv'
  BY StepStruct, StepCount, StepThread DEF IInv
<1> QED BY <1>1, <1>2, PTL DEF Spec

\* Pids stay inside the array procs and the counters never go below zero.
THEOREM TypeCorrect == Spec => []TypeOK
<1>1. IInv => TypeOK
  BY DEF IInv, StructInv, TypeStruct, CountInv, ThreadInv, ThreadType, TypeOK
<1> QED BY <1>1, Invariance, PTL

\* What find_process returns is in use and has the pid that was asked for.
THEOREM EntriesAreLive == Spec => []EntriesMatch
<1>1. IInv => EntriesMatch
  BY DEF IInv, StructInv
<1> QED BY <1>1, Invariance, PTL

\* active_procs is never less than the number of entries.
THEOREM CountCovers == Spec => []CountCoversTable
<1>1. IInv => CountCoversTable
  BY DEF IInv, CountInv
<1> QED BY <1>1, Invariance, PTL

\* thread_wait_for_count keeps the menu from its prompt while a process runs.
THEOREM MenuWaitsForAll == Spec => []MenuRunsAlone
<1>1. IInv => MenuRunsAlone
  BY DEF IInv, ThreadInv
<1> QED BY <1>1, Invariance, PTL
=============================================================================
