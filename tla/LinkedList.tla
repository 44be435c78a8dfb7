----------------------------- MODULE LinkedList ----------------------------
(***************************************************************************)
(* The doubly linked list of kern/concurrent_list/linked_list.c, with its  *)
(* pointers.  Every operation runs from start to end under ll_lock (the    *)
(* thread_yield calls of the test modes are made with the lock held), so   *)
(* each is one step.                                                       *)
(***************************************************************************)
EXTENDS Integers, FiniteSets, Sequences

CONSTANTS
    Nodes,          \* the memory kmalloc can hand out for nodes
    NULL,           \* the null pointer, and the data of an empty list
    Data,           \* what callers store
    InsertKeys,     \* the keys callers pass to linked_list_insert
    LowestKey       \* bound on the keys: prepend and remove stop here

ASSUME ListAssumption ==
    /\ NULL \notin Nodes
    /\ NULL \notin Data
    /\ IsFiniteSet(Nodes)
    /\ InsertKeys \subseteq Int
    /\ LowestKey \in Int

VARIABLES
    heap,       \* the allocated nodes: a function from nodes to their fields
    first, last, length,    \* the fields of the list
    ret,        \* what the last linked_list_remove_head returned
    destroyed   \* linked_list_destroy has run

linkedVars == <<heap, first, last, length, ret, destroyed>>

Allocated == DOMAIN heap

LinkedInit ==
    /\ heap = [n \in {} |-> NULL]
    /\ first = NULL
    /\ last = NULL
    /\ length = 0
    /\ ret = NULL
    /\ destroyed = FALSE

\* linked_list_create_node: n is fresh memory.
linked_list_create_node(n, k, d, nxt, prv) ==
    [m \in Allocated \cup {n} |->
        IF m = n THEN [next |-> nxt, prev |-> prv, key |-> k, data |-> d] ELSE heap[m]]

kfree(h, n) == [m \in DOMAIN h \ {n} |-> h[m]]

(***************************************************************************)
(* linked_list_prepend.                                                    *)
(***************************************************************************)
PrependEmpty(n, d) ==
    /\ first = NULL
    /\ heap' = linked_list_create_node(n, 0, d, NULL, NULL)
    /\ first' = n
    /\ last' = n

\* Fault: the old first node keeps its null prev.
PrependFrontNoBackLink(n, d) ==
    /\ first # NULL
    /\ heap[first].key > LowestKey
    /\ heap' = linked_list_create_node(n, heap[first].key - 1, d, first, NULL)
    /\ first' = n
    /\ UNCHANGED last

PrependFront(n, d) ==
    /\ first # NULL
    /\ heap[first].key > LowestKey
    /\ heap' = [linked_list_create_node(n, heap[first].key - 1, d, first, NULL)
                   EXCEPT ![first].prev = n]
    /\ first' = n
    /\ UNCHANGED last

linked_list_prepend(n, d) ==
    /\ n \notin Allocated
    /\ PrependEmpty(n, d) \/ PrependFront(n, d)
    /\ length' = length + 1
    /\ UNCHANGED ret

(***************************************************************************)
(* linked_list_insert.                                                     *)
(***************************************************************************)
InsertEmpty(n, k, d) ==
    /\ first = NULL
    /\ heap' = linked_list_create_node(n, k, d, NULL, NULL)
    /\ first' = n
    /\ last' = n

InsertFront(n, k, d) ==
    /\ first # NULL
    /\ heap[first].key > k
    /\ heap' = [linked_list_create_node(n, k, d, first, NULL) EXCEPT ![first].prev = n]
    /\ first' = n
    /\ UNCHANGED last

\* Fault: the loop compares the runner's own key.
RunnerLate(k) ==
    LET walk[i \in 1 .. length] ==
            IF i = 1 THEN first
            ELSE LET r == walk[i - 1] IN
                 IF heap[r].next # NULL /\ heap[r].key < k THEN heap[r].next ELSE r
    IN  walk[length]

\* The node after which the runner stops: the loop goes on while there is a
\* next node with a smaller key.
Runner(k) ==
    LET walk[i \in 1 .. length] ==
            IF i = 1 THEN first
            ELSE LET r == walk[i - 1] IN
                 IF heap[r].next # NULL /\ heap[heap[r].next].key < k
                 THEN heap[r].next ELSE r
    IN  walk[length]

InsertAfter(n, k, d, r) ==
    \/ /\ heap[r].next = NULL
       /\ heap' = [linked_list_create_node(n, k, d, NULL, r) EXCEPT ![r].next = n]
       /\ last' = n
       /\ UNCHANGED first
    \/ /\ heap[r].next # NULL
       /\ heap' = [linked_list_create_node(n, k, d, heap[r].next, r)
                      EXCEPT ![heap[r].next].prev = n, ![r].next = n]
       /\ UNCHANGED <<first, last>>

linked_list_insert(n, k, d) ==
    /\ n \notin Allocated
    /\ \/ InsertEmpty(n, k, d)
       \/ InsertFront(n, k, d)
       \/ /\ first # NULL
          /\ heap[first].key <= k
          /\ InsertAfter(n, k, d, Runner(k))
    /\ length' = length + 1
    /\ UNCHANGED ret

(***************************************************************************)
(* The nodes reachable from first, in order.                               *)
(***************************************************************************)
NodeAt ==
    LET walk[i \in 1 .. Cardinality(Allocated) + 1] ==
            IF i = 1 THEN first
            ELSE IF walk[i - 1] = NULL THEN NULL ELSE heap[walk[i - 1]].next
    IN  walk

Chain == {NodeAt[i] : i \in DOMAIN NodeAt} \ {NULL}

(***************************************************************************)
(* linked_list_remove_head.                                                *)
(***************************************************************************)
RemoveHeadEmpty ==
    /\ first = NULL
    /\ ret' = NULL
    /\ UNCHANGED <<heap, first, last, length>>

\* Fault: the removed node is not freed.
RemoveHeadNoFree ==
    /\ first # NULL
    /\ LET next == heap[first].next IN
       /\ heap' = IF next = NULL THEN heap ELSE [heap EXCEPT ![next].prev = NULL]
       /\ first' = next
       /\ last' = IF next = NULL THEN NULL ELSE last
    /\ ret' = [key |-> heap[first].key, data |-> heap[first].data]
    /\ length' = length - 1

RemoveHeadFirst ==
    /\ first # NULL
    /\ LET next == heap[first].next
           unlinked == IF next = NULL THEN heap ELSE [heap EXCEPT ![next].prev = NULL] IN
       /\ heap' = kfree(unlinked, first)
       /\ first' = next
       /\ last' = IF next = NULL THEN NULL ELSE last
    /\ ret' = [key |-> heap[first].key, data |-> heap[first].data]
    /\ length' = length - 1

linked_list_remove_head == RemoveHeadEmpty \/ RemoveHeadFirst

(***************************************************************************)
(* linked_list_remove.  Callers pass a node of the list, or NULL, which    *)
(* changes nothing.                                                        *)
(***************************************************************************)
\* The nodes without n, their keys not yet touched.
Unlinked(n) ==
    LET p == heap[n].prev
        q == heap[n].next
    IN  [m \in Allocated |->
            [heap[m] EXCEPT !.next = IF m = p THEN q ELSE @,
                            !.prev = IF m = q THEN p ELSE @]]

linked_list_remove(n) ==
    /\ n \in Chain
    /\ \A m \in Chain : heap[m].key > LowestKey
    /\ heap' = kfree([m \in Allocated |->
                  [Unlinked(n)[m] EXCEPT !.key = IF m \in Chain THEN @ - 1 ELSE @]], n)
    /\ first' = IF heap[n].prev = NULL THEN heap[n].next ELSE first
    /\ last' = IF heap[n].next = NULL THEN heap[n].prev ELSE last
    /\ length' = length - 1
    /\ UNCHANGED ret

(***************************************************************************)
(* linked_list_destroy frees the nodes from the front; nothing may use the *)
(* list afterwards.                                                        *)
(***************************************************************************)
linked_list_destroy ==
    /\ heap' = [m \in Allocated \ Chain |-> heap[m]]
    /\ first' = NULL
    /\ last' = NULL
    /\ length' = length - Cardinality(Chain)
    /\ destroyed' = TRUE
    /\ UNCHANGED ret

LinkedNext ==
    /\ ~destroyed
    /\ \/ /\ \/ \E n \in Nodes, d \in Data : linked_list_prepend(n, d)
             \/ \E n \in Nodes, k \in InsertKeys, d \in Data : linked_list_insert(n, k, d)
             \/ linked_list_remove_head
             \/ \E n \in Nodes : linked_list_remove(n)
          /\ UNCHANGED destroyed
       \/ linked_list_destroy

LinkedSpec == LinkedInit /\ [][LinkedNext]_linkedVars

-----------------------------------------------------------------------------
Node == [next : Nodes \cup {NULL}, prev : Nodes \cup {NULL}, key : Int, data : Data]

LinkedTypeOK ==
    /\ Allocated \subseteq Nodes
    /\ \A n \in Allocated : heap[n] \in Node
    /\ first \in Allocated \cup {NULL}
    /\ last \in Allocated \cup {NULL}
    /\ length \in 0 .. Cardinality(Nodes)
    /\ destroyed \in BOOLEAN

\* The list can be walked both ways: prev is the inverse of next, first has no
\* predecessor, last is where the walk ends, and length is the number of nodes.
WellLinked ==
    /\ LinkedTypeOK
    /\ Cardinality(Chain) = length
    /\ NodeAt[length + 1] = NULL
    /\ last = IF length = 0 THEN NULL ELSE NodeAt[length]
    /\ \A i \in 1 .. length :
          heap[NodeAt[i]].prev = IF i = 1 THEN NULL ELSE NodeAt[i - 1]

\* Every node that was allocated and not freed is on the list, and no node on
\* the list has been freed.
NoLeak == Allocated = Chain

(***************************************************************************)
(* The list as its callers see it.                                         *)
(***************************************************************************)
Items == [i \in 1 .. length |-> [key |-> heap[NodeAt[i]].key, data |-> heap[NodeAt[i]].data]]

L == INSTANCE OrderedList WITH items <- Items

\* The pointer operations implement the ordered sequence of linked_list.h:
\* insert keeps the items in order by their keys, prepend gives a key below the
\* minimum, and removing moves nothing else.
ImplementsOrderedList == L!ListSpec
=============================================================================
