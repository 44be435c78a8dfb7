---------------------------- MODULE OrderedList ----------------------------
(***************************************************************************)
(* What kern/concurrent_list/linked_list.c promises (linked_list.h): a     *)
(* sequence of keyed items whose keys never decrease.                      *)
(***************************************************************************)
EXTENDS Integers, Sequences

CONSTANTS Data, InsertKeys, NULL

VARIABLES
    items,      \* the [key, data] records of the list, in order
    ret         \* what the last remove_head returned: a record or NULL

listVars == <<items, ret>>

Ordered(s) == \A i, j \in DOMAIN s : i < j => s[i].key <= s[j].key

MinKey(s) == CHOOSE k \in {s[i].key : i \in DOMAIN s} : \A j \in DOMAIN s : k <= s[j].key

ListInit == items = <<>> /\ ret = NULL

\* linked_list.h: the key is the minimum minus one, or 0 in an empty list.
PrependItem(d) ==
    /\ items' = <<[key |-> IF items = <<>> THEN 0 ELSE MinKey(items) - 1, data |-> d]>> \o items
    /\ UNCHANGED ret

\* The item goes to some place at which the keys are in order.
InsertItem(k, d) ==
    /\ \E i \in 0 .. Len(items) :
          items' = SubSeq(items, 1, i) \o <<[key |-> k, data |-> d]>>
                       \o SubSeq(items, i + 1, Len(items))
    /\ Ordered(items')
    /\ UNCHANGED ret

RemoveFirst ==
    \/ items = <<>> /\ ret' = NULL /\ UNCHANGED items
    \/ items # <<>> /\ ret' = Head(items) /\ items' = Tail(items)

\* The other items keep their order; all their keys go down by one.
RemoveItem(n) ==
    /\ items' = [i \in 1 .. Len(items) - 1 |->
                    LET it == IF i < n THEN items[i] ELSE items[i + 1] IN
                    [it EXCEPT !.key = @ - 1]]
    /\ UNCHANGED ret

Clear == items' = <<>> /\ UNCHANGED ret

ListNext ==
    \/ \E d \in Data : PrependItem(d)
    \/ \E k \in InsertKeys, d \in Data : InsertItem(k, d)
    \/ RemoveFirst
    \/ \E n \in DOMAIN items : RemoveItem(n)
    \/ Clear

ListSpec == ListInit /\ [][ListNext]_listVars
=============================================================================
