---------------------------- MODULE BoundedStack ---------------------------
(***************************************************************************)
(* What the shared buffer promises (kern/include/shared_buffer.h): produce *)
(* adds an item when there is space, consume returns an item when there is *)
(* one, each as a single step.  Items come out youngest first, because     *)
(* produce prepends to the list and consume removes its head.              *)
(***************************************************************************)
EXTENDS Naturals, Sequences

CONSTANTS Producers, Consumers, Size

VARIABLES
    stack,      \* the items in the buffer, youngest first
    put,        \* put[p]: how many items p has added; its next item is <<p, put[p] + 1>>
    got         \* got[c]: the items c has received, in order

stackVars == <<stack, put, got>>

StackInit ==
    /\ stack = <<>>
    /\ put = [p \in Producers |-> 0]
    /\ got = [c \in Consumers |-> <<>>]

Put(p) ==
    /\ Len(stack) < Size
    /\ put' = [put EXCEPT ![p] = @ + 1]
    /\ stack' = <<<<p, put[p] + 1>>>> \o stack
    /\ UNCHANGED got

Get(c) ==
    /\ stack # <<>>
    /\ got' = [got EXCEPT ![c] = Append(@, Head(stack))]
    /\ stack' = Tail(stack)
    /\ UNCHANGED put

StackNext == (\E p \in Producers : Put(p)) \/ (\E c \in Consumers : Get(c))

StackSpec == StackInit /\ [][StackNext]_stackVars
=============================================================================
