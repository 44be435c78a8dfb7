--------------------------- MODULE MCSharedBuffer --------------------------
(***************************************************************************)
(* Two producers and two consumers, as in shared_buffer_test.c, with fewer *)
(* items.  Each side makes more calls than the buffer has slots, so that   *)
(* both threads of a side can be asleep and both slots change meanwhile.   *)
(***************************************************************************)
EXTENDS SharedBuffer

CONSTANTS ItemsEach     \* the test's 10

MCLoad == [t \in Threads |-> ItemsEach]
=============================================================================
