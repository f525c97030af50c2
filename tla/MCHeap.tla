------------------------------- MODULE MCHeap --------------------------------
(* An instance of Heap for TLC.  The ints of an available block after its   *)
(* links, and those of a taken block that its caller did not ask for, are   *)
(* never read: states that differ in them are one.                          *)
EXTENDS Heap

View ==
  <<where, heap_count, live,
    IF Tiled /\ Linked /\ Intact THEN <<AvailList(heap), [i \in Blocks |-> heap.array[i]]>>
                                 ELSE <<heap>>>>
==============================================================================
