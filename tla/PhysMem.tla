------------------------------- MODULE PhysMem -------------------------------
(***************************************************************************)
(* kernel/physmem.cc: the frame allocator.  Physical memory is a value m:   *)
(* m.mem[f] is the contents of frame f as words (page directories and page  *)
(* tables are frames), m.firstFree the free list threaded through word 0 of *)
(* the free frames, m.avail the first frame never handed out.  Frame 0 is   *)
(* no frame.  Each call holds the lock throughout, so calls are atomic.     *)
(***************************************************************************)
EXTENDS Integers

CONSTANTS Limit,        \* limit, in frames: the last is Limit - 1
          Words         \* words in a frame (1024)

Frame == 1 .. Limit - 1
Word == 0 .. Words - 1
Zero == [i \in Word |-> 0]

(* Mutant of alloc_frame: no bzero.                                         *)
alloc_frame_dirty(m) ==
  IF m.firstFree # 0
    THEN [m EXCEPT !.frame = m.firstFree, !.firstFree = m.mem[m.firstFree][0]]
  ELSE IF m.avail = Limit
    THEN [m EXCEPT !.panic = TRUE]
    ELSE [m EXCEPT !.frame = m.avail, !.avail = @ + 1]

(* The frame is in m.frame afterwards; without one the kernel panics.       *)
alloc_frame(m) ==
  IF m.firstFree # 0
    THEN [m EXCEPT !.frame = m.firstFree, !.firstFree = m.mem[m.firstFree][0],
                   !.mem[m.firstFree] = Zero]
  ELSE IF m.avail = Limit
    THEN [m EXCEPT !.panic = TRUE]
    ELSE [m EXCEPT !.frame = m.avail, !.avail = @ + 1, !.mem[m.avail] = Zero]

dealloc_frame(m, f) ==
  [m EXCEPT !.mem[f][0] = m.firstFree, !.firstFree = f]

(* init; nothing is known of the contents of memory.                        *)
Garbage == [i \in Word |-> 1]
init == [mem |-> [f \in Frame |-> Garbage], firstFree |-> 0, avail |-> 1,
         frame |-> 0, panic |-> FALSE]
==============================================================================
