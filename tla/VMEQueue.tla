------------------------------ MODULE VMEQueue -------------------------------
(***************************************************************************)
(* kernel/queue.h: VMEQueue, the mapped regions of a process, a linked list *)
(* in order of address, here a sequence.  Addresses are page numbers; sums  *)
(* wrap at W, the number of pages of the 32-bit address space.              *)
(***************************************************************************)
EXTENDS Integers, SequencesExt

CONSTANTS W,            \* 2^20
          Lo,           \* 0x80000000, in pages
          Hi            \* 0xF0000000, in pages

ASSUME RangeAssumption == 0 < Lo /\ Lo < Hi /\ Hi < W

Plus(a, b) == (a + b) % W

VME(addr, size) == [start |-> addr, end |-> Plus(addr, size), size |-> size]

(* Mutant of intersects_queue: only the start of the new region is tested.  *)
intersects_queue_start(q, addr, size) ==
  \E i \in DOMAIN q : addr < q[i].end /\ addr >= q[i].start

intersects_queue(q, addr, size) ==
  \E i \in DOMAIN q : addr < q[i].end /\ Plus(addr, size) >= q[i].start

(* The position at which the loops over "next" stop.                        *)
Stop(q, fits) == Min(fits \cup {Len(q) + 1})

(* First fit: start_address is Lo, then the end of each region in turn.     *)
FirstFit(q, size) ==
  LET From(i) == IF i = 1 THEN Lo ELSE q[i - 1].end
      at == Stop(q, {i \in DOMAIN q : q[i].start >= Plus(From(i), size)})
  IN [at |-> at, start |-> From(at)]

(* add_vme: the address, or 0, and the queue after it.                      *)
add_vme(q, vme) ==
  LET fit == FirstFit(q, vme.size)
      end == Plus(fit.start, vme.size)
      at == Stop(q, {i \in DOMAIN q : q[i].start >= vme.end})
  IN IF vme.size = 0 THEN [va |-> 0, queue |-> q]
     ELSE IF vme.start # 0
       THEN [va |-> vme.start, queue |-> InsertAt(q, at, vme)]
     ELSE IF end > Hi \/ end < fit.start THEN [va |-> 0, queue |-> q]
       ELSE [va |-> fit.start,
             queue |-> InsertAt(q, fit.at, VME(fit.start, vme.size))]

(* remove: the position of the first region that holds addr, 0 if none.     *)
position(q, addr) ==
  LET at == Stop(q, {i \in DOMAIN q : addr < q[i].end /\ addr >= q[i].start})
  IN IF at > Len(q) THEN 0 ELSE at

deep_copy(q) ==
  FoldLeft(LAMBDA copy, v : add_vme(copy, VME(v.start, v.size)).queue,
           << >>, Reverse(q))

(* contains_range(start, end), both ends included.                          *)
contains_range(q, start, end) ==
  FoldLeft(LAMBDA s, v :
             IF s.found \/ ~(s.start >= v.start /\ s.start < v.end) THEN s
             ELSE [start |-> v.end, found |-> end < v.end],
           [start |-> start, found |-> FALSE], q).found
==============================================================================
