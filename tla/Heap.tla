-------------------------------- MODULE Heap ---------------------------------
(***************************************************************************)
(* kernel/heap.cc, and the heap of user programs (sbin/heap.c), which       *)
(* differs in its search and in having realloc.  Blocks have their size in  *)
(* ints, negative when taken, in their first and last int; available blocks *)
(* are linked through the two ints after the first.  A call holds theLock   *)
(* (or runs in a one-threaded program), so it is one step.  The caller      *)
(* fills what it got, to see whether the heap writes there.                 *)
(***************************************************************************)
EXTENDS Integers, SequencesExt

CONSTANTS len,          \* ints in the array
          Tries,        \* fitting blocks the kernel's search compares (20)
          SizeT,        \* values of a size_t (2^32)
          Bytes         \* sizes that are asked for

(* The three largest sizes, for which bytes + 3 wraps and the block is the  *)
(* smallest there is, are left out: nothing in src/ asks for them.          *)
ASSUME HeapAssumption ==
  /\ len > 8 /\ Tries > 0
  /\ Bytes \subseteq 1 .. SizeT - 4

VARIABLES where,        \* "kernel" or "user": which of the two heaps
          heap,         \* array and avail
          heap_count,   \* kernel only
          live          \* history: index -> ints the caller may use

vars == <<where, heap, heap_count, live>>

(* Helpers on h, a value of heap.                                           *)
abs(x) == IF x < 0 THEN -x ELSE x
size(h, i) == abs(h.array[i])
headerFromFooter(h, i) == i - size(h, i) + 1
footerFromHeader(h, i) == i + size(h, i) - 1
left(h, i) == headerFromFooter(h, i - 1)
right(h, i) == i + size(h, i)
next(h, i) == h.array[i + 1]
prev(h, i) == h.array[i + 2]
isAvail(h, i) == h.array[i] > 0
isTaken(h, i) == h.array[i] < 0
Set(h, i, x) == [h EXCEPT !.array[i] = x]
setNext(h, i, x) == Set(h, i + 1, x)
setPrev(h, i, x) == Set(h, i + 2, x)

remove(h, i) ==
  LET h1 == IF prev(h, i) = 0 THEN [h EXCEPT !.avail = next(h, i)]
                              ELSE setNext(h, prev(h, i), next(h, i))
  IN IF next(h, i) # 0 THEN setPrev(h1, next(h, i), prev(h, i)) ELSE h1

Tags(h, i, x) == Set(Set(h, i, x), i + abs(x) - 1, x)
makeTaken(h, i, ints) == Tags(h, i, -ints)
makeAvail(h, i, ints) ==
  LET h1 == setPrev(setNext(Tags(h, i, ints), i, h.avail), i, 0)
      h2 == IF h.avail # 0 THEN setPrev(h1, h.avail, i) ELSE h1
  IN [h2 EXCEPT !.avail = i]

(* heap_init; the ints between the tags are whatever was there.             *)
heap_init ==
  LET h == [array |-> [i \in 0 .. len - 1 |-> 0], avail |-> 0]
  IN makeTaken(makeAvail(makeTaken(h, 0, 2), 2, len - 4), len - 2, 2)

(* The loop over p = avail, next(p), ...: the available blocks in order.    *)
AvailList(h) ==
  LET upto[n \in 0 .. len] ==
        IF n = 0 THEN IF h.avail = 0 THEN << >> ELSE <<h.avail>>
        ELSE LET s == upto[n - 1]
             IN IF Len(s) < n \/ next(h, Last(s)) = 0 THEN s ELSE Append(s, next(h, Last(s)))
  IN upto[len]

(* Ints of a block for so many bytes, its tags included; the sum is a       *)
(* size_t.                                                                  *)
Ints(bytes) == Max({((bytes + 3) % SizeT) \div 4 + 2, 4})

(* The search for a block; 0 if none is large enough.                       *)
Fitting(h, ints) == SelectSeq(AvailList(h), LAMBDA p : size(h, p) >= ints)
BestOf(h, blocks) ==
  blocks[Min({k \in DOMAIN blocks :
                \A j \in DOMAIN blocks : size(h, blocks[k]) <= size(h, blocks[j])})]

(* The user's heap takes the first block that fits (and so does a mutant of *)
(* Search), the kernel's the smallest of the first Tries that do.           *)
SearchFirst(h, ints) ==
  LET fit == Fitting(h, ints) IN IF fit = << >> THEN 0 ELSE fit[1]

Search(h, ints) ==
  LET fit == Fitting(h, ints)
  IN IF fit = << >> THEN 0 ELSE BestOf(h, SubSeq(fit, 1, Min({Tries, Len(fit)})))

(* Mutant of Split: a rest too small for its links becomes a block.         *)
SplitSmall(h, it, ints) ==
  LET extra == size(h, it) - ints
      h1 == remove(h, it)
  IN IF extra >= 2 THEN makeAvail(makeTaken(h1, it, ints), it + ints, extra)
                   ELSE makeTaken(h1, it, size(h, it))

Split(h, it, ints) ==
  LET extra == size(h, it) - ints
      h1 == remove(h, it)
  IN IF extra >= 4 THEN makeAvail(makeTaken(h1, it, ints), it + ints, extra)
                   ELSE makeTaken(h1, it, size(h, it))

(* free of a taken block: it is merged with its neighbours.                 *)
Coalesce(h, idx) ==
  LET l == left(h, idx)
      r == right(h, idx)
      h1 == IF isAvail(h, l) THEN remove(h, l) ELSE h
      h2 == IF isAvail(h, r) THEN remove(h1, r) ELSE h1
      from == IF isAvail(h, l) THEN l ELSE idx
      sz == size(h, idx) + (IF isAvail(h, l) THEN size(h, l) ELSE 0)
              + (IF isAvail(h, r) THEN size(h, r) ELSE 0)
  IN makeAvail(h2, from, sz)

----------------------------------------------------------------------------
(* What a caller does with its ints, from one of them on.                   *)
Payload(bytes) == (bytes + 3) \div 4
Mark == len
Fill(h, it, from, ints) ==
  [h EXCEPT !.array = [i \in DOMAIN @ |-> IF i \in it + from .. it + ints THEN Mark ELSE @[i]]]

(* The kernel's heap begins with one block taken, by new SpinLock().        *)
heapInit == Fill(Split(heap_init, 2, Ints(1)), 2, 1, Payload(1))

Permanent == IF where = "kernel" THEN {2} ELSE {}
Init ==
  /\ where \in {"kernel", "user"}
  /\ heap = IF where = "user" THEN heap_init ELSE heapInit
  /\ heap_count = Cardinality(Permanent)
  /\ live = [i \in Permanent |-> Payload(1)]

(* A block is taken and filled; 0, and no change, when nothing fits.        *)
Allocate(it, bytes) ==
  /\ it # 0
  /\ heap' = Fill(Split(heap, it, Ints(bytes)), it, 1, Payload(bytes))
  /\ live' = (it :> Payload(bytes)) @@ live
  /\ UNCHANGED where

Forget(idx) == [i \in DOMAIN live \ {idx} |-> live[i]]
Release(idx) ==
  /\ heap' = Coalesce(heap, idx)
  /\ live' = Forget(idx)
  /\ UNCHANGED where

(* malloc(bytes), and free(p) of a block that is live, in the kernel.       *)
malloc(bytes) ==
  /\ where = "kernel"
  /\ Allocate(Search(heap, Ints(bytes)), bytes)
  /\ heap_count' = heap_count + 1

free(idx) ==
  /\ where = "kernel"
  /\ Release(idx)
  /\ heap_count' = heap_count - 1

(* And in a user program.                                                   *)
user_malloc(bytes) ==
  /\ where = "user"
  /\ Allocate(SearchFirst(heap, Ints(bytes)), bytes)
  /\ UNCHANGED heap_count

user_free(idx) == where = "user" /\ Release(idx) /\ UNCHANGED heap_count

(* Mutant of Copied: the copy starts at the header.                         *)
CopiedHeader(h, idx, it, newSize) ==
  [h EXCEPT !.array = [i \in DOMAIN @ |->
     IF i \in it + 1 .. it + Payload(Min({newSize, size(h, idx) * 4}))
       THEN h.array[idx + i - it - 1] ELSE @[i]]]

(* memcpy of min(newSize, 4 * size) bytes, the old block's tags included    *)
(* (the last int counts as copied when a part of it is).                    *)
Copied(h, idx, it, newSize) ==
  [h EXCEPT !.array = [i \in DOMAIN @ |->
     IF i \in it + 1 .. it + Payload(Min({newSize, size(h, idx) * 4}))
       THEN h.array[idx + i - it] ELSE @[i]]]

(* realloc(p, newSize), newSize # 0: allocate, copy, free.  If there is no  *)
(* room the old block is freed all the same.  Then the caller fills what it *)
(* gained.                                                                  *)
realloc(idx, newSize) ==
  LET it == SearchFirst(heap, Ints(newSize))
      copy == Copied(Split(heap, it, Ints(newSize)), idx, it, newSize)
  IN /\ where = "user"
     /\ IF it = 0 THEN heap' = Coalesce(heap, idx) /\ live' = Forget(idx)
        ELSE /\ heap' = Fill(Coalesce(copy, idx), it, live[idx] + 1, Payload(newSize))
             /\ live' = (it :> Payload(newSize)) @@ Forget(idx)
     /\ UNCHANGED <<where, heap_count>>

Next == \/ \E bytes \in Bytes : malloc(bytes) \/ user_malloc(bytes)
        \/ \E idx \in DOMAIN live \ Permanent : free(idx) \/ user_free(idx)
        \/ \E idx \in DOMAIN live, bytes \in Bytes : realloc(idx, bytes)

Spec == Init /\ [][Next]_vars

----------------------------------------------------------------------------
(* The blocks found by stepping over sizes from the first sentinel.         *)
Headers ==
  LET upto[n \in 0 .. len] ==
        IF n = 0 THEN <<0>>
        ELSE LET s == upto[n - 1]
             IN IF Last(s) >= len THEN s ELSE Append(s, right(heap, Last(s)))
  IN upto[len]
Blocks == {Headers[k] : k \in 1 .. Len(Headers) - 1}

(* The blocks cover the array exactly, with equal tags at both ends; the    *)
(* taken ones are the sentinels and what callers hold, which heap_count     *)
(* counts.                                                                  *)
Tiled ==
  /\ Last(Headers) = len
  /\ \A i \in Blocks : heap.array[i] # 0 /\ heap.array[footerFromHeader(heap, i)] = heap.array[i]
  /\ {i \in Blocks : isTaken(heap, i)} = {0, len - 2} \cup DOMAIN live
  /\ where = "kernel" => heap_count = Cardinality(DOMAIN live)

(* Callers have the room they asked for, and the heap writes none of it; a  *)
(* block that realloc moved keeps its contents.                             *)
Intact ==
  \A i \in DOMAIN live :
    /\ live[i] + 2 <= size(heap, i)
    /\ \A j \in 1 .. live[i] : heap.array[i + j] = Mark

(* The list has every available block once, linked both ways.               *)
Linked ==
  LET list == AvailList(heap) IN
  /\ IsInjective(list) /\ Range(list) = {i \in Blocks : isAvail(heap, i)}
  /\ \A k \in DOMAIN list : prev(heap, list[k]) = IF k = 1 THEN 0 ELSE list[k - 1]

(* Memory is not lost to fragments: neighbours are not both available, so   *)
(* the heap is whole again when everything has been freed.                  *)
Whole ==
  /\ \A i \in Blocks : isAvail(heap, i) => ~isAvail(heap, right(heap, i))
  /\ DOMAIN live = {} => heap.array[2] = len - 4

(* malloc fails only if no block is large enough, and the kernel's takes    *)
(* the smallest that is when at most Tries are: it is not the first-fit     *)
(* heap that the comment at the top of heap.cc calls it (see FirstFits).    *)
Serves ==
  \A bytes \in Bytes :
    LET it == IF where = "user" THEN SearchFirst(heap, Ints(bytes))
                                ELSE Search(heap, Ints(bytes))
        enough == {i \in Blocks : isAvail(heap, i) /\ heap.array[i] >= Ints(bytes)}
    IN /\ it = 0 <=> enough = {}
       /\ where = "kernel" /\ Cardinality(enough) \in 1 .. Tries =>
            it \in enough /\ \A i \in enough : size(heap, it) <= size(heap, i)

(* "A first-fit heap" (heap.cc, line 6): the search ends at the first block *)
(* of the list that is large enough.  The kernel's departs from it.         *)
FirstFits ==
  where = "kernel" => \A bytes \in Bytes :
    Search(heap, Ints(bytes)) = SearchFirst(heap, Ints(bytes))

(* What malloc, free and realloc keep of the array and the list, and what   *)
(* the search makes of it.                                                  *)
WellFormed == Tiled /\ Linked /\ Whole /\ Serves
==============================================================================
