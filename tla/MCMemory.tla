------------------------------ MODULE MCMemory -------------------------------
(* An instance of Memory for TLC: an address space of 16 pages, of which    *)
(* 8 .. 11 are the user's, in two tables.                                   *)
EXTENDS Memory

MCElf == [start |-> 8, end |-> 9]
MCRegions == {<<0, 2>>, <<8, 2>>, <<15, 2>>}

(* Which frame is used where makes no difference as long as no two uses     *)
(* share one, nor what a process that has exited had mapped, nor which      *)
(* translations are stale as long as none is used.                          *)
Tables(p) == {i \in Range(UserTables) : phys.mem[page_directory[p]][i] # 0}
Contents(p) == [page \in {q \in UserPages : FrameOf(phys, page_directory[p], q) # 0} |->
                  phys.mem[FrameOf(phys, page_directory[p], page)][0]]
View ==
  IF strayed \/ phys.panic THEN <<strayed, phys.panic>> ELSE
  <<IF OneUse THEN << >> ELSE phys, execd \cap alive, Cardinality(FreeFrames) + Limit - phys.avail,
    [p \in alive |-> <<queue[p], shadow[p], tlb[p] = {}, Tables(p), Contents(p)>>],
    {p \in Proc : page_directory[p] = 0}>>
==============================================================================
