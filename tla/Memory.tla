------------------------------- MODULE Memory --------------------------------
(***************************************************************************)
(* Address spaces: kernel/vmm.cc, the memory of a PCB (kernel/pcb.h) and    *)
(* the calls that change it (kernel/sys.cc: fork, execl, exit, simple_mmap, *)
(* simple_munmap; page faults).  Processes run on different cores; what     *)
(* they share is the frame allocator, whose calls are atomic, so each       *)
(* operation is one step.  Two levels of page tables are kept as words of   *)
(* physical memory.  A page holds one datum, in word 0 of its frame.        *)
(***************************************************************************)
EXTENDS VMEQueue, PhysMem, FiniteSets

CONSTANTS Proc,         \* the PCBs
          FirstProc,    \* the one kernelMain makes
          T,            \* pages of a table (1024)
          Stack,        \* pages of the stack region (0x100)
          Elf,          \* the pages of the program's only segment
          FileSize,     \* pages of the file that is mapped
          Regions,      \* the arguments <<addr, size>> of simple_mmap
          MaxRegions    \* bound: regions of a process

ASSUME MemoryAssumption ==
  /\ FirstProc \in Proc
  /\ Lo % T = 0 /\ Hi % T = 0 /\ W % T = 0 /\ Words >= W \div T /\ Words >= T
  /\ Elf.start >= Lo /\ Elf.end <= Hi - Stack

VARIABLES phys,         \* physical memory
          page_directory, \* pcb->page_directory; 0 when there is no such PCB
          queue,        \* pcb->queue
          alive,        \* processes that have not exited
          tlb,          \* tlb[p]: <<page, frame>> p's core may still hold
          shadow,       \* history: what each page of a process should hold
          execd,        \* history: p's program was started by execl
          strayed       \* history: a store went outside every mapping

vars == <<phys, page_directory, queue, alive, tlb, shadow, execd, strayed>>

Page == 0 .. W - 1
UserPages == Lo .. Hi - 1
UserTables == [i \in 1 .. (Hi - Lo) \div T |-> (Lo \div T) + i - 1]
Indices == [i \in 1 .. T |-> i - 1]
Pdi(page) == page \div T
Pti(page) == page % T

----------------------------------------------------------------------------
(* Page tables.  After a panic nothing more is done.                        *)
SetWord(m, f, i, v) == [m EXCEPT !.mem[f][i] = v]
AllocInto(m, f, i) ==
  LET a == alloc_frame(m)
  IN IF m.panic \/ a.panic THEN [m EXCEPT !.panic = TRUE] ELSE SetWord(a, f, i, a.frame)

(* The frame of a page under a directory, 0 if it has none.                 *)
FrameOf(m, dir, page) ==
  LET table == m.mem[dir][Pdi(page)]
  IN IF table = 0 THEN 0 ELSE m.mem[table][Pti(page)]

(* vmm_pageFault, for a mapped page: table and frame on demand.             *)
PageIn(m, dir, page) ==
  LET m1 == IF m.mem[dir][Pdi(page)] = 0 THEN AllocInto(m, dir, Pdi(page)) ELSE m
  IN IF m1.panic \/ FrameOf(m1, dir, page) # 0 THEN m1
     ELSE AllocInto(m1, m1.mem[dir][Pdi(page)], Pti(page))

(* A store to a page by code that runs under dir.                           *)
Store(m, dir, page, v) ==
  LET m1 == PageIn(m, dir, page)
  IN IF m1.panic THEN m1 ELSE SetWord(m1, FrameOf(m1, dir, page), 0, v)

Stores(m, dir, pages, Value(_)) ==
  FoldLeft(LAMBDA m1, page : Store(m1, dir, page, Value(page)), m, pages)

(* The entries of a table in some positions are freed and cleared.          *)
FreeEntries(m, table, indices) ==
  FoldLeft(LAMBDA m1, i :
             IF m1.mem[table][i] = 0 THEN m1
             ELSE SetWord(dealloc_frame(m1, m1.mem[table][i]), table, i, 0),
           m, indices)

FreeTable(m, dir, i) == SetWord(dealloc_frame(m, m.mem[dir][i]), dir, i, 0)

(* VMM::free: the user half of a directory, not the directory itself.       *)
(* Mutant: the tables are kept.                                             *)
free_pages(m, dir) ==
  FoldLeft(LAMBDA m1, i : IF m1.mem[dir][i] = 0 THEN m1
                          ELSE SetWord(FreeEntries(m1, m1.mem[dir][i], Indices), dir, i, 0),
           m, UserTables)

free(m, dir) ==
  FoldLeft(LAMBDA m1, i :
             IF m1.mem[dir][i] = 0 THEN m1
             ELSE FreeTable(FreeEntries(m1, m1.mem[dir][i], Indices), dir, i),
           m, UserTables)

(* VMM::global_init: the shared table and frame, and the kernel's tables,   *)
(* of which one stands for all.                                             *)
shared_pt == 1
the_shared_frame == 2
kernel_pt == 3
global_init ==
  LET m == alloc_frame(alloc_frame(alloc_frame(init)))
  IN SetWord(m, shared_pt, 0, the_shared_frame)

(* VMM::per_core_init: the new directory is m.frame.                        *)
per_core_init(m) ==
  LET a == alloc_frame(m)
  IN IF a.panic THEN a
     ELSE SetWord(SetWord(a, a.frame, 0, kernel_pt), a.frame, Pdi(Hi), shared_pt)

(* ELF::load and the arguments pushed on the stack, which is in page esp.   *)
Segment == VME(Elf.start, Elf.end - Elf.start)
Loaded(esp) == [page \in UserPages |->
                  IF page = esp \/ page \in Elf.start .. Elf.end - 1 THEN 1 ELSE 0]
load(m, dir, esp) ==
  Stores(m, dir, [i \in 1 .. Segment.size |-> Elf.start + i - 1] \o <<esp>>,
         LAMBDA page : 1)

(* PCB(page_directory)                                                      *)
NewQueue == <<VME(Hi - Stack, Stack)>>

(* The rest of kernelMain: the first process.                               *)
Init ==
  LET m == per_core_init(global_init) IN
  /\ phys = load(m, m.frame, Hi - 1)
  /\ page_directory = [p \in Proc |-> IF p = FirstProc THEN m.frame ELSE 0]
  /\ queue = [p \in Proc |-> IF p = FirstProc
                             THEN add_vme(NewQueue, Segment).queue ELSE << >>]
  /\ alive = {FirstProc}
  /\ tlb = [p \in Proc |-> {}]
  /\ shadow = [p \in Proc |-> Loaded(Hi - 1)]
  /\ execd = {}
  /\ strayed = FALSE

----------------------------------------------------------------------------
(* Debug::panic("no more frames") stops the machine.  What follows a store  *)
(* outside every mapping is not explored.                                   *)
Running == ~phys.panic /\ ~strayed

Panic ==
  /\ phys' = [phys EXCEPT !.panic = TRUE]
  /\ UNCHANGED <<page_directory, queue, alive, tlb, shadow, execd, strayed>>

Mapped(p, page) == contains_range(queue[p], page, page)

(* exit(): also what an unmapped access comes to when there is no handler.  *)
ExitWith(p) ==
  /\ phys' = free(phys, page_directory[p])
  /\ alive' = alive \ {p}
  /\ UNCHANGED <<page_directory, queue, tlb, shadow, execd>>

Exit(p) == Running /\ p \in alive /\ ExitWith(p) /\ UNCHANGED strayed

(* A load or a store of the program.                                        *)
Access(p, page) ==
  /\ Running /\ p \in alive
  /\ Mapped(p, page)
  /\ \E v \in {shadow[p][page], 1} :
       LET m == IF v = 1 THEN Store(phys, page_directory[p], page, v)
                         ELSE PageIn(phys, page_directory[p], page)
       IN IF m.panic THEN Panic
          ELSE /\ phys' = m
               /\ shadow' = [shadow EXCEPT ![p][page] = v]
               /\ UNCHANGED <<page_directory, queue, alive, tlb, execd, strayed>>

Segv(p, page) ==
  Running /\ p \in alive /\ ~Mapped(p, page) /\ ExitWith(p) /\ UNCHANGED strayed

(* A store through a translation that simple_munmap left in the TLB, to a   *)
(* page that is no longer mapped or is mapped again.                        *)
StaleAccess(p) ==
  /\ Running /\ p \in alive
  /\ \E t \in tlb[p] : phys' = SetWord(phys, t[2], 0, 1)
  /\ strayed' = TRUE
  /\ UNCHANGED <<page_directory, queue, alive, tlb, shadow, execd>>

(* The process is switched out and in again: vmm_on loads cr3.              *)
Switch(p) ==
  /\ Running /\ p \in alive
  /\ tlb[p] # {}
  /\ tlb' = [tlb EXCEPT ![p] = {}]
  /\ UNCHANGED <<phys, page_directory, queue, alive, shadow, execd, strayed>>

----------------------------------------------------------------------------
(* fork: tables and frames of the user half are copied.                     *)
CopyFrame(m, to, i, from) ==
  LET a == AllocInto(m, to, i)
  IN IF a.panic THEN a ELSE [a EXCEPT !.mem[a.frame] = m.mem[from]]

CopyTable(m, child, parent, i) ==
  LET a == AllocInto(m, child, i)
      from == m.mem[parent][i]
  IN IF a.panic THEN a
     ELSE FoldLeft(LAMBDA m1, j :
                     IF m1.panic \/ m1.mem[from][j] = 0 THEN m1
                     ELSE CopyFrame(m1, m1.mem[child][i], j, m1.mem[from][j]),
                   a, Indices)

CopySpace(m, child, parent) ==
  LET kernel == SetWord(SetWord(m, child, 0, m.mem[parent][0]),
                        child, Pdi(Hi), m.mem[parent][Pdi(Hi)])
  IN FoldLeft(LAMBDA m1, i :
                IF m1.panic \/ m1.mem[parent][i] = 0 THEN m1
                ELSE CopyTable(m1, child, parent, i),
              kernel, UserTables)

Fork(p, child) ==
  LET a == alloc_frame(phys)
      m == CopySpace(a, a.frame, page_directory[p])
  IN /\ Running /\ p \in alive
     /\ page_directory[child] = 0
     /\ IF a.panic \/ m.panic THEN Panic
        ELSE /\ phys' = m
             /\ page_directory' = [page_directory EXCEPT ![child] = a.frame]
             /\ queue' = [queue EXCEPT ![child] = deep_copy(queue[p])]
             /\ alive' = alive \cup {child}
             /\ shadow' = [shadow EXCEPT ![child] = shadow[p]]
             /\ execd' = IF p \in execd THEN execd \cup {child} ELSE execd
             /\ UNCHANGED <<tlb, strayed>>

(* execl, once the program is known to be loadable.  The regions of the old *)
(* program stay in the queue.  userEsp is in any page that is mapped: the   *)
(* call has read its arguments there.                                       *)
Execl(p, userEsp) ==
  LET a == per_core_init(free(phys, page_directory[p]))
      m == load(a, a.frame, userEsp)
  IN /\ Running /\ p \in alive
     /\ Mapped(p, userEsp)
     /\ Len(queue[p]) < MaxRegions
     /\ IF a.panic \/ m.panic THEN Panic
        ELSE /\ phys' = m
             /\ page_directory' = [page_directory EXCEPT ![p] = a.frame]
             /\ queue' = [queue EXCEPT ![p] = add_vme(@, Segment).queue]
             /\ tlb' = [tlb EXCEPT ![p] = {}]
             /\ shadow' = [shadow EXCEPT ![p] = Loaded(userEsp)]
             /\ execd' = execd \cup {p}
             /\ UNCHANGED <<alive, strayed>>

----------------------------------------------------------------------------
(* The tests of simple_mmap on addr and size; a call that fails them        *)
(* returns 0 and changes nothing.                                           *)
MmapAllowed(p, addr, size) ==
  /\ size # 0
  /\ addr # 0 => /\ addr >= Lo /\ Plus(addr, size) < Hi /\ Plus(addr, size) >= addr
                 /\ ~intersects_queue(queue[p], addr, size)

Region(va, size) == va .. va + size - 1

(* simple_mmap(addr, size, -1, 0)                                           *)
Mmap(p, addr, size) ==
  LET r == add_vme(queue[p], VME(addr, size)) IN
  /\ Running /\ p \in alive
  /\ Len(queue[p]) < MaxRegions
  /\ MmapAllowed(p, addr, size)
  /\ r.va # 0
  /\ queue' = [queue EXCEPT ![p] = r.queue]
  /\ shadow' = [shadow EXCEPT ![p] =
                  [page \in UserPages |-> IF page \in Region(r.va, size) THEN 0 ELSE @[page]]]
  /\ UNCHANGED <<phys, page_directory, alive, tlb, execd, strayed>>

(* With a file: the region is filled at once, from the file and with zeros  *)
(* after its end.  file->read_all gives -1 past the end of the file, and    *)
(* filling then begins one byte below the region.  With no place for the    *)
(* region the bytes go to address 0, which faults; but past the end of the  *)
(* file the loop begins above its bound, and the call just returns 0.       *)
MmapFile(p, addr, size, offset) ==
  LET r == add_vme(queue[p], VME(addr, size))
      n == IF offset > FileSize THEN -1 ELSE Min({size, FileSize - offset})
      InFile(page) == IF page < r.va + n THEN 1 ELSE 0
      m == Stores(phys, page_directory[p], [i \in 1 .. size |-> r.va + i - 1], InFile)
  IN /\ Running /\ p \in alive
     /\ Len(queue[p]) < MaxRegions
     /\ MmapAllowed(p, addr, size)
     /\ \/ /\ r.va # 0 /\ n # -1
           /\ IF m.panic THEN Panic
              ELSE /\ phys' = m
                   /\ queue' = [queue EXCEPT ![p] = r.queue]
                   /\ shadow' = [shadow EXCEPT ![p] =
                        [page \in UserPages |->
                           IF page \in Region(r.va, size) THEN InFile(page) ELSE @[page]]]
                   /\ UNCHANGED <<page_directory, alive, tlb, execd, strayed>>
        \/ r.va = 0 /\ n # -1 /\ ExitWith(p) /\ UNCHANGED strayed
        \/ r.va = 0 /\ n = -1 /\ UNCHANGED vars
        \/ /\ r.va # 0 /\ n = -1
           /\ IF contains_range(r.queue, r.va - 1, r.va - 1)
              THEN /\ phys' = Store(phys, page_directory[p], r.va - 1, 0)
                   /\ strayed' = TRUE
                   /\ UNCHANGED <<page_directory, queue, alive, tlb, shadow, execd>>
              ELSE ExitWith(p) /\ UNCHANGED strayed

(* remove_from_vmequeue: the pages of the region; a table only if the       *)
(* region takes all of it.                                                  *)
FreeRegion(m, dir, vme) ==
  LET Start(i) == IF i = Pdi(vme.start) THEN Pti(vme.start) ELSE 0
      End(i) == IF i = Pdi(vme.end) THEN Pti(vme.end) ELSE T
      Taken(i) == SelectSeq(Indices, LAMBDA j : j >= Start(i) /\ j < End(i))
      OneTable(m1, i) ==
        LET m2 == FreeEntries(m1, m1.mem[dir][i], Taken(i))
        IN IF Start(i) = 0 /\ End(i) = T THEN FreeTable(m2, dir, i) ELSE m2
      tables == [i \in 1 .. Pdi(vme.end) - Pdi(vme.start) + 1 |-> Pdi(vme.start) + i - 1]
  IN FoldLeft(LAMBDA m1, i : IF m1.mem[dir][i] = 0 THEN m1 ELSE OneTable(m1, i),
              m, tables)

(* simple_munmap.  Nothing is told to the TLB: the core may go on using the *)
(* translations it has.                                                     *)
Munmap(p, addr) ==
  LET at == position(queue[p], addr)
      vme == queue[p][at]
      Present == {page \in Region(vme.start, vme.size) :
                    FrameOf(phys, page_directory[p], page) # 0}
  IN /\ Running /\ p \in alive
     /\ at # 0
     /\ phys' = FreeRegion(phys, page_directory[p], vme)
     /\ queue' = [queue EXCEPT ![p] = RemoveAt(@, at)]
     /\ tlb' = [tlb EXCEPT ![p] = @ \cup
                  {<<page, FrameOf(phys, page_directory[p], page)>> : page \in Present}]
     /\ shadow' = [shadow EXCEPT ![p] =
          [page \in UserPages |-> IF page \in Region(vme.start, vme.size) THEN 0 ELSE @[page]]]
     /\ UNCHANGED <<page_directory, alive, execd, strayed>>

Next == \E p \in Proc :
  \/ Exit(p) \/ StaleAccess(p) \/ Switch(p)
  \/ \E child \in Proc : Fork(p, child)
  \/ \E page \in UserPages : Access(p, page) \/ Segv(p, page) \/ Execl(p, page)
  \/ \E r \in Regions : Mmap(p, r[1], r[2])
  \/ \E r \in Regions, offset \in 0 .. FileSize + 1 : MmapFile(p, r[1], r[2], offset)
  \/ \E addr \in UserPages : Munmap(p, addr)

Spec == Init /\ [][Next]_vars

----------------------------------------------------------------------------
(* The types of the variables.                                              *)
TypeOK ==
  /\ phys.mem \in [Frame -> [Word -> 0 .. Limit - 1]]
  /\ phys.firstFree \in 0 .. Limit - 1 /\ phys.avail \in 1 .. Limit
  /\ page_directory \in [Proc -> 0 .. Limit - 1]
  /\ \A p \in Proc : \A i \in DOMAIN queue[p] :
       queue[p][i] \in [start : Page, end : Page, size : Page]
  /\ alive \subseteq Proc /\ execd \subseteq Proc /\ strayed \in BOOLEAN
  /\ tlb \in [Proc -> SUBSET (Page \X Frame)]
  /\ shadow \in [Proc -> [UserPages -> {0, 1}]]

(* A process sees in each mapped page what it or, before fork, its parent   *)
(* put there, and zero in the others, whatever other processes do (README:  *)
(* "per-process, on-demand", "lazily loaded, zero-filled").  A page in two  *)
(* regions, which only execl can cause, is not covered.                     *)
Once(p, page) ==
  Cardinality({i \in DOMAIN queue[p] :
    queue[p][i].start <= page /\ page < queue[p][i].end}) = 1
Private ==
  ~strayed => \A p \in alive : \A page \in UserPages : Once(p, page) =>
    LET f == FrameOf(phys, page_directory[p], page)
    IN shadow[p][page] = IF f = 0 THEN 0 ELSE phys.mem[f][0]

(* Every frame a process's directory leads to, as often as it does.         *)
Entries(f, indices) == {<<f, i>> : i \in {j \in indices : phys.mem[f][j] # 0}}
Directories == {page_directory[p] : p \in Proc} \ {0}
TableEntries == UNION {Entries(d, Range(UserTables)) : d \in Directories}
TablesInUse == {phys.mem[e[1]][e[2]] : e \in TableEntries}
PageEntries == UNION {Entries(t, Range(Indices)) : t \in TablesInUse}
PagesInUse == {phys.mem[e[1]][e[2]] : e \in PageEntries}

FreeChain[n \in 0 .. Limit] ==
  IF n = 0 THEN <<phys.firstFree>>
  ELSE LET chain == FreeChain[n - 1]
       IN IF Last(chain) = 0 THEN chain ELSE Append(chain, phys.mem[Last(chain)][0])
FreeFrames == Range(FreeChain[Limit]) \ {0}

(* No frame has two uses: a table belongs to one directory, a page to one   *)
(* table, and the free list, which ends, holds none of them.                *)
OneUse ==
  ~strayed =>
    LET fixed == {shared_pt, the_shared_frame, kernel_pt} IN
    /\ 0 \in Range(FreeChain[Limit])
    /\ Cardinality(TableEntries) = Cardinality(TablesInUse)
    /\ Cardinality(PageEntries) = Cardinality(PagesInUse)
    /\ Cardinality(fixed \cup Directories \cup TablesInUse \cup PagesInUse \cup FreeFrames)
         = 3 + Cardinality(Directories) + Cardinality(TablesInUse)
             + Cardinality(PagesInUse) + Cardinality(FreeFrames)

(* The frames that are neither free nor in use are old page directories,    *)
(* which nothing frees: a program that ran execl leaves one each time.      *)
LeakedFrames ==
  (1 .. phys.avail - 1) \ ({shared_pt, the_shared_frame, kernel_pt} \cup Directories
                             \cup TablesInUse \cup PagesInUse \cup FreeFrames)
OnlyDirectoriesLeak ==
  ~strayed /\ ~phys.panic => \A f \in LeakedFrames :
    /\ phys.mem[f][0] = kernel_pt /\ phys.mem[f][Pdi(Hi)] = shared_pt
    /\ \A i \in Range(UserTables) : phys.mem[f][i] = 0

(* A page that has a frame lies in a mapped region, so that exit is not the *)
(* only way to get the frame back.                                          *)
PresentIsMapped ==
  ~strayed => \A p \in alive : \A page \in UserPages :
    FrameOf(phys, page_directory[p], page) # 0 => Mapped(p, page)

(* Regions lie in user space, in order and without overlap, until execl     *)
(* adds the new program's to the old one's.                                 *)
Disjoint ==
  \A p \in alive : \A i \in DOMAIN queue[p] :
    /\ queue[p][i].start >= Lo /\ queue[p][i].end <= Hi
    /\ queue[p][i].start < queue[p][i].end
    /\ p \notin execd /\ i > 1 => queue[p][i - 1].end <= queue[p][i].start

(* simple_mmap refuses an address in user space exactly when the region or  *)
(* the page after it is mapped or outside user space: it may not overlap a  *)
(* region, and neither may it end where one begins, or at Hi.  It fails to  *)
(* find a place only if there is none.                                      *)
Free(p, pages) == \A page \in pages : page \in UserPages /\ ~Mapped(p, page)
MmapServes ==
  \A p \in alive \ execd : \A size \in 1 .. Hi - Lo :
    /\ \A addr \in UserPages :
         MmapAllowed(p, addr, size) <=> Free(p, addr .. addr + size)
    /\ (add_vme(queue[p], VME(0, size)).va = 0) =>
         ~\E addr \in UserPages : Free(p, Region(addr, size))

(* Without the page after it, as src/README.md has it: an address fails if  *)
(* "the desired region is not fully accessible in user mode" or "intersects *)
(* with an existing mapping".  The code departs from it.                    *)
MmapAsDocumented ==
  \A p \in alive \ execd : \A size \in 1 .. Hi - Lo : \A addr \in UserPages :
    Free(p, Region(addr, size)) => MmapAllowed(p, addr, size)

(* The three kinds of use of a frame are apart, and only directories of     *)
(* execl leak: every frame is accounted for.                                *)
FramesAccounted == OneUse /\ OnlyDirectoriesLeak

(* What a VMEQueue holds is right whatever is mapped and unmapped: regions  *)
(* apart, frames only inside them, and simple_mmap refuses an address for   *)
(* no other reason than it or the page behind it being taken.               *)
RegionsKept == Disjoint /\ PresentIsMapped /\ MmapServes
==============================================================================
