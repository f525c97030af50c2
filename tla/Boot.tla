-------------------------------- MODULE Boot ---------------------------------
(***************************************************************************)
(* From the boot sector to event_loop: mbr.S loads the kernel, core 0 runs  *)
(* kernelInit (kernel/init.cc), reads the firmware's table of processors    *)
(* (kernel/config.cc), starts the others one at a time, and each core sets  *)
(* up its page directory (VMM::per_core_init), timer (Pit::init) and TSS.   *)
(* The last to arrive runs kernelMain.                                      *)
(***************************************************************************)
EXTENDS Events

CONSTANTS Sectors,      \* sizes of the boot drive
          Base, Seg,    \* where sectors are loaded, and where segments wrap,
                        \* in sectors (0x7e0 and 2^16 over 0x20)
          Word,         \* the sector count is modulo Word (2^16)
          Tables,       \* what the MADT and the memory behind it may hold
          Diffs, hz,    \* what calibrate may measure; its argument
          EventCores    \* bound: events are made where there are no more cores

ASSUME BootAssumption ==
  /\ Core \subseteq Nat /\ 0 \in Core
  /\ Base \in Nat \ {0} /\ Seg \in Nat \ {0} /\ Word \in Nat /\ Seg <= Word
  /\ Sectors \subseteq Nat

VARIABLES core,         \* per core: pc, stack, tss.esp0, entries filled in, cr3
          g,            \* the kernel's globals, raced and mains for the history
          dir,          \* the page directories: which parts are filled in
          mbr,          \* the boot sector's registers, and what it has loaded
          table         \* the table the firmware left

bootVars == <<core, g, dir, mbr, table>>
vars == <<bootVars, eventVars>>

Parts == <<"kernel", "apic", "shared">>
NoSectors == [cx |-> 0, di |-> 0, bp |-> 0, at |-> << >>, n |-> 0]

(* raced: two cores were in per_core_init together; mains: calls of         *)
(* kernelMain.                                                              *)
Init ==
  /\ EventsInit
  /\ core = [c \in Core |-> [pc |-> IF c = 0 THEN "mbr" ELSE "off", stack |-> None, esp0 |-> None,
                             filled |-> 0, cr3 |-> 0]]
  /\ g = [totalProcs |-> 0, ioAPIC |-> 0, smpInitDone |-> FALSE, apitCounter |-> 0, running |-> 0,
          id |-> 1, page_directory |-> 0, howManyAreHere |-> 0, raced |-> FALSE, mains |-> 0]
  /\ dir = << >>
  /\ \E n \in Sectors : mbr = [cx |-> n % Word, di |-> Base, bp |-> 1,
                               at |-> [s \in 0 .. Seg - 1 |-> None], n |-> n]
  /\ table \in Tables

At(c, here) == core[c].pc = here
Goto(c, there) == core' = [core EXCEPT ![c].pc = there]

----------------------------------------------------------------------------
(* mbr.S: sector after sector, until the count is down to 0.  Mutant: the   *)
(* segment is advanced first.                                               *)
Less(x) == (x + Word - 1) % Word
LoadSectorFirst ==
  /\ At(0, "mbr") /\ Less(mbr.cx) # 0
  /\ mbr' = [mbr EXCEPT !.cx = Less(@), !.di = (@ + 1) % Seg, !.bp = @ + 1,
                        !.at[(mbr.di + 1) % Seg] = mbr.bp]
  /\ UNCHANGED core

LoadSector ==
  /\ At(0, "mbr") /\ Less(mbr.cx) # 0
  /\ mbr' = [mbr EXCEPT !.cx = Less(@), !.di = (@ + 1) % Seg, !.bp = @ + 1, !.at[mbr.di] = mbr.bp]
  /\ UNCHANGED core

(* And the jump to the kernel, after which the registers mean nothing.      *)
Jump ==
  /\ At(0, "mbr") /\ Less(mbr.cx) = 0
  /\ mbr' = NoSectors /\ Goto(0, "reset")

(* resetEIP and kk, on tempStack, up to the core's own stack; kernelInit    *)
(* then tells the first core from the others.                               *)
pickKernelStack(c) == IF g.smpInitDone THEN c ELSE 0
Reset(c) ==
  /\ At(c, "reset")
  /\ core' = [core EXCEPT ![c].stack = pickKernelStack(c),
                          ![c].pc = IF g.smpInitDone THEN "ap" ELSE "config"]
  /\ UNCHANGED <<g, dir>>

----------------------------------------------------------------------------
(* configInit moves on to the next entry before it looks at it: the first   *)
(* is never seen, and what lies behind the table is.                        *)
IsOther(e) == e.type = 0 /\ e.processorId # 0
IsIO(e) == e.type = 1
Seen == IF table.entries = << >> THEN << >> ELSE Append(Tail(table.entries), table.behind)
configInit(c) ==
  LET ios == SelectSeq(Seen, IsIO) IN
  /\ At(c, "config")
  /\ g' = [g EXCEPT !.totalProcs = 1 + Len(SelectSeq(Seen, IsOther)),
                    !.ioAPIC = IF ios = << >> THEN @ ELSE ios[Len(ios)].address]
  /\ Goto(c, "global") /\ UNCHANGED dir

(* The heap, the frames, VMM::global_init, SMP::init(true), the IDT.        *)
GlobalInit(c) ==
  /\ At(c, "global")
  /\ g' = [g EXCEPT !.smpInitDone = TRUE]
  /\ Goto(c, "calibrate") /\ UNCHANGED dir

(* Pit::calibrate, and running counts core 0.  Mutant: it does not.         *)
calibrateAlone(c) ==
  /\ At(c, "calibrate")
  /\ \E diff \in Diffs : g' = [g EXCEPT !.apitCounter = diff \div hz]
  /\ Goto(c, "start") /\ UNCHANGED dir

calibrate(c) ==
  /\ At(c, "calibrate")
  /\ \E diff \in Diffs : g' = [g EXCEPT !.apitCounter = diff \div hz, !.running = @ + 1]
  /\ Goto(c, "start") /\ UNCHANGED dir

(* The loop over the other cores: SMP::ipi resets the core of that number,  *)
(* if there is one.                                                         *)
Installed == {e.apicId : e \in {e \in Range(table.entries) : e.type = 0}}
StartNext(c) ==
  /\ At(c, "start")
  /\ core' = IF g.id >= g.totalProcs THEN [core EXCEPT ![c].pc = "alloc"]
             ELSE IF g.id \in Installed THEN [core EXCEPT ![c].pc = "wait", ![g.id].pc = "reset"]
             ELSE [core EXCEPT ![c].pc = "wait"]
  /\ UNCHANGED <<g, dir>>

(* while (SMP::running <= id).  Mutant: < id.                               *)
WaitLess(c) ==
  /\ At(c, "wait") /\ g.running >= g.id
  /\ g' = [g EXCEPT !.id = @ + 1]
  /\ Goto(c, "start") /\ UNCHANGED dir

Wait(c) ==
  /\ At(c, "wait") /\ g.running > g.id
  /\ g' = [g EXCEPT !.id = @ + 1]
  /\ Goto(c, "start") /\ UNCHANGED dir

(* Another core: running.fetch_add, SMP::init(false).                       *)
Running(c) ==
  /\ At(c, "ap")
  /\ g' = [g EXCEPT !.running = @ + 1]
  /\ Goto(c, "alloc") /\ UNCHANGED dir

----------------------------------------------------------------------------
(* per_core_init: the frame is kept in the global page_directory, which     *)
(* every store reads again, and so does vmm_on.                             *)
Others(c) == \E k \in Core \ {c} : core[k].pc \in {"fill", "on"}
Alloc(c) ==
  /\ At(c, "alloc")
  /\ dir' = Append(dir, {})
  /\ g' = [g EXCEPT !.page_directory = Len(dir) + 1, !.raced = @ \/ Others(c)]
  /\ Goto(c, "fill")

Fill(c) ==
  /\ At(c, "fill")
  /\ dir' = [dir EXCEPT ![g.page_directory] = @ \cup {Parts[core[c].filled + 1]}]
  /\ core' = [core EXCEPT ![c].filled = @ + 1,
                          ![c].pc = IF core[c].filled + 1 = Len(Parts) THEN "on" ELSE "fill"]
  /\ UNCHANGED g

vmm_on(c) ==
  /\ At(c, "on")
  /\ core' = [core EXCEPT ![c].cr3 = g.page_directory, ![c].filled = 0, ![c].pc = "pit"]
  /\ UNCHANGED <<g, dir>>

(* Pit::init, which panics without a counter.                               *)
PitInit(c) ==
  /\ At(c, "pit")
  /\ core' = IF g.apitCounter = 0 THEN [k \in Core |-> [core[k] EXCEPT !.pc = "panic"]]
             ELSE [core EXCEPT ![c].pc = "tss"]
  /\ UNCHANGED <<g, dir>>

(* The TSS, and interrupts on.                                              *)
Tss(c) ==
  /\ At(c, "tss")
  /\ core' = [core EXCEPT ![c].esp0 = pickKernelStack(c), ![c].pc = "sti"]
  /\ UNCHANGED <<g, dir>>

(* howManyAreHere.add_fetch: the last core has kernelMain, the others       *)
(* event_loop.  Mutant: fetch_add.                                          *)
ArriveBefore(c) ==
  LET main == g.howManyAreHere + 2 = g.totalProcs IN
  /\ At(c, "sti")
  /\ g' = [g EXCEPT !.howManyAreHere = @ + 1, !.mains = IF main THEN @ + 1 ELSE @]
  /\ loop' = [loop EXCEPT ![c] = IF main THEN "doit" ELSE "poll"]
  /\ Goto(c, "up") /\ UNCHANGED dir

Arrive(c) ==
  LET main == g.howManyAreHere + 1 = g.totalProcs IN
  /\ At(c, "sti")
  /\ g' = [g EXCEPT !.howManyAreHere = @ + 1, !.mains = IF main THEN @ + 1 ELSE @]
  /\ loop' = [loop EXCEPT ![c] = IF main THEN "doit" ELSE "poll"]
  /\ Goto(c, "up") /\ UNCHANGED dir

----------------------------------------------------------------------------
Load == (LoadSector \/ Jump) /\ UNCHANGED <<eventVars, g, dir, table>>
Starting(c) ==
  /\ \/ Reset(c) \/ configInit(c) \/ GlobalInit(c) \/ calibrate(c) \/ StartNext(c) \/ Wait(c)
     \/ Running(c) \/ Alloc(c) \/ Fill(c) \/ vmm_on(c) \/ PitInit(c) \/ Tss(c)
  /\ UNCHANGED <<eventVars, mbr, table>>
Arriving(c) ==
  Arrive(c) /\ UNCHANGED <<jiffies, pq, ready, last_event, held, event, mbr, table>>
Ticking == core[0].pc \in {"sti", "up"} /\ Tick /\ UNCHANGED bootVars
Up(c) == At(c, "up") /\ UNCHANGED bootVars
Working(c) ==
  \/ Return(c)
  \/ Cardinality(Installed) <= EventCores /\ \E e \in Event, d \in Delays : go(c, e, d)

Next ==
  \/ Load \/ Ticking
  \/ \E c \in Core : Starting(c) \/ Arriving(c) \/ (Up(c) /\ (Looping(c) \/ Working(c)))

(* A core goes on while it can; the timer of core 0 does not stop.          *)
Fairness ==
  /\ WF_vars(Load) /\ WF_vars(Ticking)
  /\ \A c \in Core : WF_vars(Starting(c) \/ Arriving(c) \/ (Up(c) /\ Looping(c)))
Spec == Init /\ [][Next]_vars /\ Fairness

----------------------------------------------------------------------------
(* mbr.S: when it jumps, every sector of the drive is where the one before  *)
(* it ends, as long as the last one ends below the segments' wrap.          *)
SectorsPlaced ==
  At(0, "mbr") /\ mbr.cx = 1 /\ Base + mbr.n - 1 <= Seg =>
    \A k \in 1 .. mbr.n - 1 : mbr.at[Base + k - 1] = k

(* No two cores use a stack together, neither tempStack, on which every     *)
(* core starts, nor the one it picks; interrupts use that one too.          *)
StacksApart ==
  /\ \A c, k \in Core : c # k /\ At(c, "reset") => ~At(k, "reset")
  /\ \A c, k \in Core : c # k /\ core[c].stack # None => core[c].stack # core[k].stack
  /\ \A c \in Core : core[c].pc \in {"sti", "up"} => core[c].esp0 = core[c].stack

(* A core with paging on has a whole directory of its own, unless two cores *)
(* were in per_core_init at the same time.                                  *)
OwnDirectory ==
  ~g.raced => \A c \in Core : core[c].cr3 # 0 =>
                /\ dir[core[c].cr3] = Range(Parts)
                /\ \A k \in Core \ {c} : core[k].cr3 # core[c].cr3

(* A table configInit understands: the first entry is processor 0's, what   *)
(* lies behind the table is neither a processor nor an I/O APIC, and the    *)
(* other cores are numbered from 1.                                         *)
Usual ==
  LET others == {e \in Range(table.entries) : IsOther(e)} IN
  /\ table.entries # << >> /\ table.entries[1].type = 0 /\ table.entries[1].processorId = 0
  /\ table.behind.type \notin {0, 1}
  /\ {e.apicId : e \in others} = 1 .. Cardinality(others)

(* configInit and the loop that starts the others: no core waits for one    *)
(* that is not installed, and none is left out.                             *)
CoresCounted ==
  Usual /\ g.totalProcs # 0 =>
    /\ g.totalProcs = Cardinality(Installed)
    /\ \A c \in Core : At(c, "wait") => ~At(g.id, "off")

(* kernelMain runs once, and not before every core that is started is set   *)
(* up: timer, TSS and interrupts.                                           *)
MainLast ==
  /\ g.mains <= 1
  /\ Usual /\ g.mains = 1 => \A c \in Installed : At(c, "up")

(* The machine comes up, if its table is usual and its timer runs.          *)
BootEnds == Usual ~> (g.mains = 1 \/ \E c \in Core : At(c, "panic"))

(* The cores keep apart what is theirs, from the stack they start on to     *)
(* their page directory.                                                    *)
CoresApart == StacksApart /\ OwnDirectory

(* The cores that are there are started and counted, and kernelMain has     *)
(* all of them.                                                             *)
AllStarted == CoresCounted /\ MainLast
==============================================================================
