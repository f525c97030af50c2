# A TLA+ verification of Simplified-OS-Kernel

The kernel is small, multi-core and event-driven. There are no kernel threads:
a core either runs a user process (and the kernel code that process trapped
into) or is in `event_loop`, taking closures from one shared ready queue. A
process that blocks becomes a closure in a semaphore's waiting queue; whoever
ups that semaphore moves the closure to the ready queue, and any core may pick
it up. Everything else (join, preemption, signals, pipes) is built on that.

What makes it hard to get right is that a process is published, in a queue all
cores read, while its core is still executing in the kernel; that page
directories, registers and the notion of the active process are per-core copies
of per-process data; and that system calls run with interrupts enabled.

## Modules

| module | models | kind |
|---|---|---|
| `SemaphoreSpec`, `QueueSpec`, `BoundedBufferSpec` | what a semaphore, a queue and a bounded buffer promise | abstract specifications |
| `Semaphore` | `semaphore.h`, `semaphore.cc` | implementation, refines `SemaphoreSpec` |
| `Queue` | `Queue` of `queue.h`, `SpinLock` of `atomic.h` | implementation, refines `QueueSpec` |
| `BoundedBuffer` | `bb.h` | implementation, refines `BoundedBufferSpec` |
| `Pipe` | `read` and `write` of a pipe in `sys.cc` | `BoundedBuffer` composed with processes |
| `Kernel` | system calls, timer, page faults, event loop: `sys.cc`, `pit.cc`, `vmm.cc`, `pcb.h`, `future.h`, `shared.h`, `events.*`, `machine.S` | the composition, on the atomic semaphore |
| `PhysMem`, `VMEQueue` | `physmem.cc`; `VMEQueue` of `queue.h` | functions |
| `Memory` | `vmm.cc`, the memory of a PCB, `simple_mmap` and `simple_munmap` | state machine on the two above |
| `Heap` | `heap.cc`, `sbin/heap.c` | state machine |
| `Files` | descriptors, and `read` of a file down to the drive | state machine |
| `Storage`, `Path` | `block_io.*`, `ext2.*`, `cache.*`, `ide.cc`, `MRUQueue`; `find_path_node` | functions |
| `Loader`, `Text` | `elf.cc` and argument layout; `snprintf.cc` | functions |
| `Algorithms` | | their references, one input per state |
| `Events`, `Boot` | `events.*`, `pit.cc`; `mbr.S`, `init.cc`, `config.cc`, `smp.*`, `vmm.cc` | state machines, `Boot` extends `Events` |
| `MC...` | | instances, symmetry and views for TLC |
| `QueueFacts` | `add` and `remove` of a FIFO as sequences | lemmas |
| `SemaphoreProofs`, `QueueProofs`, `PipeProofs`, `FilesProofs`, `BootProofs` | | invariants, lemmas and theorems about the module; `PipeProofs` also has those of `BoundedBuffer`, `BootProofs` those of `Events` |
| `KernelInvariants`, `KernelProofs`, `KernelTheorems` | | the inductive invariants of `Kernel`; the lemmas about its actions; the theorems |

The refinements are the joints between modules: `Kernel` and `BoundedBuffer` use
semaphores and queues as atomic objects, which is what `Semaphore!RefinesAtomic`
and `Queue!RefinesQueue` establish, and `Pipe` uses `BoundedBuffer` itself.

### Semaphore

State: the lock byte `taken`, `count`, `waiting`, the ready queue, and for each
core a control point `pc[c]` and the local variable `ev[c]` (`e` in the code).
`issued` and `balance` are history variables. Each critical section is at least
two steps, the test and what follows from it, so mutual exclusion is a result of
the spin lock and not of the grain of the model.

- `DownCall .. DownWait`: `Semaphore::down`. On a unit the event is published
  *after* the unlock, otherwise it is queued before it.
- `TryCall .. TryFail`: `await_ready`, and `await_suspend`, which calls `down`.
- `UpCall .. UpCount`: `Semaphore::up`.
- `Run`: `event_loop` removes the oldest ready event.

`SpinLock::lock` is modelled here at the exchange that succeeds; its steps are
in `Queue`.

### Queue

Each statement of `SpinLock::lock` (monitor, exchange, `mwait`, and the interrupt
that ends an `mwait`) and each pointer write of `add` and `remove` is a step.
`armed` is the set of cores whose monitor has not been triggered: every store to
the lock byte triggers it. `items` is a history variable, the list that the
pointers ought to spell.

### BoundedBuffer and Pipe

`n_full`, `n_empty` and `queue` are the fields of the buffer. `put` and `get`
hand a closure to a semaphore and return; `Take` is `event_loop`, and the calls a
closure makes (`PutAdd`, `PutUp`, `GetRemove`, `GetUp`, `Work`) are separate
steps of the core that runs it, so that closures on different cores interleave.

`Pipe` adds what surrounds them in `sys.cc`: which process each core runs, if it
is not in `event_loop` (`user`), which process `active_pcbs` names, which page
directory is on, and the byte and the page of each process's buffer. At first one
core runs the process that made the pipe, the others have run none (their
`active_pcbs` is null), and the processes it forked are in the ready queue;
`Switch` and `RunResume` are preemption and what ends it. `taken` is a history
variable, the byte last removed from the buffer for a process.

The continuation of `read` stores into user memory before it sets `active_pcbs`.
A page that has no frame is then looked up among the regions of whatever process
the core ran last. If that one maps it, the page is supplied (`ReadReturn`); if
not, that process exits (`ReadFault`); and if there is none, or it has a handler,
the fault leads out of this model (`ReadLost`), which ends the behaviour:
properties say `~lost =>` or count it as an outcome.

### Kernel

`pcb[p]` has the PCB fields that control depends on. `sem` holds all semaphores:
user semaphores, and one for the `exit_future` of every process. Per core there
are `mode`, `active` (`active_pcbs`), `cr3`, `interrupts` and the user registers
`ctx`. A context is reduced to its program image, whether it is in the main
program, in a handler or in the kernel, and `eax`, which carries the results of
system calls. A page directory is the pair of the process and the image it was
made for.

The modes of a core are `user`; `sysret`, between the return of `sysHandler` and
`iret`; `kill` and `execl`, the two places where a system call leaves shared
state half-written for another core to see; `fault`, where a system call has used
an address that the process does not map; and `loop` / `loop_cli`, the event loop
with interrupts enabled and, when the interrupt gate of the timer led there,
disabled.

| action | code |
|---|---|
| `SysExit`, `SysFork`, `SysYield`, `SysJoin` | the cases of `sysHandler`, with `exit`, `switch_processes` |
| `SysExecl`, `SysExeclLoad` | `execl` up to and after `per_core_init` has allocated a directory |
| `SysSem`, `SysUp`, `SysDown`, `SysSemClose` | user semaphores, with their reference counts |
| `SysSimpleSignal`, `SysSigreturn` | handlers |
| `SysKill`, `SysKillValue` | `kill`, one action for each of its two stores |
| `SysReturn` | `switch_interrupt`, and the return to user mode |
| `TimerKernel`, `TimerKill`, `TimerSwitch` | `apitHandler` |
| `SysBadPointer` | a call that first reads an argument where nothing is mapped |
| `FaultReturn`, `FaultSegv` | `vmm_pageFault`, for programs and for kernel code |
| `CallHandler`, used by the timer and by faults | the handler entered, or the process ended by a store of the handler's arguments that faults |
| `RunResume`, `RunDown`, `RunJoin`, `RunStart` | the closures that `event_loop` runs |

The other system calls are single steps: between trap and return they touch only
the state of their own process and objects protected by a semaphore or by a
queue's lock. A tick that arrives during one is a `TimerKernel` at `sysret`,
`kill`, `execl` or `loop`, which is where its effect (the note in `interrupts`)
is read. `Semaphore::up` and `down` are the atomic operations of
`SemaphoreSpec`, which is what the refinement of `Semaphore` justifies.

`vmm_pageFault` does not ask who faulted. When kernel code did, and the process
has a handler, what is saved for `sigreturn` is a frame of the kernel (`Frame`,
position `kernel`), and resuming it repeats the access, in mode `fault` again. The
processor pushes no `esp` for such a frame, so the handler's arguments are stored
wherever the word above it points, and that store may fault in turn; then
`in_handler` is already set and the process exits. `CallHandler` has both outcomes.

Programs are not modelled: in user mode a process may issue any operation in
`Ops`, in any order and with any argument.

### Memory

A page directory and its tables are words of frames in `phys`, as in the machine,
and frames are handed out by `PhysMem`, whose free list also lives in the frames.
Each process has its `VMEQueue`. `Access` is a load or store of a program with
the demand paging of `vmm_pageFault` behind it; `Fork`, `Execl`, `Mmap`,
`MmapFile`, `Munmap`, `Exit` are the system calls. `tlb` holds the translations
that `simple_munmap` leaves in the TLB (it invalidates nothing), `StaleAccess` is
a store through one, and `Switch`, which loads `cr3`, ends them. `shadow` is a
history variable: what each process may expect to find in its pages.

### Heap

The array of ints with its boundary tags and the list of available blocks in it.
The kernel's heap looks at up to `Tries` fitting blocks, that of user programs at
the first; `where` says which of the two a behaviour is about. Callers fill what
they are given with `Mark`, so that a write of the allocator into it is seen.

### Files

Descriptor tables of processes, `Shared<FileDescriptor>` with reference counts,
and `open`, `close`, `dup`, `pipe`, `len`, `fork`, `exit`. `read` of a file is not
one step: it computes its count from one look at the offset (`Clip`), advances
the offset with `fetch_add` (`FetchAdd`), and then reads block by block under the
drive's lock (`Lock`, `CopyInPlace`, `CopyToTemp`, `CopyFromTemp`). A store into an
unmapped buffer (`CopyFault`), and `len` of a terminal, end the process or put it
into its handler (`Fault`); either way the call is left as it is, with its
reference to the descriptor (`leaked`) and perhaps with the drive's lock (`held`,
a history variable).

### Storage, Path, Loader, Text

Pure algorithms as operators: `BlockIO::read` and `read_all`, the map from file
blocks to disk blocks with one level of indirection, directory search, inode
location, the `MRUQueue` behind the block cache with its pointers, path walking,
ELF validation in arithmetic modulo the address space, the argument block that
`execl` and `kernelMain` build, and `dopr` with its conversions. `Algorithms`
draws one input per state and compares the result with a definition of another
shape: the bytes of the file, the meaning of a path, the number that digits
denote.

### Events and Boot

`Boot` starts in `mbr.S`, with the loading of sectors, and follows every core
through `kernelInit`: `configInit` over the MADT, `global_init`, `calibrate`,
starting the next core and waiting for it to leave `tempStack`, `per_core_init`
in its three steps (allocate through the global, fill in, turn on), the timer,
the TSS, and the count of arrivals, of which the last runs `kernelMain`. From
then on the cores are in `Events`: `go`, the timer queue, `remove_if_ready` and
the two steps in which an event moves from it to the ready queue, `last_event`.

## Runs

Every run finishes in under five minutes on two cores, most in under one.

| run | instance | checks | shows |
|---|---|---|---|
| `semaphore` | 3 cores, 3 events, 1 unit at first | `Conservation RefinesAtomic LockReleased` | units are conserved, calls are atomic and first come first served, every path unlocks |
| `queue` | 3 cores, 3 nodes | `NoMissedWakeup RefinesQueue` | the linked list is an atomic FIFO; no core sleeps in `mwait` through a release |
| `pipe` | 2 cores, 3 processes, capacity 1, 2 byte values; two processes without a mapped buffer, one of them with a handler | `RunsAsItself Received RefinesChannel Rendezvous` | a bounded FIFO channel; calls return in their own process and directory; the byte the pipe gave up ends in the memory of the process that read it; readers and writers do not block each other |
| `life` | 2 cores, 3 processes, 1 semaphore | `OnePlace OwnSpace JoinsYoungest NoDangling` | no process is lost or run twice, or in another's address space; joins pair with exits; no use after deletion of a semaphore |
| `signals` | 2 cores, 2 processes | `HandlerState ExitFuture ContextKept` | the handler flag agrees with where the process is, and handlers do not nest, whoever faulted; joins get one status; preemption preserves registers |
| `exec` | 1 core, 3 processes, 1 `execl` in a line of descent | `ImageContext ReadyRuns` | a tick anywhere in `execl` is harmless on one core; every ready process gets a core |
| `memory` | 2 processes, 4 user pages in 2 tables, 9 frames, 3 regions | `Private FramesAccounted RegionsKept` | pages are private and zero when new, a frame has one use, only old directories leak, regions stay apart, `simple_mmap` refuses for the reasons `MmapServes` gives and no other |
| `heap` | 28 ints, requests of 1, 9 and 21 bytes | `WellFormed Intact` | tags, list and merging are kept, an allocation fails only if no block is large enough, callers' data is not touched |
| `files` | 2 processes, 5 descriptors, one file of 3 bytes in blocks of 2, offsets modulo 5, one process without a mapped buffer and with a handler | `OvershotShared NoDangling ReadsExact DriveReleased` | reference counts are right; bytes are read once; only overlapping reads pass the end; the drive is given back unless a copy faulted under its lock |
| `algorithms` | the inputs of `MCAlgorithms` | `ReadsFile LooksUp CacheRight ElfInside ArgsReadBack Prints` | the functions agree with their references |
| `boot` | up to 3 cores, 5 MADTs, 4 drive sizes, 2 events | `SectorsPlaced CoresApart AllStarted OnTime DeletedOnce BootEnds EventsRun` | the cores come up apart and once, and events run when due |
| `kill_status` | 2 cores, 2 processes | `KillStatus` | a departure (below) |

### Bounds

Two cores suffice for one core to act on a process whose core is still in the
kernel, or to run the closure of a process that another core has run last; a
third contends for a lock already contended (`semaphore`, `queue`). Three processes
give a parent two children (which one is youngest, joins in stack
order) or a grandchild. One user semaphore with one slot is shared by fork; its
waiting queue reaches length two. `MaxCount` and `MaxRef` cap `up` and the
references that `down` leaks; with five, two of three processes that share the
semaphore can wait on it while the third ups it. `MaxImage = 1` lets every
process replace its program once. `Value = {7}` differs from 0 and from 139, the
status of a page fault. `MaxBalance = 2` lets `up` run ahead of `down` by one.

Capacity 1 in `pipe` makes full and empty the common case, and two byte values
tell one read's byte from the next; that order, capacity and the byte received
are right for all sizes, values and numbers of cores is proved. Of the processes
there, one has its buffer mapped, one faults and exits, one faults into its handler. In `memory`,
9 frames run out (`panic` is a state), tables are shared by two pages, and the
regions asked for include one at an address in use, one of the allocator's
choosing, and one whose end wraps. `len = 28` has room for blocks that split with
and without a remainder of the minimum size. In `files` a read of two bytes from
a file of three crosses a block and the end, and offsets wrap. `W = 4` in `boot`
lets the deadline of an event wrap, while `jiffies` itself stays below `W`;
`EventCores = 2` makes events only where at most two cores are installed. The
domains in `MCAlgorithms` have every length from below a block to above two, both
sides of every limit and all combinations of flags.

`KernelLife` and `KernelSignal` use symmetry in cores, semaphores and forked
processes, and a view that hides registers no step will read again; `MCMemory`
and `MCHeap` use views that identify states differing in which frame is used, or
in ints nobody will read, and show the whole state as soon as the invariants that
justify this fail. None is used in a run with a liveness property. Since a view
hides part of the state after the permutation is chosen, the number of states
found varies a little between runs.

Deadlock is checked for `semaphore`, `queue` and `heap`. In the others the system
may stop: every process has exited or waits for ever (the cores poll an empty
queue), memory has run out and the kernel has panicked, or all inputs are done.

### Fairness

`Semaphore!FairSpec`: a core that holds the spin lock goes on. Nothing is
assumed about who wins a contended exchange, because the lock is not fair. The
same holds in `Files`: `DriveReleased` says that the holder gives the drive back,
not that a waiter gets it.

`Kernel!FairSpec`: a core inside the kernel goes on, an idle core keeps polling
(`event_loop` never returns), and the local APIC timer ticks again and again (it
is programmed as periodic). Kernel code that has faulted is in the kernel and
goes on too. No user program is assumed to do anything.

`PipeSpec`: a core finishes the closure it runs, and the timer interrupts a
process (weak fairness of each core's steps and of `Switch`). The closures of the
buffer are taken again and again while there are any (strong fairness of
`EventLoop` over all cores): the ready queue is first in, first out, and every
core that is in the event loop removes its head, so closures and preempted
processes alternate although the model does not keep their order. Programs need
not read or write.

`Boot`: every core that has been started goes on, and the timer ticks.
`NoMissedWakeup` is a safety property on purpose: it does not rely on an
interrupt to end an `mwait`.

## Where the code departs from its documentation

`kill_status` is a run that TLC must find violated: `kill` sets `killed` before
`killed_v`, and a tick on the core of the child between the two makes it exit
with status 0.

The others are in no run. Those with a configuration are reproduced with
`tlc -config X.cfg M`, which ends with the violation; the rest are exceptions that
the properties state.

In `Kernel` (`M` is `MCKernel`):

- `KillExited.cfg`: `kill` succeeds on a child that has exited and is not joined.
- `KillBlocked.cfg`: a killed child that is blocked in `down` or `join` is never
  forced to exit: only a tick in user mode looks at `killed`.
- `ExecHandler.cfg`: `execl` keeps `in_handler` and the saved context, so a later
  `sigreturn` in the new program resumes the registers of the old one.
- `ExecRace.cfg`: `per_core_init` allocates through the global
  `VMM::page_directory`; two cores in `execl` can turn on the same directory.
  This is why `exec` has one core. At boot the same race is possible between two
  cores (`g.raced` in `Boot`), which `OwnDirectory` excepts.
- `SemCollect.cfg`: `exit` releases no semaphore, and `down` leaks the reference
  its local variable holds, since `event_loop` does not return.
- `KernelFrame.cfg`, `SigreturnResumes`: a system call that uses an unmapped
  address enters the handler with a frame of the kernel saved. `sigreturn` then
  does not "resume normal execution of the process" (`src/README.md:89`): it
  repeats the access in the kernel. `HandlerState` therefore says of the saved
  context only that it is not a handler's.

In the other modules:

- `PipeFault.cfg` (`Pipe`), `FaultsOwn`: a fault in the continuation of a pipe read
  makes the process exit that last ran on the core, under the directory of the
  reader, or enters that process's handler; on a core that has run no process
  `vmm_pageFault` reads through a null `active_pcbs`. `src/README.md` has "force the
  faulting process to exit".
- `MmapAdjacent.cfg` (`MCMemory`), `MmapAsDocumented`: `simple_mmap` looks at one
  page more than it maps, so it refuses an address whose region would end exactly
  where another begins, or at the end of user space. `MmapServes` has this as it
  is.
- `Memory`: a directory is never freed; `execl` adds the regions of the new
  program to the old ones; `simple_munmap` leaves translations in the TLB.
  `OnlyDirectoriesLeak`, `Disjoint` and `Private` say exactly which states are
  excepted.
- `HeapFirstFit.cfg` (`MCHeap`), `FirstFits`: the comment at `heap.cc:6` says "a
  first-fit heap", but the kernel's search goes on over up to `Tries` fitting blocks
  and takes the smallest. `Serves` has what it does.
- `Heap`: `bytes + 3` wraps for the three largest requests, which are then served
  with a block of the minimum size. `HeapAssumption` leaves these three out.
- `Files`: two overlapping reads can pass the end of the file, after which
  `size - offset` wraps and a read may deliver more than was asked for. A process
  that faults while a whole block is copied straight into its memory keeps the
  drive's lock, whether it exits or goes on in its handler; `DriveReleased` excepts
  such holders (`held`).
- `PathSlashes.cfg` (`MCAlgorithms`), `SlashesAlike`: "'//' is the same as '/', so
  ignore extra slashes" (`sys.cc:84`), but of a file `f` the path `f/` is found and
  `f//` is not. `PathDenotes` excepts two or more slashes behind a file's name.
- `Storage`: `read_all` of no bytes from behind the end returns 0, where
  `block_io.h:51` has -1 (`ReadAllContract` excepts `n = 0`). `Node::find` returns the
  last entry of a name, deleted ones included, so a deleted entry behind a live one
  hides it (`FindLive` excepts this).
- `Loader`: `valid_load` lets through memory that ends at exactly 2^32, whose end is
  then 0, and a `filesz` above `memsz`, of which `load` stores all. `ElfInside` excepts
  both.
- `Events`: `event_loop` deletes an event whose `doit` returns twice; deadlines
  that wrap are due at once.
- `Boot`: `configInit` skips the first entry of the MADT and looks at what lies
  behind the last one; `Usual` describes the tables for which this is harmless.
  The load segment in `mbr.S` has 16 bits and wraps for a kernel of a megabyte or
  more, onto what was loaded first; `SectorsPlaced` excepts such drives.
- `Text`: zeros together with a precision, a sign in front of zero padding in
  `%f`, a fraction that starts with 0, and a precision below the width in `%s`
  print less or other than C asks; `%f` with precision 0 is padded to one column
  less than its width; a format that ends in `%w` is read past its
  terminator.

## Proofs

Checked by TLAPS, for every value of the constants that satisfies the named
assumptions (`SemaphoreAssumption`, `QueueAssumption`, `BufferAssumption`,
`StartAssumption`, `KernelAssumption`, `FilesAssumption`, `EventsAssumption`,
`BootAssumption`). They are: finitely many cores, processes and descriptors; at
least one slot or place; that there is a first process, and in `Pipe` a first core,
that of `kernelMain` (the others start without a process); that core 0 exists; that
a descriptor table has room for the terminal's three descriptors; that a file's
size fits its offset; that the count of sectors is at least as wide as the
segments; and that nullptr is not an object. Which buffers are unmapped
and who has a handler is not restricted. TLC evaluates each assumption on the
constants of the runs.

Each component has one inductive invariant, or a chain of them in which the later
ones rest on the earlier; every action has a lemma that says what it does to the
state, and one that it keeps the invariant. Most leaves are first-order and name
Zenon; those with arithmetic or records are left to the SMT solver.

**Semaphore.** `LockInv` is inductive: the types, mutual exclusion, and
`ControlInv`, which says what each core still knows from the test it made under
the lock (a core at `down_take` has `count > 0`, one at `down_wait` has
`count = 0`, one at `up_count` has an empty waiting queue). Without `ControlInv`
none of the properties is inductive: the decrement in `down` is safe only
because no other core can have moved since the test. From it follow
`TypeCorrect`, `MutualExclusionHolds`, `WakeAssertionHolds` and
`NoLostWakeupHolds`. `OnePlace` is inductive relative to `LockInv`;
`Conservation` relative to both, with the finiteness of `Granted` added.
`Refinement` shows `Spec => RefinesAtomic`: the mapping keeps `count` and
`waiting` and takes for `granted` the events that are ready or carried by a core
that has yet to publish them.

**Kernel.** The invariants are in `KernelInvariants`, each with what makes the
one before it too weak.

- `KernelInv`. `TypeOK` is not inductive: that a core which resumes a process
  gets registers depends on who may be in a queue. `KernelInv` adds that every
  closure in the ready queue or in a waiting queue is `Runnable` (its process
  exists and the context it will restore is saved), that a process in a handler
  has a context to return to, and that a core outside the event loop has a process
  that exists. The delicate point is that changing a PCB must keep every queued
  closure runnable. From it: `KernelCorrect`, `TypeCorrect`.
- `PlaceInv`: the processes on cores and those in queues are disjoint, without
  repetition, and together they are exactly the live ones; a process not yet forked
  has not exited. It is `OnePlace` in terms of sets that an action changes by one
  process, where `OnePlace` counts the places of each. From it: `OnePlaceHolds`.
- `JoinInv`: a `join` closure names the youngest child of its process, no process
  is a child twice, and the unit of an `exit_future` is in its count or with the
  joiner it woke. `JoinsYoungest` and `ExitFuture` are inductive only together:
  one says who waits, the other that a second waiter never comes.
- `RefInv`: a reference count is at least the number of slots that refer to the
  semaphore plus the closures that wait in it (`down` copies its `Shared` and
  never releases it). From it: `NoDanglingHolds`.
- `OpsInv`, `PosInv`: the flag `in_handler` agrees with the context a process will
  next have, wherever that is kept (`Contexts`: on its core, in its PCB, or in
  the closure), and what a handler interrupted was no handler. A frame of the
  kernel can get into each of these places, by `sigreturn` and then a switch, so the
  invariant has to speak of all of them. From it: `HandlerStateHolds`, also for
  handlers that a fault of kernel code has entered.
- `SpaceInv`: a core uses the directory of its process, also during `execl`, and
  what is freed is older than any directory in use. From it: `OwnSpaceHolds`.
- `ImageInv`: registers belong to the program that the directory holds, also those
  a handler interrupted. From it: `ImageContextHolds`.
- `EaxInv`, `NextRight`: a process blocked in a call has the call's number in the
  saved `eax`, and `NextContext` is the one context of each live process. From
  these: the action property `ContextKeptHolds`.

Three of the theorems have a hypothesis on what programs do, since without it the
property is false. `HandlerState` fails when programs use both `execl` and
handlers (`ExecHandler.cfg`), `OwnSpace` when two cores are in `execl`
(`ExecRace.cfg`), and `ImageContext` in both cases. They are proved for programs
without `execl`, and with it for programs without handlers, on one core, or both.
The others have no such hypothesis.

**Queue.** `QueueInv` says who may be between lock and unlock, what each core
there has done so far (`Control`, `Ends`: `last` is behind by one node only for a
core at `last`), that a node in the hands of a core is nobody else's (`Fresh`),
and that the pointers from `first` spell `items` (`Spells`). A pointer write
preserves `Spells` only because the node is fresh and `last` is the end of the
list, hence the strengthening. `NoMissedWakeupHolds` needs only that the monitor
is armed before the exchange. `Refinement` maps `add` to the write that links the
node and `remove` to the one that unlinks it.

**Bounded buffer.** `BufferInv`: a closure is in one place (a waiting queue, the
ready queue, or a core), closures that wait for `n_full` are gets, those that
wait for `n_empty` puts, and a closure is that of the call its client is in, with
the call done exactly when the closure is past the queue. On top of it
`PlacesHold`: every place is accounted for by a unit of a semaphore, by a closure
that was granted a unit and has not used it, or by an `up` still to come. That a
put never finds the buffer full, and a get never empty, is a consequence of the
counting and not of any test in the code; with it `Refinement` maps `PutAdd` and
`GetRemove` to the channel's put and get, and every other step to a call, a
return or nothing.

**Pipe.** To the buffer, every step of a pipe is one of its own (`PipeUses`), so
`PipeRefinement` carries over. `RunsAsItselfHolds` rests on `PipeInv`: as long as no
fault has led out of the model, a process that is on a core or waits to be resumed
has no call open, no two cores run one process, and a core that runs a closure runs
no process. So the process that a continuation resumes is nowhere else, also on a
core whose `active_pcbs` is stale or null. `ReceivedHolds` carries the byte along: a
closure of `get` past the queue has the byte that was removed for its client
(`taken`), whichever core runs it, and a client outside of any call has that byte in
its memory; that the store goes to the client's memory is because the directory
was switched before it, and no other process uses that directory.

**Files.** `TableInv`: the types, which points of `read` have a call open, and
that `ref_count` is the number of table slots and open calls that refer to the
descriptor, which is deleted exactly at zero. A call that faults keeps its
reference for ever, also when its process goes on in a handler and calls again, so
the count is a sum over slots, calls and `leaked`. From it:
`NoDanglingHolds`. `ReadInv` is about offsets: only a fork gives a descriptor to
two processes (`Sole`); until it has passed the end, what a descriptor delivered
is below its offset (`Offsets`); a call between its look at the offset and
`fetch_add` has a count that fits unless another process moved the offset
meanwhile, and one past `fetch_add` has a range of its own that nobody else
delivers (`Fits`, `Disjoint`). `OvershotSharedHolds` and `ReadsExactHolds` follow:
the range is disjoint from all others because `fetch_add` is atomic, although the
count was computed before it.

**Boot.** `BootCorrect` has four parts. `StartInv` says where core 0 and the core
it waits for may be, that those before it are past their start and those after it
are off (`InTurn`), and how `running` counts them: that no two cores are on
`tempStack` rests on core 0 waiting until `running` passes `id`. `DirInv` says
which parts of the last directory the one core in `per_core_init` has filled in,
as long as there was only one. `Loading` relates the count, the segment and the
sector number in the registers of `mbr.S`, modulo their widths. From these:
`CoresApartHolds`, `SectorsPlacedHolds`. Nothing is assumed about the table that
the firmware left.

**Events.** `EventInv`: an event is in at most one of the timer queue, the hands
of a core, the ready queue and `last_event` (`Once`); the timer queue is sorted,
and an event in it has no more ticks to go than there are until its time, unless
that wrapped (`Timely`); an event in a queue has not run, and one in `last_event`
has run once (`Ran`). `NotEarly` rests on the middle part: what a core takes from
the timer queue has no ticks left, however long ago it read `jiffies`. That
`PQ::add` keeps the queue sorted is `InsertFacts`, for queues of any length. From
these: `OnTimeHolds`, `DeletedOnceHolds`.

Only model-checked:

- liveness under fairness (`LockReleased`, `ReadyRuns`, `Rendezvous`,
  `DriveReleased`, `BootEnds`, `EventsRun`), which is outside of what this prover
  does;
- `AllStarted`: that `configInit` counts the installed cores is a statement about
  `SelectSeq` over the table, and would need induction over its length;
- memory, heap and the algorithms (`Private`, `FramesAccounted`, `RegionsKept`,
  `WellFormed`, `Intact`, and the properties of `algorithms`): free lists, boundary
  tags and the functions are defined by recursion over the data, and what a
  recursive definition computes for every input would need induction too.

## Not modelled

| what | why |
|---|---|
| `remove_all`, `monitor_add`, `monitor_remove`, `clear` of `Queue`; `get_symbol`, `entry_count` of `Ext2`; the coroutine interface of `Future` | nothing calls them at run time |
| `shutdown` | ends the machine by a write to a port |
| what follows `ReadLost` in `Pipe` | a null PCB is read at low addresses, or a process runs on two cores at once, one of them in its handler under another's directory |
| what the handler's arguments overwrite when they are stored below the `esp` of a kernel frame | the word that is taken for `esp` is not determined by the state of the models; the process goes on or exits |
| a call that faults after it has changed shared state, outside of pipe and file reads | `Kernel` has the fault before the first change (`SysBadPointer`) |
| an access of kernel code that succeeds when repeated, because the handler mapped the page before `sigreturn` | `fault` repeats it until the process exits or is in its handler again |
| steps inside `Shared::ref`, `unref` and assignment | taken as one step; counts are atomic |
| status polling and ports of `ide.cc`, `u8250.cc`, the PIC and APIC registers | device registers without a protocol between actors |
| the IDT's entries, segment descriptors, the search for the RSDP, `crt*` | constant tables and the language runtime |
| `debug.cc` | logging |
| the error paths of `execl` after `args` is allocated | `Kernel` has `execl` succeed or return at once; the path for an argument outside of user space deletes `args[j]` for every `j`, also those not yet allocated, whose value is that of recycled heap memory |
| `libk.cc` string functions, 64-bit limits of `snprintf.cc` | values in the models are small |
| test programs, their `libc.c`, `printf.c`, `sys.S` | the models let a program issue any system call instead; `heap.c` is in `Heap` |

Possible next: the pointers of `Heap` against an abstract set of blocks for every
length of the array, with the walk over the blocks as a function instead of a
fold; the count of cores in `configInit` as a state machine over the entries of
the table, which would bring `AllStarted` within reach of a proof.
