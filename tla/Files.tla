-------------------------------- MODULE Files --------------------------------
(***************************************************************************)
(* File descriptors (kernel/pcb.h, kernel/sys.cc): open, close, dup, len,   *)
(* pipe, fork, exit, and read of a file down to the drive                   *)
(* (kernel/block_io.cc, kernel/ide.cc).  A descriptor is shared by dup and  *)
(* by fork, so processes on different cores use its offset at once; the     *)
(* steps of read between which others run are separate.  Blocking on pipes  *)
(* is in module Pipe.                                                       *)
(***************************************************************************)
EXTENDS Integers, FiniteSets, FiniteSetsExt

CONSTANTS Proc, FirstProc,
          NFD,          \* descriptors of a process (10)
          Desc,         \* FileDescriptor objects
          File,         \* the file that is read
          FileSize,     \* its size_in_bytes
          BlockSize,    \* block_size of the file system
          W,            \* offsets are modulo W (2^32)
          Counts,       \* arguments of read
          Nodes,        \* what find_path_node finds (module Path)
          Null,         \* nullptr
          Args,         \* descriptors passed to close, dup and read
          Unmapped,     \* processes that may pass a buffer in no region
          Handlers      \* processes with a signal handler

(* What a FileDescriptor may hold, and the locals of a call of read.        *)
Descriptors ==
  [vnode : Nodes \cup {Null}, pipe : BOOLEAN, readable : BOOLEAN, writable : BOOLEAN,
   offset : Nat, seen : SUBSET Nat, again : BOOLEAN, overshot : BOOLEAN, forked : BOOLEAN]
Calls ==
  [desc : Desc \cup {Null}, asked : Nat, count : Nat, pos : Nat, total : Nat, mapped : BOOLEAN]

ASSUME FilesAssumption ==
  /\ IsFiniteSet(Proc) /\ FirstProc \in Proc
  /\ IsFiniteSet(Desc) /\ Cardinality(Desc) >= 3
  /\ NFD \in Nat /\ NFD >= 3 /\ Args \subseteq 0 .. NFD - 1
  /\ FileSize \in Nat /\ W \in Nat /\ FileSize < W
  /\ BlockSize \in Nat /\ BlockSize > 0 /\ Counts \subseteq Nat
  /\ Null \notin Desc /\ Null \notin Descriptors

VARIABLES desc,         \* desc[o]: a FileDescriptor, or Null
          ref_count,    \* Counted<FileDescriptor>::ref_count
          fd,           \* pcb->file_descriptor
          pc,           \* where each process is
          call,         \* the locals of read
          lock,         \* Ide::lock: who holds it
          in_handler,   \* processes in a handler that a fault below started
          leaked,       \* leaked[o]: references on stacks of faulted calls
          held          \* history: whose copy faulted under the lock

tables == <<desc, ref_count, fd>>
faults == <<in_handler, leaked, held>>
vars == <<tables, pc, call, lock, faults>>

Slots == 0 .. NFD - 1
Minus(a, b) == (a - b) % W

(* FileDescriptor and its three constructors.  seen (the bytes delivered    *)
(* until the offset passes the end), again (one was delivered twice),       *)
(* overshot (the offset passed the end) and forked (a fork copied it) are   *)
(* history.                                                                 *)
Descriptor(vnode, pipe, readable, writable) ==
  [vnode |-> vnode, pipe |-> pipe, readable |-> readable, writable |-> writable,
   offset |-> 0, seen |-> {}, again |-> FALSE, overshot |-> FALSE, forked |-> FALSE]
OfNode(node) == Descriptor(node, FALSE, TRUE, FALSE)
OfTerminal(w) == Descriptor(Null, FALSE, FALSE, w)
OfPipe(r, w) == Descriptor(Null, TRUE, r, w)

NoCall == [desc |-> Null, asked |-> 0, count |-> 0, pos |-> 0, total |-> 0, mapped |-> TRUE]

(* init_file_descriptor                                                     *)
Init ==
  LET std == CHOOSE s \in [0 .. 2 -> Desc] : \A i, j \in 0 .. 2 : i # j => s[i] # s[j] IN
  /\ desc = [o \in Desc |-> IF o = std[0] THEN OfTerminal(FALSE)
                            ELSE IF o \in {std[1], std[2]} THEN OfTerminal(TRUE) ELSE Null]
  /\ ref_count = [o \in Desc |-> IF o \in {std[0], std[1], std[2]} THEN 1 ELSE 0]
  /\ fd = [p \in Proc |-> [i \in Slots |->
             IF p = FirstProc /\ i \in 0 .. 2 THEN std[i] ELSE Null]]
  /\ pc = [p \in Proc |-> IF p = FirstProc THEN "user" ELSE "unborn"]
  /\ call = [p \in Proc |-> NoCall]
  /\ lock = Null
  /\ in_handler = {}
  /\ leaked = [o \in Desc |-> 0]
  /\ held = {}

----------------------------------------------------------------------------
(* Shared<FileDescriptor>: ref and unref, which deletes at zero.            *)
Refs(counts, o, n) == [counts EXCEPT ![o] = @ + n]
Deleted(descs, counts) == [o \in Desc |-> IF counts[o] = 0 THEN Null ELSE descs[o]]
Unused == {o \in Desc : desc[o] = Null}

FreeSlots(p) == {i \in Slots : fd[p][i] = Null}
Lowest(slots) == Min(slots)

User(p) == pc[p] = "user"

(* open(path); on any error nothing changes.  The directories are read from *)
(* the drive, when it can be had.                                           *)
open(p, node) ==
  /\ User(p) /\ lock = Null
  /\ FreeSlots(p) # {} /\ Unused # {}
  /\ LET o == CHOOSE o \in Unused : TRUE IN
     /\ desc' = [desc EXCEPT ![o] = OfNode(node)]
     /\ ref_count' = Refs(ref_count, o, 1)
     /\ fd' = [fd EXCEPT ![p][Lowest(FreeSlots(p))] = o]
  /\ UNCHANGED <<pc, call, lock, faults>>

close(p, i) ==
  /\ User(p)
  /\ fd[p][i] # Null
  /\ ref_count' = Refs(ref_count, fd[p][i], -1)
  /\ desc' = Deleted(desc, ref_count')
  /\ fd' = [fd EXCEPT ![p][i] = Null]
  /\ UNCHANGED <<pc, call, lock, faults>>

(* Mutant of dup: the pointer is copied, not the Shared.                    *)
dupRaw(p, i) ==
  /\ User(p)
  /\ fd[p][i] # Null /\ FreeSlots(p) # {}
  /\ fd' = [fd EXCEPT ![p][Lowest(FreeSlots(p))] = fd[p][i]]
  /\ UNCHANGED <<desc, ref_count, pc, call, lock, faults>>

dup(p, i) ==
  /\ User(p)
  /\ fd[p][i] # Null /\ FreeSlots(p) # {}
  /\ fd' = [fd EXCEPT ![p][Lowest(FreeSlots(p))] = fd[p][i]]
  /\ ref_count' = Refs(ref_count, fd[p][i], 1)
  /\ UNCHANGED <<desc, pc, call, lock, faults>>

(* pipe(): the lowest free descriptor writes, the next one reads.           *)
pipe(p) ==
  LET w == Lowest(FreeSlots(p))
      r == Lowest(FreeSlots(p) \ {w})
  IN /\ User(p)
     /\ Cardinality(FreeSlots(p)) >= 2 /\ Cardinality(Unused) >= 2
     /\ LET ow == CHOOSE o \in Unused : TRUE
            or == CHOOSE o \in Unused \ {ow} : TRUE
        IN /\ desc' = [desc EXCEPT ![ow] = OfPipe(FALSE, TRUE), ![or] = OfPipe(TRUE, FALSE)]
           /\ ref_count' = Refs(Refs(ref_count, ow, 1), or, 1)
           /\ fd' = [fd EXCEPT ![p][w] = ow, ![p][r] = or]
     /\ UNCHANGED <<pc, call, lock, faults>>

(* fork: the child gets every descriptor, and in_handler.                   *)
fork(p, child) ==
  /\ User(p) /\ pc[child] = "unborn"
  /\ fd' = [fd EXCEPT ![child] = fd[p]]
  /\ ref_count' = [o \in Desc |-> ref_count[o] + Cardinality({i \in Slots : fd[p][i] = o})]
  /\ pc' = [pc EXCEPT ![child] = "user"]
  /\ desc' = [o \in Desc |-> IF \E i \in Slots : fd[p][i] = o
                             THEN [desc[o] EXCEPT !.forked = TRUE] ELSE desc[o]]
  /\ in_handler' = in_handler \cup {q \in {child} : p \in in_handler}
  /\ UNCHANGED <<call, lock, leaked, held>>

(* exit keeps the table: nothing releases the descriptors of a PCB.         *)
exit(p) ==
  /\ User(p)
  /\ pc' = [pc EXCEPT ![p] = "exited"]
  /\ UNCHANGED <<tables, call, lock, faults>>

(* vmm_pageFault for an access of the kernel to an address that p does not  *)
(* map.  It calls exit(139), or enters p's handler, in user mode, and the   *)
(* kernel code that faulted is left as it is; sigreturn would only resume   *)
(* it to fault again.  A handler's frame is stored at a stack pointer that  *)
(* the processor did not save, which may fault in turn: then p exits.       *)
Fault(p) ==
  \/ /\ pc' = [pc EXCEPT ![p] = "exited"]
     /\ UNCHANGED in_handler
  \/ /\ p \in Handlers \ in_handler
     /\ pc' = [pc EXCEPT ![p] = "user"]
     /\ in_handler' = in_handler \cup {p}

(* len of a descriptor that is no pipe reads vnode->data: for a terminal    *)
(* vnode is null.                                                           *)
len(p, i) ==
  /\ User(p)
  /\ fd[p][i] # Null /\ ~desc[fd[p][i]].pipe /\ desc[fd[p][i]].vnode = Null
  /\ Fault(p)
  /\ UNCHANGED <<tables, call, lock, leaked, held>>

----------------------------------------------------------------------------
(* read(fd, buffer, count) of a file: the descriptor is held, and count is  *)
(* compared with what is left.  The buffer may be in no region.             *)
ReadCall(p, i, count, mapped) ==
  LET o == fd[p][i] IN
  /\ User(p)
  /\ count # 0 /\ o # Null
  /\ desc[o].readable /\ ~desc[o].pipe /\ desc[o].vnode = File
  /\ ref_count' = Refs(ref_count, o, 1)
  /\ call' = [call EXCEPT ![p] = [desc |-> o, asked |-> count, count |-> count, pos |-> 0,
                                  total |-> 0, mapped |-> mapped]]
  /\ pc' = [pc EXCEPT ![p] =
              IF count > Minus(FileSize, desc[o].offset) THEN "clip" ELSE "add"]
  /\ UNCHANGED <<desc, fd, lock, faults>>

(* Mutant of Clip: the size of the whole file.                              *)
ClipSize(p) ==
  /\ pc[p] = "clip"
  /\ call' = [call EXCEPT ![p].count = FileSize]
  /\ pc' = [pc EXCEPT ![p] = "add"]
  /\ UNCHANGED <<tables, lock, faults>>

(* count = size - offset, with the offset read again.                       *)
Clip(p) ==
  /\ pc[p] = "clip"
  /\ call' = [call EXCEPT ![p].count = Minus(FileSize, desc[call[p].desc].offset)]
  /\ pc' = [pc EXCEPT ![p] = "add"]
  /\ UNCHANGED <<tables, lock, faults>>

(* BlockIO::read, called by read_all: how much comes from the next block,   *)
(* 0 at the end, -1 beyond it.                                              *)
Chunk(c) ==
  IF c.count = 0 \/ c.pos = FileSize THEN 0
  ELSE IF c.pos > FileSize THEN -1
  ELSE Min({BlockSize - (c.pos % BlockSize), c.count, FileSize - c.pos})

(* The loop of read_all: to the next block, or back to the caller.          *)
Continue(p, c) == pc' = [pc EXCEPT ![p] = IF Chunk(c) > 0 THEN "lock" ELSE "return"]

(* Mutant of FetchAdd: get() instead of fetch_add(count).                   *)
FetchAddGet(p) ==
  LET c == [call[p] EXCEPT !.pos = desc[call[p].desc].offset] IN
  /\ pc[p] = "add"
  /\ call' = [call EXCEPT ![p] = c]
  /\ Continue(p, c)
  /\ UNCHANGED <<tables, lock, faults>>

(* offset->fetch_add(count)                                                 *)
FetchAdd(p) ==
  LET o == call[p].desc
      c == [call[p] EXCEPT !.pos = desc[o].offset]
      offset == c.pos + c.count
  IN /\ pc[p] = "add"
     /\ desc' = [desc EXCEPT ![o].offset = offset % W,
                            ![o].overshot = @ \/ offset > FileSize,
                            ![o].seen = IF offset > FileSize THEN {} ELSE @]
     /\ call' = [call EXCEPT ![p] = c]
     /\ Continue(p, c)
     /\ UNCHANGED <<ref_count, fd, lock, faults>>

(* Ide::read_block: LockGuard.                                              *)
Lock(p) ==
  /\ pc[p] = "lock"
  /\ lock = Null
  /\ lock' = p
  /\ pc' = [pc EXCEPT ![p] = "copy"]
  /\ UNCHANGED <<tables, call, faults>>

(* Bytes arrive in the caller's buffer.                                     *)
Deliver(p) ==
  LET c == call[p]
      n == Chunk(c)
      bytes == c.pos .. c.pos + n - 1
      c1 == [c EXCEPT !.pos = @ + n, !.count = @ - n, !.total = @ + n]
  IN /\ desc' = [desc EXCEPT ![c.desc].seen =
                              IF desc[c.desc].overshot THEN {} ELSE @ \cup bytes,
                            ![c.desc].again = @ \/ bytes \cap desc[c.desc].seen # {}]
     /\ call' = [call EXCEPT ![p] = c1]
     /\ Continue(p, c1)

Whole(p) == Chunk(call[p]) = BlockSize

(* A whole block is read in place, under the lock; a part of one into a     *)
(* buffer of the kernel, and copied without the lock.                       *)
CopyInPlace(p) ==
  /\ pc[p] = "copy" /\ Whole(p) /\ call[p].mapped
  /\ Deliver(p)
  /\ lock' = Null
  /\ UNCHANGED <<ref_count, fd, faults>>

(* Mutant of CopyToTemp: the lock is held over the copy.                    *)
CopyToTempHold(p) ==
  /\ pc[p] = "copy" /\ ~Whole(p)
  /\ pc' = [pc EXCEPT ![p] = "memcpy"]
  /\ UNCHANGED <<tables, call, lock, faults>>

CopyToTemp(p) ==
  /\ pc[p] = "copy" /\ ~Whole(p)
  /\ lock' = Null
  /\ pc' = [pc EXCEPT ![p] = "memcpy"]
  /\ UNCHANGED <<tables, call, faults>>

CopyFromTemp(p) ==
  /\ pc[p] = "memcpy" /\ call[p].mapped
  /\ Deliver(p)
  /\ UNCHANGED <<ref_count, fd, lock, faults>>

(* The buffer is in no region.  The lock, if it is held, stays held, and    *)
(* the Shared on the stack keeps its reference.                             *)
CopyFault(p) ==
  /\ pc[p] \in {"copy", "memcpy"} /\ ~call[p].mapped
  /\ pc[p] = "copy" => Whole(p)
  /\ Fault(p)
  /\ call' = [call EXCEPT ![p] = NoCall]
  /\ leaked' = [leaked EXCEPT ![call[p].desc] = @ + 1]
  /\ held' = held \cup {q \in {p} : pc[p] = "copy"}
  /\ UNCHANGED <<tables, lock>>

(* n == -1 ? 0 : n                                                          *)
Return(p) ==
  /\ pc[p] = "return"
  /\ ref_count' = Refs(ref_count, call[p].desc, -1)
  /\ desc' = Deleted(desc, ref_count')
  /\ pc' = [pc EXCEPT ![p] = "user"]
  /\ call' = [call EXCEPT ![p] = NoCall]
  /\ UNCHANGED <<fd, lock, faults>>

Step(p) == Clip(p) \/ FetchAdd(p) \/ Lock(p) \/ CopyInPlace(p) \/ CopyToTemp(p)
             \/ CopyFromTemp(p) \/ CopyFault(p) \/ Return(p)

Next == \E p \in Proc :
  \/ \E node \in Nodes : open(p, node)
  \/ \E i \in Args : close(p, i) \/ dup(p, i)
  \/ \E i \in Slots : len(p, i)
  \/ pipe(p) \/ exit(p)
  \/ \E child \in Proc : fork(p, child)
  \/ \E i \in Args, n \in Counts : ReadCall(p, i, n, TRUE)
  \/ \E i \in Args, n \in Counts : p \in Unmapped /\ ReadCall(p, i, n, FALSE)
  \/ Step(p)

(* A process in the kernel is not preempted (apitHandler only takes note).  *)
Spec == Init /\ [][Next]_vars /\ \A p \in Proc : WF_vars(Step(p))

----------------------------------------------------------------------------
(* A descriptor lives as long as a table or a call in progress refers to    *)
(* it, in whatever order processes close, fork and return; calls that       *)
(* faulted keep it alive for good.                                          *)
References(o) ==
  Cardinality({x \in Proc \X Slots : fd[x[1]][x[2]] = o})
    + Cardinality({p \in Proc : call[p].desc = o}) + leaked[o]
NoDangling ==
  \A o \in Desc :
    /\ ref_count[o] = References(o)
    /\ References(o) > 0 => desc[o] # Null

(* Reads through one descriptor, by any processes at once, never deliver a  *)
(* byte twice, as long as the offset has not passed the end (README: "a     *)
(* second call to read will read bytes starting just after the end of the   *)
(* previously read bytes").                                                 *)
ByteOnce == \A o \in Desc : desc[o] # Null /\ desc[o].again => desc[o].overshot

(* The offset passes the end only when two processes' reads overlap: in a   *)
(* descriptor that no fork has shared it never does.                        *)
OvershotShared == \A o \in Desc : desc[o] # Null /\ desc[o].overshot => desc[o].forked

(* read never delivers more than it was asked for (README: "0 < n <=        *)
(* count"), again as long as the offset has not passed the end: then the    *)
(* second look at it may raise count instead of lowering it.                *)
NeverMore ==
  \A p \in Proc : call[p].total > call[p].asked => desc[call[p].desc].overshot

(* Reads of shared descriptors are exact: no byte twice, none too many.     *)
ReadsExact == ByteOnce /\ NeverMore

(* A drive that is taken is given back, unless the copy of a whole block    *)
(* into memory that the reader does not map faulted under the lock: a       *)
(* reader that exits then, or goes on in its handler, keeps it.  (Who gets  *)
(* a SpinLock is not fair, so a call may wait while others read.)           *)
DriveReleased == (lock \in Proc \ held) ~> (lock \in held \cup {Null})
==============================================================================
