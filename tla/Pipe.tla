-------------------------------- MODULE Pipe ---------------------------------
(***************************************************************************)
(* read and write of a pipe (kernel/sys.cc): processes on several cores     *)
(* over one BoundedBuffer.  A call saves the process and hands the buffer   *)
(* a continuation; the core goes to the event loop, and whichever core runs *)
(* the continuation switches to the process's page directory, finishes the  *)
(* call and resumes it.  read finishes by storing into the user's buffer:   *)
(* it may fault, and active_pcbs still names the process the core ran last, *)
(* or none.                                                                 *)
(***************************************************************************)
EXTENDS BoundedBuffer

CONSTANTS FirstCore,    \* the core that kernelMain runs on
          FirstProc,    \* and its process
          Unmapped,     \* processes whose buffer is in no VME
          Handlers      \* processes with a signal handler

ASSUME StartAssumption ==
  /\ FirstCore \in Core /\ FirstProc \in Client
  /\ Unmapped \subseteq Client
  /\ Null \notin Client

VARIABLES user,         \* user[c]: core c runs a process, not event_loop
          active,       \* active_pcbs
          cr3,          \* cr3[c]: the process whose page directory is on
          switched,     \* processes with a resume in the ready queue
          present,      \* present[p]: p's buffer page has a frame
          mem,          \* mem[p]: the byte there
          taken,        \* history: the byte last removed for p to read
          blamed,       \* history: a fault made another process exit
          lost          \* a fault that leaves this model has happened

processes == <<user, active, cr3, switched, present, mem, taken, blamed, lost>>
pipeVars == <<vars, processes>>

(* One core runs the process that has made the pipe, and the ready queue    *)
(* has the processes it forked.  On the other cores active_pcbs is null     *)
(* until they have run a process.                                           *)
PipeInit ==
  /\ Init
  /\ user = [c \in Core |-> c = FirstCore]
  /\ active = [c \in Core |-> IF c = FirstCore THEN FirstProc ELSE Null]
  /\ cr3 = [c \in Core |-> IF c = FirstCore THEN FirstProc ELSE Null]
  /\ switched = Client \ {FirstProc}
  /\ present = [p \in Client |-> FALSE]
  /\ mem = [p \in Client |-> Null]
  /\ taken = [p \in Client |-> Null]
  /\ blamed = FALSE
  /\ lost = FALSE

(* vmm_on(pcb->page_directory); mutant: left out.                           *)
vmm_off(c, p) == UNCHANGED cr3
vmm_on(c, p) == cr3' = [cr3 EXCEPT ![c] = p]

(* active_pcbs.mine() = pcb; resume(&pcb->user_context)                     *)
Resume(c, p) ==
  /\ active' = [active EXCEPT ![c] = p]
  /\ user' = [user EXCEPT ![c] = TRUE]

(* interrupts.mine() = false; event_loop()                                  *)
ToEventLoop(c) == user' = [user EXCEPT ![c] = FALSE]

(* switch_processes: by the timer, or yield.  What it adds to the ready     *)
(* queue is kept apart from the buffer's closures, without its order.       *)
Switch(c) ==
  /\ user[c]
  /\ switched' = switched \cup {active[c]}
  /\ ToEventLoop(c)
  /\ UNCHANGED <<vars, active, cr3, present, mem, taken, blamed, lost>>

RunResume(c, p) ==
  /\ ~user[c] /\ job[c].at = "idle"
  /\ p \in switched
  /\ switched' = switched \ {p}
  /\ vmm_on(c, p)
  /\ Resume(c, p)
  /\ UNCHANGED <<vars, present, mem, taken, blamed, lost>>

----------------------------------------------------------------------------
(* write reads its byte from the buffer, whose page is there by then; a     *)
(* program without the mapping does not get that far (module Kernel).       *)
Write(c) ==
  /\ user[c]
  /\ active[c] \notin Unmapped
  /\ \E v \in Value : Put(active[c], v)
  /\ present' = [present EXCEPT ![active[c]] = TRUE]
  /\ ToEventLoop(c)
  /\ UNCHANGED <<active, cr3, switched, mem, taken, blamed, lost>>

Read(c) ==
  /\ user[c]
  /\ Get(active[c])
  /\ ToEventLoop(c)
  /\ UNCHANGED <<active, cr3, switched, present, mem, taken, blamed, lost>>

EventLoop(c) == ~user[c] /\ Take(c) /\ UNCHANGED processes

(* The closures of put and get; what get's removes is noted in taken.       *)
BufferStep(c) ==
  /\ Step(c)
  /\ taken' = IF At(c, "get", "queue")
              THEN [taken EXCEPT ![job[c].closure.client] = job'[c].closure.value] ELSE taken
  /\ UNCHANGED <<user, active, cr3, switched, present, mem, blamed, lost>>

(* Mutant of WriteReturn: no vmm_on.                                        *)
WriteReturnNoSwitch(c) ==
  /\ At(c, "put", "work")
  /\ Resume(c, job[c].closure.client)
  /\ Work(c)
  /\ UNCHANGED <<cr3, switched, present, mem, taken, blamed, lost>>

(* The continuation of write.                                               *)
WriteReturn(c) ==
  /\ At(c, "put", "work")
  /\ vmm_on(c, job[c].closure.client)
  /\ Resume(c, job[c].closure.client)
  /\ Work(c)
  /\ UNCHANGED <<switched, present, mem, taken, blamed, lost>>

(* The continuation of read: buffer[0] = value, under the directory that is *)
(* on.  A missing page is supplied on demand, into that directory, if the   *)
(* process that active_pcbs still names maps the address (vmm_pageFault).   *)
PageThere(c, dir) == present[dir] \/ (active[c] # Null /\ active[c] \notin Unmapped)

ReadReturn(c) ==
  /\ At(c, "get", "work")
  /\ vmm_on(c, job[c].closure.client)
  /\ PageThere(c, job[c].closure.client)
  /\ present' = [present EXCEPT ![cr3'[c]] = TRUE]
  /\ mem' = [mem EXCEPT ![cr3'[c]] = job[c].closure.value]
  /\ Resume(c, job[c].closure.client)
  /\ Work(c)
  /\ UNCHANGED <<switched, taken, blamed, lost>>

(* Otherwise vmm_pageFault calls exit(139): the directory that is on is     *)
(* emptied, the active process's exit_future is set, and the continuation   *)
(* is not finished.                                                         *)
ReadFault(c) ==
  /\ At(c, "get", "work")
  /\ vmm_on(c, job[c].closure.client)
  /\ ~PageThere(c, job[c].closure.client) /\ active[c] \in Unmapped \ Handlers
  /\ blamed' = (blamed \/ active[c] # job[c].closure.client)
  /\ Work(c)
  /\ UNCHANGED <<user, active, switched, present, mem, taken, lost>>

(* Or it finds no active process, and its first access faults in turn, and  *)
(* so on; or the active process has a handler, which the core enters under  *)
(* the reader's directory, whatever else that process is doing.  What       *)
(* follows is not explored.                                                 *)
ReadLost(c) ==
  /\ At(c, "get", "work")
  /\ vmm_on(c, job[c].closure.client)
  /\ ~PageThere(c, job[c].closure.client) /\ active[c] \in {Null} \cup Handlers
  /\ user' = [user EXCEPT ![c] = active[c] # Null]
  /\ lost' = TRUE
  /\ Work(c)
  /\ UNCHANGED <<active, switched, present, mem, taken, blamed>>

Continuation(c) == WriteReturn(c) \/ ReadReturn(c) \/ ReadFault(c) \/ ReadLost(c)

PipeNext == ~lost /\ \E c \in Core :
  \/ Switch(c) \/ \E p \in Client : RunResume(c, p)
  \/ Write(c) \/ Read(c) \/ EventLoop(c) \/ BufferStep(c) \/ Continuation(c)

(* A closure runs to its end, the timer interrupts a process, and the ready *)
(* queue, which is served in order, keeps no closure for ever.              *)
PipeSpec ==
  /\ PipeInit /\ [][PipeNext]_pipeVars
  /\ \A c \in Core : WF_pipeVars(~lost /\ (BufferStep(c) \/ Continuation(c)))
  /\ \A c \in Core : WF_pipeVars(~lost /\ Switch(c))
  /\ SF_pipeVars(~lost /\ \E c \in Core : EventLoop(c))

----------------------------------------------------------------------------
(* A core that runs a process has that process's page directory on, and no  *)
(* process runs on two cores or waits to be resumed meanwhile.              *)
RunsAsItself ==
  ~lost => \A c \in Core : user[c] =>
    /\ cr3[c] = active[c]
    /\ active[c] \notin switched
    /\ \A d \in Core : user[d] /\ active[d] = active[c] => d = c

(* A process that runs, or waits to be resumed, has in its memory the byte  *)
(* that the pipe last gave up for it: no byte is stored under another       *)
(* process's directory, whichever cores ran the closures of get and the     *)
(* continuations, and in whatever order.                                    *)
Received ==
  ~lost => \A p \in Client :
    p \in switched \/ (\E c \in Core : user[c] /\ active[c] = p) => mem[p] = taken[p]

(* Puts and gets never wait for each other: while there are both, one of    *)
(* them takes effect.                                                       *)
Outstanding(op) == {p \in Client : call[p] # Null /\ call[p].op = op}
Done(op) == {p \in Outstanding(op) : call[p].done}
Rendezvous ==
  (Outstanding("put") # {} /\ Outstanding("get") # {})
    ~> (Done("put") # {} \/ Done("get") # {} \/ lost)

(* The process made to exit by a page fault is the one whose access         *)
(* faulted (src/README.md: "force the faulting process to exit").  The      *)
(* code departs from it: active_pcbs names another one, or none.            *)
FaultsOwn == ~lost /\ ~blamed
==============================================================================
