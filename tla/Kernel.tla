-------------------------------- MODULE Kernel --------------------------------
(***************************************************************************)
(* Processes of the kernel: how system calls, page faults and the timer     *)
(* create them, block them, move them between cores and end them            *)
(* (kernel/sys.cc, pit.cc, vmm.cc, pcb.h, future.h, events.h, shared.h).    *)
(*                                                                          *)
(* A system call is one step, except where the code leaves shared state     *)
(* half-written for another core to see (kill).  Semaphore operations are   *)
(* the atomic ones that module Semaphore implements.                        *)
(***************************************************************************)
EXTENDS Integers, Sequences, FiniteSets, Functions

CONSTANTS Core,         \* the cores
          Proc,         \* PCB objects: a PCB is never deleted or reused
          FirstProc,    \* the process kernelMain starts
          Sem,          \* Semaphore objects that sem() can allocate
          Slots,        \* length of PCB::semaphores (100 in the code)
          Value,        \* the exit and kill codes that programs use
          Ops,          \* what the programs of this instance do
          MaxCount,     \* bound: units a user semaphore may hold
          MaxRef,       \* bound: references to a user semaphore
          MaxImage,     \* bound: calls of execl along a line of descent
          Null          \* nullptr

ASSUME KernelAssumption ==
  /\ FirstProc \in Proc
  /\ Proc \cap Sem = {}
  /\ Slots \in Nat \ {0}
  /\ Value \subseteq Nat
  /\ MaxCount \in Nat
  /\ MaxRef \in Nat
  /\ MaxImage \in Nat
  /\ Null \notin Proc \cup Sem

VARIABLES
  pcb,          \* pcb[p]: the fields of the PCB
  created,      \* the processes that exist or have existed
  sem,          \* sem[s]: a user semaphore; sem[p]: that of p's exit_future
  exit_value,   \* exit_value[p]: State::value of p's exit_future
  exits,        \* history: calls of exit_future.set on p
  made,         \* the user semaphores allocated so far
  ref,          \* ref[s]: reference count of the Shared<Semaphore> s
  ready,        \* impl::ready_queue
  freed,        \* page directories whose user half VMM::free has released
  page_directory, \* VMM::page_directory, the one per_core_init last allocated
  mode,         \* mode[c]: what core c executes
  active,       \* active_pcbs
  cr3,          \* cr3[c]: the page directory in use
  interrupts,   \* interrupts[c]: a timer tick was seen in kernel mode
  ctx           \* ctx[c]: the user registers, saved on the stack in a trap

procVars == <<created, exit_value, exits, freed, page_directory>>
semVars == <<made, ref>>
vars == <<pcb, sem, ready, procVars, semVars, mode, active, cr3, interrupts, ctx>>

(* "loop" and "loop_cli" are event_loop with interrupts on and, when the    *)
(* timer's interrupt gate led there, off; "sysret" is sysHandlerWrap after  *)
(* sysHandler; "kill" is kill() between its two stores, "execl" is execl()  *)
(* in per_core_init; "fault" is kernel code that has used an address which  *)
(* the process does not map.                                                *)
Mode == {"user", "sysret", "kill", "execl", "fault", "loop", "loop_cli"}
Idle == {"loop", "loop_cli"}

SysNumber == 998
Slot == 0 .. Slots - 1

(* A page directory is named by its process and program image.  A context   *)
(* belongs to an image and is in the main program, in its handler or, when  *)
(* a page fault in the kernel saved it, in the kernel.                      *)
Directory == Proc \X (0 .. MaxImage)
Context == [image : 0 .. MaxImage, pos : {"main", "handler", "kernel"}, eax : Int]

(* Closures of the ready queue and of the waiting queues.                   *)
Event == [kind : {"resume", "down", "join", "fork", "execl"}, pcb : Proc,
          child : Proc \cup {Null}, ctx : Context \cup {Null}]

Closure(kind, p) == [kind |-> kind, pcb |-> p, child |-> Null, ctx |-> Null]

NewPCB(directory) ==
  [page_directory |-> directory, user_context |-> Null, children |-> << >>,
   semaphores |-> [i \in Slot |-> Null],
   in_handler |-> FALSE, handler_eip |-> FALSE, handler_user_context |-> Null,
   killed |-> FALSE, killed_v |-> 0, handled |-> FALSE]

Init ==
  /\ pcb = [p \in Proc |-> NewPCB(<<p, 0>>)]
  /\ created = {FirstProc}
  /\ sem = [s \in Proc \cup Sem |-> [count |-> 0, waiting |-> << >>]]
  /\ exit_value = [p \in Proc |-> 0]
  /\ exits = [p \in Proc |-> 0]
  /\ made = {}
  /\ ref = [s \in Sem |-> 0]
  /\ ready = << >>
  /\ freed = {}
  /\ page_directory = <<FirstProc, 0>>
  /\ \E boot \in Core :
       /\ mode = [c \in Core |-> IF c = boot THEN "user" ELSE "loop"]
       /\ active = [c \in Core |-> IF c = boot THEN FirstProc ELSE Null]
       /\ cr3 = [c \in Core |-> IF c = boot THEN <<FirstProc, 0>> ELSE Null]
       /\ ctx = [c \in Core |-> IF c = boot
                                  THEN [image |-> 0, pos |-> "main", eax |-> 0]
                                  ELSE Null]
  /\ interrupts = [c \in Core |-> FALSE]

----------------------------------------------------------------------------
(* Semaphore::up and Semaphore::down as functions of the semaphores S and   *)
(* the ready queue R.                                                       *)
(* Mutants of UpSem: the woken closure stays in the queue; a unit is stored *)
(* although a closure is woken.                                             *)
UpSemPeek(S, s) ==
  IF S[s].waiting = << >> THEN [S EXCEPT ![s].count = @ + 1] ELSE S
UpSemStore(S, s) ==
  [S EXCEPT ![s].count = @ + 1,
            ![s].waiting = IF @ = << >> THEN @ ELSE Tail(@)]

UpSem(S, s) ==
  IF S[s].waiting = << >> THEN [S EXCEPT ![s].count = @ + 1]
                          ELSE [S EXCEPT ![s].waiting = Tail(@)]
UpReady(S, R, s) ==
  IF S[s].waiting = << >> THEN R ELSE Append(R, Head(S[s].waiting))

DownSem(S, s, e) ==
  IF S[s].count > 0 THEN [S EXCEPT ![s].count = @ - 1]
                    ELSE [S EXCEPT ![s].waiting = Append(@, e)]
DownReady(S, R, s, e) == IF S[s].count > 0 THEN Append(R, e) ELSE R

----------------------------------------------------------------------------
(* Leaving a process.  P is the PCBs as the caller has updated them.        *)
Leave(c, m) ==
  /\ interrupts' = [interrupts EXCEPT ![c] = FALSE]
  /\ mode' = [mode EXCEPT ![c] = m]
  /\ UNCHANGED <<active, cr3, ctx>>

SwitchProcesses(c, P, user_context, m) ==
  LET p == active[c] IN
  /\ pcb' = [P EXCEPT ![p].page_directory = cr3[c], ![p].user_context = user_context]
  /\ ready' = Append(ready, Closure("resume", p))
  /\ Leave(c, m)
  /\ UNCHANGED <<sem, procVars, semVars>>

Exit(c, P, value, m) ==
  LET p == active[c] IN
  /\ freed' = freed \cup {cr3[c]}
  /\ exit_value' = [exit_value EXCEPT ![p] = value]
  /\ exits' = [exits EXCEPT ![p] = @ + 1]
  /\ sem' = UpSem(sem, p)
  /\ ready' = UpReady(sem, ready, p)
  /\ pcb' = P
  /\ Leave(c, m)
  /\ UNCHANGED <<created, page_directory, semVars>>

(* Entering user mode, or the kernel code that a page fault interrupted: it *)
(* has its registers and repeats the access.                                *)
Resume(c, p, directory, user_context) ==
  /\ cr3' = [cr3 EXCEPT ![c] = directory]
  /\ active' = [active EXCEPT ![c] = p]
  /\ ctx' = [ctx EXCEPT ![c] = user_context]
  /\ mode' = [mode EXCEPT ![c] = IF user_context.pos = "kernel" THEN "fault" ELSE "user"]

(* sysHandler returns value to sysHandlerWrap.                              *)
Return(c, value) ==
  /\ ctx' = [ctx EXCEPT ![c].eax = value]
  /\ mode' = [mode EXCEPT ![c] = "sysret"]
  /\ UNCHANGED <<active, cr3, interrupts>>

(* Mutants of SysReturn: the result is not saved before the switch; the     *)
(* tick is forgotten.                                                       *)
SysReturnUnsaved(c) ==
  /\ mode[c] = "sysret"
  /\ IF interrupts[c]
       THEN SwitchProcesses(c, pcb, [ctx[c] EXCEPT !.eax = SysNumber], "loop")
       ELSE /\ mode' = [mode EXCEPT ![c] = "user"]
            /\ UNCHANGED <<pcb, sem, ready, procVars, semVars, active, cr3,
                           interrupts, ctx>>
SysReturnAlways(c) ==
  /\ mode[c] = "sysret"
  /\ mode' = [mode EXCEPT ![c] = "user"]
  /\ UNCHANGED <<pcb, sem, ready, procVars, semVars, active, cr3, interrupts, ctx>>

(* switch_interrupt: yield now for a tick that came during the call.        *)
SysReturn(c) ==
  /\ mode[c] = "sysret"
  /\ IF interrupts[c]
       THEN SwitchProcesses(c, pcb, ctx[c], "loop")
       ELSE /\ mode' = [mode EXCEPT ![c] = "user"]
            /\ UNCHANGED <<pcb, sem, ready, procVars, semVars, active, cr3,
                           interrupts, ctx>>

User(c, op) == mode[c] = "user" /\ op \in Ops

Trapped(c) == [ctx[c] EXCEPT !.eax = SysNumber]

----------------------------------------------------------------------------
(* event_loop: the closures that a core with nothing to do picks up.        *)
Next1(c, kind) == mode[c] \in Idle /\ ready # << >> /\ Head(ready).kind = kind

RunResume(c) ==
  /\ Next1(c, "resume")
  /\ LET p == Head(ready).pcb IN
     Resume(c, p, pcb[p].page_directory, pcb[p].user_context)
  /\ ready' = Tail(ready)
  /\ UNCHANGED <<pcb, sem, procVars, semVars, interrupts>>

RunDown(c) ==
  /\ Next1(c, "down")
  /\ LET p == Head(ready).pcb IN
     /\ pcb' = [pcb EXCEPT ![p].user_context.eax = 0]
     /\ Resume(c, p, pcb[p].page_directory, pcb'[p].user_context)
  /\ ready' = Tail(ready)
  /\ UNCHANGED <<sem, procVars, semVars, interrupts>>

(* Future::get's closure first re-ups the semaphore for the next getter.    *)
RunJoin(c) ==
  /\ Next1(c, "join")
  /\ LET p == Head(ready).pcb
         child == Head(ready).child IN
     /\ sem' = UpSem(sem, child)
     /\ ready' = UpReady(sem, Tail(ready), child)
     /\ pcb' = [pcb EXCEPT ![p].children = SubSeq(@, 1, Len(@) - 1),
                           ![p].user_context.eax = exit_value[child]]
     /\ Resume(c, p, pcb[p].page_directory, pcb'[p].user_context)
  /\ UNCHANGED <<procVars, semVars, interrupts>>

(* switchToUser for a new process or program.                               *)
RunStart(c) ==
  /\ Next1(c, "fork") \/ Next1(c, "execl")
  /\ LET p == Head(ready).pcb IN
     Resume(c, p, pcb[p].page_directory, Head(ready).ctx)
  /\ ready' = Tail(ready)
  /\ UNCHANGED <<pcb, sem, procVars, semVars, interrupts>>

----------------------------------------------------------------------------
(* System calls.                                                            *)
(* A call that first reads an argument where the process maps nothing.      *)
SysBadPointer(c) ==
  /\ User(c, "badptr")
  /\ mode' = [mode EXCEPT ![c] = "fault"]
  /\ UNCHANGED <<pcb, sem, ready, procVars, semVars, active, cr3, interrupts, ctx>>

SysExit(c) ==
  /\ User(c, "exit")
  /\ \E v \in Value : Exit(c, pcb, v, "loop")

(* The child's own copy of the page directory.                              *)
(* Mutant: the child is given the parent's.                                 *)
SharedDirectory(c, child) == cr3[c]
ForkDirectory(c, child) == <<child, cr3[c][2]>>

(* The references the child's copies of the slots add to s.                 *)
(* Mutant: the slots are copied bit by bit.                                 *)
NoCopies(semaphores, s) == 0
Copies(semaphores, s) == Cardinality({i \in Slot : semaphores[i] = s})

SysFork(c) ==
  /\ User(c, "fork")
  /\ \E child \in Proc \ created :
       LET parent == pcb[active[c]] IN
       /\ created' = created \cup {child}
       /\ pcb' = [pcb EXCEPT
            ![active[c]].children = Append(@, child),
            ![child] = [NewPCB(ForkDirectory(c, child)) EXCEPT
                          !.semaphores = parent.semaphores,
                          !.handler_eip = parent.handler_eip,
                          !.in_handler = parent.in_handler,
                          !.handler_user_context = parent.handler_user_context]]
       /\ ref' = [s \in Sem |-> ref[s] + Copies(parent.semaphores, s)]
       /\ ready' = Append(ready, [Closure("fork", child) EXCEPT
                                    !.ctx = [ctx[c] EXCEPT !.eax = 0]])
  /\ Return(c, 1)
  /\ UNCHANGED <<sem, exit_value, exits, freed, page_directory, made>>

SysYield(c) ==
  /\ User(c, "yield")
  /\ SwitchProcesses(c, pcb, Trapped(c), "loop")

(* peek_child.  Mutant: the oldest child.                                   *)
PeekFirst(p) == Head(pcb[p].children)
PeekChild(p) == pcb[p].children[Len(pcb[p].children)]

SysJoin(c) ==
  /\ User(c, "join")
  /\ LET p == active[c]
         child == PeekChild(p)
         e == [Closure("join", p) EXCEPT !.child = child] IN
     /\ pcb' = [pcb EXCEPT ![p].user_context = Trapped(c)]
     /\ \/ /\ pcb[p].children = << >>
           /\ Return(c, -1)
           /\ UNCHANGED <<sem, ready>>
        \/ /\ pcb[p].children # << >>
           /\ sem' = DownSem(sem, child, e)
           /\ ready' = DownReady(sem, ready, child, e)
           /\ Leave(c, "loop")
  /\ UNCHANGED <<procVars, semVars>>

(* execl may refuse the program.  Else it frees the old image, and           *)
(* per_core_init allocates a directory through a variable all cores share.  *)
SysExecl(c) ==
  /\ User(c, "execl")
  /\ \/ Return(c, -1) /\ UNCHANGED <<pcb, sem, ready, procVars, semVars>>
     \/ /\ cr3[c][2] < MaxImage
        /\ freed' = freed \cup {cr3[c]}
        /\ page_directory' = <<active[c], cr3[c][2] + 1>>
        /\ mode' = [mode EXCEPT ![c] = "execl"]
        /\ UNCHANGED <<pcb, sem, ready, created, exit_value, exits, semVars,
                       active, cr3, interrupts, ctx>>

(* The closure of an execl that a tick interrupted.  Mutant: the old        *)
(* registers are resumed.                                                   *)
ExeclResume(p, start) == Closure("resume", p)
ExeclClosure(p, start) == [Closure("execl", p) EXCEPT !.ctx = start]

(* It then turns that directory on and enters the program, here or, after a *)
(* tick, wherever the event loop takes it.                                  *)
SysExeclLoad(c) ==
  /\ mode[c] = "execl"
  /\ LET p == active[c]
         start == [image |-> cr3[c][2] + 1, pos |-> "main", eax |-> 0]
         P == [pcb EXCEPT ![p].page_directory = page_directory] IN
     IF interrupts[c]
       THEN /\ pcb' = [P EXCEPT ![p].user_context = Trapped(c)]
            /\ ready' = Append(ready, ExeclClosure(p, start))
            /\ interrupts' = [interrupts EXCEPT ![c] = FALSE]
            /\ mode' = [mode EXCEPT ![c] = "loop"]
            /\ UNCHANGED ctx
       ELSE /\ pcb' = P
            /\ ctx' = [ctx EXCEPT ![c] = start]
            /\ mode' = [mode EXCEPT ![c] = "user"]
            /\ UNCHANGED <<ready, interrupts>>
  /\ cr3' = [cr3 EXCEPT ![c] = page_directory]
  /\ UNCHANGED <<sem, procVars, semVars, active>>

----------------------------------------------------------------------------
(* User semaphores: Shared<Semaphore> in the slots of the PCB.              *)
SysSem(c) ==
  /\ User(c, "sem")
  /\ LET p == active[c]
         slots == pcb[p].semaphores IN
     \/ /\ \A i \in Slot : slots[i] # Null
        /\ Return(c, -1)
        /\ UNCHANGED <<pcb, sem, semVars>>
     \/ \E i \in Slot, s \in Sem \ made, n \in 0 .. MaxCount :
          /\ slots[i] = Null
          /\ \A j \in 0 .. i - 1 : slots[j] # Null
          /\ made' = made \cup {s}
          /\ ref' = [ref EXCEPT ![s] = 1]
          /\ sem' = [sem EXCEPT ![s].count = n]
          /\ pcb' = [pcb EXCEPT ![p].semaphores[i] = s]
          /\ Return(c, i)
  /\ UNCHANGED <<ready, procVars>>

SysUp(c) ==
  /\ User(c, "up")
  /\ \E i \in Slot :
       LET s == pcb[active[c]].semaphores[i] IN
       \/ s = Null /\ Return(c, -1) /\ UNCHANGED <<sem, ready>>
       \/ /\ s # Null
          /\ sem[s].count < MaxCount
          /\ sem' = UpSem(sem, s)
          /\ ready' = UpReady(sem, ready, s)
          /\ Return(c, 0)
  /\ UNCHANGED <<pcb, procVars, semVars>>

(* down: the local Shared copy is never destroyed, because event_loop does  *)
(* not return.                                                              *)
SysDown(c) ==
  /\ User(c, "down")
  /\ \E i \in Slot :
       LET p == active[c]
           s == pcb[p].semaphores[i] IN
       \/ s = Null /\ Return(c, -1) /\ UNCHANGED <<pcb, sem, ready, ref>>
       \/ /\ s # Null
          /\ ref[s] < MaxRef
          /\ ref' = [ref EXCEPT ![s] = @ + 1]
          /\ pcb' = [pcb EXCEPT ![p].user_context = Trapped(c)]
          /\ sem' = DownSem(sem, s, Closure("down", p))
          /\ ready' = DownReady(sem, ready, s, Closure("down", p))
          /\ Leave(c, "loop")
  /\ UNCHANGED <<procVars, made>>

SysSemClose(c) ==
  /\ User(c, "sem_close")
  /\ \E i \in Slot :
       LET s == pcb[active[c]].semaphores[i] IN
       \/ s = Null /\ Return(c, -1) /\ UNCHANGED <<pcb, ref>>
       \/ /\ s # Null
          /\ pcb' = [pcb EXCEPT ![active[c]].semaphores[i] = Null]
          /\ ref' = [ref EXCEPT ![s] = @ - 1]
          /\ Return(c, 0)
  /\ UNCHANGED <<sem, ready, procVars, made>>

----------------------------------------------------------------------------
(* Signals.                                                                 *)
SysSimpleSignal(c) ==
  /\ User(c, "simple_signal")
  /\ \E handler \in BOOLEAN :
       pcb' = [pcb EXCEPT ![active[c]].handler_eip = handler]
  /\ Return(c, 1)
  /\ UNCHANGED <<sem, ready, procVars, semVars>>

(* What the interrupt saved: the user's registers, or those of the kernel   *)
(* code that faulted (of which eax is not followed).                        *)
Frame(c) ==
  IF mode[c] = "fault" THEN [ctx[c] EXCEPT !.pos = "kernel", !.eax = 0] ELSE ctx[c]

(* The handler is marked entered; then its arguments are stored below the   *)
(* frame's stack pointer.  That may fault in turn, and ends the process: a  *)
(* program sets esp as it likes, and a frame of the kernel has none.        *)
Handling(c, P) ==
  [P EXCEPT ![active[c]].handler_user_context = Frame(c), ![active[c]].in_handler = TRUE]

EnterHandler(c, P) ==
  /\ pcb' = Handling(c, P)
  /\ ctx' = [ctx EXCEPT ![c].pos = "handler", ![c].eax = 0]
  /\ mode' = [mode EXCEPT ![c] = "user"]
  /\ UNCHANGED <<sem, ready, procVars, semVars, active, cr3, interrupts>>

CallHandler(c, P, m) == EnterHandler(c, P) \/ Exit(c, Handling(c, P), 139, m)

(* Mutant of LeaveHandler: in_handler is not reset.                         *)
LeaveHandlerStill(c) ==
  SwitchProcesses(c, pcb, pcb[active[c]].handler_user_context, "loop")

LeaveHandler(c) ==
  LET p == active[c] IN
  SwitchProcesses(c, [pcb EXCEPT ![p].in_handler = FALSE],
                  pcb[p].handler_user_context, "loop")

SysSigreturn(c) ==
  /\ User(c, "sigreturn")
  /\ \/ /\ ~pcb[active[c]].in_handler
        /\ Return(c, -1)
        /\ UNCHANGED <<pcb, sem, ready, procVars, semVars>>
     \/ pcb[active[c]].in_handler /\ LeaveHandler(c)

(* kill, first store: the youngest child is marked killed.                  *)
SysKill(c) ==
  /\ User(c, "kill")
  /\ LET children == pcb[active[c]].children
         child == PeekChild(active[c]) IN
     IF children # << >> /\ ~pcb[child].killed /\ ~pcb[child].handled
       THEN /\ pcb' = [pcb EXCEPT ![child].killed = TRUE]
            /\ mode' = [mode EXCEPT ![c] = "kill"]
            /\ UNCHANGED <<active, cr3, interrupts, ctx>>
       ELSE Return(c, -1) /\ UNCHANGED pcb
  /\ UNCHANGED <<sem, ready, procVars, semVars>>

(* kill, second store: the status the child is to exit with.                *)
SysKillValue(c) ==
  /\ mode[c] = "kill"
  /\ \E v \in Value :
       pcb' = [pcb EXCEPT ![PeekChild(active[c])].killed_v = v]
  /\ Return(c, 0)
  /\ UNCHANGED <<sem, ready, procVars, semVars>>

----------------------------------------------------------------------------
(* apitHandler.  In kernel mode it only leaves a note.                      *)
TimerKernel(c) ==
  /\ mode[c] \in {"sysret", "kill", "execl", "fault", "loop"}
  /\ ~interrupts[c]
  /\ interrupts' = [interrupts EXCEPT ![c] = TRUE]
  /\ UNCHANGED <<pcb, sem, ready, procVars, semVars, mode, active, cr3, ctx>>

TakesKill(p) == pcb[p].killed /\ ~pcb[p].handled /\ ~pcb[p].in_handler

TimerKill(c) ==
  /\ mode[c] = "user"
  /\ LET p == active[c]
         P == [pcb EXCEPT ![p].handled = TRUE] IN
     /\ TakesKill(p)
     /\ IF pcb[p].handler_eip THEN CallHandler(c, P, "loop_cli")
                              ELSE Exit(c, P, pcb[p].killed_v, "loop_cli")

TimerSwitch(c) ==
  /\ mode[c] = "user"
  /\ ~TakesKill(active[c])
  /\ SwitchProcesses(c, pcb, ctx[c], "loop_cli")

(* vmm_pageFault, for an address in no region.  It does not ask whether the *)
(* program or the kernel used the address.  Returning from the handler      *)
(* faults at 0x2000.                                                        *)
FaultReturn(c) ==
  /\ User(c, "return") \/ mode[c] = "fault"
  /\ pcb[active[c]].in_handler
  /\ LeaveHandler(c)

FaultSegv(c) ==
  /\ User(c, "segv") \/ mode[c] = "fault"
  /\ LET p == active[c] IN
     IF pcb[p].handler_eip /\ ~pcb[p].in_handler
       THEN CallHandler(c, pcb, "loop")
       ELSE Exit(c, pcb, 139, "loop")

----------------------------------------------------------------------------
Syscall(c) ==
  \/ SysExit(c) \/ SysFork(c) \/ SysYield(c) \/ SysJoin(c) \/ SysExecl(c)
  \/ SysSem(c) \/ SysUp(c) \/ SysDown(c) \/ SysSemClose(c)
  \/ SysSimpleSignal(c) \/ SysSigreturn(c) \/ SysKill(c) \/ SysBadPointer(c)
Fault(c) == FaultReturn(c) \/ FaultSegv(c)
Timer(c) == TimerKernel(c) \/ TimerKill(c) \/ TimerSwitch(c)
Trap(c) == SysExeclLoad(c) \/ SysKillValue(c) \/ SysReturn(c)
EventLoop(c) == RunResume(c) \/ RunDown(c) \/ RunJoin(c) \/ RunStart(c)

Next == \E c \in Core :
          Syscall(c) \/ Fault(c) \/ Timer(c) \/ Trap(c) \/ EventLoop(c)

Spec == Init /\ [][Next]_vars

(* A core in the kernel keeps executing, an idle core keeps polling the     *)
(* ready queue, and the local APIC ticks again and again.                   *)
FairSpec ==
  /\ Spec
  /\ \A c \in Core : /\ WF_vars(Trap(c))
                     /\ WF_vars(mode[c] = "fault" /\ Fault(c))
                     /\ WF_vars(EventLoop(c))
                     /\ WF_vars(Timer(c))

----------------------------------------------------------------------------
(* Where a process is.                                                      *)
Alive(p) == p \in created /\ exits[p] = 0
CoresOf(p) == {c \in Core : mode[c] \notin Idle /\ active[c] = p}
EventsOf(queue, p) == {i \in DOMAIN queue : queue[i].pcb = p}
Places(p) ==
  ({"core"} \X CoresOf(p)) \cup ({"ready"} \X EventsOf(ready, p))
    \cup UNION {{s} \X EventsOf(sem[s].waiting, p) : s \in Proc \cup Sem}

(* The registers with which it will go on.                                  *)
NextContext(p) ==
  IF CoresOf(p) # {} THEN ctx[CHOOSE c \in CoresOf(p) : TRUE]
  ELSE LET starts == {i \in EventsOf(ready, p) : ready[i].kind \in {"fork", "execl"}} IN
       IF starts # {} THEN ready[CHOOSE i \in starts : TRUE].ctx
                      ELSE pcb[p].user_context

PCB == [page_directory : Directory, user_context : Context \cup {Null},
        children : Seq(Proc), semaphores : [Slot -> Sem \cup {Null}],
        in_handler : BOOLEAN, handler_eip : BOOLEAN,
        handler_user_context : Context \cup {Null},
        killed : BOOLEAN, killed_v : Nat, handled : BOOLEAN]

(* The types of the variables.  A core that is not in the event loop has a  *)
(* process, a directory and registers.                                      *)
TypeOK ==
  /\ pcb \in [Proc -> PCB]
  /\ created \in SUBSET Proc
  /\ sem \in [Proc \cup Sem -> [count : Nat, waiting : Seq(Event)]]
  /\ exit_value \in [Proc -> Nat]
  /\ exits \in [Proc -> Nat]
  /\ made \in SUBSET Sem
  /\ ref \in [Sem -> Int]
  /\ ready \in Seq(Event)
  /\ freed \in SUBSET Directory
  /\ page_directory \in Directory
  /\ mode \in [Core -> Mode]
  /\ interrupts \in [Core -> BOOLEAN]
  /\ active \in [Core -> Proc \cup {Null}]
  /\ cr3 \in [Core -> Directory \cup {Null}]
  /\ ctx \in [Core -> Context \cup {Null}]
  /\ \A c \in Core : mode[c] \notin Idle =>
       active[c] \in Proc /\ cr3[c] \in Directory /\ ctx[c] \in Context

(* A live process is in exactly one place: on one core, or in one closure   *)
(* of the ready queue or of one waiting queue.  One that has exited, or is  *)
(* not yet forked, is in none.                                              *)
OnePlace == \A p \in Proc : Cardinality(Places(p)) = IF Alive(p) THEN 1 ELSE 0

(* A live process has a directory that no other process uses and that is    *)
(* not freed, and a core that runs it has that directory in cr3 (switch,    *)
(* resume, fork and execl all keep page_directory in step with cr3).        *)
OwnSpace ==
  \A p \in Proc : Alive(p) =>
    LET cores == {c \in CoresOf(p) : mode[c] # "execl"} IN
    /\ \A c \in cores : cr3[c] = pcb[p].page_directory
    /\ CoresOf(p) = cores => pcb[p].page_directory \notin freed
    /\ \A q \in Proc \ {p} :
         Alive(q) => pcb[p].page_directory # pcb[q].page_directory

(* A join blocks on the child that its closure will pop: the youngest one.  *)
(* It is in the child's exit_future until the child exits, then ready.      *)
JoinsYoungest ==
  \A p \in Proc : \A e \in Range(ready) \cup Range(sem[p].waiting) :
    e.kind = "join" =>
      /\ pcb[e.pcb].children # << >>
      /\ e.child = pcb[e.pcb].children[Len(pcb[e.pcb].children)]
      /\ e \in Range(ready) <=> exits[e.child] = 1

(* exit_future is set at most once, and once set its semaphore's one unit   *)
(* is never lost: it is in the count or with the one joiner it has woken.   *)
ExitFuture ==
  \A p \in Proc :
    /\ exits[p] <= 1
    /\ sem[p].count + Cardinality({i \in DOMAIN ready :
                         ready[i].kind = "join" /\ ready[i].child = p}) = exits[p]

(* A semaphore that a slot refers to, or that a process waits on, has not   *)
(* been deleted by the last unref.                                          *)
NoDangling ==
  \A s \in Sem :
    (\/ \E p \in created, i \in Slot : pcb[p].semaphores[i] = s
     \/ sem[s].waiting # << >>) => ref[s] > 0

(* The handler flag says where the process is, wherever its registers are   *)
(* kept, and handlers do not nest: what one interrupted is the program, or  *)
(* kernel code that faulted for it.                                         *)
HandlerState ==
  \A p \in Proc : Alive(p) =>
    /\ pcb[p].in_handler <=> NextContext(p).pos = "handler"
    /\ pcb[p].in_handler => pcb[p].handler_user_context.pos # "handler"

(* A process resumes in the program image that its directory holds.         *)
ImageContext ==
  \A p \in Proc : Alive(p) /\ (\A c \in CoresOf(p) : mode[c] # "execl") =>
    NextContext(p).image = pcb[p].page_directory[2]

(* A process that is preempted, or waits, resumes with the registers it     *)
(* left with, except that a blocking call delivers its result in eax.       *)
ContextKept ==
  [][\A p \in Proc :
       Alive(p) /\ (\A c \in CoresOf(p) : TimerSwitch(c) \/ SysReturn(c)) =>
         \/ NextContext(p)' = NextContext(p)
         \/ /\ CoresOf(p) = {} /\ CoresOf(p)' # {}
            /\ NextContext(p).eax = SysNumber
            /\ NextContext(p)' = [NextContext(p) EXCEPT !.eax = NextContext(p)'.eax]]_vars

(* A process in the ready queue runs at last, whatever the others do.       *)
ReadyRuns ==
  \A p \in Proc : (EventsOf(ready, p) # {}) ~> (CoresOf(p) # {})

----------------------------------------------------------------------------
(* What README.md says of kill, sigreturn and semaphores, where the code    *)
(* does otherwise.                                                          *)

(* "if the child doesn't have a handler, then it is forced to exit with     *)
(* status 'v'": every exit status is one that a program gave to exit or     *)
(* kill, or 139.                                                            *)
KillStatus == \A p \in Proc : exits[p] > 0 => exit_value[p] \in Value \cup {139}

Youngest(c) == PeekChild(active[c])

(* kill "fails if there are no remaining children, or if the youngest child *)
(* has already exited".                                                     *)
KillFailsOnExited ==
  [][\A c \in Core : mode[c] = "user" /\ mode'[c] = "kill" => Alive(Youngest(c))]_vars

(* A killed child that has no handler "is forced to exit", also when it is  *)
(* blocked in down or join.                                                 *)
KilledBlockedExits ==
  \A p \in Proc :
    (/\ Alive(p) /\ pcb[p].killed /\ ~pcb[p].handler_eip
     /\ \E s \in Proc \cup Sem : EventsOf(sem[s].waiting, p) # {}) ~> ~Alive(p)

(* sigreturn "does nothing if called from outside a signal handler".        *)
SigreturnOutside ==
  [][\A c \in Core :
       SysSigreturn(c) /\ ctx[c].pos = "main" => mode'[c] = "sysret"]_vars

(* sigreturn is called "to resume normal execution of the process".         *)
SigreturnResumes ==
  [][\A c \in Core :
       SysSigreturn(c) /\ pcb[active[c]].in_handler =>
         pcb'[active[c]].user_context.pos = "main"]_vars

(* The kernel "should garbage collect a semaphore when all processes that   *)
(* have access to it either exit or close it".                              *)
SemaphoreCollected ==
  \A s \in Sem :
    (s \in made /\ \A p \in Proc, i \in Slot : Alive(p) => pcb[p].semaphores[i] # s)
      ~> (ref[s] = 0)
===============================================================================
