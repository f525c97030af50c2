-------------------------- MODULE KernelInvariants ---------------------------
(*****************************************************************************)
(* The inductive invariants behind the theorems about Kernel.  Each begins  *)
(* where a property that the runs check is not inductive as it stands.      *)
(*****************************************************************************)
EXTENDS Kernel

(* The closures that can be run: their process exists, and has the saved    *)
(* registers that the closure will restore.                                 *)
Runnable ==
  {e \in Event :
     /\ e.pcb \in created
     /\ e.kind \in {"resume", "down", "join"} => pcb[e.pcb].user_context \in Context
     /\ e.kind \in {"fork", "execl"} => e.ctx \in Context
     /\ e.kind = "join" => e.child \in Proc}

(* Semaphores whose waiting queues hold members of Q.                       *)
Semaphores(Q) == [Proc \cup Sem -> [count : Nat, waiting : Seq(Q)]]

(* The PCBs, and a context to return to for each that is in its handler.    *)
PcbInv ==
  /\ pcb \in [Proc -> PCB]
  /\ \A p \in Proc : pcb[p].in_handler => pcb[p].handler_user_context \in Context

(* Processes, exit_futures, references and directories.                     *)
DataInv ==
  /\ created \in SUBSET Proc
  /\ exit_value \in [Proc -> Nat]
  /\ exits \in [Proc -> Nat]
  /\ made \in SUBSET Sem
  /\ ref \in [Sem -> Int]
  /\ freed \in SUBSET Directory
  /\ page_directory \in Directory

(* Only closures that can be run are queued.                                *)
QueueInv == sem \in Semaphores(Runnable) /\ ready \in Seq(Runnable)

(* The cores; one outside of the event loop has a process that exists, its  *)
(* directory and registers.                                                 *)
CoreInv ==
  /\ mode \in [Core -> Mode]
  /\ interrupts \in [Core -> BOOLEAN]
  /\ active \in [Core -> Proc \cup {Null}]
  /\ cr3 \in [Core -> Directory \cup {Null}]
  /\ ctx \in [Core -> Context \cup {Null}]
  /\ \A c \in Core : mode[c] \notin Idle =>
       /\ active[c] \in created
       /\ cr3[c] \in Directory
       /\ ctx[c] \in Context
       /\ mode[c] = "execl" => cr3[c][2] < MaxImage

(* TypeOK is not inductive: that a closure restores registers rests on who  *)
(* may be queued, and that sigreturn does rests on the handler flag.        *)
KernelInv == PcbInv /\ DataInv /\ QueueInv /\ CoreInv

----------------------------------------------------------------------------
(* A queue with at most one closure of each process.                        *)
Single(q) == \A i, j \in DOMAIN q : q[i].pcb = q[j].pcb => i = j

(* The closures of semaphores S and ready queue R, and their processes.     *)
Waits(S) == UNION {Range(S[s].waiting) : s \in Proc \cup Sem}
Closures(S, R) == Range(R) \cup Waits(S)
Queued(S, R) == {e.pcb : e \in Closures(S, R)}

(* No process has two closures.                                             *)
Apart(S, R) ==
  /\ Single(R)
  /\ \A s \in Proc \cup Sem : Single(S[s].waiting)
  /\ \A s \in Proc \cup Sem : \A e \in Range(R), f \in Range(S[s].waiting) : e.pcb # f.pcb
  /\ \A s, t \in Proc \cup Sem : s # t =>
       \A e \in Range(S[s].waiting), f \in Range(S[t].waiting) : e.pcb # f.pcb

(* A core outside of the event loop; the processes that such cores have,    *)
(* without repetition; and the processes that are alive.                    *)
Busy(c) == mode[c] \notin Idle
OnCore == {active[c] : c \in {d \in Core : Busy(d)}}
Alone == \A c, d \in Core : Busy(c) /\ Busy(d) /\ active[c] = active[d] => c = d
Living == {p \in Proc : Alive(p)}

(* Processes on cores and processes in queues are different ones, without   *)
(* repetition, and together they are the live ones.                         *)
PlaceInv ==
  /\ Alone
  /\ Apart(sem, ready)
  /\ OnCore \cap Queued(sem, ready) = {}
  /\ OnCore \cup Queued(sem, ready) = Living
  /\ \A p \in Proc \ created : exits[p] = 0

----------------------------------------------------------------------------
(* A join's closure is for the youngest child of its process.               *)
Joins(e) ==
  /\ pcb[e.pcb].children # << >>
  /\ e.child = pcb[e.pcb].children[Len(pcb[e.pcb].children)]

(* No process is twice a child.                                             *)
Family ==
  /\ \A q \in Proc : Range(pcb[q].children) \subseteq created
  /\ \A q, r \in Proc : \A i \in DOMAIN pcb[q].children, j \in DOMAIN pcb[r].children :
       pcb[q].children[i] = pcb[r].children[j] => q = r /\ i = j

(* The joiner that p's exit_future has woken.                               *)
Woken(p) == \E e \in Range(ready) : e.kind = "join" /\ e.child = p

(* The unit of an exit_future that has been set is in the count or with the *)
(* joiner it woke, and then nobody waits.                                   *)
Future(p) ==
  \/ exits[p] = 0 /\ sem[p].count = 0 /\ ~Woken(p)
  \/ /\ exits[p] = 1 /\ sem[p].waiting = << >>
     /\ Woken(p) => sem[p].count = 0
     /\ ~Woken(p) => sem[p].count = 1

(* JoinsYoungest and ExitFuture are inductive together, given that closures *)
(* wait where they belong and that no process is twice a child.             *)
JoinInv ==
  /\ Family
  /\ \A s \in Sem : \A e \in Range(sem[s].waiting) : e.kind = "down"
  /\ \A p \in Proc : \A e \in Range(sem[p].waiting) : e.kind = "join" /\ e.child = p
  /\ \A e \in Closures(sem, ready) : e.kind = "join" => Joins(e)
  /\ \A p \in Proc : Future(p)

----------------------------------------------------------------------------
(* The slots that refer to a semaphore.                                     *)
Holders(s) == {x \in created \X Slot : pcb[x[1]].semaphores[x[2]] = s}

(* A reference count covers the slots that refer to the semaphore and the   *)
(* copies that the calls of down waiting in its queue have made.            *)
RefInv ==
  /\ IsFiniteSet(created)
  /\ \A s \in Sem : ref[s] >= Cardinality(Holders(s)) + Len(sem[s].waiting)
  /\ \A s \in Sem \ made : Holders(s) = {} /\ sem[s].waiting = << >>

----------------------------------------------------------------------------
(* The registers that running a closure restores.                           *)
Saved(e) == IF e.kind \in {"fork", "execl"} THEN e.ctx ELSE pcb[e.pcb].user_context

(* Each process with the registers it will next have in user mode: those of *)
(* its core, or those that its closure restores.                            *)
CoreContexts == {<<active[c], ctx[c]>> : c \in {d \in Core : Busy(d)}}
Contexts == CoreContexts \cup {<<e.pcb, Saved(e)>> : e \in Closures(sem, ready)}

(* Modes and flags that the operations of the programs rule out.            *)
OpsInv ==
  /\ "execl" \notin Ops => \A c \in Core : mode[c] # "execl"
  /\ "simple_signal" \notin Ops => \A p \in Proc : ~pcb[p].handler_eip /\ ~pcb[p].in_handler

(* The handler flag says where the process is, for all that live.           *)
PosInv ==
  /\ \A x \in Contexts : pcb[x[1]].in_handler <=> x[2].pos = "handler"
  /\ \A p \in Proc : pcb[p].in_handler => pcb[p].handler_user_context.pos # "handler"

(* Directories carry their process's name; a core has its process's         *)
(* directory in cr3, also during execl, which then turns on the one it has  *)
(* allocated; what is freed is older than the directory of a live process,  *)
(* or is the one that its execl is replacing.                               *)
Replacing(p) == \E c \in Core : mode[c] = "execl" /\ active[c] = p
SpaceInv ==
  /\ \A p \in Proc : pcb[p].page_directory[1] = p
  /\ \A c \in Core : Busy(c) => cr3[c] = pcb[active[c]].page_directory
  /\ \A c \in Core : mode[c] = "execl" => page_directory = <<active[c], cr3[c][2] + 1>>
  /\ \A d \in freed : /\ d[1] \in created
                      /\ Alive(d[1]) =>
                           \/ d[2] < pcb[d[1]].page_directory[2]
                           \/ d[2] = pcb[d[1]].page_directory[2] /\ Replacing(d[1])

(* Registers belong to the program in the process's directory, also those   *)
(* that its handler interrupted.                                            *)
ImageInv ==
  /\ \A x \in Contexts : x[2].image = pcb[x[1]].page_directory[2]
  /\ \A p \in Proc : pcb[p].in_handler =>
       pcb[p].handler_user_context.image = pcb[p].page_directory[2]

(* A process blocked in down or join has the system call's number in the    *)
(* saved eax, where its result will be stored.                              *)
EaxInv ==
  \A e \in Closures(sem, ready) :
    e.kind \in {"down", "join"} => pcb[e.pcb].user_context.eax = SysNumber

(* NextContext is the one context of each live process.                     *)
NextRight ==
  \A p \in Proc : Alive(p) =>
    /\ <<p, NextContext(p)>> \in Contexts
    /\ \A x \in Contexts : x[1] = p => x[2] = NextContext(p)
==============================================================================
