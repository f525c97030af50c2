--------------------------- MODULE KernelTheorems ----------------------------
(*****************************************************************************)
(* The address spaces and the images of programs, the results of calls, the *)
(* counts of references, and the theorems about Kernel.                     *)
(*****************************************************************************)
EXTENDS KernelProofs

USE Zenon

----------------------------------------------------------------------------
(* All actions but fork and the end of execl keep each PCB's directory:     *)
(* switch_processes stores what is there.                                   *)
LEMMA DirectoryKept ==
  ASSUME KernelInv, SpaceInv, NEW c \in Core,
         (Calm(c) /\ ~SysExeclLoad(c)) \/ SysSigreturn(c) \/ Fault(c) \/ TimerKill(c),
         NEW q \in Proc
  PROVE  pcb'[q].page_directory = pcb[q].page_directory
<1>1. /\ mode[c] \notin Idle => active[c] \in Proc /\ cr3[c] = pcb[active[c]].page_directory
      /\ pcb \in [Proc -> PCB] /\ pcb[q] \in PCB
  BY Running DEF SpaceInv, Busy, KernelInv, PcbInv
<1>2. ASSUME NEW p, NEW G, Only(p, G), "page_directory" \notin G
      PROVE  pcb'[q].page_directory = pcb[q].page_directory
  BY <1>2 DEF Only, Fields
<1>3. ASSUME Busy(c), NEW u, NEW m, SwitchProcesses(c, pcb, u, m) \/ LeaveHandler(c)
      PROVE  pcb'[q].page_directory = pcb[q].page_directory
  <2>1. pcb'[active[c]].page_directory = cr3[c] /\ \A r \in Proc : r # active[c] => pcb'[r] = pcb[r]
    BY <1>3, SwitchPcb DEF Only
  <2> QED
    BY <1>1, <1>3, <2>1 DEF Busy
<1>4. CASE \/ SysExit(c) \/ TimerKernel(c) \/ SysExecl(c) \/ SysBadPointer(c) \/ SysUp(c)
           \/ RunResume(c) \/ RunStart(c)
  BY <1>4, PcbEffect
<1>5. CASE SysYield(c) \/ TimerSwitch(c) \/ SysReturn(c)
  <2>1. Busy(c)
    BY <1>5, BusyFacts DEF SysYield, TimerSwitch, SysReturn, User
  <2>2. pcb' = pcb \/ \E u, m : SwitchProcesses(c, pcb, u, m)
    BY <1>5 DEF SysYield, TimerSwitch, SysReturn
  <2> QED
    BY <1>3, <2>1, <2>2
<1>6. CASE SysJoin(c) \/ SysDown(c)
  <2>1. pcb' = pcb \/ pcb' = [pcb EXCEPT ![active[c]].user_context = Trapped(c)]
    BY <1>6 DEF SysJoin, SysDown
  <2>2. CASE pcb' = [pcb EXCEPT ![active[c]].user_context = Trapped(c)]
    <3>1. Busy(c)
      BY <1>6, BusyFacts DEF SysJoin, SysDown, User
    <3>2. active[c] \in Proc /\ pcb[active[c]] \in PCB
      BY <1>1, <3>1 DEF Busy
    <3> QED
      BY <1>1, <2>2, <3>2 DEF PCB
  <2> QED
    BY <2>1, <2>2
<1>7. CASE SysSimpleSignal(c) \/ SysSem(c) \/ SysSemClose(c) \/ RunDown(c) \/ RunJoin(c)
  <2>1. \E p : \/ Only(p, {"handler_eip"}) \/ Only(p, {"semaphores"})
               \/ Only(p, {"user_context"}) \/ Only(p, {"user_context", "children"})
    BY <1>7, PcbEffect
  <2> QED
    BY <1>2, <2>1
<1>8. CASE SysKill(c) \/ SysKillValue(c)
  <2>1. Kept({"killed", "killed_v"})
    BY <1>8, PcbEffect
  <2> QED
    BY <2>1 DEF Kept, Fields
<1>9. CASE SysSigreturn(c) \/ Fault(c) \/ TimerKill(c)
  <2> DEFINE P == [pcb EXCEPT ![active[c]].handled = TRUE]
  <2>1. Busy(c)
    BY <1>9, BusyFacts DEF SysSigreturn, Fault, FaultReturn, FaultSegv, TimerKill, User
  <2>2. \/ pcb' = pcb \/ pcb' = P \/ LeaveHandler(c)
        \/ pcb' = Handling(c, pcb) \/ pcb' = Handling(c, P)
    BY <1>9 DEF SysSigreturn, Fault, FaultReturn, FaultSegv, TimerKill, CallHandler,
       EnterHandler, Exit
  <2>3. CASE pcb' = P
    BY <1>1, <2>3 DEF PCB
  <2>4. CASE pcb' = Handling(c, pcb) \/ pcb' = Handling(c, P)
    <3>1. Only(active[c], {"handler_user_context", "in_handler", "handled"})
      BY <2>1, <2>4, EnterPcb
    <3> QED
      BY <1>2, <3>1
  <2> QED
    BY <1>3, <2>1, <2>2, <2>3, <2>4
<1> QED
  BY <1>4, <1>5, <1>6, <1>7, <1>8, <1>9 DEF Calm, Trap, EventLoop

(* Steps that allocate and free nothing.                                    *)
LEMMA SpaceKept ==
  ASSUME KernelInv, SpaceInv, UNCHANGED <<created, exits, freed, page_directory>>,
         \A q \in Proc : pcb'[q].page_directory = pcb[q].page_directory,
         \A d \in Core : mode'[d] = "execl" <=> mode[d] = "execl",
         \A d \in Core : mode[d] = "execl" => active'[d] = active[d] /\ cr3'[d] = cr3[d],
         \A d \in Core : Busy(d)' =>
           active'[d] \in Proc /\ cr3'[d] = pcb[active'[d]].page_directory
  PROVE  SpaceInv'
<1>1. \A p : Replacing(p)' <=> Replacing(p)
  BY DEF Replacing
<1>2. \A d \in freed : d[1] \in Proc
  BY DEF KernelInv, DataInv, Directory
<1>3. \A p \in Proc : Alive(p)' <=> Alive(p)
  BY DEF Alive
<1>4. ASSUME NEW d \in freed', Alive(d[1])'
      PROVE  \/ d[2] < pcb'[d[1]].page_directory[2]
             \/ d[2] = pcb'[d[1]].page_directory[2] /\ Replacing(d[1])'
  BY SMT, <1>1, <1>2, <1>3, <1>4 DEF SpaceInv
<1>5. /\ \A p \in Proc : pcb'[p].page_directory[1] = p
      /\ \A c \in Core : Busy(c)' => cr3'[c] = pcb'[active'[c]].page_directory
      /\ \A c \in Core : mode'[c] = "execl" => page_directory' = <<active'[c], cr3'[c][2] + 1>>
      /\ \A d \in freed' : d[1] \in created'
  BY DEF SpaceInv
<1> QED
  BY <1>4, <1>5 DEF SpaceInv

(* Calls and ticks that neither start nor end a program.                    *)
LEMMA SpaceCalm ==
  ASSUME KernelInv, PlaceInv, SpaceInv, NEW c \in Core,
         \/ SysYield(c) \/ SysJoin(c) \/ SysSem(c) \/ SysUp(c) \/ SysDown(c) \/ SysSemClose(c)
         \/ SysSimpleSignal(c) \/ SysKill(c) \/ SysKillValue(c) \/ SysReturn(c)
         \/ TimerKernel(c) \/ TimerSwitch(c) \/ EventLoop(c) \/ SysSigreturn(c)
         \/ SysBadPointer(c) \/ FaultReturn(c) \/ ((\E P : EnterHandler(c, P)) /\ (FaultSegv(c) \/ TimerKill(c)))
  PROVE  SpaceInv'
<1>1. \A q \in Proc : pcb'[q].page_directory = pcb[q].page_directory
  <2>1. ~SysExeclLoad(c) \/ mode[c] = "execl"
    BY DEF SysExeclLoad
  <2>2. CASE TimerKernel(c)
    BY <2>2 DEF TimerKernel
  <2>3. CASE ~SysExeclLoad(c)
    BY <2>3, DirectoryKept DEF Calm, Trap, Fault
  <2>4. CASE mode[c] = "execl" /\ ~TimerKernel(c)
    BY <2>4 DEF SysYield, SysJoin, SysSem, SysUp, SysDown, SysSemClose, SysSimpleSignal, SysKill,
       SysKillValue, SysReturn, TimerSwitch, EventLoop, RunResume, RunDown, RunJoin,
       RunStart, Next1, Idle, SysSigreturn, SysBadPointer, FaultReturn, FaultSegv, TimerKill, User
  <2> QED
    BY <2>1, <2>2, <2>3, <2>4
<1>2. UNCHANGED <<created, exits, freed, page_directory>>
  BY DEF SysYield, SysJoin, SysSem, SysUp, SysDown, SysSemClose, SysSimpleSignal, SysKill,
     SysKillValue, SysReturn, TimerKernel, TimerSwitch, EventLoop, RunResume, RunDown, RunJoin,
     RunStart, SysSigreturn, SysBadPointer, FaultReturn, EnterHandler, LeaveHandler,
     SwitchProcesses, procVars
<1>3. /\ mode \in [Core -> Mode] /\ cr3 \in [Core -> Directory \cup {Null}]
      /\ active \in [Core -> Proc \cup {Null}]
      /\ \A d \in Core : Busy(d) => active[d] \in Proc /\ cr3[d] = pcb[active[d]].page_directory
  BY Running DEF KernelInv, CoreInv, SpaceInv, Busy
<1>4. CASE EventLoop(c)
  <2>1. /\ \E u : Resume(c, Head(ready).pcb, pcb[Head(ready).pcb].page_directory, u)
        /\ mode[c] \in Idle /\ ready # << >>
    BY <1>4 DEF EventLoop, RunResume, RunDown, RunJoin, RunStart, Next1
  <2>2. PICK p \in Proc : p = Head(ready).pcb
    BY <2>1, HeadFacts
  <2>3. /\ active'[c] = p /\ cr3'[c] = pcb[p].page_directory /\ mode'[c] # "execl" /\ mode[c] # "execl"
        /\ \A d \in Core : d # c =>
             active'[d] = active[d] /\ cr3'[d] = cr3[d] /\ mode'[d] = mode[d]
    BY <1>3, <2>1, <2>2 DEF Resume, Idle
  <2>4. \A d \in Core : Busy(d)' => active'[d] \in Proc /\ cr3'[d] = pcb[active'[d]].page_directory
    BY <1>3, <2>3 DEF Busy
  <2> QED
    BY <1>1, <1>2, <2>3, <2>4, SpaceKept
<1>5. CASE ~EventLoop(c)
  <2>1. active' = active /\ cr3' = cr3
    BY <1>5 DEF SysYield, SysJoin, SysSem, SysUp, SysDown, SysSemClose, SysSimpleSignal, SysKill,
       SysKillValue, SysReturn, TimerKernel, TimerSwitch, SysSigreturn, SysBadPointer, FaultReturn,
       EnterHandler, LeaveHandler, SwitchProcesses, Leave, Return
  <2>2. \/ mode' = mode /\ (mode[c] # "execl" \/ TimerKernel(c))
        \/ /\ mode[c] \in {"user", "sysret", "kill", "fault"}
           /\ \E m \in Mode \ {"execl"} : mode' = [mode EXCEPT ![c] = m]
    <3>1. CASE \/ SysYield(c) \/ SysJoin(c) \/ SysSem(c) \/ SysUp(c) \/ SysDown(c)
               \/ SysSemClose(c) \/ SysSimpleSignal(c) \/ SysKill(c) \/ SysBadPointer(c)
      BY <3>1 DEF SysBadPointer, SysYield, SysJoin, SysSem, SysUp, SysDown, SysSemClose, SysSimpleSignal,
         SysKill, User, SwitchProcesses, Leave, Return, Mode
    <3>2. CASE SysKillValue(c) \/ SysReturn(c) \/ TimerKernel(c) \/ TimerSwitch(c) \/ SysSigreturn(c)
               \/ FaultReturn(c) \/ ((\E P : EnterHandler(c, P)) /\ (FaultSegv(c) \/ TimerKill(c)))
      BY <3>2 DEF SysKillValue, SysReturn, TimerKernel, TimerSwitch, SysSigreturn, FaultReturn,
         FaultSegv, TimerKill, EnterHandler, LeaveHandler, User, SwitchProcesses, Leave, Return, Mode
    <3> QED
      BY <1>5, <3>1, <3>2
  <2>3. \A d \in Core : /\ mode'[d] = "execl" <=> mode[d] = "execl"
                        /\ Busy(d)' => Busy(d)
    BY <1>3, <2>2 DEF Busy, Idle
  <2>4. \A d \in Core : Busy(d)' => active'[d] \in Proc /\ cr3'[d] = pcb[active'[d]].page_directory
    BY <1>3, <2>1, <2>3
  <2> QED
    BY <1>1, <1>2, <2>1, <2>3, <2>4, SpaceKept
<1> QED
  BY <1>4, <1>5

(* exit frees the directory of the process that ends.                       *)
LEMMA SpaceExit ==
  ASSUME KernelInv, PlaceInv, SpaceInv, NEW c \in Core, mode[c] \in {"user", "fault"},
         NEW P, NEW v, NEW m \in Idle, Exit(c, P, v, m),
         \A q \in Proc : pcb'[q].page_directory = pcb[q].page_directory
  PROVE  SpaceInv'
<1>1. Busy(c)
  BY BusyFacts
<1>2. PICK p \in Proc : p = active[c] /\ p \in created /\ cr3[c] = pcb[p].page_directory
  BY <1>1, BusyPlace DEF SpaceInv
<1>3. /\ freed' = freed \cup {cr3[c]} /\ exits' = [exits EXCEPT ![p] = @ + 1]
      /\ created' = created /\ page_directory' = page_directory /\ active' = active /\ cr3' = cr3
      /\ mode' = [mode EXCEPT ![c] = m] /\ exits \in [Proc -> Nat] /\ mode \in [Core -> Mode]
  BY <1>2 DEF Exit, Leave, KernelInv, DataInv, CoreInv
<1>4. \A d \in Core : /\ mode'[d] = "execl" <=> mode[d] = "execl"
                      /\ Busy(d)' => Busy(d)
  BY <1>3 DEF Busy, Idle
<1>5. \A q : Replacing(q)' <=> Replacing(q)
  BY <1>3, <1>4 DEF Replacing
<1>6. ~Alive(p)' /\ \A q \in Proc : Alive(q)' => Alive(q)
  BY SMT, <1>2, <1>3 DEF Alive
<1>7. ASSUME NEW d \in freed'
      PROVE  /\ d[1] \in created'
             /\ Alive(d[1])' =>
                  \/ d[2] < pcb'[d[1]].page_directory[2]
                  \/ d[2] = pcb'[d[1]].page_directory[2] /\ Replacing(d[1])'
  <2>1. CASE d = cr3[c]
    <3>1. d[1] = p
      BY <1>2, <2>1 DEF SpaceInv
    <3> QED
      BY <1>2, <1>3, <1>6, <3>1
  <2>2. CASE d \in freed
    <3>1. d[1] \in Proc
      BY <2>2 DEF KernelInv, DataInv, Directory
    <3> QED
      BY SMT, <1>3, <1>5, <1>6, <2>2, <3>1 DEF SpaceInv
  <2> QED
    BY <1>3, <2>1, <2>2
<1>8. /\ \A q \in Proc : pcb'[q].page_directory[1] = q
      /\ \A d \in Core : Busy(d)' => cr3'[d] = pcb'[active'[d]].page_directory
      /\ \A d \in Core : mode'[d] = "execl" => page_directory' = <<active'[d], cr3'[d][2] + 1>>
  <2>1. \A d \in Core : Busy(d) => active[d] \in Proc
    BY BusyPlace
  <2> QED
    BY <1>3, <1>4, <2>1 DEF SpaceInv
<1> QED
  BY <1>7, <1>8 DEF SpaceInv

(* fork makes a directory of the child's own.                               *)
LEMMA SpaceFork ==
  ASSUME KernelInv, PlaceInv, SpaceInv, NEW c \in Core, SysFork(c)
  PROVE  SpaceInv'
<1>1. PICK child \in Proc \ created : Forked(c, active[c], child)
  BY ForkPcb
<1>2. PICK p \in Proc : p = active[c] /\ p # child
  BY <1>1 DEF Forked
<1>3. /\ created' = created \cup {child} /\ pcb'[child].page_directory = <<child, cr3[c][2]>>
      /\ \A q \in Proc : q # child => pcb'[q].page_directory = pcb[q].page_directory
  BY <1>1, <1>2 DEF Forked, Fields
<1>4. /\ UNCHANGED <<exits, freed, page_directory, active, cr3>> /\ mode[c] = "user"
      /\ mode' = [mode EXCEPT ![c] = "sysret"] /\ mode \in [Core -> Mode]
  BY DEF SysFork, Return, User, KernelInv, CoreInv
<1>5. \A d \in Core : (mode'[d] = "execl" <=> mode[d] = "execl") /\ (Busy(d)' => Busy(d))
  BY <1>4 DEF Busy, Idle
<1>6. \A d \in Core : Busy(d) => active[d] \in Proc /\ active[d] # child
  BY BusyPlace
<1>7. \A q : Replacing(q)' <=> Replacing(q)
  BY <1>4, <1>5 DEF Replacing
<1>8. ASSUME NEW d \in freed
      PROVE  /\ d[1] \in created'
             /\ Alive(d[1])' =>
                  \/ d[2] < pcb'[d[1]].page_directory[2]
                  \/ d[2] = pcb'[d[1]].page_directory[2] /\ Replacing(d[1])'
  <2>1. d[1] \in Proc /\ d[1] \in created /\ d[1] # child
    BY DEF KernelInv, DataInv, Directory, SpaceInv
  <2>2. Alive(d[1])' => Alive(d[1])
    BY <1>4, <2>1 DEF Alive
  <2> QED
    BY <1>3, <1>7, <2>1, <2>2 DEF SpaceInv
<1>9. /\ \A q \in Proc : pcb'[q].page_directory[1] = q
      /\ \A d \in Core : Busy(d)' => cr3'[d] = pcb'[active'[d]].page_directory
      /\ \A d \in Core : mode'[d] = "execl" => page_directory' = <<active'[d], cr3'[d][2] + 1>>
  BY SMT, <1>3, <1>4, <1>5, <1>6 DEF SpaceInv
<1> QED
  BY <1>4, <1>8, <1>9 DEF SpaceInv

(* execl on the only core: it frees the directory in use, allocates the     *)
(* next one, and turns that one on.                                         *)
LEMMA SpaceExecl ==
  ASSUME KernelInv, PlaceInv, SpaceInv, NEW c \in Core, Core = {c}, SysExecl(c)
  PROVE  SpaceInv'
<1>1. Busy(c) /\ mode[c] = "user" /\ pcb' = pcb
  BY BusyFacts, PcbEffect DEF SysExecl, User
<1>2. PICK p \in Proc : p = active[c] /\ p \in created /\ cr3[c] = pcb[p].page_directory
  BY <1>1, BusyPlace DEF SpaceInv
<1>3. UNCHANGED <<created, exits, active, cr3>> /\ mode \in [Core -> Mode]
  BY DEF SysExecl, Return, procVars, KernelInv, CoreInv
<1>4. CASE Return(c, -1) /\ UNCHANGED <<pcb, sem, ready, procVars, semVars>>
  <2>1. \A d \in Core : mode'[d] = "sysret" /\ d = c
    BY <1>3, <1>4 DEF Return
  <2>2. \A d \in Core : /\ mode'[d] = "execl" <=> mode[d] = "execl"
                        /\ Busy(d)' => active'[d] \in Proc /\ cr3'[d] = pcb[active'[d]].page_directory
    BY <1>1, <1>2, <1>3, <2>1
  <2> QED
    BY <1>3, <1>4, <2>2, SpaceKept DEF procVars
<1>5. CASE /\ freed' = freed \cup {cr3[c]} /\ page_directory' = <<active[c], cr3[c][2] + 1>>
           /\ mode' = [mode EXCEPT ![c] = "execl"]
  <2>1. mode'[c] = "execl" /\ \A d \in Core : d = c
    BY <1>3, <1>5
  <2>2. Replacing(p)' /\ \A q : ~Replacing(q)
    BY <1>1, <1>2, <1>3, <2>1 DEF Replacing
  <2>3. ASSUME NEW d \in freed'
        PROVE  /\ d[1] \in created'
               /\ Alive(d[1])' =>
                    \/ d[2] < pcb'[d[1]].page_directory[2]
                    \/ d[2] = pcb'[d[1]].page_directory[2] /\ Replacing(d[1])'
    <3>1. CASE d = cr3[c]
      <4>1. d[1] = p
        BY <1>2, <3>1 DEF SpaceInv
      <4>2. d[2] = pcb'[p].page_directory[2]
        BY <1>1, <1>2, <3>1
      <4> QED
        BY <1>2, <1>3, <2>2, <4>1, <4>2
    <3>2. CASE d \in freed
      <4>1. d[1] \in created /\ (Alive(d[1]) => d[2] < pcb[d[1]].page_directory[2])
        BY <2>2, <3>2 DEF SpaceInv
      <4> QED
        BY <1>1, <1>3, <4>1 DEF Alive
    <3> QED
      BY <1>5, <3>1, <3>2
  <2>4. /\ \A q \in Proc : pcb'[q].page_directory[1] = q
        /\ \A d \in Core : Busy(d)' => cr3'[d] = pcb'[active'[d]].page_directory
        /\ \A d \in Core : mode'[d] = "execl" => page_directory' = <<active'[d], cr3'[d][2] + 1>>
    BY <1>1, <1>2, <1>3, <1>5, <2>1 DEF SpaceInv
  <2> QED
    BY <2>3, <2>4 DEF SpaceInv
<1> QED
  BY <1>4, <1>5 DEF SysExecl

(* The second half of execl.                                                *)
LEMMA SpaceLoad ==
  ASSUME KernelInv, PlaceInv, SpaceInv, NEW c \in Core, Core = {c}, SysExeclLoad(c)
  PROVE  SpaceInv'
<1>1. Busy(c) /\ mode[c] = "execl"
  BY BusyFacts DEF SysExeclLoad
<1>2. PICK p \in Proc : p = active[c] /\ p \in created /\ cr3[c] = pcb[p].page_directory
  BY <1>1, BusyPlace DEF SpaceInv
<1>3. /\ UNCHANGED <<created, exits, freed, page_directory, active>> /\ mode \in [Core -> Mode]
      /\ cr3' = [cr3 EXCEPT ![c] = page_directory] /\ cr3 \in [Core -> Directory \cup {Null}]
      /\ cr3[c] \in Directory
  BY <1>1, Running DEF SysExeclLoad, procVars, KernelInv, CoreInv, Busy
<1>4. page_directory = <<p, cr3[c][2] + 1>>
  BY <1>1, <1>2 DEF SpaceInv
<1>5. mode' \in [Core -> {"user", "loop"}]
  BY <1>3 DEF SysExeclLoad
<1>6. pcb'[p].page_directory = page_directory /\ \A q \in Proc : q # p => pcb'[q] = pcb[q]
  <2> DEFINE P == [pcb EXCEPT ![p].page_directory = page_directory]
  <2>1. pcb' = P \/ pcb' = [P EXCEPT ![p].user_context = Trapped(c)]
    BY <1>2 DEF SysExeclLoad
  <2>2. pcb \in [Proc -> PCB] /\ pcb[p] \in PCB
    BY DEF KernelInv, PcbInv
  <2>3. P[p].page_directory = page_directory /\ DOMAIN P = Proc /\ DOMAIN P[p] = Fields
    BY <2>2 DEF PCB, Fields
  <2> HIDE DEF P
  <2>4. pcb'[p].page_directory = P[p].page_directory
    BY <2>1, <2>3 DEF Fields
  <2>5. \A q \in Proc : q # p => pcb'[q] = pcb[q]
    BY <1>2, PcbEffect DEF Only
  <2> QED
    BY <2>3, <2>4, <2>5
<1>7. ASSUME NEW d \in freed'
      PROVE  d[1] \in created' /\ (Alive(d[1])' => d[2] < pcb'[d[1]].page_directory[2])
  <2>1. /\ d[1] \in Proc /\ d[1] \in created /\ d[2] \in Nat
        /\ cr3[c][2] \in Nat /\ (Alive(d[1])' => Alive(d[1]))
    BY SMT, <1>3, KernelAssumption DEF KernelInv, DataInv, Directory, SpaceInv, Alive
  <2>2. Alive(d[1]) => \/ d[2] < pcb[d[1]].page_directory[2]
                       \/ d[2] = pcb[d[1]].page_directory[2] /\ Replacing(d[1])
    BY <1>3 DEF SpaceInv
  <2>3. CASE d[1] = p
    <3>1. Alive(p) => d[2] <= cr3[c][2]
      BY SMT, <1>2, <2>1, <2>2, <2>3
    <3>2. pcb'[p].page_directory[2] = cr3[c][2] + 1
      BY SMT, <1>4, <1>6
    <3> QED
      BY SMT, <1>3, <2>1, <2>3, <3>1, <3>2
  <2>4. CASE d[1] # p
    <3>1. ~Replacing(d[1])
      BY <1>2, <2>4 DEF Replacing
    <3> QED
      BY <1>3, <1>6, <2>1, <2>2, <2>4, <3>1
  <2> QED
    BY <2>3, <2>4
<1>8. /\ \A q \in Proc : pcb'[q].page_directory[1] = q
      /\ \A d \in Core : Busy(d)' => cr3'[d] = pcb'[active'[d]].page_directory
      /\ \A d \in Core : mode'[d] # "execl"
  BY SMT, <1>2, <1>3, <1>4, <1>5, <1>6 DEF SpaceInv
<1> QED
  BY <1>7, <1>8 DEF SpaceInv

(* Every step keeps directories apart.                                      *)
LEMMA SpaceStep ==
  ASSUME "execl" \notin Ops \/ \E c : Core = {c},
         KernelInv, PlaceInv, OpsInv, SpaceInv, [Next]_vars
  PROVE  SpaceInv'
<1>1. CASE UNCHANGED vars
  BY <1>1 DEF SpaceInv, Replacing, Busy, Alive, vars, procVars
<1>2. ASSUME NEW c \in Core,
             Syscall(c) \/ Fault(c) \/ Timer(c) \/ Trap(c) \/ EventLoop(c)
      PROVE  SpaceInv'
  <2>1. ASSUME NEW P, NEW v, NEW m \in Idle, Exit(c, P, v, m),
               SysExit(c) \/ FaultSegv(c) \/ TimerKill(c)
        PROVE  SpaceInv'
    <3>1. mode[c] \in {"user", "fault"}
      BY <2>1 DEF SysExit, FaultSegv, TimerKill, User
    <3>2. ~SysExeclLoad(c)
      BY <3>1 DEF SysExeclLoad
    <3>3. \A q \in Proc : pcb'[q].page_directory = pcb[q].page_directory
      BY <2>1, <3>2, DirectoryKept DEF Calm, Fault
    <3> QED
      BY <2>1, <3>1, <3>3, SpaceExit
  <2>2. CASE SysExit(c)
    BY <2>1, <2>2 DEF SysExit, Idle
  <2>3. CASE FaultSegv(c) \/ TimerKill(c)
    <3>1. (\E P : EnterHandler(c, P)) \/ (\E P, v : \E m \in Idle : Exit(c, P, v, m))
      BY <2>3 DEF FaultSegv, TimerKill, CallHandler, Idle
    <3> QED
      BY <2>1, <2>3, <3>1, SpaceCalm
  <2>4. CASE SysExecl(c) \/ SysExeclLoad(c)
    <3>1. "execl" \in Ops
      BY <2>4 DEF SysExecl, SysExeclLoad, User, OpsInv
    <3>2. Core = {c}
      BY <3>1
    <3> QED
      BY <2>4, <3>2, SpaceExecl, SpaceLoad
  <2>5. CASE SysFork(c)
    BY <2>5, SpaceFork
  <2>6. CASE \/ SysYield(c) \/ SysJoin(c) \/ SysSem(c) \/ SysUp(c) \/ SysDown(c) \/ SysSemClose(c)
             \/ SysSimpleSignal(c) \/ SysKill(c) \/ SysKillValue(c) \/ SysReturn(c)
             \/ TimerKernel(c) \/ TimerSwitch(c) \/ EventLoop(c) \/ SysSigreturn(c)
             \/ SysBadPointer(c) \/ FaultReturn(c)
    BY <2>6, SpaceCalm
  <2> QED
    BY <1>2, <2>2, <2>3, <2>4, <2>5, <2>6 DEF Syscall, Fault, Timer, Trap
<1> QED
  BY <1>1, <1>2 DEF Next

(* At boot the first process has its directory.                             *)
LEMMA SpaceInit == Init => SpaceInv
<1> SUFFICES ASSUME Init PROVE SpaceInv
  OBVIOUS
<1>1. \A p \in Proc : pcb[p].page_directory = <<p, 0>>
  BY DEF Init, NewPCB
<1>2. \A c \in Core : /\ Busy(c) => active[c] = FirstProc /\ cr3[c] = <<FirstProc, 0>>
                      /\ mode[c] # "execl"
  BY DEF Init, Busy, Idle
<1>3. freed = {}
  BY DEF Init
<1> QED
  BY SMT, <1>1, <1>2, <1>3, KernelAssumption DEF SpaceInv

----------------------------------------------------------------------------
(* What handlers interrupted is as before, or p's has the image of w.       *)
Interrupted(p, w) ==
  \A q \in Proc : pcb'[q].in_handler =>
    \/ /\ pcb[q].in_handler
       /\ pcb'[q].handler_user_context = pcb[q].handler_user_context
    \/ q = p /\ pcb'[q].handler_user_context.image = w.image

(* A step of one process that changes no directory.                         *)
LEMMA MovedImage ==
  ASSUME KernelInv, PlaceInv, ImageInv, NEW p, NEW u, NEW w, <<p, w>> \in Contexts,
         u.image = w.image, Moves(p, u),
         \A q \in Proc : pcb'[q].page_directory = pcb[q].page_directory,
         Interrupted(p, w)
  PROVE  ImageInv'
<1>1. p \in Proc /\ w.image = pcb[p].page_directory[2]
  BY ContextOwners DEF ImageInv
<1>2. ASSUME NEW x \in Contexts' PROVE x[2].image = pcb'[x[1]].page_directory[2]
  <2>1. CASE x \in Elsewhere(p)
    <3>1. x \in Contexts /\ x[1] \in Proc
      BY <2>1, ContextOwners DEF Elsewhere
    <3> QED
      BY <3>1 DEF ImageInv
  <2>2. CASE x = <<p, u>>
    BY <1>1, <2>2
  <2> QED
    BY <2>1, <2>2 DEF Moves
<1>3. \A q \in Proc : pcb'[q].in_handler =>
        pcb'[q].handler_user_context.image = pcb'[q].page_directory[2]
  BY <1>1 DEF ImageInv, Interrupted
<1> QED
  BY <1>2, <1>3 DEF ImageInv

(* Every step keeps the registers with the program they belong to.          *)
LEMMA ImageStep ==
  ASSUME "execl" \notin Ops \/ "simple_signal" \notin Ops,
         KernelInv, PlaceInv, OpsInv, SpaceInv, ImageInv, [Next]_vars
  PROVE  ImageInv'
<1>1. CASE UNCHANGED vars
  BY <1>1, IdleContexts DEF ImageInv, vars
<1>2. ASSUME NEW c \in Core,
             Syscall(c) \/ Fault(c) \/ Timer(c) \/ Trap(c) \/ EventLoop(c)
      PROVE  ImageInv'
  <2>1. ASSUME Calm(c), ~SysExeclLoad(c), Busy(c), Quiet(c) PROVE ImageInv'
    <3>1. PICK u : SameUser(u, ctx[c]) /\ Moves(active[c], u)
      BY <2>1 DEF Quiet
    <3>2. PICK p : p = active[c] /\ <<p, ctx[c]>> \in Contexts
      BY <2>1, BusyPlace
    <3>3. \A q \in Proc : /\ pcb'[q].page_directory = pcb[q].page_directory
                          /\ pcb'[q].in_handler = pcb[q].in_handler
                          /\ pcb'[q].handler_user_context = pcb[q].handler_user_context
      BY <2>1, HandlerKept, DirectoryKept
    <3> QED
      BY <3>1, <3>2, <3>3, MovedImage DEF SameUser, Interrupted
  <2>2. CASE \/ SysExit(c) \/ SysJoin(c) \/ SysExecl(c) \/ SysSem(c) \/ SysUp(c) \/ SysDown(c)
             \/ SysSemClose(c) \/ SysSimpleSignal(c) \/ SysKill(c) \/ SysKillValue(c)
             \/ SysYield(c) \/ SysBadPointer(c)
    <3>1. ~SysExeclLoad(c)
      BY <2>2 DEF SysExit, SysJoin, SysExecl, SysSem, SysUp, SysDown, SysSemClose,
         SysSimpleSignal, SysKill, SysKillValue, SysYield, SysBadPointer, User, SysExeclLoad
    <3> QED
      BY <2>1, <2>2, <3>1, CallContexts DEF Calm, Trap
  <2>3. CASE TimerSwitch(c) \/ SysReturn(c)
    <3>1. Busy(c) /\ Quiet(c)
      BY <2>3, PreemptContexts DEF Quiet, SameUser
    <3>2. ~SysExeclLoad(c)
      BY <2>3 DEF TimerSwitch, SysReturn, SysExeclLoad
    <3> QED
      BY <2>1, <2>3, <3>1, <3>2 DEF Calm, Trap
  <2>4. CASE TimerKernel(c)
    BY <2>4, IdleContexts DEF TimerKernel, ImageInv
  <2>5. CASE SysFork(c)
    <3>0. PICK child \in Proc \ created : \E u, v :
              /\ Forked(c, active[c], child)
              /\ SameUser(u, ctx[c]) /\ SameUser(v, ctx[c])
              /\ Contexts' \subseteq Elsewhere(active[c]) \cup {<<active[c], u>>, <<child, v>>}
      BY <2>5, ForkContexts
    <3>1. PICK u, v :
              /\ Forked(c, active[c], child)
              /\ SameUser(u, ctx[c]) /\ SameUser(v, ctx[c])
              /\ Contexts' \subseteq Elsewhere(active[c]) \cup {<<active[c], u>>, <<child, v>>}
      BY <3>0
    <3>2. PICK p \in Proc : /\ p = active[c] /\ <<p, ctx[c]>> \in Contexts /\ p # child
                            /\ cr3[c] = pcb[p].page_directory
      BY <2>5, <3>1, ForkContexts, BusyPlace DEF Forked, SpaceInv
    <3>3. /\ \A q \in Proc : q # child =>
               /\ pcb'[q].in_handler = pcb[q].in_handler
               /\ pcb'[q].handler_user_context = pcb[q].handler_user_context
               /\ pcb'[q].page_directory = pcb[q].page_directory
          /\ pcb'[child].in_handler = pcb[p].in_handler
          /\ pcb'[child].handler_user_context = pcb[p].handler_user_context
          /\ pcb'[child].page_directory[2] = pcb[p].page_directory[2]
      BY SMT, <3>1, <3>2 DEF Forked, Fields
    <3>4. ctx[c].image = pcb[p].page_directory[2]
      BY <3>2 DEF ImageInv
    <3>5. ASSUME NEW x \in Contexts' PROVE x[2].image = pcb'[x[1]].page_directory[2]
      <4>1. CASE x \in Elsewhere(p)
        <5>1. x \in Contexts /\ x[1] \in Proc /\ x[1] # child
          BY <4>1, ContextOwners DEF Elsewhere
        <5> QED
          BY <3>3, <5>1 DEF ImageInv
      <4>2. CASE x = <<p, u>> \/ x = <<child, v>>
        BY SMT, <3>1, <3>2, <3>3, <3>4, <4>2 DEF SameUser
      <4> QED
        BY <3>1, <3>2, <4>1, <4>2
    <3>6. \A q \in Proc : pcb'[q].in_handler =>
            pcb'[q].handler_user_context.image = pcb'[q].page_directory[2]
      BY SMT, <3>2, <3>3 DEF ImageInv
    <3> QED
      BY <3>5, <3>6 DEF ImageInv
  <2>6. CASE SysSigreturn(c) \/ Fault(c) \/ TimerKill(c)
    <3>1. Busy(c)
      BY <2>6, SignalContexts
    <3>2. PICK p \in Proc : p = active[c] /\ <<p, ctx[c]>> \in Contexts /\ ctx[c] \in Context
      BY <3>1, BusyPlace
    <3>3. \A q \in Proc : pcb'[q].page_directory = pcb[q].page_directory
      BY <2>6, DirectoryKept
    <3>4. CASE Quiet(c) /\ Kept({"handled"})
      <4>1. \A q \in Proc : /\ pcb'[q].in_handler = pcb[q].in_handler
                            /\ pcb'[q].handler_user_context = pcb[q].handler_user_context
        BY <3>4 DEF Kept, Fields
      <4>2. PICK u : SameUser(u, ctx[c]) /\ Moves(p, u)
        BY <3>2, <3>4 DEF Quiet
      <4> QED
        BY <3>2, <3>3, <4>1, <4>2, MovedImage DEF SameUser, Interrupted
    <3>5. CASE /\ Moves(active[c], [ctx[c] EXCEPT !.pos = "handler", !.eax = 0])
               /\ Only(active[c], {"handler_user_context", "in_handler", "handled"})
               /\ pcb'[active[c]].handler_user_context = Frame(c)
      <4>0. [ctx[c] EXCEPT !.pos = "handler", !.eax = 0].image = ctx[c].image
        BY <3>2 DEF Context
      <4>1. PICK u, w : /\ u = [ctx[c] EXCEPT !.pos = "handler", !.eax = 0]
                        /\ w = ctx[c]
        OBVIOUS
      <4>2. Moves(p, u) /\ \A q \in Proc : q # p => pcb'[q] = pcb[q]
        BY <3>2, <3>5, <4>1 DEF Only
      <4>3. Interrupted(p, w)
        BY <3>1, <3>2, <3>5, <4>1, <4>2, FrameFacts DEF Interrupted
      <4>4. u.image = w.image /\ <<p, w>> \in Contexts
        BY <3>2, <4>0, <4>1
      <4> QED
        BY Zenon, <3>3, <4>2, <4>3, <4>4, MovedImage
    <3>6. CASE /\ pcb[active[c]].in_handler /\ pcb'[active[c]].in_handler = FALSE
               /\ Moves(active[c], pcb[active[c]].handler_user_context)
               /\ Only(active[c], {"page_directory", "user_context", "in_handler"})
      <4>1. pcb[p].handler_user_context.image = ctx[c].image
        BY <3>2, <3>6 DEF ImageInv
      <4>2. \A q \in Proc : q # p => pcb'[q] = pcb[q]
        BY <3>2, <3>6 DEF Only
      <4>3. PICK u : u = pcb[p].handler_user_context
        OBVIOUS
      <4>4. Moves(p, u) /\ u.image = ctx[c].image
        BY <3>2, <3>6, <4>1, <4>3
      <4>5. \A q \in Proc : pcb'[q].in_handler =>
              /\ pcb[q].in_handler
              /\ pcb'[q].handler_user_context = pcb[q].handler_user_context
        BY <3>2, <3>6, <4>2
      <4> QED
        BY <3>2, <3>3, <4>4, <4>5, MovedImage DEF Interrupted
    <3> QED
      BY <2>6, <3>4, <3>5, <3>6, SignalContexts
  <2>7. CASE SysExeclLoad(c)
    <3> DEFINE start == [image |-> cr3[c][2] + 1, pos |-> "main", eax |-> 0]
    <3>1. Busy(c) /\ Moves(active[c], start) /\ mode[c] = "execl"
      BY <2>7, ExeclContexts DEF SysExeclLoad
    <3>2. PICK p \in Proc : p = active[c]
      BY <3>1, BusyPlace
    <3>3. "simple_signal" \notin Ops
      BY <3>1 DEF OpsInv
    <3>4. \A q \in Proc : ~pcb'[q].in_handler
      BY <2>7, <3>3, HandlerKept DEF OpsInv, Calm, Trap
    <3>5. \A q \in Proc : q # p => pcb'[q] = pcb[q]
      BY <2>7, <3>2, PcbEffect DEF Only
    <3>6. pcb'[p].page_directory = page_directory
      <4> DEFINE P == [pcb EXCEPT ![p].page_directory = page_directory]
      <4>1. pcb' = P \/ pcb' = [P EXCEPT ![p].user_context = Trapped(c)]
        BY <2>7, <3>2 DEF SysExeclLoad
      <4>2. pcb \in [Proc -> PCB] /\ pcb[p] \in PCB
        BY DEF KernelInv, PcbInv
      <4>3. P[p].page_directory = page_directory /\ DOMAIN P = Proc /\ DOMAIN P[p] = Fields
        BY <4>2 DEF PCB, Fields
      <4> HIDE DEF P
      <4> QED
        BY <4>1, <4>3 DEF Fields
    <3>7. pcb'[p].page_directory[2] = start.image
      BY SMT, <3>1, <3>2, <3>6 DEF SpaceInv
    <3> HIDE DEF start
    <3>8. ASSUME NEW x \in Contexts' PROVE x[2].image = pcb'[x[1]].page_directory[2]
      <4>1. CASE x \in Elsewhere(p)
        <5>1. x \in Contexts /\ x[1] \in Proc /\ x[1] # p
          BY <4>1, ContextOwners DEF Elsewhere
        <5> QED
          BY <3>5, <5>1 DEF ImageInv
      <4>2. CASE x = <<p, start>>
        BY <3>7, <4>2
      <4> QED
        BY <3>1, <3>2, <4>1, <4>2 DEF Moves
    <3> QED
      BY <3>4, <3>8 DEF ImageInv
  <2>8. CASE EventLoop(c)
    <3>1. PICK u : Moves(Head(ready).pcb, u) /\ SameUser(u, Saved(Head(ready)))
      BY <2>8, RunContexts
    <3>2. PICK p, w : /\ p = Head(ready).pcb /\ w = Saved(Head(ready))
                      /\ <<p, w>> \in Contexts
      BY <2>8, RunContexts, HeadPlace
    <3>3. \A q \in Proc : /\ pcb'[q].in_handler = pcb[q].in_handler
                          /\ pcb'[q].handler_user_context = pcb[q].handler_user_context
      BY <2>8, HandlerKept DEF Calm
    <3>4. ~SysExeclLoad(c)
      BY <2>8 DEF EventLoop, RunResume, RunDown, RunJoin, RunStart, Next1, Idle, SysExeclLoad
    <3>5. \A q \in Proc : pcb'[q].page_directory = pcb[q].page_directory
      BY <2>8, <3>4, DirectoryKept DEF Calm
    <3> QED
      BY <3>1, <3>2, <3>3, <3>5, MovedImage DEF SameUser, Interrupted
  <2> QED
    BY <1>2, <2>2, <2>3, <2>4, <2>5, <2>6, <2>7, <2>8 DEF Syscall, Timer, Trap
<1> QED
  BY <1>1, <1>2 DEF Next

(* At boot both are of the first program.                                   *)
LEMMA ImageInit == Init => ImageInv
<1> SUFFICES ASSUME Init PROVE ImageInv
  OBVIOUS
<1>1. \A p \in Proc : pcb[p].in_handler = FALSE /\ pcb[p].page_directory = <<p, 0>>
  BY DEF Init, NewPCB
<1> QED
  BY SMT, <1>1, InitContexts, KernelAssumption DEF ImageInv

----------------------------------------------------------------------------
(* A closure in the queues was there and its process has not changed its    *)
(* registers, or it is not one of down or join, or it is of the call that   *)
(* this step makes.                                                         *)
Known(c, e) ==
  \/ e \in Closures(sem, ready) /\ pcb'[e.pcb].user_context = pcb[e.pcb].user_context
  \/ e.kind \in {"resume", "fork", "execl"}
  \/ Busy(c) /\ pcb'[e.pcb].user_context = Trapped(c)

(* Every closure after a step is known in one of these ways.                *)
LEMMA ClosureStep ==
  ASSUME KernelInv, PlaceInv, NEW c \in Core,
         Syscall(c) \/ Fault(c) \/ Timer(c) \/ Trap(c) \/ EventLoop(c),
         NEW e \in Closures(sem', ready')
  PROVE  Known(c, e)
<1>1. sem \in Semaphores(Event) /\ ready \in Seq(Event) /\ Apart(sem, ready)
  BY EventQueues DEF PlaceInv
<1>2. \A f \in Closures(sem, ready) : f.pcb \in Proc /\ f.pcb \in created
  <2>1. \A f \in Closures(sem, ready) : f.pcb \in Living
    BY DEF PlaceInv, Queued
  <2> QED
    BY <2>1 DEF Living, Alive
<1>3. created \in SUBSET Proc /\ pcb \in [Proc -> PCB]
  BY DEF KernelInv, DataInv, PcbInv
<1>4. CASE EventLoop(c)
  <2>1. ready # << >>
    BY <1>4, RunContexts
  <2>2. PICK p \in Proc : p = Head(ready).pcb
    BY <2>1, HeadPlace
  <2>3. \A f \in Closures(sem, Tail(ready)) : f \in Closures(sem, ready) /\ f.pcb # p
    BY <2>1, <2>2, HeadPlace
  <2>4. Closures(sem', ready') = Closures(sem, Tail(ready))
    <3>1. CASE RunJoin(c)
      <4>1. PICK k \in Proc \cup Sem : k = Head(ready).child
        BY <2>1, <3>1, HeadFacts DEF RunJoin, Next1, Runnable
      <4>2. sem' = UpSem(sem, k) /\ ready' = UpReady(sem, Tail(ready), k)
        BY <3>1, <4>1 DEF RunJoin
      <4>3. Tail(ready) \in Seq(Event) /\ Apart(sem, Tail(ready))
        BY SMT, <1>1, <2>1, TakePlaces
      <4> QED
        BY <1>1, <4>2, <4>3, UpPlaces
    <3>2. CASE RunResume(c) \/ RunDown(c) \/ RunStart(c)
      BY <3>2 DEF RunResume, RunDown, RunStart
    <3> QED
      BY <1>4, <3>1, <3>2 DEF EventLoop
  <2>5. \A q \in Proc : q # p => pcb'[q].user_context = pcb[q].user_context
    BY <1>4, <2>2, PcbEffect DEF EventLoop, Only
  <2> QED
    BY <1>2, <2>3, <2>4, <2>5 DEF Known
<1>5. CASE TimerKernel(c)
  BY <1>5 DEF TimerKernel, Known
<1>6. CASE ~EventLoop(c) /\ ~TimerKernel(c)
  <2>1. Busy(c)
    BY <1>6, BusyFacts DEF Syscall, Fault, Timer, Trap, SysExit, SysFork, SysYield, SysJoin,
       SysExecl, SysSem, SysUp, SysDown, SysSemClose, SysSimpleSignal, SysSigreturn, SysKill,
       SysBadPointer, FaultReturn, FaultSegv, TimerKill, TimerSwitch, SysExeclLoad, SysKillValue, SysReturn, User
  <2>2. PICK p \in Proc : p = active[c] /\ \A f \in Closures(sem, ready) : f.pcb # p
    BY <2>1, BusyPlace
  <2>3. \A q \in created : q # p => pcb'[q].user_context = pcb[q].user_context
    <3>1. CASE SysFork(c)
      <4>1. PICK child \in Proc \ created : Forked(c, active[c], child)
        BY <3>1, ForkPcb
      <4>2. \A q \in created : q \in Proc /\ q # child
        BY <1>3
      <4> QED
        BY <2>2, <4>1, <4>2 DEF Forked
    <3>2. CASE SysKill(c) \/ SysKillValue(c)
      BY <1>3, <3>2, PcbEffect DEF Kept, Fields
    <3>3. CASE SysExit(c) \/ SysExecl(c) \/ SysBadPointer(c) \/ SysUp(c)
      BY <3>3, PcbEffect
    <3>4. CASE \/ SysYield(c) \/ TimerSwitch(c) \/ SysReturn(c) \/ SysJoin(c) \/ SysDown(c)
               \/ SysExeclLoad(c) \/ SysSimpleSignal(c)
      BY <1>3, <2>2, <3>4, PcbEffect DEF Only
    <3>5. CASE SysSem(c) \/ SysSemClose(c) \/ SysSigreturn(c) \/ Fault(c) \/ TimerKill(c)
      BY <1>3, <2>2, <3>5, PcbEffect DEF Only
    <3> QED
      BY <1>6, <3>1, <3>2, <3>3, <3>4, <3>5 DEF Syscall, Timer, Trap
  <2>4. ASSUME e \in Closures(sem, ready) PROVE Known(c, e)
    BY <1>2, <2>2, <2>3, <2>4 DEF Known
  <2>5. ASSUME NEW s \in Proc \cup Sem, sem' = UpSem(sem, s), ready' = UpReady(sem, ready, s)
        PROVE  Known(c, e)
    <3>1. Closures(UpSem(sem, s), UpReady(sem, ready, s)) = Closures(sem, ready)
      BY <1>1, UpPlaces
    <3> QED
      BY <2>4, <2>5, <3>1
  <2>6. ASSUME NEW f, f.kind \in {"resume", "fork", "execl"}, sem' = sem, ready' = Append(ready, f)
        PROVE  Known(c, e)
    <3>1. ready \in Seq(Event \cup {f})
      BY SMT, <1>1
    <3>2. Range(ready') = Range(ready) \cup {f}
      BY SMT, <2>6, <3>1, AddFacts
    <3>3. e \in Closures(sem, ready) \/ e = f
      BY <2>6, <3>2 DEF Closures
    <3> QED
      BY <2>4, <2>6, <3>3 DEF Known
  <2>7. ASSUME NEW s \in Proc \cup Sem, NEW f \in Event, f.pcb = p,
               sem' = DownSem(sem, s, f), ready' = DownReady(sem, ready, s, f),
               pcb' = [pcb EXCEPT ![p].user_context = Trapped(c)]
        PROVE  Known(c, e)
    <3>1. f.pcb \notin Queued(sem, ready)
      BY <2>2, <2>7 DEF Queued
    <3>2. Closures(DownSem(sem, s, f), DownReady(sem, ready, s, f)) = Closures(sem, ready) \cup {f}
      BY SMT, <1>1, <3>1, DownPlaces
    <3>3. e \in Closures(sem, ready) \/ e = f
      BY <2>7, <3>2
    <3>4. pcb'[p].user_context = Trapped(c)
      BY <1>3, <2>7 DEF PCB
    <3> QED
      BY <2>1, <2>4, <2>7, <3>3, <3>4 DEF Known
  <2>8. CASE UNCHANGED <<sem, ready>>
    BY <2>4, <2>8
  <2>9. ASSUME NEW P, NEW u, NEW m, SwitchProcesses(c, P, u, m) PROVE Known(c, e)
    <3>1. Closure("resume", active[c]).kind = "resume"
      BY DEF Closure
    <3> QED
      BY SMT, <2>6, <2>9, <3>1 DEF SwitchProcesses
  <2>10. ASSUME NEW P, NEW v, NEW m, Exit(c, P, v, m) PROVE Known(c, e)
    BY <2>2, <2>5, <2>10 DEF Exit
  <2>11. CASE SysFork(c)
    <3>1. PICK child \in Proc \ created :
            ready' = Append(ready, [Closure("fork", child) EXCEPT !.ctx = [ctx[c] EXCEPT !.eax = 0]])
      BY <2>11 DEF SysFork
    <3> DEFINE f == [Closure("fork", child) EXCEPT !.ctx = [ctx[c] EXCEPT !.eax = 0]]
    <3>2. f.kind = "fork"
      BY DEF Closure
    <3>3. sem' = sem
      BY <2>11 DEF SysFork
    <3>4. ready' = Append(ready, f)
      BY <3>1
    <3> HIDE DEF f
    <3> QED
      BY SMT, <2>6, <3>2, <3>3, <3>4
  <2>12. CASE SysExeclLoad(c)
    <3> DEFINE start == [image |-> cr3[c][2] + 1, pos |-> "main", eax |-> 0]
    <3>1. sem' = sem /\ (ready' = ready \/ ready' = Append(ready, ExeclClosure(active[c], start)))
      BY <2>12 DEF SysExeclLoad
    <3>2. ExeclClosure(active[c], start).kind = "execl"
      BY DEF ExeclClosure, Closure
    <3> HIDE DEF start
    <3> QED
      BY SMT, <2>6, <2>8, <3>1, <3>2
  <2>13. CASE SysJoin(c)
    <3>1. CASE pcb[p].children # << >>
      <4> DEFINE child == PeekChild(p)
                 f == [Closure("join", p) EXCEPT !.child = child]
      <4>1. child \in Proc
        BY <3>1, PeekFacts
      <4>2. f \in Event /\ f.pcb = p
        BY <4>1 DEF Closure, Event
      <4>3. /\ sem' = DownSem(sem, child, f) /\ ready' = DownReady(sem, ready, child, f)
            /\ pcb' = [pcb EXCEPT ![p].user_context = Trapped(c)]
        BY <2>2, <2>13, <3>1 DEF SysJoin
      <4> HIDE DEF child, f
      <4> QED
        BY <2>7, <4>1, <4>2, <4>3
    <3>2. CASE pcb[p].children = << >>
      BY <2>2, <2>8, <2>13, <3>2 DEF SysJoin
    <3> QED
      BY <3>1, <3>2
  <2>14. CASE SysDown(c)
    <3>1. PICK i \in Slot :
            \/ UNCHANGED <<sem, ready>>
            \/ /\ pcb[p].semaphores[i] # Null
               /\ pcb' = [pcb EXCEPT ![p].user_context = Trapped(c)]
               /\ sem' = DownSem(sem, pcb[p].semaphores[i], Closure("down", p))
               /\ ready' = DownReady(sem, ready, pcb[p].semaphores[i], Closure("down", p))
      BY <2>2, <2>14 DEF SysDown
    <3>2. Closure("down", p) \in Event /\ Closure("down", p).pcb = p
      BY DEF Closure, Event
    <3>3. pcb[p].semaphores[i] # Null => pcb[p].semaphores[i] \in Proc \cup Sem
      BY SMT, <1>3 DEF PCB
    <3> QED
      BY <2>7, <2>8, <3>1, <3>2, <3>3
  <2>15. CASE SysUp(c)
    <3>1. PICK i \in Slot :
            \/ UNCHANGED <<sem, ready>>
            \/ /\ pcb[p].semaphores[i] # Null
               /\ sem' = UpSem(sem, pcb[p].semaphores[i])
               /\ ready' = UpReady(sem, ready, pcb[p].semaphores[i])
      BY <2>2, <2>15 DEF SysUp
    <3>2. pcb[p].semaphores[i] # Null => pcb[p].semaphores[i] \in Proc \cup Sem
      BY SMT, <1>3 DEF PCB
    <3> QED
      BY <2>5, <2>8, <3>1, <3>2
  <2>16. CASE SysSem(c)
    <3>1. ready' = ready /\ (sem' = sem \/ \E s \in Sem : \E n : sem' = [sem EXCEPT ![s].count = n])
      BY <2>16 DEF SysSem
    <3>2. \A s \in Proc \cup Sem : sem'[s].waiting = sem[s].waiting
      BY SMT, <1>1, <3>1 DEF Semaphores
    <3>3. Closures(sem', ready') = Closures(sem, ready)
      BY <3>1, <3>2 DEF Closures, Waits
    <3> QED
      BY <2>4, <3>3
  <2>17. CASE \/ SysExecl(c) \/ SysSemClose(c) \/ SysSimpleSignal(c) \/ SysKill(c)
              \/ SysKillValue(c) \/ SysBadPointer(c)
    BY <2>8, <2>17 DEF SysBadPointer, SysExecl, SysSemClose, SysSimpleSignal, SysKill, SysKillValue
  <2>18. CASE SysExit(c)
    BY <2>10, <2>18 DEF SysExit
  <2>19. CASE SysYield(c) \/ SysReturn(c) \/ TimerSwitch(c)
    BY <2>8, <2>9, <2>19 DEF SysYield, SysReturn, TimerSwitch
  <2>20. CASE SysSigreturn(c) \/ Fault(c) \/ TimerKill(c)
    BY <2>8, <2>9, <2>10, <2>20 DEF SysSigreturn, Fault, FaultReturn, FaultSegv, TimerKill,
       CallHandler, EnterHandler, LeaveHandler
  <2> QED
    BY <1>6, <2>11, <2>12, <2>13, <2>14, <2>15, <2>16, <2>17, <2>18, <2>19, <2>20
       DEF Syscall, Timer, Trap
<1> QED
  BY <1>4, <1>5, <1>6

(* Every step keeps the number of the call in the eax of a blocked process. *)
LEMMA EaxStep == KernelInv /\ PlaceInv /\ EaxInv /\ [Next]_vars => EaxInv'
<1> SUFFICES ASSUME KernelInv, PlaceInv, EaxInv, [Next]_vars PROVE EaxInv'
  OBVIOUS
<1>1. CASE UNCHANGED vars
  BY <1>1 DEF EaxInv, vars
<1>2. ASSUME NEW c \in Core,
             Syscall(c) \/ Fault(c) \/ Timer(c) \/ Trap(c) \/ EventLoop(c),
             NEW e \in Closures(sem', ready'), e.kind \in {"down", "join"}
      PROVE  pcb'[e.pcb].user_context.eax = SysNumber
  <2>1. Known(c, e)
    BY <1>2, ClosureStep
  <2>2. Busy(c) => Trapped(c).eax = SysNumber
    BY BusyPlace DEF Trapped, Context
  <2> QED
    BY <1>2, <2>1, <2>2 DEF Known, EaxInv
<1> QED
  BY <1>1, <1>2 DEF Next, EaxInv

(* At boot nothing is queued.                                               *)
LEMMA EaxInit == Init => EaxInv
<1> SUFFICES ASSUME Init PROVE EaxInv
  OBVIOUS
<1>1. ready = << >> /\ \A s \in Proc \cup Sem : sem[s].waiting = << >>
  BY DEF Init
<1>2. Range(<< >>) = {}
  BY EmptyFacts
<1>3. Closures(sem, ready) = {}
  BY <1>1, <1>2 DEF Closures, Waits
<1> QED
  BY <1>3 DEF EaxInv

(* The registers that a process that is not running, or is being preempted, *)
(* goes on with are those it had, or the result of its call is in eax.      *)
LEMMA ContextStep ==
  ASSUME KernelInv, PlaceInv, JoinInv, EaxInv, NextRight, NextRight', Next,
         NEW p \in Proc, Alive(p),
         \A c \in CoresOf(p) : TimerSwitch(c) \/ SysReturn(c)
  PROVE  \/ NextContext(p)' = NextContext(p)
         \/ /\ CoresOf(p) = {} /\ CoresOf(p)' # {}
            /\ NextContext(p).eax = SysNumber
            /\ NextContext(p)' = [NextContext(p) EXCEPT !.eax = NextContext(p)'.eax]
<1> DEFINE Same == NextContext(p)' = NextContext(p)
           Result ==
             /\ CoresOf(p) = {} /\ CoresOf(p)' # {}
             /\ NextContext(p).eax = SysNumber
             /\ NextContext(p)' = [NextContext(p) EXCEPT !.eax = NextContext(p)'.eax]
<1> SUFFICES Same \/ Result
  OBVIOUS
<1>1. PICK c \in Core : Syscall(c) \/ Fault(c) \/ Timer(c) \/ Trap(c) \/ EventLoop(c)
  BY DEF Next
<1>2. PICK u, w : u = NextContext(p) /\ w = NextContext(p)'
  OBVIOUS
<1>3. <<p, u>> \in Contexts /\ \A x \in Contexts : x[1] = p => x[2] = u
  BY <1>2 DEF NextRight
<1>4. ASSUME Alive(p)', <<p, w>> \in Elsewhere(p) \/ <<p, w>> \in Contexts PROVE Same
  BY <1>2, <1>3, <1>4 DEF Elsewhere
<1>5. CASE CoresOf(p) # {}
  <2>1. PICK d \in Core : Busy(d) /\ active[d] = p /\ (TimerSwitch(d) \/ SysReturn(d))
    BY <1>5 DEF CoresOf, Busy
  <2>2. Moves(p, ctx[d])
    BY <2>1, PreemptContexts
  <2>3. created' = created /\ exits' = exits
    BY <2>1 DEF TimerSwitch, SysReturn, SwitchProcesses, procVars
  <2>4. <<p, w>> \in Contexts'
    BY <1>2, <2>3 DEF NextRight, Alive
  <2>5. w = ctx[d]
    BY <2>2, <2>4 DEF Moves, Elsewhere
  <2>6. <<p, ctx[d]>> \in Contexts
    BY <2>1, BusyPlace
  <2> QED
    BY <1>2, <1>3, <2>5, <2>6
<1>6. CASE CoresOf(p) = {}
  <2>1. \A d \in Core : Busy(d) => active[d] # p
    BY <1>6 DEF CoresOf, Busy
  <2>2. p \in created' /\ exits'[p] = exits[p]
    <3>1. p \in created /\ exits \in [Proc -> Nat]
      BY DEF Alive, KernelInv, DataInv
    <3>2. exits' = exits \/ (Busy(c) /\ exits' = [exits EXCEPT ![active[c]] = @ + 1])
      <4>1. CASE SysExit(c) \/ FaultSegv(c) \/ TimerKill(c)
        <5>1. Busy(c)
          BY <4>1, BusyFacts DEF SysExit, FaultSegv, TimerKill, User
        <5> QED
          BY <4>1, <5>1 DEF SysExit, FaultSegv, TimerKill, CallHandler, Exit, EnterHandler, procVars
      <4>2. CASE ~(SysExit(c) \/ FaultSegv(c) \/ TimerKill(c))
        BY <1>1, <4>2 DEF Syscall, Fault, Timer, Trap, EventLoop, SysFork, SysYield, SysJoin,
           SysExecl, SysSem, SysUp, SysDown, SysSemClose, SysSimpleSignal, SysSigreturn, SysKill,
           SysBadPointer, FaultReturn, TimerKernel, TimerSwitch, SysExeclLoad, SysKillValue,
           SysReturn, RunResume, RunDown, RunJoin, RunStart, LeaveHandler, SwitchProcesses, procVars
      <4> QED
        BY <4>1, <4>2
    <3>3. created \subseteq created'
      BY <1>1 DEF Syscall, Fault, Timer, Trap, EventLoop, SysFork, SysYield, SysJoin, SysExit,
         SysExecl, SysSem, SysUp, SysDown, SysSemClose, SysSimpleSignal, SysSigreturn, SysKill,
         SysBadPointer, FaultReturn, FaultSegv, TimerKernel, TimerKill, TimerSwitch, SysExeclLoad,
         SysKillValue, SysReturn, RunResume, RunDown, RunJoin, RunStart, LeaveHandler, CallHandler,
         EnterHandler, Exit, SwitchProcesses, procVars
    <3> QED
      BY <2>1, <3>1, <3>2, <3>3
  <2>3. Alive(p)' /\ p \in created
    BY <2>2 DEF Alive
  <2>4. <<p, w>> \in Contexts'
    BY <1>2, <2>3 DEF NextRight
  <2>5. ASSUME Busy(c), NEW v, Moves(active[c], v) PROVE Same
    <3>1. <<p, w>> \in Elsewhere(active[c])
      BY <2>1, <2>4, <2>5 DEF Moves
    <3> QED
      BY <1>4, <2>3, <3>1 DEF Elsewhere
  <2>6. CASE \/ SysExit(c) \/ SysJoin(c) \/ SysExecl(c) \/ SysSem(c) \/ SysUp(c) \/ SysDown(c)
             \/ SysSemClose(c) \/ SysSimpleSignal(c) \/ SysKill(c) \/ SysKillValue(c)
             \/ SysYield(c) \/ SysBadPointer(c)
    BY <2>5, <2>6, CallContexts DEF Quiet
  <2>7. CASE TimerSwitch(c) \/ SysReturn(c) \/ SysExeclLoad(c)
    BY <2>5, <2>7, PreemptContexts, ExeclContexts
  <2>8. CASE SysSigreturn(c) \/ Fault(c) \/ TimerKill(c)
    BY <2>5, <2>8, SignalContexts DEF Quiet
  <2>9. CASE TimerKernel(c)
    <3>1. Contexts' = Contexts
      BY <2>9, IdleContexts DEF TimerKernel
    <3> QED
      BY <1>4, <2>3, <2>4, <3>1
  <2>10. CASE SysFork(c)
    <3>1. Busy(c) /\ \E child \in Proc \ created : \E v, x :
            Contexts' \subseteq Elsewhere(active[c]) \cup {<<active[c], v>>, <<child, x>>}
      BY <2>10, ForkContexts
    <3>2. <<p, w>> \in Elsewhere(active[c])
      BY <2>1, <2>3, <2>4, <3>1
    <3> QED
      BY <1>4, <2>3, <3>2 DEF Elsewhere
  <2>11. CASE EventLoop(c)
    <3>1. PICK h, s : h = Head(ready) /\ s = Saved(h)
      OBVIOUS
    <3>2. /\ ready # << >> /\ Busy(c)' /\ active'[c] = h.pcb
          /\ \E v : /\ Moves(h.pcb, v)
                    /\ \/ v = s
                       \/ h.kind \in {"down", "join"} /\ v = [s EXCEPT !.eax = v.eax]
      BY <2>11, <3>1, RunContexts
    <3>3. PICK v : /\ Moves(h.pcb, v)
                   /\ \/ v = s
                      \/ h.kind \in {"down", "join"} /\ v = [s EXCEPT !.eax = v.eax]
      BY <3>2
    <3>4. h \in Closures(sem, ready) /\ <<h.pcb, s>> \in Contexts
      BY <3>1, <3>2, HeadPlace
    <3>5. CASE p # h.pcb
      <4>1. <<p, w>> \in Elsewhere(h.pcb)
        BY <2>4, <3>3, <3>5 DEF Moves
      <4> QED
        BY <1>4, <2>3, <4>1 DEF Elsewhere
    <3>6. CASE p = h.pcb
      <4>1. w = v /\ u = s
        BY <1>3, <2>4, <3>3, <3>4, <3>6 DEF Moves, Elsewhere
      <4>2. CASE v = s
        BY <1>2, <4>1, <4>2
      <4>3. CASE h.kind \in {"down", "join"} /\ v = [s EXCEPT !.eax = v.eax]
        <5>1. s = pcb[h.pcb].user_context
          BY <3>1, <4>3 DEF Saved
        <5>2. s.eax = SysNumber
          BY <3>4, <4>3, <5>1 DEF EaxInv
        <5>3. CoresOf(p)' # {}
          BY <3>2, <3>6 DEF CoresOf, Busy
        <5>4. w = [u EXCEPT !.eax = w.eax] /\ u.eax = SysNumber
          BY <4>1, <4>3, <5>2
        <5> QED
          BY <1>2, <1>6, <5>3, <5>4
      <4> QED
        BY <3>3, <4>2, <4>3
    <3> QED
      BY <3>5, <3>6
  <2> QED
    BY <1>1, <2>6, <2>7, <2>8, <2>9, <2>10, <2>11 DEF Syscall, Timer, Trap
<1> QED
  BY <1>5, <1>6

----------------------------------------------------------------------------
(* The cardinalities, of the references that fork copies and that           *)
(* semaphores count, come last.                                             *)
INSTANCE FiniteSetTheorems

(* fork copies finitely many references to a semaphore (PCB::semaphores is  *)
(* an array of Slots entries).                                              *)
LEMMA CopiesFacts == \A semaphores : \A s \in Sem : Copies(semaphores, s) \in Nat
<1>1. IsFiniteSet(Slot)
  BY SMT, FS_Interval, KernelAssumption DEF Slot
<1>2. ASSUME NEW semaphores, NEW s \in Sem
      PROVE  IsFiniteSet({i \in Slot : semaphores[i] = s})
  BY <1>1, FS_Subset
<1>3. QED
  BY <1>2, FS_CardinalityType DEF Copies

(* Every step of the kernel keeps the invariant.                            *)
LEMMA KernelStep == KernelInv /\ [Next]_vars => KernelInv'
<1> SUFFICES ASSUME KernelInv, [Next]_vars PROVE KernelInv'
  OBVIOUS
<1>1. CASE UNCHANGED vars
  <2>1. UNCHANGED <<pcb, sem, ready, procVars, semVars, mode, active, cr3, interrupts, ctx>>
    BY <1>1 DEF vars
  <2>2. DataInv' /\ created' = created
    BY <2>1 DEF KernelInv, DataInv, procVars, semVars
  <2>3. CoreInv'
    BY <2>1, <2>2 DEF KernelInv, CoreInv
  <2>4. QED
    BY <2>1, <2>2, <2>3, RestKept
<1>2. ASSUME NEW c \in Core,
             Syscall(c) \/ Fault(c) \/ Timer(c) \/ Trap(c) \/ EventLoop(c)
      PROVE  KernelInv'
  <2>1. CASE Syscall(c)
    BY <2>1, SwitchStep, ForkStep, BlockStep, ExeclStep, BadPointerStep, SemStep, SignalStep,
       InterruptStep, CopiesFacts DEF Syscall
  <2>2. CASE Fault(c) \/ Timer(c)
    BY <2>2, InterruptStep
  <2>3. CASE Trap(c)
    BY <2>3, ExeclStep, SignalStep, SwitchStep DEF Trap
  <2>4. CASE EventLoop(c)
    BY <2>4, EventLoopStep
  <2>5. QED
    BY <1>2, <2>1, <2>2, <2>3, <2>4
<1>3. QED
  BY <1>1, <1>2 DEF Next

(* Every closure that is queued can be run, every saved context that will   *)
(* be resumed is there, and core, queue and PCB data have their types.      *)
THEOREM KernelCorrect == Spec => []KernelInv
<1>1. QED
  BY KernelInit, KernelStep, PTL DEF Spec

(* The type invariant that the runs check, for any number of cores,         *)
(* processes and semaphores.                                                *)
THEOREM TypeCorrect == Spec => []TypeOK
<1>1. KernelInv => TypeOK
  <2> SUFFICES ASSUME KernelInv PROVE TypeOK
    OBVIOUS
  <2>1. sem \in Semaphores(Event) /\ ready \in Seq(Event)
    <3>1. Runnable \subseteq Event
      BY DEF Runnable
    <3>2. QED
      BY <3>1, SeqGrows DEF KernelInv, QueueInv
  <2>2. \A c \in Core : mode[c] \notin Idle =>
          active[c] \in Proc /\ cr3[c] \in Directory /\ ctx[c] \in Context
    BY DEF KernelInv, CoreInv, DataInv
  <2>3. QED
    BY <2>1, <2>2 DEF TypeOK, KernelInv, PcbInv, DataInv, CoreInv, Semaphores
<1>2. QED
  BY <1>1, KernelCorrect, PTL

----------------------------------------------------------------------------
(* Cores and queues hold each live process once, and no other.              *)
THEOREM PlaceCorrect == Spec => []PlaceInv
BY PlaceInit, PlaceStep, KernelCorrect, PTL DEF Spec

(* No process is lost, and none runs twice: every live process is on one    *)
(* core or in one closure of one queue, and no other process is anywhere,   *)
(* on any number of cores (SwitchProcesses, exit, fork, the semaphores and  *)
(* event_loop keep it).                                                     *)
THEOREM OnePlaceHolds == Spec => []OnePlace
<1>1. PlaceInv => OnePlace
  <2> SUFFICES ASSUME PlaceInv, NEW p \in Proc
               PROVE  Cardinality(Places(p)) = IF Alive(p) THEN 1 ELSE 0
    BY DEF OnePlace
  <2>1. CASE Alive(p)
    <3>1. PICK x : x \in Places(p)
      BY <2>1, OnePlaceOnly
    <3>2. Places(p) = {x}
      BY SMT, <3>1, OnePlaceOnly
    <3> QED
      BY <2>1, <3>2, FS_Singleton
  <2>2. CASE ~Alive(p)
    <3>1. Places(p) = {}
      BY <2>2, OnePlaceOnly
    <3> QED
      BY <2>2, <3>1, FS_EmptySet
  <2> QED
    BY <2>1, <2>2
<1> QED
  BY <1>1, PlaceCorrect, PTL

----------------------------------------------------------------------------
(* Joins are paired with children and exit_futures in every state.          *)
THEOREM JoinCorrect == Spec => []JoinInv
BY JoinInit, JoinStep, KernelCorrect, PlaceCorrect, PTL DEF Spec

(* join waits for, and collects, the youngest child (Future::get and        *)
(* PCB::peek_child agree), from the moment it blocks to the moment its      *)
(* closure pops that child, whatever the other processes do.                *)
THEOREM JoinsYoungestHolds == Spec => []JoinsYoungest
<1>1. KernelInv /\ PlaceInv /\ JoinInv => JoinsYoungest
  <2> SUFFICES ASSUME KernelInv, PlaceInv, JoinInv, NEW p \in Proc,
                      NEW e \in Range(ready) \cup Range(sem[p].waiting), e.kind = "join"
               PROVE  /\ Joins(e)
                      /\ e \in Range(ready) <=> exits[e.child] = 1
    BY DEF JoinsYoungest, Joins
  <2>1. Joins(e)
    BY DEF JoinInv, Closures, Waits
  <2>2. CASE e \in Range(ready)
    <3>1. e.child \in Proc
      <4>1. e \in Runnable
        BY <2>2, RangeFacts DEF KernelInv, QueueInv
      <4> QED
        BY <4>1 DEF Runnable
    <3>2. exits[e.child] = 1
      BY <2>2, <3>1 DEF JoinInv, Future, Woken
    <3> QED
      BY <2>1, <2>2, <3>2
  <2>3. CASE e \in Range(sem[p].waiting)
    <3>1. e.child = p /\ sem[p].waiting # << >>
      BY <2>3, EmptyFacts DEF JoinInv
    <3>2. exits[p] = 0
      BY <3>1 DEF JoinInv, Future
    <3>3. e \notin Range(ready)
      BY <2>3 DEF PlaceInv, Apart
    <3> QED
      BY SMT, <2>1, <3>1, <3>2, <3>3
  <2> QED
    BY <2>2, <2>3
<1> QED
  BY <1>1, KernelCorrect, PlaceCorrect, JoinCorrect, PTL

(* exit sets the exit_future once, and its unit is never lost or doubled    *)
(* (Future::set ups the semaphore, every get takes the unit and gives it    *)
(* back).                                                                   *)
THEOREM ExitFutureHolds == Spec => []ExitFuture
<1>1. KernelInv /\ PlaceInv /\ JoinInv => ExitFuture
  <2> SUFFICES ASSUME KernelInv, PlaceInv, JoinInv, NEW p \in Proc
               PROVE  /\ exits[p] <= 1
                      /\ sem[p].count + Cardinality({i \in DOMAIN ready :
                           ready[i].kind = "join" /\ ready[i].child = p}) = exits[p]
    BY DEF ExitFuture
  <2> DEFINE J == {i \in DOMAIN ready : ready[i].kind = "join" /\ ready[i].child = p}
  <2>1. Future(p)
    BY DEF JoinInv
  <2>2. CASE ~Woken(p)
    <3>1. J = {}
      BY <2>2 DEF Woken, Range
    <3>2. Cardinality(J) = 0
      BY <3>1, FS_EmptySet
    <3> QED
      BY SMT, <2>1, <2>2, <3>2 DEF Future
  <2>3. CASE Woken(p)
    <3>1. PICK i \in J : TRUE
      BY <2>3 DEF Woken, Range
    <3>2. ASSUME NEW j \in J PROVE j = i
      <4>1. ready[i] \in Closures(sem, ready) /\ ready[j] \in Closures(sem, ready)
        BY DEF Closures, Range
      <4>2. ready[i].pcb \in Proc /\ Joins(ready[i])
        BY <4>1, ClosureEvents DEF JoinInv
      <4>3. ready[j].pcb = ready[i].pcb
        BY <4>1, <4>2, SameJoiner DEF Joins
      <4> QED
        BY <4>3 DEF PlaceInv, Apart, Single
    <3>3. J = {i}
      BY <3>1, <3>2
    <3>4. Cardinality(J) = 1
      BY <3>3, FS_Singleton
    <3> QED
      BY SMT, <2>1, <2>3, <3>4 DEF Future
  <2> QED
    BY <2>2, <2>3
<1> QED
  BY <1>1, KernelCorrect, PlaceCorrect, JoinCorrect, PTL

----------------------------------------------------------------------------
(* There are finitely many of them.                                         *)
LEMMA HoldersFinite ==
  ASSUME RefInv, NEW s
  PROVE  IsFiniteSet(Holders(s)) /\ Cardinality(Holders(s)) \in Nat
<1>1. IsFiniteSet(Slot)
  BY SMT, FS_Interval, KernelAssumption DEF Slot
<1>2. IsFiniteSet(created \X Slot)
  BY <1>1, FS_Product DEF RefInv
<1>3. Holders(s) \in SUBSET (created \X Slot)
  BY DEF Holders
<1> QED
  BY <1>2, <1>3, FS_Subset, FS_CardinalityType

(* Steps that change no slot.                                               *)
LEMMA HoldersKept ==
  ASSUME KernelInv, created' = created, NEW s,
         \A q \in Proc : pcb'[q].semaphores = pcb[q].semaphores
  PROVE  Holders(s)' = Holders(s)
<1>1. \A x \in created \X Slot : x[1] \in Proc
  BY DEF KernelInv, DataInv
<1> QED
  BY <1>1 DEF Holders

(* Steps that change neither slots nor user semaphores.                     *)
LEMMA RefKept ==
  ASSUME KernelInv, RefInv, UNCHANGED <<created, made, ref>>,
         \A q \in Proc : pcb'[q].semaphores = pcb[q].semaphores,
         \A s \in Sem : sem'[s].waiting = sem[s].waiting
  PROVE  RefInv'
<1>1. \A s \in Sem : Holders(s)' = Holders(s)
  BY HoldersKept
<1> QED
  BY <1>1 DEF RefInv

(* A process that holds a semaphore, and the length of its queue.           *)
LEMMA SlotFacts ==
  ASSUME KernelInv, RefInv, NEW c \in Core, Busy(c), NEW i \in Slot,
         NEW s, s = pcb[active[c]].semaphores[i], s # Null
  PROVE  /\ s \in Sem /\ s \in made /\ <<active[c], i>> \in Holders(s)
         /\ ref[s] \in Int /\ Len(sem[s].waiting) \in Nat
         /\ sem[s].waiting \in Seq(Event) /\ sem[s].count \in Nat
<1>1. active[c] \in created /\ active[c] \in Proc /\ pcb[active[c]] \in PCB
  BY Running DEF Busy
<1>2. s \in Sem
  BY <1>1 DEF PCB
<1>3. <<active[c], i>> \in Holders(s)
  BY <1>1 DEF Holders
<1>4. s \in made
  BY <1>2, <1>3 DEF RefInv
<1>5. sem[s].waiting \in Seq(Event) /\ sem[s].count \in Nat
  BY <1>2, EventQueues DEF Semaphores
<1>6. ref[s] \in Int
  BY <1>2 DEF KernelInv, DataInv
<1>7. Len(sem[s].waiting) \in Nat
  <2>1. \A w \in Seq(Event) : Len(w) \in Nat
    BY SMT
  <2> QED
    BY <1>5, <2>1
<1> QED
  BY <1>2, <1>3, <1>4, <1>5, <1>6, <1>7

(* up and down.                                                             *)
LEMMA RefQueue ==
  ASSUME KernelInv, RefInv, NEW c \in Core, SysUp(c) \/ SysDown(c)
  PROVE  RefInv'
<1>1. Busy(c) /\ active[c] \in Proc
  BY BusyFacts, Running DEF SysUp, SysDown, User, Busy
<1>2. \A q \in Proc : pcb'[q].semaphores = pcb[q].semaphores
  <2>1. pcb' = pcb \/ Only(active[c], {"page_directory", "user_context"})
    BY PcbEffect
  <2> QED
    BY <1>1, <2>1 DEF Only, Fields
<1>3. created' = created /\ made' = made
  BY DEF SysUp, SysDown, procVars, semVars
<1>4. \A s \in Sem : Holders(s)' = Holders(s)
  BY <1>2, <1>3, HoldersKept
<1>5. sem \in Semaphores(Event) /\ ready \in Seq(Event)
  BY EventQueues
<1>6. CASE UNCHANGED <<sem, ref>>
  BY <1>2, <1>3, <1>6, RefKept
<1>7. ASSUME NEW s \in Sem, s \in made, sem' = UpSem(sem, s), ref' = ref
      PROVE  RefInv'
  <2>1. /\ \A t \in Proc \cup Sem : t # s => UpSem(sem, s)[t] = sem[t]
        /\ sem[s].waiting = << >> => UpSem(sem, s)[s].waiting = << >>
        /\ sem[s].waiting # << >> => UpSem(sem, s)[s].waiting = Tail(sem[s].waiting)
        /\ sem[s].waiting \in Seq(Event)
    BY SMT, <1>5, UpMoves
  <2>2. Len(sem'[s].waiting) <= Len(sem[s].waiting) /\ Len(sem'[s].waiting) \in Nat
    <3>1. CASE sem[s].waiting = << >>
      BY SMT, <1>7, <2>1, <3>1
    <3>2. CASE sem[s].waiting # << >>
      <4>1. /\ Len(Tail(sem[s].waiting)) = Len(sem[s].waiting) - 1
            /\ Len(sem[s].waiting) \in Nat /\ Len(sem[s].waiting) > 0
        BY SMT, <2>1, <3>2
      <4>2. sem'[s].waiting = Tail(sem[s].waiting)
        BY <1>7, <2>1, <3>2
      <4> QED
        BY SMT, <4>1, <4>2
    <3> QED
      BY <3>1, <3>2
  <2>3. ref'[s] >= Cardinality(Holders(s)) + Len(sem'[s].waiting)
    <3>1. ref[s] >= Cardinality(Holders(s)) + Len(sem[s].waiting)
      BY DEF RefInv
    <3>2. ref[s] \in Int /\ Cardinality(Holders(s)) \in Nat /\ Len(sem[s].waiting) \in Nat
      BY SMT, <2>1, HoldersFinite DEF KernelInv, DataInv
    <3> QED
      BY SMT, <1>7, <2>2, <3>1, <3>2
  <2>4. \A t \in Sem : t # s => sem'[t] = sem[t]
    BY <1>7, <2>1
  <2> QED
    BY <1>3, <1>4, <1>7, <2>3, <2>4 DEF RefInv
<1>8. ASSUME NEW s \in Sem, s \in made, NEW e \in Event, sem' = DownSem(sem, s, e),
             ref' = [ref EXCEPT ![s] = @ + 1]
      PROVE  RefInv'
  <2>1. /\ \A t \in Proc \cup Sem : t # s => DownSem(sem, s, e)[t] = sem[t]
        /\ sem[s].count > 0 => DownSem(sem, s, e)[s].waiting = sem[s].waiting
        /\ sem[s].count = 0 => DownSem(sem, s, e)[s].waiting = Append(sem[s].waiting, e)
        /\ sem[s].waiting \in Seq(Event) /\ sem[s].count \in Nat
    BY SMT, <1>5, DownMoves
  <2>2. Len(sem'[s].waiting) <= Len(sem[s].waiting) + 1 /\ Len(sem'[s].waiting) \in Nat
    <3>1. CASE sem[s].count > 0
      BY SMT, <1>8, <2>1, <3>1
    <3>2. CASE sem[s].count = 0
      BY SMT, <1>8, <2>1, <3>2
    <3> QED
      BY SMT, <2>1, <3>1, <3>2
  <2>3. ref'[s] = ref[s] + 1 /\ \A t \in Sem : t # s => ref'[t] = ref[t]
    BY <1>8 DEF KernelInv, DataInv
  <2>4. ref'[s] >= Cardinality(Holders(s)) + Len(sem'[s].waiting)
    <3>1. ref[s] >= Cardinality(Holders(s)) + Len(sem[s].waiting)
      BY DEF RefInv
    <3>2. ref[s] \in Int /\ Cardinality(Holders(s)) \in Nat /\ Len(sem[s].waiting) \in Nat
      BY SMT, <2>1, HoldersFinite DEF KernelInv, DataInv
    <3>3. \A r, h, m, n \in Int : r >= h + m /\ n <= m + 1 => r + 1 >= h + n
      BY SMT
    <3>4. Len(sem'[s].waiting) \in Int /\ Len(sem[s].waiting) \in Int /\ Cardinality(Holders(s)) \in Int
      BY SMT, <2>2, <3>2
    <3>5. ref[s] + 1 >= Cardinality(Holders(s)) + Len(sem'[s].waiting)
      BY <2>2, <3>1, <3>2, <3>3, <3>4
    <3> QED
      BY <2>3, <3>5
  <2>5. \A t \in Sem : t # s => sem'[t] = sem[t]
    BY <1>8, <2>1
  <2> QED
    BY <1>3, <1>4, <1>8, <2>3, <2>4, <2>5 DEF RefInv
<1>9. CASE SysUp(c)
  <2>1. ref' = ref
    BY <1>9 DEF SysUp, semVars
  <2>2. PICK i \in Slot : LET s == pcb[active[c]].semaphores[i] IN
          sem' = sem \/ (s # Null /\ sem' = UpSem(sem, s))
    BY <1>9 DEF SysUp
  <2> QED
    BY <1>1, <1>6, <1>7, <2>1, <2>2, SlotFacts
<1>10. CASE SysDown(c)
  <2>1. PICK i \in Slot : LET s == pcb[active[c]].semaphores[i] IN
          \/ sem' = sem /\ ref' = ref
          \/ /\ s # Null /\ sem' = DownSem(sem, s, Closure("down", active[c]))
             /\ ref' = [ref EXCEPT ![s] = @ + 1]
    BY <1>10 DEF SysDown
  <2>2. Closure("down", active[c]) \in Event
    BY <1>1 DEF Closure, Event
  <2> QED
    BY <1>1, <1>6, <1>8, <2>1, <2>2, SlotFacts
<1> QED
  BY <1>9, <1>10

(* sem and sem_close: a reference comes and goes with its slot.             *)
LEMMA RefSlots ==
  ASSUME KernelInv, RefInv, NEW c \in Core, SysSem(c) \/ SysSemClose(c)
  PROVE  RefInv'
<1>1. Busy(c)
  BY BusyFacts DEF SysSem, SysSemClose, User
<1>2. PICK p \in Proc : p = active[c] /\ p \in created
  BY <1>1, Running DEF Busy
<1>3. created' = created
  BY DEF SysSem, SysSemClose, procVars
<1>4. Only(p, {"semaphores"})
  BY <1>2, PcbEffect
<1>5. pcb[p] \in PCB /\ pcb \in [Proc -> PCB] /\ pcb[p].semaphores \in [Slot -> Sem \cup {Null}]
  BY DEF KernelInv, PcbInv, PCB
<1>6. \A s \in Sem : /\ ref[s] \in Int /\ sem[s].waiting \in Seq(Event)
                     /\ IsFiniteSet(Holders(s)) /\ Cardinality(Holders(s)) \in Nat
                     /\ ref[s] >= Cardinality(Holders(s)) + Len(sem[s].waiting)
  BY EventQueues, HoldersFinite DEF KernelInv, DataInv, Semaphores, RefInv
<1>7. CASE UNCHANGED <<pcb, sem, semVars>>
  BY <1>3, <1>7, RefKept DEF semVars
<1>8. ASSUME NEW i \in Slot, NEW x \in Sem \cup {Null},
             pcb' = [pcb EXCEPT ![p].semaphores[i] = x]
      PROVE  /\ pcb'[p].semaphores = [pcb[p].semaphores EXCEPT ![i] = x]
             /\ \A s \in Sem : Holders(s)' = IF s = x THEN Holders(s) \cup {<<p, i>>}
                                                       ELSE Holders(s) \ {<<p, i>>}
  <2>1. pcb'[p].semaphores = [pcb[p].semaphores EXCEPT ![i] = x]
    BY <1>5, <1>8 DEF PCB
  <2>2. \A q \in Proc : q # p => pcb'[q] = pcb[q]
    BY <1>4 DEF Only
  <2>3. ASSUME NEW s \in Sem, NEW y \in created \X Slot
        PROVE  y \in Holders(s)' <=> (IF s = x THEN y \in Holders(s) \cup {<<p, i>>}
                                               ELSE y \in Holders(s) \ {<<p, i>>})
    <3>1. CASE y = <<p, i>>
      BY <1>2, <1>3, <1>5, <2>1, <3>1 DEF Holders
    <3>2. CASE y[1] # p
      <4>1. y[1] \in Proc /\ pcb'[y[1]] = pcb[y[1]]
        BY <2>2, <3>2 DEF KernelInv, DataInv
      <4> QED
        BY SMT, <1>3, <3>2, <4>1 DEF Holders
    <3>3. CASE y[1] = p /\ y[2] # i
      <4>1. pcb'[y[1]].semaphores[y[2]] = pcb[y[1]].semaphores[y[2]]
        BY <1>5, <2>1, <3>3
      <4> QED
        BY SMT, <1>3, <3>3, <4>1 DEF Holders
    <3> QED
      BY SMT, <3>1, <3>2, <3>3
  <2>4. \A s \in Sem : Holders(s)' \subseteq created \X Slot /\ Holders(s) \subseteq created \X Slot
    BY <1>3 DEF Holders
  <2>5. <<p, i>> \in created \X Slot
    BY <1>2
  <2>6. ASSUME NEW s \in Sem
        PROVE  Holders(s)' = IF s = x THEN Holders(s) \cup {<<p, i>>} ELSE Holders(s) \ {<<p, i>>}
    BY <2>3, <2>4, <2>5
  <2> QED
    BY <2>1, <2>6
<1>9. ASSUME NEW i \in Slot, NEW s \in Sem \ made, NEW n,
             pcb[p].semaphores[i] = Null, made' = made \cup {s}, ref' = [ref EXCEPT ![s] = 1],
             sem' = [sem EXCEPT ![s].count = n], pcb' = [pcb EXCEPT ![p].semaphores[i] = s]
      PROVE  RefInv'
  <2>1. \A t \in Sem : sem'[t].waiting = sem[t].waiting
    BY <1>9, EventQueues DEF Semaphores
  <2>2. \A t \in Sem : t # Null
    BY KernelAssumption
  <2>3. \A t \in Sem : <<p, i>> \notin Holders(t)
    BY <1>9, <2>2 DEF Holders
  <2>4. Holders(s)' = {<<p, i>>} /\ \A t \in Sem : t # s => Holders(t)' = Holders(t)
    <3>1. \A t \in Sem : Holders(t)' = IF t = s THEN Holders(t) \cup {<<p, i>>}
                                               ELSE Holders(t) \ {<<p, i>>}
      BY <1>8, <1>9
    <3>2. Holders(s) = {}
      BY <1>9 DEF RefInv
    <3> QED
      BY <2>3, <3>1, <3>2
  <2>5. Cardinality(Holders(s)') = 1
    BY <2>4, FS_Singleton
  <2>6. sem[s].waiting = << >> /\ Len(<< >>) = 0
    BY <1>9 DEF RefInv
  <2>7. ref'[s] = 1 /\ \A t \in Sem : t # s => ref'[t] = ref[t]
    BY <1>9 DEF KernelInv, DataInv
  <2>8. ref'[s] >= Cardinality(Holders(s)') + Len(sem'[s].waiting)
    BY SMT, <2>1, <2>5, <2>6, <2>7
  <2>9. ASSUME NEW t \in Sem, t # s
        PROVE  ref'[t] >= Cardinality(Holders(t)') + Len(sem'[t].waiting)
    BY <1>6, <2>1, <2>4, <2>7, <2>9
  <2>10. \A t \in Sem \ made' : Holders(t)' = {} /\ sem'[t].waiting = << >>
    BY <1>9, <2>1, <2>4 DEF RefInv
  <2> QED
    BY <1>3, <2>8, <2>9, <2>10 DEF RefInv
<1>10. ASSUME NEW i \in Slot, NEW s \in Sem, s = pcb[p].semaphores[i],
              pcb' = [pcb EXCEPT ![p].semaphores[i] = Null],
              ref' = [ref EXCEPT ![s] = @ - 1], sem' = sem, made' = made
       PROVE  RefInv'
  <2>1. <<p, i>> \in Holders(s)
    BY <1>2, <1>10 DEF Holders
  <2>2. \A t \in Sem : t # Null
    BY KernelAssumption
  <2>3. \A t \in Sem : Holders(t)' = Holders(t) \ {<<p, i>>}
    BY <1>8, <1>10, <2>2
  <2>4. ASSUME NEW t \in Sem, t # s PROVE Holders(t)' = Holders(t)
    <3>1. <<p, i>> \notin Holders(t)
      BY <1>10, <2>4 DEF Holders
    <3> QED
      BY <2>3, <3>1
  <2>5. Cardinality(Holders(s)') = Cardinality(Holders(s)) - 1
    BY <1>6, <2>1, <2>3, FS_RemoveElement
  <2>6. ref'[s] = ref[s] - 1 /\ \A t \in Sem : t # s => ref'[t] = ref[t]
    BY <1>10 DEF KernelInv, DataInv
  <2>7. ref'[s] >= Cardinality(Holders(s)') + Len(sem'[s].waiting)
    <3>1. \A w \in Seq(Event) : Len(w) \in Nat
      BY SMT
    <3>2. Len(sem[s].waiting) \in Nat
      BY <1>6, <3>1
    <3> QED
      BY SMT, <1>6, <1>10, <2>5, <2>6, <3>2
  <2>8. ASSUME NEW t \in Sem, t # s
        PROVE  ref'[t] >= Cardinality(Holders(t)') + Len(sem'[t].waiting)
    BY <1>6, <1>10, <2>4, <2>6, <2>8
  <2>9. \A t \in Sem \ made' : Holders(t)' = {} /\ sem'[t].waiting = << >>
    BY <1>10, <2>3 DEF RefInv
  <2> QED
    BY <1>3, <2>7, <2>8, <2>9 DEF RefInv
<1>11. CASE SysSem(c)
  BY <1>2, <1>7, <1>9, <1>11 DEF SysSem
<1>12. CASE SysSemClose(c)
  <2>1. sem' = sem /\ made' = made
    BY <1>12 DEF SysSemClose
  <2>2. PICK i \in Slot : LET s == pcb[p].semaphores[i] IN
          \/ pcb' = pcb /\ ref' = ref
          \/ /\ s # Null /\ pcb' = [pcb EXCEPT ![p].semaphores[i] = Null]
             /\ ref' = [ref EXCEPT ![s] = @ - 1]
    BY <1>2, <1>12 DEF SysSemClose
  <2>3. pcb[p].semaphores[i] # Null => pcb[p].semaphores[i] \in Sem
    BY <1>5
  <2> QED
    BY <1>7, <1>10, <2>1, <2>2, <2>3 DEF semVars
<1> QED
  BY <1>11, <1>12

(* fork: the child's slots are counted (Shared's copy constructor).         *)
LEMMA RefFork ==
  ASSUME KernelInv, RefInv, NEW c \in Core, SysFork(c)
  PROVE  RefInv'
<1>1. PICK child \in Proc \ created : Forked(c, active[c], child)
  BY ForkPcb
<1>2. PICK p \in Proc : p = active[c] /\ p \in created
  BY <1>1, Running DEF Forked, Busy
<1>3. /\ created' = created \cup {child} /\ p # child
      /\ \A q \in Proc : q # child => pcb'[q].semaphores = pcb[q].semaphores
      /\ pcb'[child].semaphores = pcb[p].semaphores
      /\ ref' = [s \in Sem |-> ref[s] + Copies(pcb[p].semaphores, s)]
  BY <1>1, <1>2 DEF Forked, Fields
<1>4. sem' = sem /\ made' = made
  BY DEF SysFork
<1>5. ASSUME NEW s \in Sem
      PROVE  /\ Holders(s) = {} => Holders(s)' = {}
             /\ ref'[s] >= Cardinality(Holders(s)') + Len(sem'[s].waiting)
  <2> DEFINE I == {i \in Slot : pcb[p].semaphores[i] = s}
             H == Holders(s)
  <2>1. IsFiniteSet(I) /\ IsFiniteSet({child}) /\ Cardinality({child}) = 1
    <3>1. IsFiniteSet(Slot)
      BY SMT, FS_Interval, KernelAssumption DEF Slot
    <3> QED
      BY <3>1, FS_Subset, FS_Singleton
  <2>2. Cardinality(I) \in Nat
    BY <2>1, FS_CardinalityType
  <2>3. IsFiniteSet({child} \X I) /\ Cardinality({child} \X I) = Cardinality(I)
    BY SMT, <2>1, <2>2, FS_Product
  <2>4. Holders(s)' = H \cup ({child} \X I)
    <3>1. \A q \in created : q \in Proc /\ q # child
      BY DEF KernelInv, DataInv
    <3>2. ASSUME NEW y \in created' \X Slot
          PROVE  pcb'[y[1]].semaphores[y[2]] = s <=> y \in H \cup ({child} \X I)
      <4>1. CASE y[1] = child
        BY <1>3, <3>1, <4>1 DEF Holders
      <4>2. CASE y[1] \in created
        BY <1>3, <3>1, <4>2 DEF Holders
      <4> QED
        BY <1>3, <4>1, <4>2
    <3>3. H \cup ({child} \X I) \subseteq created' \X Slot
      BY <1>3 DEF Holders
    <3> QED
      BY <3>2, <3>3 DEF Holders
  <2>5. H \cap ({child} \X I) = {}
    BY DEF Holders
  <2>6. IsFiniteSet(H) /\ Cardinality(H) \in Nat
    BY HoldersFinite
  <2> HIDE DEF H, I
  <2>7. Cardinality(H \cup ({child} \X I)) = Cardinality(H) + Cardinality(I)
    <3> DEFINE X == {child} \X I
    <3>1. Cardinality(H \cap X) = 0
      BY <2>5, FS_EmptySet
    <3>2. IsFiniteSet(X) /\ Cardinality(X) = Cardinality(I)
      BY <2>3
    <3> HIDE DEF X
    <3>3. Cardinality(H \cup X) = Cardinality(H) + Cardinality(X) - Cardinality(H \cap X)
      BY <2>6, <3>2, FS_Union
    <3>4. Cardinality(H \cup X) = Cardinality(H) + Cardinality(I)
      BY SMT, <2>2, <2>6, <3>1, <3>2, <3>3
    <3> QED
      BY <3>4 DEF X
  <2>8. ref'[s] = ref[s] + Cardinality(I) /\ ref[s] \in Int
    BY <1>3 DEF Copies, I, KernelInv, DataInv
  <2>9. ref[s] >= Cardinality(H) + Len(sem[s].waiting)
    BY DEF RefInv, H
  <2>10. Len(sem[s].waiting) \in Nat
    <3>1. sem[s].waiting \in Seq(Event)
      BY EventQueues DEF Semaphores
    <3>2. \A w \in Seq(Event) : Len(w) \in Nat
      BY SMT
    <3> QED
      BY <3>1, <3>2
  <2>11. ref'[s] >= Cardinality(Holders(s)') + Len(sem'[s].waiting)
    BY SMT, <1>4, <2>2, <2>4, <2>6, <2>7, <2>8, <2>9, <2>10
  <2>12. Holders(s) = {} => Holders(s)' = {}
    <3> SUFFICES ASSUME Holders(s) = {} PROVE Holders(s)' = {}
      OBVIOUS
    <3>1. I = {}
      <4>1. \A i \in I : <<p, i>> \in Holders(s)
        BY <1>2 DEF Holders, I
      <4> QED
        BY <4>1
    <3> QED
      BY <2>4, <3>1 DEF H
  <2> QED
    BY <2>11, <2>12
<1>6. IsFiniteSet(created')
  BY <1>3, FS_AddElement DEF RefInv
<1> QED
  BY <1>4, <1>5, <1>6 DEF RefInv

(* Every step keeps the references counted.                                 *)
LEMMA RefStep == KernelInv /\ RefInv /\ [Next]_vars => RefInv'
<1> SUFFICES ASSUME KernelInv, RefInv, [Next]_vars PROVE RefInv'
  OBVIOUS
<1>1. CASE UNCHANGED vars
  BY <1>1, RefKept DEF vars, procVars, semVars
<1>2. ASSUME NEW c \in Core,
             Syscall(c) \/ Fault(c) \/ Timer(c) \/ Trap(c) \/ EventLoop(c)
      PROVE  RefInv'
  <2>1. CASE SysFork(c) \/ SysUp(c) \/ SysDown(c) \/ SysSem(c) \/ SysSemClose(c)
    BY <2>1, RefFork, RefQueue, RefSlots
  <2> DEFINE Rest == \/ SysExit(c) \/ SysYield(c) \/ SysJoin(c) \/ SysExecl(c)
                     \/ SysSimpleSignal(c) \/ SysSigreturn(c) \/ SysKill(c) \/ SysBadPointer(c)
                     \/ Fault(c) \/ Timer(c) \/ Trap(c) \/ EventLoop(c)
  <2>2. CASE Rest
    <3>1. created' = created /\ made' = made /\ ref' = ref
      BY <2>2 DEF SysExit, SysYield, SysJoin, SysExecl, SysSimpleSignal, SysSigreturn, SysKill,
         Fault, FaultReturn, FaultSegv, Timer, TimerKernel, TimerKill, TimerSwitch, Trap,
         SysExeclLoad, SysKillValue, SysReturn, EventLoop, RunResume, RunDown, RunJoin, RunStart,
         Exit, CallHandler, EnterHandler, LeaveHandler, SwitchProcesses, SysBadPointer, procVars,
         semVars
    <3>2. \A q \in Proc : pcb'[q].semaphores = pcb[q].semaphores
      <4>1. mode[c] \notin Idle => active[c] \in Proc
        BY Running
      <4>2. ready # << >> => Head(ready).pcb \in Proc
        BY HeadFacts
      <4>3. CASE \/ SysExit(c) \/ TimerKernel(c) \/ SysExecl(c) \/ SysBadPointer(c)
                 \/ RunResume(c) \/ RunStart(c)
        BY <4>3, PcbEffect
      <4>4. CASE SysYield(c) \/ TimerSwitch(c) \/ SysReturn(c) \/ SysJoin(c) \/ SysExeclLoad(c)
        <5>1. active[c] \in Proc
          BY <4>1, <4>4 DEF SysYield, TimerSwitch, SysReturn, SysJoin, SysExeclLoad, User, Idle
        <5> QED
          BY SMT, <4>4, <5>1, PcbEffect DEF Only, Fields
      <4>5. CASE SysSimpleSignal(c) \/ SysSigreturn(c) \/ Fault(c) \/ TimerKill(c)
        <5>1. active[c] \in Proc
          BY <4>1, <4>5 DEF SysSimpleSignal, SysSigreturn, Fault, FaultReturn, FaultSegv,
             TimerKill, User, Idle
        <5> QED
          BY SMT, <4>5, <5>1, PcbEffect DEF Only, Fields
      <4>6. CASE SysKill(c) \/ SysKillValue(c)
        BY <4>6, PcbEffect DEF Kept, Fields
      <4>7. CASE RunDown(c) \/ RunJoin(c)
        <5>1. Head(ready).pcb \in Proc
          BY <4>2, <4>7 DEF RunDown, RunJoin, Next1
        <5> QED
          BY <4>7, <5>1, PcbEffect DEF Only, Fields
      <4> QED
        BY <2>2, <4>3, <4>4, <4>5, <4>6, <4>7 DEF Timer, Trap, EventLoop
    <3>3. \A s \in Sem : sem'[s].waiting = sem[s].waiting
      <4>1. \A p \in Proc : p \notin Sem
        BY KernelAssumption
      <4>2. sem \in Semaphores(Event) /\ ready \in Seq(Event)
        BY EventQueues
      <4>3. ASSUME NEW p \in Proc, sem' = UpSem(sem, p)
            PROVE  \A s \in Sem : sem'[s].waiting = sem[s].waiting
        <5>1. \A t \in Proc \cup Sem : t # p => UpSem(sem, p)[t] = sem[t]
          BY SMT, <4>2, UpMoves
        <5> QED
          BY <4>1, <4>3, <5>1
      <4>4. ASSUME NEW p \in Proc, NEW e \in Event, sem' = DownSem(sem, p, e)
            PROVE  \A s \in Sem : sem'[s].waiting = sem[s].waiting
        <5>1. \A t \in Proc \cup Sem : t # p => DownSem(sem, p, e)[t] = sem[t]
          BY SMT, <4>2, DownMoves
        <5> QED
          BY <4>1, <4>4, <5>1
      <4>5. CASE SysJoin(c)
        <5>1. active[c] \in Proc
          BY <4>5, Running DEF SysJoin, User, Idle
        <5>2. CASE sem' = sem
          BY <5>2
        <5>3. CASE pcb[active[c]].children # << >>
          <6> DEFINE child == PeekChild(active[c])
                     e == [Closure("join", active[c]) EXCEPT !.child = child]
          <6>1. child \in Proc
            BY <5>1, <5>3, PeekFacts
          <6>2. e \in Event
            BY <5>1, <6>1 DEF Closure, Event
          <6>3. sem' = DownSem(sem, child, e)
            BY <4>5, <5>3 DEF SysJoin
          <6> HIDE DEF child, e
          <6> QED
            BY <4>4, <6>1, <6>2, <6>3
        <5> QED
          BY <4>5, <5>2, <5>3 DEF SysJoin
      <4>6. CASE RunJoin(c)
        <5>1. Head(ready).child \in Proc /\ sem' = UpSem(sem, Head(ready).child)
          BY <4>6, HeadFacts DEF RunJoin, Next1, Runnable
        <5> QED
          BY <4>3, <5>1
      <4>7. CASE SysExit(c) \/ TimerKill(c) \/ FaultSegv(c)
        <5>1. active[c] \in Proc
          BY <4>7, Running DEF SysExit, TimerKill, FaultSegv, User, Idle
        <5>2. sem' = sem \/ sem' = UpSem(sem, active[c])
          BY <4>7 DEF SysExit, TimerKill, FaultSegv, CallHandler, Exit, EnterHandler
        <5> QED
          BY <4>3, <5>1, <5>2
      <4>8. CASE \/ SysYield(c) \/ SysExecl(c) \/ SysSimpleSignal(c) \/ SysSigreturn(c)
                 \/ SysKill(c) \/ SysBadPointer(c) \/ FaultReturn(c) \/ TimerKernel(c) \/ TimerSwitch(c) \/ Trap(c)
                 \/ RunResume(c) \/ RunDown(c) \/ RunStart(c)
        <5>1. sem' = sem
          BY <4>8 DEF SysYield, SysExecl, SysSimpleSignal, SysSigreturn, SysKill, SysBadPointer,
             FaultReturn, TimerKernel, TimerSwitch, Trap, SysExeclLoad, SysKillValue, SysReturn,
             RunResume, RunDown, RunStart, LeaveHandler, SwitchProcesses
        <5> QED
          BY <5>1
      <4> QED
        BY <2>2, <4>5, <4>6, <4>7, <4>8 DEF Fault, Timer, EventLoop
    <3> QED
      BY <3>1, <3>2, <3>3, RefKept
  <2> QED
    BY <1>2, <2>1, <2>2 DEF Syscall
<1> QED
  BY <1>1, <1>2 DEF Next

(* At boot the first process holds no semaphore.                            *)
LEMMA RefInit == Init => RefInv
<1> SUFFICES ASSUME Init PROVE RefInv
  OBVIOUS
<1> USE KernelAssumption
<1>1. IsFiniteSet(created)
  BY FS_Singleton DEF Init
<1>2. \A s \in Sem : s # Null
  OBVIOUS
<1>3. \A s \in Sem : Holders(s) = {}
  BY <1>2 DEF Init, NewPCB, Holders
<1>4. \A s \in Sem : sem[s].waiting = << >> /\ ref[s] = 0
  BY DEF Init
<1>5. Cardinality({}) = 0 /\ Len(<< >>) = 0
  BY FS_EmptySet
<1> QED
  <2>1. ASSUME NEW s \in Sem PROVE ref[s] >= Cardinality(Holders(s)) + Len(sem[s].waiting)
    <3>1. Cardinality(Holders(s)) = 0 /\ Len(sem[s].waiting) = 0 /\ ref[s] = 0
      BY <1>3, <1>4, <1>5
    <3> QED
      BY SMT, <3>1
  <2> QED
    BY <1>1, <1>3, <1>4, <2>1 DEF RefInv

(* References are counted, or leaked upwards, in every state.               *)
THEOREM RefCorrect == Spec => []RefInv
BY RefInit, RefStep, KernelCorrect, PTL DEF Spec

(* No process can reach a deleted semaphore: as long as a slot refers to    *)
(* one, or a process waits in its queue, its count is positive, in every    *)
(* interleaving of fork, sem, sem_close, up, down and exit.                 *)
THEOREM NoDanglingHolds == Spec => []NoDangling
<1>1. KernelInv /\ RefInv => NoDangling
  <2> SUFFICES ASSUME KernelInv, RefInv, NEW s \in Sem,
                      \/ \E p \in created, i \in Slot : pcb[p].semaphores[i] = s
                      \/ sem[s].waiting # << >>
               PROVE  ref[s] > 0
    BY DEF NoDangling
  <2>1. /\ ref[s] >= Cardinality(Holders(s)) + Len(sem[s].waiting) /\ ref[s] \in Int
        /\ IsFiniteSet(Holders(s)) /\ Cardinality(Holders(s)) \in Nat
        /\ sem[s].waiting \in Seq(Event)
    BY HoldersFinite, EventQueues DEF KernelInv, DataInv, Semaphores, RefInv
  <2>2. CASE sem[s].waiting # << >>
    <3>1. \A w \in Seq(Event) : w # << >> => Len(w) \in Nat /\ Len(w) > 0
      BY SMT
    <3>2. Len(sem[s].waiting) \in Nat /\ Len(sem[s].waiting) > 0
      BY <2>1, <2>2, <3>1
    <3> QED
      BY SMT, <2>1, <3>2
  <2>3. CASE \E p \in created, i \in Slot : pcb[p].semaphores[i] = s
    <3>0. PICK p \in created, i \in Slot : pcb[p].semaphores[i] = s
      BY <2>3
    <3>1. Holders(s) # {}
      <4>1. <<p, i>> \in Holders(s)
        BY <3>0 DEF Holders
      <4> QED
        BY <4>1
    <3>2. Cardinality(Holders(s)) # 0
      BY <2>1, <3>1, FS_EmptySet
    <3>3. \A w \in Seq(Event) : Len(w) \in Nat
      BY SMT
    <3>4. Len(sem[s].waiting) \in Nat
      BY <2>1, <3>3
    <3> QED
      BY SMT, <2>1, <3>2, <3>4
  <2> QED
    BY <2>2, <2>3
<1> QED
  BY <1>1, KernelCorrect, RefCorrect, PTL

----------------------------------------------------------------------------
(* What Ops rules out does not happen.                                      *)
THEOREM OpsCorrect == Spec => []OpsInv
BY OpsInit, OpsStep, KernelCorrect, PTL DEF Spec

(* Unless programs both install handlers and call execl, which forgets that *)
(* it was called in one, the handler flag is right in every state and       *)
(* handlers do not nest, also where the kernel itself faulted for the       *)
(* process (vmm_pageFault does not ask who used the address).               *)
THEOREM HandlerStateHolds ==
  "execl" \notin Ops \/ "simple_signal" \notin Ops => (Spec => []HandlerState)
<1> SUFFICES ASSUME "execl" \notin Ops \/ "simple_signal" \notin Ops
             PROVE  Spec => []HandlerState
  OBVIOUS
<1>1. KernelInv /\ PlaceInv /\ OpsInv /\ PosInv /\ [Next]_vars => PosInv'
  BY PosStep
<1>2. KernelInv /\ PlaceInv /\ JoinInv /\ PosInv => HandlerState
  <2> SUFFICES ASSUME KernelInv, PlaceInv, JoinInv, PosInv, NEW p \in Proc, Alive(p)
               PROVE  /\ pcb[p].in_handler <=> NextContext(p).pos = "handler"
                      /\ pcb[p].in_handler => pcb[p].handler_user_context.pos # "handler"
    BY DEF HandlerState
  <2>1. PICK u : u = NextContext(p)
    OBVIOUS
  <2>2. <<p, u>> \in Contexts
    BY <2>1, NextFacts
  <2> QED
    BY <2>1, <2>2 DEF PosInv
<1> QED
  BY <1>1, <1>2, PosInit, KernelCorrect, PlaceCorrect, JoinCorrect, OpsCorrect, PTL DEF Spec

(* On one core, or without execl, each live process has a directory of its  *)
(* own that is not freed and that the core running it uses.  (Two calls of  *)
(* execl on two cores race for VMM::page_directory: ExecRace.cfg.)          *)
THEOREM OwnSpaceHolds ==
  "execl" \notin Ops \/ (\E c : Core = {c}) => (Spec => []OwnSpace)
<1> SUFFICES ASSUME "execl" \notin Ops \/ \E c : Core = {c}
             PROVE  Spec => []OwnSpace
  OBVIOUS
<1>1. KernelInv /\ PlaceInv /\ OpsInv /\ SpaceInv /\ [Next]_vars => SpaceInv'
  BY SpaceStep
<1>2. KernelInv /\ SpaceInv => OwnSpace
  <2> SUFFICES ASSUME KernelInv, SpaceInv, NEW p \in Proc, Alive(p)
               PROVE  LET cores == {c \in CoresOf(p) : mode[c] # "execl"} IN
                      /\ \A c \in cores : cr3[c] = pcb[p].page_directory
                      /\ CoresOf(p) = cores => pcb[p].page_directory \notin freed
                      /\ \A q \in Proc \ {p} :
                           Alive(q) => pcb[p].page_directory # pcb[q].page_directory
    BY DEF OwnSpace
  <2> DEFINE cores == {c \in CoresOf(p) : mode[c] # "execl"}
  <2>1. \A c \in cores : cr3[c] = pcb[p].page_directory
    BY DEF CoresOf, SpaceInv, Busy
  <2>2. ASSUME CoresOf(p) = cores, pcb[p].page_directory \in freed PROVE FALSE
    <3>1. pcb[p].page_directory[1] = p /\ pcb[p].page_directory[2] \in Int
      BY SMT, <2>2 DEF SpaceInv, KernelInv, DataInv, Directory
    <3>2. Replacing(p)
      BY SMT, <2>2, <3>1 DEF SpaceInv
    <3>3. PICK c \in Core : mode[c] = "execl" /\ active[c] = p
      BY <3>2 DEF Replacing
    <3>4. c \in CoresOf(p)
      BY <3>3 DEF CoresOf, Idle
    <3> QED
      BY <2>2, <3>3, <3>4
  <2>3. \A q \in Proc \ {p} : pcb[p].page_directory # pcb[q].page_directory
    BY DEF SpaceInv
  <2> QED
    BY <2>1, <2>2, <2>3
<1> QED
  BY <1>1, <1>2, SpaceInit, KernelCorrect, PlaceCorrect, OpsCorrect, PTL DEF Spec

(* Without execl, or on one core and without handlers, a process goes on in *)
(* the program image that its directory holds, wherever it was preempted or *)
(* blocked.                                                                 *)
THEOREM ImageContextHolds ==
  "execl" \notin Ops \/ ((\E c : Core = {c}) /\ "simple_signal" \notin Ops)
    => (Spec => []ImageContext)
<1> SUFFICES ASSUME "execl" \notin Ops \/ ((\E c : Core = {c}) /\ "simple_signal" \notin Ops)
             PROVE  Spec => []ImageContext
  OBVIOUS
<1>1. KernelInv /\ PlaceInv /\ OpsInv /\ SpaceInv /\ [Next]_vars => SpaceInv'
  BY SpaceStep
<1>2. KernelInv /\ PlaceInv /\ OpsInv /\ SpaceInv /\ ImageInv /\ [Next]_vars => ImageInv'
  BY ImageStep
<1>3. KernelInv /\ PlaceInv /\ JoinInv /\ ImageInv => ImageContext
  <2> SUFFICES ASSUME KernelInv, PlaceInv, JoinInv, ImageInv, NEW p \in Proc, Alive(p)
               PROVE  NextContext(p).image = pcb[p].page_directory[2]
    BY DEF ImageContext
  <2>1. PICK u : u = NextContext(p)
    OBVIOUS
  <2>2. <<p, u>> \in Contexts
    BY <2>1, NextFacts
  <2> QED
    BY <2>1, <2>2 DEF ImageInv
<1> QED
  BY <1>1, <1>2, <1>3, SpaceInit, ImageInit, KernelCorrect, PlaceCorrect, JoinCorrect, OpsCorrect,
     PTL DEF Spec

(* Whatever the other cores do, a process that is preempted, ready or       *)
(* blocked resumes with the registers it left with, except that down and    *)
(* join deliver their result in eax when it gets a core.                    *)
THEOREM ContextKeptHolds == Spec => ContextKept
<1>1. KernelInv /\ PlaceInv /\ JoinInv => NextRight
  BY NextFacts DEF NextRight
<1>2. KernelInv /\ PlaceInv /\ JoinInv /\ EaxInv /\ NextRight /\ NextRight' /\ [Next]_vars
        => [\A p \in Proc :
              Alive(p) /\ (\A c \in CoresOf(p) : TimerSwitch(c) \/ SysReturn(c)) =>
                \/ NextContext(p)' = NextContext(p)
                \/ /\ CoresOf(p) = {} /\ CoresOf(p)' # {}
                   /\ NextContext(p).eax = SysNumber
                   /\ NextContext(p)' = [NextContext(p) EXCEPT !.eax = NextContext(p)'.eax]]_vars
  BY ContextStep
<1> QED
  BY <1>1, <1>2, EaxInit, EaxStep, KernelCorrect, PlaceCorrect, JoinCorrect, PTL DEF Spec, ContextKept
==============================================================================
