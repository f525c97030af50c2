------------------------------- MODULE MCKernel -------------------------------
(* Instances of Kernel for TLC.                                             *)
EXTENDS Kernel, TLC

Symmetry == Permutations(Core) \cup Permutations(Proc \ {FirstProc})
              \cup Permutations(Sem)

(* States that differ only in values no step tests are one: the registers   *)
(* an idle core last used, a running process's saved context, the context   *)
(* of a handler that has returned, and eax wherever it is saved.            *)
View ==
  LET Masked(context) == IF context = Null THEN Null ELSE [context EXCEPT !.eax = 0]
      Unless(dead, value) == IF dead THEN Null ELSE value
      Fields(p) == [pcb[p] EXCEPT
        !.user_context = Unless(CoresOf(p) # {} \/ ~Alive(p), Masked(@)),
        !.handler_user_context = Unless(~pcb[p].in_handler, Masked(@))]
      Registers(c) == Unless(mode[c] \in Idle, <<active[c], cr3[c], Masked(ctx[c])>>)
  IN <<[p \in Proc |-> Fields(p)], sem, ready, procVars, semVars, mode, interrupts,
       [c \in Core |-> Registers(c)]>>

(* What the programs of an instance do.                                     *)
LifeOps == {"exit", "fork", "yield", "join", "sem", "up", "down", "sem_close"}
SignalOps == {"exit", "fork", "join", "kill", "simple_signal", "sigreturn",
              "return", "segv", "badptr"}
ExecOps == {"fork", "join", "execl"}
KillOps == {"fork", "kill", "exit"}
BlockOps == {"fork", "kill", "sem", "down"}
HandlerOps == {"simple_signal", "segv", "execl", "sigreturn"}
PointerOps == {"simple_signal", "badptr", "sigreturn"}
ForkExecOps == {"fork", "execl"}
SemOps == {"exit", "sem", "up", "down", "sem_close"}
===============================================================================
