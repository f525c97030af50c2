---------------------------- MODULE KernelProofs -----------------------------
(*****************************************************************************)
(* What the helpers and actions of Kernel do, as the proofs of all its      *)
(* invariants need it, and that every step keeps KernelInv, PlaceInv,       *)
(* JoinInv, OpsInv and PosInv, for any number of cores, processes and       *)
(* semaphores.                                                              *)
(*****************************************************************************)
EXTENDS KernelInvariants, QueueFacts

USE Zenon

(* Queues of closures may only grow more runnable.                          *)
LEMMA SeqGrows == ASSUME NEW Q, NEW R, Q \subseteq R
                  PROVE  /\ Seq(Q) \subseteq Seq(R)
                         /\ Semaphores(Q) \subseteq Semaphores(R)
<1>1. Seq(Q) \subseteq Seq(R)
  BY SMT
<1>2. QED
  BY <1>1 DEF Semaphores

(* Types and facts about the process that a core runs.                      *)
LEMMA Running ==
  ASSUME KernelInv, NEW c \in Core, mode[c] \notin Idle
  PROVE  /\ active[c] \in created /\ active[c] \in Proc
         /\ cr3[c] \in Directory /\ cr3[c][1] \in Proc /\ cr3[c][2] \in 0 .. MaxImage
         /\ ctx[c] \in Context /\ Trapped(c) \in Context
         /\ pcb[active[c]] \in PCB
         /\ pcb[active[c]].in_handler
              => pcb[active[c]].handler_user_context \in Context
<1>1. active[c] \in created /\ active[c] \in Proc /\ cr3[c] \in Directory /\ ctx[c] \in Context
  BY DEF KernelInv, CoreInv, DataInv
<1>2. cr3[c][1] \in Proc /\ cr3[c][2] \in 0 .. MaxImage
  BY <1>1 DEF Directory
<1>3. Trapped(c) \in Context
  BY SMT, <1>1 DEF Trapped, Context, SysNumber
<1>4. QED
  BY <1>1, <1>2, <1>3 DEF KernelInv, PcbInv

(* The closure at the head of the ready queue.                              *)
LEMMA HeadFacts ==
  ASSUME KernelInv, ready # << >>
  PROVE  /\ Head(ready) \in Runnable /\ Tail(ready) \in Seq(Runnable)
         /\ Head(ready).pcb \in created /\ Head(ready).pcb \in Proc
         /\ pcb[Head(ready).pcb] \in PCB
         /\ pcb[Head(ready).pcb].page_directory \in Directory
<1>1. Head(ready) \in Runnable /\ Tail(ready) \in Seq(Runnable)
  BY SMT DEF KernelInv, QueueInv
<1>2. Head(ready).pcb \in created /\ Head(ready).pcb \in Proc
  BY <1>1 DEF Runnable, KernelInv, DataInv
<1>3. pcb[Head(ready).pcb] \in PCB
  BY <1>2 DEF KernelInv, PcbInv
<1>4. QED
  BY <1>1, <1>2, <1>3 DEF PCB

(* The types of queues, without what makes their closures runnable.         *)
LEMMA EventQueues ==
  ASSUME KernelInv
  PROVE  sem \in Semaphores(Event) /\ ready \in Seq(Event)
<1>1. Runnable \subseteq Event
  BY DEF Runnable
<1> QED
  BY <1>1, SeqGrows DEF KernelInv, QueueInv

(* The youngest child is a process.                                         *)
LEMMA PeekFacts ==
  ASSUME KernelInv, NEW p \in Proc, pcb[p].children # << >>
  PROVE  PeekChild(p) \in Proc
<1>1. pcb[p].children \in Seq(Proc)
  BY DEF KernelInv, PcbInv, PCB
<1> QED
  BY SMT, <1>1 DEF PeekChild

(* A core in user mode, or between two stores of a call, is busy.           *)
LEMMA BusyFacts ==
  ASSUME NEW c \in Core
  PROVE  /\ mode[c] \in {"user", "sysret", "kill", "execl", "fault"} => Busy(c)
         /\ \A v : KernelInv /\ Return(c, v) =>
              /\ Busy(c)' /\ active' = active
              /\ \A d \in Core : d # c => mode'[d] = mode[d]
         /\ \A m \in {"user", "sysret", "kill", "execl", "fault"} :
              KernelInv /\ mode' = [mode EXCEPT ![c] = m] =>
                /\ Busy(c)'
                /\ \A d \in Core : d # c => mode'[d] = mode[d]
BY DEF Busy, Idle, Return, KernelInv, CoreInv

----------------------------------------------------------------------------
(* Queue::add of a closure whose process has none in the queue.             *)
LEMMA SingleAdd ==
  ASSUME NEW Q, NEW q \in Seq(Q), NEW e \in Q, Single(q),
         \A f \in Range(q) : f.pcb # e.pcb
  PROVE  Single(Append(q, e))
<1> DEFINE r == Append(q, e)
<1>1. /\ DOMAIN r = 1 .. Len(q) + 1 /\ DOMAIN q = 1 .. Len(q) /\ Len(q) \in Nat
      /\ \A i \in 1 .. Len(q) : r[i] = q[i]
      /\ r[Len(q) + 1] = e
  BY SMT
<1>2. \A i \in 1 .. Len(q) : q[i].pcb # e.pcb
  BY <1>1 DEF Range
<1> HIDE DEF r
<1>3. Single(r)
  BY SMT, <1>1, <1>2 DEF Single
<1> QED
  BY <1>3 DEF r

(* Queue::remove leaves no other closure of the process behind.             *)
LEMMA SingleRemove ==
  ASSUME NEW Q, NEW q \in Seq(Q), q # << >>, Single(q)
  PROVE  Single(Tail(q)) /\ \A f \in Range(Tail(q)) : f.pcb # Head(q).pcb
<1> DEFINE r == Tail(q)
<1>1. /\ DOMAIN r = 1 .. Len(q) - 1 /\ DOMAIN q = 1 .. Len(q) /\ Len(q) \in Nat /\ Len(q) > 0
      /\ \A i \in 1 .. Len(q) - 1 : r[i] = q[i + 1]
      /\ Head(q) = q[1]
  BY SMT
<1> HIDE DEF r
<1>2. Single(r)
  <2>1. ASSUME NEW i \in DOMAIN r, NEW j \in DOMAIN r, r[i].pcb = r[j].pcb PROVE i = j
    <3>1. q[i + 1].pcb = q[j + 1].pcb /\ i + 1 \in DOMAIN q /\ j + 1 \in DOMAIN q
      BY SMT, <1>1, <2>1
    <3>2. i + 1 = j + 1
      BY <3>1 DEF Single
    <3> QED
      BY SMT, <1>1, <3>2
  <2> QED
    BY <2>1 DEF Single
<1>3. ASSUME NEW f \in Range(r) PROVE f.pcb # Head(q).pcb
  <2>1. PICK i \in 1 .. Len(q) - 1 : f = r[i]
    BY <1>1 DEF Range
  <2>2. f = q[i + 1] /\ i + 1 \in DOMAIN q /\ 1 \in DOMAIN q /\ i + 1 # 1
    BY SMT, <1>1, <2>1
  <2> QED
    BY <1>1, <2>2 DEF Single
<1> QED
  BY <1>2, <1>3 DEF r

(* Semaphore::up moves at most one closure, from the queue it waits in to   *)
(* the ready queue.                                                         *)
LEMMA UpMoves ==
  ASSUME NEW Q, NEW S \in Semaphores(Q), NEW R \in Seq(Q), NEW s \in Proc \cup Sem
  PROVE  /\ \A t \in Proc \cup Sem : t # s => UpSem(S, s)[t] = S[t]
         /\ S[s].waiting = << >> =>
              /\ UpSem(S, s)[s].waiting = << >> /\ UpSem(S, s)[s].count = S[s].count + 1
              /\ UpReady(S, R, s) = R
         /\ S[s].waiting # << >> =>
              /\ UpSem(S, s)[s].waiting = Tail(S[s].waiting)
              /\ UpSem(S, s)[s].count = S[s].count
              /\ UpReady(S, R, s) = Append(R, Head(S[s].waiting))
         /\ S[s].waiting \in Seq(Q) /\ S[s].count \in Nat
<1>1. S \in [Proc \cup Sem -> [count : Nat, waiting : Seq(Q)]]
  BY DEF Semaphores
<1>2. S[s] \in [count : Nat, waiting : Seq(Q)]
  BY <1>1
<1>3. CASE S[s].waiting = << >>
  <2>1. UpSem(S, s) = [S EXCEPT ![s] = [S[s] EXCEPT !.count = S[s].count + 1]]
    BY <1>3 DEF UpSem
  <2> QED
    BY <1>1, <1>2, <1>3, <2>1 DEF UpReady
<1>4. CASE S[s].waiting # << >>
  <2>1. UpSem(S, s) = [S EXCEPT ![s] = [S[s] EXCEPT !.waiting = Tail(S[s].waiting)]]
    BY <1>4 DEF UpSem
  <2> QED
    BY <1>1, <1>2, <1>4, <2>1 DEF UpReady
<1> QED
  BY <1>3, <1>4

(* Semaphore::down queues one closure, in the semaphore or for running.     *)
LEMMA DownMoves ==
  ASSUME NEW Q, NEW S \in Semaphores(Q), NEW R \in Seq(Q), NEW s \in Proc \cup Sem, NEW e \in Q
  PROVE  /\ \A t \in Proc \cup Sem : t # s => DownSem(S, s, e)[t] = S[t]
         /\ S[s].count > 0 =>
              /\ DownSem(S, s, e)[s].waiting = S[s].waiting
              /\ DownSem(S, s, e)[s].count = S[s].count - 1
              /\ DownReady(S, R, s, e) = Append(R, e)
         /\ S[s].count = 0 =>
              /\ DownSem(S, s, e)[s].waiting = Append(S[s].waiting, e)
              /\ DownSem(S, s, e)[s].count = 0
              /\ DownReady(S, R, s, e) = R
         /\ S[s].waiting \in Seq(Q) /\ S[s].count \in Nat
<1>1. S \in [Proc \cup Sem -> [count : Nat, waiting : Seq(Q)]]
  BY DEF Semaphores
<1>2. S[s] \in [count : Nat, waiting : Seq(Q)]
  BY <1>1
<1>3. CASE S[s].count > 0
  <2>1. DownSem(S, s, e) = [S EXCEPT ![s] = [S[s] EXCEPT !.count = S[s].count - 1]]
    BY <1>3 DEF DownSem
  <2> QED
    BY SMT, <1>1, <1>2, <1>3, <2>1 DEF DownReady
<1>4. CASE S[s].count = 0
  <2>1. DownSem(S, s, e) = [S EXCEPT ![s] = [S[s] EXCEPT !.waiting = Append(S[s].waiting, e)]]
    BY SMT, <1>4 DEF DownSem
  <2> QED
    BY SMT, <1>1, <1>2, <1>4, <2>1 DEF DownReady
<1> QED
  BY SMT, <1>2, <1>3, <1>4

(* Semaphore::up keeps the closures of processes apart, and loses none.     *)
LEMMA UpPlaces ==
  ASSUME NEW Q, NEW S \in Semaphores(Q), NEW R \in Seq(Q), NEW s \in Proc \cup Sem,
         Apart(S, R)
  PROVE  /\ Apart(UpSem(S, s), UpReady(S, R, s))
         /\ Closures(UpSem(S, s), UpReady(S, R, s)) = Closures(S, R)
<1> DEFINE T == UpSem(S, s)
           V == UpReady(S, R, s)
           w == S[s].waiting
<1>1. /\ \A t \in Proc \cup Sem : t # s => T[t] = S[t]
      /\ w = << >> => T[s].waiting = << >> /\ V = R
      /\ w # << >> => T[s].waiting = Tail(w) /\ V = Append(R, Head(w))
      /\ w \in Seq(Q)
  BY SMT, UpMoves
<1> HIDE DEF T, V
<1>2. CASE w = << >>
  <2>1. \A t \in Proc \cup Sem : T[t].waiting = S[t].waiting
    BY <1>1, <1>2
  <2>2. Apart(T, V)
    BY SMT, <1>1, <1>2, <2>1 DEF Apart
  <2>3. Closures(T, V) = Closures(S, R)
    BY <1>1, <1>2, <2>1 DEF Closures, Waits
  <2> QED
    BY <2>2, <2>3 DEF T, V
<1>3. CASE w # << >>
  <2> DEFINE h == Head(w)
  <2>1. /\ h \in Q /\ h \in Range(w) /\ Range(w) = Range(Tail(w)) \cup {h}
        /\ Range(V) = Range(R) \cup {h} /\ T[s].waiting = Tail(w) /\ V = Append(R, h)
    <3>1. h \in Q /\ h \in Range(w) /\ Range(w) = Range(Tail(w)) \cup {h}
      BY <1>1, <1>3, RemoveFacts
    <3>2. Range(Append(R, h)) = Range(R) \cup {h}
      BY SMT, <3>1, AddFacts
    <3> QED
      BY <1>1, <1>3, <3>1, <3>2
  <2>2. Single(Tail(w)) /\ \A f \in Range(Tail(w)) : f.pcb # h.pcb
    BY <1>1, <1>3, SingleRemove DEF Apart
  <2> HIDE DEF h, w
  <2>3. \A f \in Range(R) : f.pcb # h.pcb
    BY <2>1 DEF Apart, w
  <2>4. Single(V)
    BY <2>1, <2>3, SingleAdd DEF Apart
  <2>5. \A t \in Proc \cup Sem : Single(T[t].waiting) /\ Range(T[t].waiting) \subseteq Range(S[t].waiting)
    BY <1>1, <2>1, <2>2 DEF Apart, w
  <2>6. \A t \in Proc \cup Sem : \A f \in Range(T[t].waiting) : f.pcb # h.pcb
    <3>1. SUFFICES ASSUME NEW t \in Proc \cup Sem, NEW f \in Range(T[t].waiting)
                   PROVE  f.pcb # h.pcb
      OBVIOUS
    <3>2. CASE t = s
      BY <2>1, <2>2, <3>2
    <3>3. CASE t # s
      BY <1>1, <2>1, <3>3 DEF Apart, w
    <3> QED
      BY <3>2, <3>3
  <2>7. Apart(T, V)
    <3>1. \A t \in Proc \cup Sem : \A e \in Range(V), f \in Range(T[t].waiting) : e.pcb # f.pcb
      <4>1. SUFFICES ASSUME NEW t \in Proc \cup Sem, NEW e \in Range(V), NEW f \in Range(T[t].waiting)
                     PROVE  e.pcb # f.pcb
        OBVIOUS
      <4>2. CASE e \in Range(R)
        <5>1. f \in Range(S[t].waiting)
          BY <2>5
        <5> QED
          BY <4>2, <5>1 DEF Apart
      <4>3. CASE e = h
        BY <2>6, <4>3
      <4> QED
        BY <2>1, <4>2, <4>3
    <3>2. \A t, u \in Proc \cup Sem : t # u =>
            \A e \in Range(T[t].waiting), f \in Range(T[u].waiting) : e.pcb # f.pcb
      BY <2>5 DEF Apart
    <3> QED
      BY <2>4, <2>5, <3>1, <3>2 DEF Apart
  <2>8. Closures(T, V) = Closures(S, R)
    <3>1. \A e : e \in Waits(S) <=> e \in Waits(T) \/ e = h
      BY <1>1, <2>1 DEF Waits, w
    <3> QED
      BY <2>1, <3>1 DEF Closures
  <2> QED
    BY <2>7, <2>8 DEF T, V
<1> QED
  BY <1>2, <1>3

(* Queue::add to the ready queue.                                           *)
LEMMA AddPlaces ==
  ASSUME NEW Q, NEW S \in Semaphores(Q), NEW R \in Seq(Q), NEW e \in Q,
         Apart(S, R), e.pcb \notin Queued(S, R)
  PROVE  /\ Apart(S, Append(R, e))
         /\ Closures(S, Append(R, e)) = Closures(S, R) \cup {e}
<1>1. Range(Append(R, e)) = Range(R) \cup {e}
  BY SMT, AddFacts
<1>2. \A f \in Closures(S, R) : f.pcb # e.pcb
  BY DEF Queued
<1>3. Single(Append(R, e))
  BY <1>2, SingleAdd DEF Apart, Closures
<1>4. \A s \in Proc \cup Sem : \A f \in Range(S[s].waiting) : f.pcb # e.pcb
  BY <1>2 DEF Closures, Waits
<1>5. Apart(S, Append(R, e))
  BY <1>1, <1>3, <1>4 DEF Apart
<1> QED
  BY <1>1, <1>5 DEF Closures

(* Semaphore::down with the closure of a process that has none.             *)
LEMMA DownPlaces ==
  ASSUME NEW Q, NEW S \in Semaphores(Q), NEW R \in Seq(Q), NEW s \in Proc \cup Sem, NEW e \in Q,
         Apart(S, R), e.pcb \notin Queued(S, R)
  PROVE  /\ Apart(DownSem(S, s, e), DownReady(S, R, s, e))
         /\ Closures(DownSem(S, s, e), DownReady(S, R, s, e)) = Closures(S, R) \cup {e}
<1> DEFINE T == DownSem(S, s, e)
           V == DownReady(S, R, s, e)
           w == S[s].waiting
<1>1. /\ \A t \in Proc \cup Sem : t # s => T[t] = S[t]
      /\ S[s].count > 0 => T[s].waiting = w /\ V = Append(R, e)
      /\ S[s].count = 0 => T[s].waiting = Append(w, e) /\ V = R
      /\ w \in Seq(Q) /\ S[s].count \in Nat
  BY SMT, DownMoves
<1> HIDE DEF T, V
<1>2. CASE S[s].count > 0
  <2>1. \A t \in Proc \cup Sem : T[t].waiting = S[t].waiting
    BY <1>1, <1>2
  <2>2. Apart(S, V) => Apart(T, V)
    BY SMT, <2>1 DEF Apart
  <2>3. Closures(T, V) = Closures(S, V)
    BY <2>1 DEF Closures, Waits
  <2>4. Apart(S, Append(R, e)) /\ Closures(S, Append(R, e)) = Closures(S, R) \cup {e}
    BY SMT, AddPlaces
  <2>5. V = Append(R, e)
    BY <1>1, <1>2
  <2> QED
    BY <2>2, <2>3, <2>4, <2>5 DEF T, V
<1>3. CASE S[s].count = 0
  <2>1. Range(T[s].waiting) = Range(w) \cup {e} /\ V = R /\ T[s].waiting = Append(w, e)
    <3>1. Range(Append(w, e)) = Range(w) \cup {e}
      BY SMT, <1>1, AddFacts
    <3> QED
      BY <1>1, <1>3, <3>1
  <2>2. \A f \in Closures(S, R) : f.pcb # e.pcb
    BY DEF Queued
  <2>3. /\ \A f \in Range(R) : f.pcb # e.pcb
        /\ \A t \in Proc \cup Sem : \A f \in Range(S[t].waiting) : f.pcb # e.pcb
    BY <2>2 DEF Closures, Waits
  <2>4. Single(T[s].waiting)
    BY SMT, <1>1, <2>1, <2>3, SingleAdd DEF Apart
  <2> HIDE DEF w
  <2>5. Apart(T, V)
    <3>1. \A t \in Proc \cup Sem : Single(T[t].waiting)
      BY <1>1, <2>4 DEF Apart
    <3>2. \A t \in Proc \cup Sem : \A g \in Range(V), f \in Range(T[t].waiting) : g.pcb # f.pcb
      <4>1. SUFFICES ASSUME NEW t \in Proc \cup Sem, NEW g \in Range(R), NEW f \in Range(T[t].waiting)
                     PROVE  g.pcb # f.pcb
        BY <2>1
      <4>2. CASE t = s /\ f = e
        BY <2>3, <4>2
      <4>3. CASE f \in Range(S[t].waiting)
        BY <4>3 DEF Apart
      <4> QED
        BY <1>1, <2>1, <4>2, <4>3 DEF w
    <3>3. \A t, u \in Proc \cup Sem : t # u =>
            \A g \in Range(T[t].waiting), f \in Range(T[u].waiting) : g.pcb # f.pcb
      <4>1. SUFFICES ASSUME NEW t \in Proc \cup Sem, NEW u \in Proc \cup Sem, t # u,
                            NEW g \in Range(T[t].waiting), NEW f \in Range(T[u].waiting)
                     PROVE  g.pcb # f.pcb
        OBVIOUS
      <4>2. ASSUME NEW x \in Proc \cup Sem, NEW k \in Range(T[x].waiting)
            PROVE  k \in Range(S[x].waiting) \/ (x = s /\ k = e)
        <5>1. CASE x = s
          BY <2>1, <5>1 DEF w
        <5>2. CASE x # s
          BY <1>1, <5>2
        <5> QED
          BY <5>1, <5>2
      <4>3. g \in Range(S[t].waiting) \/ (t = s /\ g = e)
        BY <4>2
      <4>4. f \in Range(S[u].waiting) \/ (u = s /\ f = e)
        BY <4>2
      <4> QED
        BY <2>3, <4>1, <4>3, <4>4 DEF Apart
    <3> QED
      BY <2>1, <3>1, <3>2, <3>3 DEF Apart
  <2>6. Closures(T, V) = Closures(S, R) \cup {e}
    <3>1. \A f : f \in Waits(T) <=> f \in Waits(S) \/ f = e
      BY <1>1, <2>1 DEF Waits, w
    <3> QED
      BY <2>1, <3>1 DEF Closures
  <2> QED
    BY <2>5, <2>6 DEF T, V
<1> QED
  BY SMT, <1>1, <1>2, <1>3

(* Queue::remove from the ready queue.                                      *)
LEMMA TakePlaces ==
  ASSUME NEW Q, NEW S \in Semaphores(Q), NEW R \in Seq(Q), R # << >>, Apart(S, R)
  PROVE  /\ Apart(S, Tail(R))
         /\ Closures(S, R) = Closures(S, Tail(R)) \cup {Head(R)}
         /\ Head(R).pcb \notin Queued(S, Tail(R))
<1>1. Head(R) \in Range(R) /\ Range(R) = Range(Tail(R)) \cup {Head(R)}
  BY RemoveFacts
<1>2. Single(Tail(R)) /\ \A f \in Range(Tail(R)) : f.pcb # Head(R).pcb
  BY SingleRemove DEF Apart
<1>3. Apart(S, Tail(R))
  BY <1>1, <1>2 DEF Apart
<1>4. Closures(S, R) = Closures(S, Tail(R)) \cup {Head(R)}
  BY <1>1 DEF Closures
<1>5. \A f \in Waits(S) : f.pcb # Head(R).pcb
  BY <1>1 DEF Apart, Waits
<1> QED
  BY <1>2, <1>3, <1>4, <1>5 DEF Queued, Closures

----------------------------------------------------------------------------
(* The fields of a PCB.                                                     *)
Fields == {"page_directory", "user_context", "children", "semaphores", "in_handler",
           "handler_eip", "handler_user_context", "killed", "killed_v", "handled"}

(* The step changes no PCB but that of p, and no field of it outside F; or  *)
(* no field outside F of any PCB.                                           *)
Only(p, F) ==
  /\ \A q \in Proc : q # p => pcb'[q] = pcb[q]
  /\ \A f \in Fields \ F : pcb'[p][f] = pcb[p][f]
Kept(F) == \A q \in Proc : \A f \in Fields \ F : pcb'[q][f] = pcb[q][f]

(* switch_processes, also as the handler's return calls it.                 *)
LEMMA SwitchPcb ==
  ASSUME KernelInv, NEW c \in Core, Busy(c), NEW u, NEW m
  PROVE  /\ SwitchProcesses(c, pcb, u, m) =>
              /\ Only(active[c], {"page_directory", "user_context"})
              /\ pcb'[active[c]].page_directory = cr3[c]
              /\ pcb'[active[c]].user_context = u
         /\ LeaveHandler(c) =>
              /\ Only(active[c], {"page_directory", "user_context", "in_handler"})
              /\ pcb'[active[c]].page_directory = cr3[c]
              /\ pcb'[active[c]].user_context = pcb[active[c]].handler_user_context
              /\ pcb'[active[c]].in_handler = FALSE
<1> DEFINE p == active[c]
<1>1. p \in Proc /\ pcb[p] \in PCB /\ pcb \in [Proc -> PCB]
  BY Running DEF Busy, KernelInv, PcbInv
<1>2. ASSUME SwitchProcesses(c, pcb, u, m)
      PROVE  /\ Only(p, {"page_directory", "user_context"})
             /\ pcb'[p].page_directory = cr3[c] /\ pcb'[p].user_context = u
  <2> DEFINE r == [pcb[p] EXCEPT !.page_directory = cr3[c], !.user_context = u]
  <2>1. pcb' = [pcb EXCEPT ![p] = r]
    BY <1>1, <1>2 DEF SwitchProcesses
  <2>2. /\ \A f \in Fields \ {"page_directory", "user_context"} : r[f] = pcb[p][f]
        /\ r.page_directory = cr3[c] /\ r.user_context = u
    BY <1>1 DEF PCB, Fields
  <2> HIDE DEF r, p
  <2>3. pcb'[p] = r /\ \A q \in Proc : q # p => pcb'[q] = pcb[q]
    BY <1>1, <2>1
  <2> QED
    BY <2>2, <2>3 DEF Only
<1>3. ASSUME LeaveHandler(c)
      PROVE  /\ Only(p, {"page_directory", "user_context", "in_handler"})
             /\ pcb'[p].page_directory = cr3[c]
             /\ pcb'[p].user_context = pcb[p].handler_user_context
             /\ pcb'[p].in_handler = FALSE
  <2> DEFINE h == pcb[p].handler_user_context
             s == [pcb[p] EXCEPT !.in_handler = FALSE]
             r == [s EXCEPT !.page_directory = cr3[c], !.user_context = h]
             P == [pcb EXCEPT ![p] = s]
  <2>1. pcb' = [P EXCEPT ![p] = [P[p] EXCEPT !.page_directory = cr3[c], !.user_context = h]]
    BY <1>1, <1>3 DEF LeaveHandler, SwitchProcesses
  <2>2. P[p] = s /\ pcb' = [pcb EXCEPT ![p] = r]
    BY <1>1, <2>1
  <2>3. s \in PCB /\ \A f \in Fields \ {"in_handler"} : s[f] = pcb[p][f]
    BY <1>1 DEF PCB, Fields
  <2>4. s.in_handler = FALSE
    BY <1>1 DEF PCB
  <2> HIDE DEF s
  <2>5. /\ \A f \in Fields \ {"page_directory", "user_context"} : r[f] = s[f]
        /\ r.page_directory = cr3[c] /\ r.user_context = h /\ r.in_handler = s.in_handler
    BY <2>3 DEF PCB, Fields
  <2>6. \A f \in Fields \ {"page_directory", "user_context", "in_handler"} : r[f] = pcb[p][f]
    BY <2>3, <2>5
  <2> HIDE DEF r, p, h, P
  <2>7. pcb'[p] = r /\ \A q \in Proc : q # p => pcb'[q] = pcb[q]
    BY <1>1, <2>2
  <2>8. Only(p, {"page_directory", "user_context", "in_handler"})
    BY <2>6, <2>7 DEF Only
  <2> QED
    BY <2>4, <2>5, <2>7, <2>8 DEF h
<1> QED
  BY <1>2, <1>3

(* What a page fault in the kernel or an interrupt of the program saves.    *)
LEMMA FrameFacts ==
  ASSUME KernelInv, NEW c \in Core, Busy(c)
  PROVE  /\ Frame(c) \in Context /\ Frame(c).image = ctx[c].image
         /\ ctx[c].pos # "handler" => Frame(c).pos # "handler"
<1>1. ctx[c] \in Context
  BY Running DEF Busy
<1>2. CASE mode[c] = "fault"
  <2> DEFINE v == [ctx[c] EXCEPT !.pos = "kernel"]
             u == [v EXCEPT !.eax = 0]
  <2>1. v \in Context /\ v.image = ctx[c].image /\ v.pos = "kernel"
    BY <1>1 DEF Context
  <2>2. Frame(c) = u
    BY <1>2 DEF Frame
  <2> HIDE DEF v
  <2>3. u \in Context
    BY SMT, <2>1 DEF Context
  <2>4. u.image = v.image /\ u.pos = v.pos
    BY <2>1 DEF Context
  <2> QED
    BY <2>1, <2>2, <2>3, <2>4
<1>3. CASE mode[c] # "fault"
  BY <1>1, <1>3 DEF Frame
<1> QED
  BY <1>2, <1>3

(* Entering the handler, from the timer or a page fault.                    *)
LEMMA EnterPcb ==
  ASSUME KernelInv, NEW c \in Core, Busy(c), NEW P,
         P = pcb \/ P = [pcb EXCEPT ![active[c]].handled = TRUE], pcb' = Handling(c, P)
  PROVE  /\ Only(active[c], {"handler_user_context", "in_handler", "handled"})
         /\ pcb'[active[c]].handler_user_context = Frame(c)
         /\ pcb'[active[c]].in_handler = TRUE
<1> DEFINE p == active[c]
           r == [P[p] EXCEPT !.handler_user_context = Frame(c), !.in_handler = TRUE]
<1>1. p \in Proc /\ pcb[p] \in PCB /\ pcb \in [Proc -> PCB]
  BY Running DEF Busy, KernelInv, PcbInv
<1>2. pcb' = [P EXCEPT ![p] = r]
  BY DEF Handling
<1>3. /\ P \in [Proc -> PCB] /\ \A q \in Proc : q # p => P[q] = pcb[q]
      /\ \A f \in Fields \ {"handled"} : P[p][f] = pcb[p][f]
  <2>1. CASE P = pcb
    BY <1>1, <2>1
  <2>2. CASE P = [pcb EXCEPT ![p].handled = TRUE]
    BY <1>1, <2>2 DEF PCB, Fields
  <2> QED
    BY <2>1, <2>2
<1>4. P[p] \in PCB
  BY <1>1, <1>3
<1>5. /\ \A f \in Fields \ {"handler_user_context", "in_handler"} : r[f] = P[p][f]
      /\ r.handler_user_context = Frame(c) /\ r.in_handler = TRUE
  BY <1>4 DEF PCB, Fields
<1> HIDE DEF r, p
<1>6. pcb'[p] = r /\ \A q \in Proc : q # p => pcb'[q] = pcb[q]
  BY <1>1, <1>2, <1>3
<1>7. Only(p, {"handler_user_context", "in_handler", "handled"})
  BY <1>3, <1>5, <1>6 DEF Only
<1> QED
  BY <1>5, <1>6, <1>7 DEF p

(* What each handler stores in the PCBs, fork apart.                        *)
LEMMA PcbEffect ==
  ASSUME KernelInv, NEW c \in Core
  PROVE  /\ SysExit(c) \/ TimerKernel(c) \/ SysExecl(c) \/ SysBadPointer(c) \/ SysUp(c)
              \/ RunResume(c) \/ RunStart(c) => pcb' = pcb
         /\ SysYield(c) \/ TimerSwitch(c) \/ SysReturn(c) \/ SysJoin(c) \/ SysDown(c)
              \/ SysExeclLoad(c) => Only(active[c], {"page_directory", "user_context"})
         /\ SysSimpleSignal(c) => Only(active[c], {"handler_eip"})
         /\ SysKill(c) \/ SysKillValue(c) => Kept({"killed", "killed_v"})
         /\ SysSem(c) \/ SysSemClose(c) => Only(active[c], {"semaphores"})
         /\ SysSigreturn(c) \/ Fault(c) \/ TimerKill(c) =>
              Only(active[c], {"page_directory", "user_context", "in_handler",
                               "handler_user_context", "handled"})
         /\ RunDown(c) => Only(Head(ready).pcb, {"user_context"})
         /\ RunJoin(c) => Only(Head(ready).pcb, {"user_context", "children"})
<1> DEFINE p == active[c]
           h == Head(ready).pcb
<1>1. /\ mode[c] \notin Idle => p \in Proc /\ pcb[p] \in PCB
      /\ ready # << >> => h \in Proc /\ pcb[h] \in PCB
      /\ pcb \in [Proc -> PCB]
  BY Running, HeadFacts DEF KernelInv, PcbInv
<1>2. ASSUME SysExit(c) \/ TimerKernel(c) \/ SysExecl(c) \/ SysBadPointer(c) \/ SysUp(c)
               \/ RunResume(c) \/ RunStart(c)
      PROVE  pcb' = pcb
  BY <1>2 DEF SysExit, Exit, TimerKernel, SysExecl, SysBadPointer, SysUp, RunResume, RunStart
<1>3. ASSUME NEW q \in Proc, NEW F, pcb' = pcb PROVE Only(q, F)
  BY <1>3 DEF Only
<1>4. ASSUME SysYield(c) \/ TimerSwitch(c) \/ SysReturn(c)
      PROVE  Only(p, {"page_directory", "user_context"})
  <2>1. Busy(c) /\ p \in Proc
    BY <1>1, <1>4, BusyFacts DEF SysYield, TimerSwitch, SysReturn, User, Busy
  <2>2. pcb' = pcb \/ \E u, m : SwitchProcesses(c, pcb, u, m)
    BY <1>4 DEF SysYield, TimerSwitch, SysReturn
  <2> QED
    BY <1>3, <2>1, <2>2, SwitchPcb
<1>5. ASSUME SysJoin(c) \/ SysDown(c)
      PROVE  Only(p, {"page_directory", "user_context"})
  <2>1. p \in Proc /\ pcb[p] \in PCB
    BY <1>1, <1>5 DEF SysJoin, SysDown, User, Idle
  <2>2. pcb' = pcb \/ pcb' = [pcb EXCEPT ![p].user_context = Trapped(c)]
    BY <1>5 DEF SysJoin, SysDown
  <2>3. CASE pcb' = [pcb EXCEPT ![p].user_context = Trapped(c)]
    BY <1>1, <2>1, <2>3 DEF Only, PCB, Fields
  <2> QED
    BY <1>3, <2>1, <2>2, <2>3
<1>6. ASSUME SysExeclLoad(c)
      PROVE  Only(p, {"page_directory", "user_context"})
  <2> DEFINE P == [pcb EXCEPT ![p].page_directory = page_directory]
  <2>1. p \in Proc /\ pcb[p] \in PCB
    BY <1>1, <1>6 DEF SysExeclLoad, Idle
  <2>2. pcb' = P \/ pcb' = [P EXCEPT ![p].user_context = Trapped(c)]
    BY <1>6 DEF SysExeclLoad
  <2>3. /\ DOMAIN P = Proc /\ DOMAIN P[p] = Fields
        /\ \A q \in Proc : q # p => P[q] = pcb[q]
        /\ \A f \in Fields \ {"page_directory"} : P[p][f] = pcb[p][f]
    BY <1>1, <2>1 DEF PCB, Fields
  <2> HIDE DEF P, p
  <2>4. CASE pcb' = [P EXCEPT ![p].user_context = Trapped(c)]
    <3>1. \A q \in Proc : q # p => pcb'[q] = P[q]
      BY <2>3, <2>4
    <3>2. pcb'[p] = [P[p] EXCEPT !.user_context = Trapped(c)]
      BY <2>1, <2>3, <2>4
    <3>3. \A f \in Fields \ {"user_context"} : pcb'[p][f] = P[p][f]
      BY <2>3, <3>2 DEF Fields
    <3> QED
      BY <2>3, <3>1, <3>3 DEF Only
  <2> QED
    BY <2>2, <2>3, <2>4 DEF Only
<1>7. ASSUME SysSimpleSignal(c) PROVE Only(p, {"handler_eip"})
  <2>1. p \in Proc /\ pcb[p] \in PCB
    BY <1>1, <1>7 DEF SysSimpleSignal, User, Idle
  <2> QED
    BY <1>1, <1>7, <2>1 DEF SysSimpleSignal, Only, PCB, Fields
<1>8. ASSUME SysKill(c) \/ SysKillValue(c) PROVE Kept({"killed", "killed_v"})
  <2> DEFINE k == PeekChild(p)
  <2>1. \/ pcb' = pcb \/ pcb' = [pcb EXCEPT ![k].killed = TRUE]
        \/ \E v \in Value : pcb' = [pcb EXCEPT ![k].killed_v = v]
    BY <1>8 DEF SysKill, SysKillValue
  <2>2. \A q \in Proc : pcb[q] \in PCB
    BY <1>1
  <2> HIDE DEF k
  <2>3. CASE pcb' = [pcb EXCEPT ![k].killed = TRUE]
    BY <1>1, <2>2, <2>3 DEF Kept, PCB, Fields
  <2>4. ASSUME NEW v \in Value, pcb' = [pcb EXCEPT ![k].killed_v = v]
        PROVE  Kept({"killed", "killed_v"})
    BY <1>1, <2>2, <2>4 DEF Kept, PCB, Fields
  <2> QED
    BY <2>1, <2>3, <2>4 DEF Kept
<1>9. ASSUME SysSem(c) \/ SysSemClose(c) PROVE Only(p, {"semaphores"})
  <2>1. p \in Proc /\ pcb[p] \in PCB
    BY <1>1, <1>9 DEF SysSem, SysSemClose, User, Idle
  <2>2. pcb' = pcb \/ \E i, s : pcb' = [pcb EXCEPT ![p].semaphores[i] = s]
    BY <1>9 DEF SysSem, SysSemClose
  <2>3. ASSUME NEW i, NEW s, pcb' = [pcb EXCEPT ![p].semaphores[i] = s]
        PROVE  Only(p, {"semaphores"})
    BY <1>1, <2>1, <2>3 DEF Only, PCB, Fields
  <2> QED
    BY <1>3, <2>1, <2>2, <2>3
<1>10. ASSUME SysSigreturn(c) \/ Fault(c) \/ TimerKill(c)
       PROVE  Only(p, {"page_directory", "user_context", "in_handler",
                       "handler_user_context", "handled"})
  <2> DEFINE P == [pcb EXCEPT ![p].handled = TRUE]
  <2>1. Busy(c) /\ p \in Proc /\ pcb[p] \in PCB
    BY <1>1, <1>10, BusyFacts
       DEF SysSigreturn, Fault, FaultReturn, FaultSegv, TimerKill, User, Busy
  <2>2. \/ pcb' = pcb \/ pcb' = P \/ LeaveHandler(c)
        \/ pcb' = Handling(c, pcb) \/ pcb' = Handling(c, P)
    BY <1>10 DEF SysSigreturn, Fault, FaultReturn, FaultSegv, TimerKill, CallHandler,
       EnterHandler, Exit
  <2>3. CASE pcb' = P
    BY <1>1, <2>1, <2>3 DEF Only, PCB, Fields
  <2>4. CASE LeaveHandler(c)
    <3>1. Only(p, {"page_directory", "user_context", "in_handler"})
      BY <2>1, <2>4, SwitchPcb
    <3> QED
      BY <3>1 DEF Only
  <2>5. CASE pcb' = Handling(c, pcb) \/ pcb' = Handling(c, P)
    BY <2>1, <2>5, EnterPcb DEF Only
  <2> QED
    BY <1>3, <2>1, <2>2, <2>3, <2>4, <2>5
<1>11. ASSUME RunDown(c) PROVE Only(h, {"user_context"})
  <2>1. h \in Proc /\ pcb[h] \in PCB
    BY <1>1, <1>11 DEF RunDown, Next1
  <2>2. pcb' = [pcb EXCEPT ![h].user_context.eax = 0]
    BY <1>11 DEF RunDown
  <2> QED
    BY <1>1, <2>1, <2>2 DEF Only, PCB, Fields
<1>12. ASSUME RunJoin(c) PROVE Only(h, {"user_context", "children"})
  <2> DEFINE k == SubSeq(pcb[h].children, 1, Len(pcb[h].children) - 1)
             v == exit_value[Head(ready).child]
             r == [pcb[h] EXCEPT !.children = k, !.user_context.eax = v]
  <2>1. h \in Proc /\ pcb[h] \in PCB
    BY <1>1, <1>12 DEF RunJoin, Next1
  <2>2. pcb' = [pcb EXCEPT ![h] = r]
    BY <1>12 DEF RunJoin
  <2>3. \A f \in Fields \ {"user_context", "children"} : r[f] = pcb[h][f]
    BY <2>1 DEF PCB, Fields
  <2> HIDE DEF r, h
  <2>4. pcb'[h] = r /\ \A q \in Proc : q # h => pcb'[q] = pcb[q]
    BY <1>1, <2>1, <2>2
  <2> QED
    BY <2>3, <2>4 DEF Only
<1> QED
  BY <1>2, <1>4, <1>5, <1>6, <1>7, <1>8, <1>9, <1>10, <1>11, <1>12

(* fork: the parent has one child more, the child's PCB is new.             *)
Forked(c, p, child) ==
  /\ created' = created \cup {child} /\ p # child /\ Busy(c) /\ p \in Proc
  /\ \A q \in Proc : q # p /\ q # child => pcb'[q] = pcb[q]
  /\ \A f \in Fields \ {"children"} : pcb'[p][f] = pcb[p][f]
  /\ pcb'[p].children = Append(pcb[p].children, child)
  /\ pcb'[child].children = << >>
  /\ pcb'[child].semaphores = pcb[p].semaphores
  /\ pcb'[child].in_handler = pcb[p].in_handler
  /\ pcb'[child].handler_eip = pcb[p].handler_eip
  /\ pcb'[child].handler_user_context = pcb[p].handler_user_context
  /\ pcb'[child].page_directory = <<child, cr3[c][2]>>
  /\ ref' = [s \in Sem |-> ref[s] + Copies(pcb[p].semaphores, s)]
  /\ ready' = Append(ready, [Closure("fork", child) EXCEPT
                               !.ctx = [ctx[c] EXCEPT !.eax = 0]])

(* fork is Forked, for some process that did not exist.                     *)
LEMMA ForkPcb ==
  ASSUME KernelInv, NEW c \in Core, SysFork(c)
  PROVE  \E child \in Proc \ created :
           Forked(c, active[c], child)
<1> DEFINE p == active[c]
<1>1. Busy(c) /\ p \in Proc /\ p \in created /\ pcb[p] \in PCB /\ pcb \in [Proc -> PCB]
  BY Running DEF SysFork, User, Busy, Idle, KernelInv, PcbInv
<1>2. PICK child \in Proc \ created :
        /\ created' = created \cup {child}
        /\ pcb' = [pcb EXCEPT
             ![p].children = Append(@, child),
             ![child] = [NewPCB(ForkDirectory(c, child)) EXCEPT
                           !.semaphores = pcb[p].semaphores,
                           !.handler_eip = pcb[p].handler_eip,
                           !.in_handler = pcb[p].in_handler,
                           !.handler_user_context = pcb[p].handler_user_context]]
        /\ ref' = [s \in Sem |-> ref[s] + Copies(pcb[p].semaphores, s)]
        /\ ready' = Append(ready, [Closure("fork", child) EXCEPT
                                     !.ctx = [ctx[c] EXCEPT !.eax = 0]])
  BY DEF SysFork
<1> DEFINE r == [pcb[p] EXCEPT !.children = Append(pcb[p].children, child)]
           new == [NewPCB(ForkDirectory(c, child)) EXCEPT
                     !.semaphores = pcb[p].semaphores,
                     !.handler_eip = pcb[p].handler_eip,
                     !.in_handler = pcb[p].in_handler,
                     !.handler_user_context = pcb[p].handler_user_context]
<1>3. p # child
  BY <1>1
<1>4. pcb' = [pcb EXCEPT ![p] = r, ![child] = new]
  BY <1>2
<1>5. /\ new.children = << >>
      /\ new.semaphores = pcb[p].semaphores
      /\ new.in_handler = pcb[p].in_handler
      /\ new.handler_eip = pcb[p].handler_eip
      /\ new.handler_user_context = pcb[p].handler_user_context
      /\ new.page_directory = <<child, cr3[c][2]>>
  BY DEF NewPCB, ForkDirectory
<1>6. /\ \A f \in Fields \ {"children"} : r[f] = pcb[p][f]
      /\ r.children = Append(pcb[p].children, child)
  BY <1>1 DEF PCB, Fields
<1> HIDE DEF r, new, p
<1>7. pcb'[p] = r /\ pcb'[child] = new
        /\ \A q \in Proc : q # p /\ q # child => pcb'[q] = pcb[q]
  BY <1>1, <1>3, <1>4
<1>8. Forked(c, p, child)
  BY <1>1, <1>2, <1>3, <1>5, <1>6, <1>7 DEF Forked
<1> QED
  BY <1>8 DEF p

----------------------------------------------------------------------------
(* Storing a semaphore into the table.                                      *)
LEMMA SemaphoreStored ==
  ASSUME NEW Q, NEW S \in Semaphores(Q), NEW s \in Proc \cup Sem,
         NEW n \in Nat, NEW w \in Seq(Q)
  PROVE  /\ [S EXCEPT ![s].count = n] \in Semaphores(Q)
         /\ [S EXCEPT ![s].waiting = w] \in Semaphores(Q)
<1> DEFINE T == [count : Nat, waiting : Seq(Q)]
<1>1. S \in [Proc \cup Sem -> T] /\ S[s] \in T
  BY DEF Semaphores
<1>2. [S[s] EXCEPT !.count = n] \in T /\ [S[s] EXCEPT !.waiting = w] \in T
  BY <1>1
<1> HIDE DEF T
<1>3. /\ [S EXCEPT ![s] = [S[s] EXCEPT !.count = n]] \in [Proc \cup Sem -> T]
      /\ [S EXCEPT ![s] = [S[s] EXCEPT !.waiting = w]] \in [Proc \cup Sem -> T]
  BY <1>1, <1>2
<1>4. QED
  BY <1>3, Zenon DEF Semaphores, T

(* Semaphore::up on a queue of closures of a set Q yields closures of Q.    *)
LEMMA UpFacts ==
  ASSUME NEW Q, NEW S \in Semaphores(Q), NEW R \in Seq(Q), NEW s \in Proc \cup Sem
  PROVE  UpSem(S, s) \in Semaphores(Q) /\ UpReady(S, R, s) \in Seq(Q)
<1>1. S[s].waiting \in Seq(Q) /\ S[s].count \in Nat
  BY DEF Semaphores
<1>2. S[s].count + 1 \in Nat
  BY SMT, <1>1
<1>3. CASE S[s].waiting = << >>
  BY <1>2, <1>3, SemaphoreStored DEF UpSem, UpReady
<1>4. CASE S[s].waiting # << >>
  <2>1. Head(S[s].waiting) \in Q /\ Tail(S[s].waiting) \in Seq(Q)
    BY SMT, <1>1, <1>4
  <2>2. UpSem(S, s) \in Semaphores(Q)
    BY <1>4, <2>1, SemaphoreStored DEF UpSem
  <2>3. Append(R, Head(S[s].waiting)) \in Seq(Q)
    BY SMT, <2>1
  <2>4. QED
    BY <1>4, <2>2, <2>3 DEF UpReady
<1>5. QED
  BY <1>3, <1>4

(* So does Semaphore::down with a closure of Q.                             *)
LEMMA DownFacts ==
  ASSUME NEW Q, NEW S \in Semaphores(Q), NEW R \in Seq(Q), NEW s \in Proc \cup Sem,
         NEW e \in Q
  PROVE  DownSem(S, s, e) \in Semaphores(Q) /\ DownReady(S, R, s, e) \in Seq(Q)
<1>1. S[s].waiting \in Seq(Q) /\ S[s].count \in Nat
  BY DEF Semaphores
<1>2. Append(S[s].waiting, e) \in Seq(Q) /\ Append(R, e) \in Seq(Q)
  BY SMT, <1>1
<1>3. S[s].count > 0 => S[s].count - 1 \in Nat
  BY SMT, <1>1
<1>4. DownSem(S, s, e) \in Semaphores(Q)
  BY <1>2, <1>3, SemaphoreStored DEF DownSem
<1>5. QED
  BY <1>2, <1>4 DEF DownReady

(* A closure stays runnable as long as processes stay created and keep      *)
(* their saved registers.                                                   *)
LEMMA RunnableGrows ==
  ASSUME created \subseteq created',
         \A p \in created : pcb[p].user_context \in Context
                              => pcb'[p].user_context \in Context
  PROVE  /\ Runnable \subseteq Runnable'
         /\ Seq(Runnable) \subseteq Seq(Runnable')
         /\ Semaphores(Runnable) \subseteq Semaphores(Runnable')
<1>1. Runnable \subseteq Runnable'
  BY DEF Runnable
<1>2. QED
  BY <1>1, SeqGrows

(* A core that leaves its process, returns from a call, or enters user mode *)
(* keeps the invariant on cores.                                            *)
LEMMA LeaveFacts ==
  ASSUME CoreInv, created \subseteq created', NEW c \in Core, NEW m \in Idle,
         Leave(c, m)
  PROVE  CoreInv'
BY DEF CoreInv, Leave, Idle, Mode

(* The result of a system call goes into eax.                               *)
LEMMA ReturnFacts ==
  ASSUME CoreInv, created \subseteq created', NEW c \in Core, mode[c] \notin Idle,
         NEW v \in Int, Return(c, v)
  PROVE  CoreInv'
<1>1. [ctx[c] EXCEPT !.eax = v] \in Context
  BY DEF CoreInv, Context
<1>2. ctx' = [ctx EXCEPT ![c] = [ctx[c] EXCEPT !.eax = v]]
  BY DEF Return
<1>3. QED
  BY <1>1, <1>2 DEF CoreInv, Return, Mode, Idle

(* switchToUser and resume.                                                 *)
LEMMA ResumeFacts ==
  ASSUME CoreInv, created \in SUBSET Proc, created' = created, interrupts' = interrupts,
         NEW c \in Core, NEW p \in created, NEW d \in Directory, NEW u \in Context,
         Resume(c, p, d, u)
  PROVE  CoreInv'
BY DEF CoreInv, Resume, Mode

(* Closure makes a runnable closure of a process with saved registers.      *)
LEMMA ClosureFacts ==
  ASSUME NEW p \in created', created' \in SUBSET Proc
  PROVE  /\ \A k \in {"resume", "down"} : pcb'[p].user_context \in Context
                                            => Closure(k, p) \in Runnable'
         /\ \A child \in Proc : pcb'[p].user_context \in Context
              => [Closure("join", p) EXCEPT !.child = child] \in Runnable'
         /\ \A k \in {"fork", "execl"}, u \in Context :
              [Closure(k, p) EXCEPT !.ctx = u] \in Runnable'
BY DEF Closure, Runnable, Event

(* Storing one field of a PCB.                                              *)
LEMMA FieldStored ==
  ASSUME NEW r \in PCB
  PROVE  /\ \A d \in Directory : [r EXCEPT !.page_directory = d] \in PCB
         /\ \A u \in Context \cup {Null} : [r EXCEPT !.user_context = u] \in PCB
         /\ \A q \in Seq(Proc) : [r EXCEPT !.children = q] \in PCB
         /\ \A t \in [Slot -> Sem \cup {Null}] : [r EXCEPT !.semaphores = t] \in PCB
         /\ \A b \in BOOLEAN : [r EXCEPT !.in_handler = b] \in PCB
         /\ \A b \in BOOLEAN : [r EXCEPT !.handler_eip = b] \in PCB
         /\ \A u \in Context \cup {Null} : [r EXCEPT !.handler_user_context = u] \in PCB
         /\ \A b \in BOOLEAN : [r EXCEPT !.killed = b] \in PCB
         /\ \A v \in Nat : [r EXCEPT !.killed_v = v] \in PCB
         /\ \A b \in BOOLEAN : [r EXCEPT !.handled = b] \in PCB
BY DEF PCB

(* switch_processes, after an update P of the PCBs that leaves the saved    *)
(* registers alone.                                                         *)
LEMMA SwitchFacts ==
  ASSUME KernelInv, NEW c \in Core, mode[c] \notin Idle, NEW P \in [Proc -> PCB],
         \A p \in Proc : /\ P[p].user_context = pcb[p].user_context
                         /\ P[p].in_handler => P[p].handler_user_context \in Context,
         NEW u \in Context, NEW m \in Idle, SwitchProcesses(c, P, u, m)
  PROVE  KernelInv'
<1> DEFINE p == active[c]
<1>1. p \in created /\ p \in Proc /\ cr3[c] \in Directory
  BY DEF KernelInv, CoreInv, DataInv
<1>2. created' = created
  BY DEF SwitchProcesses, procVars
<1>3. pcb' = [P EXCEPT ![p] = [P[p] EXCEPT !.page_directory = cr3[c], !.user_context = u]]
  BY <1>1 DEF SwitchProcesses
<1>4. [P[p] EXCEPT !.page_directory = cr3[c], !.user_context = u] \in PCB
  <2>1. [P[p] EXCEPT !.page_directory = cr3[c]] \in PCB
    BY <1>1, FieldStored
  <2>2. QED
    BY <2>1, FieldStored
<1>5. PcbInv'
  BY SMT, <1>1, <1>3, <1>4 DEF PcbInv
<1>6. \A q \in Proc : pcb[q].user_context \in Context => pcb'[q].user_context \in Context
  BY SMT, <1>1, <1>3
<1>7. pcb'[p].user_context \in Context
  BY SMT, <1>1, <1>3
<1>8. Closure("resume", p) \in Runnable'
  BY <1>1, <1>2, <1>7, ClosureFacts DEF KernelInv, DataInv
<1>9. QueueInv'
  <2>1. sem' = sem /\ ready' = Append(ready, Closure("resume", p))
    BY DEF SwitchProcesses
  <2>2. sem \in Semaphores(Runnable') /\ ready \in Seq(Runnable')
    BY <1>2, <1>6, RunnableGrows DEF KernelInv, QueueInv, DataInv
  <2>3. QED
    BY SMT, <1>8, <2>1, <2>2 DEF QueueInv
<1>10. CoreInv'
  BY <1>2, LeaveFacts DEF KernelInv, SwitchProcesses
<1>11. DataInv'
  BY DEF KernelInv, DataInv, SwitchProcesses, procVars, semVars
<1>12. QED
  BY <1>5, <1>9, <1>10, <1>11 DEF KernelInv

(* exit.                                                                    *)
LEMMA ExitFacts ==
  ASSUME KernelInv, NEW c \in Core, mode[c] \notin Idle, NEW P \in [Proc -> PCB],
         \A p \in Proc : /\ P[p].user_context = pcb[p].user_context
                         /\ P[p].in_handler => P[p].handler_user_context \in Context,
         NEW v \in Nat, NEW m \in Idle, Exit(c, P, v, m)
  PROVE  KernelInv'
<1> DEFINE p == active[c]
<1>1. p \in created /\ p \in Proc /\ cr3[c] \in Directory
  BY DEF KernelInv, CoreInv, DataInv
<1>2. created' = created /\ pcb' = P
  BY DEF Exit
<1>3. PcbInv'
  BY <1>2 DEF PcbInv
<1>4. QueueInv'
  <2>1. sem \in Semaphores(Runnable') /\ ready \in Seq(Runnable')
    BY <1>2, RunnableGrows DEF KernelInv, QueueInv, DataInv
  <2>2. sem' = UpSem(sem, p) /\ ready' = UpReady(sem, ready, p)
    BY DEF Exit
  <2>3. QED
    BY <1>1, <2>1, <2>2, UpFacts DEF QueueInv
<1>5. CoreInv'
  BY <1>2, LeaveFacts DEF KernelInv, Exit
<1>6. DataInv'
  BY SMT, <1>1 DEF KernelInv, DataInv, Exit, semVars
<1>7. QED
  BY <1>3, <1>4, <1>5, <1>6 DEF KernelInv

(* Updating one PCB.                                                        *)
LEMMA StoreFacts ==
  ASSUME PcbInv, NEW p \in Proc, NEW r \in PCB, pcb' = [pcb EXCEPT ![p] = r],
         r.in_handler => r.handler_user_context \in Context,
         pcb[p].user_context \in Context => r.user_context \in Context
  PROVE  /\ PcbInv'
         /\ pcb'[p] = r
         /\ \A q \in Proc : pcb[q].user_context \in Context
                              => pcb'[q].user_context \in Context
BY DEF PcbInv

(* Queues that a step does not touch stay runnable.                         *)
LEMMA QueueKept ==
  ASSUME QueueInv, created \in SUBSET Proc, created \subseteq created',
         \A q \in Proc : pcb[q].user_context \in Context
                          => pcb'[q].user_context \in Context
  PROVE  sem \in Semaphores(Runnable') /\ ready \in Seq(Runnable')
BY RunnableGrows DEF QueueInv

(* A call that changes only one PCB, and neither its saved registers nor    *)
(* its handler's, keeps the invariant.                                      *)
LEMMA FieldStep ==
  ASSUME KernelInv, NEW p \in Proc, NEW r \in PCB, pcb' = [pcb EXCEPT ![p] = r],
         r.in_handler = pcb[p].in_handler,
         r.handler_user_context = pcb[p].handler_user_context,
         r.user_context = pcb[p].user_context,
         UNCHANGED <<sem, ready, procVars>>, DataInv', CoreInv'
  PROVE  KernelInv'
<1>1. PcbInv' /\ \A q \in Proc : pcb[q].user_context \in Context
                                  => pcb'[q].user_context \in Context
  BY StoreFacts DEF KernelInv, PcbInv
<1>2. QueueInv'
  BY <1>1, QueueKept DEF KernelInv, QueueInv, DataInv, procVars
<1>3. QED
  BY <1>1, <1>2 DEF KernelInv

(* The initial state.                                                       *)
LEMMA KernelInit == Init => KernelInv
<1> SUFFICES ASSUME Init PROVE KernelInv
  OBVIOUS
<1> USE KernelAssumption
<1>1. \A p \in Proc : NewPCB(<<p, 0>>) \in PCB /\ ~NewPCB(<<p, 0>>).in_handler
  BY SMT DEF NewPCB, PCB, Directory
<1>2. PcbInv
  BY <1>1 DEF Init, PcbInv
<1>3. DataInv
  BY SMT DEF Init, DataInv, Directory
<1>4. QueueInv
  BY SMT DEF Init, QueueInv, Semaphores
<1>5. CoreInv
  BY SMT DEF Init, CoreInv, Mode, Idle, Directory, Context
<1>6. QED
  BY <1>2, <1>3, <1>4, <1>5 DEF KernelInv

(* The closures run by event_loop.                                          *)
LEMMA EventLoopStep ==
  ASSUME KernelInv, NEW c \in Core, EventLoop(c)
  PROVE  KernelInv'
<1> DEFINE e == Head(ready)
           p == e.pcb
<1>1. ready # << >>
  BY DEF EventLoop, RunResume, RunDown, RunJoin, RunStart, Next1
<1>2. /\ e \in Runnable /\ Tail(ready) \in Seq(Runnable) /\ p \in created /\ p \in Proc
      /\ pcb[p] \in PCB /\ pcb[p].page_directory \in Directory
  BY <1>1, HeadFacts
<1>3. UNCHANGED <<procVars, semVars, interrupts>>
  BY DEF EventLoop, RunResume, RunDown, RunJoin, RunStart
<1>4. DataInv' /\ created' = created /\ interrupts' = interrupts
  BY <1>3 DEF KernelInv, DataInv, procVars, semVars
<1>5. /\ e.kind \in {"resume", "down", "join"} => pcb[p].user_context \in Context
      /\ e.kind \in {"fork", "execl"} => e.ctx \in Context
      /\ e.kind = "join" => e.child \in Proc
  BY <1>2 DEF Runnable
<1> HIDE DEF e, p
<1>6. CASE pcb' = pcb /\ sem' = sem /\ ready' = Tail(ready) /\ CoreInv'
  <2>1. PcbInv' /\ Runnable' = Runnable
    BY <1>4, <1>6 DEF KernelInv, PcbInv, Runnable
  <2>2. QueueInv'
    BY <1>2, <1>6, <2>1 DEF KernelInv, QueueInv
  <2>3. QED
    BY <1>4, <1>6, <2>1, <2>2 DEF KernelInv
<1>7. CASE RunResume(c)
  <2>1. Resume(c, p, pcb[p].page_directory, pcb[p].user_context) /\ e.kind = "resume"
    BY <1>7 DEF RunResume, Next1, e, p
  <2>2. CoreInv'
    BY <1>2, <1>4, <1>5, <2>1, ResumeFacts DEF KernelInv, DataInv
  <2>3. QED
    BY <1>6, <1>7, <2>2 DEF RunResume
<1>8. CASE RunStart(c)
  <2>1. Resume(c, p, pcb[p].page_directory, e.ctx) /\ e.kind \in {"fork", "execl"}
    BY <1>8 DEF RunStart, Next1, e, p
  <2>2. CoreInv'
    BY <1>2, <1>4, <1>5, <2>1, ResumeFacts DEF KernelInv, DataInv
  <2>3. QED
    BY <1>6, <1>8, <2>2 DEF RunStart
<1>9. CASE RunDown(c)
  <2> DEFINE u == [pcb[p].user_context EXCEPT !.eax = 0]
             r == [pcb[p] EXCEPT !.user_context = u]
  <2>1. /\ pcb' = [pcb EXCEPT ![p] = r] /\ e.kind = "down"
        /\ Resume(c, p, pcb[p].page_directory, pcb'[p].user_context)
        /\ sem' = sem /\ ready' = Tail(ready)
    BY <1>9 DEF RunDown, Next1, e, p
  <2>2. r \in PCB /\ r.user_context \in Context /\ r.in_handler = pcb[p].in_handler
        /\ r.handler_user_context = pcb[p].handler_user_context
    <3>1. u \in Context
      BY SMT, <1>5, <2>1 DEF Context
    <3>2. r \in PCB
      BY <1>2, <3>1, FieldStored
    <3>3. QED
      BY <1>2, <3>1, <3>2 DEF PCB
  <2>3. PcbInv' /\ pcb'[p] = r
        /\ \A q \in Proc : pcb[q].user_context \in Context => pcb'[q].user_context \in Context
    <3> HIDE DEF r
    <3> QED  BY <1>2, <2>1, <2>2, StoreFacts DEF KernelInv, PcbInv
  <2>4. CoreInv'
    BY <1>2, <1>4, <2>1, <2>2, <2>3, ResumeFacts DEF KernelInv, DataInv
  <2>5. QueueInv'
    <3>1. Seq(Runnable) \subseteq Seq(Runnable') /\ Semaphores(Runnable) \subseteq Semaphores(Runnable')
      BY <1>4, <2>3, RunnableGrows DEF KernelInv, DataInv
    <3>2. QED
      BY <1>2, <2>1, <3>1 DEF KernelInv, QueueInv
  <2>6. QED
    BY <1>4, <2>3, <2>4, <2>5 DEF KernelInv
<1>10. CASE RunJoin(c)
  <2> DEFINE child == e.child
             kids == SubSeq(pcb[p].children, 1, Len(pcb[p].children) - 1)
             u == [pcb[p].user_context EXCEPT !.eax = exit_value[child]]
             r == [pcb[p] EXCEPT !.children = kids, !.user_context = u]
  <2>1. /\ pcb' = [pcb EXCEPT ![p].children = kids, ![p].user_context.eax = exit_value[child]]
        /\ e.kind = "join"
        /\ Resume(c, p, pcb[p].page_directory, pcb'[p].user_context)
        /\ sem' = UpSem(sem, child) /\ ready' = UpReady(sem, Tail(ready), child)
    BY <1>10 DEF RunJoin, Next1, e, p
  <2>2. u \in Context /\ kids \in Seq(Proc)
    <3>1. child \in Proc /\ exit_value[child] \in Int
      BY SMT, <1>5, <2>1 DEF KernelInv, DataInv
    <3>2. u \in Context
      BY <1>5, <2>1, <3>1 DEF Context
    <3>3. pcb[p].children \in Seq(Proc)
      BY <1>2 DEF PCB
    <3>4. QED
      BY SMT, <3>2, <3>3
  <2>3. r \in PCB /\ r.user_context = u /\ r.in_handler = pcb[p].in_handler
        /\ r.handler_user_context = pcb[p].handler_user_context
    <3>1. [pcb[p] EXCEPT !.children = kids] \in PCB
      BY <1>2, <2>2, FieldStored
    <3>2. r \in PCB
      BY <2>2, <3>1, FieldStored
    <3>3. QED
      BY <1>2, <3>2 DEF PCB
  <2>4. pcb' = [pcb EXCEPT ![p] = r]
    BY <1>2, <2>1 DEF KernelInv, PcbInv
  <2>5. PcbInv' /\ pcb'[p] = r
        /\ \A q \in Proc : pcb[q].user_context \in Context => pcb'[q].user_context \in Context
    <3> HIDE DEF r, u
    <3> QED  BY <1>2, <2>2, <2>3, <2>4, StoreFacts DEF KernelInv, PcbInv
  <2>6. CoreInv'
    <3> HIDE DEF r, u
    <3> QED  BY <1>2, <1>4, <2>1, <2>2, <2>3, <2>5, ResumeFacts DEF KernelInv, DataInv
  <2>7. QueueInv'
    <3>1. Seq(Runnable) \subseteq Seq(Runnable') /\ Semaphores(Runnable) \subseteq Semaphores(Runnable')
      BY <1>4, <2>5, RunnableGrows DEF KernelInv, DataInv
    <3>2. child \in Proc \cup Sem
      BY <1>5, <2>1
    <3>3. QED
      BY <1>2, <2>1, <3>1, <3>2, UpFacts DEF KernelInv, QueueInv
  <2>8. QED
    BY <1>4, <2>5, <2>6, <2>7 DEF KernelInv
<1>11. QED
  BY <1>7, <1>8, <1>9, <1>10 DEF EventLoop

(* exit, yield, and the return from a system call.                          *)
LEMMA SwitchStep ==
  ASSUME KernelInv, NEW c \in Core, SysExit(c) \/ SysYield(c) \/ SysReturn(c)
  PROVE  KernelInv'
<1>1. mode[c] \notin Idle
  BY DEF SysExit, SysYield, SysReturn, User, Idle
<1>2. ctx[c] \in Context /\ Trapped(c) \in Context
  BY <1>1, Running
<1>3. pcb \in [Proc -> PCB] /\ \A p \in Proc : pcb[p].in_handler => pcb[p].handler_user_context \in Context
  BY DEF KernelInv, PcbInv
<1>4. "loop" \in Idle
  BY DEF Idle
<1>5. CASE SysExit(c)
  <2>1. PICK v \in Value : Exit(c, pcb, v, "loop")
    BY <1>5 DEF SysExit
  <2>2. v \in Nat
    BY KernelAssumption
  <2>3. QED
    BY <1>1, <1>3, <1>4, <2>1, <2>2, ExitFacts
<1>6. CASE SysYield(c)
  BY <1>1, <1>2, <1>3, <1>4, <1>6, SwitchFacts DEF SysYield
<1>7. CASE SysReturn(c)
  <2>1. CASE interrupts[c]
    BY <1>1, <1>2, <1>3, <1>4, <1>7, <2>1, SwitchFacts DEF SysReturn
  <2>2. CASE ~interrupts[c]
    <3>1. /\ mode' = [mode EXCEPT ![c] = "user"]
          /\ UNCHANGED <<pcb, sem, ready, procVars, semVars, active, cr3, interrupts, ctx>>
      BY <1>7, <2>2 DEF SysReturn
    <3>2. PcbInv' /\ DataInv' /\ Runnable' = Runnable
      BY <3>1 DEF KernelInv, PcbInv, DataInv, Runnable, procVars, semVars
    <3>3. QueueInv'
      BY <3>1, <3>2 DEF KernelInv, QueueInv
    <3>4. CoreInv'
      BY <1>1, <3>1 DEF KernelInv, CoreInv, Mode, procVars
    <3>5. QED
      BY <3>2, <3>3, <3>4 DEF KernelInv
  <2>3. QED
    BY <2>1, <2>2
<1>8. QED
  BY <1>5, <1>6, <1>7

(* fork: the child is new, so no closure refers to it yet.  The last        *)
(* assumption, on what it adds to the reference counts, is CopiesFacts of   *)
(* KernelTheorems.                                                          *)
LEMMA ForkStep ==
  ASSUME KernelInv, NEW c \in Core, SysFork(c),
         \A semaphores : \A s \in Sem : Copies(semaphores, s) \in Nat
  PROVE  KernelInv'
<1> DEFINE p == active[c]
           parent == pcb[p]
<1>1. mode[c] = "user" /\ mode[c] \notin Idle
  BY DEF SysFork, User, Idle
<1>2. PICK child \in Proc \ created :
        /\ created' = created \cup {child}
        /\ pcb' = [pcb EXCEPT
             ![p].children = Append(@, child),
             ![child] = [NewPCB(ForkDirectory(c, child)) EXCEPT
                           !.semaphores = parent.semaphores,
                           !.handler_eip = parent.handler_eip,
                           !.in_handler = parent.in_handler,
                           !.handler_user_context = parent.handler_user_context]]
        /\ ref' = [s \in Sem |-> ref[s] + Copies(parent.semaphores, s)]
        /\ ready' = Append(ready, [Closure("fork", child) EXCEPT
                                     !.ctx = [ctx[c] EXCEPT !.eax = 0]])
  BY DEF SysFork
<1>3. UNCHANGED <<sem, exit_value, exits, freed, page_directory, made>> /\ Return(c, 1)
  BY DEF SysFork
<1>4. /\ p \in created /\ p \in Proc /\ ctx[c] \in Context /\ parent \in PCB
      /\ cr3[c][2] \in 0 .. MaxImage
      /\ parent.in_handler => parent.handler_user_context \in Context
  BY <1>1, Running
<1>5. p # child /\ created \subseteq created' /\ created' \in SUBSET Proc
  BY <1>2, <1>4 DEF KernelInv, DataInv
<1> DEFINE new == NewPCB(ForkDirectory(c, child))
           r == [new EXCEPT !.semaphores = parent.semaphores,
                            !.handler_eip = parent.handler_eip,
                            !.in_handler = parent.in_handler,
                            !.handler_user_context = parent.handler_user_context]
           t == [parent EXCEPT !.children = Append(parent.children, child)]
<1>6. new \in PCB
  BY SMT, <1>4, KernelAssumption DEF NewPCB, PCB, ForkDirectory, Directory
<1>7. /\ parent.semaphores \in [Slot -> Sem \cup {Null}] /\ parent.handler_eip \in BOOLEAN
      /\ parent.in_handler \in BOOLEAN /\ parent.handler_user_context \in Context \cup {Null}
      /\ parent.children \in Seq(Proc)
  BY <1>4 DEF PCB
<1>8. r \in PCB /\ (r.in_handler => r.handler_user_context \in Context)
  <2> HIDE DEF new, parent
  <2> DEFINE r1 == [new EXCEPT !.semaphores = parent.semaphores]
             r2 == [r1 EXCEPT !.handler_eip = parent.handler_eip]
             r3 == [r2 EXCEPT !.in_handler = parent.in_handler]
  <2>1. r1 \in PCB
    BY <1>6, <1>7, FieldStored
  <2>2. r2 \in PCB
    <3> HIDE DEF r1
    <3> QED  BY <1>7, <2>1, FieldStored
  <2>3. r3 \in PCB
    <3> HIDE DEF r2
    <3> QED  BY <1>7, <2>2, FieldStored
  <2>4. r = [r3 EXCEPT !.handler_user_context = parent.handler_user_context]
    OBVIOUS
  <2>5. r3.in_handler = parent.in_handler
    <3> HIDE DEF r2
    <3> QED  BY <2>2 DEF PCB
  <2> HIDE DEF r3, r
  <2>6. r \in PCB
    BY <1>7, <2>3, <2>4, FieldStored
  <2>7. r.in_handler = parent.in_handler /\ r.handler_user_context = parent.handler_user_context
    BY <2>3, <2>4, <2>5 DEF PCB
  <2>8. QED
    BY <1>4, <2>6, <2>7
<1>9. t \in PCB /\ t.in_handler = parent.in_handler /\ t.user_context = parent.user_context
      /\ t.handler_user_context = parent.handler_user_context
  <2>1. Append(parent.children, child) \in Seq(Proc)
    BY SMT, <1>7
  <2>2. t \in PCB
    BY <1>4, <2>1, FieldStored
  <2>3. QED
    BY <1>4, <2>2 DEF PCB
<1>10. pcb' = [[pcb EXCEPT ![p] = t] EXCEPT ![child] = r]
  BY <1>2
<1> HIDE DEF r, t, parent, new
<1>11. PcbInv'
  BY <1>4, <1>5, <1>8, <1>9, <1>10 DEF KernelInv, PcbInv, parent
<1>12. \A q \in created : pcb[q].user_context \in Context => pcb'[q].user_context \in Context
  BY <1>2, <1>4, <1>5, <1>9, <1>10 DEF KernelInv, PcbInv, DataInv, parent
<1>13. sem \in Semaphores(Runnable') /\ ready \in Seq(Runnable')
  BY <1>5, <1>12, RunnableGrows DEF KernelInv, QueueInv
<1>14. [Closure("fork", child) EXCEPT !.ctx = [ctx[c] EXCEPT !.eax = 0]] \in Runnable'
  <2>1. [ctx[c] EXCEPT !.eax = 0] \in Context
    BY SMT, <1>4 DEF Context
  <2>2. child \in created'
    BY <1>2
  <2>3. QED
    BY <1>5, <2>1, <2>2, ClosureFacts
<1>15. QueueInv'
  BY SMT, <1>2, <1>3, <1>13, <1>14 DEF QueueInv
<1>16. CoreInv'
  BY SMT, <1>1, <1>3, <1>5, ReturnFacts DEF KernelInv
<1>17. DataInv'
  <2>1. ref' \in [Sem -> Int]
    <3>1. \A s \in Sem : Copies(parent.semaphores, s) \in Nat
      OBVIOUS
    <3>2. QED
      BY SMT, <1>2, <3>1 DEF KernelInv, DataInv
  <2>2. QED
    BY <1>3, <1>5, <2>1 DEF KernelInv, DataInv
<1>18. QED
  BY <1>11, <1>15, <1>16, <1>17 DEF KernelInv

(* join, and down: the closure is published with the registers saved.       *)
LEMMA BlockStep ==
  ASSUME KernelInv, NEW c \in Core, SysJoin(c) \/ SysDown(c)
  PROVE  KernelInv'
<1> DEFINE p == active[c]
           r == [pcb[p] EXCEPT !.user_context = Trapped(c)]
<1>1. mode[c] \notin Idle
  BY DEF SysJoin, SysDown, User, Idle
<1>2. p \in created /\ p \in Proc /\ pcb[p] \in PCB /\ Trapped(c) \in Context
  BY <1>1, Running
<1>3. UNCHANGED <<procVars, made>> /\ created' = created /\ created' \in SUBSET Proc
  BY DEF SysJoin, SysDown, procVars, semVars, KernelInv, DataInv
<1>4. r \in PCB /\ r.user_context = Trapped(c) /\ r.in_handler = pcb[p].in_handler
      /\ r.handler_user_context = pcb[p].handler_user_context
  <2>1. r \in PCB
    BY <1>2, FieldStored
  <2>2. QED
    BY <1>2, <2>1 DEF PCB
<1> HIDE DEF r
<1>5. ASSUME pcb' = [pcb EXCEPT ![p] = r]
      PROVE  /\ PcbInv' /\ pcb'[p].user_context \in Context
             /\ sem \in Semaphores(Runnable') /\ ready \in Seq(Runnable')
  <2>1. PcbInv' /\ pcb'[p] = r
        /\ \A q \in Proc : pcb[q].user_context \in Context => pcb'[q].user_context \in Context
    BY <1>2, <1>4, <1>5, StoreFacts DEF KernelInv, PcbInv
  <2>2. QED
    BY <1>2, <1>3, <1>4, <2>1, QueueKept DEF KernelInv
<1>6. "loop" \in Idle /\ -1 \in Int /\ created \subseteq created' /\ CoreInv
  BY SMT, <1>3 DEF Idle, KernelInv
<1>7. CASE SysJoin(c)
  <2>1. pcb' = [pcb EXCEPT ![p] = r] /\ UNCHANGED semVars
    BY <1>7 DEF SysJoin, r
  <2>2. DataInv'
    BY <1>3, <2>1 DEF KernelInv, DataInv, procVars, semVars
  <2>3. CASE pcb[p].children = << >>
    <3>1. Return(c, -1) /\ sem' = sem /\ ready' = ready
      BY <1>7, <2>3 DEF SysJoin
    <3>2. CoreInv'
      BY <1>1, <1>6, <3>1, ReturnFacts
    <3>3. QED
      BY <1>5, <2>1, <2>2, <3>1, <3>2 DEF KernelInv, QueueInv
  <2>4. CASE pcb[p].children # << >>
    <3> DEFINE child == PeekChild(p)
               e == [Closure("join", p) EXCEPT !.child = child]
    <3>1. Leave(c, "loop") /\ sem' = DownSem(sem, child, e) /\ ready' = DownReady(sem, ready, child, e)
      BY <1>7, <2>4 DEF SysJoin
    <3>2. child \in Proc
      <4>1. pcb[p].children \in Seq(Proc)
        BY <1>2 DEF PCB
      <4>2. QED
        BY SMT, <2>4, <4>1 DEF PeekChild
    <3>3. e \in Runnable'
      <4> HIDE DEF child
      <4> QED  BY <1>2, <1>3, <1>5, <2>1, <3>2, ClosureFacts
    <3> HIDE DEF child, e
    <3>4. QueueInv'
      BY <1>5, <2>1, <3>1, <3>2, <3>3, DownFacts DEF QueueInv
    <3>5. CoreInv'
      BY <1>6, <3>1, LeaveFacts
    <3>6. QED
      BY <1>5, <2>1, <2>2, <3>4, <3>5 DEF KernelInv
  <2>5. QED
    BY <2>3, <2>4
<1>8. CASE SysDown(c)
  <2>1. PICK i \in Slot :
          LET s == pcb[p].semaphores[i] IN
          \/ s = Null /\ Return(c, -1) /\ UNCHANGED <<pcb, sem, ready, ref>>
          \/ /\ s # Null
             /\ ref' = [ref EXCEPT ![s] = @ + 1]
             /\ pcb' = [pcb EXCEPT ![p] = r]
             /\ sem' = DownSem(sem, s, Closure("down", p))
             /\ ready' = DownReady(sem, ready, s, Closure("down", p))
             /\ Leave(c, "loop")
    BY <1>8 DEF SysDown, r
  <2> DEFINE s == pcb[p].semaphores[i]
  <2>2. s \in Sem \cup {Null}
    BY <1>2 DEF PCB
  <2>3. CASE s = Null /\ Return(c, -1) /\ UNCHANGED <<pcb, sem, ready, ref>>
    <3>1. CoreInv'
      BY <1>1, <1>6, <2>3, ReturnFacts
    <3>2. PcbInv' /\ DataInv' /\ Runnable' = Runnable
      BY <1>3, <2>3 DEF KernelInv, PcbInv, DataInv, Runnable, procVars
    <3>3. QED
      BY <2>3, <3>1, <3>2 DEF KernelInv, QueueInv
  <2>4. CASE /\ s # Null
             /\ ref' = [ref EXCEPT ![s] = @ + 1]
             /\ pcb' = [pcb EXCEPT ![p] = r]
             /\ sem' = DownSem(sem, s, Closure("down", p))
             /\ ready' = DownReady(sem, ready, s, Closure("down", p))
             /\ Leave(c, "loop")
    <3>1. s \in Sem
      BY <2>2, <2>4
    <3> HIDE DEF s
    <3>2. Closure("down", p) \in Runnable'
      BY <1>2, <1>3, <1>5, <2>4, ClosureFacts
    <3>3. QueueInv'
      BY <1>5, <2>4, <3>1, <3>2, DownFacts DEF QueueInv
    <3>4. CoreInv'
      BY <1>6, <2>4, LeaveFacts
    <3>5. DataInv'
      BY SMT, <1>3, <2>4, <3>1 DEF KernelInv, DataInv, procVars
    <3>6. QED
      BY <1>5, <2>4, <3>3, <3>4, <3>5 DEF KernelInv
  <2>5. QED
    BY <2>1, <2>3, <2>4
<1>9. QED
  BY <1>7, <1>8

(* A step that leaves the PCBs and the queues alone.                        *)
LEMMA RestKept ==
  ASSUME KernelInv, UNCHANGED <<pcb, sem, ready, created>>, DataInv', CoreInv'
  PROVE  KernelInv'
<1>1. PcbInv' /\ Runnable' = Runnable
  BY DEF KernelInv, PcbInv, Runnable
<1>2. QED
  BY <1>1 DEF KernelInv, QueueInv

(* A call that fails returns -1 and changes nothing else.                   *)
LEMMA FailStep ==
  ASSUME KernelInv, NEW c \in Core, mode[c] \notin Idle, Return(c, -1),
         UNCHANGED <<pcb, sem, ready, procVars, semVars>>
  PROVE  KernelInv'
<1>1. created' = created /\ DataInv'
  BY DEF KernelInv, DataInv, procVars, semVars
<1>2. CoreInv'
  BY SMT, <1>1, ReturnFacts DEF KernelInv
<1>3. QED
  BY <1>1, <1>2, RestKept

(* A call with a bad argument is about to fault.                            *)
LEMMA BadPointerStep ==
  ASSUME KernelInv, NEW c \in Core, SysBadPointer(c)
  PROVE  KernelInv'
<1>1. /\ mode[c] = "user" /\ mode' = [mode EXCEPT ![c] = "fault"]
      /\ UNCHANGED <<pcb, sem, ready, procVars, semVars, active, cr3, interrupts, ctx>>
  BY DEF SysBadPointer, User
<1>2. DataInv' /\ created' = created
  BY <1>1 DEF KernelInv, DataInv, procVars, semVars
<1>3. CoreInv'
  BY <1>1, <1>2 DEF KernelInv, CoreInv, Mode, Idle
<1> QED
  BY <1>1, <1>2, <1>3, RestKept

(* execl, up to per_core_init and from there on.                            *)
LEMMA ExeclStep ==
  ASSUME KernelInv, NEW c \in Core, SysExecl(c) \/ SysExeclLoad(c)
  PROVE  KernelInv'
<1> DEFINE p == active[c]
<1>1. mode[c] \notin Idle
  BY DEF SysExecl, SysExeclLoad, User, Idle
<1>2. /\ p \in created /\ p \in Proc /\ pcb[p] \in PCB /\ Trapped(c) \in Context
      /\ cr3[c] \in Directory /\ cr3[c][2] \in 0 .. MaxImage
  BY <1>1, Running
<1>3. CASE SysExecl(c)
  <2>1. CASE Return(c, -1) /\ UNCHANGED <<pcb, sem, ready, procVars, semVars>>
    BY <1>1, <2>1, FailStep
  <2>2. CASE /\ cr3[c][2] < MaxImage
             /\ freed' = freed \cup {cr3[c]}
             /\ page_directory' = <<p, cr3[c][2] + 1>>
             /\ mode' = [mode EXCEPT ![c] = "execl"]
             /\ UNCHANGED <<pcb, sem, ready, created, exit_value, exits, semVars,
                            active, cr3, interrupts, ctx>>
    <3>1. <<p, cr3[c][2] + 1>> \in Directory
      <4>1. cr3[c][2] + 1 \in 0 .. MaxImage
        BY SMT, <1>2, <2>2, KernelAssumption
      <4>2. QED
        BY <1>2, <4>1 DEF Directory
    <3>2. DataInv'
      BY <1>2, <2>2, <3>1 DEF KernelInv, DataInv, semVars
    <3>3. CoreInv'
      BY <1>1, <2>2 DEF KernelInv, CoreInv, Mode
    <3>4. QED
      BY <2>2, <3>2, <3>3, RestKept
  <2>3. QED
    BY <1>3, <2>1, <2>2 DEF SysExecl
<1>4. CASE SysExeclLoad(c)
  <2> DEFINE start == [image |-> cr3[c][2] + 1, pos |-> "main", eax |-> 0]
             r == [pcb[p] EXCEPT !.page_directory = page_directory]
             t == [r EXCEPT !.user_context = Trapped(c)]
  <2>1. mode[c] = "execl" /\ cr3' = [cr3 EXCEPT ![c] = page_directory]
        /\ UNCHANGED <<sem, procVars, semVars, active>>
    BY <1>4 DEF SysExeclLoad
  <2>2. created' = created /\ created' \in SUBSET Proc /\ DataInv' /\ page_directory \in Directory
    BY <2>1 DEF KernelInv, DataInv, procVars, semVars
  <2>3. start \in Context
    <3>1. cr3[c][2] < MaxImage
      BY <1>1, <2>1 DEF KernelInv, CoreInv
    <3>2. QED
      BY SMT, <1>2, <3>1, KernelAssumption DEF Context
  <2>4. r \in PCB /\ r.user_context = pcb[p].user_context /\ r.in_handler = pcb[p].in_handler
        /\ r.handler_user_context = pcb[p].handler_user_context
    <3>1. r \in PCB
      BY <1>2, <2>2, FieldStored
    <3>2. QED
      BY <1>2, <3>1 DEF PCB
  <2>5. t \in PCB /\ t.user_context = Trapped(c) /\ t.in_handler = r.in_handler
        /\ t.handler_user_context = r.handler_user_context
    <3> HIDE DEF r
    <3>1. t \in PCB
      BY <1>2, <2>4, FieldStored
    <3>2. QED
      BY <2>4, <3>1 DEF PCB
  <2>6. pcb[p].in_handler => pcb[p].handler_user_context \in Context
    BY <1>1, Running
  <2>7. CASE interrupts[c]
    <3>1. /\ pcb' = [[pcb EXCEPT ![p] = r] EXCEPT ![p] = [[pcb EXCEPT ![p] = r][p] EXCEPT !.user_context = Trapped(c)]]
          /\ ready' = Append(ready, [Closure("execl", p) EXCEPT !.ctx = start])
          /\ interrupts' = [interrupts EXCEPT ![c] = FALSE]
          /\ mode' = [mode EXCEPT ![c] = "loop"] /\ ctx' = ctx
      BY <1>4, <2>7 DEF SysExeclLoad, ExeclClosure
    <3>2. pcb' = [pcb EXCEPT ![p] = t]
      BY <1>2, <3>1 DEF KernelInv, PcbInv
    <3> HIDE DEF r, t, start
    <3>3. PcbInv' /\ \A q \in Proc : pcb[q].user_context \in Context => pcb'[q].user_context \in Context
      BY <1>2, <2>4, <2>5, <2>6, <3>2, StoreFacts DEF KernelInv
    <3>4. sem \in Semaphores(Runnable') /\ ready \in Seq(Runnable')
      BY <2>2, <3>3, QueueKept DEF KernelInv
    <3>5. [Closure("execl", p) EXCEPT !.ctx = start] \in Runnable'
      BY <1>2, <2>2, <2>3, ClosureFacts
    <3>6. QueueInv'
      BY SMT, <2>1, <3>1, <3>4, <3>5 DEF QueueInv
    <3>7. CoreInv'
      BY <1>1, <2>1, <2>2, <3>1 DEF KernelInv, CoreInv, Mode, Idle
    <3>8. QED
      BY <2>2, <3>3, <3>6, <3>7 DEF KernelInv
  <2>8. CASE ~interrupts[c]
    <3>1. /\ pcb' = [pcb EXCEPT ![p] = r] /\ ctx' = [ctx EXCEPT ![c] = start]
          /\ mode' = [mode EXCEPT ![c] = "user"] /\ UNCHANGED <<ready, interrupts>>
      BY <1>4, <2>8 DEF SysExeclLoad
    <3> HIDE DEF r, start
    <3>2. CoreInv'
      BY <1>1, <1>2, <2>1, <2>2, <2>3, <3>1 DEF KernelInv, CoreInv, Mode, Idle
    <3>3. QED
      BY <1>2, <2>1, <2>2, <2>4, <3>1, <3>2, FieldStep
  <2>9. QED
    BY <2>7, <2>8
<1>5. QED
  BY <1>3, <1>4

(* sem, up and sem_close.                                                   *)
LEMMA SemStep ==
  ASSUME KernelInv, NEW c \in Core, SysSem(c) \/ SysUp(c) \/ SysSemClose(c)
  PROVE  KernelInv'
<1> DEFINE p == active[c]
<1>1. mode[c] \notin Idle
  BY DEF SysSem, SysUp, SysSemClose, User, Idle
<1>2. p \in created /\ p \in Proc /\ pcb[p] \in PCB /\ pcb[p].semaphores \in [Slot -> Sem \cup {Null}]
  BY <1>1, Running DEF PCB
<1>3. ASSUME NEW i \in Slot, NEW s \in Sem \cup {Null}
      PROVE  LET r == [pcb[p] EXCEPT !.semaphores = [pcb[p].semaphores EXCEPT ![i] = s]] IN
             /\ r \in PCB /\ r.user_context = pcb[p].user_context
             /\ r.in_handler = pcb[p].in_handler
             /\ r.handler_user_context = pcb[p].handler_user_context
  <2> DEFINE t == [pcb[p].semaphores EXCEPT ![i] = s]
             r == [pcb[p] EXCEPT !.semaphores = t]
  <2>1. t \in [Slot -> Sem \cup {Null}]
    BY <1>2
  <2> HIDE DEF t
  <2>2. r \in PCB
    BY <1>2, <2>1, FieldStored
  <2>3. r.user_context = pcb[p].user_context /\ r.in_handler = pcb[p].in_handler
        /\ r.handler_user_context = pcb[p].handler_user_context
    BY <1>2, <2>2 DEF PCB
  <2>4. QED
    BY <2>2, <2>3 DEF t
<1>4. UNCHANGED procVars /\ created' = created
  BY DEF SysSem, SysUp, SysSemClose, procVars
<1>5. CASE SysSem(c)
  <2> DEFINE slots == pcb[p].semaphores
  <2>1. CASE (\A i \in Slot : slots[i] # Null) /\ Return(c, -1) /\ UNCHANGED <<pcb, sem, semVars>>
    BY <1>1, <1>4, <1>5, <2>1, FailStep DEF SysSem
  <2>2. ASSUME NEW i \in Slot, NEW s \in Sem \ made, NEW n \in 0 .. MaxCount,
               made' = made \cup {s}, ref' = [ref EXCEPT ![s] = 1],
               sem' = [sem EXCEPT ![s].count = n],
               pcb' = [pcb EXCEPT ![p].semaphores[i] = s], Return(c, i)
        PROVE  KernelInv'
    <3>1. i \in Int /\ s \in Sem
      BY SMT, KernelAssumption DEF Slot
    <3> DEFINE r == [pcb[p] EXCEPT !.semaphores = [pcb[p].semaphores EXCEPT ![i] = s]]
    <3>3. r \in PCB /\ r.user_context = pcb[p].user_context /\ r.in_handler = pcb[p].in_handler
          /\ r.handler_user_context = pcb[p].handler_user_context
      BY <1>3, <3>1
    <3>4. pcb' = [pcb EXCEPT ![p] = r]
      BY <2>2
    <3> HIDE DEF r
    <3>5. PcbInv' /\ \A q \in Proc : pcb[q].user_context \in Context => pcb'[q].user_context \in Context
      BY <1>2, <3>3, <3>4, StoreFacts DEF KernelInv, PcbInv
    <3>6. sem \in Semaphores(Runnable') /\ ready \in Seq(Runnable')
      BY <1>4, <3>5, QueueKept DEF KernelInv, DataInv
    <3>7. QueueInv'
      <4>1. ready' = ready /\ n \in Nat /\ << >> \in Seq(Runnable')
        <5>1. ready' = ready
          BY <1>5 DEF SysSem
        <5>2. QED
          BY SMT, <5>1, KernelAssumption
      <4>2. sem' \in Semaphores(Runnable')
        BY <2>2, <3>1, <3>6, <4>1, SemaphoreStored
      <4>3. QED
        BY <3>6, <4>1, <4>2 DEF QueueInv
    <3>8. DataInv'
      BY SMT, <1>4, <2>2, <3>1 DEF KernelInv, DataInv, procVars
    <3>9. CoreInv'
      BY <1>1, <1>4, <2>2, <3>1, ReturnFacts DEF KernelInv
    <3>10. QED
      BY <3>5, <3>7, <3>8, <3>9 DEF KernelInv
  <2>3. QED
    BY <1>5, <2>1, <2>2 DEF SysSem
<1>6. CASE SysUp(c)
  <2>1. PICK i \in Slot :
          LET s == pcb[p].semaphores[i] IN
          \/ s = Null /\ Return(c, -1) /\ UNCHANGED <<sem, ready>>
          \/ s # Null /\ sem' = UpSem(sem, s) /\ ready' = UpReady(sem, ready, s) /\ Return(c, 0)
    BY <1>6 DEF SysUp
  <2> DEFINE s == pcb[p].semaphores[i]
  <2>2. s \in Sem \cup {Null}
    BY <1>2
  <2>3. UNCHANGED <<pcb, procVars, semVars>>
    BY <1>6 DEF SysUp
  <2>4. CASE s = Null /\ Return(c, -1) /\ UNCHANGED <<sem, ready>>
    BY <1>1, <2>3, <2>4, FailStep
  <2>5. CASE s # Null /\ sem' = UpSem(sem, s) /\ ready' = UpReady(sem, ready, s) /\ Return(c, 0)
    <3>1. s \in Proc \cup Sem
      BY <2>2, <2>5
    <3> HIDE DEF s
    <3>2. PcbInv' /\ DataInv' /\ Runnable' = Runnable
      BY <2>3 DEF KernelInv, PcbInv, DataInv, Runnable, procVars, semVars
    <3>3. QueueInv'
      BY <2>5, <3>1, <3>2, UpFacts DEF KernelInv, QueueInv
    <3>4. CoreInv'
      BY SMT, <1>1, <1>4, <2>5, ReturnFacts DEF KernelInv
    <3>5. QED
      BY <3>2, <3>3, <3>4 DEF KernelInv
  <2>6. QED
    BY <2>1, <2>4, <2>5
<1>7. CASE SysSemClose(c)
  <2>1. PICK i \in Slot :
          LET s == pcb[p].semaphores[i] IN
          \/ s = Null /\ Return(c, -1) /\ UNCHANGED <<pcb, ref>>
          \/ /\ s # Null
             /\ pcb' = [pcb EXCEPT ![p].semaphores[i] = Null]
             /\ ref' = [ref EXCEPT ![s] = @ - 1]
             /\ Return(c, 0)
    BY <1>7 DEF SysSemClose
  <2> DEFINE s == pcb[p].semaphores[i]
             r == [pcb[p] EXCEPT !.semaphores = [pcb[p].semaphores EXCEPT ![i] = Null]]
  <2>2. s \in Sem \cup {Null} /\ UNCHANGED <<sem, ready, procVars, made>>
    BY <1>2, <1>7 DEF SysSemClose
  <2>3. CASE s = Null /\ Return(c, -1) /\ UNCHANGED <<pcb, ref>>
    BY <1>1, <2>2, <2>3, FailStep DEF semVars
  <2>4. CASE /\ s # Null
             /\ pcb' = [pcb EXCEPT ![p].semaphores[i] = Null]
             /\ ref' = [ref EXCEPT ![s] = @ - 1]
             /\ Return(c, 0)
    <3>1. r \in PCB /\ r.user_context = pcb[p].user_context /\ r.in_handler = pcb[p].in_handler
          /\ r.handler_user_context = pcb[p].handler_user_context
      BY <1>3
    <3>2. pcb' = [pcb EXCEPT ![p] = r]
      BY <2>4
    <3>3. s \in Sem
      BY <2>2, <2>4
    <3> HIDE DEF r, s
    <3>4. DataInv'
      BY SMT, <2>2, <2>4, <3>3 DEF KernelInv, DataInv, procVars
    <3>5. CoreInv'
      BY SMT, <1>1, <1>4, <2>4, ReturnFacts DEF KernelInv
    <3>6. QED
      BY <1>2, <2>2, <3>1, <3>2, <3>4, <3>5, FieldStep
  <2>5. QED
    BY <2>1, <2>3, <2>4
<1>8. QED
  BY <1>5, <1>6, <1>7

(* The PCBs when a handler is marked entered.                               *)
LEMMA HandlingFacts ==
  ASSUME KernelInv, NEW c \in Core, mode[c] \notin Idle, NEW P \in [Proc -> PCB],
         \A p \in Proc : /\ P[p].user_context = pcb[p].user_context
                         /\ P[p].in_handler => P[p].handler_user_context \in Context
  PROVE  /\ Handling(c, P) \in [Proc -> PCB]
         /\ \A p \in Proc :
              /\ Handling(c, P)[p].user_context = pcb[p].user_context
              /\ Handling(c, P)[p].in_handler =>
                   Handling(c, P)[p].handler_user_context \in Context
<1> DEFINE p == active[c]
           r == [P[p] EXCEPT !.handler_user_context = Frame(c)]
           t == [r EXCEPT !.in_handler = TRUE]
<1>1. p \in Proc /\ Frame(c) \in Context
  BY Running, FrameFacts DEF Busy
<1>2. r \in PCB /\ r.handler_user_context = Frame(c) /\ r.user_context = P[p].user_context
  <2>1. P[p] \in PCB
    BY <1>1
  <2>2. r \in PCB
    BY <1>1, <2>1, FieldStored
  <2>3. QED
    BY <2>1, <2>2 DEF PCB
<1>3. t \in PCB /\ t.handler_user_context = Frame(c) /\ t.user_context = P[p].user_context
  <2> HIDE DEF r
  <2>1. t \in PCB
    BY <1>2, FieldStored
  <2>2. QED
    BY <1>2, <2>1 DEF PCB
<1>4. Handling(c, P) = [P EXCEPT ![p] = t]
  BY <1>1 DEF Handling
<1> HIDE DEF r, t
<1> QED
  BY <1>1, <1>3, <1>4

(* Entering a signal handler.                                               *)
LEMMA EnterFacts ==
  ASSUME KernelInv, NEW c \in Core, mode[c] \notin Idle, NEW P \in [Proc -> PCB],
         \A p \in Proc : /\ P[p].user_context = pcb[p].user_context
                         /\ P[p].in_handler => P[p].handler_user_context \in Context,
         EnterHandler(c, P)
  PROVE  KernelInv'
<1>1. ctx[c] \in Context
  BY Running
<1>2. /\ pcb' \in [Proc -> PCB]
      /\ \A p \in Proc : /\ pcb'[p].user_context = pcb[p].user_context
                         /\ pcb'[p].in_handler => pcb'[p].handler_user_context \in Context
  BY HandlingFacts DEF EnterHandler
<1>3. /\ UNCHANGED <<sem, ready, procVars, semVars, active, cr3, interrupts>>
      /\ mode' = [mode EXCEPT ![c] = "user"]
  BY DEF EnterHandler
<1>4. ctx' = [ctx EXCEPT ![c] = [ctx[c] EXCEPT !.pos = "handler", !.eax = 0]]
  BY DEF EnterHandler
<1>5. [ctx[c] EXCEPT !.pos = "handler", !.eax = 0] \in Context
  <2> DEFINE u == [ctx[c] EXCEPT !.pos = "handler"]
  <2>1. u \in Context
    BY <1>1 DEF Context
  <2> HIDE DEF u
  <2>2. [u EXCEPT !.eax = 0] \in Context
    BY SMT, <2>1 DEF Context
  <2>3. QED
    BY <2>2 DEF u
<1>6. PcbInv' /\ \A q \in Proc : pcb[q].user_context \in Context => pcb'[q].user_context \in Context
  BY <1>2 DEF PcbInv
<1>7. DataInv' /\ created' = created
  BY <1>3 DEF KernelInv, DataInv, procVars, semVars
<1>8. QueueInv'
  BY <1>3, <1>6, <1>7, QueueKept DEF KernelInv, QueueInv, DataInv
<1>9. CoreInv'
  BY <1>3, <1>4, <1>5, <1>7 DEF KernelInv, CoreInv, Mode
<1> QED
  BY <1>6, <1>7, <1>8, <1>9 DEF KernelInv

(* Entering it, or being ended by the fault of that.                        *)
LEMMA CallFacts ==
  ASSUME KernelInv, NEW c \in Core, mode[c] \notin Idle, NEW P \in [Proc -> PCB],
         \A p \in Proc : /\ P[p].user_context = pcb[p].user_context
                         /\ P[p].in_handler => P[p].handler_user_context \in Context,
         NEW m \in Idle, CallHandler(c, P, m)
  PROVE  KernelInv'
<1>1. PICK Q : Q = Handling(c, P)
  OBVIOUS
<1>2. CASE EnterHandler(c, P)
  BY <1>2, EnterFacts
<1>3. CASE Exit(c, Q, 139, m)
  <2>1. 139 \in Nat
    BY SMT
  <2>2. /\ Q \in [Proc -> PCB]
        /\ \A p \in Proc : /\ Q[p].user_context = pcb[p].user_context
                           /\ Q[p].in_handler => Q[p].handler_user_context \in Context
    BY <1>1, HandlingFacts
  <2> QED
    BY <1>3, <2>1, <2>2, ExitFacts
<1> QED
  BY <1>1, <1>2, <1>3 DEF CallHandler

(* sigreturn from a handler.                                                *)
LEMMA LeaveHandlerFacts ==
  ASSUME KernelInv, NEW c \in Core, mode[c] \notin Idle, pcb[active[c]].in_handler,
         LeaveHandler(c)
  PROVE  KernelInv'
<1> DEFINE p == active[c]
           r == [pcb[p] EXCEPT !.in_handler = FALSE]
           P == [pcb EXCEPT ![p] = r]
<1>1. p \in Proc /\ pcb[p] \in PCB /\ pcb[p].handler_user_context \in Context
  BY Running
<1>2. r \in PCB /\ r.user_context = pcb[p].user_context /\ ~r.in_handler
  <2>1. r \in PCB
    BY <1>1, FieldStored
  <2>2. QED
    BY <1>1, <2>1 DEF PCB
<1>3. SwitchProcesses(c, P, pcb[p].handler_user_context, "loop") /\ "loop" \in Idle
  BY DEF LeaveHandler, Idle
<1> HIDE DEF r
<1>4. P \in [Proc -> PCB]
      /\ \A q \in Proc : /\ P[q].user_context = pcb[q].user_context
                         /\ P[q].in_handler => P[q].handler_user_context \in Context
  BY <1>1, <1>2 DEF KernelInv, PcbInv
<1> HIDE DEF P
<1>5. QED
  BY <1>1, <1>3, <1>4, SwitchFacts

(* simple_signal and both stores of kill change one field of one PCB.       *)
LEMMA SignalStep ==
  ASSUME KernelInv, NEW c \in Core,
         SysSimpleSignal(c) \/ SysKill(c) \/ SysKillValue(c)
  PROVE  KernelInv'
<1> DEFINE p == active[c]
           child == PeekChild(p)
<1>1. mode[c] \notin Idle
  BY DEF SysSimpleSignal, SysKill, SysKillValue, User, Idle
<1>2. p \in Proc /\ pcb[p] \in PCB
  BY <1>1, Running
<1>3. UNCHANGED <<sem, ready, procVars, semVars>>
  BY DEF SysSimpleSignal, SysKill, SysKillValue
<1>4. DataInv' /\ created' = created
  BY <1>3 DEF KernelInv, DataInv, procVars, semVars
<1>5. ASSUME NEW q \in Proc, NEW r \in PCB, pcb' = [pcb EXCEPT ![q] = r],
             r.in_handler = pcb[q].in_handler,
             r.handler_user_context = pcb[q].handler_user_context,
             r.user_context = pcb[q].user_context, CoreInv'
      PROVE  KernelInv'
  BY <1>3, <1>4, <1>5, FieldStep
<1>6. \A v \in {-1, 0, 1} : Return(c, v) => CoreInv'
  BY SMT, <1>1, <1>4, ReturnFacts DEF KernelInv
<1>7. pcb[p].children # << >> => child \in Proc /\ pcb[child] \in PCB
  <2>1. pcb[p].children \in Seq(Proc)
    BY <1>2 DEF PCB
  <2>2. QED
    BY SMT, <2>1 DEF PeekChild, KernelInv, PcbInv
<1>8. CASE SysSimpleSignal(c)
  <2>1. PICK b \in BOOLEAN : pcb' = [pcb EXCEPT ![p] = [pcb[p] EXCEPT !.handler_eip = b]]
    BY <1>8 DEF SysSimpleSignal
  <2> DEFINE r == [pcb[p] EXCEPT !.handler_eip = b]
  <2>2. r \in PCB
    BY <1>2, FieldStored
  <2>3. r.in_handler = pcb[p].in_handler /\ r.user_context = pcb[p].user_context
        /\ r.handler_user_context = pcb[p].handler_user_context
    BY <1>2, <2>2 DEF PCB
  <2>4. CoreInv'
    BY <1>6, <1>8 DEF SysSimpleSignal
  <2> HIDE DEF r
  <2>5. QED
    BY <1>2, <1>5, <2>1, <2>2, <2>3, <2>4 DEF r
<1>9. CASE SysKill(c)
  <2>1. CASE pcb' = pcb /\ Return(c, -1)
    BY <1>1, <1>3, <2>1, FailStep
  <2>2. CASE /\ pcb[p].children # << >>
             /\ pcb' = [pcb EXCEPT ![child].killed = TRUE]
             /\ mode' = [mode EXCEPT ![c] = "kill"]
             /\ UNCHANGED <<active, cr3, interrupts, ctx>>
    <3> DEFINE r == [pcb[child] EXCEPT !.killed = TRUE]
    <3>1. child \in Proc /\ pcb[child] \in PCB /\ pcb' = [pcb EXCEPT ![child] = r]
      BY <1>7, <2>2
    <3>2. r \in PCB
      BY <3>1, FieldStored
    <3>3. r.in_handler = pcb[child].in_handler /\ r.user_context = pcb[child].user_context
          /\ r.handler_user_context = pcb[child].handler_user_context
      BY <3>1, <3>2 DEF PCB
    <3>4. CoreInv'
      BY <1>1, <1>4, <2>2 DEF KernelInv, CoreInv, Mode
    <3> HIDE DEF r, child
    <3>5. QED
      BY <1>5, <3>1, <3>2, <3>3, <3>4
  <2>3. QED
    BY <1>9, <2>1, <2>2 DEF SysKill
<1>10. CASE SysKillValue(c)
  <2>1. PICK v \in Value : pcb' = [pcb EXCEPT ![child].killed_v = v]
    BY <1>10 DEF SysKillValue
  <2>2. CoreInv' /\ v \in Nat
    BY <1>6, <1>10, KernelAssumption DEF SysKillValue
  <2>3. CASE child \in Proc
    <3> DEFINE r == [pcb[child] EXCEPT !.killed_v = v]
    <3>1. pcb[child] \in PCB /\ pcb' = [pcb EXCEPT ![child] = r]
      BY <2>1, <2>3 DEF KernelInv, PcbInv
    <3>2. r \in PCB
      BY <2>2, <3>1, FieldStored
    <3>3. r.in_handler = pcb[child].in_handler /\ r.user_context = pcb[child].user_context
          /\ r.handler_user_context = pcb[child].handler_user_context
      BY <3>1, <3>2 DEF PCB
    <3> HIDE DEF r, child
    <3>4. QED
      BY <1>5, <2>2, <2>3, <3>1, <3>2, <3>3
  <2>4. CASE child \notin Proc
    <3>1. pcb' = pcb
      BY <2>1, <2>4 DEF KernelInv, PcbInv
    <3>2. QED
      BY <1>3, <1>4, <2>2, <3>1, RestKept
  <2>5. QED
    BY <2>3, <2>4
<1>11. QED
  BY <1>8, <1>9, <1>10

(* The timer, page faults and sigreturn.                                    *)
LEMMA InterruptStep ==
  ASSUME KernelInv, NEW c \in Core, Timer(c) \/ Fault(c) \/ SysSigreturn(c)
  PROVE  KernelInv'
<1> DEFINE p == active[c]
<1>1. pcb \in [Proc -> PCB] /\ \A q \in Proc : pcb[q].in_handler => pcb[q].handler_user_context \in Context
  BY DEF KernelInv, PcbInv
<1>2. "loop" \in Idle /\ "loop_cli" \in Idle /\ "user" \notin Idle /\ "fault" \notin Idle
  BY DEF Idle
<1>3. CASE TimerKernel(c)
  <2>1. interrupts' = [interrupts EXCEPT ![c] = TRUE]
        /\ UNCHANGED <<pcb, sem, ready, procVars, semVars, mode, active, cr3, ctx>>
    BY <1>3 DEF TimerKernel
  <2>2. DataInv' /\ created' = created
    BY <2>1 DEF KernelInv, DataInv, procVars, semVars
  <2>3. CoreInv'
    BY <2>1, <2>2 DEF KernelInv, CoreInv
  <2>4. QED
    BY <2>1, <2>2, <2>3, RestKept
<1>4. CASE TimerKill(c)
  <2> DEFINE r == [pcb[p] EXCEPT !.handled = TRUE]
             P == [pcb EXCEPT ![p] = r]
  <2>1. mode[c] \notin Idle /\ (CallHandler(c, P, "loop_cli") \/ Exit(c, P, pcb[p].killed_v, "loop_cli"))
    BY <1>2, <1>4 DEF TimerKill
  <2>2. p \in Proc /\ pcb[p] \in PCB
    BY <2>1, Running
  <2>3. r \in PCB
    BY <2>2, FieldStored
  <2>4. r.in_handler = pcb[p].in_handler /\ r.user_context = pcb[p].user_context
        /\ r.handler_user_context = pcb[p].handler_user_context
    BY <2>2, <2>3 DEF PCB
  <2>5. pcb[p].killed_v \in Nat
    BY <2>2 DEF PCB
  <2> HIDE DEF r
  <2>6. P \in [Proc -> PCB]
        /\ \A q \in Proc : /\ P[q].user_context = pcb[q].user_context
                           /\ P[q].in_handler => P[q].handler_user_context \in Context
    BY <1>1, <2>2, <2>3, <2>4
  <2> HIDE DEF P
  <2>7. CASE CallHandler(c, P, "loop_cli")
    BY <1>2, <2>1, <2>6, <2>7, CallFacts
  <2>8. CASE Exit(c, P, pcb[p].killed_v, "loop_cli")
    BY <1>2, <2>1, <2>5, <2>6, <2>8, ExitFacts
  <2>9. QED
    BY <2>1, <2>7, <2>8
<1>5. CASE TimerSwitch(c)
  <2>1. mode[c] \notin Idle /\ SwitchProcesses(c, pcb, ctx[c], "loop_cli")
    BY <1>2, <1>5 DEF TimerSwitch
  <2>2. ctx[c] \in Context
    BY <2>1, Running
  <2>3. QED
    BY <1>1, <1>2, <2>1, <2>2, SwitchFacts
<1>6. CASE FaultReturn(c)
  BY <1>2, <1>6, LeaveHandlerFacts DEF FaultReturn, User
<1>7. CASE FaultSegv(c)
  <2>1. mode[c] \notin Idle /\ (CallHandler(c, pcb, "loop") \/ Exit(c, pcb, 139, "loop"))
    BY <1>2, <1>7 DEF FaultSegv, User
  <2>2. CASE CallHandler(c, pcb, "loop")
    BY <1>1, <1>2, <2>1, <2>2, CallFacts
  <2>3. CASE Exit(c, pcb, 139, "loop")
    BY <1>1, <1>2, <2>1, <2>3, ExitFacts
  <2>4. QED
    BY <2>1, <2>2, <2>3
<1>8. CASE SysSigreturn(c)
  <2>1. mode[c] \notin Idle
    BY <1>2, <1>8 DEF SysSigreturn, User
  <2>2. CASE Return(c, -1) /\ UNCHANGED <<pcb, sem, ready, procVars, semVars>>
    BY <2>1, <2>2, FailStep
  <2>3. CASE pcb[p].in_handler /\ LeaveHandler(c)
    BY <2>1, <2>3, LeaveHandlerFacts
  <2>4. QED
    BY <1>8, <2>2, <2>3 DEF SysSigreturn
<1>9. QED
  BY <1>3, <1>4, <1>5, <1>6, <1>7, <1>8 DEF Timer, Fault

----------------------------------------------------------------------------
(* A core that goes on with its process.                                    *)
LEMMA StayPlaces ==
  ASSUME NEW c \in Core, Busy(c), Busy(c)', active' = active,
         \A d \in Core : d # c => mode'[d] = mode[d]
  PROVE  (Alone => Alone') /\ OnCore' = OnCore
<1>1. \A d \in Core : Busy(d)' <=> Busy(d)
  BY DEF Busy
<1> QED
  BY <1>1 DEF Alone, OnCore

(* A core that leaves its process for the event loop.                       *)
LEMMA LeavePlaces ==
  ASSUME KernelInv, Alone, NEW c \in Core, Busy(c), NEW m \in Idle,
         mode' = [mode EXCEPT ![c] = m], active' = active
  PROVE  Alone' /\ OnCore' = OnCore \ {active[c]} /\ active[c] \in OnCore
<1>1. active' = active /\ \A d \in Core : Busy(d)' <=> (Busy(d) /\ d # c)
  BY DEF Busy, Idle, KernelInv, CoreInv
<1>2. Alone'
  BY <1>1 DEF Alone
<1>3. OnCore' = OnCore \ {active[c]}
  BY <1>1 DEF Alone, OnCore
<1> QED
  BY <1>2, <1>3 DEF OnCore

(* A core that enters a process from the event loop.                        *)
LEMMA EnterPlaces ==
  ASSUME KernelInv, Alone, NEW c \in Core, ~Busy(c), NEW p, p \notin OnCore,
         NEW d, NEW u, Resume(c, p, d, u)
  PROVE  Alone' /\ OnCore' = OnCore \cup {p}
<1>1. /\ \A k \in Core : Busy(k)' <=> (Busy(k) \/ k = c)
      /\ \A k \in Core : active'[k] = IF k = c THEN p ELSE active[k]
  BY DEF Resume, Busy, Idle, KernelInv, CoreInv
<1>2. \A k \in Core : Busy(k) => active[k] # p
  BY DEF OnCore
<1>3. Alone'
  BY <1>1, <1>2 DEF Alone
<1>4. OnCore' = OnCore \cup {p}
  BY <1>1 DEF OnCore
<1> QED
  BY <1>3, <1>4

(* The processes in queues, when there is one closure more.                 *)
LEMMA QueuedMore ==
  ASSUME NEW S, NEW R, NEW T, NEW V, NEW e, Closures(T, V) = Closures(S, R) \cup {e}
  PROVE  Queued(T, V) = Queued(S, R) \cup {e.pcb}
BY DEF Queued

(* Steps that change neither queues nor who is alive.                       *)
LEMMA PlacesKept ==
  ASSUME PlaceInv, NEW c \in Core, Busy(c), Busy(c)', active' = active,
         \A d \in Core : d # c => mode'[d] = mode[d],
         UNCHANGED <<ready, created, exits>>,
         \A s \in Proc \cup Sem : sem'[s].waiting = sem[s].waiting
  PROVE  PlaceInv'
<1>1. Alone' /\ OnCore' = OnCore
  BY StayPlaces DEF PlaceInv
<1>2. Apart(sem', ready')
  BY SMT DEF PlaceInv, Apart
<1>3. Closures(sem', ready') = Closures(sem, ready)
  BY DEF Closures, Waits
<1>4. Queued(sem', ready') = Queued(sem, ready)
  BY <1>3 DEF Queued
<1>5. Living' = Living
  BY DEF Living, Alive
<1> QED
  BY <1>1, <1>2, <1>4, <1>5 DEF PlaceInv

(* switch_processes and the tick in execl: from the core to the ready       *)
(* queue.                                                                   *)
LEMMA QueuePlaces ==
  ASSUME KernelInv, PlaceInv, NEW c \in Core, Busy(c), NEW e \in Event, e.pcb = active[c],
         Alone', OnCore' = OnCore \ {active[c]},
         ready' = Append(ready, e), UNCHANGED <<sem, created, exits>>
  PROVE  PlaceInv'
<1>1. active[c] \in OnCore
  BY DEF OnCore
<1>2. e.pcb \notin Queued(sem, ready)
  BY <1>1 DEF PlaceInv
<1>3. Apart(sem, ready') /\ Closures(sem, ready') = Closures(sem, ready) \cup {e}
  BY SMT, <1>2, EventQueues, AddPlaces DEF PlaceInv
<1>4. Queued(sem', ready') = Queued(sem, ready) \cup {active[c]}
  BY SMT, <1>3, QueuedMore
<1>5. Living' = Living
  BY DEF Living, Alive
<1> QED
  BY SMT, <1>1, <1>2, <1>3, <1>4, <1>5 DEF PlaceInv

(* switch_processes.                                                        *)
LEMMA SwitchPlaces ==
  ASSUME KernelInv, PlaceInv, NEW c \in Core, Busy(c), NEW m \in Idle, NEW P, NEW u,
         SwitchProcesses(c, P, u, m)
  PROVE  PlaceInv'
<1>1. Alone' /\ OnCore' = OnCore \ {active[c]}
  BY LeavePlaces DEF SwitchProcesses, Leave, PlaceInv
<1>2. active[c] \in Proc
  BY Running DEF Busy
<1>3. Closure("resume", active[c]) \in Event /\ Closure("resume", active[c]).pcb = active[c]
  BY <1>2 DEF Closure, Event
<1> QED
  BY <1>1, <1>3, QueuePlaces DEF SwitchProcesses, procVars

(* join and down: from the core to a waiting queue or the ready queue.      *)
LEMMA BlockPlaces ==
  ASSUME KernelInv, PlaceInv, NEW c \in Core, Busy(c), NEW m \in Idle, Leave(c, m),
         NEW s \in Proc \cup Sem, NEW e \in Event, e.pcb = active[c],
         sem' = DownSem(sem, s, e), ready' = DownReady(sem, ready, s, e),
         UNCHANGED <<created, exits>>
  PROVE  PlaceInv'
<1>1. Alone' /\ OnCore' = OnCore \ {active[c]} /\ active[c] \in OnCore
  BY LeavePlaces DEF Leave, PlaceInv
<1>2. e.pcb \notin Queued(sem, ready)
  BY <1>1 DEF PlaceInv
<1>3. Apart(sem', ready') /\ Closures(sem', ready') = Closures(sem, ready) \cup {e}
  BY SMT, <1>2, EventQueues, DownPlaces DEF PlaceInv
<1>4. Queued(sem', ready') = Queued(sem, ready) \cup {active[c]}
  BY SMT, <1>3, QueuedMore
<1>5. Living' = Living
  BY DEF Living, Alive
<1> QED
  BY SMT, <1>1, <1>2, <1>3, <1>4, <1>5 DEF PlaceInv

(* exit: from the core to nowhere; a joiner may be woken.                   *)
LEMMA ExitPlaces ==
  ASSUME KernelInv, PlaceInv, NEW c \in Core, Busy(c), NEW m \in Idle, NEW P, NEW v,
         Exit(c, P, v, m)
  PROVE  PlaceInv'
<1> DEFINE p == active[c]
<1>1. Alone' /\ OnCore' = OnCore \ {p} /\ p \in OnCore
  BY LeavePlaces DEF Exit, Leave, PlaceInv
<1>2. p \in Proc /\ p \in created
  BY Running DEF Busy
<1>3. Apart(sem', ready') /\ Closures(sem', ready') = Closures(sem, ready)
  <2>1. sem' = UpSem(sem, p) /\ ready' = UpReady(sem, ready, p)
    BY DEF Exit
  <2> QED
    BY <1>2, <2>1, EventQueues, UpPlaces DEF PlaceInv
<1>4. Queued(sem', ready') = Queued(sem, ready)
  BY <1>3 DEF Queued
<1>5. exits' = [exits EXCEPT ![p] = @ + 1] /\ created' = created /\ exits \in [Proc -> Nat]
  BY DEF Exit, KernelInv, DataInv
<1> HIDE DEF p
<1>6. Living' = Living \ {p}
  BY SMT, <1>2, <1>5 DEF Living, Alive
<1>7. \A q \in Proc \ created' : exits'[q] = 0
  BY <1>2, <1>5 DEF PlaceInv
<1> QED
  BY <1>1, <1>3, <1>4, <1>6, <1>7 DEF PlaceInv

(* up by a program: a waiting process may become ready.                     *)
LEMMA WakePlaces ==
  ASSUME KernelInv, PlaceInv, NEW c \in Core, Busy(c), Busy(c)', active' = active,
         \A d \in Core : d # c => mode'[d] = mode[d],
         NEW s \in Proc \cup Sem, sem' = UpSem(sem, s), ready' = UpReady(sem, ready, s),
         UNCHANGED <<created, exits>>
  PROVE  PlaceInv'
<1>1. Alone' /\ OnCore' = OnCore
  BY StayPlaces DEF PlaceInv
<1>2. Apart(sem', ready') /\ Closures(sem', ready') = Closures(sem, ready)
  BY EventQueues, UpPlaces DEF PlaceInv
<1>3. Queued(sem', ready') = Queued(sem, ready)
  BY <1>2 DEF Queued
<1>4. Living' = Living
  BY DEF Living, Alive
<1> QED
  BY <1>1, <1>2, <1>3, <1>4 DEF PlaceInv

(* fork: a new process, in the ready queue.                                 *)
LEMMA ForkPlaces ==
  ASSUME KernelInv, PlaceInv, NEW c \in Core, Busy(c), Busy(c)', active' = active,
         \A d \in Core : d # c => mode'[d] = mode[d],
         NEW child \in Proc \ created, created' = created \cup {child},
         NEW e \in Event, e.pcb = child, ready' = Append(ready, e), UNCHANGED <<sem, exits>>
  PROVE  PlaceInv'
<1>1. Alone' /\ OnCore' = OnCore
  BY StayPlaces DEF PlaceInv
<1>2. child \notin Living /\ exits[child] = 0
  BY DEF Living, Alive, PlaceInv
<1>3. child \notin Queued(sem, ready) /\ child \notin OnCore
  BY <1>2 DEF PlaceInv
<1>4. Apart(sem, ready') /\ Closures(sem, ready') = Closures(sem, ready) \cup {e}
  BY SMT, <1>3, EventQueues, AddPlaces DEF PlaceInv
<1>5. Queued(sem', ready') = Queued(sem, ready) \cup {child}
  BY SMT, <1>4, QueuedMore
<1>6. Living' = Living \cup {child}
  BY <1>2 DEF Living, Alive
<1> QED
  BY SMT, <1>1, <1>3, <1>4, <1>5, <1>6 DEF PlaceInv

(* event_loop: from the head of the ready queue to the core; the closure of *)
(* join also ups the child's exit_future.                                   *)
LEMMA LoopPlaces ==
  ASSUME KernelInv, PlaceInv, NEW c \in Core, ~Busy(c), ready # << >>, NEW d, NEW u,
         Resume(c, Head(ready).pcb, d, u), UNCHANGED <<created, exits>>,
         \/ sem' = sem /\ ready' = Tail(ready)
         \/ \E s \in Proc \cup Sem :
              sem' = UpSem(sem, s) /\ ready' = UpReady(sem, Tail(ready), s)
  PROVE  PlaceInv'
<1> DEFINE p == Head(ready).pcb
           R == Tail(ready)
<1>1. Apart(sem, R) /\ Closures(sem, ready) = Closures(sem, R) \cup {Head(ready)}
        /\ p \notin Queued(sem, R)
  BY SMT, EventQueues, TakePlaces DEF PlaceInv
<1>2. Queued(sem, ready) = Queued(sem, R) \cup {p}
  BY SMT, <1>1, QueuedMore
<1>3. p \notin OnCore
  BY <1>2 DEF PlaceInv
<1>4. Alone' /\ OnCore' = OnCore \cup {p}
  BY <1>3, EnterPlaces DEF PlaceInv
<1>5. Apart(sem', ready') /\ Closures(sem', ready') = Closures(sem, R)
  <2>1. CASE sem' = sem /\ ready' = R
    BY <1>1, <2>1
  <2>2. ASSUME NEW s \in Proc \cup Sem, sem' = UpSem(sem, s), ready' = UpReady(sem, R, s)
        PROVE  Apart(sem', ready') /\ Closures(sem', ready') = Closures(sem, R)
    <3>1. sem \in Semaphores(Event) /\ R \in Seq(Event) /\ Apart(sem, R)
      BY <1>1, EventQueues, RemoveFacts
    <3> HIDE DEF R
    <3>2. /\ Apart(UpSem(sem, s), UpReady(sem, R, s))
          /\ Closures(UpSem(sem, s), UpReady(sem, R, s)) = Closures(sem, R)
      BY ONLY <3>1, UpPlaces, s \in Proc \cup Sem
    <3> QED
      BY <2>2, <3>2
  <2> QED
    BY <2>1, <2>2
<1>6. Queued(sem', ready') = Queued(sem, R)
  BY <1>5 DEF Queued
<1>7. Living' = Living
  BY DEF Living, Alive
<1> QED
  BY <1>1, <1>2, <1>3, <1>4, <1>5, <1>6, <1>7 DEF PlaceInv

(* Each group of actions keeps every process in its place.                  *)
LEMMA LoopStep ==
  ASSUME KernelInv, PlaceInv, NEW c \in Core, EventLoop(c)
  PROVE  PlaceInv'
<1>1. ready # << >> /\ ~Busy(c) /\ UNCHANGED <<created, exits>>
  BY DEF EventLoop, RunResume, RunDown, RunJoin, RunStart, Next1, Busy, procVars
<1>2. \E d, u : Resume(c, Head(ready).pcb, d, u)
  BY DEF EventLoop, RunResume, RunDown, RunJoin, RunStart
<1>3. CASE RunJoin(c)
  <2>1. Head(ready).child \in Proc
    BY <1>1, <1>3, HeadFacts DEF Runnable, RunJoin, Next1
  <2>2. /\ sem' = UpSem(sem, Head(ready).child)
        /\ ready' = UpReady(sem, Tail(ready), Head(ready).child)
    BY <1>3 DEF RunJoin
  <2> QED
    BY <1>1, <1>2, <2>1, <2>2, LoopPlaces
<1>4. CASE RunResume(c) \/ RunDown(c) \/ RunStart(c)
  <2>1. sem' = sem /\ ready' = Tail(ready)
    BY <1>4 DEF RunResume, RunDown, RunStart
  <2> QED
    BY <1>1, <1>2, <2>1, LoopPlaces
<1> QED
  BY <1>3, <1>4 DEF EventLoop

(* Handlers, kill, page faults and the timer keep every process in its      *)
(* place.                                                                   *)
LEMMA SignalPlaces ==
  ASSUME KernelInv, PlaceInv, NEW c \in Core,
         SysSimpleSignal(c) \/ SysSigreturn(c) \/ SysKill(c) \/ SysKillValue(c)
           \/ Fault(c) \/ Timer(c)
  PROVE  PlaceInv'
<1>1. CASE SysSimpleSignal(c) \/ SysKillValue(c)
  <2>1. Busy(c) /\ \E v : Return(c, v)
    BY <1>1, BusyFacts DEF SysSimpleSignal, SysKillValue, User
  <2>2. UNCHANGED <<sem, ready, created, exits>>
    BY <1>1 DEF SysSimpleSignal, SysKillValue, procVars
  <2> QED
    BY <2>1, <2>2, BusyFacts, PlacesKept
<1>2. CASE SysKill(c)
  <2>1. Busy(c) /\ UNCHANGED <<sem, ready, created, exits>>
    BY <1>2, BusyFacts DEF SysKill, User, procVars
  <2>2. (\E v : Return(c, v)) \/ (mode' = [mode EXCEPT ![c] = "kill"] /\ active' = active)
    BY <1>2 DEF SysKill
  <2> QED
    BY <2>1, <2>2, BusyFacts, PlacesKept
<1>3. ASSUME LeaveHandler(c), Busy(c) PROVE PlaceInv'
  BY <1>3, SwitchPlaces DEF LeaveHandler, Idle
<1>4. ASSUME NEW P, EnterHandler(c, P), Busy(c) PROVE PlaceInv'
  <2>1. UNCHANGED <<sem, ready, created, exits, active>> /\ mode' = [mode EXCEPT ![c] = "user"]
    BY <1>4 DEF EnterHandler, procVars
  <2> QED
    BY <1>4, <2>1, BusyFacts, PlacesKept
<1>5. CASE SysSigreturn(c)
  <2>1. Busy(c)
    BY <1>5, BusyFacts DEF SysSigreturn, User
  <2>2. CASE Return(c, -1) /\ UNCHANGED <<pcb, sem, ready, procVars, semVars>>
    BY <2>1, <2>2, BusyFacts, PlacesKept DEF procVars
  <2> QED
    BY <1>3, <1>5, <2>1, <2>2 DEF SysSigreturn
<1>6. CASE Fault(c)
  <2>1. Busy(c)
    BY <1>6, BusyFacts DEF Fault, FaultReturn, FaultSegv, User
  <2>2. LeaveHandler(c) \/ (\E P : EnterHandler(c, P)) \/ (\E P : Exit(c, P, 139, "loop"))
    BY <1>6 DEF Fault, FaultReturn, FaultSegv, CallHandler
  <2> QED
    BY <1>3, <1>4, <2>1, <2>2, ExitPlaces DEF Idle
<1>7. CASE TimerKernel(c) /\ Busy(c)
  <2>1. UNCHANGED <<sem, ready, created, exits, mode, active>>
    BY <1>7 DEF TimerKernel, procVars
  <2>2. Busy(c)'
    BY <1>7, <2>1 DEF Busy
  <2> QED
    BY <1>7, <2>1, <2>2, PlacesKept
<1>8. CASE TimerKernel(c) /\ ~Busy(c)
  <2>1. UNCHANGED <<sem, ready, created, exits, mode, active>>
    BY <1>8 DEF TimerKernel, procVars
  <2>2. Alone' /\ OnCore' = OnCore /\ Living' = Living
    BY <2>1 DEF PlaceInv, Alone, OnCore, Busy, Living, Alive
  <2> QED
    BY <2>1, <2>2 DEF PlaceInv
<1>9. CASE TimerKill(c)
  <2>1. Busy(c)
    BY <1>9, BusyFacts DEF TimerKill
  <2>2. (\E P : EnterHandler(c, P)) \/ (\E P, v : Exit(c, P, v, "loop_cli"))
    BY <1>9 DEF TimerKill, CallHandler
  <2> QED
    BY <1>4, <2>1, <2>2, ExitPlaces DEF Idle
<1>10. CASE TimerSwitch(c)
  BY <1>10, BusyFacts, SwitchPlaces DEF TimerSwitch, Idle
<1> QED
  BY <1>1, <1>2, <1>5, <1>6, <1>7, <1>8, <1>9, <1>10 DEF Timer

(* So do the calls on user semaphores.                                      *)
LEMMA SemPlaces ==
  ASSUME KernelInv, PlaceInv, NEW c \in Core,
         SysSem(c) \/ SysUp(c) \/ SysDown(c) \/ SysSemClose(c)
  PROVE  PlaceInv'
<1>1. Busy(c) /\ UNCHANGED <<created, exits>>
  BY BusyFacts DEF SysSem, SysUp, SysDown, SysSemClose, User, procVars
<1>2. active[c] \in Proc /\ pcb[active[c]] \in PCB
  BY <1>1, Running DEF Busy
<1>3. \A i \in Slot : pcb[active[c]].semaphores[i] # Null => pcb[active[c]].semaphores[i] \in Sem
  BY <1>2 DEF PCB
<1>4. CASE UNCHANGED <<sem, ready>> /\ \E v : Return(c, v)
  BY <1>1, <1>4, BusyFacts, PlacesKept
<1>5. CASE SysSem(c)
  <2>1. ready' = ready /\ \E v : Return(c, v)
    BY <1>5 DEF SysSem
  <2>2. CASE sem' = sem
    BY <1>4, <2>1, <2>2
  <2>3. ASSUME NEW s \in Sem, NEW n, sem' = [sem EXCEPT ![s].count = n] PROVE PlaceInv'
    <3>1. \A t \in Proc \cup Sem : sem'[t].waiting = sem[t].waiting
      BY <2>3, EventQueues DEF Semaphores
    <3> QED
      BY <1>1, <2>1, <3>1, BusyFacts, PlacesKept
  <2> QED
    BY <1>5, <2>2, <2>3 DEF SysSem
<1>6. CASE SysUp(c)
  <2>1. \E v : Return(c, v)
    BY <1>6 DEF SysUp
  <2>2. ASSUME NEW s \in Sem, sem' = UpSem(sem, s), ready' = UpReady(sem, ready, s)
        PROVE  PlaceInv'
    BY <1>1, <2>1, <2>2, BusyFacts, WakePlaces
  <2> QED
    BY <1>3, <1>4, <1>6, <2>2 DEF SysUp
<1>7. CASE SysDown(c)
  <2>1. ASSUME NEW s \in Sem, sem' = DownSem(sem, s, Closure("down", active[c])),
               ready' = DownReady(sem, ready, s, Closure("down", active[c])), Leave(c, "loop")
        PROVE  PlaceInv'
    <3>1. Closure("down", active[c]) \in Event /\ Closure("down", active[c]).pcb = active[c]
      BY <1>2 DEF Closure, Event
    <3> QED
      BY <1>1, <2>1, <3>1, BlockPlaces DEF Idle
  <2> QED
    BY <1>3, <1>4, <1>7, <2>1 DEF SysDown
<1>8. CASE SysSemClose(c)
  <2>1. UNCHANGED <<sem, ready>> /\ \E v : Return(c, v)
    BY <1>8 DEF SysSemClose
  <2> QED
    BY <1>4, <2>1
<1> QED
  BY <1>5, <1>6, <1>7, <1>8

(* So do exit, fork, yield, join, execl and the return from a call.         *)
LEMMA ProcessPlaces ==
  ASSUME KernelInv, PlaceInv, NEW c \in Core,
         SysExit(c) \/ SysFork(c) \/ SysYield(c) \/ SysJoin(c) \/ SysExecl(c)
           \/ SysBadPointer(c) \/ SysExeclLoad(c) \/ SysReturn(c)
  PROVE  PlaceInv'
<1>1. Busy(c)
  BY BusyFacts DEF SysExit, SysFork, SysYield, SysJoin, SysExecl, SysBadPointer, SysExeclLoad,
     SysReturn, User
<1>2. active[c] \in Proc /\ pcb[active[c]] \in PCB
  BY <1>1, Running DEF Busy
<1>3. CASE SysExit(c)
  BY <1>1, <1>3, ExitPlaces DEF SysExit, Idle
<1>4. CASE SysFork(c)
  <2>1. PICK child \in Proc \ created :
          /\ created' = created \cup {child}
          /\ ready' = Append(ready, [Closure("fork", child) EXCEPT !.ctx = [ctx[c] EXCEPT !.eax = 0]])
    BY <1>4 DEF SysFork
  <2> DEFINE e == [Closure("fork", child) EXCEPT !.ctx = [ctx[c] EXCEPT !.eax = 0]]
  <2>2. UNCHANGED <<sem, exits>> /\ Return(c, 1)
    BY <1>4 DEF SysFork
  <2>3. [ctx[c] EXCEPT !.eax = 0] \in Context
    BY SMT, <1>1, Running DEF Busy, Context
  <2>4. e \in Event /\ e.pcb = child
    BY <2>3 DEF Closure, Event
  <2> QED
    BY <1>1, <2>1, <2>2, <2>4, BusyFacts, ForkPlaces
<1>5. CASE SysYield(c)
  BY <1>1, <1>5, SwitchPlaces DEF SysYield, Idle
<1>6. CASE SysJoin(c)
  <2>1. UNCHANGED <<created, exits>>
    BY <1>6 DEF SysJoin, procVars
  <2>2. CASE Return(c, -1) /\ UNCHANGED <<sem, ready>>
    BY <1>1, <2>1, <2>2, BusyFacts, PlacesKept
  <2>3. CASE pcb[active[c]].children # << >>
    <3> DEFINE child == PeekChild(active[c])
               e == [Closure("join", active[c]) EXCEPT !.child = child]
    <3>1. child \in Proc
      BY <1>2, <2>3, PeekFacts
    <3>2. sem' = DownSem(sem, child, e) /\ ready' = DownReady(sem, ready, child, e) /\ Leave(c, "loop")
      BY <1>6, <2>3 DEF SysJoin
    <3>3. e \in Event /\ e.pcb = active[c]
      BY <1>2, <3>1 DEF Closure, Event
    <3> QED
      BY <1>1, <2>1, <3>1, <3>2, <3>3, BlockPlaces DEF Idle
  <2> QED
    BY <1>6, <2>2, <2>3 DEF SysJoin
<1>7. CASE SysExecl(c) \/ SysBadPointer(c)
  <2>1. UNCHANGED <<sem, ready, created, exits>>
    BY <1>7 DEF SysExecl, SysBadPointer, procVars
  <2>2. \/ \E v : Return(c, v)
        \/ (\E m \in {"execl", "fault"} : mode' = [mode EXCEPT ![c] = m]) /\ active' = active
    BY <1>7 DEF SysExecl, SysBadPointer
  <2> QED
    BY <1>1, <2>1, <2>2, BusyFacts, PlacesKept
<1>8. CASE SysExeclLoad(c)
  <2> DEFINE start == [image |-> cr3[c][2] + 1, pos |-> "main", eax |-> 0]
             e == ExeclClosure(active[c], start)
  <2>1. UNCHANGED <<sem, created, exits, active>>
    BY <1>8 DEF SysExeclLoad, procVars
  <2>2. CASE interrupts[c]
    <3>1. mode' = [mode EXCEPT ![c] = "loop"] /\ ready' = Append(ready, e)
      BY <1>8, <2>2 DEF SysExeclLoad
    <3>2. start \in Context
      <4>1. cr3[c][2] \in Nat /\ cr3[c][2] < MaxImage /\ MaxImage \in Nat
        BY SMT, <1>1, <1>8, Running, KernelAssumption DEF Busy, SysExeclLoad, KernelInv, CoreInv
      <4>2. cr3[c][2] + 1 \in 0 .. MaxImage
        BY SMT, <4>1
      <4> QED
        BY SMT, <4>2 DEF Context
    <3> HIDE DEF start
    <3>3. e \in Event /\ e.pcb = active[c]
      BY <1>2, <3>2 DEF ExeclClosure, Closure, Event
    <3>4. Alone' /\ OnCore' = OnCore \ {active[c]}
      BY <1>1, <2>1, <3>1, LeavePlaces DEF PlaceInv, Idle
    <3> QED
      BY <1>1, <2>1, <3>1, <3>3, <3>4, QueuePlaces
  <2>3. CASE ~interrupts[c]
    <3>1. mode' = [mode EXCEPT ![c] = "user"] /\ ready' = ready
      BY <1>8, <2>3 DEF SysExeclLoad
    <3> QED
      BY <1>1, <2>1, <3>1, BusyFacts, PlacesKept
  <2> QED
    BY <2>2, <2>3
<1>9. CASE SysReturn(c)
  <2>1. CASE interrupts[c]
    BY <1>1, <1>9, <2>1, SwitchPlaces DEF SysReturn, Idle
  <2>2. CASE ~interrupts[c]
    <3>1. mode' = [mode EXCEPT ![c] = "user"] /\ UNCHANGED <<sem, ready, created, exits, active>>
      BY <1>9, <2>2 DEF SysReturn, procVars
    <3> QED
      BY <1>1, <3>1, BusyFacts, PlacesKept
  <2> QED
    BY <2>1, <2>2
<1> QED
  BY <1>3, <1>4, <1>5, <1>6, <1>7, <1>8, <1>9

(* At boot the first process is on its core.                                *)
LEMMA PlaceInit == Init => PlaceInv
<1> SUFFICES ASSUME Init PROVE PlaceInv
  OBVIOUS
<1> USE KernelAssumption
<1>1. ready = << >> /\ \A s \in Proc \cup Sem : sem[s].waiting = << >>
  BY DEF Init
<1>2. Closures(sem, ready) = {}
  BY <1>1, EmptyFacts DEF Closures, Waits
<1>3. Apart(sem, ready)
  BY SMT, <1>1, EmptyFacts DEF Apart, Single
<1>4. PICK boot \in Core :
        /\ mode = [c \in Core |-> IF c = boot THEN "user" ELSE "loop"]
        /\ active = [c \in Core |-> IF c = boot THEN FirstProc ELSE Null]
  BY DEF Init
<1>5. \A c \in Core : Busy(c) <=> c = boot
  BY <1>4 DEF Busy, Idle
<1>6. Alone /\ OnCore = {FirstProc}
  BY <1>4, <1>5 DEF Alone, OnCore
<1>7. Living = {FirstProc} /\ \A p \in Proc \ created : exits[p] = 0
  BY DEF Init, Living, Alive
<1> QED
  BY <1>2, <1>3, <1>6, <1>7 DEF PlaceInv, Queued

(* Every step keeps every process in its place.                             *)
LEMMA PlaceStep == KernelInv /\ PlaceInv /\ [Next]_vars => PlaceInv'
<1> SUFFICES ASSUME KernelInv, PlaceInv, [Next]_vars PROVE PlaceInv'
  OBVIOUS
<1>1. CASE UNCHANGED vars
  <2>1. UNCHANGED <<sem, ready, created, exits, mode, active>>
    BY <1>1 DEF vars, procVars
  <2>2. Alone' /\ OnCore' = OnCore /\ Living' = Living
    BY SMT, <2>1 DEF PlaceInv, Alone, OnCore, Busy, Living, Alive
  <2> QED
    BY <2>1, <2>2 DEF PlaceInv
<1>2. ASSUME NEW c \in Core,
             Syscall(c) \/ Fault(c) \/ Timer(c) \/ Trap(c) \/ EventLoop(c)
      PROVE  PlaceInv'
  BY <1>2, LoopStep, SignalPlaces, SemPlaces, ProcessPlaces DEF Syscall, Trap
<1> QED
  BY <1>1, <1>2 DEF Next

(* Two places of a process are the same one.                                *)
LEMMA OnePlaceOnly ==
  ASSUME PlaceInv, NEW p \in Proc
  PROVE  /\ \A x, y \in Places(p) : x = y
         /\ Places(p) # {} <=> Alive(p)
<1> DEFINE C(x) == \E c \in Core : Busy(c) /\ active[c] = p /\ x = <<"core", c>>
           R(x) == \E i \in DOMAIN ready : ready[i].pcb = p /\ x = <<"ready", i>>
           W(x) == \E s \in Proc \cup Sem : \E i \in DOMAIN sem[s].waiting :
                     sem[s].waiting[i].pcb = p /\ x = <<s, i>>
<1>1. \A x : x \in Places(p) <=> C(x) \/ R(x) \/ W(x)
  BY SMT DEF Places, CoresOf, EventsOf, Busy
<1>2. \A x : C(x) => p \in OnCore
  BY DEF OnCore
<1>3. \A x : R(x) => \E e \in Range(ready) : e.pcb = p
  BY DEF Range
<1>4. \A x : W(x) => \E s \in Proc \cup Sem : \E e \in Range(sem[s].waiting) : e.pcb = p
  BY DEF Range
<1>5. \A x : R(x) \/ W(x) => p \in Queued(sem, ready)
  BY <1>3, <1>4 DEF Queued, Closures, Waits
<1>6. \A x : C(x) => ~\E y : R(y) \/ W(y)
  BY <1>2, <1>5 DEF PlaceInv
<1>7. \A x, y : R(x) => ~W(y)
  BY <1>3, <1>4 DEF PlaceInv, Apart
<1>8. \A x, y : C(x) /\ C(y) => x = y
  BY DEF PlaceInv, Alone
<1>9. \A x, y : R(x) /\ R(y) => x = y
  BY DEF PlaceInv, Apart, Single
<1>10. ASSUME NEW x, NEW y, W(x), W(y) PROVE x = y
  <2>1. PICK s \in Proc \cup Sem : \E i \in DOMAIN sem[s].waiting :
          sem[s].waiting[i].pcb = p /\ x = <<s, i>>
    BY <1>10
  <2>2. PICK t \in Proc \cup Sem : \E i \in DOMAIN sem[t].waiting :
          sem[t].waiting[i].pcb = p /\ y = <<t, i>>
    BY <1>10
  <2>3. s = t
    BY <2>1, <2>2 DEF PlaceInv, Apart, Range
  <2> QED
    BY <2>1, <2>2, <2>3 DEF PlaceInv, Apart, Single
<1>11. Alive(p) <=> p \in OnCore \/ p \in Queued(sem, ready)
  BY DEF PlaceInv, Living
<1>12. p \in OnCore => \E x : C(x)
  BY DEF OnCore
<1>13. p \in Queued(sem, ready) => \E x : R(x) \/ W(x)
  <2> SUFFICES ASSUME p \in Queued(sem, ready) PROVE \E x : R(x) \/ W(x)
    OBVIOUS
  <2>1. PICK e \in Closures(sem, ready) : e.pcb = p
    BY DEF Queued
  <2>2. CASE e \in Range(ready)
    <3>1. PICK i \in DOMAIN ready : ready[i] = e
      BY <2>2 DEF Range
    <3> QED
      BY <2>1, <3>1
  <2>3. CASE e \in Waits(sem)
    <3>1. PICK s \in Proc \cup Sem : e \in Range(sem[s].waiting)
      BY <2>3 DEF Waits
    <3>2. PICK i \in DOMAIN sem[s].waiting : sem[s].waiting[i] = e
      BY <3>1 DEF Range
    <3> QED
      BY <2>1, <3>2
  <2> QED
    BY <2>2, <2>3 DEF Closures
<1> HIDE DEF C, R, W
<1>14. \A x, y \in Places(p) : x = y
  BY <1>1, <1>6, <1>7, <1>8, <1>9, <1>10
<1>15. Places(p) # {} <=> Alive(p)
  BY <1>1, <1>2, <1>5, <1>11, <1>12, <1>13
<1> QED
  BY <1>14, <1>15

----------------------------------------------------------------------------
(* Closures are events of processes.                                        *)
LEMMA ClosureEvents ==
  ASSUME KernelInv, NEW e \in Closures(sem, ready)
  PROVE  e \in Event /\ e.pcb \in Proc /\ pcb[e.pcb].children \in Seq(Proc)
<1>1. sem \in Semaphores(Event) /\ ready \in Seq(Event)
  BY EventQueues
<1>2. \A s \in Proc \cup Sem : sem[s].waiting \in Seq(Event)
  BY <1>1 DEF Semaphores
<1>3. e \in Event
  BY SMT, <1>1, <1>2 DEF Closures, Waits, Range
<1>4. e.pcb \in Proc
  BY <1>3 DEF Event
<1> QED
  BY <1>3, <1>4 DEF KernelInv, PcbInv, PCB

(* Two joins for one child are of one process.                              *)
LEMMA SameJoiner ==
  ASSUME KernelInv, JoinInv, NEW e \in Closures(sem, ready), NEW p \in Proc,
         e.kind = "join", pcb[p].children # << >>,
         e.child = pcb[p].children[Len(pcb[p].children)]
  PROVE  e.pcb = p
<1>1. e.pcb \in Proc /\ pcb[e.pcb].children \in Seq(Proc) /\ pcb[p].children \in Seq(Proc)
  BY ClosureEvents DEF KernelInv, PcbInv, PCB
<1>2. Joins(e)
  BY DEF JoinInv
<1>3. /\ Len(pcb[p].children) \in DOMAIN pcb[p].children
      /\ Len(pcb[e.pcb].children) \in DOMAIN pcb[e.pcb].children
  BY SMT, <1>1, <1>2 DEF Joins
<1>4. Family
  BY DEF JoinInv
<1>5. pcb[e.pcb].children[Len(pcb[e.pcb].children)] = pcb[p].children[Len(pcb[p].children)]
  BY <1>2 DEF Joins
<1> DEFINE a == pcb[e.pcb].children
           b == pcb[p].children
<1>6. \A i \in DOMAIN a, j \in DOMAIN b : a[i] = b[j] => e.pcb = p
  BY <1>1, <1>4 DEF Family
<1> HIDE DEF a, b
<1> QED
  BY <1>3, <1>5, <1>6 DEF a, b

(* At most one process waits for a child.                                   *)
LEMMA OneWaiter ==
  ASSUME KernelInv, PlaceInv, JoinInv, NEW p \in Proc, sem[p].waiting # << >>
  PROVE  Tail(sem[p].waiting) = << >>
<1> DEFINE w == sem[p].waiting
<1>1. w \in Seq(Event)
  BY EventQueues DEF Semaphores
<1>2. Single(w)
  BY DEF PlaceInv, Apart
<1>3. ASSUME NEW i \in DOMAIN w, NEW j \in DOMAIN w PROVE w[i].pcb = w[j].pcb
  <2>1. w[i] \in Closures(sem, ready) /\ w[j] \in Closures(sem, ready)
    BY SMT DEF Closures, Waits, Range
  <2>2. w[i].kind = "join" /\ w[i].child = p /\ w[j].kind = "join" /\ w[j].child = p
    BY SMT DEF JoinInv, Range
  <2>3. w[j].pcb \in Proc /\ Joins(w[j])
    BY <2>1, <2>2, ClosureEvents DEF JoinInv
  <2>4. /\ pcb[w[j].pcb].children # << >>
        /\ w[i].child = pcb[w[j].pcb].children[Len(pcb[w[j].pcb].children)]
    BY <2>2, <2>3 DEF Joins
  <2> HIDE DEF w
  <2> QED
    BY <2>1, <2>2, <2>3, <2>4, SameJoiner
<1>4. \A i, j \in DOMAIN w : i = j
  BY <1>2, <1>3 DEF Single
<1> HIDE DEF w
<1>5. Len(w) <= 1
  <2> SUFFICES ASSUME Len(w) > 1 PROVE FALSE
    BY SMT, <1>1
  <2>1. 1 \in DOMAIN w /\ 2 \in DOMAIN w
    BY SMT, <1>1
  <2> QED
    BY SMT, <1>4, <2>1
<1> QED
  BY SMT, <1>1, <1>5 DEF w

(* Steps that neither start nor end a join.                                 *)
LEMMA JoinKept ==
  ASSUME KernelInv, JoinInv, \A q \in Proc : pcb'[q].children = pcb[q].children,
         created' = created, exits' = exits, \A p \in Proc : sem'[p] = sem[p],
         \A s \in Sem : \A e \in Range(sem'[s].waiting) : e.kind = "down",
         \A e : e.kind = "join" => (e \in Range(ready') <=> e \in Range(ready))
  PROVE  JoinInv'
<1>1. Family'
  BY SMT DEF JoinInv, Family
<1>2. ASSUME NEW e \in Closures(sem', ready'), e.kind = "join" PROVE Joins(e)'
  <2>1. e \in Closures(sem, ready)
    <3>1. CASE e \in Range(ready')
      BY <1>2, <3>1 DEF Closures
    <3>2. ASSUME NEW s \in Proc \cup Sem, e \in Range(sem'[s].waiting)
          PROVE  e \in Closures(sem, ready)
      <4>1. s \in Proc
        BY <1>2, <3>2
      <4> QED
        BY <3>2, <4>1 DEF Closures, Waits
    <3> QED
      BY <3>1, <3>2 DEF Closures, Waits
  <2>2. e.pcb \in Proc /\ Joins(e)
    BY <1>2, <2>1, ClosureEvents DEF JoinInv
  <2> QED
    BY <2>2 DEF Joins
<1>3. \A p \in Proc : Woken(p)' <=> Woken(p)
  BY DEF Woken
<1>4. \A p \in Proc : Future(p)'
  BY SMT, <1>3 DEF JoinInv, Future
<1> QED
  BY <1>1, <1>2, <1>4 DEF JoinInv

(* exit: the exit_future is set, and its one waiter is woken.               *)
LEMMA JoinExit ==
  ASSUME KernelInv, PlaceInv, JoinInv, NEW c \in Core, Busy(c), NEW P, NEW v, NEW m,
         Exit(c, P, v, m), \A q \in Proc : pcb'[q].children = pcb[q].children
  PROVE  JoinInv'
<1>0. PICK p \in Proc : p = active[c]
  BY Running DEF Busy
<1>1. p \in Proc /\ p \in OnCore
  BY <1>0 DEF OnCore
<1> DEFINE w == sem[p].waiting
<1>2. exits[p] = 0 /\ sem[p].count = 0 /\ ~Woken(p)
  <2>1. exits[p] = 0
    BY <1>1 DEF PlaceInv, Living, Alive
  <2> QED
    BY SMT, <1>1, <2>1 DEF JoinInv, Future
<1>3. /\ created' = created /\ sem' = UpSem(sem, p) /\ ready' = UpReady(sem, ready, p)
      /\ exits' = [exits EXCEPT ![p] = @ + 1]
  BY <1>0 DEF Exit
<1>4. exits'[p] = 1 /\ \A q \in Proc : q # p => exits'[q] = exits[q]
  BY SMT, <1>1, <1>2, <1>3 DEF KernelInv, DataInv
<1>5. /\ \A t \in Proc \cup Sem : t # p => sem'[t] = sem[t]
      /\ w = << >> => sem'[p].waiting = << >> /\ sem'[p].count = 1 /\ ready' = ready
      /\ w # << >> => sem'[p].waiting = Tail(w) /\ sem'[p].count = 0
                        /\ ready' = Append(ready, Head(w))
      /\ w \in Seq(Event)
  BY SMT, <1>1, <1>2, <1>3, EventQueues, UpMoves
<1>6. Closures(sem', ready') = Closures(sem, ready)
  BY <1>1, <1>3, EventQueues, UpPlaces DEF PlaceInv
<1>7. sem'[p].waiting = << >>
  BY <1>1, <1>5, OneWaiter
<1>8. /\ \A q \in Proc : q # p => (Woken(q)' <=> Woken(q))
      /\ w = << >> => ~Woken(p)'
      /\ w # << >> => Woken(p)'
  <2>1. CASE w = << >>
    BY <1>2, <1>5, <2>1 DEF Woken
  <2>2. CASE w # << >>
    <3>1. Range(Append(ready, Head(w))) = Range(ready) \cup {Head(w)}
      BY SMT, <1>5, <2>2, RemoveFacts, EventQueues, AddFacts
    <3>2. Head(w) \in Range(w)
      BY <1>5, <2>2, RemoveFacts
    <3>3. Head(w).kind = "join" /\ Head(w).child = p
      BY <1>1, <3>2 DEF JoinInv
    <3> QED
      BY <1>5, <2>2, <3>1, <3>3 DEF Woken
  <2> QED
    BY <2>1, <2>2
<1> HIDE DEF w
<1>9. \A q \in Proc : Future(q)'
  <2>1. Future(p)'
    BY <1>4, <1>5, <1>7, <1>8 DEF Future
  <2>2. ASSUME NEW q \in Proc, q # p PROVE Future(q)'
    BY SMT, <1>4, <1>5, <1>8, <2>2 DEF JoinInv, Future
  <2> QED
    BY <2>1, <2>2
<1>10. Family'
  BY SMT, <1>3 DEF JoinInv, Family
<1>11. ASSUME NEW e \in Closures(sem', ready'), e.kind = "join" PROVE Joins(e)'
  <2>1. e.pcb \in Proc /\ Joins(e)
    BY <1>6, <1>11, ClosureEvents DEF JoinInv
  <2> QED
    BY <2>1 DEF Joins
<1>12. /\ \A s \in Sem : \A e \in Range(sem'[s].waiting) : e.kind = "down"
       /\ \A q \in Proc : \A e \in Range(sem'[q].waiting) : e.kind = "join" /\ e.child = q
  BY SMT, <1>1, <1>5, <1>7, EmptyFacts, KernelAssumption DEF JoinInv
<1> QED
  BY <1>9, <1>10, <1>11, <1>12 DEF JoinInv

(* fork: a new youngest child, which nobody waits for.                      *)
LEMMA JoinFork ==
  ASSUME KernelInv, PlaceInv, JoinInv, NEW c \in Core, SysFork(c)
  PROVE  JoinInv'
<1> DEFINE p == active[c]
<1>1. PICK child \in Proc \ created : Forked(c, p, child)
  BY ForkPcb
<1>2. sem' = sem /\ exits' = exits
  BY DEF SysFork
<1> DEFINE e0 == [Closure("fork", child) EXCEPT !.ctx = [ctx[c] EXCEPT !.eax = 0]]
<1>3. ready' = Append(ready, e0) /\ e0.kind = "fork" /\ p \in Proc /\ p # child
        /\ created' = created \cup {child}
  BY <1>1 DEF Forked, Closure
<1>4. Range(ready') = Range(ready) \cup {e0}
  <2>1. ready \in Seq(Event \cup {e0})
    BY SMT, EventQueues
  <2> QED
    BY SMT, <1>3, <2>1, AddFacts
<1>5. /\ \A q \in Proc : q # p /\ q # child => pcb'[q].children = pcb[q].children
      /\ pcb'[p].children = Append(pcb[p].children, child)
      /\ pcb'[child].children = << >>
  BY <1>1 DEF Forked
<1> HIDE DEF e0, p
<1>6. Family'
  <2> DEFINE k == pcb[p].children
  <2>1. k \in Seq(Proc) /\ Family
    BY <1>3 DEF KernelInv, PcbInv, PCB, JoinInv
  <2>2. /\ DOMAIN Append(k, child) = 1 .. Len(k) + 1 /\ DOMAIN k = 1 .. Len(k) /\ Len(k) \in Nat
        /\ \A i \in DOMAIN k : Append(k, child)[i] = k[i]
        /\ Append(k, child)[Len(k) + 1] = child
    BY SMT, <2>1
  <2> HIDE DEF k
  <2>3. ASSUME NEW q \in Proc, NEW i \in DOMAIN pcb'[q].children
        PROVE  \/ q = p /\ i = Len(k) + 1 /\ pcb'[q].children[i] = child
               \/ /\ i \in DOMAIN pcb[q].children
                  /\ pcb'[q].children[i] = pcb[q].children[i]
                  /\ pcb[q].children[i] \in created
    <3>1. CASE q = p
      <4>1. \A x \in DOMAIN k : k[x] \in created
        BY SMT, <1>3, <2>1 DEF Family, Range, k
      <4>2. pcb'[q].children = Append(k, child) /\ pcb[q].children = k
        BY <1>5, <3>1 DEF k
      <4> QED
        BY SMT, <2>2, <3>1, <4>1, <4>2
    <3>2. CASE q = child
      BY SMT, <1>5, <3>2
    <3>3. CASE q # p /\ q # child
      BY SMT, <1>5, <2>1, <3>3 DEF Family, Range
    <3> QED
      BY <3>1, <3>2, <3>3
  <2>4. \A q \in Proc : Range(pcb'[q].children) \subseteq created'
    BY <1>3, <2>3 DEF Range
  <2>5. ASSUME NEW q \in Proc, NEW r \in Proc,
               NEW i \in DOMAIN pcb'[q].children, NEW j \in DOMAIN pcb'[r].children,
               pcb'[q].children[i] = pcb'[r].children[j]
        PROVE  q = r /\ i = j
    <3>1. \/ q = p /\ i = Len(k) + 1 /\ pcb'[q].children[i] = child
          \/ /\ i \in DOMAIN pcb[q].children
             /\ pcb'[q].children[i] = pcb[q].children[i]
             /\ pcb[q].children[i] \in created
      BY <2>3
    <3>2. \/ r = p /\ j = Len(k) + 1 /\ pcb'[r].children[j] = child
          \/ /\ j \in DOMAIN pcb[r].children
             /\ pcb'[r].children[j] = pcb[r].children[j]
             /\ pcb[r].children[j] \in created
      BY <2>3
    <3> QED
      BY SMT, <2>1, <2>5, <3>1, <3>2 DEF Family
  <2> QED
    BY <2>4, <2>5 DEF Family
<1>7. ASSUME NEW e \in Closures(sem', ready'), e.kind = "join" PROVE Joins(e)'
  <2>1. e \in Closures(sem, ready)
    BY <1>2, <1>3, <1>4, <1>7 DEF Closures
  <2>2. e.pcb \in Queued(sem, ready) /\ e.pcb \in Proc /\ Joins(e)
    BY <1>7, <2>1, ClosureEvents DEF Queued, JoinInv
  <2>3. e.pcb # p /\ e.pcb # child
    <3>1. p \in OnCore
      BY <1>1 DEF Forked, OnCore, p
    <3>2. child \notin Living
      BY DEF Living, Alive
    <3> QED
      BY <2>2, <3>1, <3>2 DEF PlaceInv
  <2> QED
    BY <1>5, <2>2, <2>3 DEF Joins
<1>8. \A q \in Proc : Woken(q)' <=> Woken(q)
  BY <1>3, <1>4 DEF Woken
<1>9. \A q \in Proc : Future(q)'
  BY <1>2, <1>8 DEF JoinInv, Future
<1> QED
  BY <1>2, <1>6, <1>7, <1>9 DEF JoinInv

(* join blocks on the youngest child, or takes the unit of its exit_future. *)
LEMMA JoinBlock ==
  ASSUME KernelInv, PlaceInv, JoinInv, NEW c \in Core, SysJoin(c),
         pcb[active[c]].children # << >>
  PROVE  JoinInv'
<1>1. Busy(c) /\ active[c] \in Proc
  BY Running, BusyFacts DEF SysJoin, User, Busy
<1>2. PICK p \in Proc : p = active[c]
  BY <1>1
<1>3. PICK child \in Proc : child = PeekChild(p)
  BY <1>2, PeekFacts
<1> DEFINE e == [Closure("join", p) EXCEPT !.child = child]
<1>4. /\ sem' = DownSem(sem, child, e) /\ ready' = DownReady(sem, ready, child, e)
      /\ created' = created /\ exits' = exits
  BY <1>2, <1>3 DEF SysJoin, procVars
<1>5. \A q \in Proc : pcb'[q].children = pcb[q].children
  <2>1. Only(p, {"page_directory", "user_context"})
    BY <1>2, PcbEffect
  <2> QED
    BY <2>1 DEF Only, Fields
<1>6. e \in Event /\ e.pcb = p /\ e.kind = "join" /\ e.child = child
  BY DEF Closure, Event
<1> HIDE DEF e
<1>7. p \in OnCore /\ p \notin Queued(sem, ready)
  BY <1>1, <1>2 DEF OnCore, PlaceInv
<1>8. \A f \in Closures(sem, ready) : f.kind = "join" => f.child # child
  <2>1. pcb[p].children # << >> /\ child = pcb[p].children[Len(pcb[p].children)]
    BY <1>2, <1>3 DEF PeekChild
  <2> QED
    BY <1>7, <2>1, SameJoiner DEF Queued
<1>9. ~Woken(child)
  BY <1>8 DEF Woken, Closures
<1>10. Closures(sem', ready') = Closures(sem, ready) \cup {e}
  BY SMT, <1>4, <1>6, <1>7, EventQueues, DownPlaces DEF PlaceInv
<1>11. ASSUME NEW f \in Closures(sem', ready'), f.kind = "join" PROVE Joins(f)'
  <2>1. f.pcb \in Proc /\ Joins(f)
    <3>1. CASE f = e
      BY <1>2, <1>3, <1>6, <3>1 DEF Joins, PeekChild
    <3>2. CASE f \in Closures(sem, ready)
      BY <1>11, <3>2, ClosureEvents DEF JoinInv
    <3> QED
      BY <1>10, <3>1, <3>2
  <2> QED
    BY <1>5, <2>1 DEF Joins
<1>12. /\ \A t \in Proc \cup Sem : t # child => sem'[t] = sem[t]
       /\ sem[child].count > 0 =>
            /\ sem'[child].waiting = sem[child].waiting
            /\ sem'[child].count = sem[child].count - 1
            /\ ready' = Append(ready, e)
       /\ sem[child].count = 0 =>
            /\ sem'[child].waiting = Append(sem[child].waiting, e)
            /\ sem'[child].count = 0
            /\ ready' = ready
       /\ sem[child].waiting \in Seq(Event)
  BY SMT, <1>4, <1>6, EventQueues, DownMoves
<1>13. /\ Range(Append(ready, e)) = Range(ready) \cup {e}
       /\ Range(Append(sem[child].waiting, e)) = Range(sem[child].waiting) \cup {e}
  BY SMT, <1>6, <1>12, EventQueues, AddFacts
<1>14. \A q \in Proc : q # child => (Woken(q)' <=> Woken(q))
  <2>1. Range(ready') \subseteq Range(ready) \cup {e} /\ Range(ready) \subseteq Range(ready')
    <3>1. sem[child].count \in Nat
      BY EventQueues DEF Semaphores
    <3>2. CASE sem[child].count > 0
      BY <1>12, <1>13, <3>2
    <3>3. CASE sem[child].count = 0
      BY <1>12, <3>3
    <3> QED
      BY SMT, <3>1, <3>2, <3>3
  <2> QED
    BY <1>6, <2>1 DEF Woken
<1>15. Future(child)'
  <2>1. CASE exits[child] = 0
    <3>1. sem[child].count = 0
      BY <2>1 DEF JoinInv, Future
    <3>2. sem'[child].count = 0 /\ ready' = ready
      BY <1>12, <3>1
    <3> QED
      BY <1>4, <1>9, <2>1, <3>2 DEF Future, Woken
  <2>2. CASE exits[child] # 0
    <3>1. exits[child] = 1 /\ sem[child].count = 1 /\ sem[child].waiting = << >>
      BY <1>9, <2>2 DEF JoinInv, Future
    <3>2. sem'[child].count = 0 /\ ready' = Append(ready, e) /\ sem'[child].waiting = << >>
      BY SMT, <1>12, <3>1
    <3>3. Woken(child)'
      BY <1>6, <1>13, <3>2 DEF Woken
    <3> QED
      BY <1>4, <3>1, <3>2, <3>3 DEF Future
  <2> QED
    BY <2>1, <2>2
<1>16. ASSUME NEW q \in Proc, q # child PROVE Future(q)'
  <2>1. Future(q) /\ sem'[q] = sem[q] /\ exits'[q] = exits[q]
    BY <1>4, <1>12, <1>16 DEF JoinInv
  <2> QED
    BY <1>14, <1>16, <2>1 DEF Future
<1>17. Family'
  BY SMT, <1>4, <1>5 DEF JoinInv, Family
<1>18. \A s \in Sem : \A f \in Range(sem'[s].waiting) : f.kind = "down"
  BY SMT, <1>12, KernelAssumption DEF JoinInv
<1>19. ASSUME NEW q \in Proc, NEW f \in Range(sem'[q].waiting) PROVE f.kind = "join" /\ f.child = q
  <2>1. CASE q # child
    BY <1>12, <1>19, <2>1 DEF JoinInv
  <2>2. CASE q = child
    <3>1. f \in Range(sem[child].waiting) \/ f = e
      <4>1. sem[child].count \in Nat
        BY EventQueues DEF Semaphores
      <4>2. CASE sem[child].count > 0
        BY <1>12, <1>19, <2>2, <4>2
      <4>3. CASE sem[child].count = 0
        BY <1>12, <1>13, <1>19, <2>2, <4>3
      <4> QED
        BY SMT, <4>1, <4>2, <4>3
    <3> QED
      BY <1>6, <2>2, <3>1 DEF JoinInv
  <2> QED
    BY <2>1, <2>2
<1> QED
  BY <1>11, <1>15, <1>16, <1>17, <1>18, <1>19 DEF JoinInv

(* The closure of a join: the child is popped and its exit_future is upped  *)
(* again.                                                                   *)
LEMMA JoinRun ==
  ASSUME KernelInv, PlaceInv, JoinInv, NEW c \in Core, RunJoin(c)
  PROVE  JoinInv'
<1>1. /\ ready # << >> /\ Head(ready).kind = "join"
      /\ created' = created /\ exits' = exits
  BY DEF RunJoin, Next1, procVars
<1>2. PICK e \in Event : e = Head(ready)
  BY <1>1, HeadFacts DEF Runnable
<1>3. PICK p \in Proc : p = e.pcb
  BY <1>1, <1>2, HeadFacts
<1>4. PICK child \in Proc : child = e.child
  BY <1>1, <1>2, HeadFacts DEF Runnable
<1> DEFINE R == Tail(ready)
           k == pcb[p].children
<1>5. /\ sem' = UpSem(sem, child) /\ ready' = UpReady(sem, R, child)
  BY <1>2, <1>4 DEF RunJoin
<1>6. /\ \A q \in Proc : q # p => pcb'[q].children = pcb[q].children
      /\ pcb'[p].children = SubSeq(k, 1, Len(k) - 1)
  <2>1. Only(p, {"user_context", "children"})
    BY <1>2, <1>3, PcbEffect
  <2>2. pcb[p] \in PCB /\ pcb \in [Proc -> PCB]
    BY DEF KernelInv, PcbInv
  <2>3. pcb' = [pcb EXCEPT ![p] = [pcb[p] EXCEPT
                  !.children = SubSeq(k, 1, Len(k) - 1),
                  !.user_context.eax = exit_value[child]]]
    BY <1>2, <1>3, <1>4 DEF RunJoin
  <2>4. pcb'[p].children = SubSeq(k, 1, Len(k) - 1)
    BY <2>2, <2>3 DEF PCB
  <2> QED
    BY <2>1, <2>4 DEF Only
<1>7. /\ e \in Range(ready) /\ Range(ready) = Range(R) \cup {e}
      /\ R \in Seq(Event) /\ sem \in Semaphores(Event)
  BY <1>1, <1>2, EventQueues, RemoveFacts
<1>8. Joins(e) /\ Woken(child)
  BY <1>1, <1>2, <1>4, <1>7 DEF JoinInv, Closures, Woken
<1>9. exits[child] = 1 /\ sem[child].waiting = << >> /\ sem[child].count = 0
  BY <1>8 DEF JoinInv, Future
<1>10. /\ \A t \in Proc \cup Sem : t # child => sem'[t] = sem[t]
       /\ sem'[child].waiting = << >> /\ sem'[child].count = 1
       /\ ready' = R
  <2> HIDE DEF R
  <2>1. /\ \A t \in Proc \cup Sem : t # child => UpSem(sem, child)[t] = sem[t]
        /\ UpSem(sem, child)[child].waiting = << >>
        /\ UpSem(sem, child)[child].count = sem[child].count + 1
        /\ UpReady(sem, R, child) = R
    BY SMT, <1>7, <1>9, UpMoves
  <2> QED
    BY SMT, <1>5, <1>9, <2>1
<1>11. p \notin Queued(sem, R)
  BY <1>1, <1>2, <1>3, EventQueues, TakePlaces DEF PlaceInv
<1> HIDE DEF R
<1>12. ASSUME NEW f \in Closures(sem', ready')
       PROVE  f \in Closures(sem, ready) /\ f.pcb # p
  <2>1. f \in Closures(sem, R)
    BY SMT, <1>9, <1>10 DEF Closures, Waits
  <2> QED
    BY <1>7, <1>11, <2>1 DEF Closures, Queued
<1>13. ASSUME NEW f \in Closures(sem', ready'), f.kind = "join"
       PROVE  Joins(f)' /\ f.child # child
  <2>1. f \in Closures(sem, ready) /\ f.pcb # p /\ f.pcb \in Proc /\ Joins(f)
    BY <1>12, <1>13, ClosureEvents DEF JoinInv
  <2>2. Joins(f)'
    BY <1>6, <2>1 DEF Joins
  <2>3. f.child # child
    BY <1>3, <1>4, <1>8, <1>13, <2>1, SameJoiner DEF Joins
  <2> QED
    BY <2>2, <2>3
<1>14. ~Woken(child)'
  BY <1>13 DEF Woken, Closures
<1>15. \A q \in Proc : q # child => (Woken(q)' <=> Woken(q))
  BY <1>4, <1>7, <1>10 DEF Woken
<1>16. Future(child)'
  BY <1>1, <1>9, <1>10, <1>14 DEF Future
<1>17. ASSUME NEW q \in Proc, q # child PROVE Future(q)'
  <2>1. Future(q) /\ sem'[q] = sem[q] /\ exits'[q] = exits[q]
    BY <1>1, <1>10, <1>17 DEF JoinInv
  <2> QED
    BY <1>15, <1>17, <2>1 DEF Future
<1>18. Family'
  <2>1. k \in Seq(Proc) /\ Family
    BY DEF KernelInv, PcbInv, PCB, JoinInv
  <2>2. \A i \in DOMAIN SubSeq(k, 1, Len(k) - 1) :
          i \in DOMAIN k /\ SubSeq(k, 1, Len(k) - 1)[i] = k[i]
    BY SMT, <2>1
  <2>3. ASSUME NEW q \in Proc, NEW i \in DOMAIN pcb'[q].children
        PROVE  i \in DOMAIN pcb[q].children /\ pcb'[q].children[i] = pcb[q].children[i]
    BY <1>6, <2>2
  <2>4. \A q \in Proc : Range(pcb'[q].children) \subseteq created'
    BY SMT, <1>1, <2>1, <2>3 DEF Family, Range
  <2>5. \A q, r \in Proc : \A i \in DOMAIN pcb'[q].children, j \in DOMAIN pcb'[r].children :
          pcb'[q].children[i] = pcb'[r].children[j] => q = r /\ i = j
    BY SMT, <2>1, <2>3 DEF Family
  <2> QED
    BY <2>4, <2>5 DEF Family
<1>19. /\ \A s \in Sem : \A f \in Range(sem'[s].waiting) : f.kind = "down"
       /\ \A q \in Proc : \A f \in Range(sem'[q].waiting) : f.kind = "join" /\ f.child = q
  BY SMT, <1>10, EmptyFacts, KernelAssumption DEF JoinInv
<1> QED
  BY <1>13, <1>16, <1>17, <1>18, <1>19 DEF JoinInv

(* The other steps of the ready queue.                                      *)
LEMMA ReadyKept ==
  ASSUME KernelInv, JoinInv, sem' = sem, created' = created, exits' = exits,
         Kept(Fields \ {"children"}),
         \/ ready' = ready
         \/ \E e : ready' = Append(ready, e) /\ e.kind # "join"
         \/ ready # << >> /\ ready' = Tail(ready) /\ Head(ready).kind # "join"
  PROVE  JoinInv'
<1>1. \A q \in Proc : pcb'[q].children = pcb[q].children
  BY DEF Kept, Fields
<1>2. \A e : e.kind = "join" => (e \in Range(ready') <=> e \in Range(ready))
  <2>1. ASSUME NEW e, ready' = Append(ready, e), e.kind # "join"
        PROVE  \A f : f.kind = "join" => (f \in Range(ready') <=> f \in Range(ready))
    <3>1. ready \in Seq(Event \cup {e})
      BY SMT, EventQueues
    <3>2. Range(ready') = Range(ready) \cup {e}
      BY SMT, <2>1, <3>1, AddFacts
    <3> QED
      BY <2>1, <3>2
  <2>2. ASSUME ready # << >>, ready' = Tail(ready), Head(ready).kind # "join"
        PROVE  \A f : f.kind = "join" => (f \in Range(ready') <=> f \in Range(ready))
    <3>1. Range(ready) = Range(Tail(ready)) \cup {Head(ready)}
      BY <2>2, EventQueues, RemoveFacts
    <3> QED
      BY <2>2, <3>1
  <2> QED
    BY <2>1, <2>2
<1> QED
  BY <1>1, <1>2, JoinKept DEF JoinInv

(* up and down on a user semaphore move no join.                            *)
LEMMA JoinSem ==
  ASSUME KernelInv, JoinInv, NEW c \in Core, SysSem(c) \/ SysUp(c) \/ SysDown(c) \/ SysSemClose(c)
  PROVE  JoinInv'
<1>1. \A q \in Proc : pcb'[q].children = pcb[q].children
  <2>1. active[c] \in Proc
    BY Running DEF SysSem, SysUp, SysDown, SysSemClose, User, Idle
  <2>2. pcb' = pcb \/ Only(active[c], {"semaphores"})
          \/ Only(active[c], {"page_directory", "user_context"})
    BY PcbEffect
  <2> QED
    BY <2>1, <2>2 DEF Only, Fields
<1>2. created' = created /\ exits' = exits
  BY DEF SysSem, SysUp, SysDown, SysSemClose, procVars
<1>3. sem \in Semaphores(Event) /\ ready \in Seq(Event)
  BY EventQueues
<1>4. \A p \in Proc : p \notin Sem
  BY KernelAssumption
<1>5. active[c] \in Proc
  BY Running DEF SysSem, SysUp, SysDown, SysSemClose, User, Idle
<1>6. \A i \in Slot : pcb[active[c]].semaphores[i] # Null => pcb[active[c]].semaphores[i] \in Sem
  BY SMT, <1>5 DEF KernelInv, PcbInv, PCB
<1>7. CASE sem' = sem /\ ready' = ready
  BY <1>1, <1>2, <1>7, JoinKept DEF JoinInv
<1>8. ASSUME NEW s \in Sem, NEW n, sem' = [sem EXCEPT ![s].count = n], ready' = ready
      PROVE  JoinInv'
  <2>1. /\ \A t \in Proc : sem'[t] = sem[t]
        /\ \A t \in Sem : sem'[t].waiting = sem[t].waiting
    BY <1>3, <1>4, <1>8 DEF Semaphores
  <2> QED
    BY <1>1, <1>2, <1>8, <2>1, JoinKept DEF JoinInv
<1>9. ASSUME NEW s \in Sem, sem' = UpSem(sem, s), ready' = UpReady(sem, ready, s)
      PROVE  JoinInv'
  <2> DEFINE w == sem[s].waiting
  <2>1. /\ \A t \in Proc \cup Sem : t # s => UpSem(sem, s)[t] = sem[t]
        /\ w = << >> => UpSem(sem, s)[s].waiting = << >> /\ UpReady(sem, ready, s) = ready
        /\ w # << >> => /\ UpSem(sem, s)[s].waiting = Tail(w)
                        /\ UpReady(sem, ready, s) = Append(ready, Head(w))
        /\ w \in Seq(Event)
    BY SMT, <1>3, UpMoves
  <2>2. \A t \in Proc : sem'[t] = sem[t]
    BY <1>4, <1>9, <2>1
  <2>3. \A e \in Range(w) : e.kind = "down"
    BY DEF JoinInv
  <2> HIDE DEF w
  <2>4. CASE w = << >>
    <3>1. \A t \in Sem : Range(sem'[t].waiting) \subseteq Range(sem[t].waiting)
      BY <1>9, <2>1, <2>4 DEF w
    <3>2. ready' = ready
      BY <1>9, <2>1, <2>4
    <3> QED
      BY <1>1, <1>2, <2>2, <3>1, <3>2, JoinKept DEF JoinInv
  <2>5. CASE w # << >>
    <3>1. Head(w) \in Event /\ Head(w) \in Range(w) /\ Range(w) = Range(Tail(w)) \cup {Head(w)}
      BY <2>1, <2>5, RemoveFacts
    <3>2. \A t \in Sem : Range(sem'[t].waiting) \subseteq Range(sem[t].waiting)
      BY <1>9, <2>1, <2>5, <3>1 DEF w
    <3>3. ready' = Append(ready, Head(w)) /\ Head(w).kind # "join"
      BY <1>9, <2>1, <2>3, <2>5, <3>1
    <3>4. Range(ready') = Range(ready) \cup {Head(w)}
      BY SMT, <1>3, <3>1, <3>3, AddFacts
    <3>5. \A e : e.kind = "join" => (e \in Range(ready') <=> e \in Range(ready))
      BY <3>3, <3>4
    <3>6. \A t \in Sem : \A e \in Range(sem'[t].waiting) : e.kind = "down"
      BY <3>2 DEF JoinInv
    <3> QED
      BY <1>1, <1>2, <2>2, <3>5, <3>6, JoinKept
  <2> QED
    BY <2>4, <2>5
<1>10. ASSUME NEW s \in Sem, NEW e \in Event, e.kind = "down",
              sem' = DownSem(sem, s, e), ready' = DownReady(sem, ready, s, e)
       PROVE  JoinInv'
  <2>1. /\ \A t \in Proc \cup Sem : t # s => DownSem(sem, s, e)[t] = sem[t]
        /\ sem[s].count > 0 => /\ DownSem(sem, s, e)[s].waiting = sem[s].waiting
                               /\ DownReady(sem, ready, s, e) = Append(ready, e)
        /\ sem[s].count = 0 => /\ DownSem(sem, s, e)[s].waiting = Append(sem[s].waiting, e)
                               /\ DownReady(sem, ready, s, e) = ready
        /\ sem[s].waiting \in Seq(Event) /\ sem[s].count \in Nat
    BY SMT, <1>3, <1>10, DownMoves
  <2>2. /\ Range(Append(sem[s].waiting, e)) = Range(sem[s].waiting) \cup {e}
        /\ Range(Append(ready, e)) = Range(ready) \cup {e}
    BY SMT, <1>3, <2>1, AddFacts
  <2>3. \A t \in Proc : sem'[t] = sem[t]
    BY <1>4, <1>10, <2>1
  <2>4. ASSUME NEW t \in Sem, NEW f \in Range(sem'[t].waiting) PROVE f.kind = "down"
    <3>1. f \in Range(sem[t].waiting) \/ f = e
      <4>1. CASE t # s
        BY <1>10, <2>1, <2>4, <4>1
      <4>2. CASE t = s /\ sem[s].count > 0
        BY <1>10, <2>1, <2>4, <4>2
      <4>3. CASE t = s /\ sem[s].count = 0
        BY <1>10, <2>1, <2>2, <2>4, <4>3
      <4> QED
        BY SMT, <2>1, <4>1, <4>2, <4>3
    <3> QED
      BY <1>10, <3>1 DEF JoinInv
  <2>5. \A f : f.kind = "join" => (f \in Range(ready') <=> f \in Range(ready))
    <3>1. CASE sem[s].count > 0
      BY <1>10, <2>1, <2>2, <3>1
    <3>2. CASE sem[s].count = 0
      BY <1>10, <2>1, <3>2
    <3> QED
      BY SMT, <2>1, <3>1, <3>2
  <2> QED
    BY <1>1, <1>2, <2>3, <2>4, <2>5, JoinKept
<1>11. CASE SysSem(c)
  BY <1>7, <1>8, <1>11 DEF SysSem
<1>12. CASE SysUp(c)
  BY <1>6, <1>7, <1>9, <1>12 DEF SysUp
<1>13. CASE SysDown(c)
  <2>1. Closure("down", active[c]) \in Event /\ Closure("down", active[c]).kind = "down"
    BY <1>5 DEF Closure, Event
  <2> QED
    BY <1>6, <1>7, <1>10, <1>13, <2>1 DEF SysDown
<1>14. CASE SysSemClose(c)
  BY <1>7, <1>14 DEF SysSemClose
<1> QED
  BY <1>11, <1>12, <1>13, <1>14

(* What the steps that neither fork, join, exit nor touch a semaphore do to *)
(* the queues.                                                              *)
LEMMA JoinRest ==
  ASSUME KernelInv, PlaceInv, JoinInv, NEW c \in Core,
         \/ SysYield(c) \/ SysExecl(c) \/ SysSimpleSignal(c) \/ SysSigreturn(c) \/ SysKill(c)
         \/ SysBadPointer(c) \/ TimerKernel(c) \/ TimerSwitch(c) \/ FaultReturn(c) \/ Trap(c)
         \/ RunResume(c) \/ RunDown(c) \/ RunStart(c)
  PROVE  JoinInv'
<1> DEFINE Quiet == \/ ready' = ready
                    \/ \E e : ready' = Append(ready, e) /\ e.kind # "join"
                    \/ ready # << >> /\ ready' = Tail(ready) /\ Head(ready).kind # "join"
<1>0. ASSUME NEW p \in Proc, NEW F, Only(p, F), "children" \notin F
      PROVE  Kept(Fields \ {"children"})
  BY <1>0 DEF Only, Kept, Fields
<1>1. \A k \in {"resume", "execl"}, p \in Proc : \A u :
        Closure(k, p).kind # "join" /\ [Closure(k, p) EXCEPT !.ctx = u].kind # "join"
  BY DEF Closure
<1>2. ASSUME NEW P, NEW u, NEW m, SwitchProcesses(c, P, u, m), active[c] \in Proc
      PROVE  sem' = sem /\ created' = created /\ exits' = exits /\ Quiet
  BY <1>1, <1>2 DEF SwitchProcesses, procVars
<1>3. mode[c] \notin Idle => active[c] \in Proc
  BY Running
<1>4. /\ SysYield(c) => \E P, u, m : SwitchProcesses(c, P, u, m)
      /\ TimerSwitch(c) => \E P, u, m : SwitchProcesses(c, P, u, m)
      /\ LeaveHandler(c) => \E P, u, m : SwitchProcesses(c, P, u, m)
  BY DEF SysYield, TimerSwitch, LeaveHandler
<1>5. CASE SysYield(c) \/ TimerSwitch(c) \/ FaultReturn(c)
  <2>1. active[c] \in Proc
    BY <1>3, <1>5 DEF SysYield, TimerSwitch, FaultReturn, User, Idle
  <2>2. sem' = sem /\ created' = created /\ exits' = exits /\ Quiet
    BY <1>2, <1>4, <1>5, <2>1 DEF FaultReturn
  <2>3. Kept(Fields \ {"children"})
    <3>1. \/ Only(active[c], {"page_directory", "user_context"})
          \/ Only(active[c], {"page_directory", "user_context", "in_handler",
                              "handler_user_context", "handled"})
      BY <1>5, PcbEffect DEF Fault
    <3> QED
      BY <1>0, <2>1, <3>1
  <2> QED
    BY <2>2, <2>3, ReadyKept
<1>6. CASE SysSigreturn(c)
  <2>1. active[c] \in Proc
    BY <1>3, <1>6 DEF SysSigreturn, User, Idle
  <2>2. sem' = sem /\ created' = created /\ exits' = exits /\ Quiet
    BY <1>2, <1>4, <1>6, <2>1 DEF SysSigreturn, procVars
  <2>3. Kept(Fields \ {"children"})
    <3>1. Only(active[c], {"page_directory", "user_context", "in_handler",
                           "handler_user_context", "handled"})
      BY <1>6, PcbEffect
    <3> QED
      BY <1>0, <2>1, <3>1
  <2> QED
    BY <2>2, <2>3, ReadyKept
<1>7. CASE SysReturn(c)
  <2>1. active[c] \in Proc
    BY <1>3, <1>7 DEF SysReturn, Idle
  <2>2. sem' = sem /\ created' = created /\ exits' = exits /\ Quiet
    BY <1>2, <1>7, <2>1 DEF SysReturn, procVars
  <2>3. Kept(Fields \ {"children"})
    <3>1. Only(active[c], {"page_directory", "user_context"})
      BY <1>7, PcbEffect
    <3> QED
      BY <1>0, <2>1, <3>1
  <2> QED
    BY <2>2, <2>3, ReadyKept
<1>8. CASE SysExeclLoad(c)
  <2>1. active[c] \in Proc
    BY <1>3, <1>8 DEF SysExeclLoad, Idle
  <2>2. sem' = sem /\ created' = created /\ exits' = exits /\ Quiet
    BY <1>1, <1>8, <2>1 DEF SysExeclLoad, ExeclClosure, procVars
  <2>3. Kept(Fields \ {"children"})
    <3>1. Only(active[c], {"page_directory", "user_context"})
      BY <1>8, PcbEffect
    <3> QED
      BY <1>0, <2>1, <3>1
  <2> QED
    BY <2>2, <2>3, ReadyKept
<1>9. CASE \/ SysExecl(c) \/ SysSimpleSignal(c) \/ SysKill(c) \/ TimerKernel(c)
           \/ SysKillValue(c) \/ SysBadPointer(c)
  <2>1. sem' = sem /\ ready' = ready /\ created' = created /\ exits' = exits
    BY <1>9 DEF SysExecl, SysBadPointer, SysSimpleSignal, SysKill, TimerKernel, SysKillValue, procVars
  <2>2. Kept(Fields \ {"children"})
    <3>1. SysSimpleSignal(c) => active[c] \in Proc
      BY <1>3 DEF SysSimpleSignal, User, Idle
    <3> QED
      BY <1>0, <1>9, <3>1, PcbEffect DEF Kept, Fields
  <2> QED
    BY <2>1, <2>2, ReadyKept
<1>10. CASE RunResume(c) \/ RunDown(c) \/ RunStart(c)
  <2>1. sem' = sem /\ created' = created /\ exits' = exits /\ Quiet
    BY <1>10 DEF RunResume, RunDown, RunStart, Next1, procVars
  <2>2. Kept(Fields \ {"children"})
    <3>1. RunDown(c) => Head(ready).pcb \in Proc
      BY HeadFacts DEF RunDown, Next1
    <3> QED
      BY <1>10, <3>1, PcbEffect DEF Only, Kept, Fields
  <2> QED
    BY <2>1, <2>2, ReadyKept
<1> QED
  BY <1>5, <1>6, <1>7, <1>8, <1>9, <1>10 DEF Trap

(* Every step keeps joins and exit futures in order.                        *)
LEMMA JoinStep == KernelInv /\ PlaceInv /\ JoinInv /\ [Next]_vars => JoinInv'
<1> SUFFICES ASSUME KernelInv, PlaceInv, JoinInv, [Next]_vars PROVE JoinInv'
  OBVIOUS
<1>1. CASE UNCHANGED vars
  <2>1. UNCHANGED <<pcb, sem, ready, created, exits>>
    BY <1>1 DEF vars, procVars
  <2> QED
    BY <2>1, JoinKept DEF JoinInv
<1>2. ASSUME NEW c \in Core,
             Syscall(c) \/ Fault(c) \/ Timer(c) \/ Trap(c) \/ EventLoop(c)
      PROVE  JoinInv'
  <2>1. CASE SysExit(c) \/ TimerKill(c) \/ FaultSegv(c)
    <3>1. Busy(c) /\ active[c] \in Proc
      BY <2>1, BusyFacts, Running DEF SysExit, TimerKill, FaultSegv, User, Busy
    <3>2. \A q \in Proc : pcb'[q].children = pcb[q].children
      BY <2>1, <3>1, PcbEffect DEF Fault, Only, Fields
    <3>3. CASE \E P, v, m : Exit(c, P, v, m)
      BY <3>1, <3>2, <3>3, JoinExit
    <3>4. CASE \E P : EnterHandler(c, P)
      <4>1. UNCHANGED <<sem, ready, created, exits>>
        BY <3>4 DEF EnterHandler, procVars
      <4> QED
        BY <3>2, <4>1, JoinKept DEF JoinInv
    <3> QED
      BY <2>1, <3>3, <3>4 DEF SysExit, TimerKill, FaultSegv, CallHandler
  <2>2. CASE SysJoin(c)
    <3>1. CASE pcb[active[c]].children # << >>
      BY <2>2, <3>1, JoinBlock
    <3>2. CASE pcb[active[c]].children = << >>
      <4>1. UNCHANGED <<sem, ready, created, exits>>
        BY <2>2, <3>2 DEF SysJoin, procVars
      <4>2. active[c] \in Proc
        BY <2>2, Running DEF SysJoin, User, Idle
      <4>3. \A q \in Proc : pcb'[q].children = pcb[q].children
        BY <2>2, <4>2, PcbEffect DEF Only, Fields
      <4> QED
        BY <4>1, <4>3, JoinKept DEF JoinInv
    <3> QED
      BY <3>1, <3>2
  <2> QED
    BY <1>2, <2>1, <2>2, JoinFork, JoinSem, JoinRun, JoinRest
       DEF Syscall, Fault, Timer, EventLoop
<1> QED
  BY <1>1, <1>2 DEF Next

(* At boot nobody joins.                                                    *)
LEMMA JoinInit == Init => JoinInv
<1> SUFFICES ASSUME Init PROVE JoinInv
  OBVIOUS
<1> USE KernelAssumption
<1>1. \A p \in Proc : pcb[p].children = << >>
  BY DEF Init, NewPCB
<1>2. ready = << >> /\ \A s \in Proc \cup Sem : sem[s].count = 0 /\ sem[s].waiting = << >>
  BY DEF Init
<1>3. Family
  BY SMT, <1>1, EmptyFacts DEF Family
<1>4. Closures(sem, ready) = {}
  BY <1>2, EmptyFacts DEF Closures, Waits
<1>5. \A p \in Proc : Future(p)
  BY <1>2, EmptyFacts DEF Init, Future, Woken
<1> QED
  BY <1>2, <1>3, <1>4, <1>5, EmptyFacts DEF JoinInv

----------------------------------------------------------------------------
(* The processes other than p, with theirs.                                 *)
Elsewhere(p) == {x \in Contexts : x[1] # p}

(* Registers that differ in eax only.                                       *)
SameUser(u, v) == u.image = v.image /\ u.pos = v.pos

(* A step of core c for process p moves p only: the others keep their       *)
(* registers.                                                               *)
LEMMA OthersKept ==
  ASSUME KernelInv, PlaceInv, NEW c \in Core, NEW p \in Proc, NEW N,
         \A d \in Core : d # c => mode'[d] = mode[d] /\ active'[d] = active[d] /\ ctx'[d] = ctx[d],
         \A d \in Core : d # c /\ Busy(d) => active[d] # p,
         \A e \in Closures(sem', ready') :
           e \in N \/ (e \in Closures(sem, ready) /\ e.pcb # p),
         \A q \in created : q # p => pcb'[q].user_context = pcb[q].user_context
  PROVE  Contexts' \subseteq Elsewhere(p) \cup {<<e.pcb, Saved(e)'>> : e \in N}
                               \cup {x \in {<<active'[c], ctx'[c]>>} : Busy(c)'}
<1>1. ASSUME NEW x \in CoreContexts'
      PROVE  x \in Elsewhere(p) \cup {y \in {<<active'[c], ctx'[c]>>} : Busy(c)'}
  <2>1. PICK d \in Core : Busy(d)' /\ x = <<active'[d], ctx'[d]>>
    BY DEF CoreContexts
  <2>2. CASE d = c
    BY <2>1, <2>2
  <2>3. CASE d # c
    <3>1. Busy(d) /\ active'[d] = active[d] /\ ctx'[d] = ctx[d] /\ active[d] # p
      BY <2>1, <2>3 DEF Busy
    <3>2. x = <<active[d], ctx[d]>>
      BY <2>1, <3>1
    <3> QED
      BY <3>1, <3>2 DEF Elsewhere, Contexts, CoreContexts
  <2> QED
    BY <2>2, <2>3
<1>2. ASSUME NEW e \in Closures(sem', ready')
      PROVE  <<e.pcb, Saved(e)'>> \in Elsewhere(p) \cup {<<f.pcb, Saved(f)'>> : f \in N}
  <2>1. CASE e \in N
    BY <2>1
  <2>2. CASE e \in Closures(sem, ready) /\ e.pcb # p
    <3>1. e.pcb \in Living
      BY <2>2 DEF PlaceInv, Queued
    <3>2. e.pcb \in created
      BY <3>1 DEF Living, Alive
    <3>3. Saved(e)' = Saved(e)
      BY <2>2, <3>2 DEF Saved
    <3> QED
      BY <2>2, <3>3 DEF Elsewhere, Contexts
  <2> QED
    BY <2>1, <2>2
<1>3. \A x \in Contexts' : x \in CoreContexts'
        \/ \E e \in Closures(sem', ready') : x = <<e.pcb, Saved(e)'>>
  BY DEF Contexts
<1> QED
  BY <1>1, <1>2, <1>3

(* Where the process of a busy core is, and where it is not.                *)
LEMMA BusyPlace ==
  ASSUME KernelInv, PlaceInv, NEW c \in Core, Busy(c)
  PROVE  /\ active[c] \in Proc /\ active[c] \in created /\ ctx[c] \in Context
         /\ <<active[c], ctx[c]>> \in Contexts
         /\ \A d \in Core : d # c /\ Busy(d) => active[d] # active[c]
         /\ \A e \in Closures(sem, ready) : e.pcb # active[c]
<1>1. active[c] \in OnCore
  BY DEF OnCore
<1>2. \A e \in Closures(sem, ready) : e.pcb \in Queued(sem, ready)
  BY DEF Queued
<1>3. \A e \in Closures(sem, ready) : e.pcb # active[c]
  BY <1>1, <1>2 DEF PlaceInv
<1>4. \A d \in Core : d # c /\ Busy(d) => active[d] # active[c]
  BY DEF PlaceInv, Alone
<1>5. <<active[c], ctx[c]>> \in Contexts
  BY DEF Contexts, CoreContexts
<1> QED
  BY <1>3, <1>4, <1>5, Running DEF Busy

(* The process at the head of the ready queue.                              *)
LEMMA HeadPlace ==
  ASSUME KernelInv, PlaceInv, ready # << >>
  PROVE  /\ Head(ready) \in Runnable /\ Head(ready) \in Closures(sem, ready)
         /\ Head(ready).pcb \in Proc /\ Head(ready).pcb \in created
         /\ Saved(Head(ready)) \in Context
         /\ <<Head(ready).pcb, Saved(Head(ready))>> \in Contexts
         /\ \A d \in Core : Busy(d) => active[d] # Head(ready).pcb
         /\ \A e \in Closures(sem, Tail(ready)) :
              e \in Closures(sem, ready) /\ e.pcb # Head(ready).pcb
<1> DEFINE h == Head(ready)
<1>1. h \in Runnable /\ h.pcb \in Proc /\ h.pcb \in created
  BY HeadFacts
<1>2. sem \in Semaphores(Event) /\ ready \in Seq(Event) /\ Apart(sem, ready)
  BY EventQueues DEF PlaceInv
<1>3. /\ Closures(sem, ready) = Closures(sem, Tail(ready)) \cup {h}
      /\ h.pcb \notin Queued(sem, Tail(ready))
  BY SMT, <1>2, TakePlaces
<1>4. h \in Closures(sem, ready)
  BY <1>3
<1>5. \A e \in Closures(sem, Tail(ready)) : e \in Closures(sem, ready) /\ e.pcb # h.pcb
  BY <1>3 DEF Queued
<1>6. Saved(h) \in Context
  <2>1. h.kind \in {"resume", "down", "join", "fork", "execl"}
    BY <1>1 DEF Runnable, Event
  <2> QED
    BY <1>1, <2>1 DEF Runnable, Saved
<1>7. <<h.pcb, Saved(h)>> \in Contexts
  BY <1>4 DEF Contexts
<1>8. \A d \in Core : Busy(d) => active[d] # h.pcb
  BY <1>4 DEF PlaceInv, OnCore, Queued
<1> QED
  BY <1>1, <1>4, <1>5, <1>6, <1>7, <1>8

----------------------------------------------------------------------------
(* The step leaves process p with registers u and moves no other process.   *)
Moves(p, u) == Contexts' \subseteq Elsewhere(p) \cup {<<p, u>>}

(* The process of core c goes on, or has left its core, with its registers, *)
(* except for eax.                                                          *)
Quiet(c) == \E u : SameUser(u, ctx[c]) /\ Moves(active[c], u)

(* Steps of a core that queue no closure.                                   *)
LEMMA StayContexts ==
  ASSUME KernelInv, PlaceInv, NEW c \in Core, Busy(c), active' = active,
         \A d \in Core : d # c => mode'[d] = mode[d] /\ ctx'[d] = ctx[d],
         Closures(sem', ready') = Closures(sem, ready),
         \A q \in created : q # active[c] => pcb'[q].user_context = pcb[q].user_context
  PROVE  Moves(active[c], ctx'[c])
<1>1. PICK p \in Proc : p = active[c]
  BY BusyPlace
<1>2. Contexts' \subseteq Elsewhere(p) \cup {<<e.pcb, Saved(e)'>> : e \in {}}
                             \cup {x \in {<<active'[c], ctx'[c]>>} : Busy(c)'}
  <2>1. \A d \in Core : d # c /\ Busy(d) => active[d] # p
    BY <1>1, BusyPlace
  <2>2. \A e \in Closures(sem', ready') :
          e \in {} \/ (e \in Closures(sem, ready) /\ e.pcb # p)
    BY <1>1, BusyPlace
  <2> QED
    BY <1>1, <2>1, <2>2, OthersKept
<1> QED
  BY <1>1, <1>2 DEF Moves

(* Steps of a core that queue one closure of its process.                   *)
LEMMA QueueContexts ==
  ASSUME KernelInv, PlaceInv, NEW c \in Core, Busy(c), active' = active, NEW m \in Idle,
         mode' = [mode EXCEPT ![c] = m], ctx' = ctx, NEW e, e.pcb = active[c],
         Closures(sem', ready') = Closures(sem, ready) \cup {e},
         \A q \in created : q # active[c] => pcb'[q].user_context = pcb[q].user_context,
         NEW u, Saved(e)' = u
  PROVE  Moves(active[c], u)
<1>1. PICK p \in Proc : p = active[c]
  BY BusyPlace
<1>2. Contexts' \subseteq Elsewhere(p) \cup {<<f.pcb, Saved(f)'>> : f \in {e}}
                             \cup {x \in {<<active'[c], ctx'[c]>>} : Busy(c)'}
  <2>1. \A d \in Core : d # c /\ Busy(d) => active[d] # p
    BY <1>1, BusyPlace
  <2>2. \A f \in Closures(sem', ready') :
          f \in {e} \/ (f \in Closures(sem, ready) /\ f.pcb # p)
    BY <1>1, BusyPlace
  <2>3. \A d \in Core : d # c => mode'[d] = mode[d] /\ active'[d] = active[d] /\ ctx'[d] = ctx[d]
    BY DEF KernelInv, CoreInv
  <2> QED
    BY <1>1, <2>1, <2>2, <2>3, OthersKept
<1>3. ~Busy(c)'
  BY DEF KernelInv, CoreInv, Busy
<1> QED
  BY <1>1, <1>2, <1>3 DEF Moves

(* A call that returns a result, or is in progress.                         *)
LEMMA ReturnContexts ==
  ASSUME KernelInv, PlaceInv, NEW c \in Core, Busy(c), NEW v, Return(c, v),
         Closures(sem', ready') = Closures(sem, ready),
         \A q \in created : q # active[c] => pcb'[q].user_context = pcb[q].user_context
  PROVE  Quiet(c)
<1>1. /\ active' = active /\ ctx \in [Core -> Context \cup {Null}] /\ ctx[c] \in Context
      /\ ctx' = [ctx EXCEPT ![c].eax = v] /\ mode' = [mode EXCEPT ![c] = "sysret"]
      /\ mode \in [Core -> Mode]
  BY BusyPlace DEF Return, KernelInv, CoreInv
<1>2. \A d \in Core : d # c => mode'[d] = mode[d] /\ ctx'[d] = ctx[d]
  BY <1>1
<1>3. ctx'[c] = [ctx[c] EXCEPT !.eax = v]
  BY <1>1
<1>4. SameUser(ctx'[c], ctx[c])
  BY <1>1, <1>3 DEF SameUser, Context
<1> QED
  BY <1>1, <1>2, <1>4, StayContexts DEF Quiet

(* switch_processes.                                                        *)
LEMMA SwitchContexts ==
  ASSUME KernelInv, PlaceInv, NEW c \in Core, Busy(c), NEW m \in Idle, NEW P, NEW u,
         SwitchProcesses(c, P, u, m), pcb'[active[c]].user_context = u,
         \A q \in created : q # active[c] => pcb'[q].user_context = pcb[q].user_context
  PROVE  Moves(active[c], u)
<1> DEFINE e == Closure("resume", active[c])
<1>1. active[c] \in Proc /\ e.pcb = active[c] /\ e.kind = "resume" /\ e \in Event
  BY BusyPlace DEF Closure, Event
<1>2. /\ sem' = sem /\ ready' = Append(ready, e) /\ active' = active /\ ctx' = ctx
      /\ mode' = [mode EXCEPT ![c] = m]
  BY DEF SwitchProcesses, Leave
<1>3. PICK f \in Event : f = e
  BY <1>1
<1>4. f.pcb \notin Queued(sem, ready)
  BY <1>1, <1>3, BusyPlace DEF Queued
<1> HIDE DEF e
<1>5. Closures(sem, Append(ready, f)) = Closures(sem, ready) \cup {f}
  BY SMT, <1>4, AddPlaces, EventQueues DEF PlaceInv
<1>6. Saved(f)' = u
  BY <1>1, <1>3 DEF Saved
<1> QED
  BY <1>1, <1>2, <1>3, <1>5, <1>6, QueueContexts

(* exit: nothing is left of the process.                                    *)
LEMMA ExitContexts ==
  ASSUME KernelInv, PlaceInv, NEW c \in Core, Busy(c), NEW m \in Idle, NEW P, NEW v,
         Exit(c, P, v, m),
         \A q \in created : q # active[c] => pcb'[q].user_context = pcb[q].user_context
  PROVE  \A u : Moves(active[c], u)
<1>1. /\ sem' = UpSem(sem, active[c]) /\ ready' = UpReady(sem, ready, active[c])
      /\ active' = active /\ ctx' = ctx /\ mode' = [mode EXCEPT ![c] = m]
  BY DEF Exit, Leave
<1>2. active[c] \in Proc \cup Sem
  BY BusyPlace
<1>3. Closures(UpSem(sem, active[c]), UpReady(sem, ready, active[c])) = Closures(sem, ready)
  BY <1>2, UpPlaces, EventQueues DEF PlaceInv
<1>4. \A d \in Core : d # c => mode'[d] = mode[d] /\ ctx'[d] = ctx[d]
  BY <1>1 DEF KernelInv, CoreInv
<1>5. ~Busy(c)'
  BY <1>1 DEF Busy, KernelInv, CoreInv
<1>6. PICK p \in Proc : p = active[c]
  BY BusyPlace
<1>7. Contexts' \subseteq Elsewhere(p) \cup {<<e.pcb, Saved(e)'>> : e \in {}}
                             \cup {x \in {<<active'[c], ctx'[c]>>} : Busy(c)'}
  <2>1. \A d \in Core : d # c /\ Busy(d) => active[d] # p
    BY <1>6, BusyPlace
  <2>2. \A e \in Closures(sem', ready') :
          e \in {} \/ (e \in Closures(sem, ready) /\ e.pcb # p)
    BY <1>1, <1>3, <1>6, BusyPlace
  <2> QED
    BY <1>1, <1>4, <1>6, <2>1, <2>2, OthersKept
<1> QED
  BY <1>5, <1>6, <1>7 DEF Moves

(* down and join, where the closure waits or is ready at once.              *)
LEMMA BlockContexts ==
  ASSUME KernelInv, PlaceInv, NEW c \in Core, Busy(c), Leave(c, "loop"),
         NEW s \in Proc \cup Sem, NEW e \in Event, e.pcb = active[c],
         e.kind \in {"down", "join"},
         sem' = DownSem(sem, s, e), ready' = DownReady(sem, ready, s, e),
         pcb'[active[c]].user_context = Trapped(c),
         \A q \in created : q # active[c] => pcb'[q].user_context = pcb[q].user_context
  PROVE  Quiet(c)
<1>1. active' = active /\ ctx' = ctx /\ mode' = [mode EXCEPT ![c] = "loop"]
  BY DEF Leave
<1>2. e.pcb \notin Queued(sem, ready)
  BY BusyPlace DEF Queued
<1>3. Closures(DownSem(sem, s, e), DownReady(sem, ready, s, e)) = Closures(sem, ready) \cup {e}
  BY SMT, <1>2, DownPlaces, EventQueues DEF PlaceInv
<1>4. Saved(e)' = Trapped(c)
  BY DEF Saved
<1>5. Moves(active[c], Trapped(c))
  BY <1>1, <1>3, <1>4, QueueContexts DEF Idle
<1>6. SameUser(Trapped(c), ctx[c])
  BY BusyPlace DEF SameUser, Trapped, Context
<1> QED
  BY <1>5, <1>6 DEF Quiet

(* System calls that enter no program and touch no handler; the tick during *)
(* a call; exit by a signal.                                                *)
LEMMA CallContexts ==
  ASSUME KernelInv, PlaceInv, NEW c \in Core,
         \/ SysExit(c) \/ SysJoin(c) \/ SysExecl(c) \/ SysSem(c) \/ SysUp(c) \/ SysDown(c)
         \/ SysSemClose(c) \/ SysSimpleSignal(c) \/ SysKill(c) \/ SysKillValue(c)
         \/ SysYield(c) \/ SysBadPointer(c)
  PROVE  Busy(c) /\ Quiet(c)
<1>1. Busy(c)
  BY BusyFacts DEF SysExit, SysJoin, SysExecl, SysSem, SysUp, SysDown, SysSemClose,
     SysSimpleSignal, SysKill, SysKillValue, SysYield, SysBadPointer, User
<1>2. /\ active[c] \in Proc /\ active[c] \in created /\ ctx[c] \in Context
      /\ created \in SUBSET Proc /\ pcb \in [Proc -> PCB]
  BY <1>1, BusyPlace DEF KernelInv, DataInv, PcbInv
<1>3. SameUser(ctx[c], ctx[c])
  BY DEF SameUser
<1>4. \A q \in created : q # active[c] => pcb'[q].user_context = pcb[q].user_context
  <2>1. CASE SysExit(c) \/ SysExecl(c) \/ SysBadPointer(c) \/ SysUp(c)
    BY <2>1, PcbEffect
  <2>2. CASE SysJoin(c) \/ SysDown(c) \/ SysYield(c)
    BY <1>2, <2>2, PcbEffect DEF Only
  <2>3. CASE SysSimpleSignal(c) \/ SysSem(c) \/ SysSemClose(c)
    BY <1>2, <2>3, PcbEffect DEF Only
  <2>4. CASE SysKill(c) \/ SysKillValue(c)
    BY <1>2, <2>4, PcbEffect DEF Kept, Fields
  <2> QED
    BY <2>1, <2>2, <2>3, <2>4
<1>5. ASSUME NEW v, Return(c, v), UNCHANGED <<sem, ready>> PROVE Quiet(c)
  BY <1>1, <1>4, <1>5, ReturnContexts
<1>6. CASE SysExit(c)
  BY <1>1, <1>3, <1>4, <1>6, ExitContexts DEF SysExit, Quiet, Idle
<1>7. CASE SysJoin(c)
  <2>1. CASE Return(c, -1) /\ UNCHANGED <<sem, ready>>
    BY <1>1, <1>5, <2>1
  <2>2. CASE pcb[active[c]].children # << >>
    <3> DEFINE child == PeekChild(active[c])
               e == [Closure("join", active[c]) EXCEPT !.child = child]
    <3>1. child \in Proc
      BY <1>2, <2>2, PeekFacts
    <3>2. sem' = DownSem(sem, child, e) /\ ready' = DownReady(sem, ready, child, e) /\ Leave(c, "loop")
      BY <1>7, <2>2 DEF SysJoin
    <3>3. pcb'[active[c]].user_context = Trapped(c)
      BY <1>2, <1>7 DEF SysJoin, PCB
    <3>4. e \in Event /\ e.pcb = active[c] /\ e.kind = "join"
      BY <1>2, <3>1 DEF Closure, Event
    <3> HIDE DEF child, e
    <3> QED
      BY <1>1, <1>4, <3>1, <3>2, <3>3, <3>4, BlockContexts
  <2> QED
    BY <1>7, <2>1, <2>2 DEF SysJoin
<1>8. CASE SysDown(c)
  <2>1. PICK i \in Slot :
          \/ Return(c, -1) /\ UNCHANGED <<sem, ready>>
          \/ /\ pcb[active[c]].semaphores[i] # Null
             /\ pcb' = [pcb EXCEPT ![active[c]].user_context = Trapped(c)]
             /\ sem' = DownSem(sem, pcb[active[c]].semaphores[i], Closure("down", active[c]))
             /\ ready' = DownReady(sem, ready, pcb[active[c]].semaphores[i], Closure("down", active[c]))
             /\ Leave(c, "loop")
    BY <1>8 DEF SysDown
  <2> DEFINE s == pcb[active[c]].semaphores[i]
             e == Closure("down", active[c])
  <2>2. CASE Return(c, -1) /\ UNCHANGED <<sem, ready>>
    BY <1>1, <1>5, <2>2
  <2>3. CASE s # Null /\ Leave(c, "loop") /\ pcb' = [pcb EXCEPT ![active[c]].user_context = Trapped(c)]
             /\ sem' = DownSem(sem, s, e) /\ ready' = DownReady(sem, ready, s, e)
    <3>1. s \in Proc \cup Sem
      BY SMT, <1>2, <2>3 DEF PCB
    <3>2. e \in Event /\ e.pcb = active[c] /\ e.kind = "down"
      BY <1>2 DEF Closure, Event
    <3>3. pcb'[active[c]].user_context = Trapped(c)
      BY <1>2, <2>3 DEF PCB
    <3> HIDE DEF s, e
    <3> QED
      BY <1>1, <1>4, <2>3, <3>1, <3>2, <3>3, BlockContexts
  <2> QED
    BY <2>1, <2>2, <2>3
<1>9. CASE SysUp(c)
  <2>1. PICK i \in Slot :
          /\ \E v : Return(c, v)
          /\ \/ UNCHANGED <<sem, ready>>
             \/ /\ pcb[active[c]].semaphores[i] # Null
                /\ sem' = UpSem(sem, pcb[active[c]].semaphores[i])
                /\ ready' = UpReady(sem, ready, pcb[active[c]].semaphores[i])
    BY <1>9 DEF SysUp
  <2> DEFINE s == pcb[active[c]].semaphores[i]
  <2>2. CASE s # Null /\ sem' = UpSem(sem, s) /\ ready' = UpReady(sem, ready, s)
    <3>1. s \in Proc \cup Sem
      <4>1. pcb[active[c]].semaphores \in [Slot -> Sem \cup {Null}]
        BY SMT, <1>2 DEF PCB
      <4> QED
        BY <2>2, <4>1
    <3> HIDE DEF s
    <3>2. Closures(UpSem(sem, s), UpReady(sem, ready, s)) = Closures(sem, ready)
      BY <3>1, UpPlaces, EventQueues DEF PlaceInv
    <3> QED
      BY <1>1, <1>4, <2>1, <2>2, <3>2, ReturnContexts
  <2> QED
    BY <1>1, <1>5, <2>1, <2>2
<1>10. CASE SysSem(c)
  <2>1. ready' = ready /\ (\E v : Return(c, v))
          /\ (sem' = sem \/ \E s \in Sem : \E n : sem' = [sem EXCEPT ![s].count = n])
    BY <1>10 DEF SysSem
  <2>2. \A s \in Proc \cup Sem : sem'[s].waiting = sem[s].waiting
    <3>1. ASSUME NEW t \in Sem, NEW n, sem' = [sem EXCEPT ![t].count = n]
          PROVE  \A s \in Proc \cup Sem : sem'[s].waiting = sem[s].waiting
      <4>1. sem \in [Proc \cup Sem -> [count : Nat, waiting : Seq(Event)]]
        BY EventQueues DEF Semaphores
      <4> QED
        BY SMT, <3>1, <4>1
    <3> QED
      BY <2>1, <3>1
  <2>3. Closures(sem', ready') = Closures(sem, ready)
    BY SMT, <2>1, <2>2 DEF Closures, Waits
  <2> QED
    BY <1>1, <1>4, <2>1, <2>3, ReturnContexts
<1>11. CASE SysSemClose(c) \/ SysSimpleSignal(c) \/ SysKillValue(c)
  BY <1>1, <1>5, <1>11 DEF SysSemClose, SysSimpleSignal, SysKillValue
<1>12. CASE SysExecl(c) \/ SysKill(c) \/ SysBadPointer(c)
  <2>1. sem' = sem /\ ready' = ready
    BY <1>12 DEF SysExecl, SysKill, SysBadPointer
  <2>2. (\E v : Return(c, v)) \/ ((\E m : mode' = [mode EXCEPT ![c] = m]) /\ ctx' = ctx /\ active' = active)
    BY <1>12 DEF SysExecl, SysKill, SysBadPointer
  <2>3. CASE (\E m : mode' = [mode EXCEPT ![c] = m]) /\ ctx' = ctx /\ active' = active
    <3>1. \A d \in Core : d # c => mode'[d] = mode[d] /\ ctx'[d] = ctx[d]
      BY <2>3 DEF KernelInv, CoreInv
    <3>2. Moves(active[c], ctx'[c])
      BY <1>1, <1>4, <2>1, <2>3, <3>1, StayContexts
    <3> QED
      BY <1>1, <1>3, <2>3, <3>2 DEF Quiet
  <2> QED
    BY <1>1, <1>5, <2>1, <2>2, <2>3
<1>13. CASE SysYield(c)
  <2>1. SwitchProcesses(c, pcb, Trapped(c), "loop")
    BY <1>13 DEF SysYield
  <2>2. pcb'[active[c]].user_context = Trapped(c)
    BY <1>1, <2>1, SwitchPcb
  <2>3. Moves(active[c], Trapped(c))
    BY <1>1, <1>4, <2>1, <2>2, SwitchContexts DEF Idle
  <2>4. SameUser(Trapped(c), ctx[c])
    BY <1>2 DEF SameUser, Trapped, Context
  <2> QED
    BY <1>1, <2>3, <2>4 DEF Quiet
<1> QED
  BY <1>1, <1>6, <1>7, <1>8, <1>9, <1>10, <1>11, <1>12, <1>13

(* A process that is preempted, now or after its call, keeps all registers. *)
LEMMA PreemptContexts ==
  ASSUME KernelInv, PlaceInv, NEW c \in Core,
         TimerSwitch(c) \/ SysReturn(c) \/ (TimerKernel(c) /\ Busy(c))
  PROVE  Busy(c) /\ Moves(active[c], ctx[c])
<1>1. Busy(c)
  BY BusyFacts DEF TimerSwitch, SysReturn
<1>2. active[c] \in Proc /\ created \in SUBSET Proc
  BY <1>1, BusyPlace DEF KernelInv, DataInv
<1>3. \A q \in created : q # active[c] => pcb'[q].user_context = pcb[q].user_context
  BY <1>2, PcbEffect DEF Only
<1>4. ASSUME NEW m \in Idle, SwitchProcesses(c, pcb, ctx[c], m)
      PROVE  Moves(active[c], ctx[c])
  <2>1. pcb'[active[c]].user_context = ctx[c]
    BY <1>1, <1>4, SwitchPcb
  <2> QED
    BY <1>1, <1>3, <1>4, <2>1, SwitchContexts
<1>5. ASSUME ctx' = ctx, active' = active, NEW m, mode' = [mode EXCEPT ![c] = m], UNCHANGED <<sem, ready>>
      PROVE  Moves(active[c], ctx[c])
  <2>1. \A d \in Core : d # c => mode'[d] = mode[d] /\ ctx'[d] = ctx[d]
    BY <1>5 DEF KernelInv, CoreInv
  <2>2. Moves(active[c], ctx'[c])
    BY <1>1, <1>3, <1>5, <2>1, StayContexts
  <2> QED
    BY <1>5, <2>2
<1>6. CASE TimerSwitch(c)
  BY <1>1, <1>4, <1>6 DEF TimerSwitch, Idle
<1>7. CASE SysReturn(c)
  BY <1>1, <1>4, <1>5, <1>7 DEF SysReturn, Idle
<1>8. CASE TimerKernel(c)
  <2>1. mode' = [mode EXCEPT ![c] = mode[c]]
    BY <1>8 DEF TimerKernel, KernelInv, CoreInv
  <2> QED
    BY <1>1, <1>5, <1>8, <2>1 DEF TimerKernel
<1> QED
  BY <1>1, <1>6, <1>7, <1>8

(* Entering and leaving the handler, and exits by signals.                  *)
LEMMA SignalContexts ==
  ASSUME KernelInv, PlaceInv, NEW c \in Core, SysSigreturn(c) \/ Fault(c) \/ TimerKill(c)
  PROVE  /\ Busy(c)
         /\ \/ /\ Quiet(c) /\ Kept({"handled"})
            \/ /\ Moves(active[c], [ctx[c] EXCEPT !.pos = "handler", !.eax = 0])
               /\ Only(active[c], {"handler_user_context", "in_handler", "handled"})
               /\ pcb'[active[c]].handler_user_context = Frame(c)
               /\ pcb'[active[c]].in_handler = TRUE
               /\ ~pcb[active[c]].in_handler /\ pcb[active[c]].handler_eip
            \/ /\ pcb[active[c]].in_handler /\ pcb'[active[c]].in_handler = FALSE
               /\ Moves(active[c], pcb[active[c]].handler_user_context)
               /\ Only(active[c], {"page_directory", "user_context", "in_handler"})
               /\ pcb'[active[c]].page_directory = cr3[c]
<1> DEFINE P == [pcb EXCEPT ![active[c]].handled = TRUE]
<1>1. Busy(c)
  BY BusyFacts DEF SysSigreturn, Fault, FaultReturn, FaultSegv, TimerKill, User
<1>2. /\ active[c] \in Proc /\ active[c] \in created /\ ctx[c] \in Context
      /\ created \in SUBSET Proc /\ pcb \in [Proc -> PCB]
  BY <1>1, BusyPlace DEF KernelInv, DataInv, PcbInv
<1>3. \A q \in created : q # active[c] => pcb'[q].user_context = pcb[q].user_context
  BY <1>2, PcbEffect DEF Only
<1>4. CASE SysSigreturn(c) /\ ~pcb[active[c]].in_handler
  <2>1. Return(c, -1) /\ UNCHANGED <<pcb, sem, ready>>
    BY <1>4 DEF SysSigreturn
  <2>2. Quiet(c)
    BY <1>1, <1>3, <2>1, ReturnContexts
  <2> QED
    BY <1>1, <2>1, <2>2 DEF Kept
<1>5. CASE LeaveHandler(c) /\ pcb[active[c]].in_handler
  <2> DEFINE h == pcb[active[c]].handler_user_context
  <2>1. /\ Only(active[c], {"page_directory", "user_context", "in_handler"})
        /\ pcb'[active[c]].page_directory = cr3[c] /\ pcb'[active[c]].user_context = h
        /\ pcb'[active[c]].in_handler = FALSE
    BY <1>1, <1>5, SwitchPcb
  <2>2. Moves(active[c], h)
    BY <1>1, <1>3, <1>5, <2>1, SwitchContexts DEF LeaveHandler, Idle
  <2> QED
    BY <1>1, <1>5, <2>1, <2>2
<1>6. ASSUME NEW Q, Q = pcb \/ Q = P, NEW m \in Idle, CallHandler(c, Q, m),
             ~pcb[active[c]].in_handler, pcb[active[c]].handler_eip
      PROVE  /\ Moves(active[c], [ctx[c] EXCEPT !.pos = "handler", !.eax = 0])
             /\ Only(active[c], {"handler_user_context", "in_handler", "handled"})
             /\ pcb'[active[c]].handler_user_context = Frame(c)
             /\ pcb'[active[c]].in_handler = TRUE
  <2>1. /\ Only(active[c], {"handler_user_context", "in_handler", "handled"})
        /\ pcb'[active[c]].handler_user_context = Frame(c) /\ pcb'[active[c]].in_handler = TRUE
    <3>1. pcb' = Handling(c, Q)
      BY <1>6 DEF CallHandler, EnterHandler, Exit
    <3> QED
      BY <1>1, <1>6, <3>1, EnterPcb
  <2>2. CASE EnterHandler(c, Q)
    <3>1. /\ UNCHANGED <<sem, ready, active>> /\ mode' = [mode EXCEPT ![c] = "user"]
          /\ ctx' = [ctx EXCEPT ![c].pos = "handler", ![c].eax = 0]
      BY <2>2 DEF EnterHandler
    <3>2. ctx' = [ctx EXCEPT ![c] = [ctx[c] EXCEPT !.pos = "handler", !.eax = 0]]
      BY <3>1
    <3>3. /\ ctx'[c] = [ctx[c] EXCEPT !.pos = "handler", !.eax = 0]
          /\ \A d \in Core : d # c => mode'[d] = mode[d] /\ ctx'[d] = ctx[d]
      BY <3>1, <3>2 DEF KernelInv, CoreInv
    <3>4. Moves(active[c], ctx'[c])
      BY <1>1, <1>3, <3>1, <3>3, StayContexts
    <3> QED
      BY <2>1, <3>3, <3>4
  <2>3. CASE \E R, v : Exit(c, R, v, m)
    BY <1>1, <1>3, <2>1, <2>3, ExitContexts
  <2> QED
    BY <1>6, <2>2, <2>3 DEF CallHandler
<1>7. ASSUME NEW Q, Q = pcb \/ Q = P, NEW v, NEW m \in Idle, Exit(c, Q, v, m)
      PROVE  Quiet(c) /\ Kept({"handled"})
  <2>1. Moves(active[c], ctx[c])
    BY <1>1, <1>3, <1>7, ExitContexts
  <2>2. pcb' = pcb \/ pcb' = P
    BY <1>7 DEF Exit
  <2>3. Kept({"handled"})
    <3>1. CASE pcb' = pcb
      BY <3>1 DEF Kept
    <3>2. CASE pcb' = P
      <4>1. \A q \in Proc : pcb[q] \in PCB
        BY <1>2
      <4> QED
        BY <1>2, <3>2, <4>1 DEF Kept, PCB, Fields
    <3> QED
      BY <2>2, <3>1, <3>2
  <2> QED
    BY <2>1, <2>3 DEF Quiet, SameUser
<1>8. CASE SysSigreturn(c)
  BY <1>4, <1>5, <1>8 DEF SysSigreturn
<1>9. CASE FaultReturn(c)
  BY <1>5, <1>9 DEF FaultReturn
<1>10. CASE FaultSegv(c)
  BY <1>1, <1>6, <1>7, <1>10 DEF FaultSegv, Idle
<1>11. CASE TimerKill(c)
  BY <1>1, <1>6, <1>7, <1>11 DEF TimerKill, TakesKill, Idle
<1> QED
  BY <1>8, <1>9, <1>10, <1>11 DEF Fault

(* fork: parent and child go on after the call.                             *)
LEMMA ForkContexts ==
  ASSUME KernelInv, PlaceInv, NEW c \in Core, SysFork(c)
  PROVE  /\ Busy(c)
         /\ \E child \in Proc \ created : \E u, v :
              /\ Forked(c, active[c], child)
              /\ SameUser(u, ctx[c]) /\ SameUser(v, ctx[c])
              /\ Contexts' \subseteq Elsewhere(active[c]) \cup {<<active[c], u>>, <<child, v>>}
<1>1. PICK child \in Proc \ created : Forked(c, active[c], child)
  BY ForkPcb
<1>2. PICK p \in Proc : p = active[c] /\ p \in created
  BY <1>1, BusyPlace DEF Forked
<1>3. Busy(c) /\ ctx[c] \in Context /\ p # child
  BY <1>1, <1>2, BusyPlace DEF Forked
<1> DEFINE u == [ctx[c] EXCEPT !.eax = 1]
           v == [ctx[c] EXCEPT !.eax = 0]
           g == [Closure("fork", child) EXCEPT !.ctx = v]
<1>4. SameUser(u, ctx[c]) /\ SameUser(v, ctx[c]) /\ v \in Context
  BY SMT, <1>3 DEF SameUser, Context
<1>5. /\ active' = active /\ sem' = sem /\ ready' = Append(ready, g)
      /\ ctx' = [ctx EXCEPT ![c].eax = 1] /\ mode' = [mode EXCEPT ![c] = "sysret"]
  BY <1>1 DEF SysFork, Return, Forked
<1>6. /\ ctx'[c] = u
      /\ \A d \in Core : d # c => mode'[d] = mode[d] /\ active'[d] = active[d] /\ ctx'[d] = ctx[d]
  BY <1>5 DEF KernelInv, CoreInv
<1> HIDE DEF u, v
<1>7. PICK e \in Event : e = g /\ e.pcb = child /\ e.kind = "fork" /\ e.ctx = v
  <2>1. g \in Event /\ g.pcb = child /\ g.kind = "fork" /\ g.ctx = v
    BY <1>4 DEF Event, Closure
  <2> HIDE DEF g
  <2> QED
    BY <2>1
<1> HIDE DEF g
<1>8. \A f \in Closures(sem, ready) : f.pcb \in Living
  BY DEF PlaceInv, Queued
<1>9. e.pcb \notin Queued(sem, ready)
  BY <1>7, <1>8 DEF Queued, Living, Alive
<1>10. Closures(sem, Append(ready, e)) = Closures(sem, ready) \cup {e}
  BY SMT, <1>7, <1>9, AddPlaces, EventQueues DEF PlaceInv
<1>11. \A q \in created : q # p => pcb'[q].user_context = pcb[q].user_context
  <2>1. \A q \in created : q \in Proc /\ q # child
    BY DEF KernelInv, DataInv
  <2> QED
    BY <1>1, <1>2, <2>1 DEF Forked
<1>12. /\ \A d \in Core : d # c /\ Busy(d) => active[d] # p
       /\ \A f \in Closures(sem', ready') : f \in {e} \/ (f \in Closures(sem, ready) /\ f.pcb # p)
  BY <1>2, <1>3, <1>5, <1>7, <1>10, BusyPlace
<1>13. Contexts' \subseteq Elsewhere(p) \cup {<<f.pcb, Saved(f)'>> : f \in {e}}
                             \cup {x \in {<<active'[c], ctx'[c]>>} : Busy(c)'}
  BY <1>6, <1>11, <1>12, OthersKept
<1>14. <<e.pcb, Saved(e)'>> = <<child, v>>
  BY <1>7 DEF Saved
<1>15. Contexts' \subseteq Elsewhere(active[c]) \cup {<<active[c], u>>, <<child, v>>}
  <2>1. {<<f.pcb, Saved(f)'>> : f \in {e}} = {<<child, v>>}
    BY <1>14
  <2>2. {x \in {<<active'[c], ctx'[c]>>} : Busy(c)'} \subseteq {<<p, u>>}
    BY <1>2, <1>5, <1>6
  <2>3. Contexts' \subseteq Elsewhere(p) \cup {<<child, v>>} \cup {<<p, u>>}
    BY <1>13, <2>1, <2>2
  <2> QED
    BY <1>2, <2>3
<1>16. \E w, x : /\ SameUser(w, ctx[c]) /\ SameUser(x, ctx[c])
                 /\ Contexts' \subseteq Elsewhere(active[c]) \cup {<<active[c], w>>, <<child, x>>}
  BY <1>4, <1>15
<1> QED
  BY <1>1, <1>3, <1>16

(* execl: the program starts from its entry point.                          *)
LEMMA ExeclContexts ==
  ASSUME KernelInv, PlaceInv, NEW c \in Core, SysExeclLoad(c)
  PROVE  Busy(c) /\ Moves(active[c], [image |-> cr3[c][2] + 1, pos |-> "main", eax |-> 0])
<1> DEFINE start == [image |-> cr3[c][2] + 1, pos |-> "main", eax |-> 0]
           f == ExeclClosure(active[c], start)
<1>1. Busy(c)
  BY BusyFacts DEF SysExeclLoad
<1>2. active[c] \in Proc /\ created \in SUBSET Proc
  BY <1>1, BusyPlace DEF KernelInv, DataInv
<1>3. \A q \in created : q # active[c] => pcb'[q].user_context = pcb[q].user_context
  BY <1>2, PcbEffect DEF Only
<1>4. sem' = sem /\ active' = active
  BY DEF SysExeclLoad
<1>5. CASE interrupts[c]
  <2>1. mode' = [mode EXCEPT ![c] = "loop"] /\ ready' = Append(ready, f) /\ ctx' = ctx
    BY <1>5 DEF SysExeclLoad
  <2>2. start \in Context
    <3>1. cr3[c][2] \in Nat /\ cr3[c][2] < MaxImage /\ MaxImage \in Nat
      BY SMT, <1>1, Running, KernelAssumption DEF Busy, SysExeclLoad, KernelInv, CoreInv
    <3>2. cr3[c][2] + 1 \in 0 .. MaxImage
      BY SMT, <3>1
    <3> QED
      BY SMT, <3>2 DEF Context
  <2> HIDE DEF start
  <2>3. f \in Event /\ f.pcb = active[c] /\ f.kind = "execl" /\ f.ctx = start
    BY <1>2, <2>2 DEF ExeclClosure, Closure, Event
  <2>4. PICK e \in Event : e = f
    BY <2>3
  <2> HIDE DEF f
  <2>5. e.pcb \notin Queued(sem, ready)
    BY <1>1, <2>3, <2>4, BusyPlace DEF Queued
  <2>6. Closures(sem, Append(ready, e)) = Closures(sem, ready) \cup {e}
    BY SMT, <2>5, AddPlaces, EventQueues DEF PlaceInv
  <2>7. Saved(e)' = start
    BY <2>3, <2>4 DEF Saved
  <2>8. Moves(active[c], start)
    BY <1>1, <1>3, <1>4, <2>1, <2>3, <2>4, <2>6, <2>7, QueueContexts DEF Idle
  <2> QED
    BY <1>1, <2>8 DEF start
<1>6. CASE ~interrupts[c]
  <2>1. /\ mode' = [mode EXCEPT ![c] = "user"] /\ ready' = ready
        /\ ctx' = [ctx EXCEPT ![c] = start]
    BY <1>6 DEF SysExeclLoad
  <2>2. /\ \A d \in Core : d # c => mode'[d] = mode[d] /\ ctx'[d] = ctx[d]
        /\ ctx'[c] = start
    BY <2>1 DEF KernelInv, CoreInv
  <2>3. Moves(active[c], ctx'[c])
    BY <1>1, <1>3, <1>4, <2>1, <2>2, StayContexts
  <2> QED
    BY <1>1, <2>2, <2>3
<1> QED
  BY <1>5, <1>6

(* event_loop: the process enters user mode with the registers it saved,    *)
(* with the result of its call in eax if it was blocked.                    *)
LEMMA RunContexts ==
  ASSUME KernelInv, PlaceInv, NEW c \in Core, EventLoop(c)
  PROVE  /\ ~Busy(c) /\ ready # << >>
         /\ Busy(c)' /\ active'[c] = Head(ready).pcb
         /\ cr3'[c] = pcb[Head(ready).pcb].page_directory
         /\ \E u : /\ Moves(Head(ready).pcb, u)
                   /\ SameUser(u, Saved(Head(ready)))
                   /\ \/ u = Saved(Head(ready))
                      \/ /\ Head(ready).kind \in {"down", "join"}
                         /\ u = [Saved(Head(ready)) EXCEPT !.eax = u.eax]
<1>1. ready # << >> /\ ~Busy(c)
  BY DEF EventLoop, RunResume, RunDown, RunJoin, RunStart, Next1, Busy
<1>2. PICK h \in Runnable : h = Head(ready)
  BY <1>1, HeadPlace
<1>3. PICK p \in Proc : p = h.pcb /\ p \in created
  BY <1>1, <1>2, HeadPlace
<1>4. /\ Saved(h) \in Context
      /\ \A d \in Core : Busy(d) => active[d] # p
      /\ \A e \in Closures(sem, Tail(ready)) : e \in Closures(sem, ready) /\ e.pcb # p
  BY <1>1, <1>2, <1>3, HeadPlace
<1>5. /\ cr3 \in [Core -> Directory \cup {Null}] /\ active \in [Core -> Proc \cup {Null}]
      /\ ctx \in [Core -> Context \cup {Null}] /\ mode \in [Core -> Mode]
      /\ pcb \in [Proc -> PCB] /\ created \in SUBSET Proc
  BY DEF KernelInv, CoreInv, PcbInv, DataInv
<1>6. ASSUME NEW u, Resume(c, p, pcb[p].page_directory, u),
             Closures(sem', ready') = Closures(sem, Tail(ready)),
             \A q \in created : q # p => pcb'[q].user_context = pcb[q].user_context
      PROVE  Busy(c)' /\ active'[c] = p /\ cr3'[c] = pcb[p].page_directory /\ Moves(p, u)
  <2>1. /\ active'[c] = p /\ cr3'[c] = pcb[p].page_directory /\ ctx'[c] = u /\ mode'[c] \in {"user", "fault"}
        /\ \A d \in Core : d # c => mode'[d] = mode[d] /\ active'[d] = active[d] /\ ctx'[d] = ctx[d]
    BY <1>5, <1>6 DEF Resume
  <2>2. Busy(c)'
    BY <2>1 DEF Busy, Idle
  <2>3. \A e \in Closures(sem', ready') : e \in {} \/ (e \in Closures(sem, ready) /\ e.pcb # p)
    BY <1>4, <1>6
  <2>4. Contexts' \subseteq Elsewhere(p) \cup {<<e.pcb, Saved(e)'>> : e \in {}}
                               \cup {x \in {<<active'[c], ctx'[c]>>} : Busy(c)'}
    BY <1>4, <1>6, <2>1, <2>3, OthersKept
  <2> QED
    BY <2>1, <2>2, <2>4 DEF Moves
<1>7. Closures(sem', ready') = Closures(sem, Tail(ready))
  <2>1. CASE RunJoin(c)
    <3>1. PICK k \in Proc \cup Sem : k = h.child
      BY <1>2, <2>1 DEF RunJoin, Next1, Runnable
    <3>2. sem' = UpSem(sem, k) /\ ready' = UpReady(sem, Tail(ready), k)
      BY <1>2, <2>1, <3>1 DEF RunJoin
    <3>3. sem \in Semaphores(Event) /\ Tail(ready) \in Seq(Event) /\ Apart(sem, Tail(ready))
      BY SMT, <1>1, EventQueues, TakePlaces DEF PlaceInv
    <3> QED
      BY <3>2, <3>3, UpPlaces
  <2>2. CASE RunResume(c) \/ RunDown(c) \/ RunStart(c)
    BY <2>2 DEF RunResume, RunDown, RunStart
  <2> QED
    BY <2>1, <2>2 DEF EventLoop
<1>8. \A q \in created : q # p => pcb'[q].user_context = pcb[q].user_context
  BY <1>2, <1>3, <1>5, PcbEffect DEF EventLoop, Only
<1>9. CASE RunResume(c) \/ RunStart(c)
  <2>1. Resume(c, p, pcb[p].page_directory, Saved(h))
    BY <1>2, <1>3, <1>9 DEF RunResume, RunStart, Next1, Saved
  <2> QED
    BY <1>1, <1>2, <1>3, <1>6, <1>7, <1>8, <2>1 DEF SameUser
<1>10. CASE RunDown(c) \/ RunJoin(c)
  <2>1. h.kind \in {"down", "join"} /\ Saved(h) = pcb[p].user_context
    BY <1>2, <1>3, <1>10 DEF RunDown, RunJoin, Next1, Saved
  <2>2. Resume(c, p, pcb[p].page_directory, pcb'[p].user_context)
    BY <1>2, <1>3, <1>10 DEF RunDown, RunJoin
  <2>3. \E n : pcb'[p].user_context = [pcb[p].user_context EXCEPT !.eax = n]
    <3>1. pcb[p] \in PCB
      BY <1>5
    <3>2. CASE RunDown(c)
      <4>1. pcb' = [pcb EXCEPT ![p].user_context.eax = 0]
        BY <1>2, <1>3, <3>2 DEF RunDown
      <4>2. pcb'[p] = [pcb[p] EXCEPT !.user_context.eax = 0]
        BY <1>5, <4>1
      <4> QED
        BY <3>1, <4>2 DEF PCB
    <3>3. CASE RunJoin(c)
      <4> DEFINE k == SubSeq(pcb[p].children, 1, Len(pcb[p].children) - 1)
                 n == exit_value[h.child]
                 r == [pcb[p] EXCEPT !.children = k, !.user_context.eax = n]
      <4>1. pcb' = [pcb EXCEPT ![p] = r]
        BY <1>2, <1>3, <3>3 DEF RunJoin
      <4>2. r.user_context = [pcb[p].user_context EXCEPT !.eax = n]
        BY <3>1 DEF PCB
      <4> HIDE DEF r
      <4>3. pcb'[p] = r
        BY <1>5, <4>1
      <4> QED
        BY <4>2, <4>3
    <3> QED
      BY <1>10, <3>2, <3>3
  <2> DEFINE u == pcb'[p].user_context
  <2>4. SameUser(u, Saved(h)) /\ u = [Saved(h) EXCEPT !.eax = u.eax]
    BY <1>4, <2>1, <2>3 DEF SameUser, Context
  <2>5. Busy(c)' /\ active'[c] = p /\ cr3'[c] = pcb[p].page_directory /\ Moves(p, u)
    BY <1>6, <1>7, <1>8, <2>2
  <2> HIDE DEF u
  <2> QED
    BY <1>1, <1>2, <1>3, <2>1, <2>4, <2>5
<1> QED
  BY <1>9, <1>10 DEF EventLoop

(* A tick in the event loop.                                                *)
LEMMA IdleContexts ==
  ASSUME UNCHANGED <<pcb, sem, ready, mode, active, ctx>>
  PROVE  Contexts' = Contexts
BY DEF Contexts, CoreContexts, Saved, Busy

----------------------------------------------------------------------------
(* Contexts is NextContext for all live processes.                          *)
LEMMA OneClosure ==
  ASSUME NEW S, NEW R, Apart(S, R), NEW e \in Closures(S, R), NEW f \in Closures(S, R),
         e.pcb = f.pcb
  PROVE  e = f
<1>1. ASSUME NEW q, Single(q), e \in Range(q), f \in Range(q) PROVE e = f
  BY <1>1 DEF Single, Range
<1>2. CASE e \in Range(R) /\ f \in Range(R)
  BY <1>1, <1>2 DEF Apart
<1>3. CASE e \in Range(R) /\ f \in Waits(S)
  BY <1>3 DEF Apart, Waits
<1>4. CASE e \in Waits(S) /\ f \in Range(R)
  BY <1>4 DEF Apart, Waits
<1>5. CASE e \in Waits(S) /\ f \in Waits(S)
  <2>1. PICK s \in Proc \cup Sem : e \in Range(S[s].waiting)
    BY <1>5 DEF Waits
  <2>2. PICK t \in Proc \cup Sem : f \in Range(S[t].waiting)
    BY <1>5 DEF Waits
  <2>3. s = t
    BY <2>1, <2>2 DEF Apart
  <2>4. Single(S[s].waiting)
    BY DEF Apart
  <2> QED
    BY <1>1, <2>1, <2>2, <2>3, <2>4
<1> QED
  BY <1>2, <1>3, <1>4, <1>5 DEF Closures

(* NextContext(p) is the one context of a live process p.                   *)
LEMMA NextFacts ==
  ASSUME KernelInv, PlaceInv, JoinInv, NEW p \in Proc, Alive(p)
  PROVE  /\ <<p, NextContext(p)>> \in Contexts
         /\ \A x \in Contexts : x[1] = p => x[2] = NextContext(p)
<1>1. CASE CoresOf(p) # {}
  <2>1. PICK c \in CoresOf(p) : c = CHOOSE d \in CoresOf(p) : TRUE
    BY <1>1
  <2>2. c \in Core /\ Busy(c) /\ active[c] = p
    BY <2>1 DEF CoresOf, Busy
  <2>3. NextContext(p) = ctx[c]
    BY <1>1, <2>1 DEF NextContext
  <2>4. <<p, ctx[c]>> \in Contexts
    BY <2>2 DEF Contexts, CoreContexts
  <2>5. ASSUME NEW x \in Contexts, x[1] = p PROVE x[2] = ctx[c]
    <3>1. \A d \in Core : Busy(d) /\ active[d] = p => d = c
      BY <2>2, BusyPlace
    <3>2. \A e \in Closures(sem, ready) : e.pcb # p
      BY <2>2, BusyPlace
    <3> QED
      BY SMT, <2>5, <3>1, <3>2 DEF Contexts, CoreContexts
  <2> QED
    BY <2>3, <2>4, <2>5
<1>2. CASE CoresOf(p) = {}
  <2>1. \A c \in Core : Busy(c) => active[c] # p
    BY <1>2 DEF CoresOf, Busy
  <2>2. p \in Queued(sem, ready)
    BY <2>1 DEF PlaceInv, Living, OnCore
  <2>3. PICK e \in Closures(sem, ready) : e.pcb = p
    BY <2>2 DEF Queued
  <2>4. \A f \in Closures(sem, ready) : f.pcb = p => f = e
    BY <2>3, OneClosure DEF PlaceInv
  <2>5. NextContext(p) = Saved(e)
    <3> DEFINE starts == {i \in EventsOf(ready, p) : ready[i].kind \in {"fork", "execl"}}
    <3>1. CASE starts # {}
      <4>1. PICK i \in starts : i = CHOOSE j \in starts : TRUE
        BY <3>1
      <4>2. NextContext(p) = ready[i].ctx
        BY <1>2, <3>1, <4>1 DEF NextContext
      <4>3. ready[i] \in Closures(sem, ready) /\ ready[i].pcb = p
        BY DEF EventsOf, Closures, Range
      <4>4. ready[i] = e /\ ready[i].kind \in {"fork", "execl"}
        BY <2>4, <4>3
      <4> QED
        BY <4>2, <4>4 DEF Saved
    <3>2. CASE starts = {}
      <4>1. NextContext(p) = pcb[p].user_context
        BY <1>2, <3>2 DEF NextContext
      <4>2. CASE e \in Range(ready)
        <5>1. PICK i \in DOMAIN ready : ready[i] = e
          BY <4>2 DEF Range
        <5>2. i \in EventsOf(ready, p)
          BY <2>3, <5>1 DEF EventsOf
        <5>3. e.kind \notin {"fork", "execl"}
          BY <3>2, <5>1, <5>2
        <5> QED
          BY <2>3, <4>1, <5>3 DEF Saved
      <4>3. CASE e \in Waits(sem)
        <5>1. e.kind \in {"down", "join"}
          BY SMT, <4>3 DEF Waits, JoinInv
        <5> QED
          BY <2>3, <4>1, <5>1 DEF Saved
      <4> QED
        BY <4>2, <4>3 DEF Closures
    <3> QED
      BY <3>1, <3>2
  <2>6. <<p, Saved(e)>> \in Contexts
    BY <2>3 DEF Contexts
  <2>7. \A x \in Contexts : x[1] = p => x[2] = Saved(e)
    BY SMT, <2>1, <2>4 DEF Contexts, CoreContexts
  <2> QED
    BY <2>5, <2>6, <2>7
<1> QED
  BY <1>1, <1>2

(* Only processes that exist have contexts.                                 *)
LEMMA ContextOwners ==
  ASSUME KernelInv, PlaceInv, NEW x \in Contexts
  PROVE  x[1] \in Proc /\ x[1] \in created /\ Alive(x[1])
<1>1. ASSUME NEW c \in Core, Busy(c) PROVE active[c] \in Living
  BY <1>1 DEF PlaceInv, OnCore
<1>2. ASSUME NEW e \in Closures(sem, ready) PROVE e.pcb \in Living
  BY DEF PlaceInv, Queued
<1> QED
  BY SMT, <1>1, <1>2 DEF Contexts, CoreContexts, Living, Alive

----------------------------------------------------------------------------
(* All actions but those of SignalContexts and fork keep handler state.     *)
Calm(c) ==
  \/ SysExit(c) \/ SysJoin(c) \/ SysExecl(c) \/ SysSem(c) \/ SysUp(c) \/ SysDown(c)
  \/ SysSemClose(c) \/ SysSimpleSignal(c) \/ SysKill(c) \/ SysYield(c) \/ Trap(c)
  \/ TimerKernel(c) \/ TimerSwitch(c) \/ EventLoop(c) \/ SysBadPointer(c)

(* What the calm steps leave alone.                                         *)
LEMMA HandlerKept ==
  ASSUME KernelInv, NEW c \in Core, Calm(c), NEW q \in Proc
  PROVE  /\ pcb'[q].in_handler = pcb[q].in_handler
         /\ pcb'[q].handler_user_context = pcb[q].handler_user_context
         /\ "simple_signal" \notin Ops => pcb'[q].handler_eip = pcb[q].handler_eip
<1> DEFINE F == {"in_handler", "handler_user_context", "handler_eip"}
<1>1. ASSUME NEW p, NEW G, Only(p, G), G \cap F = {} PROVE \A f \in F : pcb'[q][f] = pcb[q][f]
  BY <1>1 DEF Only, Fields
<1>2. F \subseteq Fields
  BY DEF Fields
<1>3. CASE \/ SysExit(c) \/ TimerKernel(c) \/ SysExecl(c) \/ SysBadPointer(c) \/ SysUp(c)
           \/ RunResume(c) \/ RunStart(c)
  BY <1>3, PcbEffect
<1>4. CASE \/ SysYield(c) \/ TimerSwitch(c) \/ SysReturn(c) \/ SysJoin(c) \/ SysDown(c)
           \/ SysExeclLoad(c)
  <2>1. Only(active[c], {"page_directory", "user_context"})
    BY <1>4, PcbEffect
  <2> QED
    BY <1>1, <2>1
<1>5. CASE SysSimpleSignal(c)
  <2>1. Only(active[c], {"handler_eip"}) /\ "simple_signal" \in Ops
    BY <1>5, PcbEffect DEF SysSimpleSignal, User
  <2> QED
    BY <2>1 DEF Only, Fields
<1>6. CASE SysKill(c) \/ SysKillValue(c)
  <2>1. Kept({"killed", "killed_v"})
    BY <1>6, PcbEffect
  <2> QED
    BY <2>1 DEF Kept, Fields
<1>7. CASE SysSem(c) \/ SysSemClose(c)
  <2>1. Only(active[c], {"semaphores"})
    BY <1>7, PcbEffect
  <2> QED
    BY <1>1, <2>1
<1>8. CASE RunDown(c) \/ RunJoin(c)
  <2>1. Only(Head(ready).pcb, {"user_context"}) \/ Only(Head(ready).pcb, {"user_context", "children"})
    BY <1>8, PcbEffect
  <2> QED
    BY <1>1, <2>1
<1> QED
  BY <1>3, <1>4, <1>5, <1>6, <1>7, <1>8 DEF Calm, Trap, EventLoop

(* Programs without execl never are in it, and programs that install no     *)
(* handler have none.                                                       *)
LEMMA OpsStep == KernelInv /\ OpsInv /\ [Next]_vars => OpsInv'
<1> SUFFICES ASSUME KernelInv, OpsInv, [Next]_vars PROVE OpsInv'
  OBVIOUS
<1>1. CASE UNCHANGED vars
  BY <1>1 DEF OpsInv, vars
<1>2. ASSUME NEW c \in Core,
             Syscall(c) \/ Fault(c) \/ Timer(c) \/ Trap(c) \/ EventLoop(c)
      PROVE  OpsInv'
  <2>1. mode \in [Core -> Mode]
    BY DEF KernelInv, CoreInv
  <2>2. "execl" \in Ops \/ mode' = mode \/ \E m \in Mode \ {"execl"} : mode' = [mode EXCEPT ![c] = m]
    <3>1. CASE SysExecl(c)
      BY <3>1 DEF SysExecl, User
    <3>2. CASE \/ SysExit(c) \/ SysFork(c) \/ SysYield(c) \/ SysJoin(c) \/ SysSem(c) \/ SysUp(c)
               \/ SysDown(c) \/ SysSemClose(c) \/ SysSimpleSignal(c) \/ SysKill(c)
               \/ SysBadPointer(c)
      BY <3>2 DEF SysBadPointer, SysExit, SysFork, SysYield, SysJoin, SysSem, SysUp, SysDown, SysSemClose,
         SysSimpleSignal, SysKill, Exit, SwitchProcesses, Leave, Return, Mode
    <3>3. CASE SysSigreturn(c) \/ Fault(c) \/ Timer(c)
      BY <3>3 DEF SysSigreturn, Fault, FaultReturn, FaultSegv, Timer, TimerKernel, TimerKill,
         TimerSwitch, CallHandler, EnterHandler, LeaveHandler, Exit, SwitchProcesses, Leave,
         Return, Mode
    <3>4. CASE Trap(c) \/ EventLoop(c)
      BY <3>4 DEF Trap, SysExeclLoad, SysKillValue, SysReturn, EventLoop, RunResume, RunDown,
         RunJoin, RunStart, Resume, SwitchProcesses, Leave, Return, Mode
    <3> QED
      BY <1>2, <3>1, <3>2, <3>3, <3>4 DEF Syscall
  <2>3. "execl" \notin Ops => \A d \in Core : mode'[d] # "execl"
    BY <2>1, <2>2 DEF OpsInv
  <2>4. ASSUME "simple_signal" \notin Ops, NEW q \in Proc
        PROVE  ~pcb'[q].handler_eip /\ ~pcb'[q].in_handler
    <3>1. \A r \in Proc : ~pcb[r].handler_eip /\ ~pcb[r].in_handler
      BY <2>4 DEF OpsInv
    <3>2. CASE Calm(c)
      BY <2>4, <3>1, <3>2, HandlerKept
    <3>3. CASE SysFork(c)
      <4>1. PICK child \in Proc \ created : Forked(c, active[c], child)
        BY <3>3, ForkPcb
      <4> QED
        BY <3>1, <4>1 DEF Forked, Fields
    <3>4. CASE SysSigreturn(c) \/ Fault(c) \/ TimerKill(c)
      <4>1. Busy(c)
        BY <3>4, BusyFacts DEF SysSigreturn, Fault, FaultReturn, FaultSegv, TimerKill, User
      <4>2. active[c] \in Proc /\ pcb \in [Proc -> PCB] /\ pcb[active[c]] \in PCB
        BY <4>1, Running DEF Busy, KernelInv, PcbInv
      <4>3. pcb' = pcb \/ pcb' = [pcb EXCEPT ![active[c]].handled = TRUE]
        BY <3>1, <3>4, <4>2 DEF SysSigreturn, Fault, FaultReturn, FaultSegv, TimerKill, Exit
      <4>4. CASE pcb' = [pcb EXCEPT ![active[c]].handled = TRUE]
        <5>1. pcb[q] \in PCB
          BY <4>2
        <5> QED
          BY <3>1, <4>2, <4>4, <5>1 DEF PCB
      <4> QED
        BY <3>1, <4>3, <4>4
    <3> QED
      BY <1>2, <3>2, <3>3, <3>4 DEF Syscall, Timer, Calm
  <2> QED
    BY <2>3, <2>4 DEF OpsInv
<1> QED
  BY <1>1, <1>2 DEF Next

(* At boot no core is in execl and no handler is installed.                 *)
LEMMA OpsInit == Init => OpsInv
BY SMT DEF Init, OpsInv, NewPCB

(* A process that goes on with its registers, eax apart.                    *)
LEMMA QuietPos ==
  ASSUME KernelInv, PlaceInv, PosInv, NEW p, NEW u, NEW w, <<p, w>> \in Contexts,
         SameUser(u, w), Moves(p, u),
         \A q \in Proc : /\ pcb'[q].in_handler = pcb[q].in_handler
                         /\ pcb'[q].handler_user_context = pcb[q].handler_user_context
  PROVE  PosInv'
<1>1. ASSUME NEW x \in Contexts' PROVE pcb'[x[1]].in_handler <=> x[2].pos = "handler"
  <2>1. CASE x \in Elsewhere(p)
    <3>1. x \in Contexts /\ x[1] \in Proc
      BY <2>1, ContextOwners DEF Elsewhere
    <3> QED
      BY <3>1 DEF PosInv
  <2>2. CASE x = <<p, u>>
    <3>1. p \in Proc
      BY ContextOwners
    <3>2. pcb[p].in_handler <=> w.pos = "handler"
      BY DEF PosInv
    <3> QED
      BY <2>2, <3>1, <3>2 DEF SameUser
  <2> QED
    BY <2>1, <2>2 DEF Moves
<1> QED
  BY <1>1 DEF PosInv

(* A process that goes on elsewhere, in its handler or not.                 *)
LEMMA MovedPos ==
  ASSUME KernelInv, PlaceInv, PosInv, NEW p \in Proc, NEW u, Moves(p, u),
         \A q \in Proc : q # p => pcb'[q] = pcb[q],
         pcb'[p].in_handler <=> u.pos = "handler",
         pcb'[p].in_handler => pcb'[p].handler_user_context.pos # "handler"
  PROVE  PosInv'
<1>1. ASSUME NEW x \in Contexts' PROVE pcb'[x[1]].in_handler <=> x[2].pos = "handler"
  <2>1. CASE x \in Elsewhere(p)
    <3>1. x \in Contexts /\ x[1] \in Proc /\ x[1] # p
      BY <2>1, ContextOwners DEF Elsewhere
    <3> QED
      BY <3>1 DEF PosInv
  <2>2. CASE x = <<p, u>>
    BY <2>2
  <2> QED
    BY <2>1, <2>2 DEF Moves
<1> QED
  BY <1>1 DEF PosInv

(* Every step keeps the handler flag right.                                 *)
LEMMA PosStep ==
  ASSUME "execl" \notin Ops \/ "simple_signal" \notin Ops,
         KernelInv, PlaceInv, OpsInv, PosInv, [Next]_vars
  PROVE  PosInv'
<1>1. CASE UNCHANGED vars
  BY <1>1, IdleContexts DEF PosInv, vars
<1>2. ASSUME NEW c \in Core,
             Syscall(c) \/ Fault(c) \/ Timer(c) \/ Trap(c) \/ EventLoop(c)
      PROVE  PosInv'
  <2>1. ASSUME Calm(c), Busy(c), Quiet(c) PROVE PosInv'
    BY <2>1, BusyPlace, HandlerKept, QuietPos DEF Quiet
  <2>2. CASE \/ SysExit(c) \/ SysJoin(c) \/ SysExecl(c) \/ SysSem(c) \/ SysUp(c) \/ SysDown(c)
             \/ SysSemClose(c) \/ SysSimpleSignal(c) \/ SysKill(c) \/ SysKillValue(c)
             \/ SysYield(c) \/ SysBadPointer(c)
    BY <2>1, <2>2, CallContexts DEF Calm, Trap
  <2>3. CASE TimerSwitch(c) \/ SysReturn(c) \/ (TimerKernel(c) /\ Busy(c))
    <3>1. Busy(c) /\ Quiet(c)
      BY <2>3, PreemptContexts DEF Quiet, SameUser
    <3> QED
      BY <2>1, <2>3, <3>1 DEF Calm, Trap
  <2>4. CASE TimerKernel(c) /\ ~Busy(c)
    BY <2>4, IdleContexts DEF TimerKernel, PosInv
  <2>5. CASE SysFork(c)
    <3>0. PICK child \in Proc \ created : \E u, v :
              /\ Forked(c, active[c], child)
              /\ SameUser(u, ctx[c]) /\ SameUser(v, ctx[c])
              /\ Contexts' \subseteq Elsewhere(active[c]) \cup {<<active[c], u>>, <<child, v>>}
      BY <2>5, ForkContexts
    <3>1. PICK u, v :
              /\ Forked(c, active[c], child)
              /\ SameUser(u, ctx[c]) /\ SameUser(v, ctx[c])
              /\ Contexts' \subseteq Elsewhere(active[c]) \cup {<<active[c], u>>, <<child, v>>}
      BY <3>0
    <3>2. PICK p \in Proc : p = active[c] /\ <<p, ctx[c]>> \in Contexts /\ p # child
      BY <2>5, <3>1, ForkContexts, BusyPlace DEF Forked
    <3>3. /\ \A q \in Proc : q # child =>
               /\ pcb'[q].in_handler = pcb[q].in_handler
               /\ pcb'[q].handler_user_context = pcb[q].handler_user_context
          /\ pcb'[child].in_handler = pcb[p].in_handler
          /\ pcb'[child].handler_user_context = pcb[p].handler_user_context
      BY <3>1, <3>2 DEF Forked, Fields
    <3>4. pcb[p].in_handler <=> ctx[c].pos = "handler"
      BY <3>2 DEF PosInv
    <3>5. ASSUME NEW x \in Contexts' PROVE pcb'[x[1]].in_handler <=> x[2].pos = "handler"
      <4>1. CASE x \in Elsewhere(p)
        <5>1. x \in Contexts /\ x[1] \in Proc /\ x[1] # child
          BY <4>1, ContextOwners DEF Elsewhere
        <5> QED
          BY <3>3, <5>1 DEF PosInv
      <4>2. CASE x = <<p, u>> \/ x = <<child, v>>
        BY SMT, <3>1, <3>2, <3>3, <3>4, <4>2 DEF SameUser
      <4> QED
        BY <3>1, <3>2, <4>1, <4>2
    <3>6. \A q \in Proc : pcb'[q].in_handler => pcb'[q].handler_user_context.pos # "handler"
      BY SMT, <3>3 DEF PosInv
    <3> QED
      BY <3>5, <3>6 DEF PosInv
  <2>6. CASE SysSigreturn(c) \/ Fault(c) \/ TimerKill(c)
    <3>1. Busy(c)
      BY <2>6, SignalContexts
    <3>2. PICK p \in Proc : p = active[c] /\ <<p, ctx[c]>> \in Contexts /\ ctx[c] \in Context
      BY <3>1, BusyPlace
    <3>3. CASE Quiet(c) /\ Kept({"handled"})
      <4>1. \A q \in Proc : /\ pcb'[q].in_handler = pcb[q].in_handler
                            /\ pcb'[q].handler_user_context = pcb[q].handler_user_context
        BY <3>3 DEF Kept, Fields
      <4> QED
        BY <3>2, <3>3, <4>1, QuietPos DEF Quiet
    <3>4. CASE /\ Moves(active[c], [ctx[c] EXCEPT !.pos = "handler", !.eax = 0])
               /\ Only(active[c], {"handler_user_context", "in_handler", "handled"})
               /\ pcb'[active[c]].handler_user_context = Frame(c)
               /\ pcb'[active[c]].in_handler = TRUE
               /\ ~pcb[active[c]].in_handler
      <4> DEFINE u == [ctx[c] EXCEPT !.pos = "handler", !.eax = 0]
      <4>1. u.pos = "handler"
        BY <3>2 DEF Context
      <4>2. Frame(c).pos # "handler"
        BY <3>1, <3>2, <3>4, FrameFacts DEF PosInv
      <4> HIDE DEF u
      <4>3. Moves(p, u) /\ \A q \in Proc : q # p => pcb'[q] = pcb[q]
        BY <3>2, <3>4 DEF Only, u
      <4> QED
        BY <3>2, <3>4, <4>1, <4>2, <4>3, MovedPos
    <3>5. CASE /\ pcb[active[c]].in_handler /\ pcb'[active[c]].in_handler = FALSE
               /\ Moves(active[c], pcb[active[c]].handler_user_context)
               /\ Only(active[c], {"page_directory", "user_context", "in_handler"})
      <4>1. pcb[p].handler_user_context.pos # "handler"
        BY <3>2, <3>5 DEF PosInv
      <4>2. \A q \in Proc : q # p => pcb'[q] = pcb[q]
        BY <3>2, <3>5 DEF Only
      <4> QED
        BY <3>2, <3>5, <4>1, <4>2, MovedPos
    <3> QED
      BY <2>6, <3>3, <3>4, <3>5, SignalContexts
  <2>7. CASE SysExeclLoad(c)
    <3>1. Busy(c) /\ Moves(active[c], [image |-> cr3[c][2] + 1, pos |-> "main", eax |-> 0])
      BY <2>7, ExeclContexts
    <3>2. PICK p \in Proc : p = active[c]
      BY <3>1, BusyPlace
    <3>3. "simple_signal" \notin Ops
      BY <2>7 DEF SysExeclLoad, OpsInv
    <3>4. ~pcb[p].in_handler /\ pcb'[p].in_handler = pcb[p].in_handler
      BY <2>7, <3>3, HandlerKept DEF OpsInv, Calm, Trap
    <3>5. \A q \in Proc : q # p => pcb'[q] = pcb[q]
      BY <2>7, <3>2, PcbEffect DEF Only
    <3> QED
      BY <3>1, <3>2, <3>4, <3>5, MovedPos
  <2>8. CASE EventLoop(c)
    <3>1. PICK u : Moves(Head(ready).pcb, u) /\ SameUser(u, Saved(Head(ready)))
      BY <2>8, RunContexts
    <3>2. <<Head(ready).pcb, Saved(Head(ready))>> \in Contexts
      BY <2>8, RunContexts, HeadPlace
    <3>3. \A q \in Proc : /\ pcb'[q].in_handler = pcb[q].in_handler
                          /\ pcb'[q].handler_user_context = pcb[q].handler_user_context
      BY <2>8, HandlerKept DEF Calm
    <3> QED
      BY <3>1, <3>2, <3>3, QuietPos
  <2> QED
    BY <1>2, <2>2, <2>3, <2>4, <2>5, <2>6, <2>7, <2>8 DEF Syscall, Timer, Trap
<1> QED
  BY <1>1, <1>2 DEF Next

(* The only context of the first state.                                     *)
LEMMA InitContexts ==
  ASSUME Init
  PROVE  Contexts \subseteq {<<FirstProc, [image |-> 0, pos |-> "main", eax |-> 0]>>}
<1> USE KernelAssumption
<1>1. ready = << >> /\ \A s \in Proc \cup Sem : sem[s].waiting = << >>
  BY DEF Init
<1>2. Range(<< >>) = {}
  BY EmptyFacts
<1>3. Closures(sem, ready) = {}
  BY <1>1, <1>2 DEF Closures, Waits
<1>4. \A c \in Core : Busy(c) =>
        active[c] = FirstProc /\ ctx[c] = [image |-> 0, pos |-> "main", eax |-> 0]
  BY DEF Init, Busy, Idle
<1> QED
  BY <1>3, <1>4 DEF Contexts, CoreContexts

(* At boot the first process is in its main program.                        *)
LEMMA PosInit == Init => PosInv
<1> SUFFICES ASSUME Init PROVE PosInv
  OBVIOUS
<1>1. \A p \in Proc : pcb[p].in_handler = FALSE
  BY DEF Init, NewPCB
<1> QED
  BY SMT, <1>1, InitContexts, KernelAssumption DEF PosInv
==============================================================================
