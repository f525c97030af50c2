------------------------------ MODULE Semaphore ------------------------------
(***************************************************************************)
(* kernel/semaphore.h and kernel/semaphore.cc: one Semaphore used by        *)
(* several cores at once.  A critical section is two steps, the test and    *)
(* what follows from it, so that it is the spin lock, and not the grain of  *)
(* the model, that keeps two calls apart.  impl::ready_queue locks itself:  *)
(* adding to it and removing from it are single steps.                      *)
(***************************************************************************)
EXTENDS Integers, Sequences, FiniteSets, Functions

CONSTANTS Core,         \* the cores of the machine
          Event,        \* impl::Event objects, reused by the heap once run
          NoEvent,      \* nullptr
          InitCount,    \* the constructor's argument
          MaxBalance    \* bound: units in existence at any time

ASSUME SemaphoreAssumption ==
  /\ IsFiniteSet(Core)
  /\ NoEvent \notin Event
  /\ InitCount \in Nat
  /\ MaxBalance \in Nat

VARIABLES taken,        \* the byte SpinLock::taken of Semaphore::lock: 1 when held
          count,        \* Semaphore::count
          waiting,      \* Semaphore::waiting
          ready,        \* impl::ready_queue
          pc,           \* pc[c]: the next statement of core c
          ev,           \* ev[c]: the local variable e of core c's call
          issued,       \* history: the events passed to down and not yet run
          balance       \* history: InitCount + calls of up - events run

history == <<issued, balance>>
vars == <<taken, count, waiting, ready, pc, ev, history>>

(* What a core has still to execute: with the lock held, and without.       *)
Critical == {"down_test", "down_take", "down_wait",
             "try_test", "try_take", "try_fail",
             "up_remove", "up_wake", "up_count"}
Outside == {"idle", "down_lock", "down_add", "try_lock", "up_lock"}

Init ==
  /\ taken = 0
  /\ count = InitCount
  /\ waiting = << >>
  /\ ready = << >>
  /\ pc = [c \in Core |-> "idle"]
  /\ ev = [c \in Core |-> NoEvent]
  /\ issued = {}
  /\ balance = InitCount

Goto(c, from, to) == pc[c] = from /\ pc' = [pc EXCEPT ![c] = to]

SetEvent(c, e) == ev' = [ev EXCEPT ![c] = e]

----------------------------------------------------------------------------
(* SpinLock::lock at the exchange that succeeds, and SpinLock::unlock.      *)
Lock(c, from, to) ==
  /\ Goto(c, from, to)
  /\ taken = 0
  /\ taken' = 1
  /\ UNCHANGED <<count, waiting, ready, ev, history>>

Unlock == taken' = 0

----------------------------------------------------------------------------
(* down(work).  The event is published after the unlock when a unit was     *)
(* there to take, and before it when the event has to wait.                 *)
DownCall(c) ==
  /\ Goto(c, "idle", "down_lock")
  /\ \E e \in Event \ issued : SetEvent(c, e) /\ issued' = issued \cup {e}
  /\ UNCHANGED <<taken, count, waiting, ready, balance>>

DownLock(c) == Lock(c, "down_lock", "down_test")

DownTest(c) ==
  /\ Goto(c, "down_test", IF count > 0 THEN "down_take" ELSE "down_wait")
  /\ UNCHANGED <<taken, count, waiting, ready, ev, history>>

DownTake(c) ==
  /\ Goto(c, "down_take", "down_add")
  /\ count' = count - 1
  /\ Unlock
  /\ UNCHANGED <<waiting, ready, ev, history>>

DownAdd(c) ==
  /\ Goto(c, "down_add", "idle")
  /\ ready' = Append(ready, ev[c])
  /\ SetEvent(c, NoEvent)
  /\ UNCHANGED <<taken, count, waiting, history>>

(* Mutant of DownWait: the newest waiter goes to the front.                 *)
DownWaitFirst(c) ==
  /\ Goto(c, "down_wait", "idle")
  /\ waiting' = <<ev[c]>> \o waiting
  /\ SetEvent(c, NoEvent)
  /\ Unlock
  /\ UNCHANGED <<count, ready, history>>

DownWait(c) ==
  /\ Goto(c, "down_wait", "idle")
  /\ waiting' = Append(waiting, ev[c])
  /\ SetEvent(c, NoEvent)
  /\ Unlock
  /\ UNCHANGED <<count, ready, history>>

----------------------------------------------------------------------------
(* await_ready: a coroutine's attempt not to block.  When it succeeds the   *)
(* coroutine goes on in the same core; when it fails await_suspend calls    *)
(* down, which checks again.                                                *)
TryCall(c) ==
  /\ Goto(c, "idle", "try_lock")
  /\ \E e \in Event \ issued : SetEvent(c, e) /\ issued' = issued \cup {e}
  /\ UNCHANGED <<taken, count, waiting, ready, balance>>

TryLock(c) == Lock(c, "try_lock", "try_test")

TryTest(c) ==
  /\ Goto(c, "try_test", IF count > 0 THEN "try_take" ELSE "try_fail")
  /\ UNCHANGED <<taken, count, waiting, ready, ev, history>>

(* Mutant of TryTake: the unit is used and not taken.                       *)
TryTakeFree(c) ==
  /\ Goto(c, "try_take", "idle")
  /\ Unlock
  /\ SetEvent(c, NoEvent)
  /\ issued' = issued \ {ev[c]}
  /\ balance' = balance - 1
  /\ UNCHANGED <<count, waiting, ready>>

TryTake(c) ==
  /\ Goto(c, "try_take", "idle")
  /\ count' = count - 1
  /\ Unlock
  /\ SetEvent(c, NoEvent)
  /\ issued' = issued \ {ev[c]}
  /\ balance' = balance - 1
  /\ UNCHANGED <<waiting, ready>>

(* Mutant of TryFail: the early return leaves the lock held.                *)
TryFailHolding(c) ==
  /\ Goto(c, "try_fail", "down_lock")
  /\ UNCHANGED <<taken, count, waiting, ready, ev, history>>

TryFail(c) ==
  /\ Goto(c, "try_fail", "down_lock")
  /\ Unlock
  /\ UNCHANGED <<count, waiting, ready, ev, history>>

----------------------------------------------------------------------------
(* up()                                                                     *)
UpCall(c) ==
  /\ Goto(c, "idle", "up_lock")
  /\ balance < MaxBalance
  /\ balance' = balance + 1
  /\ UNCHANGED <<taken, count, waiting, ready, ev, issued>>

UpLock(c) == Lock(c, "up_lock", "up_remove")

UpRemove(c) ==
  /\ \/ /\ waiting = << >>
        /\ Goto(c, "up_remove", "up_count")
        /\ UNCHANGED <<waiting, ev>>
     \/ /\ waiting # << >>
        /\ Goto(c, "up_remove", "up_wake")
        /\ SetEvent(c, Head(waiting))
        /\ waiting' = Tail(waiting)
  /\ UNCHANGED <<taken, count, ready, history>>

UpWake(c) ==
  /\ Goto(c, "up_wake", "idle")
  /\ ready' = Append(ready, ev[c])
  /\ SetEvent(c, NoEvent)
  /\ Unlock
  /\ UNCHANGED <<count, waiting, history>>

UpCount(c) ==
  /\ Goto(c, "up_count", "idle")
  /\ count' = count + 1
  /\ Unlock
  /\ UNCHANGED <<waiting, ready, ev, history>>

----------------------------------------------------------------------------
(* event_loop on core c: remove the oldest ready event and run it.          *)
Run(c) ==
  /\ pc[c] = "idle"
  /\ ready # << >>
  /\ ready' = Tail(ready)
  /\ issued' = issued \ {Head(ready)}
  /\ balance' = balance - 1
  /\ UNCHANGED <<taken, count, waiting, pc, ev>>

Call(c) == DownCall(c) \/ TryCall(c) \/ UpCall(c)

Acquire(c) == DownLock(c) \/ TryLock(c) \/ UpLock(c)

Inside(c) ==
  \/ DownTest(c) \/ DownTake(c) \/ DownAdd(c) \/ DownWait(c)
  \/ TryTest(c) \/ TryTake(c) \/ TryFail(c)
  \/ UpRemove(c) \/ UpWake(c) \/ UpCount(c)

Next == \E c \in Core : Call(c) \/ Acquire(c) \/ Inside(c) \/ Run(c)

Spec == Init /\ [][Next]_vars

(* A core that holds the lock goes on executing.  Nothing is assumed of who *)
(* wins the exchange on a contended lock.                                   *)
FairSpec == Spec /\ \A c \in Core : WF_vars(Inside(c))

----------------------------------------------------------------------------
(* The types of the variables.                                              *)
TypeOK ==
  /\ taken \in {0, 1}
  /\ count \in Nat
  /\ waiting \in Seq(Event)
  /\ ready \in Seq(Event)
  /\ pc \in [Core -> Critical \cup Outside]
  /\ ev \in [Core -> Event \cup {NoEvent}]
  /\ issued \in SUBSET Event
  /\ balance \in Int

(* SpinLock (atomic.h): at most one core executes between lock and unlock,  *)
(* and the lock is taken exactly while one does.                            *)
MutualExclusion ==
  /\ \A c, d \in Core : pc[c] \in Critical /\ pc[d] \in Critical => c = d
  /\ taken = 1 <=> \E c \in Core : pc[c] \in Critical

(* semaphore.cc:10, ASSERT(count == 0): when up has taken a waiter off the  *)
(* queue, no unit is stored that the waiter should have had.                *)
WakeAssertion == \A c \in Core : pc[c] = "up_wake" => count = 0

(* A unit is stored only when nobody waits for one: no wakeup is lost in    *)
(* the race between down's test and up's.                                   *)
NoLostWakeup == waiting # << >> => count = 0

(* An event passed to down is in exactly one place until it runs: a down    *)
(* racing with an up neither drops it nor schedules it twice.               *)
OnePlace ==
  /\ IsInjective(waiting)
  /\ IsInjective(ready)
  /\ Range(waiting) \cap Range(ready) = {}
  /\ \A c \in Core : ev[c] \notin Range(waiting) \cup Range(ready)
  /\ \A c, d \in Core : ev[c] = ev[d] /\ ev[c] # NoEvent => c = d
  /\ \A e \in Event : e \in issued <=> \/ e \in Range(waiting) \cup Range(ready)
                                      \/ \E c \in Core : ev[c] = e

(* The events that hold a unit and have not run.                            *)
Granted ==
  Range(ready)
    \cup {ev[c] : c \in {d \in Core : pc[d] \in {"down_add", "up_wake"}}}

UpsInFlight ==
  {c \in Core : pc[c] \in {"up_lock", "up_remove", "up_count"}}

(* Every unit is stored, held by one event, or brought by an up that has    *)
(* not delivered it yet: no call invents or loses a unit.                   *)
Conservation ==
  balance = count + Cardinality(Granted) + Cardinality(UpsInFlight)

(* Down, up and await_ready implement the atomic semaphore: each call takes *)
(* effect at one step, and waiters are served in the order they queued.     *)
Abs == INSTANCE SemaphoreSpec WITH granted <- Granted
RefinesAtomic == Abs!AbsSpec

(* Whoever takes the lock gives it back, on every path of every call.       *)
LockReleased == taken = 1 ~> taken = 0
==============================================================================
