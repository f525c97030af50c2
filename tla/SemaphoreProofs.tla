--------------------------- MODULE SemaphoreProofs ---------------------------
(***************************************************************************)
(* Proofs about Semaphore, for any number of cores and events.              *)
(***************************************************************************)
EXTENDS Semaphore, QueueFacts, FiniteSetTheorems, TLAPS

(* What each core knows at its control point: whether it still carries an   *)
(* event, and what the test it made under the lock still guarantees.        *)
ControlInv ==
  \A c \in Core :
    /\ ev[c] = NoEvent <=> pc[c] \in {"idle", "up_lock", "up_remove", "up_count"}
    /\ pc[c] \in {"down_take", "try_take"} => count > 0
    /\ pc[c] = "down_wait" => count = 0
    /\ pc[c] = "up_count" => waiting = << >>

LockInv ==
  /\ TypeOK
  /\ MutualExclusion
  /\ ControlInv
  /\ WakeAssertion
  /\ NoLostWakeup

(* A Semaphore as constructed: lock free, no call in progress.              *)
LEMMA LockInit == Init => LockInv
BY SemaphoreAssumption
   DEF Init, LockInv, TypeOK, MutualExclusion, ControlInv, WakeAssertion,
       NoLostWakeup, Critical, Outside

(* Each statement of down, await_ready and up keeps the invariant: what a   *)
(* core tested under the lock stays true until it unlocks.                  *)
LEMMA LockStep == LockInv /\ [Next]_vars => LockInv'
<1> SUFFICES ASSUME LockInv, [Next]_vars
             PROVE  LockInv'
  OBVIOUS
<1>a. ASSUME NEW c \in Core, UpRemove(c), waiting # << >>
      PROVE  waiting' \in Seq(Event) /\ \E h \in Event : ev' = [ev EXCEPT ![c] = h]
  <2>1. Head(waiting) \in Event /\ Tail(waiting) \in Seq(Event)
    BY <1>a, RemoveFacts DEF LockInv, TypeOK
  <2>2. waiting' = Tail(waiting) /\ ev' = [ev EXCEPT ![c] = Head(waiting)]
    BY <1>a DEF UpRemove, SetEvent
  <2> QED
    BY <2>1, <2>2
<1> USE SemaphoreAssumption
    DEF LockInv, TypeOK, MutualExclusion, ControlInv, WakeAssertion,
        NoLostWakeup, Critical, Outside, Goto, SetEvent, Unlock, Lock, history
<1>1. ASSUME NEW c \in Core, DownCall(c) PROVE LockInv'
  BY <1>1 DEF DownCall
<1>2. ASSUME NEW c \in Core, TryCall(c) PROVE LockInv'
  BY <1>2 DEF TryCall
<1>3. ASSUME NEW c \in Core, UpCall(c) PROVE LockInv'
  BY <1>3 DEF UpCall
<1>4. ASSUME NEW c \in Core, DownLock(c) PROVE LockInv'
  BY <1>4 DEF DownLock
<1>5. ASSUME NEW c \in Core, TryLock(c) PROVE LockInv'
  BY <1>5 DEF TryLock
<1>6. ASSUME NEW c \in Core, UpLock(c) PROVE LockInv'
  BY <1>6 DEF UpLock
<1>7. ASSUME NEW c \in Core, DownTest(c) PROVE LockInv'
  BY <1>7 DEF DownTest
<1>8. ASSUME NEW c \in Core, DownTake(c) PROVE LockInv'
  BY <1>8 DEF DownTake
<1>9. ASSUME NEW c \in Core, DownAdd(c) PROVE LockInv'
  BY <1>9 DEF DownAdd
<1>10. ASSUME NEW c \in Core, DownWait(c) PROVE LockInv'
  BY <1>10 DEF DownWait
<1>11. ASSUME NEW c \in Core, TryTest(c) PROVE LockInv'
  BY <1>11 DEF TryTest
<1>12. ASSUME NEW c \in Core, TryTake(c) PROVE LockInv'
  BY <1>12 DEF TryTake
<1>13. ASSUME NEW c \in Core, TryFail(c) PROVE LockInv'
  BY <1>13 DEF TryFail
<1>14. ASSUME NEW c \in Core, UpRemove(c) PROVE LockInv'
  <2>1. CASE waiting = << >>
    BY <1>14, <2>1 DEF UpRemove
  <2>2. CASE waiting # << >>
    <3>1. waiting' \in Seq(Event) /\ \E h \in Event : ev' = [ev EXCEPT ![c] = h]
      BY <1>a, <1>14, <2>2
    <3>2. /\ pc[c] = "up_remove" /\ pc' = [pc EXCEPT ![c] = "up_wake"]
          /\ UNCHANGED <<taken, count, ready, issued, balance>>
      BY <1>14, <2>2 DEF UpRemove
    <3> QED
      BY <2>2, <3>1, <3>2
  <2> QED
    BY <2>1, <2>2
<1>15. ASSUME NEW c \in Core, UpWake(c) PROVE LockInv'
  BY <1>15 DEF UpWake
<1>16. ASSUME NEW c \in Core, UpCount(c) PROVE LockInv'
  BY <1>16 DEF UpCount
<1>17. ASSUME NEW c \in Core, Run(c) PROVE LockInv'
  BY <1>17 DEF Run
<1>18. CASE UNCHANGED vars
  BY <1>18 DEF vars
<1> QED
  BY <1>1, <1>2, <1>3, <1>4, <1>5, <1>6, <1>7, <1>8, <1>9, <1>10, <1>11,
     <1>12, <1>13, <1>14, <1>15, <1>16, <1>17, <1>18
     DEF Next, Call, Acquire, Inside

(* The lock's invariant holds in every reachable state.                     *)
THEOREM LockCorrect == Spec => []LockInv
BY LockInit, LockStep, PTL DEF Spec

(* The fields and locals of every call have their types: in particular      *)
(* count, unsigned in the code, is never decremented at zero.               *)
THEOREM TypeCorrect == Spec => []TypeOK
BY LockCorrect, PTL DEF LockInv

(* Semaphore::lock excludes: at most one core is between lock and unlock.   *)
THEOREM MutualExclusionHolds == Spec => []MutualExclusion
BY LockCorrect, PTL DEF LockInv

(* ASSERT(count == 0) of Semaphore::up never fires.                         *)
THEOREM WakeAssertionHolds == Spec => []WakeAssertion
BY LockCorrect, PTL DEF LockInv

(* A unit and a waiter never coexist.                                       *)
THEOREM NoLostWakeupHolds == Spec => []NoLostWakeup
BY LockCorrect, PTL DEF LockInv

----------------------------------------------------------------------------
(* No event is issued at first.                                             *)
LEMMA PlaceInit == Init => OnePlace
BY EmptyFacts, SemaphoreAssumption DEF Init, OnePlace

(* Each statement moves the event it handles from one place to one other.   *)
LEMMA PlaceStep == LockInv /\ OnePlace /\ [Next]_vars => OnePlace'
<1> SUFFICES ASSUME LockInv, OnePlace, [Next]_vars
             PROVE  OnePlace'
  OBVIOUS
<1> USE SemaphoreAssumption
<1>a. /\ waiting \in Seq(Event) /\ ready \in Seq(Event)
      /\ ev \in [Core -> Event \cup {NoEvent}] /\ issued \subseteq Event
      /\ Range(waiting) \subseteq Event /\ Range(ready) \subseteq Event
  BY RangeFacts DEF LockInv, TypeOK
<1>b. ASSUME NEW c \in Core,
             pc[c] \in {"down_add", "down_wait", "up_wake", "try_take"}
      PROVE  ev[c] \in Event
  BY <1>a, <1>b DEF LockInv, ControlInv
<1>c. ASSUME NEW c \in Core, pc[c] \in {"idle", "up_remove"}
      PROVE  ev[c] = NoEvent
  BY <1>c DEF LockInv, ControlInv
<1>1. ASSUME NEW c \in Core, DownCall(c) \/ TryCall(c) PROVE OnePlace'
  <2>1. PICK e \in Event \ issued :
          ev' = [ev EXCEPT ![c] = e] /\ issued' = issued \cup {e}
    BY <1>1 DEF DownCall, TryCall, SetEvent
  <2>2. ready' = ready /\ waiting' = waiting /\ ev[c] = NoEvent
    BY <1>1, <1>c DEF DownCall, TryCall, Goto
  <2> QED
    BY <1>a, <2>1, <2>2 DEF OnePlace
<1>2. ASSUME NEW c \in Core, UpCall(c) \/ Acquire(c) PROVE OnePlace'
  BY <1>2 DEF UpCall, Acquire, DownLock, TryLock, UpLock, Lock, history, OnePlace
<1>3. ASSUME NEW c \in Core,
             DownTest(c) \/ DownTake(c) \/ TryTest(c) \/ TryFail(c) \/ UpCount(c)
      PROVE  OnePlace'
  BY <1>3 DEF DownTest, DownTake, TryTest, TryFail, UpCount, history, OnePlace
<1>4. ASSUME NEW c \in Core, DownAdd(c) \/ UpWake(c) PROVE OnePlace'
  <2>1. ev[c] \in Event
    BY <1>4, <1>b DEF DownAdd, UpWake, Goto
  <2>2. /\ ready' = Append(ready, ev[c]) /\ ev' = [ev EXCEPT ![c] = NoEvent]
        /\ waiting' = waiting /\ issued' = issued
    BY <1>4 DEF DownAdd, UpWake, SetEvent, history
  <2>3. Range(ready') = Range(ready) \cup {ev[c]} /\ IsInjective(ready')
    BY <1>a, <2>1, <2>2, AddFacts DEF OnePlace
  <2> QED
    BY <1>a, <2>1, <2>2, <2>3 DEF OnePlace
<1>5. ASSUME NEW c \in Core, DownWait(c) PROVE OnePlace'
  <2>1. ev[c] \in Event
    BY <1>5, <1>b DEF DownWait, Goto
  <2>2. /\ waiting' = Append(waiting, ev[c]) /\ ev' = [ev EXCEPT ![c] = NoEvent]
        /\ ready' = ready /\ issued' = issued
    BY <1>5 DEF DownWait, SetEvent, history
  <2>3. Range(waiting') = Range(waiting) \cup {ev[c]} /\ IsInjective(waiting')
    BY <1>a, <2>1, <2>2, AddFacts DEF OnePlace
  <2> QED
    BY <1>a, <2>1, <2>2, <2>3 DEF OnePlace
<1>6. ASSUME NEW c \in Core, TryTake(c) PROVE OnePlace'
  <2>1. ev[c] \in Event
    BY <1>6, <1>b DEF TryTake, Goto
  <2>2. /\ ev' = [ev EXCEPT ![c] = NoEvent] /\ issued' = issued \ {ev[c]}
        /\ ready' = ready /\ waiting' = waiting
    BY <1>6 DEF TryTake, SetEvent
  <2> QED
    BY <1>a, <2>1, <2>2 DEF OnePlace
<1>7. ASSUME NEW c \in Core, UpRemove(c) PROVE OnePlace'
  <2>1. CASE waiting = << >>
    BY <1>7, <2>1 DEF UpRemove, history, OnePlace
  <2>2. CASE waiting # << >>
    <3>1. ev[c] = NoEvent
      BY <1>7, <1>c DEF UpRemove, Goto
    <3>2. /\ waiting' = Tail(waiting) /\ ev' = [ev EXCEPT ![c] = Head(waiting)]
          /\ ready' = ready /\ issued' = issued
      BY <1>7, <2>2 DEF UpRemove, SetEvent, history
    <3>3. PICK h \in Event : h = Head(waiting)
      BY <1>a, <2>2, RemoveFacts
    <3>4. /\ Range(waiting) = Range(waiting') \cup {h} /\ h \notin Range(waiting')
          /\ IsInjective(waiting')
      BY <1>a, <2>2, <3>2, <3>3, RemoveFacts DEF OnePlace
    <3>5. ev' = [ev EXCEPT ![c] = h]
      BY <3>2, <3>3
    <3> QED
      BY <1>a, <3>1, <3>2, <3>4, <3>5 DEF OnePlace
  <2> QED
    BY <2>1, <2>2
<1>8. ASSUME NEW c \in Core, Run(c) PROVE OnePlace'
  <2>1. PICK h \in Event : h = Head(ready)
    BY <1>a, <1>8, RemoveFacts DEF Run
  <2>2. /\ ready' = Tail(ready) /\ ev' = ev
        /\ waiting' = waiting /\ issued' = issued \ {h}
    BY <1>8, <2>1 DEF Run
  <2>3. /\ Range(ready) = Range(ready') \cup {h} /\ h \notin Range(ready')
        /\ IsInjective(ready')
    BY <1>a, <1>8, <2>1, <2>2, RemoveFacts DEF Run, OnePlace
  <2> QED
    BY <1>a, <2>2, <2>3 DEF OnePlace
<1>9. CASE UNCHANGED vars
  BY <1>9 DEF vars, history, OnePlace
<1> QED
  BY <1>1, <1>2, <1>3, <1>4, <1>5, <1>6, <1>7, <1>8, <1>9
     DEF Next, Call, Inside

(* No event is dropped and none is scheduled twice.                         *)
THEOREM OnePlaceHolds == Spec => []OnePlace
BY PlaceInit, PlaceStep, LockCorrect, PTL DEF Spec

----------------------------------------------------------------------------
(* How each step changes the set of events that hold a unit.                *)
Carrying == {d \in Core : pc[d] \in {"down_add", "up_wake"}}

(* down with a unit and up with a waiter add one event to Granted,          *)
(* event_loop takes one away, and nothing else changes it.                  *)
LEMMA GrantedFacts ==
  ASSUME LockInv, OnePlace, NEW c \in Core
  PROVE  /\ DownTake(c) => /\ ev[c] \in Event \ Granted
                           /\ Granted' = Granted \cup {ev[c]}
         /\ UpRemove(c) /\ waiting # << >> =>
              /\ Head(waiting) \in Event \ Granted
              /\ Granted' = Granted \cup {Head(waiting)}
         /\ Run(c) => /\ Head(ready) \in Granted \cap Event
                      /\ Granted' = Granted \ {Head(ready)}
         /\ DownAdd(c) \/ UpWake(c) => Granted' = Granted
         /\ ( \/ Call(c) \/ Acquire(c) \/ DownTest(c) \/ DownWait(c) \/ TryTest(c)
              \/ TryTake(c) \/ TryFail(c) \/ UpCount(c)
              \/ UpRemove(c) /\ waiting = << >> ) => Granted' = Granted
<1> USE SemaphoreAssumption
<1>a. /\ waiting \in Seq(Event) /\ ready \in Seq(Event)
      /\ pc \in [Core -> Critical \cup Outside]
      /\ ev \in [Core -> Event \cup {NoEvent}]
      /\ Range(waiting) \subseteq Event /\ Range(ready) \subseteq Event
  BY RangeFacts DEF LockInv, TypeOK
<1>b. Granted = Range(ready) \cup {ev[d] : d \in Carrying}
  BY DEF Granted, Carrying
<1>c. Granted' = Range(ready') \cup {ev'[d] : d \in Carrying'}
  BY DEF Granted, Carrying
<1>d. \A d \in Core : ev[d] = NoEvent <=> pc[d] \in {"idle", "up_lock", "up_remove", "up_count"}
  BY DEF LockInv, ControlInv
<1>1. ASSUME DownTake(c)
      PROVE  ev[c] \in Event \ Granted /\ Granted' = Granted \cup {ev[c]}
  <2>1. /\ pc[c] = "down_take" /\ pc' = [pc EXCEPT ![c] = "down_add"]
        /\ ready' = ready /\ ev' = ev
    BY <1>1 DEF DownTake, Goto
  <2>2. ev[c] \in Event /\ ev[c] \notin Range(ready)
    BY <1>a, <1>d, <2>1 DEF OnePlace
  <2>3. c \notin Carrying /\ Carrying' = Carrying \cup {c}
    BY <1>a, <2>1 DEF Carrying
  <2>4. \A d \in Carrying : ev[d] # ev[c]
    BY <2>2, <2>3 DEF OnePlace, Carrying
  <2> QED
    BY <1>b, <1>c, <2>1, <2>2, <2>3, <2>4
<1>2. ASSUME UpRemove(c), waiting # << >>
      PROVE  Head(waiting) \in Event \ Granted /\ Granted' = Granted \cup {Head(waiting)}
  <2> DEFINE h == Head(waiting)
  <2>1. /\ pc[c] = "up_remove" /\ pc' = [pc EXCEPT ![c] = "up_wake"]
        /\ ready' = ready /\ ev' = [ev EXCEPT ![c] = h]
    BY <1>2 DEF UpRemove, Goto, SetEvent
  <2>2. h \in Event /\ h \in Range(waiting)
    BY <1>a, <1>2, RemoveFacts
  <2> HIDE DEF h
  <2>3. c \notin Carrying /\ Carrying' = Carrying \cup {c}
    BY <1>a, <2>1 DEF Carrying
  <2>4. h \notin Granted
    BY <1>b, <2>2 DEF OnePlace, Carrying
  <2>5. {ev'[d] : d \in Carrying'} = {ev[d] : d \in Carrying} \cup {h}
    BY <1>a, <2>1, <2>3 DEF Carrying
  <2> QED
    BY <1>b, <1>c, <2>1, <2>2, <2>4, <2>5 DEF h
<1>3. ASSUME Run(c)
      PROVE  Head(ready) \in Granted \cap Event /\ Granted' = Granted \ {Head(ready)}
  <2> DEFINE h == Head(ready)
  <2>1. /\ h \in Event /\ h \in Range(ready) /\ h \notin Range(ready')
        /\ Range(ready) = Range(ready') \cup {h}
    BY <1>a, <1>3, RemoveFacts DEF Run, OnePlace
  <2>2. Carrying' = Carrying /\ ev' = ev
    BY <1>3 DEF Run, Carrying
  <2> HIDE DEF h
  <2>3. \A d \in Carrying : ev[d] # h
    BY <2>1 DEF OnePlace, Carrying
  <2> QED
    BY <1>b, <1>c, <2>1, <2>2, <2>3 DEF h
<1>4. ASSUME DownAdd(c) \/ UpWake(c) PROVE Granted' = Granted
  <2>1. /\ pc[c] \in {"down_add", "up_wake"} /\ pc' = [pc EXCEPT ![c] = "idle"]
        /\ ready' = Append(ready, ev[c]) /\ ev' = [ev EXCEPT ![c] = NoEvent]
    BY <1>4 DEF DownAdd, UpWake, Goto, SetEvent
  <2>2. Range(ready') = Range(ready) \cup {ev[c]}
    BY <1>a, <1>d, <2>1, AddFacts
  <2>3. c \in Carrying /\ Carrying' = Carrying \ {c}
    BY <1>a, <2>1 DEF Carrying
  <2>4. {ev'[d] : d \in Carrying'} \cup {ev[c]} = {ev[d] : d \in Carrying}
    BY <1>a, <2>1, <2>3 DEF Carrying
  <2> QED
    BY <1>b, <1>c, <2>2, <2>4
<1>5. ASSUME \/ Call(c) \/ Acquire(c) \/ DownTest(c) \/ DownWait(c) \/ TryTest(c)
             \/ TryTake(c) \/ TryFail(c) \/ UpCount(c)
             \/ UpRemove(c) /\ waiting = << >>
      PROVE  Granted' = Granted
  <2>1. ready' = ready /\ pc[c] \notin {"down_add", "up_wake"}
    BY <1>5 DEF Call, Acquire, DownCall, TryCall, UpCall, DownLock, TryLock, UpLock,
       Lock, DownTest, DownWait, TryTest, TryTake, TryFail, UpCount, UpRemove, Goto
  <2>2. \E to \in (Critical \cup Outside) \ {"down_add", "up_wake"} :
          pc' = [pc EXCEPT ![c] = to]
    BY <1>5 DEF Call, Acquire, DownCall, TryCall, UpCall, DownLock, TryLock, UpLock,
       Lock, DownTest, DownWait, TryTest, TryTake, TryFail, UpCount, UpRemove, Goto,
       Critical, Outside
  <2>3. \A d \in Core \ {c} : ev'[d] = ev[d]
    BY <1>5, <1>a DEF Call, Acquire, DownCall, TryCall, UpCall, DownLock, TryLock,
       UpLock, Lock, DownTest, DownWait, TryTest, TryTake, TryFail, UpCount,
       UpRemove, SetEvent
  <2>4. Carrying' = Carrying /\ c \notin Carrying
    BY <1>a, <2>1, <2>2 DEF Carrying
  <2> QED
    BY <1>b, <1>c, <2>1, <2>3, <2>4 DEF Carrying
<1> QED
  BY <1>1, <1>2, <1>3, <1>4, <1>5

----------------------------------------------------------------------------
(* The constructor makes the initial state of the atomic semaphore.         *)
LEMMA AtomicInit == Init => Abs!AbsInit
<1> SUFFICES ASSUME Init PROVE Abs!AbsInit
  OBVIOUS
<1>1. Range(ready) = {} /\ {d \in Core : pc[d] \in {"down_add", "up_wake"}} = {}
  BY EmptyFacts DEF Init
<1>2. Granted = {}
  BY <1>1 DEF Granted
<1> QED
  BY <1>2 DEF Init, Abs!AbsInit

(* Each statement of down, await_ready, up and event_loop is a step of the  *)
(* atomic semaphore or changes nothing that it has.                         *)
LEMMA AtomicStep ==
  LockInv /\ OnePlace /\ [Next]_vars => [Abs!AbsNext]_(Abs!absVars)
<1> SUFFICES ASSUME LockInv, OnePlace, [Next]_vars
             PROVE  Abs!AbsNext \/ UNCHANGED <<count, waiting, Granted>>
  BY DEF Abs!absVars
<1>a. ASSUME NEW c \in Core
      PROVE  /\ pc[c] \in {"down_take", "try_take"} => count > 0
             /\ pc[c] = "down_wait" => count = 0 /\ ev[c] \in Event
             /\ pc[c] = "up_count" => waiting = << >>
  BY SemaphoreAssumption DEF LockInv, TypeOK, ControlInv
<1>1. ASSUME NEW c \in Core, DownTake(c) PROVE Abs!AbsTake(ev[c]) /\ ev[c] \in Event
  <2>1. ev[c] \in Event \ Granted /\ Granted' = Granted \cup {ev[c]}
    BY <1>1, GrantedFacts
  <2>2. count > 0
    BY <1>a, <1>1 DEF DownTake, Goto
  <2> QED
    BY <1>1, <2>1, <2>2 DEF DownTake, Abs!AbsTake
<1>2. ASSUME NEW c \in Core, TryTake(c) PROVE Abs!AbsTryTake
  <2>1. Granted' = Granted
    BY <1>2, GrantedFacts
  <2>2. count > 0
    BY <1>a, <1>2 DEF TryTake, Goto
  <2> QED
    BY <1>2, <2>1, <2>2 DEF TryTake, Abs!AbsTryTake
<1>3. ASSUME NEW c \in Core, DownWait(c) PROVE Abs!AbsWait(ev[c]) /\ ev[c] \in Event
  <2>1. Granted' = Granted
    BY <1>3, GrantedFacts
  <2>2. count = 0 /\ ev[c] \in Event
    BY <1>a, <1>3 DEF DownWait, Goto
  <2> QED
    BY <1>3, <2>1, <2>2 DEF DownWait, Abs!AbsWait
<1>4. ASSUME NEW c \in Core, UpCount(c) PROVE Abs!AbsStore
  <2>1. Granted' = Granted
    BY <1>4, GrantedFacts
  <2>2. waiting = << >>
    BY <1>a, <1>4 DEF UpCount, Goto
  <2> QED
    BY <1>4, <2>1, <2>2 DEF UpCount, Abs!AbsStore
<1>5. ASSUME NEW c \in Core, UpRemove(c), waiting # << >> PROVE Abs!AbsWake
  BY <1>5, GrantedFacts DEF UpRemove, Abs!AbsWake
<1>6. ASSUME NEW c \in Core, Run(c)
      PROVE  Abs!AbsRun(Head(ready)) /\ Head(ready) \in Event
  BY <1>6, GrantedFacts DEF Run, Abs!AbsRun
<1>7. ASSUME NEW c \in Core,
             \/ Call(c) \/ Acquire(c) \/ DownTest(c) \/ TryTest(c) \/ TryFail(c)
             \/ UpRemove(c) /\ waiting = << >>
             \/ DownAdd(c) \/ UpWake(c)
      PROVE  UNCHANGED <<count, waiting, Granted>>
  <2>1. Granted' = Granted
    BY <1>7, GrantedFacts
  <2>2. UNCHANGED <<count, waiting>>
    BY <1>7 DEF Call, Acquire, DownCall, TryCall, UpCall, DownLock, TryLock, UpLock,
       Lock, DownTest, TryTest, TryFail, UpRemove, DownAdd, UpWake
  <2> QED
    BY <2>1, <2>2
<1>8. CASE UNCHANGED vars
  BY <1>8 DEF vars, Granted
<1> QED
  BY <1>1, <1>2, <1>3, <1>4, <1>5, <1>6, <1>7, <1>8 DEF Next, Inside, Abs!AbsNext

(* The code implements the atomic, first-come first-served semaphore.       *)
THEOREM Refinement == Spec => RefinesAtomic
BY AtomicInit, AtomicStep, LockCorrect, OnePlaceHolds, PTL
   DEF Spec, RefinesAtomic, Abs!AbsSpec

----------------------------------------------------------------------------
(* Units are conserved.  Granted stays finite because every step adds at    *)
(* most one event to it.                                                    *)
CountInv == IsFiniteSet(Granted) /\ Conservation

(* The constructor stores InitCount units.                                  *)
LEMMA CountInit == Init => CountInv
<1> SUFFICES ASSUME Init PROVE CountInv
  OBVIOUS
<1>1. Granted = {}
  BY AtomicInit DEF Abs!AbsInit
<1>2. UpsInFlight = {}
  BY DEF Init, UpsInFlight
<1>3. count = balance /\ balance \in Nat
  BY SemaphoreAssumption DEF Init
<1> QED
  BY <1>1, <1>2, <1>3, FS_EmptySet DEF CountInv, Conservation

(* Each statement of down, await_ready and up keeps the sum of units.       *)
LEMMA CountStep == LockInv /\ OnePlace /\ CountInv /\ [Next]_vars => CountInv'
<1> SUFFICES ASSUME LockInv, OnePlace, CountInv, [Next]_vars
             PROVE  CountInv'
  OBVIOUS
<1> DEFINE G == Cardinality(Granted)
           U == Cardinality(UpsInFlight)
           Bringing == {"up_lock", "up_remove", "up_count"}
<1>a. /\ count \in Nat /\ balance \in Int
      /\ pc \in [Core -> Critical \cup Outside]
      /\ IsFiniteSet(Granted) /\ IsFiniteSet(UpsInFlight)
      /\ G \in Nat /\ U \in Nat
      /\ balance = count + G + U
  <2>1. UpsInFlight \subseteq Core
    BY DEF UpsInFlight
  <2>2. IsFiniteSet(Granted) /\ IsFiniteSet(UpsInFlight)
    BY <2>1, FS_Subset, SemaphoreAssumption DEF CountInv
  <2> QED
    BY <2>2, FS_CardinalityType DEF LockInv, TypeOK, CountInv, Conservation
<1>b. ASSUME NEW c \in Core, NEW to, pc' = [pc EXCEPT ![c] = to]
      PROVE  /\ pc[c] \in Bringing <=> to \in Bringing => UpsInFlight' = UpsInFlight
             /\ pc[c] \in Bringing /\ to \notin Bringing =>
                  c \in UpsInFlight /\ UpsInFlight' = UpsInFlight \ {c}
             /\ pc[c] \notin Bringing /\ to \in Bringing =>
                  c \notin UpsInFlight /\ UpsInFlight' = UpsInFlight \cup {c}
  BY <1>a, <1>b DEF UpsInFlight
<1> HIDE DEF G, U
<1>1. ASSUME NEW c \in Core, DownTake(c) PROVE CountInv'
  <2>1. UpsInFlight' = UpsInFlight
    BY <1>1, <1>b DEF DownTake, Goto
  <2>2. IsFiniteSet(Granted') /\ Cardinality(Granted') = G + 1
    <3>1. PICK h : h \notin Granted /\ Granted' = Granted \cup {h}
      BY <1>1, GrantedFacts
    <3> QED
      BY <1>a, <3>1, FS_AddElement DEF G
  <2>3. count' = count - 1 /\ balance' = balance
    BY <1>1 DEF DownTake, history
  <2> QED
    BY <1>a, <2>1, <2>2, <2>3 DEF CountInv, Conservation, U
<1>2. ASSUME NEW c \in Core, TryTake(c) PROVE CountInv'
  <2>1. UpsInFlight' = UpsInFlight
    BY <1>2, <1>b DEF TryTake, Goto
  <2>2. Granted' = Granted /\ count' = count - 1 /\ balance' = balance - 1
    BY <1>2, GrantedFacts DEF TryTake
  <2> QED
    BY <1>a, <2>1, <2>2 DEF CountInv, Conservation, U, G
<1>3. ASSUME NEW c \in Core, UpCall(c) PROVE CountInv'
  <2>1. c \notin UpsInFlight /\ UpsInFlight' = UpsInFlight \cup {c}
    BY <1>3, <1>b DEF UpCall, Goto
  <2>2. Cardinality(UpsInFlight') = U + 1
    BY <1>a, <2>1, FS_AddElement DEF U
  <2>3. Granted' = Granted /\ count' = count /\ balance' = balance + 1
    BY <1>3, GrantedFacts DEF UpCall, Call
  <2> QED
    BY <1>a, <2>2, <2>3 DEF CountInv, Conservation, G
<1>4. ASSUME NEW c \in Core, UpRemove(c), waiting # << >> PROVE CountInv'
  <2>1. c \in UpsInFlight /\ UpsInFlight' = UpsInFlight \ {c}
    <3>1. pc[c] = "up_remove" /\ pc' = [pc EXCEPT ![c] = "up_wake"]
      BY <1>4 DEF UpRemove, Goto
    <3>2. pc[c] \in Bringing /\ "up_wake" \notin Bringing
      BY <3>1
    <3> QED
      BY <1>b, <3>1, <3>2, Zenon
  <2>2. Cardinality(UpsInFlight') = U - 1
    BY <1>a, <2>1, FS_RemoveElement DEF U
  <2>3. IsFiniteSet(Granted') /\ Cardinality(Granted') = G + 1
    <3>1. PICK h : h \notin Granted /\ Granted' = Granted \cup {h}
      BY <1>4, GrantedFacts
    <3> QED
      BY <1>a, <3>1, FS_AddElement DEF G
  <2>4. count' = count /\ balance' = balance
    BY <1>4 DEF UpRemove, history
  <2> QED
    BY <1>a, <2>2, <2>3, <2>4 DEF CountInv, Conservation
<1>5. ASSUME NEW c \in Core, UpCount(c) PROVE CountInv'
  <2>1. c \in UpsInFlight /\ UpsInFlight' = UpsInFlight \ {c}
    BY <1>5, <1>b DEF UpCount, Goto
  <2>2. Cardinality(UpsInFlight') = U - 1
    BY <1>a, <2>1, FS_RemoveElement DEF U
  <2>3. Granted' = Granted /\ count' = count + 1 /\ balance' = balance
    BY <1>5, GrantedFacts DEF UpCount, history
  <2> QED
    BY <1>a, <2>2, <2>3 DEF CountInv, Conservation, G
<1>6. ASSUME NEW c \in Core, Run(c) PROVE CountInv'
  <2>1. UpsInFlight' = UpsInFlight
    BY <1>6 DEF Run, UpsInFlight
  <2>2. IsFiniteSet(Granted') /\ Cardinality(Granted') = G - 1
    <3>1. PICK h : h \in Granted /\ Granted' = Granted \ {h}
      BY <1>6, GrantedFacts
    <3> QED
      BY <1>a, <3>1, FS_RemoveElement DEF G
  <2>3. count' = count /\ balance' = balance - 1
    BY <1>6 DEF Run
  <2> QED
    BY <1>a, <2>1, <2>2, <2>3 DEF CountInv, Conservation, U
<1>7. ASSUME NEW c \in Core,
             \/ DownCall(c) \/ TryCall(c) \/ Acquire(c) \/ DownTest(c) \/ DownAdd(c)
             \/ DownWait(c) \/ TryTest(c) \/ TryFail(c) \/ UpWake(c)
             \/ UpRemove(c) /\ waiting = << >>
      PROVE  CountInv'
  <2>1. UpsInFlight' = UpsInFlight
    BY <1>7, <1>b DEF DownCall, TryCall, Acquire, DownLock, TryLock, UpLock, Lock,
       DownTest, DownAdd, DownWait, TryTest, TryFail, UpWake, UpRemove, Goto
  <2>2. Granted' = Granted
    BY <1>7, GrantedFacts DEF Call
  <2>3. count' = count /\ balance' = balance
    BY <1>7 DEF DownCall, TryCall, Acquire, DownLock, TryLock, UpLock, Lock,
       DownTest, DownAdd, DownWait, TryTest, TryFail, UpWake, UpRemove, history
  <2> QED
    BY <2>1, <2>2, <2>3 DEF CountInv, Conservation
<1>8. CASE UNCHANGED vars
  BY <1>8 DEF vars, history, CountInv, Conservation, Granted, UpsInFlight
<1> QED
  BY <1>1, <1>2, <1>3, <1>4, <1>5, <1>6, <1>7, <1>8 DEF Next, Call, Inside

(* No call of up, down or await_ready invents or loses a unit.              *)
THEOREM ConservationHolds == Spec => []Conservation
BY CountInit, CountStep, LockCorrect, OnePlaceHolds, PTL DEF Spec, CountInv
==============================================================================
