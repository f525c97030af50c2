---------------------------- MODULE SemaphoreSpec ----------------------------
(***************************************************************************)
(* What a counting semaphore promises its callers: down takes a unit or     *)
(* queues, up hands its unit to the longest waiter or stores it, and each   *)
(* of the two is one indivisible step.                                      *)
(***************************************************************************)
EXTENDS Integers, Sequences

CONSTANTS Event,        \* the work items passed to down
          InitCount     \* the constructor's argument

VARIABLES count,        \* units nobody has taken
          waiting,      \* events queued for a unit, oldest first
          granted       \* events that hold a unit and have not run yet

absVars == <<count, waiting, granted>>

AbsInit ==
  /\ count = InitCount
  /\ waiting = << >>
  /\ granted = {}

AbsTake(e) ==
  /\ count > 0
  /\ e \notin granted
  /\ count' = count - 1
  /\ granted' = granted \cup {e}
  /\ UNCHANGED waiting

(* A coroutine that finds a unit takes it and goes on at once.              *)
AbsTryTake ==
  /\ count > 0
  /\ count' = count - 1
  /\ UNCHANGED <<waiting, granted>>

AbsWait(e) ==
  /\ count = 0
  /\ waiting' = Append(waiting, e)
  /\ UNCHANGED <<count, granted>>

AbsStore ==
  /\ waiting = << >>
  /\ count' = count + 1
  /\ UNCHANGED <<waiting, granted>>

AbsWake ==
  /\ waiting # << >>
  /\ waiting' = Tail(waiting)
  /\ granted' = granted \cup {Head(waiting)}
  /\ UNCHANGED count

AbsRun(e) ==
  /\ e \in granted
  /\ granted' = granted \ {e}
  /\ UNCHANGED <<count, waiting>>

AbsNext ==
  \/ AbsStore \/ AbsWake \/ AbsTryTake
  \/ \E e \in Event : AbsTake(e) \/ AbsWait(e) \/ AbsRun(e)

AbsSpec == AbsInit /\ [][AbsNext]_absVars
==============================================================================
