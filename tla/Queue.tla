-------------------------------- MODULE Queue --------------------------------
(***************************************************************************)
(* Queue<T, SpinLock> (kernel/queue.h): a singly linked list under a spin   *)
(* lock whose waiters sleep in mwait (kernel/atomic.h, kernel/loop.h).      *)
(* The ready queue and the queues of pipes are of this kind.  Every write   *)
(* of a pointer is a step.                                                  *)
(***************************************************************************)
EXTENDS Integers, Sequences, Functions

CONSTANTS Core,         \* the cores
          Node,         \* the objects that can be linked
          Null          \* nullptr

ASSUME QueueAssumption == Null \notin Node

VARIABLES taken,        \* SpinLock::taken
          armed,        \* cores whose monitor has seen no store since
          first, last,  \* Queue::first, Queue::last
          next,         \* next[t]: the field of node t
          pc,           \* pc[c]: where core c is
          op,           \* op[c]: what it is doing
          node,         \* node[c]: t in add, it in remove
          items         \* history: the nodes added and not yet removed

list == <<first, last, next, items>>
vars == <<taken, armed, list, pc, op, node>>

Waiting == {"monitor", "exchange", "mwait"}
Critical == {"add", "link", "last", "remove", "empty", "unlock"}

Init ==
  /\ taken = FALSE /\ armed = {}
  /\ first = Null /\ last = Null
  /\ next \in [Node -> {Null}]
  /\ pc = [c \in Core |-> "idle"]
  /\ op = [c \in Core |-> "none"]
  /\ node = [c \in Core |-> Null]
  /\ items = << >>

Goto(c, l) == pc' = [pc EXCEPT ![c] = l]

----------------------------------------------------------------------------
(* A store to taken: the monitors of the other cores are triggered.         *)
Store(c, v) == taken' = v /\ armed' = armed \cap {c}

(* SpinLock::lock, first part: monitor, exchange, and mwait if it was       *)
(* taken, which returns when the monitor has been triggered.                *)
Monitor(c) ==
  /\ pc[c] = "monitor"
  /\ armed' = armed \cup {c}
  /\ Goto(c, "exchange")
  /\ UNCHANGED <<taken, list, op, node>>

(* Mutant of Exchange: what was there is not looked at.                     *)
ExchangeBlind(c) ==
  /\ pc[c] = "exchange"
  /\ Store(c, TRUE)
  /\ Goto(c, op[c])
  /\ UNCHANGED <<list, op, node>>

Exchange(c) ==
  /\ pc[c] = "exchange"
  /\ Store(c, TRUE)
  /\ Goto(c, IF taken THEN "mwait" ELSE op[c])
  /\ UNCHANGED <<list, op, node>>

Mwait(c) ==
  /\ pc[c] = "mwait"
  /\ c \notin armed
  /\ Goto(c, "monitor")
  /\ UNCHANGED <<taken, armed, list, op, node>>

(* An interrupt ends mwait too, if it is not masked.                        *)
Interrupt(c) ==
  /\ pc[c] = "mwait"
  /\ Goto(c, "monitor")
  /\ UNCHANGED <<taken, armed, list, op, node>>

(* Mutant of Lock: the monitor is armed after the exchange only.            *)
LockLate(c) ==
  \/ /\ pc[c] = "monitor"
     /\ Store(c, TRUE)
     /\ Goto(c, IF taken THEN "exchange" ELSE op[c])
     /\ UNCHANGED <<list, op, node>>
  \/ /\ pc[c] = "exchange"
     /\ armed' = armed \cup {c}
     /\ Goto(c, "mwait")
     /\ UNCHANGED <<taken, list, op, node>>
  \/ Mwait(c)

Lock(c) == Monitor(c) \/ Exchange(c) \/ Mwait(c)

(* ~LockGuard, and the return of add or remove.                             *)
Unlock(c) ==
  /\ pc[c] = "unlock"
  /\ Store(c, FALSE)
  /\ Goto(c, "idle")
  /\ op' = [op EXCEPT ![c] = "none"]
  /\ node' = [node EXCEPT ![c] = Null]
  /\ UNCHANGED list

----------------------------------------------------------------------------
(* add(t) is called with a node that is nowhere else: a new Event or Value. *)
CallAdd(c, t) ==
  /\ pc[c] = "idle"
  /\ t \notin Range(items) \cup Range(node)
  /\ op' = [op EXCEPT ![c] = "add"]
  /\ node' = [node EXCEPT ![c] = t]
  /\ Goto(c, "monitor")
  /\ UNCHANGED <<taken, armed, list>>

CallRemove(c) ==
  /\ pc[c] = "idle"
  /\ op' = [op EXCEPT ![c] = "remove"]
  /\ Goto(c, "monitor")
  /\ UNCHANGED <<taken, armed, list, node>>

(* t->next = nullptr                                                        *)
AddNext(c) ==
  /\ pc[c] = "add"
  /\ next' = [next EXCEPT ![node[c]] = Null]
  /\ Goto(c, "link")
  /\ UNCHANGED <<taken, armed, first, last, items, op, node>>

(* first = t, or last->next = t                                             *)
AddLink(c) ==
  /\ pc[c] = "link"
  /\ IF first = Null THEN first' = node[c] /\ UNCHANGED next
                     ELSE next' = [next EXCEPT ![last] = node[c]] /\ UNCHANGED first
  /\ items' = Append(items, node[c])
  /\ Goto(c, "last")
  /\ UNCHANGED <<taken, armed, last, op, node>>

(* last = t                                                                 *)
AddLast(c) ==
  /\ pc[c] = "last"
  /\ last' = node[c]
  /\ Goto(c, "unlock")
  /\ UNCHANGED <<taken, armed, first, next, items, op, node>>

(* The test of first, and first = it->next.                                 *)
RemoveFirst(c) ==
  /\ pc[c] = "remove"
  /\ IF first = Null
     THEN UNCHANGED <<first, items, node>> /\ Goto(c, "unlock")
     ELSE /\ node' = [node EXCEPT ![c] = first]
          /\ first' = next[first]
          /\ items' = Tail(items)
          /\ Goto(c, "empty")
  /\ UNCHANGED <<taken, armed, last, next, op>>

(* last = nullptr when the list has become empty                            *)
RemoveEmpty(c) ==
  /\ pc[c] = "empty"
  /\ last' = IF first = Null THEN Null ELSE last
  /\ Goto(c, "unlock")
  /\ UNCHANGED <<taken, armed, first, next, items, op, node>>

Call(c) == CallRemove(c) \/ \E t \in Node : CallAdd(c, t)
Inside(c) == AddNext(c) \/ AddLink(c) \/ AddLast(c) \/ RemoveFirst(c)
               \/ RemoveEmpty(c) \/ Unlock(c)

Next == \E c \in Core : Call(c) \/ Lock(c) \/ Interrupt(c) \/ Inside(c)

Spec == Init /\ [][Next]_vars

----------------------------------------------------------------------------
(* The types of the variables.                                              *)
TypeOK ==
  /\ taken \in BOOLEAN /\ armed \subseteq Core
  /\ first \in Node \cup {Null} /\ last \in Node \cup {Null}
  /\ next \in [Node -> Node \cup {Null}]
  /\ pc \in [Core -> {"idle"} \cup Waiting \cup Critical]
  /\ op \in [Core -> {"none", "add", "remove"}]
  /\ node \in [Core -> Node \cup {Null}]
  /\ items \in Seq(Node)

(* A core that sleeps in mwait is woken: the lock is taken as long as the   *)
(* monitor it sleeps on has not been triggered, so a store is still to      *)
(* come.                                                                    *)
NoMissedWakeup == \A c \in Core : pc[c] = "mwait" /\ c \in armed => taken

FirstOf(s) == IF s = << >> THEN Null ELSE s[1]
LastOf(s) == IF s = << >> THEN Null ELSE s[Len(s)]
Chained(n, s) ==
  \A i \in 1 .. Len(s) : n[s[i]] = IF i = Len(s) THEN Null ELSE s[i + 1]

(* At any time the pointers from first spell the nodes added and not yet    *)
(* removed, and when nobody holds the lock last is the end of the list.     *)
Spells ==
  /\ first = FirstOf(items)
  /\ Chained(next, items)
  /\ ~taken => last = LastOf(items)

(* The list under its lock is a FIFO queue with atomic add and remove.      *)
Abs == INSTANCE QueueSpec WITH
  q <- items, done <- {c \in Core : pc[c] \in {"last", "empty", "unlock"}}
RefinesQueue == Abs!AbsSpec
==============================================================================
