----------------------------- MODULE QueueProofs -----------------------------
(***************************************************************************)
(* Proofs about Queue, for any number of cores and nodes.                   *)
(***************************************************************************)
EXTENDS Queue, QueueFacts

(* One core at most is between lock and unlock, and it holds the lock.      *)
Mutex ==
  \A c \in Core : pc[c] \in Critical =>
    taken /\ \A d \in Core : pc[d] \in Critical => d = c

(* What a core is doing, at each place it can be.                           *)
Control ==
  \A c \in Core :
    /\ op[c] = "none" <=> pc[c] = "idle"
    /\ pc[c] \in {"add", "link", "last"} => op[c] = "add"
    /\ pc[c] \in {"remove", "empty"} => op[c] = "remove"
    /\ op[c] = "add" => node[c] \in Node
    /\ op[c] = "none" => node[c] = Null
    /\ op[c] = "remove" /\ pc[c] \notin {"empty", "unlock"} => node[c] = Null

(* A node that is being added is in no other hands.                         *)
Before(c) == op[c] = "add" /\ pc[c] \notin {"last", "unlock"}
Fresh ==
  /\ IsInjective(items)
  /\ \A c \in Core : Before(c) =>
       /\ node[c] \notin Range(items)
       /\ \A d \in Core : node[d] = node[c] => d = c

(* What the core that holds the lock knows of the ends of the list.         *)
Ends ==
  /\ \A c \in Core :
       /\ pc[c] = "link" => next[node[c]] = Null
       /\ pc[c] = "last" => LastOf(items) = node[c]
       /\ pc[c] = "empty" /\ items # << >> => last = LastOf(items)
       /\ pc[c] \in {"add", "link", "remove", "unlock"} => last = LastOf(items)

QueueInv == TypeOK /\ Mutex /\ Control /\ Fresh /\ Ends /\ Spells /\ NoMissedWakeup

(* t->next = nullptr, for a node outside the list, leaves the list.         *)
LEMMA ClearFacts ==
  ASSUME NEW s \in Seq(Node), NEW n \in [Node -> Node \cup {Null}], NEW t \in Node,
         t \notin Range(s), Chained(n, s)
  PROVE  Chained([n EXCEPT ![t] = Null], s)
<1>1. \A i \in 1 .. Len(s) : s[i] \in Node /\ s[i] # t
  BY DEF Range
<1> QED
  BY <1>1 DEF Chained

(* Queue::add, linking: a node whose next is null becomes the end.          *)
LEMMA LinkFacts ==
  ASSUME NEW s \in Seq(Node), NEW n \in [Node -> Node \cup {Null}], NEW t \in Node,
         t \notin Range(s), IsInjective(s), Chained(n, s), n[t] = Null
  PROVE  /\ s = << >> => Chained(n, Append(s, t)) /\ FirstOf(Append(s, t)) = t
         /\ s # << >> => /\ Chained([n EXCEPT ![LastOf(s)] = t], Append(s, t))
                         /\ FirstOf(Append(s, t)) = FirstOf(s)
         /\ LastOf(Append(s, t)) = t
<1> DEFINE r == Append(s, t)
<1>1. /\ Len(s) \in Nat /\ Len(r) = Len(s) + 1 /\ r # << >>
      /\ \A i \in 1 .. Len(s) : r[i] = s[i] /\ s[i] \in Node
      /\ r[Len(s) + 1] = t
      /\ s = << >> <=> Len(s) = 0
      /\ DOMAIN s = 1 .. Len(s)
  OBVIOUS
<1> HIDE DEF r
<1>2. LastOf(r) = t
  BY <1>1 DEF LastOf
<1>3. ASSUME s = << >> PROVE Chained(n, r) /\ FirstOf(r) = t
  BY <1>1, <1>3 DEF Chained, FirstOf
<1>4. ASSUME s # << >>
      PROVE  Chained([n EXCEPT ![LastOf(s)] = t], r) /\ FirstOf(r) = FirstOf(s)
  <2> DEFINE m == [n EXCEPT ![LastOf(s)] = t]
  <2>1. Len(s) > 0 /\ LastOf(s) = s[Len(s)] /\ LastOf(s) \in Node
    BY <1>1, <1>4 DEF LastOf
  <2>2. t # LastOf(s)
    BY <1>1, <2>1 DEF Range
  <2>3. m[t] = Null /\ m[LastOf(s)] = t
    BY <2>1, <2>2
  <2>4. ASSUME NEW i \in 1 .. Len(s), i # Len(s) PROVE s[i] # LastOf(s)
    <3>1. i \in DOMAIN s /\ Len(s) \in DOMAIN s
      BY <1>1, <2>1
    <3> QED
      BY <2>1, <2>4, <3>1, Zenon DEF IsInjective
  <2>5. ASSUME NEW i \in 1 .. Len(s), i # Len(s) PROVE m[s[i]] = n[s[i]]
    BY <1>1, <2>1, <2>4, <2>5
  <2> HIDE DEF m
  <2>6. ASSUME NEW i \in 1 .. Len(r)
        PROVE  m[r[i]] = IF i = Len(r) THEN Null ELSE r[i + 1]
    <3>0. Len(s) \in Nat /\ Len(r) = Len(s) + 1 /\ i \in Int /\ 1 <= i /\ i <= Len(r)
      BY <1>1
    <3>1. CASE i = Len(r)
      BY <1>1, <2>3, <3>1
    <3>2. CASE i = Len(s)
      <4>1. i \in 1 .. Len(s) /\ i # Len(r)
        BY <2>1, <3>0, <3>2
      <4>2. r[i] = LastOf(s)
        BY <1>1, <2>1, <3>2, <4>1
      <4>3. r[i + 1] = t
        BY <1>1, <3>2
      <4> QED
        BY <2>3, <4>1, <4>2, <4>3
    <3>3. CASE i # Len(r) /\ i # Len(s)
      <4>1. i \in 1 .. Len(s) /\ i + 1 \in 1 .. Len(s)
        BY <3>0, <3>3
      <4>2. n[s[i]] = s[i + 1]
        BY <3>3, <4>1 DEF Chained
      <4>3. m[s[i]] = n[s[i]]
        BY <2>5, <3>3, <4>1
      <4>4. r[i] = s[i] /\ r[i + 1] = s[i + 1]
        BY <1>1, <4>1
      <4> QED
        BY <3>3, <4>2, <4>3, <4>4
    <3> QED
      BY <3>1, <3>2, <3>3
  <2>7. Chained(m, r)
    BY <2>6 DEF Chained
  <2>8. FirstOf(r) = FirstOf(s)
    BY <1>1, <1>4, <2>1 DEF FirstOf
  <2> QED
    BY <2>7, <2>8 DEF m
<1> QED
  BY <1>2, <1>3, <1>4 DEF r

(* Queue::remove: first = it->next is the first of the rest, and the end    *)
(* stays the end.                                                           *)
LEMMA UnlinkFacts ==
  ASSUME NEW s \in Seq(Node), NEW n \in [Node -> Node \cup {Null}], s # << >>, Chained(n, s)
  PROVE  /\ Chained(n, Tail(s))
         /\ n[FirstOf(s)] = FirstOf(Tail(s))
         /\ Tail(s) # << >> => LastOf(Tail(s)) = LastOf(s)
         /\ FirstOf(s) = Head(s) /\ LastOf(s) \in Node
<1> DEFINE r == Tail(s)
<1>1. /\ Len(s) \in Nat /\ Len(s) > 0 /\ r \in Seq(Node)
      /\ \A i \in 1 .. Len(s) : s[i] \in Node
      /\ Head(s) = s[1]
  OBVIOUS
<1>2. Len(r) = Len(s) - 1 /\ \A i \in 1 .. Len(s) - 1 : r[i] = s[i + 1]
  OBVIOUS
<1> HIDE DEF r
<1>3. r = << >> <=> Len(r) = 0
  BY <1>1
<1>4. Chained(n, r)
  <2> SUFFICES ASSUME NEW i \in 1 .. Len(r)
               PROVE  n[r[i]] = IF i = Len(r) THEN Null ELSE r[i + 1]
    BY DEF Chained
  <2>1. i + 1 \in 1 .. Len(s) /\ r[i] = s[i + 1] /\ (i = Len(r) <=> i + 1 = Len(s))
    BY <1>1, <1>2
  <2>2. n[s[i + 1]] = IF i + 1 = Len(s) THEN Null ELSE s[(i + 1) + 1]
    BY <2>1 DEF Chained
  <2>3. i # Len(r) => r[i + 1] = s[(i + 1) + 1]
    BY <1>1, <1>2
  <2> QED
    BY <2>1, <2>2, <2>3
<1>5. n[FirstOf(s)] = FirstOf(r)
  <2>1. FirstOf(s) = s[1] /\ 1 \in 1 .. Len(s)
    BY <1>1 DEF FirstOf
  <2>2. n[s[1]] = IF 1 = Len(s) THEN Null ELSE s[1 + 1]
    BY <2>1 DEF Chained
  <2>3. FirstOf(r) = IF 1 = Len(s) THEN Null ELSE s[1 + 1]
    BY <1>1, <1>2, <1>3 DEF FirstOf
  <2> QED
    BY <2>1, <2>2, <2>3
<1>6. r # << >> => LastOf(r) = LastOf(s)
  BY <1>1, <1>2, <1>3 DEF LastOf
<1>7. FirstOf(s) = Head(s) /\ LastOf(s) \in Node
  BY <1>1 DEF FirstOf, LastOf
<1> QED
  BY <1>4, <1>5, <1>6, <1>7 DEF r

(* A Queue as constructed.                                                  *)
LEMMA QueueInit == Init => QueueInv
<1> SUFFICES ASSUME Init PROVE QueueInv
  OBVIOUS
<1>1. << >> \in Seq(Node) /\ Range(<< >>) = {} /\ IsInjective(<< >>)
  BY EmptyFacts
<1>2. TypeOK
  BY <1>1 DEF Init, TypeOK, Waiting, Critical
<1> QED
  BY <1>1, <1>2 DEF Init, QueueInv, Mutex, Control, Before, Fresh, Ends, Spells,
     NoMissedWakeup, FirstOf, LastOf, Chained, Critical

(* The steps of SpinLock::lock, of interrupts and of calls touch neither    *)
(* the list nor, by themselves, the ends of it.                             *)
LEMMA LockStep ==
  ASSUME QueueInv, NEW c \in Core, Monitor(c) \/ Exchange(c) \/ Mwait(c) \/ Interrupt(c)
  PROVE  QueueInv'
<1> USE DEF QueueInv, TypeOK, Mutex, Control, Before, Fresh, Ends, Spells, NoMissedWakeup,
            Critical, Waiting, Goto, Store, list
<1>1. CASE Monitor(c)
  BY <1>1 DEF Monitor
<1>2. CASE Exchange(c)
  BY <1>2 DEF Exchange
<1>3. CASE Mwait(c)
  BY <1>3 DEF Mwait
<1>4. CASE Interrupt(c)
  BY <1>4 DEF Interrupt
<1> QED
  BY <1>1, <1>2, <1>3, <1>4

(* Calls: a node that is nowhere else becomes the argument of add.          *)
LEMMA CallStep ==
  ASSUME QueueInv, NEW c \in Core, Call(c) PROVE QueueInv'
<1> USE DEF QueueInv, TypeOK, Mutex, Control, Before, Fresh, Ends, Spells, NoMissedWakeup,
            Critical, Waiting, Goto, list
<1>1. CASE CallRemove(c)
  BY <1>1 DEF CallRemove
<1>2. ASSUME NEW t \in Node, CallAdd(c, t) PROVE QueueInv'
  <2>1. \A d \in Core : node[d] # t
    BY <1>2 DEF CallAdd, Range
  <2> QED
    BY <1>2, <2>1, QueueAssumption DEF CallAdd
<1> QED
  BY <1>1, <1>2 DEF Call

(* Unlocking: last is the end of the list again.                            *)
LEMMA UnlockStep ==
  ASSUME QueueInv, NEW c \in Core, Unlock(c) PROVE QueueInv'
<1> USE QueueAssumption DEF QueueInv, TypeOK, Critical, Waiting, Goto, Store, list, Unlock
<1>1. TypeOK' /\ Mutex'
  BY DEF Mutex
<1>2. Control'
  BY DEF Control
<1>3. Fresh'
  BY DEF Control, Before, Fresh
<1>4. Ends' /\ Spells'
  BY DEF Mutex, Ends, Spells, FirstOf, LastOf, Chained
<1>5. NoMissedWakeup'
  BY DEF NoMissedWakeup
<1> QED
  BY <1>1, <1>2, <1>3, <1>4, <1>5

(* The statements of add.                                                   *)
LEMMA AddStep ==
  ASSUME QueueInv, NEW c \in Core, AddNext(c) \/ AddLink(c) \/ AddLast(c) PROVE QueueInv'
<1> USE QueueAssumption
    DEF QueueInv, TypeOK, Mutex, Control, Before, Fresh, Ends, Spells, NoMissedWakeup,
        Critical, Waiting, Goto
<1>1. CASE AddNext(c)
  <2>1. node[c] \in Node /\ node[c] \notin Range(items)
    BY <1>1 DEF AddNext
  <2>2. Chained(next, items)'
    BY <1>1, <2>1, ClearFacts DEF AddNext
  <2> QED
    BY <1>1, <2>1, <2>2 DEF AddNext, FirstOf, LastOf
<1>2. CASE AddLink(c)
  <2>1. node[c] \in Node /\ node[c] \notin Range(items) /\ next[node[c]] = Null
    BY <1>2 DEF AddLink
  <2>2. last = LastOf(items) /\ (items = << >> => first = Null)
    BY <1>2 DEF AddLink, FirstOf
  <2>3. items # << >> => first # Null /\ last \in Node
    BY <2>2, UnlinkFacts DEF FirstOf, LastOf
  <2>4. /\ items' \in Seq(Node) /\ items' # << >>
        /\ Range(items') = Range(items) \cup {node[c]} /\ IsInjective(items')
    BY <1>2, <2>1, AddFacts DEF AddLink
  <2>5. Chained(next, items)' /\ first' = FirstOf(items)' /\ LastOf(items)' = node[c]
    BY <1>2, <2>1, <2>2, <2>3, LinkFacts DEF AddLink, FirstOf, LastOf
  <2>6. TypeOK' /\ Mutex'
    BY <1>2, <2>1, <2>4 DEF AddLink
  <2>7. Control'
    BY <1>2, <2>1, <2>4 DEF AddLink
  <2>8. Fresh'
    BY <1>2, <2>1, <2>4 DEF AddLink
  <2>9. Ends'
    BY <1>2, <2>1, <2>4, <2>5 DEF AddLink
  <2>10. Spells' /\ NoMissedWakeup'
    BY <1>2, <2>4, <2>5 DEF AddLink
  <2> QED
    BY <2>6, <2>7, <2>8, <2>9, <2>10
<1>3. CASE AddLast(c)
  BY <1>3 DEF AddLast, FirstOf, LastOf, Chained
<1> QED
  BY <1>1, <1>2, <1>3

(* The statements of remove.                                                *)
LEMMA RemoveStep ==
  ASSUME QueueInv, NEW c \in Core, RemoveFirst(c) \/ RemoveEmpty(c) PROVE QueueInv'
<1> USE QueueAssumption
    DEF QueueInv, TypeOK, Mutex, Control, Before, Fresh, Ends, Spells, NoMissedWakeup,
        Critical, Waiting, Goto
<1>1. CASE RemoveFirst(c) /\ first = Null
  BY <1>1 DEF RemoveFirst, FirstOf, LastOf, Chained
<1>2. CASE RemoveFirst(c) /\ first # Null
  <2>1. items # << >> /\ first = Head(items)
    BY <1>2, UnlinkFacts DEF FirstOf
  <2>2. /\ first \in Node /\ first \in Range(items) /\ items' \in Seq(Node)
        /\ Range(items') \subseteq Range(items) /\ IsInjective(items')
    <3>1. items \in Seq(Node) /\ IsInjective(items) /\ items' = Tail(items)
      BY <1>2 DEF RemoveFirst
    <3> QED
      BY <2>1, <3>1, RemoveFacts
  <2>3. /\ Chained(next, items)' /\ first' = FirstOf(items)'
        /\ items' # << >> => last' = LastOf(items)'
    <3>1. /\ first' = next[first] /\ items' = Tail(items) /\ UNCHANGED <<next, last>>
          /\ first = FirstOf(items) /\ last = LastOf(items) /\ Chained(next, items)
      BY <1>2 DEF RemoveFirst
    <3>2. /\ Chained(next, Tail(items)) /\ next[first] = FirstOf(Tail(items))
          /\ Tail(items) # << >> => last = LastOf(Tail(items))
      BY <2>1, <3>1, UnlinkFacts
    <3> QED
      BY <3>1, <3>2 DEF FirstOf, LastOf, Chained
  <2>4. /\ pc[c] = "remove" /\ pc' = [pc EXCEPT ![c] = "empty"]
        /\ node' = [node EXCEPT ![c] = first]
        /\ UNCHANGED <<taken, armed, last, next, op>>
        /\ first' \in Node \cup {Null}
    BY <1>2, <2>2 DEF RemoveFirst
  <2>5. Fresh'
    BY <2>2, <2>4
  <2> QED
    BY <2>2, <2>3, <2>4, <2>5
<1>3. CASE RemoveEmpty(c)
  BY <1>3 DEF RemoveEmpty, FirstOf, LastOf, Chained
<1> QED
  BY <1>1, <1>2, <1>3

(* Every step of every core keeps the invariant.                            *)
LEMMA QueueStep == QueueInv /\ [Next]_vars => QueueInv'
<1> SUFFICES ASSUME QueueInv, [Next]_vars PROVE QueueInv'
  OBVIOUS
<1>1. CASE Next
  BY <1>1, CallStep, LockStep, UnlockStep, AddStep, RemoveStep DEF Next, Lock, Inside
<1>2. CASE UNCHANGED vars
  BY <1>2 DEF vars, list, QueueInv, TypeOK, Mutex, Control, Before, Fresh, Ends, Spells,
     NoMissedWakeup, FirstOf, LastOf, Chained
<1> QED
  BY <1>1, <1>2

(* The inductive invariant of Queue<T, SpinLock>, for any number of cores   *)
(* and nodes: who holds the lock, whose hands each node is in, and how far  *)
(* the pointers follow the calls.                                           *)
THEOREM QueueCorrect == Spec => []QueueInv
BY QueueInit, QueueStep, PTL DEF Spec

(* Queue::first and the next fields always spell the nodes that were added  *)
(* and not removed, in order.                                               *)
THEOREM SpellsHolds == Spec => []Spells
<1>1. QueueInv => Spells
  BY DEF QueueInv
<1> QED
  BY <1>1, QueueCorrect, PTL

(* SpinLock::lock never sleeps through the unlock: monitor comes before     *)
(* exchange.                                                                *)
THEOREM NoMissedWakeupHolds == Spec => []NoMissedWakeup
<1>1. QueueInv => NoMissedWakeup
  BY DEF QueueInv
<1> QED
  BY <1>1, QueueCorrect, PTL

(* Every step of add or remove is a step of an atomic FIFO queue or no step *)
(* at all.                                                                  *)
LEMMA QueueSimulation == QueueInv /\ [Next]_vars => [Abs!AbsNext]_(Abs!absVars)
<1> SUFFICES ASSUME QueueInv, [Next]_vars PROVE [Abs!AbsNext]_(Abs!absVars)
  OBVIOUS
<1> DEFINE done == {c \in Core : pc[c] \in {"last", "empty", "unlock"}}
<1>a. TypeOK /\ Control /\ Spells
  BY DEF QueueInv
<1>1. ASSUME NEW c \in Core, Call(c) PROVE Abs!AbsNext
  <2>1. op[c] = "none" /\ done' = done /\ items' = items
    BY <1>a, <1>1 DEF Call, CallAdd, CallRemove, Goto, list, TypeOK, Control
  <2>2. Abs!AbsCall(c)
    BY <1>1, <2>1 DEF Call, CallAdd, CallRemove, list, Range, Abs!AbsCall, Abs!Range
  <2> QED
    BY <2>2 DEF Abs!AbsNext
<1>2. ASSUME NEW c \in Core,
             Lock(c) \/ Interrupt(c) \/ AddNext(c) \/ AddLast(c) \/ RemoveEmpty(c)
      PROVE  UNCHANGED Abs!absVars
  <2>1. UNCHANGED <<items, op, node>>
    BY <1>2 DEF Lock, Monitor, Exchange, Mwait, Interrupt, AddNext, AddLast, RemoveEmpty, list
  <2>2. done' = done
    <3>1. CASE Exchange(c)
      <4>1. pc[c] = "exchange" /\ op[c] \in {"add", "remove"}
        BY <1>a, <3>1 DEF Exchange, TypeOK, Control
      <4>2. \E l \in {"mwait", "add", "remove"} : pc' = [pc EXCEPT ![c] = l]
        BY <3>1, <4>1 DEF Exchange, Goto
      <4> QED
        BY <1>a, <4>1, <4>2 DEF TypeOK
    <3>2. CASE Monitor(c) \/ Mwait(c) \/ Interrupt(c) \/ AddNext(c)
      BY <1>a, <3>2 DEF Monitor, Mwait, Interrupt, AddNext, Goto, TypeOK
    <3>3. CASE AddLast(c) \/ RemoveEmpty(c)
      BY <1>a, <3>3 DEF AddLast, RemoveEmpty, Goto, TypeOK
    <3> QED
      BY <1>2, <3>1, <3>2, <3>3 DEF Lock
  <2> QED
    BY <2>1, <2>2 DEF Abs!absVars
<1>3. ASSUME NEW c \in Core, AddLink(c) PROVE Abs!AbsNext
  <2>1. op[c] = "add" /\ c \notin done /\ done' = done \cup {c}
    BY <1>a, <1>3 DEF AddLink, Goto, TypeOK, Control
  <2>2. Abs!AbsAdd(c)
    BY <1>3, <2>1 DEF AddLink, Abs!AbsAdd
  <2> QED
    BY <2>2 DEF Abs!AbsNext
<1>4. ASSUME NEW c \in Core, RemoveFirst(c) PROVE Abs!AbsNext
  <2>1. op[c] = "remove" /\ c \notin done /\ done' = done \cup {c}
    BY <1>a, <1>4 DEF RemoveFirst, Goto, TypeOK, Control
  <2>2. first = Null <=> items = << >>
    BY <1>a, QueueAssumption, RemoveFacts DEF Spells, FirstOf, TypeOK
  <2>3. items # << >> => first = Head(items)
    BY <1>a, UnlinkFacts DEF Spells, TypeOK
  <2>4. Abs!AbsRemove(c)
    BY <1>4, <2>1, <2>2, <2>3 DEF RemoveFirst, Abs!AbsRemove
  <2> QED
    BY <2>4 DEF Abs!AbsNext
<1>5. ASSUME NEW c \in Core, Unlock(c) PROVE Abs!AbsNext
  <2>1. c \in done /\ done' = done \ {c}
    BY <1>a, <1>5 DEF Unlock, Goto, TypeOK, Control
  <2>2. Abs!AbsReturn(c)
    BY <1>5, <2>1 DEF Unlock, list, Abs!AbsReturn
  <2> QED
    BY <2>2 DEF Abs!AbsNext
<1>6. CASE UNCHANGED vars
  BY <1>6 DEF vars, list, Abs!absVars
<1> QED
  BY <1>1, <1>2, <1>3, <1>4, <1>5, <1>6 DEF Next, Inside

(* Queue's linked list under its spin lock implements the atomic FIFO queue *)
(* that the other modules take it for.                                      *)
THEOREM Refinement == Spec => RefinesQueue
<1>1. Init => Abs!AbsInit
  BY DEF Init, Abs!AbsInit
<1> QED
  BY <1>1, QueueCorrect, QueueSimulation, PTL DEF Spec, RefinesQueue, Abs!AbsSpec
==============================================================================
