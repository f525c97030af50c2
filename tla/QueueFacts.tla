----------------------------- MODULE QueueFacts ------------------------------
(***************************************************************************)
(* Facts about the kernel's FIFO queues (kernel/queue.h, Queue) used by the *)
(* proofs: what appending at the end and removing at the front do to the    *)
(* set of elements and to the absence of duplicates.                        *)
(***************************************************************************)
EXTENDS Integers, Sequences, Functions, TLAPS

(* Queue::add: the new element is the only change, and a queue without      *)
(* duplicates stays so unless it already held the element.                  *)
LEMMA AddFacts ==
  ASSUME NEW S, NEW q \in Seq(S), NEW e \in S
  PROVE  /\ Append(q, e) \in Seq(S)
         /\ Append(q, e) # << >>
         /\ Range(Append(q, e)) = Range(q) \cup {e}
         /\ IsInjective(q) /\ e \notin Range(q) => IsInjective(Append(q, e))
<1> DEFINE r == Append(q, e)
<1>1. /\ r \in Seq(S) /\ r # << >>
      /\ DOMAIN r = 1 .. Len(q) + 1
      /\ DOMAIN q = 1 .. Len(q)
      /\ Len(q) \in Nat
      /\ \A i \in 1 .. Len(q) : r[i] = q[i]
      /\ r[Len(q) + 1] = e
  OBVIOUS
<1>2. Range(r) = Range(q) \cup {e}
  BY <1>1 DEF Range
<1>3. ASSUME IsInjective(q), e \notin Range(q) PROVE IsInjective(r)
  BY <1>1, <1>3 DEF IsInjective, Range
<1> QED
  BY <1>1, <1>2, <1>3

(* Queue::remove: the head leaves and the rest stays.                       *)
LEMMA RemoveFacts ==
  ASSUME NEW S, NEW q \in Seq(S), q # << >>
  PROVE  /\ Head(q) \in S
         /\ Tail(q) \in Seq(S)
         /\ Head(q) \in Range(q)
         /\ Range(q) = Range(Tail(q)) \cup {Head(q)}
         /\ IsInjective(q) => IsInjective(Tail(q)) /\ Head(q) \notin Range(Tail(q))
<1> DEFINE r == Tail(q)
<1>1. /\ Len(q) \in Nat /\ Len(q) > 0
      /\ DOMAIN q = 1 .. Len(q)
      /\ Head(q) \in S /\ r \in Seq(S)
      /\ DOMAIN r = 1 .. Len(q) - 1
      /\ \A i \in 1 .. Len(q) - 1 : r[i] = q[i + 1]
  OBVIOUS
<1>2. Head(q) = q[1]
  BY <1>1
<1>3. Head(q) \in Range(q)
  BY <1>1, <1>2 DEF Range
<1>4. ASSUME NEW x \in Range(q), x # Head(q) PROVE x \in Range(r)
  <2>1. PICK i \in 1 .. Len(q) : q[i] = x
    BY <1>1 DEF Range
  <2>2. i - 1 \in 1 .. Len(q) - 1 /\ r[i - 1] = x
    BY <1>1, <1>2, <1>4, <2>1
  <2> QED
    BY <1>1, <2>2 DEF Range
<1>5. ASSUME NEW x \in Range(r)
      PROVE  \E i \in 1 .. Len(q) - 1 : r[i] = x /\ q[i + 1] = x /\ i + 1 \in DOMAIN q
  <2>1. PICK i \in 1 .. Len(q) - 1 : r[i] = x
    BY <1>1 DEF Range
  <2> QED
    BY <1>1, <2>1
<1>6. Range(q) = Range(r) \cup {Head(q)}
  <2>1. Range(r) \subseteq Range(q)
    BY <1>5 DEF Range
  <2> QED
    BY <1>3, <1>4, <2>1
<1>7. ASSUME IsInjective(q) PROVE IsInjective(r) /\ Head(q) \notin Range(r)
  <2>1. IsInjective(r)
    BY <1>1, <1>7 DEF IsInjective
  <2>2. Head(q) \notin Range(r)
    BY <1>1, <1>2, <1>5, <1>7 DEF IsInjective
  <2> QED
    BY <2>1, <2>2
<1> QED
  BY <1>1, <1>3, <1>6, <1>7

(* The elements of a queue have the type of the queue.                      *)
LEMMA RangeFacts == ASSUME NEW S, NEW q \in Seq(S) PROVE Range(q) \subseteq S
BY DEF Range

(* The empty queue.                                                         *)
LEMMA EmptyFacts == \A S : << >> \in Seq(S) /\ Range(<< >>) = {} /\ IsInjective(<< >>)
BY DEF Range, IsInjective
==============================================================================
