----------------------------- MODULE FilesProofs -----------------------------
(***************************************************************************)
(* Proofs about Files, for any number of processes and descriptors, any    *)
(* sizes of file, block and offset.                                         *)
(***************************************************************************)
EXTENDS Files, FiniteSetTheorems, WellFoundedInduction, TLAPS

(* Who refers to a descriptor: the slots of tables, calls of read, and what *)
(* calls that faulted left on their stacks.                                 *)
Tables == [Proc -> [Slots -> Desc \cup {Null}]]
Holding(f, o) == {x \in Proc \X Slots : f[x[1]][x[2]] = o}
Calling(c, o) == {p \in Proc : c[p].desc = o}
Pending(c, l, o) == Cardinality(Calling(c, o)) + l[o]

Copying == {"lock", "copy", "memcpy"}
Reading == {"clip", "add", "return"} \cup Copying

TypeOK ==
  /\ desc \in [Desc -> Descriptors \cup {Null}]
  /\ ref_count \in [Desc -> Nat]
  /\ fd \in Tables
  /\ pc \in [Proc -> {"unborn", "user", "exited"} \cup Reading]
  /\ call \in [Proc -> Calls]
  /\ leaked \in [Desc -> Nat]

(* A call of read is open from ReadCall to Return, or to a fault; a process *)
(* that is not forked yet has nothing open.                                 *)
Life ==
  \A p \in Proc :
    /\ pc[p] \in {"unborn", "user", "exited"} => call[p] = NoCall
    /\ pc[p] \in Reading => call[p].desc \in Desc
    /\ pc[p] = "unborn" => \A i \in Slots : fd[p][i] = Null

(* ref_count counts the references, and a descriptor is deleted at zero.    *)
Counted ==
  \A o \in Desc :
    /\ ref_count[o] = Cardinality(Holding(fd, o)) + Pending(call, leaked, o)
    /\ ref_count[o] = 0 <=> desc[o] = Null

TableInv == TypeOK /\ Life /\ Counted

(* Who may change the offset of a descriptor: only a fork makes them two.   *)
Uses(p, o) == call[p].desc = o \/ \E i \in Slots : fd[p][i] = o
Sole ==
  \A o \in Desc, p, q \in Proc : p # q /\ Uses(p, o) /\ Uses(q, o) => desc[o].forked

(* Until the offset has passed the end, what was delivered is before it.    *)
InFile(d) ==
  /\ d.overshot => d.forked
  /\ d.again => d.overshot
  /\ ~d.overshot => d.offset <= FileSize /\ d.seen \subseteq 0 .. d.offset - 1
Offsets == \A o \in Desc : desc[o] # Null => InFile(desc[o])

(* What a call has still to deliver, and what it knows of its descriptor:   *)
(* a count compared with an offset that may have moved since, then a range  *)
(* before the offset that nobody delivered.                                 *)
Rest(c) == c.pos .. c.pos + c.count - 1
Fits(at, c, d) ==
  /\ at = "clip" => c.count = c.asked /\ c.total = 0
                     /\ (~d.overshot => c.count > FileSize - d.offset)
  /\ at = "add" => c.total = 0 /\ (~d.overshot => c.count <= c.asked)
                    /\ (~d.forked => d.offset + c.count <= FileSize)
  /\ at \in Copying =>
       /\ Chunk(c) > 0
       /\ ~d.overshot => /\ c.total + c.count <= c.asked
                          /\ c.pos + c.count <= d.offset
                          /\ d.seen \cap Rest(c) = {}
  /\ at = "return" => (~d.overshot => c.total <= c.asked)
CallOK(p) == Fits(pc[p], call[p], desc[call[p].desc])

(* Calls in progress deliver different bytes.                               *)
Disjoint ==
  \A p, q \in Proc :
    p # q /\ pc[p] \in Copying /\ pc[q] \in Copying /\ call[p].desc = call[q].desc
      /\ ~desc[call[p].desc].overshot => Rest(call[p]) \cap Rest(call[q]) = {}

ReadInv == Sole /\ Offsets /\ (\A p \in Proc : pc[p] \in Reading => CallOK(p)) /\ Disjoint

----------------------------------------------------------------------------
(* The order of the naturals is well founded.                               *)
LEMMA NatOrder == \E R : IsWellFoundedOn(R, Nat) /\ \A x, y \in Nat : x < y => <<x, y>> \in R
<1>1. \A x, y \in Nat : x < y => <<x, y>> \in OpToRel(<, Nat)
  BY DEF OpToRel
<1> QED
  BY <1>1, NatLessThanWellFounded

(* A nonempty set of naturals has a least element, which Min chooses.       *)
LEMMA MinFacts == ASSUME NEW S, S \subseteq Nat, S # {}
                  PROVE  Min(S) \in S /\ \A y \in S : Min(S) <= y
<1>1. PICK R : IsWellFoundedOn(R, Nat) /\ \A x, y \in Nat : x < y => <<x, y>> \in R
  BY NatOrder
<1>2. IsWellFoundedOn(R, Nat)
  BY <1>1
<1>3. \A T : T \subseteq Nat /\ T # {} => \E x \in T : \A y \in T : ~ (<<y, x>> \in R)
  BY ONLY <1>2, WFMin, Zenon
<1>4. PICK x \in S : \A y \in S : ~ (<<y, x>> \in R)
  BY Zenon, <1>3
<1>5. \A y \in S : ~ (y < x)
  BY Zenon, <1>1, <1>4
<1>6. \A y \in S : x <= y
  BY <1>5
<1> QED
  BY Zenon, <1>6 DEF Min

(* FreeSlots: the lowest free slot is one.                                  *)
LEMMA LowestFree ==
  ASSUME NEW S, S \subseteq Slots, S # {}
  PROVE  Lowest(S) \in S /\ Lowest(S) \in Slots
<1>1. Slots \subseteq Nat
  BY FilesAssumption DEF Slots
<1> QED
  BY <1>1, MinFacts DEF Lowest

(* Tables, and the calls of processes, refer to a descriptor finitely often.*)
LEMMA SlotsFinite == IsFiniteSet(Slots)
BY FilesAssumption, FS_Interval DEF Slots

(* A descriptor is referred to finitely often, by tables and by calls.      *)
LEMMA Finite ==
  /\ \A f, o : IsFiniteSet(Holding(f, o)) /\ Cardinality(Holding(f, o)) \in Nat
  /\ \A c, o : IsFiniteSet(Calling(c, o)) /\ Cardinality(Calling(c, o)) \in Nat
<1>2. IsFiniteSet(Proc \X Slots)
  BY SlotsFinite, FilesAssumption, FS_Product
<1>3. \A f, o : Holding(f, o) \subseteq Proc \X Slots
  BY DEF Holding
<1>4. \A c, o : Calling(c, o) \subseteq Proc
  BY DEF Calling
<1> QED
  BY Zenon, <1>2, <1>3, <1>4, FilesAssumption, FS_Subset, FS_CardinalityType

(* What a slot or a call refers to is counted.                              *)
LEMMA CountPositive ==
  ASSUME NEW f, NEW c, NEW o, NEW p \in Proc,
         c[p].desc = o \/ \E i \in Slots : f[p][i] = o
  PROVE  Cardinality(Holding(f, o)) + Cardinality(Calling(c, o)) > 0
<1>1. Holding(f, o) # {} \/ Calling(c, o) # {}
  <2>1. ASSUME NEW i \in Slots, f[p][i] = o PROVE <<p, i>> \in Holding(f, o)
    BY <2>1 DEF Holding
  <2>2. c[p].desc = o => p \in Calling(c, o)
    BY DEF Calling
  <2> QED
    BY <2>1, <2>2
<1>2. Cardinality(Holding(f, o)) # 0 \/ Cardinality(Calling(c, o)) # 0
  BY Zenon, <1>1, Finite, FS_EmptySet
<1>3. Cardinality(Holding(f, o)) \in Nat /\ Cardinality(Calling(c, o)) \in Nat
  BY Zenon, Finite
<1> QED
  BY <1>2, <1>3

(* g refers to o where f does, but for slot i of p.                         *)
Same(f, g, o) == \A q \in Proc, j \in Slots : g[q][j] = o <=> f[q][j] = o
More(f, g, o, p, i) ==
  \A q \in Proc, j \in Slots : g[q][j] = o <=> f[q][j] = o \/ (q = p /\ j = i)

(* Tables that refer to a descriptor in the same slots count the same.      *)
LEMMA HoldingSame ==
  ASSUME NEW f, NEW g, NEW o, Same(f, g, o)
  PROVE  Cardinality(Holding(g, o)) = Cardinality(Holding(f, o))
<1>1. \A x \in Proc \X Slots : x[1] \in Proc /\ x[2] \in Slots
  BY Zenon
<1>2. Holding(g, o) = Holding(f, o)
  BY Zenon, <1>1 DEF Holding, Same
<1> QED
  BY <1>2

(* One more slot that refers to a descriptor adds one to its count.         *)
LEMMA HoldingMore ==
  ASSUME NEW f, NEW g, NEW o, NEW p \in Proc, NEW i \in Slots, More(f, g, o, p, i), f[p][i] # o
  PROVE  Cardinality(Holding(g, o)) = Cardinality(Holding(f, o)) + 1
<1>1. \A x \in Proc \X Slots :
        x[1] \in Proc /\ x[2] \in Slots /\ (x = <<p, i>> <=> x[1] = p /\ x[2] = i)
  OBVIOUS
<1>2. <<p, i>> \in Proc \X Slots
  BY Zenon
<1>3. Holding(g, o) = Holding(f, o) \cup {<<p, i>>}
  BY <1>1, <1>2 DEF Holding, More
<1>4. <<p, i>> \notin Holding(f, o)
  BY Zenon DEF Holding
<1> QED
  BY Zenon, <1>3, <1>4, Finite, FS_AddElement

(* A reference is stored into a free slot (open, dup, pipe).                *)
Added(f, g, p, i, v) ==
  /\ g \in Tables
  /\ \A q \in Proc, j \in Slots : g[q][j] = IF q = p /\ j = i THEN v ELSE f[q][j]
  /\ Cardinality(Holding(g, v)) = Cardinality(Holding(f, v)) + 1
  /\ \A o \in Desc : o # v => Cardinality(Holding(g, o)) = Cardinality(Holding(f, o))

(* A free slot that is set adds a reference to its descriptor alone.        *)
LEMMA SlotSet ==
  ASSUME NEW f \in Tables, NEW p \in Proc, NEW i \in Slots, f[p][i] = Null, NEW v \in Desc,
         NEW g, g = [f EXCEPT ![p][i] = v]
  PROVE  Added(f, g, p, i, v)
<1>1. /\ g \in Tables
      /\ \A q \in Proc, j \in Slots : g[q][j] = IF q = p /\ j = i THEN v ELSE f[q][j]
  BY DEF Tables
<1>2. v # Null
  BY FilesAssumption
<1>3. More(f, g, v, p, i)
  BY Zenon, <1>1 DEF More
<1>4. ASSUME NEW o \in Desc, o # v PROVE Cardinality(Holding(g, o)) = Cardinality(Holding(f, o))
  <2>1. o # Null
    BY FilesAssumption
  <2>2. Same(f, g, o)
    BY <1>1, <1>4, <2>1 DEF Same
  <2> QED
    BY Zenon, <2>2, HoldingSame
<1>5. Cardinality(Holding(g, v)) = Cardinality(Holding(f, v)) + 1
  BY Zenon, <1>2, <1>3, HoldingMore
<1> QED
  BY Zenon, <1>1, <1>4, <1>5 DEF Added

(* close: a slot is cleared.                                                *)
Cleared(f, g, p, i, v) ==
  /\ g \in Tables
  /\ \A q \in Proc, j \in Slots : g[q][j] = IF q = p /\ j = i THEN Null ELSE f[q][j]
  /\ Cardinality(Holding(g, v)) = Cardinality(Holding(f, v)) - 1
  /\ \A o \in Desc : o # v => Cardinality(Holding(g, o)) = Cardinality(Holding(f, o))

(* A slot that is cleared takes a reference from its descriptor alone.      *)
LEMMA SlotClear ==
  ASSUME NEW f \in Tables, NEW p \in Proc, NEW i \in Slots, NEW v, v = f[p][i], v # Null,
         NEW g, g = [f EXCEPT ![p][i] = Null]
  PROVE  Cleared(f, g, p, i, v)
<1>1. /\ g \in Tables
      /\ \A q \in Proc, j \in Slots : g[q][j] = IF q = p /\ j = i THEN Null ELSE f[q][j]
  BY DEF Tables
<1>3. More(g, f, v, p, i) /\ g[p][i] # v
  BY <1>1 DEF More
<1>4. ASSUME NEW o \in Desc, o # v PROVE Cardinality(Holding(g, o)) = Cardinality(Holding(f, o))
  <2>1. o # Null
    BY FilesAssumption
  <2>2. Same(f, g, o)
    BY <1>1, <1>4, <2>1 DEF Same
  <2> QED
    BY Zenon, <2>2, HoldingSame
<1>5. Cardinality(Holding(g, v)) = Cardinality(Holding(f, v)) - 1
  <2>1. Cardinality(Holding(f, v)) = Cardinality(Holding(g, v)) + 1
    BY Zenon, <1>3, HoldingMore
  <2>2. Cardinality(Holding(g, v)) \in Nat
    BY Zenon, Finite
  <2> QED
    BY <2>1, <2>2
<1> QED
  BY Zenon, <1>1, <1>4, <1>5 DEF Cleared

(* fork: the child's empty table becomes that of its parent.                *)
Copied(f, g, p, child) ==
  /\ g \in Tables
  /\ \A q \in Proc : g[q] = IF q = child THEN f[p] ELSE f[q]
  /\ \A o \in Desc :
       /\ Cardinality({i \in Slots : f[p][i] = o}) \in Nat
       /\ Cardinality(Holding(g, o))
            = Cardinality(Holding(f, o)) + Cardinality({i \in Slots : f[p][i] = o})

(* A table copied for a child adds what the parent's table counts.          *)
LEMMA TableCopied ==
  ASSUME NEW f \in Tables, NEW p \in Proc, NEW child \in Proc,
         \A i \in Slots : f[child][i] = Null, NEW g, g = [f EXCEPT ![child] = f[p]]
  PROVE  Copied(f, g, p, child)
<1>1. g \in Tables /\ \A q \in Proc : g[q] = IF q = child THEN f[p] ELSE f[q]
  BY DEF Tables
<1>2. ASSUME NEW o \in Desc
      PROVE  /\ Cardinality({i \in Slots : f[p][i] = o}) \in Nat
             /\ Cardinality(Holding(g, o))
                  = Cardinality(Holding(f, o)) + Cardinality({i \in Slots : f[p][i] = o})
  <2> DEFINE I == {i \in Slots : f[p][i] = o}
             X == {child} \X I
  <2>1. IsFiniteSet(Slots)
    BY SlotsFinite
  <2>2. I \subseteq Slots
    OBVIOUS
  <2>3. IsFiniteSet(I) /\ IsFiniteSet({child}) /\ Cardinality({child}) = 1
    BY Zenon, <2>1, <2>2, FS_Subset, FS_Singleton
  <2>4. Cardinality(I) \in Nat
    BY Zenon, <2>3, FS_CardinalityType
  <2>5. IsFiniteSet(X) /\ Cardinality(X) = Cardinality({child}) * Cardinality(I)
    BY Zenon, <2>3, FS_Product
  <2>6. o # Null
    BY FilesAssumption
  <2>7. Holding(g, o) = Holding(f, o) \cup X
    <3>1. \A x \in Proc \X Slots : x \in X <=> x[1] = child /\ f[p][x[2]] = o
      BY Zenon
    <3>2. \A x \in Proc \X Slots : x[1] \in Proc /\ x[2] \in Slots
      BY Zenon
    <3>4. X \subseteq Proc \X Slots
      BY Zenon
    <3>3. \A x \in Proc \X Slots : g[x[1]][x[2]] = o <=> f[x[1]][x[2]] = o \/ x \in X
      BY <1>1, <2>6, <3>1, <3>2
    <3> HIDE DEF X
    <3> QED
      BY Zenon, <3>3, <3>4 DEF Holding
  <2>8. Holding(f, o) \cap X = {}
    BY Zenon, <2>6 DEF Holding
  <2> HIDE DEF X
  <2>9. Cardinality(Holding(f, o) \cap X) = 0
    BY Zenon, <2>8, FS_EmptySet
  <2>10. Cardinality(Holding(g, o))
           = Cardinality(Holding(f, o)) + Cardinality(X) - Cardinality(Holding(f, o) \cap X)
    BY Zenon, <2>5, <2>7, Finite, FS_Union
  <2>11. Cardinality(Holding(f, o)) \in Nat
    BY Zenon, Finite
  <2>12. Cardinality(X) = Cardinality(I)
    <3> HIDE DEF I
    <3> QED
      BY <2>3, <2>4, <2>5
  <2>13. Cardinality(Holding(g, o)) = Cardinality(Holding(f, o)) + Cardinality(I)
    <3> HIDE DEF I
    <3> QED
      BY <2>4, <2>9, <2>10, <2>11, <2>12
  <2> QED
    BY Zenon, <2>4, <2>13
<1> QED
  BY Zenon, <1>1, <1>2 DEF Copied

(* ReadCall: a call refers to v, n = 1; Return: no longer, n = -1.          *)
Called(c, d, p, k, v, n) ==
  /\ d \in [Proc -> Calls]
  /\ \A q \in Proc : d[q] = IF q = p THEN k ELSE c[q]
  /\ Cardinality(Calling(d, v)) = Cardinality(Calling(c, v)) + n
  /\ \A o \in Desc : o # v => Cardinality(Calling(d, o)) = Cardinality(Calling(c, o))

(* A call of read that begins adds a reference to its descriptor.           *)
LEMMA CallSet ==
  ASSUME NEW c \in [Proc -> Calls], NEW p \in Proc, c[p].desc = Null, NEW k \in Calls, k.desc \in Desc,
         NEW d, d = [c EXCEPT ![p] = k]
  PROVE  Called(c, d, p, k, k.desc, 1)
<1>1. /\ d \in [Proc -> Calls]
      /\ \A q \in Proc : d[q] = IF q = p THEN k ELSE c[q]
  OBVIOUS
<1>2. Null \notin Desc
  BY FilesAssumption
<1>3. Calling(d, k.desc) = Calling(c, k.desc) \cup {p} /\ p \notin Calling(c, k.desc)
  BY Zenon, <1>1, <1>2 DEF Calling
<1>4. \A o \in Desc : o # k.desc => Calling(d, o) = Calling(c, o)
  BY Zenon, <1>1, <1>2 DEF Calling
<1>5. Cardinality(Calling(d, k.desc)) = Cardinality(Calling(c, k.desc)) + 1
  BY Zenon, <1>3, Finite, FS_AddElement
<1> QED
  BY Zenon, <1>1, <1>4, <1>5 DEF Called

(* A call of read that ends gives its reference back.                       *)
LEMMA CallClear ==
  ASSUME NEW c \in [Proc -> Calls], NEW p \in Proc, NEW v \in Desc, v = c[p].desc,
         NEW k \in Calls, k.desc = Null, NEW d, d = [c EXCEPT ![p] = k]
  PROVE  Called(c, d, p, k, v, -1)
<1>1. /\ d \in [Proc -> Calls]
      /\ \A q \in Proc : d[q] = IF q = p THEN k ELSE c[q]
  OBVIOUS
<1>3. v # Null /\ Null \notin Desc
  BY FilesAssumption
<1>4. Calling(d, v) = Calling(c, v) \ {p} /\ p \in Calling(c, v)
  BY Zenon, <1>1, <1>3 DEF Calling
<1>5. \A o \in Desc : o # v => Calling(d, o) = Calling(c, o)
  BY Zenon, <1>1, <1>3 DEF Calling
<1>6. Cardinality(Calling(d, v)) = Cardinality(Calling(c, v)) + (-1)
  <2>1. IsFiniteSet(Calling(c, v))
    BY Zenon, Finite
  <2> QED
    <3>1. Cardinality(Calling(d, v)) = Cardinality(Calling(c, v)) - 1
      BY ONLY <1>4, <2>1, FS_RemoveElement, Zenon
    <3>2. Cardinality(Calling(c, v)) \in Nat
      BY Zenon, Finite
    <3> QED
      BY <3>1, <3>2
<1> QED
  BY Zenon, <1>1, <1>5, <1>6 DEF Called

(* The other steps of a call keep its reference.                            *)
Going(c, d, p, k) ==
  /\ d \in [Proc -> Calls]
  /\ \A q \in Proc : d[q] = IF q = p THEN k ELSE c[q]
  /\ \A o : Calling(d, o) = Calling(c, o)

(* A call of read that goes on keeps the one it has.                        *)
LEMMA CallKept ==
  ASSUME NEW c \in [Proc -> Calls], NEW p \in Proc, NEW k \in Calls, k.desc = c[p].desc,
         NEW d, d = [c EXCEPT ![p] = k]
  PROVE  Going(c, d, p, k)
<1>1. /\ d \in [Proc -> Calls]
      /\ \A q \in Proc : d[q] = IF q = p THEN k ELSE c[q]
  OBVIOUS
<1> QED
  BY Zenon, <1>1 DEF Calling, Going

----------------------------------------------------------------------------
(* Constants of the model that are used all the time.                       *)
LEMMA Basics ==
  /\ Null \notin Desc /\ Null \notin Descriptors
  /\ \A node \in Nodes : OfNode(node) \in Descriptors
  /\ \A r, w \in BOOLEAN : OfPipe(r, w) \in Descriptors
  /\ \A w \in BOOLEAN : OfTerminal(w) \in Descriptors
  /\ NoCall \in Calls /\ NoCall.desc = Null /\ NoCall.total = 0
<1>1. Null \notin Desc /\ Null \notin Descriptors
  BY FilesAssumption
<1>2. \A node \in Nodes \cup {Null} : \A x, r, w \in BOOLEAN : Descriptor(node, x, r, w) \in Descriptors
  BY DEF Descriptor, Descriptors
<1>3. NoCall \in Calls /\ NoCall.desc = Null /\ NoCall.total = 0
  BY DEF NoCall, Calls
<1> QED
  BY <1>1, <1>2, <1>3 DEF OfNode, OfPipe, OfTerminal

(* A descriptor that is not in use has no references, and one that is       *)
(* referred to is in use.                                                   *)
LEMMA InUse ==
  ASSUME TableInv, NEW o \in Desc, NEW p \in Proc,
         call[p].desc = o \/ \E i \in Slots : fd[p][i] = o
  PROVE  desc[o] \in Descriptors /\ desc[o] # Null /\ ref_count[o] > 0
<1>1. Cardinality(Holding(fd, o)) + Pending(call, leaked, o) > 0
  <2>1. Cardinality(Holding(fd, o)) + Cardinality(Calling(call, o)) > 0
    BY Zenon, CountPositive
  <2>2. Cardinality(Holding(fd, o)) \in Nat /\ Cardinality(Calling(call, o)) \in Nat
    BY Zenon, Finite
  <2> QED
    BY <2>1, <2>2 DEF TableInv, TypeOK, Pending
<1>2. ref_count[o] > 0
  BY <1>1 DEF TableInv, Counted
<1>3. ref_count[o] # 0
  BY <1>2 DEF TableInv, TypeOK
<1> QED
  BY Zenon, <1>2, <1>3 DEF TableInv, Counted, TypeOK

(* What is pending for a descriptor is a number.                            *)
LEMMA PendingNat == TableInv => \A o \in Desc : Pending(call, leaked, o) \in Nat
<1>1. \A o : Cardinality(Calling(call, o)) \in Nat
  BY Zenon, Finite
<1> QED
  BY <1>1 DEF TableInv, TypeOK, Pending

(* A process that is in a call of read is neither unborn, in user mode nor  *)
(* exited.                                                                  *)
LEMMA Points ==
  /\ "unborn" \notin Reading /\ "user" \notin Reading /\ "exited" \notin Reading
  /\ "unborn" # "user" /\ "unborn" # "exited" /\ "user" # "exited"
BY DEF Reading, Copying

(* open counts its new descriptor once, in the slot it returns.             *)
LEMMA OpenTable ==
  ASSUME TableInv, NEW p \in Proc, NEW node \in Nodes, open(p, node)
  PROVE  TableInv'
<1>1. PICK o \in Unused : /\ desc' = [desc EXCEPT ![o] = OfNode(node)]
                          /\ ref_count' = Refs(ref_count, o, 1)
                          /\ fd' = [fd EXCEPT ![p][Lowest(FreeSlots(p))] = o]
  BY Zenon DEF open
<1>2. PICK i : i = Lowest(FreeSlots(p))
  OBVIOUS
<1>3. i \in Slots /\ fd[p][i] = Null
  <2>1. FreeSlots(p) \subseteq Slots /\ FreeSlots(p) # {}
    BY Zenon DEF open, FreeSlots
  <2>2. i \in FreeSlots(p)
    BY Zenon, <1>2, <2>1, LowestFree
  <2> QED
    BY Zenon, <2>2 DEF FreeSlots
<1>4. fd \in Tables /\ o \in Desc /\ desc[o] = Null
  BY Zenon, <1>1 DEF TableInv, TypeOK, Unused
<1>5. /\ fd' \in Tables
      /\ \A q \in Proc, j \in Slots : fd'[q][j] = IF q = p /\ j = i THEN o ELSE fd[q][j]
      /\ Cardinality(Holding(fd', o)) = Cardinality(Holding(fd, o)) + 1
      /\ \A x \in Desc : x # o => Cardinality(Holding(fd', x)) = Cardinality(Holding(fd, x))
  <2>1. fd' = [fd EXCEPT ![p][i] = o]
    BY Zenon, <1>1, <1>2
  <2>2. Added(fd, fd', p, i, o)
    BY Zenon, <1>3, <1>4, <2>1, SlotSet
  <2> QED
    BY Zenon, <2>2 DEF Added
<1>6. desc' \in [Desc -> Descriptors \cup {Null}] /\ desc'[o] # Null
        /\ \A x \in Desc \ {o} : desc'[x] = desc[x]
  BY Zenon, <1>1, <1>4, Basics DEF TableInv, TypeOK
<1>7. /\ ref_count' \in [Desc -> Nat] /\ ref_count'[o] = ref_count[o] + 1
      /\ \A x \in Desc \ {o} : ref_count'[x] = ref_count[x]
  BY <1>1, <1>4 DEF TableInv, TypeOK, Refs
<1>8. UNCHANGED <<pc, call, leaked>> /\ pc[p] = "user"
  BY Zenon DEF open, User, faults
<1>9. TypeOK'
  BY Zenon, <1>5, <1>6, <1>7, <1>8 DEF TableInv, TypeOK
<1>10. Life'
  BY <1>5, <1>8 DEF TableInv, Life
<1>11. Counted'
  <2>1. \A x \in Desc : Cardinality(Holding(fd, x)) \in Nat /\ Pending(call, leaked, x) \in Nat
    BY Zenon, Finite, PendingNat
  <2>2. ref_count'[o] = Cardinality(Holding(fd', o)) + Pending(call', leaked', o)
    BY <1>4, <1>5, <1>7, <1>8, <2>1 DEF TableInv, Counted
  <2>3. ref_count'[o] # 0
    BY <1>4, <1>7 DEF TableInv, TypeOK
  <2>4. ASSUME NEW x \in Desc, x # o
        PROVE  /\ ref_count'[x] = Cardinality(Holding(fd', x)) + Pending(call', leaked', x)
               /\ ref_count'[x] = 0 <=> desc'[x] = Null
    BY Zenon, <1>5, <1>6, <1>7, <1>8, <2>4 DEF TableInv, Counted
  <2> QED
    BY Zenon, <1>6, <2>2, <2>3, <2>4 DEF Counted
<1> QED
  BY Zenon, <1>9, <1>10, <1>11 DEF TableInv

(* A reference less: unref, which deletes the descriptor at zero.           *)
LEMMA Unref ==
  ASSUME TableInv, NEW o \in Desc, NEW p \in Proc,
         call[p].desc = o \/ \E i \in Slots : fd[p][i] = o,
         ref_count' = Refs(ref_count, o, -1), desc' = Deleted(desc, ref_count')
  PROVE  /\ ref_count' \in [Desc -> Nat] /\ ref_count'[o] = ref_count[o] - 1
         /\ \A x \in Desc \ {o} : ref_count'[x] = ref_count[x]
         /\ desc' \in [Desc -> Descriptors \cup {Null}]
         /\ \A x \in Desc : desc'[x] = (IF ref_count'[x] = 0 THEN Null ELSE desc[x])
         /\ \A x \in Desc : ref_count'[x] = 0 <=> desc'[x] = Null
<1>1. ref_count[o] > 0 /\ desc[o] # Null
  BY InUse
<1>2. /\ ref_count' \in [Desc -> Nat] /\ ref_count'[o] = ref_count[o] - 1
      /\ \A x \in Desc \ {o} : ref_count'[x] = ref_count[x]
  BY <1>1 DEF Refs, TableInv, TypeOK
<1>3. \A x \in Desc : desc'[x] = (IF ref_count'[x] = 0 THEN Null ELSE desc[x])
  BY Zenon DEF Deleted
<1>4. desc' \in [Desc -> Descriptors \cup {Null}]
  BY Zenon DEF Deleted, TableInv, TypeOK
<1>5. \A x \in Desc : ref_count'[x] = 0 <=> desc'[x] = Null
  BY Zenon, <1>1, <1>2, <1>3 DEF TableInv, Counted
<1> QED
  BY Zenon, <1>2, <1>3, <1>4, <1>5

(* close takes back the reference of its slot.                              *)
LEMMA CloseTable ==
  ASSUME TableInv, NEW p \in Proc, NEW i \in Slots, close(p, i)
  PROVE  TableInv'
<1>1. PICK o : o = fd[p][i]
  OBVIOUS
<1>2. /\ o # Null /\ ref_count' = Refs(ref_count, o, -1) /\ desc' = Deleted(desc, ref_count')
      /\ fd' = [fd EXCEPT ![p][i] = Null] /\ UNCHANGED <<pc, call, leaked>> /\ pc[p] = "user"
  BY Zenon, <1>1 DEF close, User, faults
<1>3. fd \in Tables /\ o \in Desc
  BY <1>1, <1>2 DEF TableInv, TypeOK, Tables
<1>4. /\ fd' \in Tables
      /\ \A q \in Proc, j \in Slots : fd'[q][j] = IF q = p /\ j = i THEN Null ELSE fd[q][j]
      /\ Cardinality(Holding(fd', o)) = Cardinality(Holding(fd, o)) - 1
      /\ \A x \in Desc : x # o => Cardinality(Holding(fd', x)) = Cardinality(Holding(fd, x))
  <2>1. Cleared(fd, fd', p, i, o)
    BY Zenon, <1>1, <1>2, <1>3, SlotClear
  <2> QED
    BY Zenon, <2>1 DEF Cleared
<1>5. /\ ref_count' \in [Desc -> Nat] /\ ref_count'[o] = ref_count[o] - 1
      /\ \A x \in Desc \ {o} : ref_count'[x] = ref_count[x]
      /\ desc' \in [Desc -> Descriptors \cup {Null}]
      /\ \A x \in Desc : ref_count'[x] = 0 <=> desc'[x] = Null
  BY Zenon, <1>1, <1>2, <1>3, Unref
<1>6. TypeOK'
  BY Zenon, <1>2, <1>4, <1>5 DEF TableInv, TypeOK
<1>7. Life'
  BY <1>2, <1>4 DEF TableInv, Life
<1>8. Counted'
  <2>1. Cardinality(Holding(fd, o)) \in Nat /\ Pending(call, leaked, o) \in Nat
    BY Zenon, <1>3, Finite, PendingNat
  <2>2. ref_count'[o] = Cardinality(Holding(fd', o)) + Pending(call', leaked', o)
    BY <1>2, <1>3, <1>4, <1>5, <2>1 DEF TableInv, Counted
  <2>3. \A x \in Desc : x # o =>
          ref_count'[x] = Cardinality(Holding(fd', x)) + Pending(call', leaked', x)
    BY Zenon, <1>2, <1>4, <1>5 DEF TableInv, Counted
  <2> QED
    BY Zenon, <1>5, <2>2, <2>3 DEF Counted
<1> QED
  BY Zenon, <1>6, <1>7, <1>8 DEF TableInv

(* dup counts the second slot too.                                          *)
LEMMA DupTable ==
  ASSUME TableInv, NEW p \in Proc, NEW i \in Slots, dup(p, i)
  PROVE  TableInv'
<1>1. PICK o : o = fd[p][i]
  OBVIOUS
<1>2. PICK k : k = Lowest(FreeSlots(p))
  OBVIOUS
<1>3. /\ o # Null /\ FreeSlots(p) # {} /\ ref_count' = Refs(ref_count, o, 1)
      /\ fd' = [fd EXCEPT ![p][k] = o] /\ UNCHANGED <<desc, pc, call, leaked>> /\ pc[p] = "user"
  BY Zenon, <1>1, <1>2 DEF dup, User, faults
<1>4. k \in Slots /\ fd[p][k] = Null
  <2>1. FreeSlots(p) \subseteq Slots
    BY Zenon DEF FreeSlots
  <2>2. k \in FreeSlots(p)
    BY Zenon, <1>2, <1>3, <2>1, LowestFree
  <2> QED
    BY Zenon, <2>2 DEF FreeSlots
<1>5. fd \in Tables /\ o \in Desc
  BY <1>1, <1>3 DEF TableInv, TypeOK, Tables
<1>6. Added(fd, fd', p, k, o)
  BY Zenon, <1>3, <1>4, <1>5, SlotSet
<1>7. desc[o] # Null /\ ref_count[o] > 0
  BY Zenon, <1>1, <1>5, InUse
<1>8. /\ ref_count' \in [Desc -> Nat] /\ ref_count'[o] = ref_count[o] + 1
      /\ \A x \in Desc \ {o} : ref_count'[x] = ref_count[x]
  BY <1>3, <1>5 DEF TableInv, TypeOK, Refs
<1>9. TypeOK'
  BY Zenon, <1>3, <1>6, <1>8 DEF TableInv, TypeOK, Added
<1>10. Life'
  BY <1>3, <1>6 DEF TableInv, Life, Added
<1>11. Counted'
  <2>1. Cardinality(Holding(fd, o)) \in Nat /\ Pending(call, leaked, o) \in Nat
    BY Zenon, <1>5, Finite, PendingNat
  <2>2. ref_count'[o] = Cardinality(Holding(fd', o)) + Pending(call', leaked', o)
    BY <1>3, <1>5, <1>6, <1>8, <2>1 DEF TableInv, Counted, Added
  <2>3. ref_count'[o] # 0
    BY <1>5, <1>7, <1>8 DEF TableInv, TypeOK
  <2>4. \A x \in Desc : x # o =>
          /\ ref_count'[x] = Cardinality(Holding(fd', x)) + Pending(call', leaked', x)
          /\ ref_count'[x] = 0 <=> desc'[x] = Null
    BY Zenon, <1>3, <1>6, <1>8 DEF TableInv, Counted, Added
  <2> QED
    BY Zenon, <1>3, <1>7, <2>2, <2>3, <2>4 DEF Counted
<1> QED
  BY Zenon, <1>9, <1>10, <1>11 DEF TableInv

(* pipe: two descriptors, in two free slots.                                *)
LEMMA PipeEffect ==
  ASSUME TableInv, NEW p \in Proc, pipe(p)
  PROVE  \E w, r \in Slots, ow, or \in Desc :
           /\ w # r /\ ow # or
           /\ fd[p][w] = Null /\ fd[p][r] = Null /\ desc[ow] = Null /\ desc[or] = Null
           /\ desc' = [desc EXCEPT ![ow] = OfPipe(FALSE, TRUE), ![or] = OfPipe(TRUE, FALSE)]
           /\ ref_count' = Refs(Refs(ref_count, ow, 1), or, 1)
           /\ fd' = [fd EXCEPT ![p][w] = ow, ![p][r] = or]
           /\ UNCHANGED <<pc, call, leaked>> /\ pc[p] = "user"
<1>1. FreeSlots(p) \subseteq Slots /\ Unused \subseteq Desc
  BY Zenon DEF FreeSlots, Unused
<1>2. IsFiniteSet(FreeSlots(p)) /\ IsFiniteSet(Unused)
  BY Zenon, <1>1, SlotsFinite, FilesAssumption, FS_Subset
<1>3. ASSUME NEW S, IsFiniteSet(S), Cardinality(S) >= 2, NEW x
      PROVE  S # {} /\ S \ {x} # {}
  <2>1. S = {} => Cardinality(S) = 0
    BY Zenon, FS_EmptySet
  <2>2. S \ {x} = {} => S = {} \/ S = {x}
    BY Zenon
  <2>3. S = {x} => Cardinality(S) = 1
    BY Zenon, FS_Singleton
  <2> QED
    BY <1>3, <2>1, <2>2, <2>3
<1>4. Cardinality(FreeSlots(p)) >= 2 /\ Cardinality(Unused) >= 2
  BY Zenon DEF pipe
<1>5. PICK w : w = Lowest(FreeSlots(p))
  OBVIOUS
<1>6. PICK r : r = Lowest(FreeSlots(p) \ {w})
  OBVIOUS
<1>7. FreeSlots(p) # {} /\ FreeSlots(p) \ {w} # {}
  BY Zenon, <1>2, <1>3, <1>4
<1>8. w \in FreeSlots(p) /\ r \in FreeSlots(p) \ {w}
  <2>1. FreeSlots(p) \ {w} \subseteq Slots
    BY Zenon, <1>1
  <2> QED
    BY Zenon, <1>1, <1>5, <1>6, <1>7, <2>1, LowestFree
<1>9. PICK ow : ow = CHOOSE o \in Unused : TRUE
  OBVIOUS
<1>10. PICK or : or = CHOOSE o \in Unused \ {ow} : TRUE
  OBVIOUS
<1>11. Unused # {} /\ Unused \ {ow} # {}
  BY Zenon, <1>2, <1>3, <1>4
<1>12. ow \in Unused /\ or \in Unused \ {ow}
  BY Zenon, <1>9, <1>10, <1>11
<1>13. /\ desc' = [desc EXCEPT ![ow] = OfPipe(FALSE, TRUE), ![or] = OfPipe(TRUE, FALSE)]
       /\ ref_count' = Refs(Refs(ref_count, ow, 1), or, 1)
       /\ fd' = [fd EXCEPT ![p][w] = ow, ![p][r] = or]
       /\ UNCHANGED <<pc, call, leaked>> /\ pc[p] = "user"
  BY Zenon, <1>5, <1>6, <1>9, <1>10 DEF pipe, User, faults
<1>14. w \in Slots /\ r \in Slots /\ w # r /\ fd[p][w] = Null /\ fd[p][r] = Null
  BY Zenon, <1>8 DEF FreeSlots
<1>15. ow \in Desc /\ or \in Desc /\ ow # or /\ desc[ow] = Null /\ desc[or] = Null
  BY Zenon, <1>12 DEF Unused
<1> QED
  BY Zenon, <1>13, <1>14, <1>15

(* pipe: two descriptors with one reference each.                           *)
LEMMA PipeTable ==
  ASSUME TableInv, NEW p \in Proc, pipe(p)
  PROVE  TableInv'
<1>1. PICK w, r \in Slots, ow, or \in Desc :
        /\ w # r /\ ow # or
        /\ fd[p][w] = Null /\ fd[p][r] = Null /\ desc[ow] = Null /\ desc[or] = Null
        /\ desc' = [desc EXCEPT ![ow] = OfPipe(FALSE, TRUE), ![or] = OfPipe(TRUE, FALSE)]
        /\ ref_count' = Refs(Refs(ref_count, ow, 1), or, 1)
        /\ fd' = [fd EXCEPT ![p][w] = ow, ![p][r] = or]
        /\ UNCHANGED <<pc, call, leaked>> /\ pc[p] = "user"
  BY Zenon, PipeEffect
<1>2. PICK f : f = [fd EXCEPT ![p][w] = ow]
  OBVIOUS
<1>3. fd \in Tables
  BY Zenon DEF TableInv, TypeOK
<1>4. Added(fd, f, p, w, ow)
  BY Zenon, <1>1, <1>2, <1>3, SlotSet
<1>5. f \in Tables /\ f[p][r] = Null /\ fd' = [f EXCEPT ![p][r] = or]
  BY Zenon, <1>1, <1>2, <1>4 DEF Added
<1>6. Added(f, fd', p, r, or)
  BY Zenon, <1>5, SlotSet
<1>7. desc' \in [Desc -> Descriptors \cup {Null}] /\ desc'[ow] # Null /\ desc'[or] # Null
        /\ \A x \in Desc \ {ow, or} : desc'[x] = desc[x]
  BY Zenon, <1>1, Basics DEF TableInv, TypeOK
<1>8. /\ ref_count' \in [Desc -> Nat]
      /\ ref_count'[ow] = ref_count[ow] + 1 /\ ref_count'[or] = ref_count[or] + 1
      /\ \A x \in Desc \ {ow, or} : ref_count'[x] = ref_count[x]
  BY <1>1 DEF TableInv, TypeOK, Refs
<1>9. TypeOK'
  BY Zenon, <1>1, <1>6, <1>7, <1>8 DEF TableInv, TypeOK, Added
<1>10. \A q \in Proc \ {p}, j \in Slots : fd'[q][j] = fd[q][j]
  BY Zenon, <1>4, <1>6 DEF Added
<1>11. Life'
  <2>1. pc' = pc /\ call' = call /\ pc[p] # "unborn"
    BY <1>1
  <2>2. \A q \in Proc : pc[q] = "unborn" => \A i \in Slots : fd'[q][i] = Null
    BY Zenon, <1>10, <2>1 DEF TableInv, Life
  <2> QED
    BY Zenon, <2>1, <2>2 DEF TableInv, Life
<1>12. Counted'
  <2>1. \A x \in Desc : Cardinality(Holding(fd, x)) \in Nat /\ Pending(call, leaked, x) \in Nat
    BY Zenon, Finite, PendingNat
  <2>2. /\ Cardinality(Holding(fd', ow)) = Cardinality(Holding(fd, ow)) + 1
        /\ Cardinality(Holding(fd', or)) = Cardinality(Holding(fd, or)) + 1
        /\ \A x \in Desc \ {ow, or} : Cardinality(Holding(fd', x)) = Cardinality(Holding(fd, x))
    BY Zenon, <1>1, <1>4, <1>6 DEF Added
  <2>3. ASSUME NEW o \in {ow, or}
        PROVE  /\ ref_count'[o] = Cardinality(Holding(fd', o)) + Pending(call', leaked', o)
               /\ ref_count'[o] # 0
    <3>1. ref_count[o] = Cardinality(Holding(fd, o)) + Pending(call, leaked, o)
      BY Zenon, <1>1, <2>3 DEF TableInv, Counted
    <3>2. /\ Cardinality(Holding(fd', o)) = Cardinality(Holding(fd, o)) + 1
          /\ ref_count'[o] = ref_count[o] + 1 /\ ref_count[o] \in Nat
      BY Zenon, <1>8, <2>2, <2>3 DEF TableInv, TypeOK
    <3>3. Cardinality(Holding(fd, o)) \in Nat /\ Pending(call, leaked, o) \in Nat
            /\ call' = call /\ leaked' = leaked
      BY Zenon, <1>1, <2>1
    <3> QED
      BY <3>1, <3>2, <3>3
  <2>4. \A x \in Desc \ {ow, or} :
          /\ ref_count'[x] = Cardinality(Holding(fd', x)) + Pending(call', leaked', x)
          /\ ref_count'[x] = 0 <=> desc'[x] = Null
    BY Zenon, <1>1, <1>7, <1>8, <2>2 DEF TableInv, Counted
  <2> QED
    BY Zenon, <1>7, <2>3, <2>4 DEF Counted
<1> QED
  BY Zenon, <1>9, <1>11, <1>12 DEF TableInv

(* fork counts every slot of the table it copies.                           *)
LEMMA ForkTable ==
  ASSUME TableInv, NEW p \in Proc, NEW child \in Proc, fork(p, child)
  PROVE  TableInv'
<1>1. /\ pc[p] = "user" /\ pc[child] = "unborn" /\ fd' = [fd EXCEPT ![child] = fd[p]]
      /\ pc' = [pc EXCEPT ![child] = "user"] /\ UNCHANGED <<call, leaked>>
      /\ ref_count' = [o \in Desc |-> ref_count[o] + Cardinality({i \in Slots : fd[p][i] = o})]
      /\ desc' = [o \in Desc |-> IF \E i \in Slots : fd[p][i] = o
                                 THEN [desc[o] EXCEPT !.forked = TRUE] ELSE desc[o]]
  BY Zenon DEF fork, User
<1>2. fd \in Tables /\ \A i \in Slots : fd[child][i] = Null
  BY Zenon, <1>1 DEF TableInv, TypeOK, Life
<1>3. Copied(fd, fd', p, child)
  BY Zenon, <1>1, <1>2, TableCopied
<1>4. /\ desc' \in [Desc -> Descriptors \cup {Null}]
      /\ \A o \in Desc : desc'[o] = Null <=> desc[o] = Null
  <2>1. ASSUME NEW o \in Desc, \E i \in Slots : fd[p][i] = o
        PROVE  desc[o] # Null /\ [desc[o] EXCEPT !.forked = TRUE] \in Descriptors
    <3>1. desc[o] \in Descriptors /\ desc[o] # Null
      BY Zenon, <2>1, InUse
    <3> QED
      BY <3>1 DEF Descriptors
  <2>2. \A o \in Desc : desc'[o] = IF \E i \in Slots : fd[p][i] = o
                                   THEN [desc[o] EXCEPT !.forked = TRUE] ELSE desc[o]
    BY Zenon, <1>1
  <2>3. \A o \in Desc : desc[o] \in Descriptors \cup {Null}
    BY Zenon DEF TableInv, TypeOK
  <2>4. ASSUME NEW o \in Desc
        PROVE  desc'[o] \in Descriptors \cup {Null} /\ (desc'[o] = Null <=> desc[o] = Null)
    <3>1. CASE \E i \in Slots : fd[p][i] = o
      <4>1. desc'[o] = [desc[o] EXCEPT !.forked = TRUE]
        BY Zenon, <2>2, <3>1
      <4>2. desc'[o] \in Descriptors /\ desc[o] # Null
        BY Zenon, <2>1, <3>1, <4>1
      <4> QED
        BY Zenon, <4>2, Basics
    <3>2. CASE ~ \E i \in Slots : fd[p][i] = o
      BY Zenon, <2>2, <2>3, <3>2
    <3> QED
      BY Zenon, <3>1, <3>2
  <2>5. DOMAIN desc' = Desc /\ desc' = [o \in Desc |-> desc'[o]]
    BY Zenon, <1>1
  <2> QED
    BY Zenon, <2>4, <2>5
<1>5. \A o \in Desc : ref_count[o] \in Nat /\ Cardinality({i \in Slots : fd[p][i] = o}) \in Nat
  BY Zenon, <1>3 DEF TableInv, TypeOK, Copied
<1>6. \A o \in Desc : ref_count'[o] = ref_count[o] + Cardinality({i \in Slots : fd[p][i] = o})
  BY Zenon, <1>1
<1>7. ref_count' \in [Desc -> Nat]
  BY <1>1, <1>5
<1>8. TypeOK'
  BY Zenon, <1>1, <1>3, <1>4, <1>7 DEF TableInv, TypeOK, Copied
<1>9. Life'
  <2>1. \A q \in Proc : (q # child => pc'[q] = pc[q] /\ fd'[q] = fd[q]) /\ call'[q] = call[q]
    BY Zenon, <1>1, <1>3 DEF TableInv, TypeOK, Copied
  <2>2. pc'[child] = "user"
    BY Zenon, <1>1 DEF TableInv, TypeOK
  <2>3. call'[child] = NoCall
    BY <1>1, <2>1 DEF TableInv, Life
  <2>4. ASSUME NEW q \in Proc
        PROVE  /\ pc'[q] \in {"unborn", "user", "exited"} => call'[q] = NoCall
               /\ pc'[q] \in Reading => call'[q].desc \in Desc
               /\ pc'[q] = "unborn" => \A i \in Slots : fd'[q][i] = Null
    <3>1. CASE q = child
      BY Zenon, <2>2, <2>3, <3>1, Points
    <3>2. CASE q # child
      BY Zenon, <2>1, <3>2 DEF TableInv, Life
    <3> QED
      BY <3>1, <3>2
  <2> QED
    BY Zenon, <2>4 DEF Life
<1>10. Counted'
  <2> SUFFICES ASSUME NEW o \in Desc
               PROVE  /\ ref_count'[o] = Cardinality(Holding(fd', o)) + Pending(call', leaked', o)
                      /\ ref_count'[o] = 0 <=> desc'[o] = Null
    BY Zenon DEF Counted
  <2> DEFINE n == Cardinality({i \in Slots : fd[p][i] = o})
  <2>1. n \in Nat /\ ref_count'[o] = ref_count[o] + n
          /\ Cardinality(Holding(fd', o)) = Cardinality(Holding(fd, o)) + n
    BY Zenon, <1>3, <1>5, <1>6 DEF Copied
  <2>2. n # 0 => ref_count[o] # 0
    <3>1. ASSUME n # 0 PROVE \E i \in Slots : fd[p][i] = o
      <4>1. {i \in Slots : fd[p][i] = o} # {}
        BY Zenon, <3>1, FS_EmptySet
      <4> QED
        BY Zenon, <4>1
    <3>2. (\E i \in Slots : fd[p][i] = o) => ref_count[o] > 0
      BY Zenon, InUse
    <3>3. ref_count[o] > 0 => ref_count[o] # 0
      BY <1>5
    <3> QED
      BY Zenon, <3>1, <3>2, <3>3
  <2> HIDE DEF n
  <2>3. Cardinality(Holding(fd, o)) \in Nat /\ Pending(call, leaked, o) \in Nat
          /\ Pending(call', leaked', o) = Pending(call, leaked, o)
    BY Zenon, <1>1, Finite, PendingNat
  <2>4. ref_count[o] = Cardinality(Holding(fd, o)) + Pending(call, leaked, o)
    BY Zenon DEF TableInv, Counted
  <2>5. ref_count'[o] = Cardinality(Holding(fd', o)) + Pending(call', leaked', o)
    BY <2>1, <2>3, <2>4
  <2>6. ref_count'[o] = 0 <=> ref_count[o] = 0
    <3>1. ref_count[o] \in Nat
      BY Zenon, <1>5
    <3> QED
      BY <2>1, <2>2, <3>1
  <2> QED
    BY Zenon, <1>4, <2>5, <2>6 DEF TableInv, Counted
<1> QED
  BY Zenon, <1>8, <1>9, <1>10 DEF TableInv

(* A page fault in the kernel ends the process, or enters its handler.      *)
LEMMA FaultTo ==
  ASSUME NEW p \in Proc, Fault(p)
  PROVE  \E there \in {"user", "exited"} : pc' = [pc EXCEPT ![p] = there]
BY Zenon DEF Fault

(* exit, and len of a terminal.                                             *)
LEMMA ExitTable ==
  ASSUME TableInv, NEW p \in Proc, pc[p] = "user", NEW there \in {"user", "exited"},
         pc' = [pc EXCEPT ![p] = there], UNCHANGED <<tables, call, leaked>>
  PROVE  TableInv'
<1>1. desc' = desc /\ ref_count' = ref_count /\ fd' = fd /\ call' = call /\ leaked' = leaked
  BY Zenon DEF tables
<1>2. pc' \in [Proc -> {"unborn", "user", "exited"} \cup Reading] /\ pc'[p] = there
        /\ \A q \in Proc \ {p} : pc'[q] = pc[q]
  BY Zenon DEF TableInv, TypeOK
<1>3. call[p] = NoCall
  BY Zenon DEF TableInv, Life
<1>4. Life'
  <2>1. ASSUME NEW q \in Proc
        PROVE  /\ pc'[q] \in {"unborn", "user", "exited"} => call'[q] = NoCall
               /\ pc'[q] \in Reading => call'[q].desc \in Desc
               /\ pc'[q] = "unborn" => \A i \in Slots : fd'[q][i] = Null
    <3>1. CASE q = p
      BY Zenon, <1>1, <1>2, <1>3, <3>1, Points
    <3>2. CASE q # p
      BY Zenon, <1>1, <1>2, <3>2 DEF TableInv, Life
    <3> QED
      BY <3>1, <3>2
  <2> QED
    BY Zenon, <2>1 DEF Life
<1> QED
  BY Zenon, <1>1, <1>2, <1>4 DEF TableInv, TypeOK, Counted

(* ReadCall, and Return.                                                    *)
LEMMA ReadTable ==
  ASSUME TableInv, NEW p \in Proc, NEW i \in Slots, NEW count \in Counts, NEW mapped \in BOOLEAN,
         ReadCall(p, i, count, mapped)
  PROVE  TableInv'
<1>1. PICK o : o = fd[p][i]
  OBVIOUS
<1>2. PICK k : k = [desc |-> o, asked |-> count, count |-> count, pos |-> 0, total |-> 0, mapped |-> mapped]
  OBVIOUS
<1>3. PICK there : there = IF count > Minus(FileSize, desc[o].offset) THEN "clip" ELSE "add"
  OBVIOUS
<1>4. /\ o # Null /\ pc[p] = "user" /\ ref_count' = Refs(ref_count, o, 1)
      /\ call' = [call EXCEPT ![p] = k] /\ pc' = [pc EXCEPT ![p] = there]
      /\ UNCHANGED <<desc, fd, leaked>>
  BY Zenon, <1>1, <1>2, <1>3 DEF ReadCall, User, faults
<1>5. o \in Desc /\ there \in Reading
  BY <1>1, <1>3, <1>4 DEF TableInv, TypeOK, Tables, Reading
<1>6. k \in Calls /\ k.desc = o /\ call \in [Proc -> Calls] /\ call[p].desc = Null
  <2>1. count \in Nat
    BY Zenon, FilesAssumption
  <2>2. k \in Calls /\ k.desc = o
    BY <1>2, <1>5, <2>1 DEF Calls
  <2> QED
    BY Zenon, <1>4, <2>2, Basics DEF TableInv, TypeOK, Life
<1>7. Called(call, call', p, k, o, 1)
  BY Zenon, <1>4, <1>5, <1>6, CallSet
<1>8. /\ ref_count' \in [Desc -> Nat] /\ ref_count'[o] = ref_count[o] + 1
      /\ \A x \in Desc \ {o} : ref_count'[x] = ref_count[x]
  BY <1>4, <1>5 DEF TableInv, TypeOK, Refs
<1>9. /\ pc' \in [Proc -> {"unborn", "user", "exited"} \cup Reading] /\ pc'[p] = there
      /\ \A q \in Proc \ {p} : pc'[q] = pc[q] /\ call'[q] = call[q]
  BY Zenon, <1>4, <1>5, <1>7 DEF TableInv, TypeOK, Called
<1>10. TypeOK'
  BY Zenon, <1>4, <1>7, <1>8, <1>9 DEF TableInv, TypeOK, Called
<1>11. Life'
  <2>1. there \notin {"unborn", "user", "exited"}
    BY <1>3
  <2>2. call'[p].desc \in Desc
    BY Zenon, <1>5, <1>6, <1>7 DEF Called
  <2> QED
    BY <1>4, <1>9, <2>1, <2>2 DEF TableInv, Life
<1>12. Counted'
  <2>1. /\ Cardinality(Holding(fd, o)) \in Nat /\ Cardinality(Calling(call, o)) \in Nat
        /\ leaked[o] \in Nat
    BY Zenon, <1>5, Finite DEF TableInv, TypeOK
  <2>2. ref_count'[o] = Cardinality(Holding(fd', o)) + Pending(call', leaked', o)
    BY <1>4, <1>5, <1>7, <1>8, <2>1 DEF TableInv, Counted, Called, Pending
  <2>3. ref_count'[o] # 0
    BY <1>5, <1>8 DEF TableInv, TypeOK
  <2>4. desc'[o] # Null
    BY Zenon, <1>1, <1>4, <1>5, InUse
  <2>5. \A x \in Desc : x # o =>
          /\ ref_count'[x] = Cardinality(Holding(fd', x)) + Pending(call', leaked', x)
          /\ ref_count'[x] = 0 <=> desc'[x] = Null
    BY Zenon, <1>4, <1>7, <1>8 DEF TableInv, Counted, Called, Pending
  <2> QED
    BY Zenon, <2>2, <2>3, <2>4, <2>5 DEF Counted
<1> QED
  BY Zenon, <1>10, <1>11, <1>12 DEF TableInv

(* The end of read: its reference goes, and with the last one the           *)
(* descriptor.                                                              *)
LEMMA ReturnTable ==
  ASSUME TableInv, NEW p \in Proc, Return(p)
  PROVE  TableInv'
<1>1. PICK o : o = call[p].desc
  OBVIOUS
<1>2. /\ pc[p] = "return" /\ ref_count' = Refs(ref_count, o, -1) /\ desc' = Deleted(desc, ref_count')
      /\ pc' = [pc EXCEPT ![p] = "user"] /\ call' = [call EXCEPT ![p] = NoCall] /\ UNCHANGED <<fd, leaked>>
  BY Zenon, <1>1 DEF Return, faults
<1>3. o \in Desc /\ call \in [Proc -> Calls] /\ pc[p] \in Reading
  <2>1. pc[p] \in Reading
    BY <1>2 DEF Reading
  <2> QED
    BY Zenon, <1>1, <2>1 DEF TableInv, TypeOK, Life
<1>4. Called(call, call', p, NoCall, o, -1)
  BY Zenon, <1>1, <1>2, <1>3, Basics, CallClear
<1>5. /\ ref_count' \in [Desc -> Nat] /\ ref_count'[o] = ref_count[o] - 1
      /\ \A x \in Desc \ {o} : ref_count'[x] = ref_count[x]
      /\ desc' \in [Desc -> Descriptors \cup {Null}]
      /\ \A x \in Desc : ref_count'[x] = 0 <=> desc'[x] = Null
  BY Zenon, <1>1, <1>2, <1>3, Unref
<1>6. /\ pc' \in [Proc -> {"unborn", "user", "exited"} \cup Reading] /\ pc'[p] = "user"
      /\ \A q \in Proc \ {p} : pc'[q] = pc[q] /\ call'[q] = call[q]
  BY Zenon, <1>2, <1>4 DEF TableInv, TypeOK, Called
<1>7. TypeOK'
  BY Zenon, <1>2, <1>4, <1>5, <1>6 DEF TableInv, TypeOK, Called
<1>8. Life'
  <2>1. ASSUME NEW q \in Proc
        PROVE  /\ pc'[q] \in {"unborn", "user", "exited"} => call'[q] = NoCall
               /\ pc'[q] \in Reading => call'[q].desc \in Desc
               /\ pc'[q] = "unborn" => \A i \in Slots : fd'[q][i] = Null
    <3>1. CASE q = p
      BY Zenon, <1>4, <1>6, <3>1, Points DEF Called
    <3>2. CASE q # p
      BY Zenon, <1>2, <1>6, <3>2 DEF TableInv, Life
    <3> QED
      BY <3>1, <3>2
  <2> QED
    BY Zenon, <2>1 DEF Life
<1>9. Counted'
  <2>1. /\ Cardinality(Holding(fd, o)) \in Nat /\ Cardinality(Calling(call, o)) \in Nat
        /\ leaked[o] \in Nat
    BY Zenon, <1>3, Finite DEF TableInv, TypeOK
  <2>2. ref_count'[o] = Cardinality(Holding(fd', o)) + Pending(call', leaked', o)
    BY <1>2, <1>3, <1>4, <1>5, <2>1 DEF TableInv, Counted, Called, Pending
  <2>3. \A x \in Desc : x # o =>
          ref_count'[x] = Cardinality(Holding(fd', x)) + Pending(call', leaked', x)
    BY Zenon, <1>2, <1>4, <1>5 DEF TableInv, Counted, Called, Pending
  <2> QED
    BY Zenon, <1>5, <2>2, <2>3 DEF Counted
<1> QED
  BY Zenon, <1>7, <1>8, <1>9 DEF TableInv

(* A step of a call in progress: its locals become k, its descriptor o      *)
(* becomes d, and it goes on there.                                         *)
Moves(p, o, k, d, there) ==
  /\ pc[p] \in Reading /\ o \in Desc /\ o = call[p].desc /\ desc[o] \in Descriptors
  /\ k \in Calls /\ k.desc = o /\ d \in Descriptors /\ there \in Reading
  /\ call' = [call EXCEPT ![p] = k] /\ desc' = [desc EXCEPT ![o] = d]
  /\ pc' = [pc EXCEPT ![p] = there] /\ UNCHANGED <<ref_count, fd, leaked>>

(* It keeps its reference, and deletes no descriptor.                       *)
LEMMA MovesTable ==
  ASSUME TableInv, NEW p \in Proc, NEW o, NEW k, NEW d, NEW there, Moves(p, o, k, d, there)
  PROVE  TableInv'
<1>1. Going(call, call', p, k)
  <2>1. call \in [Proc -> Calls]
    BY Zenon DEF TableInv, TypeOK
  <2> QED
    BY Zenon, <2>1, CallKept DEF Moves
<1>2. /\ pc' \in [Proc -> {"unborn", "user", "exited"} \cup Reading] /\ pc'[p] = there
      /\ call'[p] = k
      /\ \A q \in Proc \ {p} : pc'[q] = pc[q] /\ call'[q] = call[q]
  BY Zenon, <1>1 DEF TableInv, TypeOK, Going, Moves
<1>3. /\ desc' \in [Desc -> Descriptors \cup {Null}]
      /\ \A x \in Desc : desc'[x] = Null <=> desc[x] = Null
  BY Zenon, Basics DEF Moves, TableInv, TypeOK
<1>4. TypeOK'
  BY Zenon, <1>1, <1>2, <1>3 DEF TableInv, TypeOK, Moves, Going
<1>5. Life'
  <2>1. ASSUME NEW q \in Proc
        PROVE  /\ pc'[q] \in {"unborn", "user", "exited"} => call'[q] = NoCall
               /\ pc'[q] \in Reading => call'[q].desc \in Desc
               /\ pc'[q] = "unborn" => \A i \in Slots : fd'[q][i] = Null
    <3>1. CASE q = p
      BY Zenon, <1>2, <3>1, Points DEF Moves
    <3>2. CASE q # p
      BY Zenon, <1>2, <3>2 DEF TableInv, Life, Moves
    <3> QED
      BY <3>1, <3>2
  <2> QED
    BY Zenon, <2>1 DEF Life
<1>6. Counted'
  BY Zenon, <1>1, <1>3 DEF TableInv, Counted, Moves, Going, Pending
<1> QED
  BY Zenon, <1>4, <1>5, <1>6 DEF TableInv

----------------------------------------------------------------------------
(* Offsets are modulo W.                                                    *)
LEMMA ModFacts ==
  \A x \in Int : x % W \in 0 .. W - 1 /\ x % W \in Nat /\ (x \in 0 .. W - 1 => x % W = x)
<1>1. W \in Nat /\ W > 0
  BY FilesAssumption
<1> QED
  BY <1>1

(* BlockIO::read never goes beyond what is asked for, or beyond the end.    *)
LEMMA ChunkFacts ==
  ASSUME NEW c \in Calls
  PROVE  /\ Chunk(c) \in Int
         /\ Chunk(c) > 0 => Chunk(c) \in Nat /\ Chunk(c) <= c.count
<1>1. c.count \in Nat /\ c.pos \in Nat
  BY DEF Calls
<1>2. CASE c.count = 0 \/ c.pos = FileSize
  BY <1>2 DEF Chunk
<1>3. CASE ~(c.count = 0 \/ c.pos = FileSize) /\ c.pos > FileSize
  BY <1>3 DEF Chunk
<1>4. CASE ~(c.count = 0 \/ c.pos = FileSize) /\ ~(c.pos > FileSize)
  <2> DEFINE S == {BlockSize - (c.pos % BlockSize), c.count, FileSize - c.pos}
  <2>1. BlockSize - (c.pos % BlockSize) \in Nat /\ FileSize - c.pos \in Nat
    BY <1>1, <1>4, FilesAssumption
  <2>2. S \subseteq Nat /\ S # {} /\ c.count \in S
    BY <1>1, <2>1
  <2> HIDE DEF S
  <2>3. Min(S) \in S /\ Min(S) <= c.count
    BY Zenon, <2>2, MinFacts
  <2>4. Chunk(c) = Min(S)
    BY Zenon, <1>4 DEF Chunk, S
  <2>5. Chunk(c) \in Nat /\ Chunk(c) <= c.count
    BY Zenon, <2>2, <2>3, <2>4
  <2> QED
    BY <2>5
<1> QED
  BY <1>2, <1>3, <1>4

(* The descriptor of a call, and its locals.                                *)
LEMMA CallFacts ==
  ASSUME TableInv, NEW p \in Proc, pc[p] \in Reading
  PROVE  /\ call[p].desc \in Desc /\ call[p] \in Calls /\ desc[call[p].desc] \in Descriptors
         /\ call = [call EXCEPT ![p] = call[p]]
         /\ desc = [desc EXCEPT ![call[p].desc] = desc[call[p].desc]]
<1>1. call[p].desc \in Desc /\ call \in [Proc -> Calls] /\ desc \in [Desc -> Descriptors \cup {Null}]
  BY Zenon DEF TableInv, TypeOK, Life
<1>2. desc[call[p].desc] \in Descriptors
  BY Zenon, <1>1, InUse
<1>3. call[p] \in Calls
  BY Zenon, <1>1
<1>4. call = [call EXCEPT ![p] = call[p]] /\ desc = [desc EXCEPT ![call[p].desc] = desc[call[p].desc]]
  BY <1>1
<1> QED
  BY Zenon, <1>1, <1>2, <1>3, <1>4

(* The second look at the offset.                                           *)
LEMMA ClipEffect ==
  ASSUME TableInv, NEW p \in Proc, Clip(p)
  PROVE  \E o, k :
           /\ Moves(p, o, k, desc[o], "add") /\ pc[p] = "clip"
           /\ k.asked = call[p].asked /\ k.total = call[p].total
           /\ k.count = Minus(FileSize, desc[o].offset)
<1>1. pc[p] = "clip" /\ pc[p] \in Reading /\ "add" \in Reading
  BY DEF Clip, Reading
<1>2. PICK o : o = call[p].desc
  OBVIOUS
<1>3. PICK k : k = [call[p] EXCEPT !.count = Minus(FileSize, desc[o].offset)]
  OBVIOUS
<1>4. /\ o \in Desc /\ call[p] \in Calls /\ desc[o] \in Descriptors
      /\ desc = [desc EXCEPT ![o] = desc[o]]
  BY Zenon, <1>1, <1>2, CallFacts
<1>5. Minus(FileSize, desc[o].offset) \in Nat
  <2>1. FileSize - desc[o].offset \in Int
    BY <1>4, FilesAssumption DEF Descriptors
  <2> QED
    BY Zenon, <2>1, ModFacts DEF Minus
<1>6. /\ k \in Calls /\ k.desc = o /\ k.count = Minus(FileSize, desc[o].offset)
      /\ k.asked = call[p].asked /\ k.total = call[p].total
  BY <1>2, <1>3, <1>4, <1>5 DEF Calls
<1>7. /\ call' = [call EXCEPT ![p] = k] /\ pc' = [pc EXCEPT ![p] = "add"]
      /\ desc' = desc /\ UNCHANGED <<ref_count, fd, leaked>>
  BY Zenon, <1>2, <1>3 DEF Clip, tables, faults
<1>8. Moves(p, o, k, desc[o], "add")
  BY Zenon, <1>1, <1>2, <1>4, <1>6, <1>7 DEF Moves
<1> QED
  BY Zenon, <1>1, <1>6, <1>8

(* fetch_add                                                                *)
Fetches(p, o, k, d, there) ==
  LET end == k.pos + k.count IN
  /\ Moves(p, o, k, d, there) /\ pc[p] = "add" /\ there \in {"lock", "return"}
  /\ there = "lock" => Chunk(k) > 0
  /\ k.asked = call[p].asked /\ k.total = call[p].total /\ k.count = call[p].count
  /\ k.pos = desc[o].offset
  /\ d.offset = end % W
  /\ (d.overshot <=> desc[o].overshot \/ end > FileSize)
  /\ d.seen = IF end > FileSize THEN {} ELSE desc[o].seen
  /\ (d.again <=> desc[o].again) /\ (d.forked <=> desc[o].forked)

(* fetch_add moves the offset by the count, modulo its width.               *)
LEMMA FetchEffect ==
  ASSUME TableInv, NEW p \in Proc, FetchAdd(p)
  PROVE  \E o, k, d, there : Fetches(p, o, k, d, there)
<1>1. pc[p] = "add" /\ pc[p] \in Reading /\ "lock" \in Reading /\ "return" \in Reading
  BY DEF FetchAdd, Reading, Copying
<1>2. PICK o : o = call[p].desc
  OBVIOUS
<1>3. PICK k : k = [call[p] EXCEPT !.pos = desc[o].offset]
  OBVIOUS
<1>4. o \in Desc /\ call[p] \in Calls /\ desc[o] \in Descriptors /\ desc \in [Desc -> Descriptors \cup {Null}]
  BY Zenon, <1>1, <1>2, CallFacts DEF TableInv, TypeOK
<1>5. /\ k \in Calls /\ k.desc = o /\ k.pos = desc[o].offset
      /\ k.asked = call[p].asked /\ k.total = call[p].total /\ k.count = call[p].count
  BY <1>2, <1>3, <1>4 DEF Calls, Descriptors
<1>6. (k.pos + k.count) % W \in Nat
  <2>1. k.pos + k.count \in Int
    BY <1>5 DEF Calls
  <2> QED
    BY Zenon, <2>1, ModFacts
<1>7. PICK offset : offset = k.pos + k.count
  OBVIOUS
<1>8. PICK d : d = [desc[o] EXCEPT !.offset = offset % W,
                                   !.overshot = @ \/ offset > FileSize,
                                   !.seen = IF offset > FileSize THEN {} ELSE @]
  OBVIOUS
<1>9. desc' = [desc EXCEPT ![o].offset = offset % W,
                           ![o].overshot = @ \/ offset > FileSize,
                           ![o].seen = IF offset > FileSize THEN {} ELSE @]
  BY Zenon, <1>2, <1>3, <1>7 DEF FetchAdd
<1>10. desc' = [desc EXCEPT ![o] = d]
  BY <1>4, <1>8, <1>9
<1>11. /\ d \in Descriptors /\ d.offset = offset % W
       /\ d.overshot = (desc[o].overshot \/ offset > FileSize)
       /\ d.seen = IF offset > FileSize THEN {} ELSE desc[o].seen
       /\ d.again = desc[o].again /\ d.forked = desc[o].forked
  BY <1>4, <1>6, <1>7, <1>8 DEF Descriptors
<1>12. PICK there : there = IF Chunk(k) > 0 THEN "lock" ELSE "return"
  OBVIOUS
<1>13. /\ call' = [call EXCEPT ![p] = k] /\ pc' = [pc EXCEPT ![p] = there]
       /\ UNCHANGED <<ref_count, fd, leaked>>
  BY Zenon, <1>2, <1>3, <1>12 DEF FetchAdd, Continue, faults
<1>14. there \in {"lock", "return"} /\ (there = "lock" => Chunk(k) > 0)
  BY <1>12
<1>15. Moves(p, o, k, d, there)
  BY Zenon, <1>1, <1>2, <1>4, <1>5, <1>10, <1>11, <1>13, <1>14 DEF Moves
<1>16. Fetches(p, o, k, d, there)
  BY Zenon, <1>1, <1>5, <1>7, <1>11, <1>14, <1>15 DEF Fetches
<1> QED
  BY Zenon, <1>16

(* One round of read_all delivers n bytes.                                  *)
Delivers(p, o, k, d, there, n) ==
  LET bytes == call[p].pos .. call[p].pos + n - 1 IN
  /\ Moves(p, o, k, d, there) /\ pc[p] \in Copying /\ there \in {"lock", "return"}
  /\ there = "lock" => Chunk(k) > 0
  /\ n \in Nat /\ n > 0 /\ n <= call[p].count
  /\ k.asked = call[p].asked /\ k.total = call[p].total + n
  /\ k.count = call[p].count - n /\ k.pos = call[p].pos + n
  /\ d.offset = desc[o].offset /\ (d.overshot <=> desc[o].overshot)
  /\ d.seen = IF desc[o].overshot THEN {} ELSE desc[o].seen \cup bytes
  /\ (d.again <=> desc[o].again \/ bytes \cap desc[o].seen # {})
  /\ (d.forked <=> desc[o].forked)

(* A block's part is stored, and the call has that much less to do.         *)
LEMMA DeliverEffect ==
  ASSUME TableInv, ReadInv, NEW p \in Proc, CopyInPlace(p) \/ CopyFromTemp(p)
  PROVE  \E o, k, d, there, n : Delivers(p, o, k, d, there, n)
<1>1. /\ pc[p] \in Copying /\ pc[p] \in Reading /\ "lock" \in Reading /\ "return" \in Reading
      /\ Deliver(p) /\ UNCHANGED <<ref_count, fd, leaked>>
  BY DEF CopyInPlace, CopyFromTemp, Reading, Copying, faults
<1>2. PICK o : o = call[p].desc
  OBVIOUS
<1>3. PICK c : c = call[p]
  OBVIOUS
<1>4. PICK n : n = Chunk(c)
  OBVIOUS
<1>5. PICK bytes : bytes = c.pos .. c.pos + n - 1
  OBVIOUS
<1>6. PICK k : k = [c EXCEPT !.pos = @ + n, !.count = @ - n, !.total = @ + n]
  OBVIOUS
<1>7. PICK d : d = [desc[o] EXCEPT !.seen = IF desc[o].overshot THEN {} ELSE @ \cup bytes,
                                   !.again = @ \/ bytes \cap desc[o].seen # {}]
  OBVIOUS
<1>8. /\ o \in Desc /\ c \in Calls /\ desc[o] \in Descriptors
      /\ desc \in [Desc -> Descriptors \cup {Null}]
  BY Zenon, <1>1, <1>2, <1>3, CallFacts DEF TableInv, TypeOK
<1>9. n \in Nat /\ n > 0 /\ n <= c.count
  BY Zenon, <1>1, <1>3, <1>4, <1>8, ChunkFacts DEF ReadInv, CallOK, Fits
<1>10. c.pos \in Nat /\ c.count \in Nat /\ c.total \in Nat /\ c.pos + n \in Nat /\ c.count - n \in Nat
         /\ c.total + n \in Nat /\ bytes \subseteq Nat
  BY <1>5, <1>8, <1>9 DEF Calls
<1>11. /\ k \in Calls /\ k.desc = o /\ k.asked = c.asked /\ k.total = c.total + n
       /\ k.count = c.count - n /\ k.pos = c.pos + n
  BY <1>2, <1>3, <1>6, <1>8, <1>10 DEF Calls
<1>12. /\ d \in Descriptors /\ d.offset = desc[o].offset /\ d.overshot = desc[o].overshot
       /\ d.seen = IF desc[o].overshot THEN {} ELSE desc[o].seen \cup bytes
       /\ d.again = (desc[o].again \/ bytes \cap desc[o].seen # {})
       /\ d.forked = desc[o].forked
  BY <1>7, <1>8, <1>10 DEF Descriptors
<1>13. desc' = [desc EXCEPT ![o].seen = IF desc[o].overshot THEN {} ELSE @ \cup bytes,
                            ![o].again = @ \/ bytes \cap desc[o].seen # {}]
  BY Zenon, <1>1, <1>2, <1>3, <1>4, <1>5 DEF Deliver
<1>14. desc' = [desc EXCEPT ![o] = d]
  BY <1>7, <1>8, <1>13
<1>15. PICK there : there = IF Chunk(k) > 0 THEN "lock" ELSE "return"
  OBVIOUS
<1>16. call' = [call EXCEPT ![p] = k] /\ pc' = [pc EXCEPT ![p] = there]
  BY Zenon, <1>1, <1>3, <1>4, <1>6, <1>15 DEF Deliver, Continue
<1>17. there \in {"lock", "return"} /\ (there = "lock" => Chunk(k) > 0)
  BY <1>15
<1>18. Moves(p, o, k, d, there)
  BY Zenon, <1>1, <1>2, <1>8, <1>11, <1>12, <1>14, <1>16, <1>17 DEF Moves
<1>19. Delivers(p, o, k, d, there, n)
  BY Zenon, <1>1, <1>3, <1>5, <1>9, <1>11, <1>12, <1>17, <1>18 DEF Delivers
<1> QED
  BY Zenon, <1>19

(* The lock is taken, or released after the block is read: only the place   *)
(* of the call changes.                                                     *)
LEMMA PlaceEffect ==
  ASSUME TableInv, NEW p \in Proc, Lock(p) \/ CopyToTemp(p)
  PROVE  \E o, there :
           /\ Moves(p, o, call[p], desc[o], there) /\ pc[p] \in Copying /\ there \in Copying
<1>1. PICK there : there = IF Lock(p) THEN "copy" ELSE "memcpy"
  OBVIOUS
<1>2. /\ pc[p] \in Copying /\ pc[p] \in Reading /\ there \in Copying /\ there \in Reading
  BY <1>1 DEF Lock, CopyToTemp, Reading, Copying
<1>3. pc' = [pc EXCEPT ![p] = there] /\ call' = call /\ desc' = desc
        /\ UNCHANGED <<ref_count, fd, leaked>>
  BY <1>1 DEF Lock, CopyToTemp, tables, faults
<1>4. PICK o : o = call[p].desc
  OBVIOUS
<1>5. Moves(p, o, call[p], desc[o], there)
  BY Zenon, <1>2, <1>3, <1>4, CallFacts DEF Moves
<1> QED
  BY Zenon, <1>2, <1>5

(* A fault ends the call, with its reference still counted.                 *)
LEMMA FaultTable ==
  ASSUME TableInv, NEW p \in Proc, CopyFault(p)
  PROVE  TableInv'
<1>1. pc[p] \in Reading
  BY DEF CopyFault, Reading, Copying
<1>2. PICK there \in {"user", "exited"} : pc' = [pc EXCEPT ![p] = there]
  BY Zenon, FaultTo DEF CopyFault
<1>3. PICK o : o = call[p].desc
  OBVIOUS
<1>4. /\ desc' = desc /\ ref_count' = ref_count /\ fd' = fd
      /\ call' = [call EXCEPT ![p] = NoCall] /\ leaked' = [leaked EXCEPT ![o] = @ + 1]
  BY Zenon, <1>3 DEF CopyFault, tables
<1>5. o \in Desc /\ call \in [Proc -> Calls]
  BY Zenon, <1>1, <1>3 DEF TableInv, TypeOK, Life
<1>6. Called(call, call', p, NoCall, o, -1)
  BY Zenon, <1>3, <1>4, <1>5, Basics, CallClear
<1>7. /\ leaked' \in [Desc -> Nat] /\ leaked[o] \in Nat /\ leaked'[o] = leaked[o] + 1
      /\ \A x \in Desc \ {o} : leaked'[x] = leaked[x]
  BY <1>4, <1>5 DEF TableInv, TypeOK
<1>8. /\ pc' \in [Proc -> {"unborn", "user", "exited"} \cup Reading] /\ pc'[p] = there
      /\ \A q \in Proc \ {p} : pc'[q] = pc[q] /\ call'[q] = call[q]
  BY Zenon, <1>2, <1>6 DEF TableInv, TypeOK, Called
<1>9. TypeOK'
  BY Zenon, <1>4, <1>6, <1>7, <1>8 DEF TableInv, TypeOK, Called
<1>10. Life'
  <2>1. ASSUME NEW q \in Proc
        PROVE  /\ pc'[q] \in {"unborn", "user", "exited"} => call'[q] = NoCall
               /\ pc'[q] \in Reading => call'[q].desc \in Desc
               /\ pc'[q] = "unborn" => \A i \in Slots : fd'[q][i] = Null
    <3>1. CASE q = p
      BY Zenon, <1>2, <1>6, <1>8, <3>1, Points DEF Called
    <3>2. CASE q # p
      BY Zenon, <1>4, <1>8, <3>2 DEF TableInv, Life
    <3> QED
      BY <3>1, <3>2
  <2> QED
    BY Zenon, <2>1 DEF Life
<1>11. Counted'
  <2>1. Cardinality(Calling(call, o)) \in Nat
    BY Zenon, Finite
  <2>2. Pending(call', leaked', o) = Pending(call, leaked, o)
    BY <1>6, <1>7, <2>1 DEF Called, Pending
  <2>3. \A x \in Desc : x # o => Pending(call', leaked', x) = Pending(call, leaked, x)
    BY Zenon, <1>6, <1>7 DEF Called, Pending
  <2> QED
    BY Zenon, <1>4, <2>2, <2>3 DEF TableInv, Counted
<1> QED
  BY Zenon, <1>9, <1>10, <1>11 DEF TableInv

----------------------------------------------------------------------------
(* Every step keeps the counts.                                             *)
LEMMA StepTable ==
  ASSUME TableInv, ReadInv, NEW p \in Proc, Step(p)
  PROVE  TableInv'
<1>1. CASE Clip(p)
  BY Zenon, <1>1, ClipEffect, MovesTable
<1>2. CASE FetchAdd(p)
  BY Zenon, <1>2, FetchEffect, MovesTable DEF Fetches
<1>3. CASE Lock(p) \/ CopyToTemp(p)
  BY Zenon, <1>3, PlaceEffect, MovesTable
<1>4. CASE CopyInPlace(p) \/ CopyFromTemp(p)
  <2>1. PICK o, k, d, there, n : Delivers(p, o, k, d, there, n)
    BY Zenon, <1>4, DeliverEffect
  <2> QED
    BY Zenon, <2>1, MovesTable DEF Delivers
<1>5. CASE CopyFault(p)
  BY Zenon, <1>5, FaultTable
<1>6. CASE Return(p)
  BY Zenon, <1>6, ReturnTable
<1> QED
  BY Zenon, <1>1, <1>2, <1>3, <1>4, <1>5, <1>6 DEF Step

(* Every step keeps the reference counts right.                             *)
LEMMA TableStep ==
  ASSUME TableInv, ReadInv, Next
  PROVE  TableInv'
<1>1. PICK p \in Proc :
        \/ \E node \in Nodes : open(p, node)
        \/ \E i \in Args : close(p, i) \/ dup(p, i)
        \/ \E i \in Slots : len(p, i)
        \/ pipe(p) \/ exit(p)
        \/ \E child \in Proc : fork(p, child)
        \/ \E i \in Args, n \in Counts : ReadCall(p, i, n, TRUE)
        \/ \E i \in Args, n \in Counts : p \in Unmapped /\ ReadCall(p, i, n, FALSE)
        \/ Step(p)
  BY Zenon DEF Next
<1>2. Args \subseteq Slots
  BY FilesAssumption DEF Slots
<1>3. ASSUME NEW node \in Nodes, open(p, node) PROVE TableInv'
  BY Zenon, <1>3, OpenTable
<1>4. ASSUME NEW i \in Args, close(p, i) PROVE TableInv'
  BY Zenon, <1>2, <1>4, CloseTable
<1>5. ASSUME NEW i \in Args, dup(p, i) PROVE TableInv'
  BY Zenon, <1>2, <1>5, DupTable
<1>6. ASSUME NEW i \in Slots, len(p, i) PROVE TableInv'
  BY Zenon, <1>6, FaultTo, ExitTable DEF len, User
<1>7. CASE exit(p)
  BY Zenon, <1>7, ExitTable DEF exit, User, faults
<1>8. CASE pipe(p)
  BY Zenon, <1>8, PipeTable
<1>9. ASSUME NEW child \in Proc, fork(p, child) PROVE TableInv'
  BY Zenon, <1>9, ForkTable
<1>10. ASSUME NEW i \in Args, NEW n \in Counts, NEW m \in BOOLEAN, ReadCall(p, i, n, m) PROVE TableInv'
  BY Zenon, <1>2, <1>10, ReadTable
<1>11. CASE Step(p)
  BY Zenon, <1>11, StepTable
<1>12. TRUE \in BOOLEAN /\ FALSE \in BOOLEAN
  OBVIOUS
<1> QED
  BY Zenon, <1>1, <1>3, <1>4, <1>5, <1>6, <1>7, <1>8, <1>9, <1>10, <1>11, <1>12

(* The three descriptors of the first process are different objects.        *)
LEMMA Standard == \E s \in [0 .. 2 -> Desc] : \A i, j \in 0 .. 2 : i # j => s[i] # s[j]
<1>1. ExistsBijection(1 .. Cardinality(Desc), Desc) /\ Cardinality(Desc) \in Nat
  BY FilesAssumption, FS_CardinalityType
<1>2. PICK b : b \in [1 .. Cardinality(Desc) -> Desc] /\ IsInjective(b)
  BY Zenon, <1>1 DEF ExistsBijection, Bijection, Injection
<1>3. \A i, j \in 1 .. Cardinality(Desc) : b[i] = b[j] => i = j
  BY Zenon, <1>2 DEF IsInjective
<1>4. \A i \in 0 .. 2 : i + 1 \in 1 .. Cardinality(Desc)
  BY <1>1, FilesAssumption
<1> DEFINE s == [i \in 0 .. 2 |-> b[i + 1]]
<1>5. s \in [0 .. 2 -> Desc]
  BY <1>2, <1>4
<1>6. \A i, j \in 0 .. 2 : i # j => s[i] # s[j]
  BY <1>3, <1>4
<1> QED
  BY Zenon, <1>5, <1>6

(* The first process starts with three descriptors of the terminal.         *)
LEMMA InitEffect ==
  ASSUME Init
  PROVE  \E s \in [0 .. 2 -> Desc] :
           /\ \A i, j \in 0 .. 2 : i # j => s[i] # s[j]
           /\ desc = [o \in Desc |-> IF o = s[0] THEN OfTerminal(FALSE)
                                     ELSE IF o \in {s[1], s[2]} THEN OfTerminal(TRUE) ELSE Null]
           /\ ref_count = [o \in Desc |-> IF o \in {s[0], s[1], s[2]} THEN 1 ELSE 0]
           /\ fd = [p \in Proc |-> [i \in Slots |->
                      IF p = FirstProc /\ i \in 0 .. 2 THEN s[i] ELSE Null]]
           /\ pc = [p \in Proc |-> IF p = FirstProc THEN "user" ELSE "unborn"]
           /\ call = [p \in Proc |-> NoCall] /\ leaked = [o \in Desc |-> 0]
<1> DEFINE s == CHOOSE t \in [0 .. 2 -> Desc] : \A i, j \in 0 .. 2 : i # j => t[i] # t[j]
<1>1. s \in [0 .. 2 -> Desc] /\ \A i, j \in 0 .. 2 : i # j => s[i] # s[j]
  BY Zenon, Standard
<1> QED
  BY Zenon, <1>1 DEF Init

(* Those are counted once each.                                             *)
LEMMA TableInit ==
  ASSUME Init
  PROVE  TableInv
<1>1. PICK s \in [0 .. 2 -> Desc] :
           /\ \A i, j \in 0 .. 2 : i # j => s[i] # s[j]
           /\ desc = [o \in Desc |-> IF o = s[0] THEN OfTerminal(FALSE)
                                     ELSE IF o \in {s[1], s[2]} THEN OfTerminal(TRUE) ELSE Null]
           /\ ref_count = [o \in Desc |-> IF o \in {s[0], s[1], s[2]} THEN 1 ELSE 0]
           /\ fd = [p \in Proc |-> [i \in Slots |->
                      IF p = FirstProc /\ i \in 0 .. 2 THEN s[i] ELSE Null]]
           /\ pc = [p \in Proc |-> IF p = FirstProc THEN "user" ELSE "unborn"]
           /\ call = [p \in Proc |-> NoCall] /\ leaked = [o \in Desc |-> 0]
  BY Zenon, InitEffect
<1>2. 0 .. 2 \subseteq Slots /\ 0 .. 2 = {0, 1, 2} /\ FirstProc \in Proc
  BY FilesAssumption DEF Slots
<1>3. /\ fd \in Tables
      /\ \A p \in Proc, i \in Slots : fd[p][i] = IF p = FirstProc /\ i \in 0 .. 2 THEN s[i] ELSE Null
  BY <1>1, <1>2 DEF Tables
<1>4. /\ desc \in [Desc -> Descriptors \cup {Null}]
      /\ \A o \in Desc : desc[o] = Null <=> o \notin {s[0], s[1], s[2]}
  <2>1. OfTerminal(TRUE) \in Descriptors /\ OfTerminal(FALSE) \in Descriptors /\ Null \notin Descriptors
    BY Zenon, Basics
  <2> QED
    BY Zenon, <1>1, <2>1
<1>5. TypeOK
  <2>1. ref_count \in [Desc -> Nat]
    BY <1>1
  <2>2. pc \in [Proc -> {"unborn", "user", "exited"} \cup Reading]
    BY <1>1
  <2>3. call \in [Proc -> Calls]
    BY Zenon, <1>1, Basics
  <2>4. leaked \in [Desc -> Nat]
    BY <1>1
  <2> QED
    BY Zenon, <1>3, <1>4, <2>1, <2>2, <2>3, <2>4 DEF TypeOK
<1>6. Life
  <2>1. ASSUME NEW p \in Proc
        PROVE  /\ call[p] = NoCall /\ pc[p] \in {"unborn", "user"}
               /\ pc[p] = "unborn" => p # FirstProc
    BY <1>1
  <2> QED
    BY Zenon, <1>3, <2>1, Points, Basics DEF Life
<1>7. ASSUME NEW o \in Desc
      PROVE  /\ Pending(call, leaked, o) = 0
             /\ o \in {s[0], s[1], s[2]} => Cardinality(Holding(fd, o)) = 1
             /\ o \notin {s[0], s[1], s[2]} => Cardinality(Holding(fd, o)) = 0
  <2>1. o # Null
    BY Zenon, Basics
  <2>2. Calling(call, o) = {}
    BY Zenon, <1>1, <2>1, Basics DEF Calling
  <2>6. Pending(call, leaked, o) = 0
    <3>1. Cardinality(Calling(call, o)) = 0
      BY Zenon, <2>2, FS_EmptySet
    <3> QED
      BY <1>1, <3>1 DEF Pending
  <2>3. ASSUME NEW i \in 0 .. 2, o = s[i] PROVE Cardinality(Holding(fd, o)) = 1
    <3>1. Holding(fd, o) = {<<FirstProc, i>>}
      BY <1>1, <1>2, <1>3, <2>1, <2>3 DEF Holding
    <3> QED
      BY Zenon, <3>1, FS_Singleton
  <2>4. o \in {s[0], s[1], s[2]} => \E i \in 0 .. 2 : o = s[i]
    BY Zenon, <1>2
  <2>5. ASSUME o \notin {s[0], s[1], s[2]} PROVE Cardinality(Holding(fd, o)) = 0
    <3>1. Holding(fd, o) = {}
      BY <1>2, <1>3, <2>1, <2>5 DEF Holding
    <3> QED
      BY Zenon, <3>1, FS_EmptySet
  <2> QED
    BY Zenon, <2>3, <2>4, <2>5, <2>6
<1>8. Counted
  <2>1. ASSUME NEW o \in Desc
        PROVE  /\ ref_count[o] = Cardinality(Holding(fd, o)) + Pending(call, leaked, o)
               /\ ref_count[o] = 0 <=> o \notin {s[0], s[1], s[2]}
    <3>1. ref_count[o] = IF o \in {s[0], s[1], s[2]} THEN 1 ELSE 0
      BY <1>1
    <3> QED
      BY <1>7, <3>1
  <2> QED
    BY Zenon, <1>4, <2>1 DEF Counted
<1> QED
  BY Zenon, <1>5, <1>6, <1>8 DEF TableInv

----------------------------------------------------------------------------
(* What a step must show of the calls and of the offsets.                   *)

(* A step on the tables: descriptors keep their offset or are new, and a    *)
(* process comes to use one only by making it, or by a fork.                *)
Kept(o) ==
  /\ desc[o] # Null
  /\ desc'[o].offset = desc[o].offset /\ desc'[o].seen = desc[o].seen
  /\ desc'[o].overshot = desc[o].overshot /\ desc'[o].again = desc[o].again
  /\ desc[o].forked => desc'[o].forked
Fresh(o) ==
  /\ desc[o] = Null
  /\ desc'[o].offset = 0 /\ desc'[o].seen = {}
  /\ ~desc'[o].overshot /\ ~desc'[o].again
TableMove(p) ==
  /\ \A q \in Proc : q # p /\ pc'[q] \in Reading => pc[q] = pc'[q] /\ call'[q] = call[q]
  /\ pc'[p] \notin Copying
  /\ pc'[p] \in Reading => CallOK(p)'
  /\ \A o \in Desc : desc'[o] # Null => Kept(o) \/ Fresh(o)
  /\ \A o \in Desc, q \in Proc :
       Uses(q, o)' => Uses(q, o) \/ (q = p /\ desc[o] = Null) \/ desc'[o].forked

(* A descriptor that is used is there.                                      *)
LEMMA Used ==
  ASSUME TableInv, NEW p \in Proc, NEW o \in Desc, Uses(p, o)
  PROVE  desc[o] \in Descriptors /\ desc[o] # Null
BY Zenon, InUse, Basics DEF Uses

(* What a process uses has not been deleted.                                *)
LEMMA UsedThere == TableInv => \A p \in Proc, o \in Desc : Uses(p, o) => desc[o] # Null
BY Zenon, Used

(* Nor has it in the next state.                                            *)
LEMMA UsedNext == TableInv' => \A p \in Proc, o \in Desc : Uses(p, o)' => desc'[o] # Null
<1>1. (TableInv => \A p \in Proc, o \in Desc : Uses(p, o) => desc[o] # Null)'
  BY UsedThere, PTL
<1> QED
  BY Zenon, <1>1

(* A step on the tables disturbs no call of read.                           *)
LEMMA TableMoveRead ==
  ASSUME TableInv, TableInv', ReadInv, NEW p \in Proc, TableMove(p)
  PROVE  ReadInv'
<1>1. Offsets'
  <2>1. ASSUME NEW o \in Desc, desc'[o] # Null
        PROVE  InFile(desc'[o])
    <3>1. CASE Kept(o)
      BY Zenon, <3>1 DEF Kept, ReadInv, Offsets, InFile
    <3>2. CASE Fresh(o)
      <4>1. 0 <= FileSize
        BY FilesAssumption
      <4> QED
        BY Zenon, <3>2, <4>1 DEF Fresh, InFile
    <3> QED
      BY Zenon, <2>1, <3>1, <3>2 DEF TableMove
  <2> QED
    BY Zenon, <2>1 DEF Offsets
<1>2. ASSUME NEW q \in Proc, q # p, pc'[q] \in Reading
      PROVE  /\ pc[q] = pc'[q] /\ call'[q] = call[q] /\ call[q].desc \in Desc
             /\ Kept(call[q].desc)
  <2>1. pc[q] = pc'[q] /\ call'[q] = call[q]
    BY Zenon, <1>2 DEF TableMove
  <2>2. call[q].desc \in Desc
    BY Zenon, <1>2, <2>1 DEF TableInv, Life
  <2>3. desc[call[q].desc] # Null
    BY Zenon, <2>2, Used DEF Uses
  <2>4. desc'[call[q].desc] # Null
    <3>1. PICK o \in Desc : o = call[q].desc
      BY Zenon, <2>2
    <3>2. Uses(q, o)'
      BY Zenon, <2>1, <3>1 DEF Uses
    <3> QED
      BY Zenon, <3>1, <3>2, UsedNext
  <2> QED
    BY Zenon, <2>1, <2>2, <2>3, <2>4 DEF TableMove, Fresh
<1>3. ASSUME NEW q \in Proc, pc'[q] \in Reading
      PROVE  CallOK(q)'
  <2>1. CASE q = p
    BY Zenon, <1>3, <2>1 DEF TableMove
  <2>2. CASE q # p
    <3>1. /\ pc[q] = pc'[q] /\ call'[q] = call[q] /\ Kept(call[q].desc)
          /\ Fits(pc[q], call[q], desc[call[q].desc])
      BY Zenon, <1>2, <1>3, <2>2 DEF ReadInv, CallOK
    <3> QED
      BY Zenon, <3>1 DEF Fits, CallOK, Kept
  <2> QED
    BY <2>1, <2>2
<1>4. Disjoint'
  <2>1. ASSUME NEW q \in Proc, NEW r \in Proc, q # r, pc'[q] \in Copying, pc'[r] \in Copying,
               call'[q].desc = call'[r].desc, ~desc'[call'[q].desc].overshot
        PROVE  Rest(call'[q]) \cap Rest(call'[r]) = {}
    <3>1. q # p /\ r # p /\ pc'[q] \in Reading /\ pc'[r] \in Reading
      BY Zenon, <2>1 DEF TableMove, Reading
    <3>2. /\ pc[q] = pc'[q] /\ call'[q] = call[q] /\ Kept(call[q].desc)
          /\ pc[r] = pc'[r] /\ call'[r] = call[r]
      BY Zenon, <1>2, <3>1
    <3> QED
      BY Zenon, <2>1, <3>2 DEF ReadInv, Disjoint, Kept
  <2> QED
    BY Zenon, <2>1 DEF Disjoint
<1>5. Sole'
  <2>1. ASSUME NEW o \in Desc, NEW q \in Proc, NEW r \in Proc, q # r, r # p, Uses(q, o)', Uses(r, o)'
        PROVE  desc'[o].forked
    <3>1. SUFFICES ASSUME ~desc'[o].forked PROVE FALSE
      OBVIOUS
    <3>2. Uses(r, o)
      BY Zenon, <2>1, <3>1 DEF TableMove
    <3>3. desc[o] # Null
      BY Zenon, <3>2, Used
    <3>4. Uses(q, o)
      BY Zenon, <2>1, <3>1, <3>3 DEF TableMove
    <3>5. desc[o].forked
      BY Zenon, <2>1, <3>2, <3>4 DEF ReadInv, Sole
    <3>6. desc'[o] # Null
      BY Zenon, <2>1, UsedNext
    <3> QED
      BY Zenon, <3>1, <3>3, <3>5, <3>6 DEF TableMove, Kept, Fresh
  <2> QED
    BY Zenon, <2>1 DEF Sole
<1> QED
  BY Zenon, <1>1, <1>3, <1>4, <1>5 DEF ReadInv

(* A step of a call in progress: its descriptor is d afterwards, its locals *)
(* are k, and what other calls know of the descriptor is still true.        *)
Undisturbed(p, o, k, d, there) ==
  \A q \in Proc : q # p /\ pc[q] \in Reading /\ call[q].desc = o =>
    /\ Fits(pc[q], call[q], d)
    /\ pc[q] \in Copying /\ there \in Copying /\ ~d.overshot => Rest(call[q]) \cap Rest(k) = {}

(* A step of one call of read keeps ReadInv, when it fits its descriptor    *)
(* and disturbs no other call.                                              *)
LEMMA MovesRead ==
  ASSUME TableInv, ReadInv, NEW p \in Proc, NEW o, NEW k, NEW d, NEW there,
         Moves(p, o, k, d, there), InFile(d), d.forked <=> desc[o].forked,
         desc[o].overshot => d.overshot,
         there \in Reading => Fits(there, k, d), Undisturbed(p, o, k, d, there)
  PROVE  ReadInv'
<1>1. /\ o \in Desc /\ desc'[o] = d /\ \A x \in Desc \ {o} : desc'[x] = desc[x]
      /\ call'[p] = k /\ k.desc = o /\ call[p].desc = o /\ pc'[p] = there
      /\ \A q \in Proc \ {p} : call'[q] = call[q] /\ pc'[q] = pc[q]
      /\ fd' = fd
  BY Zenon DEF Moves, TableInv, TypeOK
<1>2. Offsets'
  BY Zenon, <1>1 DEF Offsets, ReadInv
<1>3. Sole'
  <2>1. \A q \in Proc, x \in Desc : Uses(q, x)' => Uses(q, x)
    BY Zenon, <1>1 DEF Uses
  <2>2. \A x \in Desc : desc'[x].forked <=> desc[x].forked
    BY Zenon, <1>1
  <2> QED
    BY Zenon, <2>1, <2>2 DEF ReadInv, Sole
<1>4. \A q \in Proc : pc[q] \in Reading => call[q].desc \in Desc
  BY Zenon DEF TableInv, Life
<1>5. ASSUME NEW q \in Proc, pc'[q] \in Reading PROVE CallOK(q)'
  <2>1. CASE q = p
    BY Zenon, <1>1, <1>5, <2>1 DEF CallOK
  <2>2. CASE q # p /\ call[q].desc = o
    BY Zenon, <1>1, <1>5, <2>2 DEF CallOK, Undisturbed
  <2>3. CASE q # p /\ call[q].desc # o
    <3>1. pc'[q] = pc[q] /\ call'[q] = call[q] /\ desc'[call[q].desc] = desc[call[q].desc]
      BY Zenon, <1>1, <1>4, <1>5, <2>3
    <3>2. CallOK(q)
      BY Zenon, <1>5, <3>1 DEF ReadInv
    <3> QED
      BY Zenon, <3>1, <3>2 DEF CallOK
  <2> QED
    BY Zenon, <2>1, <2>2, <2>3
<1>6. Disjoint'
  <2>1. Copying \subseteq Reading
    BY Zenon DEF Reading
  <2>2. ASSUME NEW q \in Proc, NEW r \in Proc, q # r, q # p, pc'[q] \in Copying, pc'[r] \in Copying,
               call'[q].desc = call'[r].desc, ~desc'[call'[q].desc].overshot
        PROVE  Rest(call'[q]) \cap Rest(call'[r]) = {}
    <3>1. pc[q] = pc'[q] /\ call'[q] = call[q] /\ call[q].desc \in Desc
      BY Zenon, <1>1, <1>4, <2>1, <2>2
    <3>2. CASE r = p
      <4>1. call[q].desc = o /\ there \in Copying /\ ~d.overshot /\ call'[r] = k
        BY Zenon, <1>1, <2>2, <3>1, <3>2
      <4> QED
        BY Zenon, <2>1, <2>2, <3>1, <4>1 DEF Undisturbed
    <3>3. CASE r # p /\ call[q].desc # o
      BY Zenon, <1>1, <2>2, <3>1, <3>3 DEF ReadInv, Disjoint
    <3>4. CASE r # p /\ call[q].desc = o
      <4>1. pc[r] = pc'[r] /\ call'[r] = call[r] /\ call[r].desc = o /\ ~d.overshot
        BY Zenon, <1>1, <2>2, <3>1, <3>4
      <4>2. ~desc[o].overshot
        BY Zenon, <4>1
      <4> QED
        BY Zenon, <2>2, <3>1, <3>4, <4>1, <4>2 DEF ReadInv, Disjoint
    <3> QED
      BY Zenon, <3>2, <3>3, <3>4
  <2>3. \A A, B : A \cap B = {} <=> B \cap A = {}
    BY Zenon
  <2> QED
    BY Zenon, <2>2, <2>3 DEF Disjoint
<1> QED
  BY Zenon, <1>2, <1>3, <1>5, <1>6 DEF ReadInv

(* The count is cut to what is left of the file.                            *)
LEMMA ClipRead ==
  ASSUME TableInv, ReadInv, NEW p \in Proc, Clip(p)
  PROVE  ReadInv'
<1>1. PICK o, k :
        /\ Moves(p, o, k, desc[o], "add") /\ pc[p] = "clip"
        /\ k.asked = call[p].asked /\ k.total = call[p].total
        /\ k.count = Minus(FileSize, desc[o].offset)
  BY Zenon, ClipEffect
<1>2. PICK d : d = desc[o]
  OBVIOUS
<1>3. PICK c : c = call[p]
  OBVIOUS
<1>4. /\ d \in Descriptors /\ o \in Desc /\ c \in Calls /\ k \in Calls /\ c.desc = o /\ pc[p] \in Reading
  BY Zenon, <1>1, <1>2, <1>3 DEF Moves, TableInv, TypeOK
<1>5. InFile(d) /\ Fits("clip", c, d)
  BY Zenon, <1>1, <1>2, <1>3, <1>4, Basics DEF ReadInv, Offsets, CallOK
<1>6. ~d.overshot => k.count = FileSize - d.offset
  <2>1. ~d.overshot => FileSize - d.offset \in 0 .. W - 1
    BY <1>4, <1>5, FilesAssumption DEF InFile, Descriptors
  <2>2. FileSize - d.offset \in Int
    BY <1>4, FilesAssumption DEF Descriptors
  <2> QED
    BY Zenon, <1>1, <1>2, <2>1, <2>2, ModFacts DEF Minus
<1>7. Fits("add", k, d)
  <2>1. k.total = 0 /\ k.asked = c.count /\ (~d.overshot => c.count > FileSize - d.offset)
    BY Zenon, <1>1, <1>3, <1>5 DEF Fits
  <2>2. ~d.overshot => k.count <= k.asked
    BY <1>4, <1>6, <2>1, FilesAssumption DEF Calls, Descriptors
  <2>3. ~d.forked => d.offset + k.count <= FileSize
    BY <1>4, <1>5, <1>6, FilesAssumption DEF Calls, Descriptors, InFile
  <2>4. "add" # "clip" /\ "add" # "return" /\ "add" \notin Copying
    BY DEF Copying
  <2> QED
    BY Zenon, <2>1, <2>2, <2>3, <2>4 DEF Fits
<1>8. Undisturbed(p, o, k, d, "add")
  <2>1. "add" \notin Copying
    BY DEF Copying
  <2> QED
    BY Zenon, <1>2, <2>1 DEF Undisturbed, ReadInv, CallOK
<1> QED
  BY Zenon, <1>1, <1>2, <1>5, <1>7, <1>8, MovesRead

(* Taking the drive, and the copy to the buffer in the kernel.              *)
LEMMA PlaceRead ==
  ASSUME TableInv, ReadInv, NEW p \in Proc, Lock(p) \/ CopyToTemp(p)
  PROVE  ReadInv'
<1>1. PICK o, there :
        Moves(p, o, call[p], desc[o], there) /\ pc[p] \in Copying /\ there \in Copying
  BY Zenon, PlaceEffect
<1>2. desc[o] \in Descriptors /\ o \in Desc /\ call[p].desc = o /\ pc[p] \in Reading
  BY Zenon, <1>1 DEF Moves
<1>3. InFile(desc[o]) /\ Fits(pc[p], call[p], desc[o])
  BY Zenon, <1>1, <1>2, Basics DEF ReadInv, Offsets, CallOK
<1>4. Fits(there, call[p], desc[o])
  <2>1. there # "clip" /\ there # "add" /\ there # "return"
    BY <1>1 DEF Copying
  <2> QED
    BY Zenon, <1>1, <1>3, <2>1 DEF Fits
<1>5. Undisturbed(p, o, call[p], desc[o], there)
  BY Zenon, <1>1, <1>2 DEF Undisturbed, ReadInv, CallOK, Disjoint
<1> QED
  BY Zenon, <1>1, <1>3, <1>4, <1>5, MovesRead

(* What fetch_add does to a call that looked before: its answer is out of   *)
(* date, but only because the descriptor is shared.                         *)
LEMMA FetchOthers ==
  ASSUME NEW c \in Calls, NEW d \in Descriptors, NEW e \in Descriptors, NEW n \in Nat, NEW at,
         Fits(at, c, d), InFile(d), d.forked, e.forked,
         e.offset = (d.offset + n) % W,
         e.overshot <=> d.overshot \/ d.offset + n > FileSize,
         e.seen = IF d.offset + n > FileSize THEN {} ELSE d.seen
  PROVE  Fits(at, c, e)
<1>1. CASE e.overshot
  BY Zenon, <1>1 DEF Fits
<1>2. CASE ~e.overshot
  <2>1. d.offset \in Nat /\ e.offset \in Nat /\ c.count \in Nat /\ c.pos \in Nat /\ FileSize \in Nat
    BY FilesAssumption DEF Descriptors, Calls
  <2>2. ~d.overshot /\ d.offset + n <= FileSize
    BY <1>2, <2>1
  <2>3. e.offset = d.offset + n
    <3>1. d.offset + n \in Int /\ d.offset + n \in 0 .. W - 1
      BY <2>1, <2>2, FilesAssumption
    <3> QED
      BY Zenon, <3>1, ModFacts
  <2>4. e.seen = d.seen
    BY <2>1, <2>2
  <2>5. c.count > FileSize - d.offset => c.count > FileSize - e.offset
    BY <2>1, <2>3
  <2>6. c.pos + c.count <= d.offset => c.pos + c.count <= e.offset
    BY <2>1, <2>3
  <2> QED
    BY Zenon, <2>2, <2>4, <2>5, <2>6 DEF Fits
<1> QED
  BY Zenon, <1>1, <1>2

(* The range that fetch_add gives to the caller is before the new offset    *)
(* and after everything that was given out before.                          *)
LEMMA FetchOwn ==
  ASSUME NEW k \in Calls, NEW d \in Descriptors, NEW e \in Descriptors,
         NEW there \in {"lock", "return"}, there = "lock" => Chunk(k) > 0,
         InFile(d), k.pos = d.offset, k.total = 0, ~d.overshot => k.count <= k.asked,
         ~d.forked => d.offset + k.count <= FileSize,
         e.offset = (k.pos + k.count) % W,
         e.overshot <=> d.overshot \/ k.pos + k.count > FileSize,
         e.seen = IF k.pos + k.count > FileSize THEN {} ELSE d.seen,
         e.again <=> d.again, e.forked <=> d.forked
  PROVE  InFile(e) /\ Fits(there, k, e)
<1>1. d.offset \in Nat /\ k.count \in Nat /\ k.pos \in Nat /\ k.asked \in Nat /\ FileSize \in Nat
  BY FilesAssumption DEF Descriptors, Calls
<1>2. e.overshot => e.forked
  BY <1>1 DEF InFile
<1>3. e.again => e.overshot
  BY DEF InFile
<1>4. "lock" \in Copying /\ there # "clip" /\ there # "add" /\ (there \in Copying => there = "lock")
  BY DEF Copying
<1>5. CASE e.overshot
  BY Zenon, <1>2, <1>3, <1>4, <1>5 DEF InFile, Fits
<1>6. CASE ~e.overshot
  <2>1. ~d.overshot /\ k.pos + k.count <= FileSize /\ k.pos + k.count \in 0 .. W - 1
          /\ k.pos + k.count \in Int
    BY <1>1, <1>6, FilesAssumption
  <2>2. e.offset = k.pos + k.count /\ e.offset <= FileSize
    <3>1. (k.pos + k.count) % W = k.pos + k.count
      BY Zenon, <2>1, ModFacts
    <3> QED
      BY Zenon, <2>1, <3>1
  <2>3. e.seen = d.seen /\ d.seen \subseteq 0 .. d.offset - 1
    BY <1>1, <2>1 DEF InFile
  <2>4. e.seen \subseteq 0 .. e.offset - 1
    BY <1>1, <2>2, <2>3
  <2>5. e.seen \cap Rest(k) = {}
    BY <1>1, <2>3 DEF Rest
  <2>6. k.total + k.count <= k.asked /\ k.pos + k.count <= e.offset /\ k.total <= k.asked
    BY <1>1, <2>1, <2>2
  <2> QED
    BY Zenon, <1>2, <1>3, <1>4, <1>6, <2>2, <2>4, <2>5, <2>6 DEF InFile, Fits
<1> QED
  BY Zenon, <1>5, <1>6

(* fetch_add: the range it hands out is behind all that were handed out     *)
(* before.                                                                  *)
LEMMA FetchRead ==
  ASSUME TableInv, ReadInv, NEW p \in Proc, FetchAdd(p)
  PROVE  ReadInv'
<1>1. PICK o, k, e, there : Fetches(p, o, k, e, there)
  BY Zenon, FetchEffect
<1>2. PICK d : d = desc[o]
  OBVIOUS
<1>3. /\ Moves(p, o, k, e, there) /\ pc[p] = "add" /\ there \in {"lock", "return"}
      /\ there = "lock" => Chunk(k) > 0
      /\ k.asked = call[p].asked /\ k.total = call[p].total /\ k.count = call[p].count
      /\ k.pos = d.offset /\ e.offset = (k.pos + k.count) % W
      /\ e.overshot <=> d.overshot \/ k.pos + k.count > FileSize
      /\ e.seen = IF k.pos + k.count > FileSize THEN {} ELSE d.seen
      /\ (e.again <=> d.again) /\ (e.forked <=> d.forked)
  BY Zenon, <1>1, <1>2 DEF Fetches
<1>4. /\ d \in Descriptors /\ e \in Descriptors /\ o \in Desc /\ k \in Calls
      /\ call[p].desc = o /\ pc[p] \in Reading
  BY Zenon, <1>2, <1>3 DEF Moves
<1>5. InFile(d) /\ Fits("add", call[p], d)
  BY Zenon, <1>2, <1>3, <1>4, Basics DEF ReadInv, Offsets, CallOK
<1>6. k.total = 0 /\ (~d.overshot => k.count <= k.asked) /\ (~d.forked => d.offset + k.count <= FileSize)
  BY Zenon, <1>3, <1>5 DEF Fits
<1>7. InFile(e) /\ Fits(there, k, e)
  BY Zenon, <1>3, <1>4, <1>5, <1>6, FetchOwn
<1>8. Undisturbed(p, o, k, e, there)
  <2>1. ASSUME NEW q \in Proc, q # p, pc[q] \in Reading, call[q].desc = o
        PROVE  /\ Fits(pc[q], call[q], e)
               /\ pc[q] \in Copying /\ ~e.overshot => Rest(call[q]) \cap Rest(k) = {}
    <3>1. call[q] \in Calls /\ Fits(pc[q], call[q], d)
      BY Zenon, <1>2, <2>1, CallFacts DEF ReadInv, CallOK
    <3>2. d.forked /\ e.forked
      BY Zenon, <1>2, <1>3, <1>4, <2>1 DEF ReadInv, Sole, Uses
    <3>3. k.count \in Nat
      BY <1>4 DEF Calls
    <3>4. Fits(pc[q], call[q], e)
      BY Zenon, <1>3, <1>4, <1>5, <3>1, <3>2, <3>3, FetchOthers
    <3>5. pc[q] \in Copying /\ ~e.overshot => call[q].pos + call[q].count <= d.offset
      BY Zenon, <1>3, <3>1 DEF Fits
    <3>6. call[q].pos + call[q].count <= d.offset => Rest(call[q]) \cap Rest(k) = {}
      BY <1>3, <1>4, <3>1 DEF Rest, Calls, Descriptors
    <3> QED
      BY Zenon, <3>4, <3>5, <3>6
  <2> QED
    BY Zenon, <2>1 DEF Undisturbed
<1> QED
  BY Zenon, <1>2, <1>3, <1>7, <1>8, MovesRead

(* Delivering keeps the ranges apart, and delivers no byte again.           *)
LEMMA DeliverOwn ==
  ASSUME NEW c \in Calls, NEW k \in Calls, NEW d \in Descriptors, NEW e \in Descriptors, NEW n \in Nat,
         NEW there \in {"lock", "return"}, there = "lock" => Chunk(k) > 0,
         InFile(d), n <= c.count,
         ~d.overshot => /\ c.total + c.count <= c.asked
                        /\ c.pos + c.count <= d.offset
                        /\ d.seen \cap Rest(c) = {},
         k.asked = c.asked, k.total = c.total + n, k.count = c.count - n, k.pos = c.pos + n,
         e.offset = d.offset, e.overshot <=> d.overshot,
         e.seen = IF d.overshot THEN {} ELSE d.seen \cup (c.pos .. c.pos + n - 1),
         e.again <=> d.again \/ (c.pos .. c.pos + n - 1) \cap d.seen # {},
         e.forked <=> d.forked
  PROVE  InFile(e) /\ Fits(there, k, e)
<1>1. /\ c.count \in Nat /\ c.pos \in Nat /\ c.asked \in Nat /\ c.total \in Nat
      /\ d.offset \in Nat /\ FileSize \in Nat
  BY FilesAssumption DEF Descriptors, Calls
<1>2. "lock" \in Copying /\ there # "clip" /\ there # "add" /\ (there \in Copying => there = "lock")
  BY DEF Copying
<1>3. CASE e.overshot
  BY Zenon, <1>2, <1>3 DEF InFile, Fits
<1>4. CASE ~e.overshot
  <2>1. /\ c.total + c.count <= c.asked /\ c.pos + c.count <= d.offset /\ d.seen \cap Rest(c) = {}
        /\ e.seen = d.seen \cup (c.pos .. c.pos + n - 1) /\ ~d.again
        /\ d.offset <= FileSize /\ d.seen \subseteq 0 .. d.offset - 1
    BY Zenon, <1>4 DEF InFile
  <2>2. (c.pos .. c.pos + n - 1) \cap d.seen = {}
    BY <1>1, <2>1 DEF Rest
  <2>3. ~e.again
    BY Zenon, <2>1, <2>2
  <2>4. e.seen \subseteq 0 .. e.offset - 1 /\ e.offset <= FileSize
    BY <1>1, <2>1
  <2>5. e.seen \cap Rest(k) = {}
    <3>1. \A x \in Rest(k) : x \in Int /\ x >= c.pos + n /\ x < c.pos + c.count
      BY <1>1 DEF Rest
    <3>2. \A x \in Rest(k) : x \in Rest(c) /\ x \notin c.pos .. c.pos + n - 1
      BY <1>1, <3>1 DEF Rest
    <3> QED
      BY Zenon, <2>1, <3>2
  <2>6. k.total + k.count <= k.asked /\ k.pos + k.count <= e.offset /\ k.total <= k.asked
    BY <1>1, <2>1
  <2> QED
    BY Zenon, <1>2, <1>4, <2>3, <2>4, <2>5, <2>6 DEF InFile, Fits
<1> QED
  BY Zenon, <1>3, <1>4

(* Delivered bytes were in the call's range and in no other's.              *)
LEMMA DeliverRead ==
  ASSUME TableInv, ReadInv, NEW p \in Proc, CopyInPlace(p) \/ CopyFromTemp(p)
  PROVE  ReadInv'
<1>1. PICK o, k, e, there, n : Delivers(p, o, k, e, there, n)
  BY Zenon, DeliverEffect
<1>2. PICK d : d = desc[o]
  OBVIOUS
<1>3. PICK c : c = call[p]
  OBVIOUS
<1>4. /\ Moves(p, o, k, e, there) /\ pc[p] \in Copying /\ there \in {"lock", "return"}
      /\ there = "lock" => Chunk(k) > 0
      /\ n \in Nat /\ n <= c.count
      /\ k.asked = c.asked /\ k.total = c.total + n /\ k.count = c.count - n /\ k.pos = c.pos + n
      /\ e.offset = d.offset /\ (e.overshot <=> d.overshot)
      /\ e.seen = IF d.overshot THEN {} ELSE d.seen \cup (c.pos .. c.pos + n - 1)
      /\ e.again <=> d.again \/ (c.pos .. c.pos + n - 1) \cap d.seen # {}
      /\ e.forked <=> d.forked
  BY Zenon, <1>1, <1>2, <1>3 DEF Delivers
<1>5. /\ d \in Descriptors /\ e \in Descriptors /\ o \in Desc /\ k \in Calls
      /\ c.desc = o /\ pc[p] \in Reading /\ c \in Calls
  BY Zenon, <1>2, <1>3, <1>4, CallFacts DEF Moves
<1>6. InFile(d) /\ Fits(pc[p], c, d)
  BY Zenon, <1>2, <1>3, <1>5, Basics DEF ReadInv, Offsets, CallOK
<1>7. ~d.overshot => /\ c.total + c.count <= c.asked
                     /\ c.pos + c.count <= d.offset
                     /\ d.seen \cap Rest(c) = {}
  BY Zenon, <1>4, <1>6 DEF Fits
<1>8. InFile(e) /\ Fits(there, k, e)
  BY Zenon, <1>4, <1>5, <1>6, <1>7, DeliverOwn
<1>9. Undisturbed(p, o, k, e, there)
  <2>1. /\ Rest(k) \subseteq Rest(c) /\ c.pos .. c.pos + n - 1 \subseteq Rest(c)
    BY <1>4, <1>5 DEF Rest, Calls
  <2>2. ASSUME NEW q \in Proc, q # p, pc[q] \in Reading, call[q].desc = o
        PROVE  /\ Fits(pc[q], call[q], e)
               /\ pc[q] \in Copying /\ ~e.overshot => Rest(call[q]) \cap Rest(k) = {}
    <3>1. Fits(pc[q], call[q], d)
      BY Zenon, <1>2, <2>2 DEF ReadInv, CallOK
    <3>2. pc[q] \in Copying /\ ~d.overshot => Rest(call[q]) \cap Rest(c) = {}
      BY Zenon, <1>2, <1>3, <1>4, <1>5, <2>2 DEF ReadInv, Disjoint
    <3>3. pc[q] \in Copying /\ ~d.overshot => e.seen \cap Rest(call[q]) = {}
      BY Zenon, <1>4, <2>1, <3>1, <3>2 DEF Fits
    <3>4. Fits(pc[q], call[q], e)
      BY Zenon, <1>4, <3>1, <3>3 DEF Fits
    <3> QED
      BY Zenon, <1>4, <2>1, <3>2, <3>4
  <2> QED
    BY Zenon, <2>2 DEF Undisturbed
<1> QED
  BY Zenon, <1>2, <1>4, <1>8, <1>9, MovesRead

(* The steps on the tables.                                                 *)
New(d) == d.offset = 0 /\ d.seen = {} /\ ~d.overshot /\ ~d.again

(* A new descriptor has delivered nothing.                                  *)
LEMMA NewDescriptor ==
  /\ \A node : New(OfNode(node))
  /\ \A r, w : New(OfPipe(r, w))
  /\ \A w : New(OfTerminal(w))
BY DEF OfNode, OfPipe, OfTerminal, Descriptor, New

(* A call that copies is a call of read.                                    *)
LEMMA CopyingReads == Copying \subseteq Reading /\ "user" \notin Copying /\ "exited" \notin Copying
BY DEF Copying, Reading

(* open: a new descriptor, and no call of read refers to it.                *)
LEMMA OpenMove ==
  ASSUME TableInv, NEW p \in Proc, NEW node \in Nodes, open(p, node)
  PROVE  TableMove(p)
<1>1. PICK o \in Unused : /\ desc' = [desc EXCEPT ![o] = OfNode(node)]
                          /\ fd' = [fd EXCEPT ![p][Lowest(FreeSlots(p))] = o]
  BY Zenon DEF open
<1>2. PICK i : i = Lowest(FreeSlots(p))
  OBVIOUS
<1>3. UNCHANGED <<pc, call, leaked>> /\ pc[p] = "user" /\ o \in Desc /\ desc[o] = Null
  BY Zenon, <1>1 DEF open, User, Unused, faults
<1>4. \A q \in Proc, j \in Slots : fd'[q][j] = o \/ fd'[q][j] = fd[q][j]
  BY <1>1, <1>2 DEF TableInv, TypeOK, Tables
<1>5. \A q \in Proc : q # p => fd'[q] = fd[q]
  BY <1>1, <1>2 DEF TableInv, TypeOK, Tables
<1>6. desc'[o] = OfNode(node) /\ \A x \in Desc \ {o} : desc'[x] = desc[x]
  BY Zenon, <1>1, <1>3 DEF TableInv, TypeOK
<1>7. \A x \in Desc : desc'[x] # Null => Kept(x) \/ Fresh(x)
  BY Zenon, <1>3, <1>6, NewDescriptor DEF Kept, Fresh, New
<1>8. \A x \in Desc, q \in Proc : Uses(q, x)' => Uses(q, x) \/ (q = p /\ desc[x] = Null)
  BY Zenon, <1>3, <1>4, <1>5 DEF Uses
<1> QED
  BY Zenon, <1>3, <1>7, <1>8, Points, CopyingReads DEF TableMove

(* close: the other references to the descriptor stay.                      *)
LEMMA CloseMove ==
  ASSUME TableInv, NEW p \in Proc, NEW i \in Slots, close(p, i)
  PROVE  TableMove(p)
<1>1. PICK o : o = fd[p][i]
  OBVIOUS
<1>2. /\ o # Null /\ ref_count' = Refs(ref_count, o, -1) /\ desc' = Deleted(desc, ref_count')
      /\ fd' = [fd EXCEPT ![p][i] = Null] /\ UNCHANGED <<pc, call, leaked>> /\ pc[p] = "user"
  BY Zenon, <1>1 DEF close, User, faults
<1>3. \A q \in Proc, j \in Slots : fd'[q][j] = Null \/ fd'[q][j] = fd[q][j]
  BY <1>2 DEF TableInv, TypeOK, Tables
<1>4. \A x \in Desc : desc'[x] # Null => desc'[x] = desc[x]
  BY Zenon, <1>2 DEF Deleted
<1>5. \A x \in Desc : desc'[x] # Null => Kept(x) \/ Fresh(x)
  BY Zenon, <1>4 DEF Kept
<1>6. \A x \in Desc, q \in Proc : Uses(q, x)' => Uses(q, x)
  BY Zenon, <1>2, <1>3, Basics DEF Uses
<1> QED
  BY Zenon, <1>2, <1>5, <1>6, Points, CopyingReads DEF TableMove

(* dup: a second slot of the same process.                                  *)
LEMMA DupMove ==
  ASSUME TableInv, NEW p \in Proc, NEW i \in Slots, dup(p, i)
  PROVE  TableMove(p)
<1>1. PICK o : o = fd[p][i]
  OBVIOUS
<1>2. PICK k : k = Lowest(FreeSlots(p))
  OBVIOUS
<1>3. /\ fd' = [fd EXCEPT ![p][k] = o] /\ UNCHANGED <<desc, pc, call, leaked>> /\ pc[p] = "user"
  BY Zenon, <1>1, <1>2 DEF dup, User, faults
<1>4. \A q \in Proc, j \in Slots : fd'[q][j] = o \/ fd'[q][j] = fd[q][j]
  BY <1>3 DEF TableInv, TypeOK, Tables
<1>5. \A q \in Proc : q # p => fd'[q] = fd[q]
  BY <1>3 DEF TableInv, TypeOK, Tables
<1>6. \A x \in Desc : desc'[x] # Null => Kept(x) \/ Fresh(x)
  BY Zenon, <1>3 DEF Kept
<1>7. ASSUME NEW x \in Desc, NEW q \in Proc, Uses(q, x)'
      PROVE  Uses(q, x)
  <2>1. CASE call[q].desc = x
    BY Zenon, <2>1 DEF Uses
  <2>2. CASE \E j \in Slots : fd'[q][j] = x
    BY Zenon, <1>1, <1>4, <1>5, <2>2 DEF Uses
  <2> QED
    BY Zenon, <1>3, <1>7, <2>1, <2>2 DEF Uses
<1> QED
  BY Zenon, <1>3, <1>6, <1>7, Points, CopyingReads DEF TableMove

(* pipe: two new descriptors, of no file.                                   *)
LEMMA PipeMove ==
  ASSUME TableInv, NEW p \in Proc, pipe(p)
  PROVE  TableMove(p)
<1>1. PICK w, r \in Slots, ow, or \in Desc :
        /\ w # r /\ ow # or
        /\ fd[p][w] = Null /\ fd[p][r] = Null /\ desc[ow] = Null /\ desc[or] = Null
        /\ desc' = [desc EXCEPT ![ow] = OfPipe(FALSE, TRUE), ![or] = OfPipe(TRUE, FALSE)]
        /\ ref_count' = Refs(Refs(ref_count, ow, 1), or, 1)
        /\ fd' = [fd EXCEPT ![p][w] = ow, ![p][r] = or]
        /\ UNCHANGED <<pc, call, leaked>> /\ pc[p] = "user"
  BY Zenon, PipeEffect
<1>2. \A q \in Proc, j \in Slots : fd'[q][j] \in {ow, or} \/ fd'[q][j] = fd[q][j]
  BY <1>1 DEF TableInv, TypeOK, Tables
<1>3. \A q \in Proc : q # p => fd'[q] = fd[q]
  BY <1>1 DEF TableInv, TypeOK, Tables
<1>4. /\ desc'[ow] = OfPipe(FALSE, TRUE) /\ desc'[or] = OfPipe(TRUE, FALSE)
      /\ \A x \in Desc \ {ow, or} : desc'[x] = desc[x]
  BY Zenon, <1>1 DEF TableInv, TypeOK
<1>5. \A x \in Desc : desc'[x] # Null => Kept(x) \/ Fresh(x)
  <2>1. \A x \in Desc \ {ow, or} : desc'[x] # Null => Kept(x)
    BY Zenon, <1>4 DEF Kept
  <2>2. New(desc'[ow]) /\ New(desc'[or])
    BY Zenon, <1>4, NewDescriptor
  <2>3. desc[ow] = Null /\ desc[or] = Null
    BY Zenon, <1>1
  <2>4. Fresh(ow) /\ Fresh(or)
    BY Zenon, <2>2, <2>3 DEF Fresh, New
  <2> QED
    BY Zenon, <2>1, <2>4
<1>6. \A x \in Desc, q \in Proc : Uses(q, x)' => Uses(q, x) \/ (q = p /\ desc[x] = Null)
  BY Zenon, <1>1, <1>2, <1>3 DEF Uses
<1> QED
  BY Zenon, <1>1, <1>5, <1>6, Points, CopyingReads DEF TableMove

(* In a fork the child is the one that moves.                               *)
LEMMA ForkMove ==
  ASSUME TableInv, NEW p \in Proc, NEW child \in Proc, fork(p, child)
  PROVE  TableMove(child)
<1>1. /\ fd' = [fd EXCEPT ![child] = fd[p]]
      /\ pc' = [pc EXCEPT ![child] = "user"] /\ call' = call
      /\ desc' = [o \in Desc |-> IF \E i \in Slots : fd[p][i] = o
                                 THEN [desc[o] EXCEPT !.forked = TRUE] ELSE desc[o]]
  BY Zenon DEF fork
<1>2. /\ pc'[child] = "user" /\ fd'[child] = fd[p]
      /\ \A q \in Proc : q # child => pc'[q] = pc[q] /\ fd'[q] = fd[q]
  BY Zenon, <1>1 DEF TableInv, TypeOK, Tables
<1>3. ASSUME NEW o \in Desc, \E i \in Slots : fd[p][i] = o
      PROVE  Kept(o) /\ desc'[o].forked
  <2>1. desc[o] \in Descriptors /\ desc[o] # Null
    BY Zenon, <1>3, InUse, Basics
  <2>2. desc'[o] = [desc[o] EXCEPT !.forked = TRUE]
    BY Zenon, <1>1, <1>3
  <2> QED
    BY <2>1, <2>2 DEF Kept, Descriptors
<1>4. ASSUME NEW o \in Desc, ~ \E i \in Slots : fd[p][i] = o
      PROVE  desc'[o] = desc[o]
  BY Zenon, <1>1, <1>4
<1>5. \A x \in Desc : desc'[x] # Null => Kept(x) \/ Fresh(x)
  <2>1. \A x \in Desc : desc'[x] = desc[x] /\ desc'[x] # Null => Kept(x)
    BY Zenon DEF Kept
  <2> QED
    BY Zenon, <1>3, <1>4, <2>1
<1>6. ASSUME NEW x \in Desc, NEW q \in Proc, Uses(q, x)'
      PROVE  Uses(q, x) \/ desc'[x].forked
  <2>1. CASE call[q].desc = x
    BY Zenon, <2>1 DEF Uses
  <2>2. CASE \E i \in Slots : fd'[q][i] = x
    BY Zenon, <1>2, <1>3, <2>2 DEF Uses
  <2> QED
    BY Zenon, <1>1, <1>6, <2>1, <2>2 DEF Uses
<1> QED
  BY Zenon, <1>1, <1>2, <1>5, <1>6, Points, CopyingReads DEF TableMove

(* exit, which releases nothing.                                            *)
LEMMA ExitMove ==
  ASSUME TableInv, NEW p \in Proc, pc[p] = "user", NEW there \in {"user", "exited"},
         pc' = [pc EXCEPT ![p] = there], UNCHANGED <<tables, call>>
  PROVE  TableMove(p)
<1>1. /\ pc'[p] = there /\ desc' = desc /\ fd' = fd /\ call' = call
      /\ \A q \in Proc : q # p => pc'[q] = pc[q]
  BY Zenon DEF TableInv, TypeOK, tables
<1>2. \A x \in Desc : desc'[x] # Null => Kept(x) \/ Fresh(x)
  BY Zenon, <1>1 DEF Kept
<1>3. \A x \in Desc, q \in Proc : Uses(q, x)' => Uses(q, x)
  BY Zenon, <1>1 DEF Uses
<1> QED
  BY Zenon, <1>1, <1>2, <1>3, Points, CopyingReads DEF TableMove

(* The end of read.                                                         *)
LEMMA ReturnMove ==
  ASSUME TableInv, NEW p \in Proc, Return(p)
  PROVE  TableMove(p)
<1>1. /\ pc'[p] = "user" /\ call'[p] = NoCall /\ fd' = fd /\ desc' = Deleted(desc, ref_count')
      /\ \A q \in Proc : q # p => pc'[q] = pc[q] /\ call'[q] = call[q]
  BY Zenon DEF TableInv, TypeOK, Return
<1>2. \A x \in Desc : desc'[x] # Null => desc'[x] = desc[x]
  BY Zenon, <1>1 DEF Deleted
<1>3. \A x \in Desc : desc'[x] # Null => Kept(x) \/ Fresh(x)
  BY Zenon, <1>2 DEF Kept
<1>4. \A x \in Desc, q \in Proc : Uses(q, x)' => Uses(q, x)
  BY Zenon, <1>1, Basics DEF Uses
<1> QED
  BY Zenon, <1>1, <1>3, <1>4, Points, CopyingReads DEF TableMove

(* A fault in the copy, which ends the call.                                *)
LEMMA FaultMove ==
  ASSUME TableInv, NEW p \in Proc, CopyFault(p)
  PROVE  TableMove(p)
<1>1. PICK there \in {"user", "exited"} : pc' = [pc EXCEPT ![p] = there]
  BY Zenon, FaultTo DEF CopyFault
<1>2. /\ pc'[p] = there /\ call'[p] = NoCall /\ fd' = fd /\ desc' = desc
      /\ \A q \in Proc : q # p => pc'[q] = pc[q] /\ call'[q] = call[q]
  BY Zenon, <1>1 DEF TableInv, TypeOK, CopyFault, tables
<1>3. \A x \in Desc : desc'[x] # Null => Kept(x) \/ Fresh(x)
  BY Zenon, <1>2 DEF Kept
<1>4. \A x \in Desc, q \in Proc : Uses(q, x)' => Uses(q, x)
  BY Zenon, <1>2, Basics DEF Uses
<1> QED
  BY Zenon, <1>2, <1>3, <1>4, Points, CopyingReads DEF TableMove

(* A call of read begins: what is left was compared once.                   *)
LEMMA ReadMove ==
  ASSUME TableInv, ReadInv, NEW p \in Proc, NEW i \in Slots, NEW count \in Counts, NEW mapped \in BOOLEAN,
         ReadCall(p, i, count, mapped)
  PROVE  TableMove(p)
<1>1. PICK o : o = fd[p][i]
  OBVIOUS
<1>2. PICK k : k = [desc |-> o, asked |-> count, count |-> count, pos |-> 0, total |-> 0, mapped |-> mapped]
  OBVIOUS
<1>3. PICK there : there = IF count > Minus(FileSize, desc[o].offset) THEN "clip" ELSE "add"
  OBVIOUS
<1>4. PICK d : d = desc[o]
  OBVIOUS
<1>5. /\ o # Null /\ pc[p] = "user"
      /\ call' = [call EXCEPT ![p] = k] /\ pc' = [pc EXCEPT ![p] = there]
      /\ UNCHANGED <<desc, fd>>
  BY Zenon, <1>1, <1>2, <1>3 DEF ReadCall, User
<1>6. /\ pc'[p] = there /\ call'[p] = k
      /\ \A q \in Proc : q # p => pc'[q] = pc[q] /\ call'[q] = call[q]
  BY Zenon, <1>5 DEF TableInv, TypeOK
<1>7. o \in Desc /\ d \in Descriptors /\ InFile(d)
  <2>1. o \in Desc
    BY <1>1, <1>5 DEF TableInv, TypeOK, Tables
  <2> QED
    BY Zenon, <1>1, <1>4, <2>1, InUse, Basics DEF ReadInv, Offsets
<1>8. count \in Nat /\ k.asked = count /\ k.count = count /\ k.total = 0 /\ k.desc = o
  BY <1>2, FilesAssumption
<1>9. ~d.overshot => Minus(FileSize, d.offset) = FileSize - d.offset
  <2>1. ~d.overshot => FileSize - d.offset \in 0 .. W - 1
    BY <1>7, FilesAssumption DEF InFile, Descriptors
  <2>2. FileSize - d.offset \in Int
    BY <1>7, FilesAssumption DEF Descriptors
  <2> QED
    BY Zenon, <2>1, <2>2, ModFacts DEF Minus
<1>10. Fits(there, k, d)
  <2>1. CASE count > Minus(FileSize, d.offset)
    <3>1. there = "clip" /\ there # "add" /\ there # "return" /\ there \notin Copying
      BY <1>3, <1>4, <2>1 DEF Copying
    <3>2. ~d.overshot => k.count > FileSize - d.offset
      BY Zenon, <1>8, <1>9, <2>1
    <3> QED
      BY Zenon, <1>8, <3>1, <3>2 DEF Fits
  <2>2. CASE ~(count > Minus(FileSize, d.offset))
    <3>1. there = "add" /\ there # "clip" /\ there # "return" /\ there \notin Copying
      BY <1>3, <1>4, <2>2 DEF Copying
    <3>2. ~d.overshot => d.offset + k.count <= FileSize
      <4>1. d.offset \in Nat /\ FileSize \in Nat
        BY <1>7, FilesAssumption DEF Descriptors
      <4>2. ~d.overshot => ~(count > FileSize - d.offset)
        BY Zenon, <1>9, <2>2
      <4> QED
        BY <1>8, <4>1, <4>2
    <3>3. ~d.forked => ~d.overshot
      BY Zenon, <1>7 DEF InFile
    <3>4. k.count <= k.asked
      BY <1>8
    <3> QED
      BY Zenon, <1>8, <3>1, <3>2, <3>3, <3>4 DEF Fits
  <2> QED
    BY Zenon, <2>1, <2>2
<1>11. CallOK(p)'
  BY Zenon, <1>4, <1>5, <1>6, <1>8, <1>10 DEF CallOK
<1>12. there \notin Copying
  BY <1>3 DEF Copying
<1>13. \A x \in Desc : desc'[x] # Null => Kept(x) \/ Fresh(x)
  BY Zenon, <1>5 DEF Kept
<1>14. ASSUME NEW x \in Desc, NEW q \in Proc, Uses(q, x)'
       PROVE  Uses(q, x)
  <2>1. CASE q = p
    BY Zenon, <1>1, <1>5, <1>6, <1>8, <1>14, <2>1 DEF Uses
  <2>2. CASE q # p
    BY Zenon, <1>5, <1>6, <1>14, <2>2 DEF Uses
  <2> QED
    BY Zenon, <2>1, <2>2
<1> QED
  BY Zenon, <1>6, <1>11, <1>12, <1>13, <1>14 DEF TableMove

(* Every step keeps what the calls of read know.                            *)
LEMMA ReadStep ==
  ASSUME TableInv, TableInv', ReadInv, Next
  PROVE  ReadInv'
<1>1. PICK p \in Proc :
        \/ \E node \in Nodes : open(p, node)
        \/ \E i \in Args : close(p, i) \/ dup(p, i)
        \/ \E i \in Slots : len(p, i)
        \/ pipe(p) \/ exit(p)
        \/ \E child \in Proc : fork(p, child)
        \/ \E i \in Args, n \in Counts : ReadCall(p, i, n, TRUE)
        \/ \E i \in Args, n \in Counts : p \in Unmapped /\ ReadCall(p, i, n, FALSE)
        \/ Step(p)
  BY Zenon DEF Next
<1>2. Args \subseteq Slots
  BY FilesAssumption DEF Slots
<1>3. ASSUME NEW q \in Proc, TableMove(q) PROVE ReadInv'
  BY Zenon, <1>3, TableMoveRead
<1>4. ASSUME NEW node \in Nodes, open(p, node) PROVE ReadInv'
  BY Zenon, <1>3, <1>4, OpenMove
<1>5. ASSUME NEW i \in Args, close(p, i) PROVE ReadInv'
  BY Zenon, <1>2, <1>3, <1>5, CloseMove
<1>6. ASSUME NEW i \in Args, dup(p, i) PROVE ReadInv'
  BY Zenon, <1>2, <1>3, <1>6, DupMove
<1>7. ASSUME NEW i \in Slots, len(p, i) PROVE ReadInv'
  BY Zenon, <1>3, <1>7, FaultTo, ExitMove DEF len, User
<1>8. CASE exit(p)
  BY Zenon, <1>3, <1>8, ExitMove DEF exit, User
<1>9. CASE pipe(p)
  BY Zenon, <1>3, <1>9, PipeMove
<1>10. ASSUME NEW child \in Proc, fork(p, child) PROVE ReadInv'
  BY Zenon, <1>3, <1>10, ForkMove
<1>11. ASSUME NEW i \in Args, NEW n \in Counts, NEW m \in BOOLEAN, ReadCall(p, i, n, m) PROVE ReadInv'
  BY Zenon, <1>2, <1>3, <1>11, ReadMove
<1>12. CASE Clip(p)
  BY Zenon, <1>12, ClipRead
<1>13. CASE FetchAdd(p)
  BY Zenon, <1>13, FetchRead
<1>14. CASE Lock(p) \/ CopyToTemp(p)
  BY Zenon, <1>14, PlaceRead
<1>15. CASE CopyInPlace(p) \/ CopyFromTemp(p)
  BY Zenon, <1>15, DeliverRead
<1>16. CASE CopyFault(p)
  BY Zenon, <1>3, <1>16, FaultMove
<1>17. CASE Return(p)
  BY Zenon, <1>3, <1>17, ReturnMove
<1>18. CASE Step(p)
  BY Zenon, <1>12, <1>13, <1>14, <1>15, <1>16, <1>17, <1>18 DEF Step
<1>19. TRUE \in BOOLEAN /\ FALSE \in BOOLEAN
  OBVIOUS
<1> QED
  BY Zenon, <1>1, <1>4, <1>5, <1>6, <1>7, <1>8, <1>9, <1>10, <1>11, <1>18, <1>19

(* At the start no call is open.                                            *)
LEMMA ReadInit ==
  ASSUME Init
  PROVE  ReadInv
<1>1. PICK s \in [0 .. 2 -> Desc] :
           /\ \A i, j \in 0 .. 2 : i # j => s[i] # s[j]
           /\ desc = [o \in Desc |-> IF o = s[0] THEN OfTerminal(FALSE)
                                     ELSE IF o \in {s[1], s[2]} THEN OfTerminal(TRUE) ELSE Null]
           /\ ref_count = [o \in Desc |-> IF o \in {s[0], s[1], s[2]} THEN 1 ELSE 0]
           /\ fd = [p \in Proc |-> [i \in Slots |->
                      IF p = FirstProc /\ i \in 0 .. 2 THEN s[i] ELSE Null]]
           /\ pc = [p \in Proc |-> IF p = FirstProc THEN "user" ELSE "unborn"]
           /\ call = [p \in Proc |-> NoCall] /\ leaked = [o \in Desc |-> 0]
  BY Zenon, InitEffect
<1>2. \A p \in Proc : pc[p] \notin Reading
  BY Zenon, <1>1, Points
<1>3. \A p \in Proc, o \in Desc : Uses(p, o) => p = FirstProc
  <2>1. \A p \in Proc, i \in Slots : p # FirstProc => fd[p][i] = Null
    BY Zenon, <1>1
  <2>2. \A p \in Proc : call[p].desc = Null
    BY Zenon, <1>1, Basics
  <2> QED
    BY Zenon, <2>1, <2>2, Basics DEF Uses
<1>4. ASSUME NEW o \in Desc, desc[o] # Null
      PROVE  InFile(desc[o])
  <2>1. desc[o] = OfTerminal(FALSE) \/ desc[o] = OfTerminal(TRUE)
    BY Zenon, <1>1, <1>4
  <2>2. New(desc[o])
    BY Zenon, <2>1, NewDescriptor
  <2>3. 0 <= FileSize
    BY FilesAssumption
  <2> QED
    BY Zenon, <2>2, <2>3 DEF New, InFile
<1> QED
  BY Zenon, <1>2, <1>3, <1>4, CopyingReads DEF ReadInv, Sole, Offsets, Disjoint

----------------------------------------------------------------------------
(* The inductive invariant of the descriptors: ref and unref balance in     *)
(* every order of calls, and what a read looked at is out of date only when *)
(* a fork shares the descriptor.                                            *)
THEOREM FilesCorrect == Spec => [](TableInv /\ ReadInv)
<1>1. Init => TableInv /\ ReadInv
  BY Zenon, TableInit, ReadInit
<1>2. TableInv /\ ReadInv /\ [Next]_vars => (TableInv /\ ReadInv)'
  <2> SUFFICES ASSUME TableInv, ReadInv, [Next]_vars
               PROVE  TableInv' /\ ReadInv'
    OBVIOUS
  <2>1. CASE Next
    BY Zenon, <2>1, TableStep, ReadStep
  <2>2. CASE UNCHANGED vars
    <3>1. /\ desc' = desc /\ ref_count' = ref_count /\ fd' = fd /\ pc' = pc /\ call' = call
          /\ leaked' = leaked
      BY Zenon, <2>2 DEF vars, tables, faults
    <3>2. TableInv'
      BY Zenon, <3>1 DEF TableInv, TypeOK, Life, Counted
    <3>3. Sole' /\ Offsets'
      <4>1. \A p \in Proc, o \in Desc : Uses(p, o)' => Uses(p, o)
        BY Zenon, <3>1 DEF Uses
      <4> QED
        BY Zenon, <3>1, <4>1 DEF ReadInv, Sole, Offsets
    <3>4. Disjoint' /\ \A p \in Proc : pc'[p] \in Reading => CallOK(p)'
      BY Zenon, <3>1 DEF ReadInv, CallOK, Disjoint
    <3>5. ReadInv'
      BY Zenon, <3>3, <3>4 DEF ReadInv
    <3> QED
      BY <3>2, <3>5
  <2> QED
    BY Zenon, <2>1, <2>2
<1> QED
  BY <1>1, <1>2, PTL DEF Spec

(* No descriptor is deleted while a table or a call of read refers to it,   *)
(* and the count of Shared is the number of references.                     *)
THEOREM NoDanglingHolds == Spec => []NoDangling
<1>1. TableInv => NoDangling
  <2> SUFFICES ASSUME TableInv, NEW o \in Desc
               PROVE  /\ ref_count[o] = References(o)
                      /\ References(o) > 0 => desc[o] # Null
    BY Zenon DEF NoDangling
  <2>1. ref_count[o] = References(o)
    <3>1. /\ Cardinality(Holding(fd, o)) \in Nat /\ Cardinality(Calling(call, o)) \in Nat
          /\ leaked[o] \in Nat
      BY Zenon, Finite DEF TableInv, TypeOK
    <3>2. References(o) = Cardinality(Holding(fd, o)) + Cardinality(Calling(call, o)) + leaked[o]
      BY Zenon DEF References, Holding, Calling
    <3>3. ref_count[o] = Cardinality(Holding(fd, o)) + (Cardinality(Calling(call, o)) + leaked[o])
      BY Zenon DEF TableInv, Counted, Pending
    <3> QED
      BY <3>1, <3>2, <3>3
  <2>2. ref_count[o] = 0 <=> desc[o] = Null
    BY Zenon DEF TableInv, Counted
  <2>3. ~ (0 > 0)
    OBVIOUS
  <2> QED
    BY Zenon, <2>1, <2>2, <2>3
<1> QED
  BY <1>1, FilesCorrect, PTL

(* The offset of a descriptor passes the end of the file only if a fork     *)
(* shares it: the clip of read is exact for one process.                    *)
THEOREM OvershotSharedHolds == Spec => []OvershotShared
<1>1. ReadInv => OvershotShared
  BY Zenon DEF ReadInv, Offsets, InFile, OvershotShared
<1> QED
  BY <1>1, FilesCorrect, PTL

(* Reads through one descriptor, by any processes at once, deliver no byte  *)
(* twice and none too many, until its offset has passed the end.            *)
THEOREM ReadsExactHolds == Spec => []ReadsExact
<1>1. TableInv /\ ReadInv => ReadsExact
  <2> SUFFICES ASSUME TableInv, ReadInv
               PROVE  ByteOnce /\ NeverMore
    BY Zenon DEF ReadsExact
  <2>1. ByteOnce
    BY Zenon DEF ReadInv, Offsets, InFile, ByteOnce
  <2>2. ASSUME NEW p \in Proc, ~desc[call[p].desc].overshot
        PROVE  ~(call[p].total > call[p].asked)
    <3>1. call[p] \in Calls /\ pc[p] \in {"unborn", "user", "exited"} \cup Reading
      BY Zenon DEF TableInv, TypeOK
    <3>2. call[p].total \in Nat /\ call[p].asked \in Nat /\ call[p].count \in Nat
      BY <3>1 DEF Calls
    <3>3. CASE pc[p] \in Reading
      <4>1. Fits(pc[p], call[p], desc[call[p].desc])
        BY Zenon, <3>3 DEF ReadInv, CallOK
      <4>2. call[p].total = 0 \/ call[p].total + call[p].count <= call[p].asked
              \/ call[p].total <= call[p].asked
        BY Zenon, <2>2, <3>3, <4>1 DEF Fits, Reading
      <4> QED
        BY <3>2, <4>2
    <3>4. CASE pc[p] \notin Reading
      <4>1. call[p].total = 0
        BY Zenon, <3>1, <3>4, Basics DEF TableInv, Life
      <4> QED
        BY <3>2, <4>1
    <3> QED
      BY Zenon, <3>3, <3>4
  <2> QED
    BY Zenon, <2>1, <2>2 DEF NeverMore
<1> QED
  BY <1>1, FilesCorrect, PTL
==============================================================================
