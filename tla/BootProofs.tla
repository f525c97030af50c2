----------------------------- MODULE BootProofs ------------------------------
(***************************************************************************)
(* Proofs about Boot and Events, for any number of cores and events, any    *)
(* drive, table of processors, delays and width of jiffies.                 *)
(***************************************************************************)
EXTENDS Boot, QueueFacts, WellFoundedInduction

(* The boot sector: sectors 1 .. bp - 1 of the n are in place.              *)
Loading ==
  At(0, "mbr") =>
    /\ mbr.n \in Nat
    /\ mbr.n > 0 /\ Base + mbr.n - 1 <= Seg =>
         /\ mbr.bp \in 1 .. mbr.n
         /\ mbr.cx = (mbr.n - mbr.bp + 1) % Word
         /\ mbr.bp < mbr.n => mbr.di = Base + mbr.bp - 1
         /\ mbr.at \in [0 .. Seg - 1 -> Nat \cup {None}]
         /\ \A k \in 1 .. mbr.bp - 1 : mbr.at[Base + k - 1] = k

(* Where the cores are: core 0 alone until smpInitDone, then the others up  *)
(* to the one it waits for.                                                 *)
Alone == {"mbr", "reset", "config", "global"}
First == {"mbr", "config", "global", "calibrate", "start", "wait"}
Later == {"off", "reset", "ap"}
PerCore == {"alloc", "fill", "on", "pit", "tss", "sti", "up"}
Pcs == First \cup Later \cup PerCore \cup {"panic"}
CoreRec == [pc : Pcs, stack : Core \cup {None}, esp0 : Core \cup {None}, filled : Nat, cr3 : Nat]
Globals == {"totalProcs", "ioAPIC", "smpInitDone", "apitCounter", "running", "id", "page_directory",
            "howManyAreHere", "raced", "mains"}
Registers == {"cx", "di", "bp", "at", "n"}

CoreTypes ==
  /\ core \in [Core -> CoreRec]
  /\ DOMAIN g = Globals /\ DOMAIN mbr = Registers
  /\ g.id \in Nat /\ g.id > 0 /\ g.running \in Nat

(* Core k, when core 0 is here and starts the others in turn.               *)
InTurn(here, k) ==
  /\ core[k].pc \notin First
  /\ k < g.id => core[k].pc \notin Later
  /\ k > g.id => core[k].pc = "off"
  /\ k = g.id /\ here # "wait" => core[k].pc = "off"
Counting(here) ==
  /\ g.smpInitDone <=> here \notin Alone
  /\ here \in Alone \cup {"calibrate"} => g.id = 1 /\ g.running = 0
  /\ here \in {"start"} \cup PerCore => g.running = g.id
  /\ here = "wait" /\ g.id \in Core /\ core[g.id].pc \notin Later => g.running = g.id + 1
  /\ here = "wait" /\ (g.id \notin Core \/ core[g.id].pc \in Later) => g.running = g.id
Started ==
  /\ Counting(core[0].pc) /\ core[0].pc \notin {"off", "ap"}
  /\ \A k \in Core \ {0} : InTurn(core[0].pc, k)
Phases == (\A c \in Core : At(c, "panic")) \/ (Started /\ \A c \in Core : ~At(c, "panic"))

(* Every core is on its own stack once it has left tempStack.               *)
OnStack(c) ==
  /\ core[c].stack \in {None, c}
  /\ core[c].pc \notin {"off", "mbr", "reset", "panic"} => core[c].stack = c
  /\ core[c].pc \in {"sti", "up"} => core[c].esp0 = c
StartInv == CoreTypes /\ Phases /\ \A c \in Core : OnStack(c)

(* The page directories: a core fills in the parts in turn, and those of a  *)
(* directory are its own until two cores are in per_core_init.              *)
Whole == Range(Parts)
Upto(n) == {Parts[i] : i \in 1 .. n}
Setting(c) == core[c].pc \in {"fill", "on"}
DirTypes ==
  /\ dir \in Seq(SUBSET Whole) /\ g.page_directory \in Nat
  /\ \A c \in Core : /\ At(c, "fill") => core[c].filled \in 0 .. 2
                     /\ At(c, "on") => core[c].filled = 3
                     /\ ~Setting(c) /\ ~At(c, "panic") => core[c].filled = 0
Alike(c, k) == core[c].cr3 = core[k].cr3 /\ core[c].cr3 # 0
DirInv ==
  ~g.raced =>
    /\ \A c, k \in Core : (Setting(c) /\ Setting(k)) \/ Alike(c, k) => c = k
    /\ \A c \in Core :
         /\ core[c].cr3 \in 0 .. Len(dir)
         /\ core[c].cr3 # 0 => dir[core[c].cr3] = Whole
         /\ Setting(c) => /\ g.page_directory = Len(dir) /\ Len(dir) > 0
                          /\ \A k \in Core : core[k].cr3 # Len(dir)
                          /\ dir[Len(dir)] = Upto(core[c].filled)

(* The events: what the queues and the loops hold.                          *)
Entry == [at : Nat, e : Event]
EventRec == [made : BOOLEAN, left : Nat, wrapped : BOOLEAN, early : BOOLEAN, returned : BOOLEAN,
             runs : Nat, deletes : Nat]
EventTypes ==
  /\ jiffies \in Nat
  /\ pq \in Seq(Entry) /\ ready \in Seq(Event)
  /\ last_event \in [Core -> Event \cup {None}] /\ held \in [Core -> Event \cup {None}]
  /\ loop \in [Core -> {"off", "poll", "move", "take", "doit"}]
  /\ event \in [Event -> EventRec]
  /\ \A c \in Core : held[c] # None <=> loop[c] = "move"
  /\ \A c \in Core : last_event[c] # None => loop[c] \in {"poll", "doit"}
  /\ \A c \in Core : core[c].pc \notin {"up", "panic"} => loop[c] = "off"

Sorted(q) == \A i, j \in DOMAIN q : i < j => q[i].at <= q[j].at
Apart(q) == \A i, j \in DOMAIN q : q[i].e = q[j].e => i = j
Of(q) == {q[i].e : i \in DOMAIN q}
Holds(e) == \E c \in Core : held[c] = e
Queued(e) == e \in Of(pq) \/ e \in Range(ready) \/ Holds(e)

(* Every event is in one place at most.                                     *)
Once ==
  /\ Apart(pq) /\ IsInjective(ready)
  /\ \A e \in Event :
       /\ e \in Of(pq) => e \notin Range(ready) /\ ~Holds(e)
       /\ e \in Range(ready) => ~Holds(e)
       /\ \A c, k \in Core : held[c] = e /\ held[k] = e => c = k
       /\ \A c, k \in Core : last_event[c] = e /\ last_event[k] = e => c = k

(* The timer queue is in order, and an event in it has no more ticks to go  *)
(* than are left until its time; one that has left it has none.             *)
Soon(x) == x.wrapped \/ x.left = 0
InTime(x, now, at) == Soon(x) \/ now + x.left <= at
Timely ==
  /\ Sorted(pq)
  /\ \A i \in DOMAIN pq : InTime(event[pq[i].e], jiffies, pq[i].at)
  /\ \A e \in Event : e \in Range(ready) \/ Holds(e) => Soon(event[e])
  /\ NotEarly

(* An event in a queue has not run; the last of a core has, once, and is    *)
(* not deleted unless its doit returned.                                    *)
Idle(x) == x.runs = 0 /\ x.deletes = 0 /\ ~x.returned
Ended(x, here) ==
  /\ x.runs = 1
  /\ here = "doit" => x.deletes = 0 /\ ~x.returned
  /\ here # "doit" => x.deletes = IF x.returned THEN 1 ELSE 0
Ran ==
  /\ \A e \in Event : /\ Queued(e) => event[e].made /\ Idle(event[e])
                      /\ ~event[e].made => Idle(event[e])
  /\ \A c \in Core : last_event[c] # None => Ended(event[last_event[c]], loop[c])
EventInv == EventTypes /\ Once /\ Timely /\ Ran /\ DeletedOnce

----------------------------------------------------------------------------
(* The numbers below another are an order without infinite descent.         *)
LEMMA NatOrder == \E R : IsWellFoundedOn(R, Nat) /\ \A x, y \in Nat : x < y => <<x, y>> \in R
<1>1. \A x, y \in Nat : x < y => <<x, y>> \in OpToRel(<, Nat)
  BY DEF OpToRel
<1> QED
  BY <1>1, NatLessThanWellFounded

(* Min of a set of numbers that is not empty is its least element.          *)
LEMMA MinFacts == ASSUME NEW S, S \subseteq Nat, S # {}
                  PROVE  Min(S) \in S /\ \A y \in S : Min(S) <= y
<1>1. PICK R : IsWellFoundedOn(R, Nat) /\ \A x, y \in Nat : x < y => <<x, y>> \in R
  BY NatOrder
<1>2. IsWellFoundedOn(R, Nat)
  BY <1>1
<1>3. \A T : T \subseteq Nat /\ T # {} => \E x \in T : \A y \in T : ~ (<<y, x>> \in R)
  BY ONLY <1>2, WFMin, Zenon
<1>4. PICK x \in S : \A y \in S : ~ (<<y, x>> \in R)
  BY Zenon, <1>3
<1>5. \A y \in S : ~ (y < x)
  BY Zenon, <1>1, <1>4
<1>6. \A y \in S : x <= y
  BY <1>5
<1> QED
  BY Zenon, <1>6 DEF Min

(* An element put into a sequence at place k.                               *)
Splice(q, x, k) == SubSeq(q, 1, k - 1) \o <<x>> \o SubSeq(q, k, Len(q))

(* PQ::add: the entries before the place k of the new one are due no later, *)
(* those from it on are due later.                                          *)
LEMMA PlaceOf ==
  ASSUME NEW q \in Seq(Entry), Sorted(q), NEW at \in Nat, NEW e \in Event
  PROVE  \E k \in 1 .. Len(q) + 1 :
           /\ \A i \in 1 .. k - 1 : q[i].at <= at
           /\ \A i \in k .. Len(q) : at < q[i].at
           /\ add(q, at, e) = Splice(q, [at |-> at, e |-> e], k)
<1> DEFINE S == {i \in DOMAIN q : q[i].at > at} \cup {Len(q) + 1}
           k == Min(S)
<1>0. Len(q) \in Nat /\ DOMAIN q = 1 .. Len(q) /\ \A i \in 1 .. Len(q) : q[i] \in Entry
  OBVIOUS
<1>1. Len(q) \in Nat /\ DOMAIN q = 1 .. Len(q) /\ \A i \in 1 .. Len(q) : q[i].at \in Nat
  BY Zenon, <1>0 DEF Entry
<1>2. S \subseteq 1 .. Len(q) + 1 /\ S # {}
  BY <1>1
<1>3. S \subseteq Nat
  BY <1>1, <1>2
<1>4. k \in S /\ \A y \in S : k <= y
  BY Zenon, <1>2, <1>3, MinFacts
<1>5. k \in 1 .. Len(q) + 1
  BY Zenon, <1>2, <1>4
<1>6. add(q, at, e) = Splice(q, [at |-> at, e |-> e], k)
  BY Zenon DEF add, Splice
<1> HIDE DEF k
<1>7. \A i \in 1 .. k - 1 : q[i].at <= at
  <2> SUFFICES ASSUME NEW i \in 1 .. k - 1, ~(q[i].at <= at) PROVE FALSE
    OBVIOUS
  <2>1. i \in 1 .. Len(q) /\ i < k
    BY <1>1, <1>5
  <2>2. q[i].at > at
    BY <1>1, <2>1
  <2>3. i \in S
    BY <1>1, <2>1, <2>2
  <2> QED
    BY <1>3, <1>4, <2>1, <2>3
<1>8. \A i \in k .. Len(q) : at < q[i].at
  <2> SUFFICES ASSUME NEW i \in k .. Len(q) PROVE at < q[i].at
    OBVIOUS
  <2>1. k \in 1 .. Len(q) /\ i \in 1 .. Len(q)
    BY <1>1, <1>5
  <2>2. q[k].at > at
    BY <1>1, <1>4, <2>1
  <2>3. q[k].at <= q[i].at
    BY <1>1, <2>1 DEF Sorted
  <2> QED
    BY <1>1, <2>1, <2>2, <2>3
<1> QED
  BY Zenon, <1>5, <1>6, <1>7, <1>8

(* What is where after that.                                                *)
LEMMA SpliceFacts ==
  ASSUME NEW q \in Seq(Entry), NEW x \in Entry, NEW k \in 1 .. Len(q) + 1
  PROVE  LET r == Splice(q, x, k) IN
         /\ r \in Seq(Entry) /\ DOMAIN r = 1 .. Len(q) + 1
         /\ \A i \in 1 .. k - 1 : r[i] = q[i]
         /\ r[k] = x
         /\ \A i \in k + 1 .. Len(q) + 1 : r[i] = q[i - 1]
<1> DEFINE a == SubSeq(q, 1, k - 1)
           b == SubSeq(q, k, Len(q))
           ax == a \o <<x>>
           r == ax \o b
<1>1. Len(q) \in Nat
  OBVIOUS
<1>2. a \in Seq(Entry) /\ Len(a) = k - 1 /\ \A i \in 1 .. k - 1 : a[i] = q[i]
  BY <1>1
<1>3. b \in Seq(Entry) /\ Len(b) = Len(q) - k + 1 /\ \A i \in 1 .. Len(q) - k + 1 : b[i] = q[i + k - 1]
  BY <1>1
<1> HIDE DEF a, b
<1>4. ax \in Seq(Entry) /\ Len(ax) = k /\ (\A i \in 1 .. k - 1 : ax[i] = q[i]) /\ ax[k] = x
  <2>1. <<x>> \in Seq(Entry) /\ Len(<<x>>) = 1 /\ <<x>>[1] = x
    OBVIOUS
  <2>2. ax \in Seq(Entry) /\ Len(ax) = k
    BY <1>2, <2>1
  <2>3. \A i \in 1 .. k - 1 : ax[i] = a[i]
    BY <1>2, <2>1
  <2>4. ax[k] = x
    BY <1>2, <2>1
  <2> QED
    BY Zenon, <1>2, <2>2, <2>3, <2>4
<1> HIDE DEF ax
<1>5. r \in Seq(Entry) /\ Len(r) = Len(q) + 1
  BY <1>1, <1>3, <1>4
<1>6. \A i \in 1 .. k : r[i] = ax[i]
  BY <1>1, <1>3, <1>4
<1>7. ASSUME NEW i \in k + 1 .. Len(q) + 1 PROVE r[i] = q[i - 1]
  <2>1. i - k \in 1 .. Len(q) - k + 1 /\ (i - k) + k - 1 = i - 1
    BY <1>1
  <2>2. r[i] = b[i - k]
    BY <1>1, <1>3, <1>4, <2>1
  <2>3. b[i - k] = q[(i - k) + k - 1]
    BY Zenon, <1>3, <2>1
  <2> QED
    BY <2>1, <2>2, <2>3
<1> HIDE DEF r
<1>8. (\A i \in 1 .. k - 1 : r[i] = q[i]) /\ r[k] = x /\ DOMAIN r = 1 .. Len(q) + 1
  BY <1>1, <1>4, <1>5, <1>6
<1> QED
  BY Zenon, <1>5, <1>7, <1>8 DEF r, ax, a, b, Splice

(* What PQ::add leaves: the old entries in their order, and the new one.    *)
LEMMA InsertFacts ==
  ASSUME NEW q \in Seq(Entry), Sorted(q), NEW at \in Nat, NEW e \in Event
  PROVE  LET r == add(q, at, e) IN
         /\ r \in Seq(Entry) /\ Sorted(r)
         /\ \A i \in DOMAIN r : r[i] = [at |-> at, e |-> e] \/ \E j \in DOMAIN q : r[i] = q[j]
         /\ Of(r) = Of(q) \cup {e}
         /\ Apart(q) /\ e \notin Of(q) => Apart(r)
<1> DEFINE x == [at |-> at, e |-> e]
           n == Len(q)
           r == add(q, at, e)
<1>1. PICK k \in 1 .. n + 1 :
           /\ \A i \in 1 .. k - 1 : q[i].at <= at
           /\ \A i \in k .. n : at < q[i].at
           /\ r = Splice(q, x, k)
  BY PlaceOf
<1>2. n \in Nat /\ DOMAIN q = 1 .. n /\ x \in Entry /\ x.at = at /\ x.e = e
  BY DEF Entry
<1>3. \A l \in 1 .. n : q[l] \in Entry
  OBVIOUS
<1>4. \A l \in 1 .. n : q[l].at \in Nat
  BY Zenon, <1>3 DEF Entry
<1> HIDE DEF x, r
<1>7. /\ r \in Seq(Entry) /\ DOMAIN r = 1 .. n + 1
      /\ \A i \in 1 .. k - 1 : r[i] = q[i]
      /\ r[k] = x
      /\ \A i \in k + 1 .. n + 1 : r[i] = q[i - 1]
  <2> DEFINE s == Splice(q, x, k)
  <2>1. /\ s \in Seq(Entry) /\ DOMAIN s = 1 .. n + 1
        /\ \A i \in 1 .. k - 1 : s[i] = q[i]
        /\ s[k] = x
        /\ \A i \in k + 1 .. n + 1 : s[i] = q[i - 1]
    BY <1>2, SpliceFacts
  <2>2. r = s
    BY Zenon, <1>1
  <2> HIDE DEF s
  <2> QED
    BY Zenon, <2>1, <2>2
<1>8. /\ \A i \in 1 .. k - 1 : q[i].at <= at
      /\ \A i \in k .. n : at < q[i].at
  BY Zenon, <1>1
<1> HIDE DEF n
<1>9. Sorted(r)
  <2> SUFFICES ASSUME NEW i \in 1 .. n + 1, NEW j \in 1 .. n + 1, i < j
               PROVE  r[i].at <= r[j].at
    BY <1>7 DEF Sorted
  <2>2. \A l, m \in 1 .. n : l < m => q[l].at <= q[m].at
    BY Zenon, <1>2 DEF Sorted
  <2>3. CASE j < k
    BY <1>2, <1>7, <2>2, <2>3
  <2>4. CASE i > k
    BY <1>2, <1>7, <2>2, <2>4
  <2>5. CASE j = k
    <3>1. i \in 1 .. k - 1
      BY <1>2, <2>5
    <3> QED
      BY Zenon, <1>2, <1>7, <1>8, <2>5, <3>1
  <2>6. CASE i = k
    <3>1. j \in k + 1 .. n + 1 /\ j - 1 \in k .. n /\ j - 1 \in 1 .. n
      BY <1>2, <2>6
    <3>2. r[j] = q[j - 1] /\ r[i] = x /\ at < q[j - 1].at
      BY Zenon, <1>7, <1>8, <2>6, <3>1
    <3> QED
      BY <1>2, <1>4, <3>1, <3>2
  <2>7. CASE i < k /\ j > k
    <3>1. i \in 1 .. k - 1 /\ j \in k + 1 .. n + 1 /\ i \in 1 .. n /\ j - 1 \in 1 .. n /\ i < j - 1
      BY <1>2, <2>7
    <3>2. r[i] = q[i] /\ r[j] = q[j - 1] /\ q[i].at <= q[j - 1].at
      BY Zenon, <1>7, <2>2, <3>1
    <3> QED
      BY Zenon, <3>2
  <2> QED
    BY <2>3, <2>4, <2>5, <2>6, <2>7
<1>10. \A i \in 1 .. n + 1 : \/ i = k /\ r[i] = x
                             \/ i # k /\ i < k /\ i \in 1 .. n /\ r[i] = q[i]
                             \/ i # k /\ i > k /\ i - 1 \in 1 .. n /\ r[i] = q[i - 1]
  BY <1>2, <1>7
<1>11. \A i \in DOMAIN r : r[i] = x \/ \E j \in DOMAIN q : r[i] = q[j]
  BY Zenon, <1>2, <1>7, <1>10
<1>12. Of(r) = Of(q) \cup {e}
  <2>1. ASSUME NEW i \in DOMAIN r PROVE r[i].e \in Of(q) \cup {e}
    BY Zenon, <1>2, <1>11 DEF Of
  <2>2. \A i \in 1 .. n : i \in DOMAIN r /\ i + 1 \in DOMAIN r /\ (r[i] = q[i] \/ r[i + 1] = q[i])
    BY <1>2, <1>7
  <2>3. Of(q) \subseteq Of(r)
    BY Zenon, <1>2, <2>2 DEF Of
  <2>4. k \in DOMAIN r
    BY <1>2, <1>7
  <2>5. e \in Of(r)
    BY Zenon, <1>2, <1>7, <2>4 DEF Of
  <2>6. Of(r) \subseteq Of(q) \cup {e}
    BY Zenon, <2>1 DEF Of
  <2> QED
    BY Zenon, <2>3, <2>5, <2>6
<1>13. ASSUME Apart(q), e \notin Of(q) PROVE Apart(r)
  <2> SUFFICES ASSUME NEW i \in 1 .. n + 1, NEW j \in 1 .. n + 1, r[i].e = r[j].e
               PROVE  i = j
    BY Zenon, <1>7 DEF Apart
  <2>1. \A l \in 1 .. n : q[l].e # e
    BY Zenon, <1>2, <1>13 DEF Of
  <2>2. \A l, m \in 1 .. n : q[l].e = q[m].e => l = m
    BY Zenon, <1>2, <1>13 DEF Apart
  <2>3. \A l \in 1 .. n + 1 : r[l].e = e <=> l = k
    BY Zenon, <1>2, <1>10, <2>1
  <2>4. CASE i = k \/ j = k
    BY Zenon, <2>3, <2>4
  <2>5. CASE i # k /\ j # k
    BY <1>2, <1>10, <2>2, <2>5
  <2> QED
    BY Zenon, <2>4, <2>5
<1> QED
  BY Zenon, <1>7, <1>9, <1>11, <1>12, <1>13 DEF r, x

(* PQ::remove_if_ready: the first entry leaves.                             *)
LEMMA TailFacts ==
  ASSUME NEW q \in Seq(Entry), q # << >>
  PROVE  /\ Tail(q) \in Seq(Entry) /\ 1 \in DOMAIN q /\ q[1] \in Entry
         /\ \A i \in DOMAIN Tail(q) : i + 1 \in DOMAIN q /\ Tail(q)[i] = q[i + 1]
         /\ Sorted(q) => Sorted(Tail(q))
         /\ q[1].e \in Of(q) /\ Of(Tail(q)) \subseteq Of(q)
         /\ Apart(q) => Apart(Tail(q)) /\ q[1].e \notin Of(Tail(q))
<1> DEFINE r == Tail(q)
<1>1. /\ Len(q) \in Nat /\ Len(q) > 0 /\ DOMAIN q = 1 .. Len(q) /\ q[1] \in Entry
      /\ r \in Seq(Entry) /\ DOMAIN r = 1 .. Len(q) - 1
      /\ \A i \in 1 .. Len(q) - 1 : r[i] = q[i + 1]
  OBVIOUS
<1> HIDE DEF r
<1>2. \A i \in DOMAIN r : i + 1 \in DOMAIN q /\ i + 1 # 1 /\ r[i] = q[i + 1]
  BY <1>1
<1>3. 1 \in DOMAIN q
  BY <1>1
<1>4. ASSUME Sorted(q) PROVE Sorted(r)
  <2> SUFFICES ASSUME NEW i \in DOMAIN r, NEW j \in DOMAIN r, i < j PROVE r[i].at <= r[j].at
    BY Zenon DEF Sorted
  <2>1. i + 1 < j + 1
    BY <1>1
  <2>2. q[i + 1].at <= q[j + 1].at
    BY Zenon, <1>2, <1>4, <2>1 DEF Sorted
  <2> QED
    BY Zenon, <1>2, <2>2
<1>5. q[1].e \in Of(q) /\ Of(r) \subseteq Of(q)
  <2>1. ASSUME NEW i \in DOMAIN r PROVE r[i].e \in Of(q)
    BY Zenon, <1>2 DEF Of
  <2> QED
    BY Zenon, <1>3, <2>1 DEF Of
<1>6. ASSUME Apart(q) PROVE Apart(r) /\ q[1].e \notin Of(r)
  <2>1. ASSUME NEW i \in DOMAIN r, NEW j \in DOMAIN r, r[i].e = r[j].e PROVE i = j
    <3>1. i + 1 = j + 1
      BY Zenon, <1>2, <1>6, <2>1 DEF Apart
    <3> QED
      BY <1>1, <3>1
  <2>2. ASSUME NEW i \in DOMAIN r PROVE r[i].e # q[1].e
    BY Zenon, <1>2, <1>3, <1>6 DEF Apart
  <2>3. q[1].e \notin Of(r)
    BY Zenon, <2>2 DEF Of
  <2> QED
    BY Zenon, <2>1, <2>3 DEF Apart
<1> QED
  BY Zenon, <1>1, <1>2, <1>3, <1>4, <1>5, <1>6 DEF r

----------------------------------------------------------------------------
(* Starting the cores.                                                      *)
Only(c) == \A k \in Core \ {c} : core'[k] = core[k]
Kept(c) == /\ core'[c].stack = core[c].stack /\ core'[c].esp0 = core[c].esp0
           /\ core'[c].filled = core[c].filled /\ core'[c].cr3 = core[c].cr3
SameTurn == g'.id = g.id /\ g'.running = g.running /\ (g'.smpInitDone <=> g.smpInitDone)
ToPc(c, there) == /\ core' \in [Core -> CoreRec]
                  /\ Only(c) /\ core'[c].pc = there

(* The places of a core are different.                                      *)
LEMMA Places ==
  /\ First \cap Later = {} /\ First \cap PerCore = {} /\ Later \cap PerCore = {}
  /\ "panic" \notin First \cup Later \cup PerCore
  /\ Alone \subseteq First \cup {"reset"} /\ Alone \cap PerCore = {}
  /\ "calibrate" \notin Alone /\ "start" \notin Alone /\ "wait" \notin Alone
BY DEF First, Later, PerCore, Alone

(* A step that only moves on.                                               *)
LEMMA GotoFacts ==
  ASSUME CoreTypes, NEW c \in Core, NEW there \in Pcs, Goto(c, there)
  PROVE  ToPc(c, there) /\ Kept(c)
<1>1. core \in [Core -> CoreRec] /\ core' = [core EXCEPT ![c].pc = there]
  BY Zenon DEF CoreTypes, Goto
<1>2. core' \in [Core -> CoreRec]
  BY <1>1 DEF CoreRec
<1>3. Only(c)
  BY Zenon, <1>1 DEF Only
<1>4. core'[c].pc = there /\ Kept(c)
  BY <1>1 DEF CoreRec, Kept
<1> QED
  BY Zenon, <1>2, <1>3, <1>4 DEF ToPc

(* A core that is not in panic: none is.                                    *)
LEMMA NoPanic ==
  ASSUME StartInv, NEW c \in Core, ~At(c, "panic")
  PROVE  Started /\ \A k \in Core : ~At(k, "panic")
BY Zenon DEF StartInv, Phases

(* Only core 0 is where only the first core goes.                           *)
LEMMA FirstCore ==
  ASSUME StartInv, NEW c \in Core, core[c].pc \in First
  PROVE  c = 0 /\ Started
<1>1. ~At(c, "panic")
  BY Zenon, Places DEF At
<1>2. Started
  BY Zenon, <1>1, NoPanic
<1> QED
  BY Zenon, <1>2 DEF Started, InTurn

(* Another core that is reset is the one core 0 waits for.                  *)
LEMMA NextCore ==
  ASSUME StartInv, NEW c \in Core, core[c].pc \in Later \ {"off"}, c # 0
  PROVE  c = g.id /\ core[0].pc = "wait" /\ Started
<1>1. ~At(c, "panic")
  BY Zenon, Places DEF At
<1>2. Started
  BY Zenon, <1>1, NoPanic
<1>3. InTurn(core[0].pc, c) /\ core[c].pc # "off"
  BY Zenon, <1>2 DEF Started
<1>4. ~ (c < g.id) /\ ~ (c > g.id)
  BY Zenon, <1>3 DEF InTurn
<1>5. c \in Nat /\ g.id \in Nat
  BY Zenon, BootAssumption DEF StartInv, CoreTypes
<1>6. c = g.id
  BY <1>4, <1>5
<1> QED
  BY Zenon, <1>2, <1>3, <1>6 DEF InTurn

(* Core 0 moves on and no other does.                                       *)
LEMMA FirstMoves ==
  ASSUME Started, Only(0), NEW there \in Pcs, core'[0].pc = there, g'.id = g.id,
         there \notin {"panic", "off", "ap"}, \A k \in Core : ~At(k, "panic"),
         (Counting(there))', core[0].pc # "wait" \/ there = "wait"
  PROVE  Started' /\ \A k \in Core : ~(At(k, "panic"))'
<1>1. ASSUME NEW k \in Core, k # 0 PROVE (InTurn(core[0].pc, k))' /\ ~(At(k, "panic"))'
  <2>1. core'[k] = core[k] /\ InTurn(core[0].pc, k) /\ ~At(k, "panic")
    BY Zenon, <1>1 DEF Only, Started
  <2> QED
    BY Zenon, <2>1 DEF InTurn, At
<1>2. ~(At(0, "panic"))'
  BY Zenon DEF At
<1>3. (Counting(core[0].pc))'
  BY Zenon DEF Counting
<1> QED
  BY Zenon, <1>1, <1>2, <1>3 DEF Started

(* A core past its start moves on: nobody's turn changes.                   *)
LEMMA LaterMoves ==
  ASSUME StartInv, Started, \A k \in Core : ~At(k, "panic"), NEW c \in Core, core[c].pc \in PerCore,
         Only(c), core'[c].pc \in PerCore, SameTurn
  PROVE  Started' /\ \A k \in Core : ~(At(k, "panic"))'
<1>1. \A k \in Core : core'[k].pc = core[k].pc \/ (core[k].pc \in PerCore /\ core'[k].pc \in PerCore)
  BY Zenon DEF Only
<1>2. \A k \in Core : ~(At(k, "panic"))'
  BY Zenon, <1>1, Places DEF At
<1>3. /\ core'[0].pc \in Alone <=> core[0].pc \in Alone
      /\ core'[0].pc \in Alone \cup {"calibrate"} <=> core[0].pc \in Alone \cup {"calibrate"}
      /\ core'[0].pc \in {"start"} \cup PerCore <=> core[0].pc \in {"start"} \cup PerCore
      /\ core'[0].pc = "wait" <=> core[0].pc = "wait"
      /\ core'[0].pc \notin {"off", "ap"}
  BY <1>1, BootAssumption DEF Started, Alone, PerCore
<1>4. \A k \in Core : /\ core'[k].pc \in Later <=> core[k].pc \in Later
                      /\ core'[k].pc \in First <=> core[k].pc \in First
                      /\ core'[k].pc = "off" <=> core[k].pc = "off"
  <2>1. "off" \notin PerCore
    BY DEF PerCore
  <2> QED
    BY Zenon, <1>1, <2>1, Places
<1>5. (Counting(core[0].pc))'
  BY Zenon, <1>3, <1>4 DEF Started, Counting, SameTurn
<1>6. ASSUME NEW k \in Core \ {0} PROVE (InTurn(core[0].pc, k))'
  BY Zenon, <1>3, <1>4 DEF Started, InTurn, SameTurn
<1> QED
  BY Zenon, <1>2, <1>3, <1>5, <1>6 DEF Started

(* The stacks stay, where the place of one core changes.                    *)
LEMMA StacksStay ==
  ASSUME StartInv, NEW c \in Core, Only(c), (OnStack(c))'
  PROVE  \A k \in Core : (OnStack(k))'
BY Zenon DEF StartInv, Only, OnStack

(* The steps of core 0 before it starts the others.                         *)
LEMMA FirstSteps ==
  ASSUME StartInv, NEW c \in Core, mbr' = mbr,
         (Reset(c) /\ c = 0) \/ configInit(c) \/ GlobalInit(c) \/ calibrate(c)
  PROVE  StartInv'
<1>1. /\ CoreTypes /\ core \in [Core -> CoreRec] /\ 0 \in Core /\ DOMAIN mbr = Registers
      /\ g.id \in Nat /\ g.id > 0 /\ g.running \in Nat /\ DOMAIN g = Globals
  BY Zenon, BootAssumption DEF StartInv, CoreTypes
<1>2. ASSUME NEW there \in Pcs, ToPc(0, there), core[0].pc \in Alone \cup {"calibrate"},
             there \in {"config", "global", "calibrate", "start"},
             g'.id = g.id, DOMAIN g' = Globals, g'.running \in Nat,
             (Counting(there))', core'[0].stack = 0
      PROVE  StartInv'
  <2>1. ~At(0, "panic") /\ core[0].pc # "wait" /\ there \notin {"panic", "off", "ap", "sti", "up"}
    BY <1>2 DEF At, Alone
  <2>2. Started /\ \A k \in Core : ~At(k, "panic")
    BY Zenon, <1>1, <2>1, NoPanic
  <2>3. Only(0) /\ core'[0].pc = there
    BY Zenon, <1>2 DEF ToPc
  <2>4. Started' /\ \A k \in Core : ~(At(k, "panic"))'
    BY Zenon, <1>2, <2>1, <2>2, <2>3, FirstMoves
  <2>5. CoreTypes'
    BY Zenon, <1>1, <1>2 DEF CoreTypes, ToPc
  <2>6. (OnStack(0))'
    BY Zenon, <1>2, <2>1, <2>3 DEF OnStack
  <2>7. \A k \in Core : (OnStack(k))'
    BY Zenon, <1>1, <2>3, <2>6, StacksStay
  <2> QED
    BY Zenon, <2>4, <2>5, <2>7 DEF Phases, StartInv
<1>3. ASSUME NEW here \in First, At(c, here)
      PROVE  c = 0 /\ core[0].pc = here /\ Counting(here)
  BY Zenon, <1>3, FirstCore DEF At, Started
<1>4. ASSUME NEW there \in Pcs, Goto(0, there), core[0].pc \in {"config", "global", "calibrate"}
      PROVE  ToPc(0, there) /\ core'[0].stack = 0
  <2>1. ToPc(0, there) /\ core'[0].stack = core[0].stack
    BY Zenon, <1>1, <1>4, GotoFacts DEF Kept
  <2>2. core[0].pc \notin {"off", "mbr", "reset", "panic"}
    BY <1>4
  <2>3. core[0].stack = 0
    BY Zenon, <1>1, <2>2 DEF StartInv, OnStack
  <2> QED
    BY Zenon, <2>1, <2>3
<1>5. /\ {"config", "global", "calibrate", "start"} \subseteq Pcs
      /\ {"config", "global", "calibrate"} \subseteq First
      /\ {"config", "global", "reset"} \subseteq Alone
      /\ "calibrate" \notin Alone /\ "start" \notin Alone \cup {"calibrate"} /\ "start" # "wait"
      /\ {"config", "global", "calibrate", "wait"} \cap ({"start"} \cup PerCore) = {}
      /\ {"config", "global", "calibrate", "start"} \cap {"wait"} = {}
  BY DEF Pcs, First, Alone, PerCore
<1>6. CASE Reset(c) /\ c = 0
  <2>1. core[0].pc = "reset" /\ core' = [core EXCEPT ![0].stack = pickKernelStack(0),
          ![0].pc = IF g.smpInitDone THEN "ap" ELSE "config"] /\ g' = g
    BY Zenon, <1>6 DEF Reset, At
  <2>2. ~At(0, "panic")
    BY <2>1 DEF At
  <2>3. Counting("reset")
    BY Zenon, <1>1, <2>1, <2>2, NoPanic DEF Started
  <2>4. ~g.smpInitDone
    BY Zenon, <1>5, <2>3 DEF Counting
  <2>5. core' = [core EXCEPT ![0].stack = 0, ![0].pc = "config"]
    BY Zenon, <2>1, <2>4 DEF pickKernelStack
  <2>6. core' \in [Core -> CoreRec] /\ core'[0].stack = 0 /\ core'[0].pc = "config"
    BY <1>1, <1>5, <2>5 DEF CoreRec
  <2>7. Only(0)
    BY Zenon, <1>1, <2>5 DEF Only
  <2>8. (Counting("config"))'
    BY Zenon, <1>5, <2>1, <2>3 DEF Counting
  <2>9. "config" \in Pcs /\ ToPc(0, "config") /\ core[0].pc \in Alone \cup {"calibrate"}
    BY Zenon, <1>5, <2>1, <2>6, <2>7 DEF ToPc
  <2> QED
    BY Zenon, <1>1, <1>2, <2>1, <2>6, <2>8, <2>9
<1>7. CASE configInit(c)
  <2>1. c = 0 /\ core[0].pc = "config" /\ Counting("config")
    BY Zenon, <1>3, <1>5, <1>7 DEF configInit
  <2>2. ToPc(0, "global") /\ core'[0].stack = 0
    BY Zenon, <1>4, <1>5, <1>7, <2>1 DEF configInit
  <2>3. DOMAIN g' = Globals /\ g'.id = g.id /\ g'.running = g.running
          /\ g'.smpInitDone = g.smpInitDone
    BY <1>1, <1>7 DEF configInit, Globals
  <2>4. (Counting("global"))'
    BY Zenon, <1>5, <2>1, <2>3 DEF Counting
  <2> QED
    BY Zenon, <1>1, <1>2, <1>5, <2>1, <2>2, <2>3, <2>4
<1>8. CASE GlobalInit(c)
  <2>1. c = 0 /\ core[0].pc = "global" /\ Counting("global")
    BY Zenon, <1>3, <1>5, <1>8 DEF GlobalInit
  <2>2. ToPc(0, "calibrate") /\ core'[0].stack = 0
    BY Zenon, <1>4, <1>5, <1>8, <2>1 DEF GlobalInit
  <2>3. DOMAIN g' = Globals /\ g'.id = g.id /\ g'.running = g.running /\ g'.smpInitDone = TRUE
    BY <1>1, <1>8 DEF GlobalInit, Globals
  <2>4. (Counting("calibrate"))'
    BY Zenon, <1>5, <2>1, <2>3 DEF Counting
  <2> QED
    BY Zenon, <1>1, <1>2, <1>5, <2>1, <2>2, <2>3, <2>4
<1>9. CASE calibrate(c)
  <2>1. c = 0 /\ core[0].pc = "calibrate" /\ Counting("calibrate")
    BY Zenon, <1>3, <1>5, <1>9 DEF calibrate
  <2>2. ToPc(0, "start") /\ core'[0].stack = 0
    BY Zenon, <1>4, <1>5, <1>9, <2>1 DEF calibrate
  <2>3. PICK diff \in Diffs : g' = [g EXCEPT !.apitCounter = diff \div hz, !.running = @ + 1]
    BY Zenon, <1>9 DEF calibrate
  <2>4. DOMAIN g' = Globals /\ g'.id = g.id /\ g'.running = g.running + 1
          /\ g'.smpInitDone = g.smpInitDone
    BY <1>1, <2>3 DEF Globals
  <2>5. g.id = 1 /\ g.running = 0 /\ 0 + 1 = 1 /\ 1 \in Nat
    BY <2>1 DEF Counting
  <2>6. (Counting("start"))'
    BY Zenon, <1>5, <2>1, <2>4, <2>5 DEF Counting
  <2> QED
    BY Zenon, <1>1, <1>2, <1>5, <2>1, <2>2, <2>4, <2>5, <2>6
<1> QED
  BY Zenon, <1>6, <1>7, <1>8, <1>9

(* Core 0 resets the core whose turn it is, or goes on itself.              *)
LEMMA StartNextStep ==
  ASSUME StartInv, NEW c \in Core, mbr' = mbr, StartNext(c)
  PROVE  StartInv'
<1>1. /\ CoreTypes /\ core \in [Core -> CoreRec] /\ 0 \in Core /\ DOMAIN mbr = Registers
      /\ g.id \in Nat /\ g.id > 0 /\ g.running \in Nat /\ DOMAIN g = Globals /\ g' = g
  BY Zenon, BootAssumption DEF StartInv, CoreTypes, StartNext
<1>2. "start" \in First /\ {"alloc", "wait", "reset"} \subseteq Pcs
  BY DEF First, Pcs, PerCore, Later
<1>3. c = 0 /\ core[0].pc = "start" /\ Started /\ Counting("start")
  BY Zenon, <1>2, FirstCore DEF StartNext, At, Started
<1>4. ~At(0, "panic") /\ core[0].pc # "wait"
  BY <1>3 DEF At
<1>5. \A k \in Core : ~At(k, "panic")
  BY Zenon, <1>1, <1>4, NoPanic
<1>6. core[0].stack = 0
  BY <1>1, <1>3 DEF StartInv, OnStack
<1>7. /\ g.smpInitDone /\ g.running = g.id
      /\ {"alloc", "wait"} \cap Alone = {} /\ {"alloc", "wait"} \cap {"calibrate"} = {}
      /\ "wait" \notin {"start"} \cup PerCore /\ "alloc" # "wait"
      /\ {"alloc", "wait"} \cap {"panic", "off", "ap", "sti", "up"} = {}
      /\ {"off", "reset"} \subseteq Later
  BY <1>3 DEF Counting, Alone, PerCore, Later
<1>8. CASE Only(0) /\ core' \in [Core -> CoreRec] /\ core'[0].stack = 0 /\ core'[0].pc \in {"alloc", "wait"}
  <2>1. PICK there \in {"alloc", "wait"} : core'[0].pc = there
    BY Zenon, <1>8
  <2>2. ASSUME g.id \in Core PROVE core'[g.id].pc \in Later
    <3>1. g.id # 0
      BY <1>1
    <3>2. core[g.id].pc = "off"
      BY Zenon, <1>3, <1>4, <2>2, <3>1 DEF Started, InTurn
    <3> QED
      BY Zenon, <1>7, <1>8, <2>2, <3>1, <3>2 DEF Only
  <2>3. (Counting(there))'
    BY Zenon, <1>1, <1>7, <2>1, <2>2 DEF Counting
  <2>4. there \in Pcs /\ there \notin {"panic", "off", "ap"}
    BY Zenon, <1>2, <1>7, <2>1
  <2>5. Started' /\ \A k \in Core : ~(At(k, "panic"))'
    BY Zenon, <1>1, <1>3, <1>4, <1>5, <1>8, <2>1, <2>3, <2>4, FirstMoves
  <2>6. (OnStack(0))'
    BY Zenon, <1>7, <1>8, <2>1 DEF OnStack
  <2>7. \A k \in Core : (OnStack(k))'
    BY Zenon, <1>1, <1>8, <2>6, StacksStay
  <2>8. CoreTypes'
    BY Zenon, <1>1, <1>8 DEF CoreTypes
  <2> QED
    BY Zenon, <2>5, <2>7, <2>8 DEF StartInv, Phases
<1>9. ASSUME NEW there \in {"alloc", "wait"}, core' = [core EXCEPT ![0].pc = there]
      PROVE  StartInv'
  <2>1. there \in Pcs
    BY Zenon, <1>2
  <2>2. ToPc(0, there) /\ Kept(0)
    BY Zenon, <1>1, <1>9, <2>1, GotoFacts DEF Goto
  <2> QED
    BY Zenon, <1>6, <1>8, <2>2 DEF ToPc, Kept
<1>10. CASE g.id \in Core /\ core' = [core EXCEPT ![0].pc = "wait", ![g.id].pc = "reset"]
  <2>1. g.id # 0 /\ core[g.id].pc = "off"
    <3>1. g.id # 0
      BY <1>1
    <3> QED
      BY Zenon, <1>3, <1>4, <1>10, <3>1 DEF Started, InTurn
  <2>2. core' \in [Core -> CoreRec]
    BY <1>1, <1>2, <1>10 DEF CoreRec
  <2>3. /\ core'[0].pc = "wait" /\ core'[g.id].pc = "reset"
        /\ core'[0].stack = core[0].stack /\ core'[g.id].stack = core[g.id].stack
        /\ \A k \in Core \ {0, g.id} : core'[k] = core[k]
    BY <1>1, <1>10, <2>1 DEF CoreRec
  <2>4. CoreTypes'
    BY Zenon, <1>1, <2>2 DEF CoreTypes
  <2>5. ASSUME NEW k \in Core PROVE (OnStack(k))' /\ ~(At(k, "panic"))'
    <3>1. CASE k \in {0, g.id}
      <4>1. core'[k].stack = core[k].stack /\ core[k].stack \in {None, k}
        BY Zenon, <1>10, <2>3, <3>1 DEF StartInv, OnStack
      <4>2. core'[k].pc \notin {"sti", "up", "panic"}
        BY <2>3, <3>1
      <4>3. k = 0 \/ core'[k].pc = "reset"
        BY Zenon, <2>3, <3>1
      <4> QED
        BY Zenon, <1>6, <4>1, <4>2, <4>3 DEF OnStack, At
    <3>2. CASE k \notin {0, g.id}
      BY Zenon, <1>5, <2>3, <3>2 DEF StartInv, OnStack, At
    <3> QED
      BY Zenon, <3>1, <3>2
  <2>6. (Counting(core[0].pc))'
    BY Zenon, <1>1, <1>7, <1>10, <2>3 DEF Counting
  <2>7. ASSUME NEW k \in Core \ {0} PROVE (InTurn(core[0].pc, k))'
    <3>1. CASE k = g.id
      <4>1. "reset" \notin First /\ ~ (g.id < g.id) /\ ~ (g.id > g.id)
        BY <1>1 DEF First
      <4> QED
        BY Zenon, <1>1, <2>3, <3>1, <4>1 DEF InTurn
    <3>2. CASE k # g.id
      <4>1. core'[k] = core[k] /\ InTurn(core[0].pc, k)
        BY Zenon, <1>3, <2>3, <3>2 DEF Started
      <4> QED
        BY Zenon, <1>1, <3>2, <4>1 DEF InTurn
    <3> QED
      BY Zenon, <3>1, <3>2
  <2>8. core'[0].pc \notin {"off", "ap"}
    BY <2>3
  <2>9. Started'
    BY Zenon, <2>6, <2>7, <2>8 DEF Started
  <2> QED
    BY Zenon, <2>4, <2>5, <2>9 DEF StartInv, Phases
<1>11. CASE g.id \notin Core /\ core' = [core EXCEPT ![0].pc = "wait", ![g.id].pc = "reset"]
  <2>1. core' = [core EXCEPT ![0].pc = "wait"]
    BY <1>1, <1>11 DEF CoreRec
  <2> QED
    BY Zenon, <1>9, <2>1
<1> QED
  BY Zenon, <1>3, <1>9, <1>10, <1>11 DEF StartNext

(* The core that core 0 waits for: it is reset, and it counts itself.       *)
LEMMA NextSteps ==
  ASSUME StartInv, NEW c \in Core, mbr' = mbr, (Reset(c) /\ c # 0) \/ Running(c)
  PROVE  StartInv'
<1>1. /\ CoreTypes /\ core \in [Core -> CoreRec] /\ 0 \in Core /\ DOMAIN mbr = Registers
      /\ g.id \in Nat /\ g.id > 0 /\ g.running \in Nat /\ DOMAIN g = Globals
  BY Zenon, BootAssumption DEF StartInv, CoreTypes
<1>2. {"reset", "ap"} \subseteq Later \ {"off"} /\ {"reset", "ap", "alloc"} \subseteq Pcs
        /\ "alloc" \notin Later /\ {"ap", "alloc"} \cap First = {}
        /\ {"reset", "ap", "alloc"} \cap {"sti", "up", "panic"} = {} /\ "wait" # "start"
        /\ "wait" \notin {"start"} \cup PerCore /\ "wait" \notin Alone \cup {"calibrate"}
  BY DEF Later, Pcs, PerCore, First, Alone
<1>3. c # 0 /\ core[c].pc \in Later \ {"off"}
  <2>1. CASE Reset(c) /\ c # 0
    BY Zenon, <1>2, <2>1 DEF Reset, At
  <2>2. CASE Running(c)
    <3>1. core[c].pc = "ap"
      BY Zenon, <2>2 DEF Running, At
    <3>2. ~At(c, "panic") /\ "ap" \in {"off", "ap"}
      BY <3>1 DEF At
    <3>3. core[0].pc # "ap"
      BY Zenon, <3>2, NoPanic DEF Started
    <3> QED
      BY Zenon, <1>2, <3>1, <3>3
  <2> QED
    BY Zenon, <2>1, <2>2
<1>4. c = g.id /\ core[0].pc = "wait" /\ Started
  BY Zenon, <1>3, NextCore
<1>5. ~At(0, "panic")
  BY <1>4 DEF At
<1>6. \A k \in Core : ~At(k, "panic")
  BY Zenon, <1>1, <1>5, NoPanic
<1>7. g.running = g.id
  BY Zenon, <1>2, <1>3, <1>4 DEF Started, Counting
<1>0. g.smpInitDone
  BY Zenon, <1>2, <1>4 DEF Started, Counting
<1>8. ASSUME NEW there \in {"ap", "alloc"}, ToPc(c, there), core'[c].stack = c, DOMAIN g' = Globals,
             g'.id = g.id, g'.smpInitDone = g.smpInitDone, g'.running \in Nat,
             there = "ap" => g'.running = g.id, there = "alloc" => g'.running = g.id + 1
      PROVE  StartInv'
  <2>1. core'[0] = core[0] /\ core'[c].pc = there /\ Only(c)
    BY Zenon, <1>1, <1>3, <1>8 DEF ToPc, Only
  <2>2. (Counting(core[0].pc))'
    BY Zenon, <1>0, <1>2, <1>4, <1>8, <2>1 DEF Counting
  <2>3. ASSUME NEW k \in Core \ {0} PROVE (InTurn(core[0].pc, k))' /\ ~(At(k, "panic"))'
    <3>1. CASE k = c
      <4>1. ~ (c < g.id) /\ ~ (c > g.id)
        BY <1>1, <1>4
      <4> QED
        BY Zenon, <1>2, <1>4, <1>8, <2>1, <3>1, <4>1 DEF InTurn, At
    <3>2. CASE k # c
      <4>1. core'[k] = core[k] /\ InTurn(core[0].pc, k)
        BY Zenon, <1>4, <2>1, <3>2 DEF Started, Only
      <4> QED
        BY Zenon, <1>6, <1>8, <2>1, <4>1 DEF InTurn, At
    <3> QED
      BY Zenon, <3>1, <3>2
  <2>4. Started' /\ \A k \in Core : ~(At(k, "panic"))'
    BY Zenon, <1>4, <1>5, <2>1, <2>2, <2>3 DEF Started, At
  <2>5. (OnStack(c))'
    BY Zenon, <1>2, <1>8, <2>1 DEF OnStack
  <2>6. \A k \in Core : (OnStack(k))'
    BY Zenon, <2>1, <2>5, StacksStay
  <2>7. CoreTypes'
    BY Zenon, <1>1, <1>8 DEF CoreTypes, ToPc
  <2> QED
    BY Zenon, <2>4, <2>6, <2>7 DEF StartInv, Phases
<1>9. CASE Reset(c)
  <2>1. core' = [core EXCEPT ![c].stack = c, ![c].pc = "ap"] /\ g' = g
    BY Zenon, <1>0, <1>9 DEF Reset, pickKernelStack
  <2>2. core' \in [Core -> CoreRec] /\ core'[c].stack = c /\ core'[c].pc = "ap"
    BY <1>1, <1>2, <2>1 DEF CoreRec
  <2>3. Only(c)
    BY Zenon, <1>1, <2>1 DEF Only
  <2>4. "ap" # "alloc"
    OBVIOUS
  <2> QED
    BY Zenon, <1>1, <1>7, <1>8, <2>1, <2>2, <2>3, <2>4 DEF ToPc
<1>10. CASE Running(c)
  <2>1. ToPc(c, "alloc") /\ Kept(c) /\ core[c].pc = "ap"
    BY Zenon, <1>1, <1>2, <1>10, GotoFacts DEF Running, At
  <2>2. core[c].stack = c /\ "ap" # "alloc"
    BY <2>1 DEF StartInv, OnStack
  <2>3. g' = [g EXCEPT !.running = @ + 1]
    BY Zenon, <1>10 DEF Running
  <2>4. DOMAIN g' = Globals /\ g'.id = g.id /\ g'.smpInitDone = g.smpInitDone
          /\ g'.running = g.id + 1 /\ g'.running \in Nat
    BY <1>1, <1>7, <2>3 DEF Globals
  <2> QED
    BY Zenon, <1>8, <2>1, <2>2, <2>4 DEF Kept
<1> QED
  BY Zenon, <1>9, <1>10

(* Core 0 has seen the next core count itself.                              *)
LEMMA WaitStep ==
  ASSUME StartInv, NEW c \in Core, mbr' = mbr, Wait(c)
  PROVE  StartInv'
<1>1. /\ CoreTypes /\ core \in [Core -> CoreRec] /\ 0 \in Core /\ DOMAIN mbr = Registers
      /\ g.id \in Nat /\ g.id > 0 /\ g.running \in Nat /\ DOMAIN g = Globals
  BY Zenon, BootAssumption DEF StartInv, CoreTypes
<1>2. "wait" \in First /\ "start" \in Pcs /\ "start" \notin Alone \cup {"calibrate"}
        /\ "start" # "wait" /\ "start" \notin {"off", "ap", "sti", "up", "panic"} /\ "wait" \notin Alone
        /\ "wait" \notin {"off", "mbr", "reset", "panic"}
  BY DEF First, Pcs, Alone
<1>3. c = 0 /\ core[0].pc = "wait" /\ Started /\ Counting("wait")
  BY Zenon, <1>2, FirstCore DEF Wait, At, Started
<1>4. ~At(0, "panic")
  BY Zenon, <1>2, <1>3 DEF At
<1>5. \A k \in Core : ~At(k, "panic")
  BY Zenon, <1>1, <1>4, NoPanic
<1>6. ToPc(0, "start") /\ Kept(0) /\ core[0].stack = 0
  BY Zenon, <1>1, <1>2, <1>3, GotoFacts DEF Wait, StartInv, OnStack
<1>7. g' = [g EXCEPT !.id = @ + 1] /\ g.running > g.id
  BY Zenon, <1>3 DEF Wait
<1>8. DOMAIN g' = Globals /\ g'.id = g.id + 1 /\ g'.smpInitDone = g.smpInitDone /\ g'.running = g.running
  BY <1>1, <1>7 DEF Globals
<1>9. g.running # g.id
  BY <1>1, <1>7
<1>10. g.id \in Core /\ core[g.id].pc \notin Later /\ g.running = g.id + 1 /\ g.smpInitDone
  BY Zenon, <1>2, <1>3, <1>9 DEF Counting
<1>11. Only(0) /\ core'[0].pc = "start" /\ core'[0].stack = 0
  BY Zenon, <1>6 DEF ToPc, Kept
<1>12. (Counting(core[0].pc))'
  BY Zenon, <1>2, <1>8, <1>10, <1>11 DEF Counting
<1>13. ASSUME NEW k \in Core \ {0} PROVE (InTurn(core[0].pc, k))' /\ ~(At(k, "panic"))'
  <2>1. core'[k] = core[k] /\ InTurn("wait", k) /\ k \in Nat
    BY Zenon, <1>3, <1>11, BootAssumption DEF Started, Only
  <2>2. k < g.id + 1 <=> k < g.id \/ k = g.id
    BY <1>1, <2>1
  <2>3. k > g.id + 1 \/ k = g.id + 1 <=> k > g.id
    BY <1>1, <2>1
  <2>4. (InTurn(core[0].pc, k))'
    BY Zenon, <1>8, <1>10, <2>1, <2>2, <2>3 DEF InTurn
  <2> QED
    BY Zenon, <1>5, <2>1, <2>4 DEF At
<1>14. Started' /\ \A k \in Core : ~(At(k, "panic"))'
  BY Zenon, <1>2, <1>11, <1>12, <1>13 DEF Started, At
<1>15. (OnStack(0))'
  BY Zenon, <1>2, <1>11 DEF OnStack
<1>16. \A k \in Core : (OnStack(k))'
  BY Zenon, <1>1, <1>11, <1>15, StacksStay
<1>17. g.id + 1 \in Nat /\ g.id + 1 > 0
  BY <1>1
<1>18. CoreTypes'
  BY Zenon, <1>1, <1>6, <1>8, <1>17 DEF CoreTypes, ToPc
<1> QED
  BY Zenon, <1>14, <1>16, <1>18 DEF StartInv, Phases

(* A step of per_core_init, or of what follows it.                          *)
LEMMA PerCoreStep ==
  ASSUME StartInv, NEW c \in Core, core[c].pc \in PerCore, NEW there \in PerCore, ToPc(c, there),
         core'[c].stack = core[c].stack, there \in {"sti", "up"} => core'[c].esp0 = c,
         SameTurn, DOMAIN g' = DOMAIN g, mbr' = mbr
  PROVE  StartInv'
<1>1. ~At(c, "panic")
  BY Zenon, Places DEF At
<1>2. Started /\ \A k \in Core : ~At(k, "panic")
  BY Zenon, <1>1, NoPanic
<1>3. Only(c) /\ core'[c].pc = there
  BY Zenon DEF ToPc
<1>4. Started' /\ \A k \in Core : ~(At(k, "panic"))'
  BY Zenon, <1>2, <1>3, LaterMoves
<1>5. PerCore \cap {"off", "mbr", "reset", "panic"} = {}
  BY DEF PerCore
<1>6. core[c].stack = c
  BY Zenon, <1>5 DEF StartInv, OnStack
<1>7. (OnStack(c))'
  BY Zenon, <1>3, <1>6 DEF OnStack
<1>8. \A k \in Core : (OnStack(k))'
  BY Zenon, <1>3, <1>7, StacksStay
<1>9. CoreTypes'
  BY Zenon DEF StartInv, CoreTypes, ToPc, SameTurn
<1> QED
  BY Zenon, <1>4, <1>8, <1>9 DEF StartInv, Phases

(* The steps of a core in kernelInit, once it is on its own.                *)
LEMMA PerCoreSteps ==
  ASSUME StartInv, DirTypes, NEW c \in Core, mbr' = mbr,
         Alloc(c) \/ Fill(c) \/ vmm_on(c) \/ Tss(c) \/ Arrive(c)
  PROVE  StartInv'
<1>1. /\ CoreTypes /\ core \in [Core -> CoreRec] /\ 0 \in Core /\ DOMAIN g = Globals
  BY Zenon, BootAssumption DEF StartInv, CoreTypes
<1>2. /\ {"alloc", "fill", "on", "pit", "tss", "sti", "up"} \subseteq PerCore
      /\ PerCore \subseteq Pcs /\ {"fill", "on", "pit", "tss"} \cap {"sti", "up"} = {}
  BY DEF PerCore, Pcs
<1>3. CASE Alloc(c)
  <2>1. ToPc(c, "fill") /\ Kept(c) /\ core[c].pc \in PerCore
    BY Zenon, <1>1, <1>2, <1>3, GotoFacts DEF Alloc, At
  <2>2. SameTurn /\ DOMAIN g' = DOMAIN g
    BY <1>1, <1>3 DEF Alloc, Globals, SameTurn
  <2> QED
    BY Zenon, <1>2, <2>1, <2>2, PerCoreStep DEF Kept
<1>4. CASE Fill(c)
  <2> DEFINE there == IF core[c].filled + 1 = 3 THEN "on" ELSE "fill"
  <2>0. Len(Parts) = 3
    BY DEF Parts
  <2>1. core' = [core EXCEPT ![c].filled = @ + 1, ![c].pc = there] /\ core[c].pc = "fill"
    BY Zenon, <1>4, <2>0 DEF Fill, At
  <2> HIDE DEF there
  <2>2. there \in PerCore /\ there \in Pcs /\ there \notin {"sti", "up"}
    BY Zenon, <1>2 DEF there
  <2>6. PICK n \in Nat : n = core[c].filled + 1
    BY <1>1 DEF CoreRec
  <2>7. core' = [core EXCEPT ![c].filled = n, ![c].pc = there]
    BY Zenon, <2>1, <2>6
  <2>3. core' \in [Core -> CoreRec] /\ core'[c].pc = there /\ core'[c].stack = core[c].stack
    BY <1>1, <2>2, <2>7 DEF CoreRec
  <2>4. Only(c)
    BY Zenon, <1>1, <2>1 DEF Only
  <2>5. SameTurn /\ DOMAIN g' = DOMAIN g
    BY Zenon, <1>4 DEF Fill, SameTurn
  <2> QED
    BY Zenon, <1>2, <2>1, <2>2, <2>3, <2>4, <2>5, PerCoreStep DEF ToPc
<1>5. CASE vmm_on(c)
  <2>1. /\ core' = [core EXCEPT ![c].cr3 = g.page_directory, ![c].filled = 0, ![c].pc = "pit"]
        /\ core[c].pc \in PerCore /\ g' = g /\ "pit" \in Pcs
    BY Zenon, <1>2, <1>5 DEF vmm_on, At
  <2>2. g.page_directory \in Nat
    BY Zenon DEF DirTypes
  <2>3. core' \in [Core -> CoreRec] /\ core'[c].pc = "pit" /\ core'[c].stack = core[c].stack
    BY <1>1, <2>1, <2>2 DEF CoreRec
  <2>4. Only(c)
    BY Zenon, <1>1, <2>1 DEF Only
  <2> QED
    BY Zenon, <1>2, <2>1, <2>3, <2>4, PerCoreStep DEF ToPc, SameTurn
<1>6. CASE Tss(c)
  <2>1. /\ core' = [core EXCEPT ![c].esp0 = pickKernelStack(c), ![c].pc = "sti"]
        /\ core[c].pc = "tss" /\ g' = g /\ "sti" \in Pcs
    BY Zenon, <1>2, <1>6 DEF Tss, At
  <2>2. ~At(c, "panic") /\ "tss" \notin First \cup Later
    BY <2>1 DEF At, First, Later
  <2>3. Started
    BY Zenon, <2>2, NoPanic
  <2>4. pickKernelStack(c) = c
    <3>1. CASE c = 0
      BY Zenon, <3>1 DEF pickKernelStack
    <3>2. CASE core[0].pc \notin Alone
      BY Zenon, <2>3, <3>2 DEF Started, Counting, pickKernelStack
    <3>3. CASE c # 0 /\ core[0].pc \in Alone
      <4>1. g.id = 1 /\ InTurn(core[0].pc, c) /\ c \in Nat /\ core[0].pc # "wait"
        BY Zenon, <2>3, <3>3, BootAssumption, Places DEF Started, Counting
      <4>2. c > g.id \/ c = g.id
        BY <3>3, <4>1
      <4>3. core[c].pc = "off"
        BY Zenon, <4>1, <4>2 DEF InTurn
      <4> QED
        BY <2>1, <4>3
    <3> QED
      BY Zenon, <3>1, <3>2, <3>3
  <2>5. core' = [core EXCEPT ![c].esp0 = c, ![c].pc = "sti"]
    BY Zenon, <2>1, <2>4
  <2>6. core' \in [Core -> CoreRec] /\ core'[c].pc = "sti" /\ core'[c].stack = core[c].stack
          /\ core'[c].esp0 = c
    BY <1>1, <2>1, <2>5 DEF CoreRec
  <2>7. Only(c)
    BY Zenon, <1>1, <2>5 DEF Only
  <2> QED
    BY Zenon, <1>2, <2>1, <2>6, <2>7, PerCoreStep DEF ToPc, SameTurn
<1>7. CASE Arrive(c)
  <2>1. ToPc(c, "up") /\ Kept(c) /\ core[c].pc = "sti"
    BY Zenon, <1>1, <1>2, <1>7, GotoFacts DEF Arrive, At
  <2>2. SameTurn /\ DOMAIN g' = DOMAIN g
    BY <1>1, <1>7 DEF Arrive, Globals, SameTurn
  <2>3. core'[c].esp0 = c /\ core'[c].stack = core[c].stack
    BY Zenon, <2>1 DEF StartInv, OnStack, Kept
  <2> QED
    BY Zenon, <1>2, <2>1, <2>2, <2>3, PerCoreStep
<1> QED
  BY Zenon, <1>3, <1>4, <1>5, <1>6, <1>7

(* Pit::init moves on, or stops the machine.                                *)
LEMMA PitStep ==
  ASSUME StartInv, NEW c \in Core, mbr' = mbr, PitInit(c)
  PROVE  StartInv'
<1>1. /\ CoreTypes /\ core \in [Core -> CoreRec] /\ g' = g /\ core[c].pc = "pit"
      /\ {"pit", "tss"} \subseteq PerCore /\ {"tss", "panic"} \subseteq Pcs
  <2>1. {"pit", "tss"} \subseteq PerCore /\ {"tss", "panic"} \subseteq Pcs
    BY DEF PerCore, Pcs
  <2> QED
    BY Zenon, <2>1 DEF StartInv, CoreTypes, PitInit, At
<1>2. CASE core' = [core EXCEPT ![c].pc = "tss"]
  <2>1. ToPc(c, "tss") /\ Kept(c)
    BY Zenon, <1>1, <1>2, GotoFacts DEF Goto
  <2>2. "tss" \notin {"sti", "up"}
    OBVIOUS
  <2> QED
    BY Zenon, <1>1, <2>1, <2>2, PerCoreStep DEF Kept, SameTurn
<1>3. CASE core' = [k \in Core |-> [core[k] EXCEPT !.pc = "panic"]]
  <2>1. core' \in [Core -> CoreRec]
    BY <1>1, <1>3 DEF CoreRec
  <2>2. \A k \in Core : core'[k].pc = "panic" /\ core'[k].stack = core[k].stack
    BY <1>1, <1>3 DEF CoreRec
  <2>3. "panic" \notin {"sti", "up"}
    OBVIOUS
  <2>4. \A k \in Core : (OnStack(k))'
    BY Zenon, <2>2, <2>3 DEF StartInv, OnStack
  <2>5. CoreTypes'
    BY Zenon, <1>1, <2>1 DEF CoreTypes
  <2> QED
    BY Zenon, <2>2, <2>4, <2>5 DEF StartInv, Phases, At
<1> QED
  BY Zenon, <1>2, <1>3 DEF PitInit

(* The boot sector jumps to the kernel.                                     *)
LEMMA LoadStarts ==
  ASSUME StartInv, Load
  PROVE  StartInv'
<1>1. /\ CoreTypes /\ core \in [Core -> CoreRec] /\ g' = g /\ 0 \in Core /\ core[0].pc = "mbr"
      /\ DOMAIN mbr = Registers
  BY Zenon, BootAssumption DEF StartInv, CoreTypes, Load, LoadSector, Jump, At
<1>2. CASE LoadSector
  <2>1. DOMAIN mbr' = DOMAIN mbr /\ core' = core
    BY <1>1, <1>2 DEF LoadSector, Registers
  <2>2. CoreTypes'
    BY Zenon, <1>1, <2>1 DEF CoreTypes
  <2>3. \A k \in Core : (OnStack(k))'
    BY Zenon, <2>1 DEF StartInv, OnStack
  <2>4. Phases'
    BY Zenon, <1>1, <2>1 DEF StartInv, Phases, Started, Counting, InTurn, At
  <2> QED
    BY Zenon, <2>2, <2>3, <2>4 DEF StartInv
<1>3. CASE Jump
  <2>1. "reset" \in Pcs /\ "mbr" \in First /\ "reset" \in Alone /\ "mbr" \in Alone
          /\ "reset" \notin {"start"} \cup PerCore /\ "reset" # "wait" /\ "mbr" # "wait"
          /\ "reset" \notin {"sti", "up", "panic", "off", "ap"}
    BY DEF Pcs, Later, Alone, First, PerCore
  <2>2. ToPc(0, "reset") /\ Kept(0)
    BY Zenon, <1>1, <1>3, <2>1, GotoFacts DEF Jump
  <2>3. DOMAIN mbr' = Registers
    BY <1>3 DEF Jump, NoSectors, Registers
  <2>4. CoreTypes'
    BY Zenon, <1>1, <2>2, <2>3 DEF CoreTypes, ToPc
  <2>5. Only(0) /\ core'[0].pc = "reset" /\ core'[0].stack = core[0].stack
    BY Zenon, <2>2 DEF ToPc, Kept
  <2>6. Started /\ \A k \in Core : ~At(k, "panic")
    BY Zenon, <1>1, <2>1, FirstCore, NoPanic, Places DEF At
  <2>7. (Counting("reset"))'
    BY Zenon, <1>1, <2>1, <2>6 DEF Started, Counting
  <2>8. Started' /\ \A k \in Core : ~(At(k, "panic"))'
    BY Zenon, <1>1, <2>1, <2>5, <2>6, <2>7, FirstMoves
  <2>9. (OnStack(0))'
    BY Zenon, <1>1, <2>1, <2>5 DEF StartInv, OnStack
  <2>10. \A k \in Core : (OnStack(k))'
    BY Zenon, <1>1, <2>5, <2>9, StacksStay
  <2> QED
    BY Zenon, <2>4, <2>8, <2>10 DEF StartInv, Phases
<1> QED
  BY Zenon, <1>2, <1>3 DEF Load

(* No step of the machine breaks the start of the cores.                    *)
LEMMA StartStep ==
  ASSUME StartInv, DirTypes, [Next]_vars
  PROVE  StartInv'
<1>1. CASE UNCHANGED bootVars
  <2>1. core' = core /\ g' = g /\ mbr' = mbr
    BY Zenon, <1>1 DEF bootVars
  <2>2. CoreTypes'
    BY Zenon, <2>1 DEF StartInv, CoreTypes
  <2>3. \A k \in Core : (OnStack(k))'
    BY Zenon, <2>1 DEF StartInv, OnStack
  <2>4. Phases'
    BY Zenon, <2>1 DEF StartInv, Phases, Started, Counting, InTurn, At
  <2> QED
    BY Zenon, <2>2, <2>3, <2>4 DEF StartInv
<1>2. CASE Load
  BY Zenon, <1>2, LoadStarts
<1>3. ASSUME NEW c \in Core, Starting(c) PROVE StartInv'
  <2>1. mbr' = mbr
    BY Zenon, <1>3 DEF Starting
  <2> QED
    BY Zenon, <1>3, <2>1, FirstSteps, StartNextStep, NextSteps, WaitStep, PerCoreSteps, PitStep
       DEF Starting
<1>4. ASSUME NEW c \in Core, Arriving(c) PROVE StartInv'
  BY Zenon, <1>4, PerCoreSteps DEF Arriving
<1>5. UNCHANGED vars => UNCHANGED bootVars
  BY Zenon DEF vars
<1> QED
  BY Zenon, <1>1, <1>2, <1>3, <1>4, <1>5 DEF Next, Ticking, Up

----------------------------------------------------------------------------
(* The page directories.  A step that does not touch them, nor a core that  *)
(* fills one in, except by a panic.                                         *)
Elsewhere(k) ==
  /\ core'[k].cr3 = core[k].cr3 /\ core'[k].filled = core[k].filled
  /\ \/ core'[k].pc = core[k].pc \/ core'[k].pc = "panic"
     \/ core[k].pc \notin {"fill", "on", "panic"} /\ core'[k].pc \notin {"fill", "on", "panic"}
Quiet ==
  /\ dir' = dir /\ g'.page_directory = g.page_directory /\ g'.raced = g.raced
  /\ \A k \in Core : Elsewhere(k)

(* Such a step leaves them as they are.                                     *)
LEMMA QuietKeeps ==
  ASSUME DirTypes, DirInv, Quiet
  PROVE  DirTypes' /\ DirInv'
<1>1. \A k \in Core : (Setting(k))' => Setting(k) /\ core'[k].pc = core[k].pc
  <2>1. "panic" \notin {"fill", "on"}
    OBVIOUS
  <2> QED
    BY Zenon, <2>1 DEF Quiet, Elsewhere, Setting
<1>2. DirTypes'
  <2>1. ASSUME NEW c \in Core
        PROVE  /\ (At(c, "fill"))' => core'[c].filled \in 0 .. 2
               /\ (At(c, "on"))' => core'[c].filled = 3
               /\ ~(Setting(c))' /\ ~(At(c, "panic"))' => core'[c].filled = 0
    <3>1. Elsewhere(c) /\ "panic" # "fill" /\ "panic" # "on"
      BY DEF Quiet
    <3> QED
      BY Zenon, <3>1 DEF Elsewhere, DirTypes, At, Setting
  <2> QED
    BY Zenon, <2>1 DEF DirTypes, Quiet
<1>3. ASSUME ~g'.raced
      PROVE  /\ \A c, k \in Core : ((Setting(c))' /\ (Setting(k))') \/ (Alike(c, k))' => c = k
             /\ \A c \in Core :
                /\ core'[c].cr3 \in 0 .. Len(dir')
                /\ core'[c].cr3 # 0 => dir'[core'[c].cr3] = Whole
                /\ (Setting(c))' => /\ g'.page_directory = Len(dir') /\ Len(dir') > 0
                                    /\ \A k \in Core : core'[k].cr3 # Len(dir')
                                    /\ dir'[Len(dir')] = Upto(core'[c].filled)
  <2>1. ~g.raced /\ dir' = dir /\ g'.page_directory = g.page_directory
    BY Zenon, <1>3 DEF Quiet
  <2>2. \A k \in Core : core'[k].cr3 = core[k].cr3 /\ core'[k].filled = core[k].filled
    BY Zenon DEF Quiet, Elsewhere
  <2>3. ASSUME NEW c \in Core, NEW k \in Core, ((Setting(c))' /\ (Setting(k))') \/ (Alike(c, k))'
        PROVE  c = k
    BY Zenon, <1>1, <2>1, <2>2, <2>3 DEF DirInv, Alike
  <2>4. ASSUME NEW c \in Core
        PROVE  /\ core'[c].cr3 \in 0 .. Len(dir')
               /\ core'[c].cr3 # 0 => dir'[core'[c].cr3] = Whole
    BY Zenon, <2>1, <2>2 DEF DirInv
  <2>5. ASSUME NEW c \in Core, (Setting(c))'
        PROVE  /\ g'.page_directory = Len(dir') /\ Len(dir') > 0
               /\ \A k \in Core : core'[k].cr3 # Len(dir')
               /\ dir'[Len(dir')] = Upto(core'[c].filled)
    BY Zenon, <1>1, <2>1, <2>2, <2>5 DEF DirInv
  <2> QED
    BY Zenon, <2>3, <2>4, <2>5
<1>4. DirInv'
  BY Zenon, <1>3 DEF DirInv
<1> QED
  BY Zenon, <1>2, <1>4

(* Most steps are such steps.                                               *)
LEMMA QuietMove ==
  ASSUME NEW c \in Core, Only(c), core'[c].cr3 = core[c].cr3, core'[c].filled = core[c].filled,
         core[c].pc \notin {"fill", "on", "panic"}, core'[c].pc \notin {"fill", "on", "panic"},
         dir' = dir, g'.page_directory = g.page_directory, g'.raced = g.raced
  PROVE  Quiet
BY Zenon DEF Quiet, Elsewhere, Only

(* Which: all but those of per_core_init.                                   *)
LEMMA QuietSteps ==
  ASSUME StartInv, NEW c \in Core, dir' = dir,
         Reset(c) \/ configInit(c) \/ GlobalInit(c) \/ calibrate(c) \/ StartNext(c) \/ Wait(c)
           \/ Running(c) \/ PitInit(c) \/ Tss(c) \/ Arrive(c)
  PROVE  Quiet
<1>1. CoreTypes /\ core \in [Core -> CoreRec] /\ DOMAIN g = Globals
  BY Zenon DEF StartInv, CoreTypes
<1>2. {"config", "ap", "global", "calibrate", "start", "wait", "alloc", "reset", "pit", "tss",
        "sti", "up", "off"} \cap {"fill", "on", "panic"} = {}
  OBVIOUS
<1>3. {"config", "ap", "global", "calibrate", "start", "wait", "alloc", "reset", "tss", "sti", "up"}
        \subseteq Pcs
  BY DEF Pcs, First, Later, PerCore
<1>4. ASSUME NEW here \in Pcs \ {"fill", "on", "panic"}, NEW there \in Pcs \ {"fill", "on", "panic"},
             At(c, here), Goto(c, there), g'.page_directory = g.page_directory, g'.raced = g.raced
      PROVE  Quiet
  <2>1. ToPc(c, there) /\ Kept(c)
    BY Zenon, <1>1, <1>4, GotoFacts
  <2> QED
    BY Zenon, <1>4, <2>1, QuietMove DEF ToPc, Kept, At
<1>5. CASE configInit(c)
  <2>1. g'.page_directory = g.page_directory /\ g'.raced = g.raced
    BY <1>1, <1>5 DEF configInit, Globals
  <2> QED
    BY Zenon, <1>2, <1>3, <1>4, <1>5, <2>1 DEF configInit
<1>6. CASE GlobalInit(c)
  <2>1. g'.page_directory = g.page_directory /\ g'.raced = g.raced
    BY <1>1, <1>6 DEF GlobalInit, Globals
  <2> QED
    BY Zenon, <1>2, <1>3, <1>4, <1>6, <2>1 DEF GlobalInit
<1>7. CASE calibrate(c)
  <2>1. PICK diff \in Diffs : g' = [g EXCEPT !.apitCounter = diff \div hz, !.running = @ + 1]
    BY Zenon, <1>7 DEF calibrate
  <2>2. g'.page_directory = g.page_directory /\ g'.raced = g.raced
    BY <1>1, <2>1 DEF Globals
  <2> QED
    BY Zenon, <1>2, <1>3, <1>4, <1>7, <2>2 DEF calibrate
<1>8. CASE Wait(c)
  <2>1. g'.page_directory = g.page_directory /\ g'.raced = g.raced
    BY <1>1, <1>8 DEF Wait, Globals
  <2> QED
    BY Zenon, <1>2, <1>3, <1>4, <1>8, <2>1 DEF Wait
<1>9. CASE Running(c)
  <2>1. g'.page_directory = g.page_directory /\ g'.raced = g.raced
    BY <1>1, <1>9 DEF Running, Globals
  <2> QED
    BY Zenon, <1>2, <1>3, <1>4, <1>9, <2>1 DEF Running
<1>10. CASE Arrive(c)
  <2>1. g'.page_directory = g.page_directory /\ g'.raced = g.raced
    BY <1>1, <1>10 DEF Arrive, Globals
  <2> QED
    BY Zenon, <1>2, <1>3, <1>4, <1>10, <2>1 DEF Arrive
<1>11. CASE Reset(c) \/ Tss(c)
  <2>1. PICK x \in {"config", "ap", "sti"} :
          \/ core' = [core EXCEPT ![c].stack = pickKernelStack(c), ![c].pc = x]
          \/ core' = [core EXCEPT ![c].esp0 = pickKernelStack(c), ![c].pc = x]
    BY Zenon, <1>11 DEF Reset, Tss
  <2>2. core'[c].pc = x /\ core'[c].cr3 = core[c].cr3 /\ core'[c].filled = core[c].filled
    BY <1>1, <2>1 DEF CoreRec
  <2>3. Only(c)
    BY Zenon, <1>1, <2>1 DEF Only
  <2>4. g' = g /\ core[c].pc \in {"reset", "tss"}
    BY Zenon, <1>11 DEF Reset, Tss, At
  <2> QED
    BY Zenon, <1>2, <2>2, <2>3, <2>4, QuietMove
<1>12. CASE StartNext(c)
  <2>1. /\ g' = g /\ core[c].pc = "start"
        /\ \/ Goto(c, "alloc") \/ Goto(c, "wait")
           \/ core' = [core EXCEPT ![c].pc = "wait", ![g.id].pc = "reset"]
    BY Zenon, <1>12 DEF StartNext, Goto, At
  <2>2. CASE Goto(c, "alloc") \/ Goto(c, "wait")
    BY Zenon, <1>2, <1>3, <1>4, <2>1, <2>2 DEF At
  <2>3. CASE core' = [core EXCEPT ![c].pc = "wait", ![g.id].pc = "reset"]
    <3>1. ASSUME NEW k \in Core
          PROVE  /\ core'[k].cr3 = core[k].cr3 /\ core'[k].filled = core[k].filled
                 /\ core'[k].pc = IF k = g.id THEN "reset" ELSE IF k = c THEN "wait" ELSE core[k].pc
      BY <1>1, <2>3 DEF CoreRec
    <3>2. "start" \in First /\ c = 0 /\ Started /\ core[0].pc # "wait"
      <4>1. "start" \in First /\ "start" # "wait"
        BY DEF First
      <4> QED
        BY Zenon, <2>1, <4>1, FirstCore
    <3>3. g.id \in Core => core[g.id].pc = "off"
      <4>1. g.id # 0
        BY DEF StartInv, CoreTypes
      <4> QED
        BY Zenon, <3>2, <4>1 DEF Started, InTurn
    <3>4. ASSUME NEW k \in Core PROVE Elsewhere(k)
      BY Zenon, <1>2, <2>1, <3>1, <3>3 DEF Elsewhere
    <3> QED
      BY Zenon, <2>1, <3>4 DEF Quiet
  <2> QED
    BY Zenon, <2>1, <2>2, <2>3
<1>13. CASE PitInit(c)
  <2>1. g' = g /\ core[c].pc = "pit"
          /\ (Goto(c, "tss") \/ core' = [k \in Core |-> [core[k] EXCEPT !.pc = "panic"]])
    BY Zenon, <1>13 DEF PitInit, Goto, At
  <2>2. CASE Goto(c, "tss")
    <3>1. "pit" \in Pcs
      BY DEF Pcs, PerCore
    <3> QED
      BY Zenon, <1>2, <1>3, <1>4, <2>1, <2>2, <3>1 DEF At
  <2>3. CASE core' = [k \in Core |-> [core[k] EXCEPT !.pc = "panic"]]
    <3>1. \A k \in Core : /\ core'[k].cr3 = core[k].cr3 /\ core'[k].filled = core[k].filled
                          /\ core'[k].pc = "panic"
      BY <1>1, <2>3 DEF CoreRec
    <3> QED
      BY Zenon, <2>1, <3>1 DEF Quiet, Elsewhere
  <2> QED
    BY Zenon, <2>1, <2>2, <2>3
<1> QED
  BY Zenon, <1>5, <1>6, <1>7, <1>8, <1>9, <1>10, <1>11, <1>12, <1>13

(* A store into a sequence.                                                 *)
Store(s, i, v) == [s EXCEPT ![i] = v]

(* It keeps the length, the type and the other elements.                    *)
LEMMA StoreFacts ==
  ASSUME NEW s \in Seq(SUBSET Whole), NEW i \in Nat, NEW v, i \in 1 .. Len(s) => v \in SUBSET Whole
  PROVE  LET r == Store(s, i, v) IN
         /\ r \in Seq(SUBSET Whole) /\ Len(r) = Len(s) /\ Len(s) \in Nat
         /\ \A k \in 1 .. Len(s) : k # i => r[k] = s[k]
<1> DEFINE r == [s EXCEPT ![i] = v]
<1>1. Len(s) \in Nat /\ DOMAIN s = 1 .. Len(s) /\ \A k \in 1 .. Len(s) : s[k] \in SUBSET Whole
  OBVIOUS
<1>2. DOMAIN r = 1 .. Len(s) /\ \A k \in 1 .. Len(s) : r[k] = IF k = i THEN v ELSE s[k]
  BY Zenon, <1>1
<1>3. r = [k \in 1 .. Len(s) |-> r[k]]
  BY Zenon, <1>1
<1> HIDE DEF r
<1>4. r \in [1 .. Len(s) -> SUBSET Whole]
  BY Zenon, <1>1, <1>2, <1>3
<1>5. r \in Seq(SUBSET Whole) /\ Len(r) = Len(s)
  BY <1>1, <1>4
<1> QED
  BY Zenon, <1>1, <1>2, <1>5 DEF r, Store

(* A core takes a frame for its page directory.                             *)
LEMMA AllocStep ==
  ASSUME StartInv, DirTypes, DirInv, NEW c \in Core, Alloc(c)
  PROVE  DirTypes' /\ DirInv'
<1>1. CoreTypes /\ core \in [Core -> CoreRec] /\ DOMAIN g = Globals /\ core[c].pc = "alloc"
        /\ dir \in Seq(SUBSET Whole) /\ "fill" \in Pcs
  <2>1. "fill" \in Pcs
    BY DEF Pcs, PerCore
  <2> QED
    BY Zenon, <2>1 DEF StartInv, CoreTypes, Alloc, At, DirTypes
<1>2. ToPc(c, "fill") /\ Kept(c)
  BY Zenon, <1>1, GotoFacts DEF Alloc
<1>3. Only(c) /\ core'[c].pc = "fill" /\ core'[c].filled = core[c].filled /\ core'[c].cr3 = core[c].cr3
  BY Zenon, <1>2 DEF ToPc, Kept
<1>4. core[c].filled = 0
  <2>1. ~Setting(c) /\ ~At(c, "panic")
    BY <1>1 DEF Setting, At
  <2> QED
    BY Zenon, <2>1 DEF DirTypes
<1>5. g'.page_directory = Len(dir) + 1 /\ g'.raced = (g.raced \/ Others(c))
  BY <1>1 DEF Alloc, Globals
<1>6. /\ dir' \in Seq(SUBSET Whole) /\ Len(dir') = Len(dir) + 1 /\ Len(dir) \in Nat
      /\ \A i \in 1 .. Len(dir) : dir'[i] = dir[i]
      /\ dir'[Len(dir) + 1] = {}
  BY <1>1 DEF Alloc
<1>7. Upto(0) = {}
  BY DEF Upto
<1>8. DirTypes'
  <2>1. ASSUME NEW k \in Core
        PROVE  /\ (At(k, "fill"))' => core'[k].filled \in 0 .. 2
               /\ (At(k, "on"))' => core'[k].filled = 3
               /\ ~(Setting(k))' /\ ~(At(k, "panic"))' => core'[k].filled = 0
    <3>1. CASE k = c
      BY <1>3, <1>4, <3>1 DEF At, Setting
    <3>2. CASE k # c
      BY Zenon, <1>3, <3>2 DEF Only, DirTypes, At, Setting
    <3> QED
      BY Zenon, <3>1, <3>2
  <2>2. Len(dir) + 1 \in Nat
    BY <1>6
  <2> QED
    BY Zenon, <1>5, <1>6, <2>1, <2>2 DEF DirTypes
<1>9. ASSUME ~g'.raced
      PROVE  /\ \A j, k \in Core : ((Setting(j))' /\ (Setting(k))') \/ (Alike(j, k))' => j = k
             /\ \A k \in Core :
                /\ core'[k].cr3 \in 0 .. Len(dir')
                /\ core'[k].cr3 # 0 => dir'[core'[k].cr3] = Whole
                /\ (Setting(k))' => /\ g'.page_directory = Len(dir') /\ Len(dir') > 0
                                    /\ \A j \in Core : core'[j].cr3 # Len(dir')
                                    /\ dir'[Len(dir')] = Upto(core'[k].filled)
  <2>1. ~g.raced /\ ~Others(c)
    BY Zenon, <1>5, <1>9
  <2>2. \A k \in Core : (Setting(k))' => k = c
    BY Zenon, <1>3, <2>1 DEF Others, Setting, Only
  <2>3. \A k \in Core : core'[k].cr3 = core[k].cr3
    BY Zenon, <1>3 DEF Only
  <2>4. \A k \in Core : core[k].cr3 \in 0 .. Len(dir) /\ (core[k].cr3 # 0 => dir[core[k].cr3] = Whole)
    BY Zenon, <2>1 DEF DirInv
  <2>5. ASSUME NEW k \in Core
        PROVE  core[k].cr3 \in 0 .. Len(dir') /\ core[k].cr3 # Len(dir')
               /\ (core[k].cr3 # 0 => core[k].cr3 \in 1 .. Len(dir))
    BY <1>6, <2>4
  <2>6. ASSUME NEW j \in Core, NEW k \in Core, ((Setting(j))' /\ (Setting(k))') \/ (Alike(j, k))'
        PROVE  j = k
    BY Zenon, <2>1, <2>2, <2>3, <2>6 DEF Alike, DirInv
  <2>7. ASSUME NEW k \in Core
        PROVE  core'[k].cr3 \in 0 .. Len(dir') /\ (core'[k].cr3 # 0 => dir'[core'[k].cr3] = Whole)
    BY Zenon, <1>6, <2>3, <2>4, <2>5
  <2>8. Len(dir) + 1 > 0
    BY <1>6
  <2>9. ASSUME NEW k \in Core, (Setting(k))'
        PROVE  /\ g'.page_directory = Len(dir') /\ Len(dir') > 0
               /\ \A j \in Core : core'[j].cr3 # Len(dir')
               /\ dir'[Len(dir')] = Upto(core'[k].filled)
    BY Zenon, <1>3, <1>4, <1>5, <1>6, <1>7, <2>2, <2>3, <2>5, <2>8, <2>9
  <2> QED
    BY Zenon, <2>6, <2>7, <2>9
<1> QED
  BY Zenon, <1>8, <1>9 DEF DirInv

(* It fills in the next part.                                               *)
LEMMA FillStep ==
  ASSUME StartInv, DirTypes, DirInv, NEW c \in Core, Fill(c)
  PROVE  DirTypes' /\ DirInv'
<1>1. /\ core \in [Core -> CoreRec] /\ core[c].pc = "fill" /\ dir \in Seq(SUBSET Whole)
      /\ g.page_directory \in Nat /\ core[c].filled \in 0 .. 2 /\ g' = g
  BY Zenon DEF StartInv, CoreTypes, Fill, At, DirTypes
<1>2. PICK n \in 1 .. 3 : n = core[c].filled + 1
  BY <1>1
<1>3. Len(Parts) = 3 /\ DOMAIN Parts = 1 .. 3
  BY DEF Parts
<1>4. PICK there \in {"fill", "on"} : /\ there = "on" <=> n = 3
                                      /\ core' = [core EXCEPT ![c].filled = n, ![c].pc = there]
  BY Zenon, <1>2, <1>3 DEF Fill
<1>5. core'[c].filled = n /\ core'[c].pc = there /\ core'[c].cr3 = core[c].cr3
  BY <1>1, <1>4 DEF CoreRec
<1>6. Only(c)
  BY Zenon, <1>1, <1>4 DEF Only
<1>7. Parts[n] \in Whole
  BY Zenon, <1>3 DEF Whole, Range
<1>8. dir' = [dir EXCEPT ![g.page_directory] = @ \cup {Parts[n]}]
  BY Zenon, <1>2 DEF Fill
<1>9. /\ dir' \in Seq(SUBSET Whole) /\ Len(dir') = Len(dir) /\ Len(dir) \in Nat
      /\ \A i \in 1 .. Len(dir) : i # g.page_directory => dir'[i] = dir[i]
  <2>1. \A i \in 1 .. Len(dir) : dir[i] \in SUBSET Whole
    BY <1>1
  <2>2. \A i \in 1 .. Len(dir) : dir[i] \cup {Parts[n]} \in SUBSET Whole
    BY Zenon, <1>7, <2>1
  <2>3. PICK v : v = dir[g.page_directory] \cup {Parts[n]}
    BY Zenon
  <2>4. dir' = Store(dir, g.page_directory, v)
    BY Zenon, <1>8, <2>3 DEF Store
  <2>5. g.page_directory \in 1 .. Len(dir) => v \in SUBSET Whole
    BY Zenon, <2>2, <2>3
  <2>6. LET r == Store(dir, g.page_directory, v) IN
        /\ r \in Seq(SUBSET Whole) /\ Len(r) = Len(dir) /\ Len(dir) \in Nat
        /\ \A i \in 1 .. Len(dir) : i # g.page_directory => r[i] = dir[i]
    BY <1>1, <2>5, StoreFacts
  <2> QED
    BY Zenon, <2>4, <2>6
<1>10. Upto(n) = Upto(core[c].filled) \cup {Parts[n]}
  <2>1. \A i : i \in 1 .. n <=> i \in 1 .. core[c].filled \/ i = n
    BY <1>1, <1>2
  <2> QED
    BY Zenon, <2>1 DEF Upto
<1>11. DirTypes'
  <2>1. ASSUME NEW k \in Core
        PROVE  /\ (At(k, "fill"))' => core'[k].filled \in 0 .. 2
               /\ (At(k, "on"))' => core'[k].filled = 3
               /\ ~(Setting(k))' /\ ~(At(k, "panic"))' => core'[k].filled = 0
    <3>1. CASE k = c
      <4>1. there = "fill" => n \in 0 .. 2
        BY <1>4
      <4>2. "fill" # "on"
        OBVIOUS
      <4> QED
        BY Zenon, <1>4, <1>5, <3>1, <4>1, <4>2 DEF At, Setting
    <3>2. CASE k # c
      BY Zenon, <1>6, <3>2 DEF Only, DirTypes, At, Setting
    <3> QED
      BY Zenon, <3>1, <3>2
  <2> QED
    BY Zenon, <1>1, <1>9, <2>1 DEF DirTypes
<1>12. ASSUME ~g'.raced
      PROVE  /\ \A j, k \in Core : ((Setting(j))' /\ (Setting(k))') \/ (Alike(j, k))' => j = k
             /\ \A k \in Core :
                /\ core'[k].cr3 \in 0 .. Len(dir')
                /\ core'[k].cr3 # 0 => dir'[core'[k].cr3] = Whole
                /\ (Setting(k))' => /\ g'.page_directory = Len(dir') /\ Len(dir') > 0
                                    /\ \A j \in Core : core'[j].cr3 # Len(dir')
                                    /\ dir'[Len(dir')] = Upto(core'[k].filled)
  <2>1. ~g.raced /\ Setting(c)
    BY Zenon, <1>1, <1>12 DEF Setting
  <2>2. \A k \in Core : core'[k].cr3 = core[k].cr3 /\ ((Setting(k))' <=> Setting(k))
    BY Zenon, <1>4, <1>5, <1>6, <2>1 DEF Only, Setting
  <2>3. \A k \in Core : Setting(k) => k = c
    BY Zenon, <2>1 DEF DirInv
  <2>4. g.page_directory = Len(dir) /\ Len(dir) > 0 /\ dir[Len(dir)] = Upto(core[c].filled)
          /\ \A k \in Core : core[k].cr3 # Len(dir)
    BY Zenon, <2>1 DEF DirInv
  <2>5. dir'[Len(dir)] = Upto(n)
    <3>1. Len(dir) \in DOMAIN dir
      BY <1>1, <2>4
    <3> QED
      BY Zenon, <1>8, <1>10, <2>4, <3>1
  <2>6. \A k \in Core : core[k].cr3 \in 0 .. Len(dir) /\ (core[k].cr3 # 0 => dir[core[k].cr3] = Whole)
    BY Zenon, <2>1 DEF DirInv
  <2>7. ASSUME NEW k \in Core, core[k].cr3 # 0
        PROVE  core[k].cr3 \in 1 .. Len(dir)
    BY <1>9, <2>6, <2>7
  <2>8. ASSUME NEW j \in Core, NEW k \in Core, ((Setting(j))' /\ (Setting(k))') \/ (Alike(j, k))'
        PROVE  j = k
    BY Zenon, <2>1, <2>2, <2>8 DEF Alike, DirInv
  <2>9. ASSUME NEW k \in Core
        PROVE  core'[k].cr3 \in 0 .. Len(dir') /\ (core'[k].cr3 # 0 => dir'[core'[k].cr3] = Whole)
    BY Zenon, <1>9, <2>2, <2>4, <2>6, <2>7
  <2>10. ASSUME NEW k \in Core, (Setting(k))'
        PROVE  /\ g'.page_directory = Len(dir') /\ Len(dir') > 0
               /\ \A j \in Core : core'[j].cr3 # Len(dir')
               /\ dir'[Len(dir')] = Upto(core'[k].filled)
    BY Zenon, <1>1, <1>5, <1>9, <2>2, <2>3, <2>4, <2>5, <2>10
  <2> QED
    BY Zenon, <2>8, <2>9, <2>10
<1> QED
  BY Zenon, <1>11, <1>12 DEF DirInv

(* It turns paging on: the directory is whole, and nobody else's.           *)
LEMMA OnStep ==
  ASSUME StartInv, DirTypes, DirInv, NEW c \in Core, vmm_on(c)
  PROVE  DirTypes' /\ DirInv'
<1>1. /\ core \in [Core -> CoreRec] /\ core[c].pc = "on" /\ core[c].filled = 3 /\ g' = g /\ dir' = dir
      /\ core' = [core EXCEPT ![c].cr3 = g.page_directory, ![c].filled = 0, ![c].pc = "pit"]
  BY Zenon DEF StartInv, CoreTypes, vmm_on, At, DirTypes
<1>2. core'[c].cr3 = g.page_directory /\ core'[c].filled = 0 /\ core'[c].pc = "pit"
  BY <1>1 DEF CoreRec
<1>3. Only(c)
  BY Zenon, <1>1 DEF Only
<1>4. "pit" \notin {"fill", "on"} /\ "pit" # "panic" /\ "pit" # "fill" /\ "pit" # "on"
  OBVIOUS
<1>5. DirTypes'
  <2>1. ASSUME NEW k \in Core
        PROVE  /\ (At(k, "fill"))' => core'[k].filled \in 0 .. 2
               /\ (At(k, "on"))' => core'[k].filled = 3
               /\ ~(Setting(k))' /\ ~(At(k, "panic"))' => core'[k].filled = 0
    <3>1. CASE k = c
      BY Zenon, <1>2, <1>4, <3>1 DEF At, Setting
    <3>2. CASE k # c
      BY Zenon, <1>3, <3>2 DEF Only, DirTypes, At, Setting
    <3> QED
      BY Zenon, <3>1, <3>2
  <2> QED
    BY Zenon, <1>1, <2>1 DEF DirTypes
<1>6. ASSUME ~g'.raced
      PROVE  /\ \A j, k \in Core : ((Setting(j))' /\ (Setting(k))') \/ (Alike(j, k))' => j = k
             /\ \A k \in Core :
                /\ core'[k].cr3 \in 0 .. Len(dir')
                /\ core'[k].cr3 # 0 => dir'[core'[k].cr3] = Whole
                /\ (Setting(k))' => FALSE
  <2>1. ~g.raced /\ Setting(c)
    BY Zenon, <1>1, <1>6 DEF Setting
  <2>2. g.page_directory = Len(dir) /\ Len(dir) > 0 /\ dir[Len(dir)] = Upto(3)
          /\ \A k \in Core : core[k].cr3 # Len(dir)
    BY Zenon, <1>1, <2>1 DEF DirInv
  <2>3. Upto(3) = Whole
    <3>1. DOMAIN Parts = 1 .. 3
      BY DEF Parts
    <3> QED
      BY Zenon, <3>1 DEF Upto, Whole, Range
  <2>4. Len(dir) \in 0 .. Len(dir)
    BY DEF DirTypes
  <2>5. ASSUME NEW k \in Core PROVE ~(Setting(k))'
    BY Zenon, <1>2, <1>3, <1>4, <2>1 DEF DirInv, Setting, Only
  <2>6. ASSUME NEW k \in Core
        PROVE  core'[k].cr3 \in 0 .. Len(dir') /\ (core'[k].cr3 # 0 => dir'[core'[k].cr3] = Whole)
    <3>1. CASE k = c
      BY Zenon, <1>1, <1>2, <2>2, <2>3, <2>4, <3>1
    <3>2. CASE k # c
      BY Zenon, <1>1, <1>3, <2>1, <3>2 DEF Only, DirInv
    <3> QED
      BY Zenon, <3>1, <3>2
  <2>7. ASSUME NEW j \in Core, NEW k \in Core, (Alike(j, k))' PROVE j = k
    <3>1. CASE j = c \/ k = c
      BY Zenon, <1>2, <1>3, <2>2, <2>7, <3>1 DEF Alike, Only
    <3>2. CASE j # c /\ k # c
      BY Zenon, <1>3, <2>1, <2>7, <3>2 DEF Alike, Only, DirInv
    <3> QED
      BY Zenon, <3>1, <3>2
  <2> QED
    BY Zenon, <2>5, <2>6, <2>7
<1> QED
  BY Zenon, <1>5, <1>6 DEF DirInv

(* No step of the machine mixes up the page directories.                    *)
LEMMA DirStep ==
  ASSUME StartInv, DirTypes, DirInv, [Next]_vars
  PROVE  DirTypes' /\ DirInv'
<1>1. CASE Quiet
  BY Zenon, <1>1, QuietKeeps
<1>2. CASE UNCHANGED bootVars
  BY Zenon, <1>1, <1>2 DEF bootVars, Quiet, Elsewhere
<1>3. CASE Load
  <2>1. dir' = dir /\ g' = g /\ (core' = core \/ (Goto(0, "reset") /\ core[0].pc = "mbr"))
    BY Zenon, <1>3 DEF Load, LoadSector, Jump, At
  <2>2. CASE core' = core
    BY Zenon, <1>1, <2>1, <2>2 DEF Quiet, Elsewhere
  <2>3. CASE Goto(0, "reset") /\ core[0].pc = "mbr"
    <3>1. {"reset", "mbr"} \cap {"fill", "on", "panic"} = {} /\ "reset" \in Pcs
      BY DEF Pcs, Later
    <3>2. ToPc(0, "reset") /\ Kept(0) /\ 0 \in Core
      BY Zenon, <2>3, <3>1, BootAssumption, GotoFacts DEF StartInv
    <3>3. Quiet
      BY Zenon, <2>1, <2>3, <3>1, <3>2, QuietMove DEF ToPc, Kept
    <3> QED
      BY Zenon, <1>1, <3>3
  <2> QED
    BY Zenon, <2>1, <2>2, <2>3
<1>4. ASSUME NEW c \in Core, Starting(c) PROVE DirTypes' /\ DirInv'
  <2>1. CASE Alloc(c) \/ Fill(c) \/ vmm_on(c)
    BY Zenon, <2>1, AllocStep, FillStep, OnStep
  <2>2. CASE ~(Alloc(c) \/ Fill(c) \/ vmm_on(c))
    <3>1. \/ Reset(c) \/ configInit(c) \/ GlobalInit(c) \/ calibrate(c) \/ StartNext(c) \/ Wait(c)
          \/ Running(c) \/ PitInit(c) \/ Tss(c)
      BY Zenon, <1>4, <2>2 DEF Starting
    <3>2. dir' = dir
      BY Zenon, <3>1 DEF Reset, configInit, GlobalInit, calibrate, StartNext, Wait, Running, PitInit, Tss
    <3> QED
      BY Zenon, <1>1, <3>1, <3>2, QuietSteps
  <2> QED
    BY Zenon, <2>1, <2>2
<1>5. ASSUME NEW c \in Core, Arriving(c) PROVE DirTypes' /\ DirInv'
  <2>1. Arrive(c) /\ dir' = dir
    BY Zenon, <1>5 DEF Arriving, Arrive
  <2> QED
    BY Zenon, <1>1, <2>1, QuietSteps
<1>6. UNCHANGED vars => UNCHANGED bootVars
  BY Zenon DEF vars
<1> QED
  BY Zenon, <1>2, <1>3, <1>4, <1>5, <1>6 DEF Next, Ticking, Up

----------------------------------------------------------------------------
(* The boot sector.  Numbers modulo another.                                *)
LEMMA ModFacts ==
  ASSUME NEW b \in Nat, b > 0, NEW a \in Nat
  PROVE  a % b \in 0 .. b - 1 /\ (a < b => a % b = a) /\ (a < b => (a + b) % b = a) /\ b % b = 0
<1>1. a % b \in 0 .. b - 1
  OBVIOUS
<1>2. a < b => a % b = a
  OBVIOUS
<1>3. a < b => (a + b) % b = a
  OBVIOUS
<1>4. b % b = 0
  OBVIOUS
<1> QED
  BY Zenon, <1>1, <1>2, <1>3, <1>4

(* The count is what is left of the drive, at the top of the loop.          *)
LEMMA Counts ==
  ASSUME NEW n \in Nat, NEW bp \in 1 .. n, Base + n - 1 <= Seg
  PROVE  /\ Less((n - bp + 1) % Word) = n - bp
         /\ (n - bp + 1) % Word = 1 => bp = n
         /\ bp < n => (n - bp) % Word = n - bp
<1>1. Base \in Nat /\ Base > 0 /\ Seg \in Nat /\ Word \in Nat /\ Seg <= Word /\ Seg > 0
  BY BootAssumption
<1>2. n - bp \in Nat /\ n - bp + 1 \in Nat /\ n - bp < Word /\ n - bp + 1 <= Word /\ Word > 0
  BY <1>1
<1>3. PICK l \in Nat : l = n - bp
  BY <1>2
<1>4. l < Word /\ n - bp + 1 = l + 1 /\ l + 1 \in Nat /\ l % Word = l /\ (l + Word) % Word = l
  BY <1>1, <1>2, <1>3, ModFacts
<1>5. CASE l + 1 = Word
  <2>1. (l + 1) % Word = 0
    BY <1>1, <1>2, <1>5, ModFacts
  <2>2. 0 + Word - 1 = l /\ 0 # 1
    BY <1>1, <1>3, <1>5
  <2>3. Less(0) = l
    BY Zenon, <1>4, <2>2 DEF Less
  <2> QED
    BY Zenon, <1>3, <1>4, <2>1, <2>2, <2>3
<1>6. CASE l + 1 < Word
  <2>1. (l + 1) % Word = l + 1
    BY <1>1, <1>4, <1>6, ModFacts
  <2>2. (l + 1) + Word - 1 = l + Word
    BY <1>1, <1>4
  <2>3. Less(l + 1) = l
    BY Zenon, <1>4, <2>2 DEF Less
  <2>4. l + 1 = 1 => bp = n
    BY <1>3
  <2> QED
    BY Zenon, <1>3, <1>4, <2>1, <2>3, <2>4
<1>7. l + 1 = Word \/ l + 1 < Word
  BY <1>1, <1>4
<1> QED
  BY Zenon, <1>5, <1>6, <1>7

(* The segment of the next sector, while there is one.                      *)
LEMMA Segments ==
  ASSUME NEW n \in Nat, NEW bp \in 1 .. n, bp < n, Base + n - 1 <= Seg
  PROVE  /\ Base + bp - 1 \in 0 .. Seg - 1
         /\ (Base + bp - 1) % Seg = Base + bp - 1
<1>1. Base \in Nat /\ Base > 0 /\ Seg \in Nat /\ Seg > 0
  BY BootAssumption
<1>2. Base + bp - 1 \in Nat /\ Base + bp - 1 < Seg /\ Base + bp - 1 \in 0 .. Seg - 1
  BY <1>1
<1> QED
  BY Zenon, <1>1, <1>2, ModFacts

(* Only the boot sector's own steps are of interest to it.                  *)
LEMMA LoadingStays ==
  ASSUME Loading, mbr' = mbr, (At(0, "mbr"))' => At(0, "mbr")
  PROVE  Loading'
BY Zenon DEF Loading

(* mbr.S puts the next sector behind those it has loaded.                   *)
LEMMA LoadingSector ==
  ASSUME StartInv, Loading, LoadSector
  PROVE  Loading'
<1>1. /\ At(0, "mbr") /\ Less(mbr.cx) # 0 /\ DOMAIN mbr = Registers
      /\ mbr' = [mbr EXCEPT !.cx = Less(@), !.di = (@ + 1) % Seg, !.bp = @ + 1, !.at[mbr.di] = mbr.bp]
  BY Zenon DEF LoadSector, StartInv, CoreTypes
<1>2. /\ mbr'.cx = Less(mbr.cx) /\ mbr'.di = (mbr.di + 1) % Seg /\ mbr'.bp = mbr.bp + 1
      /\ mbr'.at = [mbr.at EXCEPT ![mbr.di] = mbr.bp] /\ mbr'.n = mbr.n
  BY <1>1 DEF Registers
<1>3. mbr.n \in Nat
  BY Zenon, <1>1 DEF Loading
<1>4. ASSUME mbr.n > 0, Base + mbr.n - 1 <= Seg
      PROVE  /\ mbr'.bp \in 1 .. mbr.n
             /\ mbr'.cx = (mbr.n - mbr'.bp + 1) % Word
             /\ mbr'.bp < mbr.n => mbr'.di = Base + mbr'.bp - 1
             /\ mbr'.at \in [0 .. Seg - 1 -> Nat \cup {None}]
             /\ \A k \in 1 .. mbr'.bp - 1 : mbr'.at[Base + k - 1] = k
  <2>1. PICK n \in Nat, bp \in 1 .. mbr.n : n = mbr.n /\ bp = mbr.bp
    BY Zenon, <1>1, <1>3, <1>4 DEF Loading
  <2>2. /\ mbr.cx = (n - bp + 1) % Word /\ bp \in 1 .. n /\ (bp < n => mbr.di = Base + bp - 1)
        /\ mbr.at \in [0 .. Seg - 1 -> Nat \cup {None}]
        /\ \A k \in 1 .. bp - 1 : mbr.at[Base + k - 1] = k
    BY Zenon, <1>1, <1>4, <2>1 DEF Loading
  <2>3. Base \in Nat /\ Base > 0 /\ Seg \in Nat /\ Word \in Nat /\ Base + n - 1 <= Seg
    BY <1>4, <2>1, BootAssumption
  <2>4. Less(mbr.cx) = n - bp /\ (bp < n => (n - bp) % Word = n - bp)
    BY Zenon, <2>2, <2>3, Counts
  <2>5. bp < n /\ bp + 1 \in 1 .. n /\ bp \in Nat
    BY <1>1, <2>2, <2>4
  <2>6. Base + bp - 1 \in 0 .. Seg - 1 /\ (Base + bp - 1) % Seg = Base + bp - 1
    BY Zenon, <2>2, <2>3, <2>5, Segments
  <2>7. mbr'.bp = bp + 1 /\ mbr'.cx = n - bp /\ mbr.di = Base + bp - 1
    BY Zenon, <1>2, <2>1, <2>2, <2>4, <2>5
  <2>8. n - (bp + 1) + 1 = n - bp /\ (Base + bp - 1) + 1 = Base + (bp + 1) - 1
    BY <2>2, <2>3
  <2>9. mbr'.cx = (n - mbr'.bp + 1) % Word /\ (mbr'.bp < n => mbr'.di = Base + mbr'.bp - 1)
    <3>1. bp + 1 < n => (Base + (bp + 1) - 1) % Seg = Base + (bp + 1) - 1
      BY Zenon, <2>3, <2>5, Segments
    <3> QED
      BY Zenon, <1>2, <2>4, <2>5, <2>7, <2>8, <3>1
  <2>10. mbr'.at = [mbr.at EXCEPT ![Base + bp - 1] = bp]
    BY Zenon, <1>2, <2>1, <2>7
  <2>11. mbr'.at \in [0 .. Seg - 1 -> Nat \cup {None}]
    BY Zenon, <2>2, <2>5, <2>10
  <2>12. ASSUME NEW k \in 1 .. (bp + 1) - 1 PROVE mbr'.at[Base + k - 1] = k
    <3>1. CASE k = bp
      BY Zenon, <2>2, <2>6, <2>10, <3>1
    <3>2. CASE k # bp
      <4>1. k \in 1 .. bp - 1 /\ Base + k - 1 \in 0 .. Seg - 1 /\ Base + k - 1 # Base + bp - 1
        BY <2>2, <2>3, <2>6, <3>2
      <4> QED
        BY Zenon, <2>2, <2>10, <4>1
    <3> QED
      BY Zenon, <3>1, <3>2
  <2> QED
    BY Zenon, <2>1, <2>5, <2>7, <2>9, <2>11, <2>12
<1> QED
  BY Zenon, <1>2, <1>3, <1>4 DEF Loading

(* No step of the machine disturbs the loading.                             *)
LEMMA LoadingStep ==
  ASSUME StartInv, Loading, [Next]_vars
  PROVE  Loading'
<1>1. CASE UNCHANGED bootVars
  BY Zenon, <1>1, LoadingStays DEF bootVars, At
<1>2. CASE Load
  <2>1. CASE LoadSector
    BY Zenon, <2>1, LoadingSector
  <2>2. CASE Jump
    <3>1. "reset" \in Pcs /\ "reset" # "mbr"
      BY DEF Pcs, Later
    <3>2. core'[0].pc = "reset"
      BY Zenon, <2>2, <3>1, BootAssumption, GotoFacts DEF Jump, StartInv, ToPc
    <3> QED
      BY Zenon, <3>1, <3>2 DEF Loading, At
  <2> QED
    BY Zenon, <1>2, <2>1, <2>2 DEF Load
<1>3. ASSUME NEW c \in Core, Starting(c) \/ Arriving(c) PROVE Loading'
  <2>1. core \in [Core -> CoreRec] /\ mbr' = mbr /\ 0 \in Core
    BY Zenon, <1>3, BootAssumption DEF StartInv, CoreTypes, Starting, Arriving
  <2>2. ASSUME NEW there \in Pcs \ {"mbr"}, Goto(c, there) PROVE core'[0].pc = "mbr" => core[0].pc = "mbr"
    BY Zenon, <2>1, <2>2, GotoFacts DEF StartInv, ToPc, Only
  <2>3. {"config", "ap", "global", "calibrate", "start", "wait", "alloc", "reset", "tss", "sti", "up",
          "fill", "on", "pit", "panic"} \subseteq Pcs \ {"mbr"}
    BY DEF Pcs, First, Later, PerCore
  <2>4. CASE configInit(c) \/ GlobalInit(c) \/ calibrate(c) \/ Wait(c) \/ Running(c) \/ Alloc(c) \/ Arriving(c)
    <3>1. \E there \in Pcs \ {"mbr"} : Goto(c, there)
      BY Zenon, <2>3, <2>4 DEF configInit, GlobalInit, calibrate, Wait, Running, Alloc, Arriving, Arrive
    <3> QED
      BY Zenon, <2>1, <2>2, <3>1, LoadingStays DEF At
  <2>5. CASE Reset(c) \/ Tss(c) \/ Fill(c) \/ vmm_on(c) \/ PitInit(c)
    <3>1. core'[0].pc = "mbr" => core[0].pc = "mbr"
      BY <2>1, <2>5 DEF Reset, Tss, Fill, vmm_on, PitInit, CoreRec
    <3> QED
      BY Zenon, <2>1, <3>1, LoadingStays DEF At
  <2>6. CASE StartNext(c)
    <3>1. core'[0].pc = "mbr" => core[0].pc = "mbr"
      BY <2>1, <2>6 DEF StartNext, CoreRec
    <3> QED
      BY Zenon, <2>1, <3>1, LoadingStays DEF At
  <2> QED
    BY Zenon, <1>3, <2>4, <2>5, <2>6 DEF Starting
<1>4. UNCHANGED vars => UNCHANGED bootVars
  BY Zenon DEF vars
<1> QED
  BY Zenon, <1>1, <1>2, <1>3, <1>4 DEF Next, Ticking, Up

----------------------------------------------------------------------------
(* The events.  What event_loop's delete does.                              *)
LEMMA DeletedFacts ==
  ASSUME NEW es \in [Event -> EventRec], NEW e \in Event \cup {None}
  PROVE  /\ Deleted(es, e) \in [Event -> EventRec]
         /\ \A x \in Event \ {e} : Deleted(es, e)[x] = es[x]
         /\ e # None => /\ Deleted(es, e)[e].deletes = es[e].deletes + 1
                        /\ Deleted(es, e)[e].runs = es[e].runs
                        /\ Deleted(es, e)[e].left = es[e].left
                        /\ Deleted(es, e)[e].made = es[e].made
                        /\ Deleted(es, e)[e].wrapped = es[e].wrapped
                        /\ Deleted(es, e)[e].early = es[e].early
                        /\ Deleted(es, e)[e].returned = es[e].returned
<1>1. CASE e = None
  BY Zenon, <1>1 DEF Deleted
<1>2. CASE e # None
  <2>1. e \in Event /\ Deleted(es, e) = [es EXCEPT ![e].deletes = @ + 1]
    BY Zenon, <1>2 DEF Deleted
  <2>2. Deleted(es, e) \in [Event -> EventRec]
    BY <2>1 DEF EventRec
  <2>3. \A x \in Event \ {e} : Deleted(es, e)[x] = es[x]
    BY Zenon, <2>1
  <2>4. /\ Deleted(es, e)[e].deletes = es[e].deletes + 1
        /\ Deleted(es, e)[e].runs = es[e].runs
        /\ Deleted(es, e)[e].left = es[e].left
    BY <2>1 DEF EventRec
  <2>5. /\ Deleted(es, e)[e].made = es[e].made
        /\ Deleted(es, e)[e].wrapped = es[e].wrapped
        /\ Deleted(es, e)[e].early = es[e].early
        /\ Deleted(es, e)[e].returned = es[e].returned
    BY <2>1 DEF EventRec
  <2> QED
    BY Zenon, <2>2, <2>3, <2>4, <2>5
<1> QED
  BY Zenon, <1>1, <1>2

(* An event that ran last on a core is in no queue.                         *)
LEMMA LastNotQueued ==
  ASSUME EventInv, NEW c \in Core, last_event[c] # None
  PROVE  last_event[c] \in Event /\ ~Queued(last_event[c])
<1>1. last_event[c] \in Event
  BY Zenon DEF EventInv, EventTypes
<1>2. event[last_event[c]].runs = 1 /\ 1 # 0
  BY DEF EventInv, Ran, Ended
<1> QED
  BY Zenon, <1>1, <1>2 DEF EventInv, Ran, Idle

(* Where only the loops change: the first steps of a core in event_loop,    *)
(* the call of it by what runs, and a round that finds nothing ready.       *)
LEMMA LoopStep ==
  ASSUME EventInv, NEW c \in Core, NEW there \in {"doit", "poll"},
         loop[c] \in {"off", "take"} \/ (loop[c] = "doit" /\ there = "poll"), core'[c].pc = "up",
         \A k \in Core \ {c} : core'[k].pc = core[k].pc,
         loop' = [loop EXCEPT ![c] = there], UNCHANGED <<jiffies, pq, ready, last_event, held, event>>
  PROVE  EventInv'
<1>1. /\ loop \in [Core -> {"off", "poll", "move", "take", "doit"}]
      /\ loop' \in [Core -> {"off", "poll", "move", "take", "doit"}]
      /\ loop'[c] = there /\ \A k \in Core \ {c} : loop'[k] = loop[k]
  BY DEF EventInv, EventTypes
<1>2. there # "move" /\ loop[c] # "move" /\ "poll" # "doit"
      /\ "off" \notin {"poll", "doit"} /\ "take" \notin {"poll", "doit"}
  OBVIOUS
<1>3. EventTypes'
  <2>1. ASSUME NEW k \in Core
        PROVE  /\ held'[k] # None <=> loop'[k] = "move"
               /\ last_event'[k] # None => loop'[k] \in {"poll", "doit"}
               /\ core'[k].pc \notin {"up", "panic"} => loop'[k] = "off"
    <3>1. CASE k = c
      <4>1. held'[c] = None /\ there \in {"poll", "doit"}
        BY Zenon, <1>2 DEF EventInv, EventTypes
      <4> QED
        BY Zenon, <1>1, <1>2, <3>1, <4>1
    <3>2. CASE k # c
      <4>1. /\ loop'[k] = loop[k] /\ core'[k].pc = core[k].pc
            /\ held'[k] = held[k] /\ last_event'[k] = last_event[k]
        BY Zenon, <1>1, <3>2
      <4> QED
        BY Zenon, <4>1 DEF EventInv, EventTypes
    <3> QED
      BY Zenon, <3>1, <3>2
  <2> QED
    BY Zenon, <1>1, <2>1 DEF EventInv, EventTypes
<1>4. Once'
  BY Zenon DEF EventInv, Once, Holds
<1>5. Timely'
  BY Zenon DEF EventInv, Timely, Holds, NotEarly
<1>6. ASSUME NEW k \in Core, last_event[k] # None PROVE Ended(event[last_event[k]], loop'[k])
  <2>1. Ended(event[last_event[k]], loop[k])
    BY Zenon, <1>6 DEF EventInv, Ran
  <2>2. CASE k # c
    BY Zenon, <1>1, <2>1, <2>2
  <2>3. CASE k = c
    <3>1. loop[c] = "doit" /\ there = "poll"
      BY Zenon, <1>2, <1>6, <2>3 DEF EventInv, EventTypes
    <3> QED
      BY Zenon, <1>1, <1>2, <2>1, <2>3, <3>1 DEF Ended
  <2> QED
    BY Zenon, <2>2, <2>3
<1>7. Ran'
  BY Zenon, <1>6 DEF EventInv, Ran, Queued, Holds
<1>8. DeletedOnce'
  BY Zenon DEF EventInv, DeletedOnce
<1> QED
  BY Zenon, <1>3, <1>4, <1>5, <1>7, <1>8 DEF EventInv

(* The timer ticks.                                                         *)
LEMMA TickStep ==
  ASSUME EventInv, Tick, core' = core
  PROVE  EventInv'
<1>1. event \in [Event -> EventRec] /\ jiffies \in Nat /\ pq \in Seq(Entry)
  BY Zenon DEF EventInv, EventTypes
<1>2. /\ event' \in [Event -> EventRec] /\ jiffies' = jiffies + 1 /\ jiffies' \in Nat
      /\ \A e \in Event : /\ event'[e].left = IF event[e].left = 0 THEN 0 ELSE event[e].left - 1
                          /\ event'[e].runs = event[e].runs /\ event'[e].deletes = event[e].deletes
                          /\ event'[e].made = event[e].made /\ event'[e].wrapped = event[e].wrapped
                          /\ event'[e].early = event[e].early /\ event'[e].returned = event[e].returned
  <2> DEFINE less(n) == IF n = 0 THEN 0 ELSE n - 1
  <2>1. event' = [e \in Event |-> [event[e] EXCEPT !.left = less(event[e].left)]]
    BY Zenon DEF Tick
  <2>2. ASSUME NEW e \in Event
        PROVE  /\ event'[e] \in EventRec /\ event'[e].left = less(event[e].left)
               /\ event'[e].runs = event[e].runs /\ event'[e].deletes = event[e].deletes
               /\ event'[e].made = event[e].made /\ event'[e].wrapped = event[e].wrapped
               /\ event'[e].early = event[e].early /\ event'[e].returned = event[e].returned
    <3>1. PICK x \in EventRec : x = event[e]
      BY Zenon, <1>1
    <3>2. PICK n \in Nat : n = less(x.left)
      BY DEF EventRec
    <3>3. event'[e] = [x EXCEPT !.left = n]
      BY Zenon, <2>1, <3>1, <3>2
    <3>4. /\ event'[e] \in EventRec /\ event'[e].left = n
          /\ event'[e].runs = x.runs /\ event'[e].deletes = x.deletes
      BY <3>3 DEF EventRec
    <3>5. /\ event'[e].made = x.made /\ event'[e].wrapped = x.wrapped
          /\ event'[e].early = x.early /\ event'[e].returned = x.returned
      BY <3>3 DEF EventRec
    <3> QED
      BY Zenon, <3>1, <3>2, <3>4, <3>5
  <2>3. event' \in [Event -> EventRec]
    BY Zenon, <2>1, <2>2
  <2>4. jiffies' = jiffies + 1 /\ jiffies' \in Nat
    BY <1>1 DEF Tick
  <2> QED
    BY Zenon, <2>2, <2>3, <2>4
<1>3. \A e \in Event : /\ event'[e].made = event[e].made /\ event'[e].wrapped = event[e].wrapped
                       /\ event'[e].early = event[e].early /\ event'[e].returned = event[e].returned
  BY Zenon, <1>2
<1>4. UNCHANGED <<pq, ready, last_event, held, loop>>
  BY Zenon DEF Tick
<1>5. EventTypes'
  BY Zenon, <1>2, <1>4 DEF EventInv, EventTypes
<1>6. Once'
  BY Zenon, <1>4 DEF EventInv, Once, Holds
<1>7. \A e \in Event : Soon(event[e]) => Soon(event'[e])
  BY Zenon, <1>2, <1>3 DEF Soon
<1>8. ASSUME NEW i \in DOMAIN pq PROVE InTime(event'[pq[i].e], jiffies', pq[i].at)
  <2>1. pq[i] \in Entry
    BY <1>1
  <2>2. pq[i].e \in Event /\ pq[i].at \in Nat /\ event[pq[i].e] \in EventRec
    BY <1>1, <2>1 DEF Entry
  <2>3. event[pq[i].e].left \in Nat
    BY <2>2 DEF EventRec
  <2>4. InTime(event[pq[i].e], jiffies, pq[i].at)
    BY Zenon DEF EventInv, Timely
  <2>5. CASE Soon(event[pq[i].e])
    BY Zenon, <1>7, <2>2, <2>5 DEF InTime
  <2>6. CASE ~Soon(event[pq[i].e])
    <3>1. event[pq[i].e].left # 0 /\ jiffies + event[pq[i].e].left <= pq[i].at
      BY Zenon, <2>4, <2>6 DEF Soon, InTime
    <3>2. jiffies' + event'[pq[i].e].left <= pq[i].at
      BY <1>1, <1>2, <2>2, <2>3, <3>1
    <3> QED
      BY Zenon, <3>2 DEF InTime
  <2> QED
    BY Zenon, <2>5, <2>6
<1>9. Timely'
  BY Zenon, <1>3, <1>4, <1>7, <1>8 DEF EventInv, Timely, Holds, NotEarly
<1>10. Ran'
  <2>1. \A e \in Event : Idle(event[e]) => Idle(event'[e])
    BY Zenon, <1>2, <1>3 DEF Idle
  <2>2. \A e \in Event : (Queued(e))' => Queued(e)
    BY Zenon, <1>4 DEF Queued, Holds
  <2>3. ASSUME NEW c \in Core, last_event[c] # None PROVE Ended(event'[last_event[c]], loop[c])
    <3>1. last_event[c] \in Event /\ Ended(event[last_event[c]], loop[c])
      BY Zenon, <2>3 DEF EventInv, EventTypes, Ran
    <3> QED
      BY Zenon, <1>2, <1>3, <3>1 DEF Ended
  <2> QED
    BY Zenon, <1>3, <1>4, <2>1, <2>2, <2>3 DEF EventInv, Ran
<1>11. DeletedOnce'
  BY Zenon, <1>2, <1>3, <1>4 DEF EventInv, DeletedOnce
<1> QED
  BY Zenon, <1>5, <1>6, <1>9, <1>10, <1>11 DEF EventInv

(* The timer: a step that adds nothing to the timer queue and moves on only *)
(* what may run.                                                            *)
LEMMA TimelyKept ==
  ASSUME EventInv, jiffies' = jiffies, Sorted(pq'),
         \A i \in DOMAIN pq' : \E j \in DOMAIN pq : pq'[i] = pq[j],
         \A x \in Event : (Queued(x))' => event'[x] = event[x],
         \A x \in Event : x \in Range(ready') \/ (Holds(x))' => Soon(event[x]),
         \A x \in Event : event'[x].early => event'[x].wrapped
  PROVE  Timely'
<1>1. ASSUME NEW i \in DOMAIN pq' PROVE InTime(event'[pq'[i].e], jiffies', pq'[i].at)
  <2>1. PICK j \in DOMAIN pq : pq'[i] = pq[j]
    BY Zenon
  <2>2. pq[j] \in Entry
    BY DEF EventInv, EventTypes
  <2>3. pq[j].e \in Event /\ InTime(event[pq[j].e], jiffies, pq[j].at)
    BY Zenon, <2>2 DEF EventInv, Timely, Entry
  <2>4. PICK h \in Event : h = pq[j].e
    BY Zenon, <2>3
  <2>5. pq'[i].e = h
    BY Zenon, <2>1, <2>4
  <2>6. (Queued(h))'
    BY Zenon, <2>5 DEF Queued, Of
  <2> QED
    BY Zenon, <2>1, <2>3, <2>4, <2>5, <2>6
<1>2. ASSUME NEW x \in Event, x \in Range(ready') \/ (Holds(x))' PROVE Soon(event'[x])
  BY Zenon, <1>2 DEF Queued
<1> QED
  BY Zenon, <1>1, <1>2 DEF Timely, NotEarly

(* Nothing new is in a queue, and every core's last event ran once.         *)
LEMMA RanKept ==
  ASSUME EventInv,
         \A x \in Event : (Queued(x))' => Queued(x) /\ event'[x] = event[x],
         \A x \in Event : ~event'[x].made => event'[x] = event[x],
         \A c \in Core : last_event'[c] # None => Ended(event'[last_event'[c]], loop'[c])
  PROVE  Ran'
BY Zenon DEF EventInv, Ran

(* The head of the timer queue goes to a core, which holds it.              *)
LEMMA PollStep ==
  ASSUME EventInv, NEW c \in Core, Poll(c), core' = core
  PROVE  EventInv'
<1>1. /\ event \in [Event -> EventRec] /\ jiffies \in Nat /\ pq \in Seq(Entry)
      /\ last_event \in [Core -> Event \cup {None}] /\ held \in [Core -> Event \cup {None}]
      /\ loop \in [Core -> {"off", "poll", "move", "take", "doit"}] /\ loop[c] = "poll"
      /\ last_event[c] \in Event \cup {None} /\ None \notin Event
  BY Zenon, EventsAssumption DEF EventInv, EventTypes, Poll
<1>2. PICK e \in Event \cup {None} : e = last_event[c]
  BY Zenon, <1>1
<1>3. event' = Deleted(event, e) /\ last_event' = [last_event EXCEPT ![c] = None]
        /\ jiffies' = jiffies /\ ready' = ready
  BY Zenon, <1>2 DEF Poll
<1>4. /\ event' \in [Event -> EventRec]
      /\ \A x \in Event \ {e} : event'[x] = event[x]
      /\ e # None => /\ event'[e].deletes = event[e].deletes + 1
                     /\ event'[e].runs = event[e].runs
                     /\ event'[e].left = event[e].left
                     /\ event'[e].made = event[e].made
                     /\ event'[e].wrapped = event[e].wrapped
                     /\ event'[e].early = event[e].early
                     /\ event'[e].returned = event[e].returned
  <2> DEFINE d == Deleted(event, e)
  <2>1. /\ d \in [Event -> EventRec]
        /\ \A x \in Event \ {e} : d[x] = event[x]
        /\ e # None => /\ d[e].deletes = event[e].deletes + 1
                       /\ d[e].runs = event[e].runs
                       /\ d[e].left = event[e].left
                       /\ d[e].made = event[e].made
                       /\ d[e].wrapped = event[e].wrapped
                       /\ d[e].early = event[e].early
                       /\ d[e].returned = event[e].returned
    BY Zenon, <1>1, DeletedFacts
  <2>2. event' = d
    BY Zenon, <1>3
  <2> HIDE DEF d
  <2> QED
    BY Zenon, <2>1, <2>2
<1>5. e # None => e \in Event /\ ~Queued(e) /\ Ended(event[e], "poll")
  BY Zenon, <1>1, <1>2, LastNotQueued DEF EventInv, Ran
<1>6. \A x \in Event : Queued(x) => event'[x] = event[x]
  BY Zenon, <1>1, <1>4, <1>5
<1>7. PICK there \in {"move", "take"} :
        /\ loop' = [loop EXCEPT ![c] = there]
        /\ there = "move" => /\ pq # << >> /\ pq[1].at <= jiffies
                             /\ held' = [held EXCEPT ![c] = pq[1].e] /\ pq' = Tail(pq)
        /\ there = "take" => held' = held /\ pq' = pq
  <2>1. "move" # "take"
    OBVIOUS
  <2> QED
    BY Zenon, <2>1 DEF Poll
<1>8. /\ last_event'[c] = None /\ \A k \in Core \ {c} : last_event'[k] = last_event[k]
      /\ loop'[c] = there /\ \A k \in Core \ {c} : loop'[k] = loop[k]
      /\ last_event' \in [Core -> Event \cup {None}]
  BY Zenon, <1>1, <1>3, <1>7
<1>9. loop' \in [Core -> {"off", "poll", "move", "take", "doit"}] /\ held[c] = None
  <2>1. "poll" # "move"
    OBVIOUS
  <2> QED
    BY Zenon, <1>1, <1>7, <2>1 DEF EventInv, EventTypes
<1>10. DeletedOnce'
  <2> SUFFICES ASSUME NEW x \in Event
               PROVE  /\ (\A k \in Core : last_event'[k] # x) => event'[x].deletes >= event'[x].runs
                      /\ event'[x].deletes <= event'[x].runs + (IF event'[x].returned THEN 1 ELSE 0)
    BY Zenon DEF DeletedOnce
  <2>1. CASE x = e
    <3>1. event[e].runs = 1 /\ event[e].deletes = IF event[e].returned THEN 1 ELSE 0
      <4>1. "poll" # "doit"
        OBVIOUS
      <4> QED
        BY Zenon, <1>1, <1>5, <2>1, <4>1 DEF Ended
    <3>2. event'[x].returned = event[e].returned /\ event'[x].runs = 1
            /\ event'[x].deletes = (IF event[e].returned THEN 1 ELSE 0) + 1
      BY Zenon, <1>1, <1>4, <2>1, <3>1
    <3>3. CASE event[e].returned
      <4>1. event'[x].deletes = 1 + 1 /\ event'[x].returned /\ event'[x].runs = 1
        BY Zenon, <3>2, <3>3
      <4>2. 1 + 1 >= 1 /\ 1 + 1 <= 1 + 1
        OBVIOUS
      <4> QED
        BY Zenon, <4>1, <4>2
    <3>4. CASE ~event[e].returned
      <4>1. event'[x].deletes = 0 + 1 /\ ~event'[x].returned /\ event'[x].runs = 1
        BY Zenon, <3>2, <3>4
      <4>2. 0 + 1 >= 1 /\ 0 + 1 <= 1 + 0
        OBVIOUS
      <4> QED
        BY Zenon, <4>1, <4>2
    <3> QED
      BY Zenon, <3>3, <3>4
  <2>2. CASE x # e
    <3>1. event'[x] = event[x] /\ \A k \in Core : last_event[k] = x => last_event'[k] = x
      BY Zenon, <1>2, <1>4, <1>8, <2>2
    <3> QED
      BY Zenon, <3>1 DEF EventInv, DeletedOnce
  <2> QED
    BY Zenon, <2>1, <2>2
<1>11. held' \in [Core -> Event \cup {None}] /\ pq' \in Seq(Entry) /\ Sorted(pq')
       /\ (\A i \in DOMAIN pq' : \E j \in DOMAIN pq : pq'[i] = pq[j])
       /\ \A k \in Core : held'[k] # None <=> loop'[k] = "move"
  <2>1. CASE there = "take"
    <3>1. "take" # "move" /\ "poll" # "move"
      OBVIOUS
    <3>2. \A k \in Core : held[k] # None <=> loop'[k] = "move"
      BY Zenon, <1>1, <1>8, <2>1, <3>1 DEF EventInv, EventTypes
    <3> QED
      BY Zenon, <1>1, <1>7, <2>1, <3>2 DEF EventInv, Timely
  <2>2. CASE there = "move"
    <3>1. pq # << >> /\ held' = [held EXCEPT ![c] = pq[1].e] /\ pq' = Tail(pq)
      BY Zenon, <1>7, <2>2
    <3>2. pq' \in Seq(Entry) /\ Sorted(pq') /\ pq[1] \in Entry
            /\ \A i \in DOMAIN pq' : \E j \in DOMAIN pq : pq'[i] = pq[j]
      <4> DEFINE r == Tail(pq)
      <4>1. r \in Seq(Entry) /\ Sorted(r) /\ pq[1] \in Entry
              /\ \A i \in DOMAIN r : i + 1 \in DOMAIN pq /\ r[i] = pq[i + 1]
        BY Zenon, <1>1, <3>1, TailFacts DEF EventInv, Timely
      <4>2. pq' = r
        BY Zenon, <3>1
      <4> HIDE DEF r
      <4> QED
        BY Zenon, <4>1, <4>2
    <3>3. pq[1].e \in Event
      BY Zenon, <3>2 DEF Entry
    <3>4. held' \in [Core -> Event \cup {None}]
      BY Zenon, <1>1, <3>1, <3>3
    <3>5. \A k \in Core : held'[k] # None <=> loop'[k] = "move"
      BY Zenon, <1>1, <1>8, <2>2, <3>1, <3>3 DEF EventInv, EventTypes
    <3> QED
      BY Zenon, <3>2, <3>4, <3>5
  <2> QED
    BY Zenon, <2>1, <2>2
<1>12. EventTypes'
  <2>1. ASSUME NEW k \in Core
        PROVE  /\ last_event'[k] # None => loop'[k] \in {"poll", "doit"}
               /\ core'[k].pc \notin {"up", "panic"} => loop'[k] = "off"
    <3>1. core[c].pc \in {"up", "panic"}
      BY <1>1 DEF EventInv, EventTypes
    <3> QED
      BY Zenon, <1>8, <3>1 DEF EventInv, EventTypes
  <2> QED
    BY Zenon, <1>3, <1>4, <1>8, <1>9, <1>11, <2>1 DEF EventInv, EventTypes
<1>13. Once' /\ (\A x \in Event : (Queued(x))' => Queued(x))
       /\ (\A x \in Event : (Holds(x))' => Holds(x) \/ (there = "move" /\ x = pq[1].e))
  <2>0. ASSUME NEW k \in Core, NEW l \in Core, NEW x \in Event, last_event'[k] = x, last_event'[l] = x
        PROVE  k = l
    <3>1. k # c /\ l # c
      BY Zenon, <1>1, <1>8, <2>0
    <3>2. last_event[k] = x /\ last_event[l] = x
      BY Zenon, <1>8, <2>0, <3>1
    <3> QED
      BY Zenon, <3>2 DEF EventInv, Once
  <2>1. CASE there = "take"
    <3>1. held' = held /\ pq' = pq
      BY Zenon, <1>7, <2>1
    <3> QED
      BY Zenon, <1>3, <2>0, <3>1 DEF EventInv, Once, Queued, Holds
  <2>2. CASE there = "move"
    <3>1. pq # << >> /\ held' = [held EXCEPT ![c] = pq[1].e] /\ pq' = Tail(pq)
      BY Zenon, <1>7, <2>2
    <3>2. PICK h : h = pq[1].e
      BY Zenon
    <3>3. /\ h \in Of(pq) /\ Of(pq') \subseteq Of(pq) /\ Apart(pq') /\ h \notin Of(pq')
          /\ pq[1] \in Entry
      BY Zenon, <1>1, <3>1, <3>2, TailFacts DEF EventInv, Once
    <3>4. h \in Event
      BY Zenon, <3>2, <3>3 DEF Entry
    <3>5. h \notin Range(ready) /\ ~Holds(h) /\ Queued(h)
      BY Zenon, <3>3, <3>4 DEF EventInv, Once, Queued
    <3>6. held'[c] = h /\ \A k \in Core \ {c} : held'[k] = held[k]
      BY Zenon, <1>1, <3>1, <3>2
    <3>7. \A x \in Event : (Holds(x))' => Holds(x) \/ x = h
      BY Zenon, <3>6 DEF Holds
    <3>8. \A x \in Event : (Queued(x))' => Queued(x)
      BY Zenon, <1>3, <3>3, <3>5, <3>7 DEF Queued
    <3>9. ASSUME NEW x \in Event
          PROVE  /\ x \in Of(pq') => x \notin Range(ready') /\ ~(Holds(x))'
                 /\ x \in Range(ready') => ~(Holds(x))'
      BY Zenon, <1>3, <3>3, <3>5, <3>7 DEF EventInv, Once
    <3>10. ASSUME NEW x \in Event, NEW k \in Core, NEW l \in Core, held'[k] = x, held'[l] = x
           PROVE  k = l
      BY Zenon, <3>5, <3>6, <3>10 DEF EventInv, Once, Holds
    <3>11. IsInjective(ready')
      BY Zenon, <1>3 DEF EventInv, Once
    <3>12. Once'
      BY Zenon, <2>0, <3>3, <3>9, <3>10, <3>11 DEF Once
    <3> QED
      BY Zenon, <2>2, <3>2, <3>7, <3>8, <3>12
  <2> QED
    BY Zenon, <2>1, <2>2
<1>14. \A x \in Event : (Queued(x))' => event'[x] = event[x]
  BY Zenon, <1>6, <1>13
<1>15. ASSUME there = "move" PROVE Soon(event[pq[1].e])
  <2>1. pq # << >> /\ pq[1].at <= jiffies
    BY Zenon, <1>7, <1>15
  <2>2. pq[1] \in Entry /\ 1 \in DOMAIN pq
    BY Zenon, <1>1, <2>1, TailFacts
  <2>3. pq[1].e \in Event /\ pq[1].at \in Nat /\ InTime(event[pq[1].e], jiffies, pq[1].at)
    BY Zenon, <2>2 DEF Entry, EventInv, Timely
  <2>4. event[pq[1].e].left \in Nat
    BY <1>1, <2>3 DEF EventRec
  <2>5. jiffies + event[pq[1].e].left <= pq[1].at => event[pq[1].e].left = 0
    BY <1>1, <2>1, <2>3, <2>4
  <2> QED
    BY Zenon, <2>3, <2>5 DEF InTime, Soon
<1>16. \A x \in Event : x \in Range(ready') \/ (Holds(x))' => Soon(event[x])
  BY Zenon, <1>3, <1>13, <1>15 DEF EventInv, Timely
<1>17. \A x \in Event : /\ event'[x].early => event'[x].wrapped
                        /\ ~event'[x].made => event'[x] = event[x]
  <2>1. ASSUME NEW x \in Event, x = e
        PROVE  event'[x].early = event[x].early /\ event'[x].wrapped = event[x].wrapped /\ event'[x].made
    <3>1. event'[e].made = event[e].made /\ event'[e].early = event[e].early
            /\ event'[e].wrapped = event[e].wrapped /\ Ended(event[e], "poll")
      BY Zenon, <1>1, <1>4, <1>5, <2>1
    <3>2. event[e].runs = 1 /\ 1 # 0
      BY <3>1 DEF Ended
    <3>3. event[e].made
      BY Zenon, <2>1, <3>2 DEF EventInv, Ran, Idle
    <3> QED
      BY Zenon, <2>1, <3>1, <3>3
  <2> QED
    BY Zenon, <1>4, <2>1 DEF EventInv, Timely, NotEarly
<1>18. Timely'
  BY Zenon, <1>3, <1>11, <1>14, <1>16, <1>17, TimelyKept
<1>19. ASSUME NEW k \in Core, last_event'[k] # None PROVE Ended(event'[last_event'[k]], loop'[k])
  <2>1. k # c /\ last_event'[k] = last_event[k] /\ loop'[k] = loop[k] /\ last_event[k] \in Event
    BY Zenon, <1>1, <1>8, <1>19
  <2>2. last_event[k] # e
    BY Zenon, <1>2, <2>1 DEF EventInv, Once
  <2> QED
    BY Zenon, <1>1, <1>4, <2>1, <2>2 DEF EventInv, Ran
<1>20. Ran'
  BY Zenon, <1>13, <1>14, <1>17, <1>19, RanKept
<1> QED
  BY Zenon, <1>10, <1>12, <1>13, <1>18, <1>20 DEF EventInv

(* ready_queue.add of an event that is not in it.                           *)
LEMMA ReadyFacts ==
  ASSUME NEW e \in Event, ready \in Seq(Event), IsInjective(ready), e \notin Range(ready)
  PROVE  /\ Append(ready, e) \in Seq(Event) /\ IsInjective(Append(ready, e))
         /\ Range(Append(ready, e)) = Range(ready) \cup {e}
<1>1. PICK q \in Seq(Event) : q = ready
  BY Zenon
<1>2. /\ Append(q, e) \in Seq(Event) /\ Range(Append(q, e)) = Range(q) \cup {e}
      /\ IsInjective(q) /\ e \notin Range(q) => IsInjective(Append(q, e))
  BY AddFacts
<1> QED
  BY Zenon, <1>1, <1>2

(* The event a core holds goes to the ready queue.                          *)
LEMMA MoveStep ==
  ASSUME EventInv, NEW c \in Core, Move(c), core' = core
  PROVE  EventInv'
<1>1. /\ event \in [Event -> EventRec] /\ pq \in Seq(Entry) /\ ready \in Seq(Event)
      /\ held \in [Core -> Event \cup {None}]
      /\ loop \in [Core -> {"off", "poll", "move", "take", "doit"}] /\ loop[c] = "move"
      /\ None \notin Event /\ held[c] \in Event
  BY Zenon, EventsAssumption DEF EventInv, EventTypes, Move
<1>2. PICK h \in Event : h = held[c]
  BY Zenon, <1>1
<1>3. /\ ready' = Append(ready, h) /\ held' = [held EXCEPT ![c] = None]
      /\ loop' = [loop EXCEPT ![c] = "poll"] /\ UNCHANGED <<jiffies, pq, last_event, event>>
  BY Zenon, <1>2 DEF Move
<1>4. /\ held' \in [Core -> Event \cup {None}] /\ held'[c] = None
      /\ \A k \in Core \ {c} : held'[k] = held[k]
      /\ loop' \in [Core -> {"off", "poll", "move", "take", "doit"}] /\ loop'[c] = "poll"
      /\ \A k \in Core \ {c} : loop'[k] = loop[k]
  BY Zenon, <1>1, <1>3
<1>5. Holds(h) /\ h \notin Range(ready) /\ h \notin Of(pq) /\ Queued(h)
  BY Zenon, <1>2 DEF EventInv, Once, Holds, Queued
<1>6. /\ ready' \in Seq(Event) /\ Range(ready') = Range(ready) \cup {h} /\ IsInjective(ready')
  <2> DEFINE r == Append(ready, h)
  <2>1. r \in Seq(Event) /\ Range(r) = Range(ready) \cup {h} /\ IsInjective(r)
    BY Zenon, <1>1, <1>5, ReadyFacts DEF EventInv, Once
  <2>2. ready' = r
    BY Zenon, <1>3
  <2> HIDE DEF r
  <2> QED
    BY Zenon, <2>1, <2>2
<1>7. \A x \in Event : (Holds(x))' => Holds(x) /\ x # h
  <2>1. ASSUME NEW x \in Event, NEW k \in Core, held'[k] = x PROVE Holds(x) /\ x # h
    <3>1. k # c /\ held[k] = x
      BY Zenon, <1>1, <1>4, <2>1
    <3> QED
      BY Zenon, <1>2, <3>1 DEF EventInv, Once, Holds
  <2> QED
    BY Zenon, <2>1 DEF Holds
<1>8. \A x \in Event : (Queued(x))' => Queued(x)
  BY Zenon, <1>3, <1>5, <1>6, <1>7 DEF Queued
<1>9. EventTypes'
  <2>1. "poll" # "move" /\ "move" \notin {"poll", "doit"} /\ "move" # "off"
    OBVIOUS
  <2>2. ASSUME NEW k \in Core
        PROVE  /\ held'[k] # None <=> loop'[k] = "move"
               /\ last_event'[k] # None => loop'[k] \in {"poll", "doit"}
               /\ core'[k].pc \notin {"up", "panic"} => loop'[k] = "off"
    BY Zenon, <1>1, <1>3, <1>4, <2>1 DEF EventInv, EventTypes
  <2> QED
    BY Zenon, <1>3, <1>4, <1>6, <2>2 DEF EventInv, EventTypes
<1>10. Once'
  <2>1. ASSUME NEW x \in Event
        PROVE  /\ x \in Of(pq') => x \notin Range(ready') /\ ~(Holds(x))'
               /\ x \in Range(ready') => ~(Holds(x))'
    BY Zenon, <1>3, <1>5, <1>6, <1>7 DEF EventInv, Once
  <2>2. ASSUME NEW x \in Event, NEW k \in Core, NEW l \in Core, held'[k] = x, held'[l] = x
        PROVE  k = l
    <3>1. k # c /\ l # c
      BY Zenon, <1>1, <1>4, <2>2
    <3>2. held[k] = x /\ held[l] = x
      BY Zenon, <1>4, <2>2, <3>1
    <3> QED
      BY Zenon, <3>2 DEF EventInv, Once
  <2> QED
    BY Zenon, <1>3, <1>6, <2>1, <2>2 DEF EventInv, Once
<1>11. Timely'
  <2>1. \A x \in Event : x \in Range(ready') \/ (Holds(x))' => Soon(event[x])
    BY Zenon, <1>5, <1>6, <1>7 DEF EventInv, Timely
  <2>2. \A x \in Event : event'[x] = event[x] /\ (event'[x].early => event'[x].wrapped)
    BY Zenon, <1>3 DEF EventInv, Timely, NotEarly
  <2>3. jiffies' = jiffies /\ Sorted(pq') /\ \A i \in DOMAIN pq' : \E j \in DOMAIN pq : pq'[i] = pq[j]
    BY Zenon, <1>3 DEF EventInv, Timely
  <2> QED
    BY Zenon, <2>1, <2>2, <2>3, TimelyKept
<1>12. Ran'
  <2>1. "move" \notin {"poll", "doit"}
    OBVIOUS
  <2>2. ASSUME NEW k \in Core, last_event'[k] # None PROVE Ended(event'[last_event'[k]], loop'[k])
    <3>1. last_event[k] # None /\ k # c
      BY Zenon, <1>1, <1>3, <2>1, <2>2 DEF EventInv, EventTypes
    <3> QED
      BY Zenon, <1>3, <1>4, <3>1 DEF EventInv, Ran
  <2>3. \A x \in Event : event'[x] = event[x]
    BY Zenon, <1>3
  <2> QED
    BY Zenon, <1>8, <2>2, <2>3, RanKept
<1>13. DeletedOnce'
  BY Zenon, <1>3 DEF EventInv, DeletedOnce
<1> QED
  BY Zenon, <1>9, <1>10, <1>11, <1>12, <1>13 DEF EventInv

(* A core takes an event that is ready, and runs it.                        *)
LEMMA TakeStep ==
  ASSUME EventInv, NEW c \in Core, Take(c), core' = core, ready # << >>
  PROVE  EventInv'
<1>1. /\ event \in [Event -> EventRec] /\ pq \in Seq(Entry) /\ ready \in Seq(Event)
      /\ last_event \in [Core -> Event \cup {None}]
      /\ loop \in [Core -> {"off", "poll", "move", "take", "doit"}] /\ loop[c] = "take"
      /\ None \notin Event
  BY Zenon, EventsAssumption DEF EventInv, EventTypes, Take
<1>2. /\ Head(ready) \in Event /\ Tail(ready) \in Seq(Event) /\ Head(ready) \in Range(ready)
      /\ Range(ready) = Range(Tail(ready)) \cup {Head(ready)}
      /\ IsInjective(Tail(ready)) /\ Head(ready) \notin Range(Tail(ready))
  BY Zenon, <1>1, RemoveFacts DEF EventInv, Once
<1>3. PICK h \in Event : h = Head(ready)
  BY Zenon, <1>2
<1>4. /\ ready' = Tail(ready) /\ last_event' = [last_event EXCEPT ![c] = h]
      /\ event' = [event EXCEPT ![h].runs = @ + 1, ![h].early = event[h].left > 0]
      /\ loop' = [loop EXCEPT ![c] = "doit"] /\ UNCHANGED <<jiffies, pq, held>>
  BY Zenon, <1>3 DEF Take
<1>5. /\ ready' \in Seq(Event) /\ IsInjective(ready') /\ h \notin Range(ready') /\ h \in Range(ready)
      /\ \A x \in Event : x \in Range(ready') => x \in Range(ready)
  <2> DEFINE r == Tail(ready)
  <2>1. /\ r \in Seq(Event) /\ IsInjective(r) /\ h \notin Range(r) /\ h \in Range(ready)
        /\ \A x \in Event : x \in Range(r) => x \in Range(ready)
    BY Zenon, <1>2, <1>3
  <2>2. ready' = r
    BY Zenon, <1>4
  <2> HIDE DEF r
  <2> QED
    BY Zenon, <2>1, <2>2
<1>6. event[h].made /\ Idle(event[h]) /\ Soon(event[h]) /\ h \notin Of(pq) /\ ~Holds(h)
  BY Zenon, <1>5 DEF EventInv, Ran, Timely, Once, Queued
<1>7. event[h].runs = 0 /\ event[h].deletes = 0 /\ ~event[h].returned
  BY Zenon, <1>6 DEF Idle
<1>8. /\ event' \in [Event -> EventRec] /\ \A x \in Event \ {h} : event'[x] = event[x]
      /\ event'[h].runs = 1 /\ event'[h].deletes = 0 /\ event'[h].returned = event[h].returned
      /\ event'[h].made = event[h].made /\ event'[h].wrapped = event[h].wrapped
      /\ event'[h].early = (event[h].left > 0)
  <2>1. PICK x \in EventRec : x = event[h] /\ x.runs = 0 /\ x.deletes = 0
    BY Zenon, <1>1, <1>7
  <2>2. PICK y : y = [x EXCEPT !.runs = x.runs + 1, !.early = (x.left > 0)]
    BY Zenon
  <2>3. event' = [event EXCEPT ![h] = y]
    BY <1>1, <1>4, <2>1, <2>2
  <2>4. y \in EventRec /\ y.runs = 1 /\ y.deletes = 0
    <3>1. 0 + 1 = 1 /\ 1 \in Nat
      OBVIOUS
    <3>2. PICK b \in BOOLEAN : b = (x.left > 0)
      <4>1. CASE x.left > 0
        BY Zenon, <4>1
      <4>2. CASE ~(x.left > 0)
        <5>1. FALSE \in BOOLEAN /\ FALSE = (x.left > 0)
          BY <4>2
        <5> QED
          BY Zenon, <5>1
      <4> QED
        BY Zenon, <4>1, <4>2
    <3>3. y = [x EXCEPT !.runs = 1, !.early = b]
      BY Zenon, <2>1, <2>2, <3>1, <3>2
    <3> QED
      BY <2>1, <3>1, <3>3 DEF EventRec
  <2>5. y.returned = x.returned /\ y.made = x.made /\ y.wrapped = x.wrapped /\ y.early = (x.left > 0)
    BY <2>2 DEF EventRec
  <2> QED
    BY Zenon, <1>1, <2>1, <2>3, <2>4, <2>5
<1>9. /\ last_event' \in [Core -> Event \cup {None}] /\ last_event'[c] = h
      /\ \A k \in Core \ {c} : last_event'[k] = last_event[k]
      /\ loop' \in [Core -> {"off", "poll", "move", "take", "doit"}] /\ loop'[c] = "doit"
      /\ \A k \in Core \ {c} : loop'[k] = loop[k]
  BY Zenon, <1>1, <1>4
<1>10. \A x \in Event : (Holds(x))' => Holds(x)
  BY Zenon, <1>4 DEF Holds
<1>11. \A x \in Event : (Queued(x))' => Queued(x) /\ x # h
  BY Zenon, <1>4, <1>5, <1>6, <1>10 DEF Queued
<1>12. \A k \in Core : last_event[k] # h
  <2>1. Queued(h)
    BY Zenon, <1>5 DEF Queued
  <2> QED
    BY Zenon, <1>1, <2>1, LastNotQueued
<1>13. EventTypes'
  <2>1. "take" # "move" /\ "doit" # "move" /\ "take" # "off"
    OBVIOUS
  <2>2. ASSUME NEW k \in Core
        PROVE  /\ held'[k] # None <=> loop'[k] = "move"
               /\ last_event'[k] # None => loop'[k] \in {"poll", "doit"}
               /\ core'[k].pc \notin {"up", "panic"} => loop'[k] = "off"
    BY Zenon, <1>1, <1>4, <1>9, <2>1 DEF EventInv, EventTypes
  <2> QED
    BY Zenon, <1>4, <1>5, <1>8, <1>9, <2>2 DEF EventInv, EventTypes
<1>14. Once'
  <2>1. ASSUME NEW x \in Event
        PROVE  /\ x \in Of(pq') => x \notin Range(ready') /\ ~(Holds(x))'
               /\ x \in Range(ready') => ~(Holds(x))'
               /\ \A k, l \in Core : held'[k] = x /\ held'[l] = x => k = l
    BY Zenon, <1>4, <1>5, <1>10 DEF EventInv, Once
  <2>2. ASSUME NEW x \in Event, NEW k \in Core, NEW l \in Core, last_event'[k] = x, last_event'[l] = x
        PROVE  k = l
    <3>1. CASE x = h
      BY Zenon, <1>9, <1>12, <2>2, <3>1
    <3>2. CASE x # h
      <4>1. k # c /\ l # c
        BY Zenon, <1>9, <2>2, <3>2
      <4>2. last_event[k] = x /\ last_event[l] = x
        BY Zenon, <1>9, <2>2, <4>1
      <4> QED
        BY Zenon, <4>2 DEF EventInv, Once
    <3> QED
      BY Zenon, <3>1, <3>2
  <2>3. Apart(pq')
    BY Zenon, <1>4 DEF EventInv, Once
  <2> QED
    BY Zenon, <1>5, <2>1, <2>2, <2>3 DEF Once
<1>15. Timely'
  <2>1. \A x \in Event : x \in Range(ready') \/ (Holds(x))' => Soon(event[x])
    BY Zenon, <1>5, <1>10 DEF EventInv, Timely
  <2>2. event[h].left = 0 => ~(event[h].left > 0)
    OBVIOUS
  <2>3. event'[h].early => event'[h].wrapped
    BY Zenon, <1>6, <1>8, <2>2 DEF Soon
  <2>4. \A x \in Event : event'[x].early => event'[x].wrapped
    BY Zenon, <1>8, <2>3 DEF EventInv, Timely, NotEarly
  <2>5. jiffies' = jiffies /\ Sorted(pq') /\ \A i \in DOMAIN pq' : \E j \in DOMAIN pq : pq'[i] = pq[j]
    BY Zenon, <1>4 DEF EventInv, Timely
  <2>6. \A x \in Event : (Queued(x))' => event'[x] = event[x]
    BY Zenon, <1>8, <1>11
  <2> QED
    BY Zenon, <2>1, <2>4, <2>5, <2>6, TimelyKept
<1>16. Ran'
  <2>1. \A x \in Event : (Queued(x))' => Queued(x) /\ event'[x] = event[x]
    BY Zenon, <1>8, <1>11
  <2>2. \A x \in Event : ~event'[x].made => event'[x] = event[x]
    BY Zenon, <1>6, <1>8
  <2>3. ASSUME NEW k \in Core, last_event'[k] # None PROVE Ended(event'[last_event'[k]], loop'[k])
    <3>1. CASE k = c
      BY Zenon, <1>7, <1>8, <1>9, <3>1 DEF Ended
    <3>2. CASE k # c
      <4>1. last_event'[k] = last_event[k] /\ loop'[k] = loop[k] /\ last_event[k] \in Event \ {h}
        BY Zenon, <1>1, <1>9, <1>12, <2>3, <3>2
      <4> QED
        BY Zenon, <1>1, <1>8, <4>1 DEF EventInv, Ran
    <3> QED
      BY Zenon, <3>1, <3>2
  <2> QED
    BY Zenon, <2>1, <2>2, <2>3, RanKept
<1>17. DeletedOnce'
  <2> SUFFICES ASSUME NEW x \in Event
               PROVE  /\ (\A k \in Core : last_event'[k] # x) => event'[x].deletes >= event'[x].runs
                      /\ event'[x].deletes <= event'[x].runs + (IF event'[x].returned THEN 1 ELSE 0)
    BY Zenon DEF DeletedOnce
  <2>1. CASE x = h
    <3>1. 0 <= 1 + 0
      OBVIOUS
    <3> QED
      BY Zenon, <1>7, <1>8, <1>9, <2>1, <3>1
  <2>2. CASE x # h
    <3>1. event'[x] = event[x]
      BY Zenon, <1>8, <2>2
    <3>2. ASSUME NEW k \in Core, last_event[k] = x PROVE last_event'[k] = x
      <4>1. "take" \notin {"poll", "doit"}
        OBVIOUS
      <4>2. k # c
        BY Zenon, <1>1, <3>2, <4>1 DEF EventInv, EventTypes
      <4> QED
        BY Zenon, <1>9, <3>2, <4>2
    <3> QED
      BY Zenon, <3>1, <3>2 DEF EventInv, DeletedOnce
  <2> QED
    BY Zenon, <2>1, <2>2
<1> QED
  BY Zenon, <1>13, <1>14, <1>15, <1>16, <1>17 DEF EventInv

(* What a core runs returns, and the event is deleted.                      *)
LEMMA ReturnStep ==
  ASSUME EventInv, NEW c \in Core, Return(c), core' = core
  PROVE  EventInv'
<1>1. /\ event \in [Event -> EventRec] /\ last_event \in [Core -> Event \cup {None}]
      /\ loop \in [Core -> {"off", "poll", "move", "take", "doit"}] /\ loop[c] = "doit"
      /\ last_event[c] \in Event
  BY Zenon DEF EventInv, EventTypes, Return
<1>2. PICK h \in Event : h = last_event[c] /\ h # None
  BY Zenon, <1>1 DEF Return
<1>3. PICK es : es = [event EXCEPT ![h].returned = TRUE]
  BY Zenon
<1>4. /\ event' = Deleted(es, h) /\ loop' = [loop EXCEPT ![c] = "poll"]
      /\ UNCHANGED <<jiffies, pq, ready, last_event, held>>
  BY Zenon, <1>2, <1>3 DEF Return
<1>5. Ended(event[h], "doit") /\ ~Queued(h)
  BY Zenon, <1>1, <1>2, LastNotQueued DEF EventInv, Ran
<1>6. event[h].runs = 1 /\ event[h].deletes = 0
  BY Zenon, <1>5 DEF Ended
<1>7. /\ es \in [Event -> EventRec] /\ \A x \in Event \ {h} : es[x] = event[x]
      /\ es[h].returned /\ es[h].runs = 1 /\ es[h].deletes = 0
      /\ es[h].made = event[h].made /\ es[h].wrapped = event[h].wrapped
      /\ es[h].early = event[h].early
  <2>1. PICK x \in EventRec : x = event[h] /\ x.runs = 1 /\ x.deletes = 0
    BY Zenon, <1>1, <1>6
  <2>2. PICK y : y = [x EXCEPT !.returned = TRUE]
    BY Zenon
  <2>3. es = [event EXCEPT ![h] = y]
    BY <1>1, <1>3, <2>1, <2>2
  <2>4. y \in EventRec /\ y.runs = 1 /\ y.deletes = 0
    BY <2>1, <2>2 DEF EventRec
  <2>5. y.returned /\ y.made = x.made /\ y.wrapped = x.wrapped /\ y.early = x.early
    BY <2>2 DEF EventRec
  <2> QED
    BY Zenon, <1>1, <2>1, <2>3, <2>4, <2>5
<1>8. /\ event' \in [Event -> EventRec] /\ \A x \in Event \ {h} : event'[x] = event[x]
      /\ event'[h].returned /\ event'[h].runs = 1 /\ event'[h].deletes = 1
      /\ event'[h].made = event[h].made /\ event'[h].wrapped = event[h].wrapped
      /\ event'[h].early = event[h].early
  <2> DEFINE d == Deleted(es, h)
  <2>1. /\ d \in [Event -> EventRec] /\ \A x \in Event \ {h} : d[x] = es[x]
        /\ d[h].deletes = es[h].deletes + 1 /\ d[h].runs = es[h].runs
        /\ d[h].made = es[h].made /\ d[h].wrapped = es[h].wrapped
        /\ d[h].early = es[h].early /\ d[h].returned = es[h].returned
    <3>1. h \in Event \cup {None}
      BY Zenon
    <3> QED
      BY Zenon, <1>2, <1>7, <3>1, DeletedFacts
  <2>2. event' = d /\ 0 + 1 = 1
    BY <1>4
  <2> HIDE DEF d
  <2> QED
    BY Zenon, <1>7, <2>1, <2>2
<1>9. /\ loop' \in [Core -> {"off", "poll", "move", "take", "doit"}] /\ loop'[c] = "poll"
      /\ \A k \in Core \ {c} : loop'[k] = loop[k]
  BY Zenon, <1>1, <1>4
<1>10. /\ \A x \in Event : (Holds(x))' <=> Holds(x)
       /\ \A x \in Event : (Queued(x))' => Queued(x) /\ x # h
  BY Zenon, <1>4, <1>5 DEF Queued, Holds
<1>11. EventTypes'
  <2>1. "poll" # "move" /\ "doit" # "move" /\ "doit" # "off"
    OBVIOUS
  <2>2. ASSUME NEW k \in Core
        PROVE  /\ held'[k] # None <=> loop'[k] = "move"
               /\ last_event'[k] # None => loop'[k] \in {"poll", "doit"}
               /\ core'[k].pc \notin {"up", "panic"} => loop'[k] = "off"
    BY Zenon, <1>1, <1>4, <1>9, <2>1 DEF EventInv, EventTypes
  <2> QED
    BY Zenon, <1>4, <1>8, <1>9, <2>2 DEF EventInv, EventTypes
<1>12. Once'
  BY Zenon, <1>4 DEF EventInv, Once, Holds
<1>13. Timely'
  <2>1. \A x \in Event : x \in Range(ready') \/ (Holds(x))' => Soon(event[x])
    BY Zenon, <1>4, <1>10 DEF EventInv, Timely
  <2>2. \A x \in Event : event'[x].early => event'[x].wrapped
    BY Zenon, <1>8 DEF EventInv, Timely, NotEarly
  <2>3. jiffies' = jiffies /\ Sorted(pq') /\ \A i \in DOMAIN pq' : \E j \in DOMAIN pq : pq'[i] = pq[j]
    BY Zenon, <1>4 DEF EventInv, Timely
  <2>4. \A x \in Event : (Queued(x))' => event'[x] = event[x]
    BY Zenon, <1>8, <1>10
  <2> QED
    BY Zenon, <2>1, <2>2, <2>3, <2>4, TimelyKept
<1>14. Ran'
  <2>1. \A x \in Event : (Queued(x))' => Queued(x) /\ event'[x] = event[x]
    BY Zenon, <1>8, <1>10
  <2>2. event[h].made
    <3>1. 1 # 0
      OBVIOUS
    <3> QED
      BY Zenon, <1>6, <3>1 DEF EventInv, Ran, Idle
  <2>3. \A x \in Event : ~event'[x].made => event'[x] = event[x]
    BY Zenon, <1>8, <2>2
  <2>4. ASSUME NEW k \in Core, last_event'[k] # None PROVE Ended(event'[last_event'[k]], loop'[k])
    <3>1. CASE k = c
      <4>1. "poll" # "doit"
        OBVIOUS
      <4> QED
        BY Zenon, <1>2, <1>4, <1>8, <1>9, <3>1, <4>1 DEF Ended
    <3>2. CASE k # c
      <4>1. last_event'[k] = last_event[k] /\ loop'[k] = loop[k] /\ last_event[k] \in Event \ {h}
        BY Zenon, <1>1, <1>2, <1>4, <1>9, <2>4, <3>2 DEF EventInv, Once
      <4> QED
        BY Zenon, <1>1, <1>8, <2>4, <4>1 DEF EventInv, Ran
    <3> QED
      BY Zenon, <3>1, <3>2
  <2> QED
    BY Zenon, <2>1, <2>3, <2>4, RanKept
<1>15. DeletedOnce'
  <2> SUFFICES ASSUME NEW x \in Event
               PROVE  /\ (\A k \in Core : last_event'[k] # x) => event'[x].deletes >= event'[x].runs
                      /\ event'[x].deletes <= event'[x].runs + (IF event'[x].returned THEN 1 ELSE 0)
    BY Zenon DEF DeletedOnce
  <2>1. CASE x = h
    <3>1. 1 <= 1 + 1 /\ 1 >= 1
      OBVIOUS
    <3> QED
      BY Zenon, <1>8, <2>1, <3>1
  <2>2. CASE x # h
    <3>1. event'[x] = event[x]
      BY Zenon, <1>8, <2>2
    <3> QED
      BY Zenon, <1>4, <3>1 DEF EventInv, DeletedOnce
  <2> QED
    BY Zenon, <2>1, <2>2
<1> QED
  BY Zenon, <1>11, <1>12, <1>13, <1>14, <1>15 DEF EventInv

(* go makes an event, which is in no queue and has never run: it is ready   *)
(* at once, or in the timer queue until its time.                           *)
LEMMA GoStep ==
  ASSUME EventInv, NEW c \in Core, NEW e \in Event, NEW d \in Delays, go(c, e, d), core' = core
  PROVE  EventInv'
<1>1. /\ event \in [Event -> EventRec] /\ pq \in Seq(Entry) /\ ready \in Seq(Event)
      /\ jiffies \in Nat /\ d \in Nat /\ W \in Nat /\ W > 0
  BY Zenon, EventsAssumption DEF EventInv, EventTypes
<1>2. PICK n : n = [Unmade EXCEPT !.made = TRUE, !.left = IF d = 0 THEN 0 ELSE d + 1,
                                  !.wrapped = d # 0 /\ jiffies + d + 1 >= W]
  BY Zenon
<1>3. ~event[e].made /\ event' = [event EXCEPT ![e] = n]
  BY Zenon, <1>2 DEF go
<1>4. UNCHANGED <<jiffies, last_event, held, loop>>
  BY Zenon DEF go
<1>5. /\ n \in EventRec /\ n.runs = 0 /\ n.deletes = 0
      /\ n.left = (IF d = 0 THEN 0 ELSE d + 1)
  <2>1. PICK b \in BOOLEAN : b = (d # 0 /\ jiffies + d + 1 >= W)
    <3>1. (d # 0 /\ jiffies + d + 1 >= W) \in BOOLEAN
      OBVIOUS
    <3> QED
      BY Zenon, <3>1
  <2>2. PICK l \in Nat : l = (IF d = 0 THEN 0 ELSE d + 1)
    BY <1>1
  <2>3. n = [Unmade EXCEPT !.made = TRUE, !.left = l, !.wrapped = b]
    BY Zenon, <1>2, <2>1, <2>2
  <2>4. n \in EventRec /\ n.runs = 0 /\ n.deletes = 0 /\ n.left = l
    BY <2>3 DEF EventRec, Unmade
  <2> QED
    BY Zenon, <2>2, <2>4
<1>6. n.made /\ ~n.early /\ ~n.returned /\ n.wrapped = (d # 0 /\ jiffies + d + 1 >= W)
  BY <1>2 DEF Unmade
<1>7. /\ event' \in [Event -> EventRec] /\ event'[e] = n
      /\ \A x \in Event \ {e} : event'[x] = event[x]
  BY Zenon, <1>1, <1>3, <1>5
<1>8. ~Queued(e) /\ \A k \in Core : last_event[k] # e
  <2>1. ~Queued(e) /\ event[e].runs = 0
    BY Zenon, <1>3 DEF EventInv, Ran, Idle
  <2>2. ASSUME NEW k \in Core, last_event[k] = e PROVE FALSE
    <3>1. e # None /\ 1 # 0
      BY EventsAssumption
    <3> QED
      BY Zenon, <2>1, <2>2, <3>1 DEF EventInv, Ran, Ended
  <2> QED
    BY Zenon, <2>1, <2>2
<1>9. e \notin Of(pq) /\ e \notin Range(ready) /\ ~Holds(e)
  BY Zenon, <1>8 DEF Queued
<1>10. Apart(pq) /\ Sorted(pq) /\ IsInjective(ready)
  BY Zenon DEF EventInv, Once, Timely
<1>11. ASSUME NEW i \in DOMAIN pq PROVE InTime(event'[pq[i].e], jiffies, pq[i].at)
  <2>1. pq[i] \in Entry
    BY <1>1
  <2>2. pq[i].e \in Event /\ pq[i].e # e
    BY Zenon, <1>9, <2>1 DEF Entry, Of
  <2> QED
    BY Zenon, <1>7, <2>2 DEF EventInv, Timely
<1>12. /\ pq' \in Seq(Entry) /\ Sorted(pq') /\ Apart(pq')
       /\ ready' \in Seq(Event) /\ IsInjective(ready')
       /\ \A i \in DOMAIN pq' : InTime(event'[pq'[i].e], jiffies, pq'[i].at)
       /\ \A x \in Event : x \in Of(pq') => x \in Of(pq) \/ (x = e /\ d # 0)
       /\ \A x \in Event : x \in Range(ready') => x \in Range(ready) \/ (x = e /\ d = 0)
  <2>1. CASE d = 0
    <3> DEFINE r == Append(ready, e)
    <3>1. r \in Seq(Event) /\ Range(r) = Range(ready) \cup {e} /\ IsInjective(r)
      BY Zenon, <1>1, <1>9, <1>10, ReadyFacts
    <3>2. ready' = r /\ pq' = pq
      BY Zenon, <2>1 DEF go
    <3> HIDE DEF r
    <3> QED
      BY Zenon, <1>1, <1>10, <1>11, <2>1, <3>1, <3>2
  <2>2. CASE d # 0
    <3>1. PICK a \in Nat : a = Due(d) /\ (jiffies + d + 1 < W => a = jiffies + (d + 1))
      <4>1. PICK j \in Nat : j = jiffies + d + 1 /\ j = jiffies + (d + 1)
        BY <1>1
      <4>2. j % W \in 0 .. W - 1 /\ (j < W => j % W = j)
        BY Zenon, <1>1, ModFacts
      <4>3. j % W \in Nat
        BY <1>1, <4>2
      <4> QED
        BY Zenon, <4>1, <4>2, <4>3 DEF Due
    <3> DEFINE r == add(pq, a, e)
               new == [at |-> a, e |-> e]
    <3>2. /\ r \in Seq(Entry) /\ Sorted(r)
          /\ \A i \in DOMAIN r : r[i] = new \/ \E j \in DOMAIN pq : r[i] = pq[j]
          /\ Of(r) = Of(pq) \cup {e} /\ Apart(r)
      BY Zenon, <1>1, <1>9, <1>10, InsertFacts
    <3>3. pq' = r /\ ready' = ready
      BY Zenon, <2>2, <3>1 DEF go
    <3>4. new.at = a /\ new.e = e
      BY Zenon
    <3>5. InTime(n, jiffies, a)
      <4>1. n.left = d + 1
        BY Zenon, <1>5, <2>2
      <4>2. CASE jiffies + d + 1 >= W
        BY Zenon, <1>6, <2>2, <4>2 DEF InTime, Soon
      <4>3. CASE ~(jiffies + d + 1 >= W)
        <5>1. jiffies + d + 1 < W /\ jiffies + (d + 1) \in Nat
          BY <1>1, <4>3
        <5>2. jiffies + (d + 1) <= jiffies + (d + 1)
          BY <5>1
        <5> QED
          BY Zenon, <3>1, <4>1, <5>1, <5>2 DEF InTime
      <4> QED
        BY Zenon, <4>2, <4>3
    <3> HIDE DEF r, new
    <3>6. ASSUME NEW i \in DOMAIN pq' PROVE InTime(event'[pq'[i].e], jiffies, pq'[i].at)
      BY Zenon, <1>7, <1>11, <3>2, <3>3, <3>4, <3>5
    <3> QED
      BY Zenon, <1>1, <1>10, <2>2, <3>2, <3>3, <3>6
  <2> QED
    BY Zenon, <2>1, <2>2
<1>13. \A x \in Event : (Holds(x))' <=> Holds(x)
  BY Zenon, <1>4 DEF Holds
<1>14. \A x \in Event : (Queued(x))' => Queued(x) \/ x = e
  BY Zenon, <1>12, <1>13 DEF Queued
<1>15. EventTypes'
  BY Zenon, <1>4, <1>7, <1>12 DEF EventInv, EventTypes
<1>16. Once'
  <2>1. ASSUME NEW x \in Event
        PROVE  /\ x \in Of(pq') => x \notin Range(ready') /\ ~(Holds(x))'
               /\ x \in Range(ready') => ~(Holds(x))'
    <3>1. CASE x = e
      BY Zenon, <1>9, <1>12, <1>13, <3>1
    <3>2. CASE x # e
      BY Zenon, <1>12, <1>13, <3>2 DEF EventInv, Once
    <3> QED
      BY Zenon, <3>1, <3>2
  <2>2. ASSUME NEW x \in Event
        PROVE  /\ \A k, l \in Core : held'[k] = x /\ held'[l] = x => k = l
               /\ \A k, l \in Core : last_event'[k] = x /\ last_event'[l] = x => k = l
    BY Zenon, <1>4 DEF EventInv, Once
  <2> QED
    BY Zenon, <1>12, <2>1, <2>2 DEF Once
<1>17. Timely'
  <2>1. ASSUME NEW x \in Event, x \in Range(ready') \/ (Holds(x))' PROVE Soon(event'[x])
    <3>1. CASE x = e
      BY Zenon, <1>5, <1>7, <1>9, <1>12, <1>13, <2>1, <3>1 DEF Soon
    <3>2. CASE x # e
      BY Zenon, <1>7, <1>12, <1>13, <2>1, <3>2 DEF EventInv, Timely
    <3> QED
      BY Zenon, <3>1, <3>2
  <2>2. \A x \in Event : event'[x].early => event'[x].wrapped
    BY Zenon, <1>6, <1>7 DEF EventInv, Timely, NotEarly
  <2> QED
    BY Zenon, <1>4, <1>12, <2>1, <2>2 DEF Timely, NotEarly
<1>18. Ran'
  <2>1. ASSUME NEW x \in Event
        PROVE  /\ (Queued(x))' => event'[x].made /\ Idle(event'[x])
               /\ ~event'[x].made => Idle(event'[x])
    <3>1. CASE x = e
      BY Zenon, <1>5, <1>6, <1>7, <3>1 DEF Idle
    <3>2. CASE x # e
      BY Zenon, <1>7, <1>14, <3>2 DEF EventInv, Ran
    <3> QED
      BY Zenon, <3>1, <3>2
  <2>2. ASSUME NEW k \in Core, last_event'[k] # None PROVE Ended(event'[last_event'[k]], loop'[k])
    <3>1. last_event'[k] = last_event[k] /\ loop'[k] = loop[k] /\ last_event[k] \in Event \ {e}
      BY Zenon, <1>4, <1>8, <2>2 DEF EventInv, EventTypes
    <3> QED
      BY Zenon, <1>7, <2>2, <3>1 DEF EventInv, Ran
  <2> QED
    BY Zenon, <2>1, <2>2 DEF Ran
<1>19. DeletedOnce'
  <2> SUFFICES ASSUME NEW x \in Event
               PROVE  /\ (\A k \in Core : last_event'[k] # x) => event'[x].deletes >= event'[x].runs
                      /\ event'[x].deletes <= event'[x].runs + (IF event'[x].returned THEN 1 ELSE 0)
    BY Zenon DEF DeletedOnce
  <2>1. CASE x = e
    <3>1. 0 <= 0 + 0 /\ 0 >= 0
      OBVIOUS
    <3> QED
      BY Zenon, <1>5, <1>6, <1>7, <2>1, <3>1
  <2>2. CASE x # e
    <3>1. event'[x] = event[x]
      BY Zenon, <1>7, <2>2
    <3> QED
      BY Zenon, <1>4, <3>1 DEF EventInv, DeletedOnce
  <2> QED
    BY Zenon, <2>1, <2>2
<1> QED
  BY Zenon, <1>15, <1>16, <1>17, <1>18, <1>19 DEF EventInv

(* A step that leaves the events alone, in which no core leaves event_loop  *)
(* or the panic.                                                            *)
LEMMA EventsStay ==
  ASSUME EventInv, UNCHANGED eventVars,
         \A k \in Core : core[k].pc \in {"up", "panic"} => core'[k].pc \in {"up", "panic"}
  PROVE  EventInv'
<1>1. UNCHANGED <<jiffies, pq, ready, last_event, held, loop, event>>
  BY Zenon DEF eventVars
<1>2. EventTypes'
  BY Zenon, <1>1 DEF EventInv, EventTypes
<1>3. Once' /\ Timely' /\ Ran' /\ DeletedOnce'
  BY Zenon, <1>1 DEF EventInv, Once, Timely, Ran, DeletedOnce, NotEarly, Queued, Holds
<1> QED
  BY Zenon, <1>2, <1>3 DEF EventInv

(* The steps before event_loop are such steps.                              *)
LEMMA StartingStays ==
  ASSUME StartInv, NEW c \in Core, Starting(c)
  PROVE  \A k \in Core : core[k].pc \in {"up", "panic"} => core'[k].pc \in {"up", "panic"}
<1> DEFINE Stays == \A k \in Core : core[k].pc \in {"up", "panic"} => core'[k].pc \in {"up", "panic"}
<1>1. core \in [Core -> CoreRec]
  BY Zenon DEF StartInv, CoreTypes
<1>2. core[c].pc \notin {"up", "panic"}
  <2>1. core[c].pc \in {"reset", "config", "global", "calibrate", "start", "wait", "ap", "alloc",
                        "fill", "on", "pit", "tss"}
    BY Zenon DEF Starting, Reset, configInit, GlobalInit, calibrate, StartNext, Wait, Running,
                 Alloc, Fill, vmm_on, PitInit, Tss, At
  <2> QED
    BY <2>1
<1>3. CASE \A k \in Core \ {c} : core'[k].pc = core[k].pc
  BY Zenon, <1>2, <1>3
<1>4. CASE configInit(c) \/ GlobalInit(c) \/ calibrate(c) \/ Wait(c) \/ Running(c) \/ Alloc(c)
  <2>1. PICK there : core' = [core EXCEPT ![c].pc = there]
    BY Zenon, <1>4 DEF configInit, GlobalInit, calibrate, Wait, Running, Alloc, Goto
  <2> QED
    BY Zenon, <1>1, <1>3, <2>1
<1>5. CASE Reset(c) \/ Tss(c) \/ Fill(c) \/ vmm_on(c)
  BY Zenon, <1>1, <1>3, <1>5 DEF Reset, Tss, Fill, vmm_on
<1>6. CASE PitInit(c)
  <2>1. CASE core' = [k \in Core |-> [core[k] EXCEPT !.pc = "panic"]]
    BY <1>1, <2>1 DEF CoreRec
  <2>2. CASE core' = [core EXCEPT ![c].pc = "tss"]
    BY Zenon, <1>1, <1>3, <2>2
  <2> QED
    BY Zenon, <1>6, <2>1, <2>2 DEF PitInit
<1>7. CASE StartNext(c)
  <2>1. PICK there : \/ core' = [core EXCEPT ![c].pc = there]
                     \/ core' = [core EXCEPT ![c].pc = there, ![g.id].pc = "reset"]
    BY Zenon, <1>7 DEF StartNext
  <2>2. CASE core' = [core EXCEPT ![c].pc = there]
    BY Zenon, <1>1, <1>3, <2>2
  <2>3. CASE core' = [core EXCEPT ![c].pc = there, ![g.id].pc = "reset"]
    <3>1. "start" \in First /\ "start" # "wait" /\ "off" \notin {"up", "panic"}
      BY DEF First
    <3>2. c = 0 /\ Started /\ core[0].pc = "start"
      BY Zenon, <1>7, <3>1, FirstCore DEF StartNext, At
    <3>3. g.id # 0
      BY DEF StartInv, CoreTypes
    <3>4. g.id \in Core => core[g.id].pc \notin {"up", "panic"}
      BY Zenon, <3>1, <3>2, <3>3 DEF Started, InTurn
    <3>5. \A k \in Core \ {c, g.id} : core'[k] = core[k]
      BY Zenon, <1>1, <2>3
    <3> QED
      BY Zenon, <1>2, <3>4, <3>5
  <2> QED
    BY Zenon, <2>1, <2>2, <2>3
<1> QED
  BY Zenon, <1>4, <1>5, <1>6, <1>7 DEF Starting

(* No step of the machine breaks the order of the events.                   *)
LEMMA EventStep ==
  ASSUME StartInv, EventInv, [Next]_vars
  PROVE  EventInv'
<1>1. core \in [Core -> CoreRec] /\ 0 \in Core
  BY Zenon, BootAssumption DEF StartInv, CoreTypes
<1>2. CASE UNCHANGED vars
  BY Zenon, <1>2, EventsStay DEF vars, bootVars
<1>3. CASE Load
  <2>1. UNCHANGED eventVars /\ (core' = core \/ (core[0].pc = "mbr" /\ Goto(0, "reset")))
    BY Zenon, <1>3 DEF Load, LoadSector, Jump, At
  <2>2. CASE core' = core
    BY Zenon, <2>1, <2>2, EventsStay
  <2>3. CASE core[0].pc = "mbr" /\ Goto(0, "reset")
    <3>1. "mbr" \notin {"up", "panic"} /\ \A k \in Core \ {0} : core'[k] = core[k]
      BY <1>1, <2>3 DEF Goto
    <3> QED
      BY Zenon, <2>1, <2>3, <3>1, EventsStay
  <2> QED
    BY Zenon, <2>1, <2>2, <2>3
<1>4. CASE Ticking
  BY Zenon, <1>4, TickStep DEF Ticking, bootVars
<1>5. ASSUME NEW c \in Core, Starting(c) PROVE EventInv'
  <2>1. UNCHANGED eventVars
    BY Zenon, <1>5 DEF Starting
  <2> QED
    BY Zenon, <1>5, <2>1, StartingStays, EventsStay
<1>6. ASSUME NEW c \in Core, Arriving(c) PROVE EventInv'
  <2>1. /\ core[c].pc = "sti" /\ Goto(c, "up") /\ UNCHANGED <<jiffies, pq, ready, last_event, held, event>>
        /\ \E there \in {"doit", "poll"} : loop' = [loop EXCEPT ![c] = there]
    BY Zenon, <1>6 DEF Arriving, Arrive, At
  <2>2. "sti" \notin {"up", "panic"} /\ "up" \in Pcs
    BY DEF Pcs, PerCore
  <2>3. loop[c] = "off"
    BY Zenon, <2>1, <2>2 DEF EventInv, EventTypes
  <2>4. core'[c].pc = "up" /\ \A k \in Core \ {c} : core'[k] = core[k]
    BY Zenon, <2>1, <2>2, GotoFacts DEF StartInv, ToPc, Only
  <2> QED
    BY Zenon, <2>1, <2>3, <2>4, LoopStep
<1>7. ASSUME NEW c \in Core, Up(c), Looping(c) PROVE EventInv'
  <2>1. core' = core /\ core[c].pc = "up"
    BY Zenon, <1>7 DEF Up, bootVars, At
  <2>2. CASE Poll(c) \/ Move(c)
    BY Zenon, <2>1, <2>2, PollStep, MoveStep
  <2>3. CASE Take(c)
    <3>1. CASE ready # << >>
      BY Zenon, <2>1, <2>3, <3>1, TakeStep
    <3>2. CASE ready = << >>
      BY Zenon, <2>1, <2>3, <3>2, LoopStep DEF Take
    <3> QED
      BY Zenon, <3>1, <3>2
  <2>4. CASE EventLoop(c)
    BY Zenon, <2>1, <2>4, LoopStep DEF EventLoop
  <2> QED
    BY Zenon, <1>7, <2>2, <2>3, <2>4 DEF Looping
<1>8. ASSUME NEW c \in Core, Up(c), Working(c) PROVE EventInv'
  <2>1. core' = core
    BY Zenon, <1>8 DEF Up, bootVars
  <2> QED
    BY Zenon, <1>8, <2>1, ReturnStep, GoStep DEF Working
<1> QED
  BY Zenon, <1>2, <1>3, <1>4, <1>5, <1>6, <1>7, <1>8 DEF Next

----------------------------------------------------------------------------
(* The machine is switched on: core 0 is in the boot sector, the others are *)
(* off, there is nothing in memory and no event.                            *)
LEMMA InitInv ==
  ASSUME Init
  PROVE  StartInv /\ DirTypes /\ DirInv /\ Loading /\ EventInv
<1>1. /\ core = [c \in Core |-> [pc |-> IF c = 0 THEN "mbr" ELSE "off", stack |-> None, esp0 |-> None,
                                 filled |-> 0, cr3 |-> 0]]
      /\ g = [totalProcs |-> 0, ioAPIC |-> 0, smpInitDone |-> FALSE, apitCounter |-> 0, running |-> 0,
              id |-> 1, page_directory |-> 0, howManyAreHere |-> 0, raced |-> FALSE, mains |-> 0]
      /\ dir = << >> /\ Core \subseteq Nat /\ 0 \in Core
  BY Zenon, BootAssumption DEF Init
<1>2. \A c \in Core : /\ core[c].pc = (IF c = 0 THEN "mbr" ELSE "off") /\ core[c].stack = None
                      /\ core[c].filled = 0 /\ core[c].cr3 = 0
  BY <1>1
<1>3. /\ DOMAIN g = Globals /\ g.id = 1 /\ g.running = 0 /\ g.page_directory = 0
  BY <1>1 DEF Globals
<1>4. ~g.smpInitDone
  BY <1>1
<1>5. PICK n \in Sectors : mbr = [cx |-> n % Word, di |-> Base, bp |-> 1,
                                  at |-> [s \in 0 .. Seg - 1 |-> None], n |-> n]
  BY Zenon DEF Init
<1>6. /\ DOMAIN mbr = Registers /\ mbr.cx = n % Word /\ mbr.di = Base /\ mbr.bp = 1 /\ mbr.n = n
      /\ mbr.at = [s \in 0 .. Seg - 1 |-> None]
  BY <1>5 DEF Registers
<1>7. \A c \in Core : core[c].pc \in {"mbr", "off"} /\ (core[c].pc = "mbr" => c = 0)
  BY <1>2
<1>8. StartInv
  <2>1. {"mbr", "off"} \subseteq Pcs
    BY DEF Pcs, First, Later
  <2>2. core \in [Core -> CoreRec]
    BY <1>1, <2>1 DEF CoreRec
  <2>3. CoreTypes
    BY <1>3, <1>6, <2>2 DEF CoreTypes
  <2>4. \A c \in Core : OnStack(c) /\ ~At(c, "panic")
    BY <1>2, <1>7 DEF OnStack, At
  <2>5. core[0].pc = "mbr"
    BY Zenon, <1>1, <1>2
  <2>6. "mbr" \in Alone /\ "mbr" \notin {"start"} \cup PerCore /\ "mbr" # "wait"
        /\ "mbr" \notin {"off", "ap"}
    BY DEF Alone, PerCore
  <2>7. Counting(core[0].pc)
    BY Zenon, <1>3, <1>4, <2>5, <2>6 DEF Counting
  <2>8. ASSUME NEW k \in Core \ {0} PROVE InTurn(core[0].pc, k)
    <3>1. core[k].pc = "off" /\ "off" \notin First
      BY <1>2 DEF First
    <3>2. ~(k < 1)
      BY <1>1
    <3> QED
      BY Zenon, <1>3, <3>1, <3>2 DEF InTurn
  <2> QED
    BY Zenon, <2>3, <2>4, <2>5, <2>6, <2>7, <2>8 DEF StartInv, Phases, Started
<1>9. \A c \in Core : ~Setting(c) /\ ~At(c, "fill") /\ ~At(c, "on")
  BY <1>7 DEF Setting, At
<1>10. DirTypes
  <2>1. dir \in Seq(SUBSET Whole) /\ g.page_directory \in Nat
    BY <1>1, <1>3
  <2> QED
    BY Zenon, <1>2, <1>9, <2>1 DEF DirTypes
<1>11. DirInv
  <2>1. Len(dir) = 0 /\ 0 \in 0 .. Len(dir)
    BY <1>1
  <2> QED
    BY Zenon, <1>2, <1>9, <2>1 DEF DirInv, Alike
<1>12. Loading
  <2>1. n \in Nat /\ Base \in Nat /\ Seg \in Nat
    BY Zenon, BootAssumption
  <2>2. n > 0 => 1 \in 1 .. n /\ n - 1 + 1 = n
    BY <2>1
  <2>3. Base = Base + 1 - 1 /\ 1 .. 1 - 1 = {}
    BY <2>1
  <2>4. mbr.at \in [0 .. Seg - 1 -> Nat \cup {None}]
    BY Zenon, <1>6
  <2> QED
    BY Zenon, <1>6, <2>1, <2>2, <2>3, <2>4 DEF Loading
<1>13. /\ jiffies = 0 /\ pq = << >> /\ ready = << >>
       /\ last_event = [c \in Core |-> None] /\ held = [c \in Core |-> None]
       /\ loop = [c \in Core |-> "off"] /\ event = [e \in Event |-> Unmade]
  BY Zenon DEF Init, EventsInit
<1>14. /\ \A c \in Core : last_event[c] = None /\ held[c] = None /\ loop[c] = "off"
       /\ \A e \in Event : event[e] = Unmade
  BY Zenon, <1>13
<1>15. Unmade \in EventRec /\ Unmade.runs = 0 /\ Unmade.deletes = 0
  BY DEF Unmade, EventRec
<1>16. ~Unmade.made /\ ~Unmade.early /\ ~Unmade.returned
  BY DEF Unmade
<1>17. /\ pq \in Seq(Entry) /\ ready \in Seq(Event) /\ jiffies \in Nat
       /\ DOMAIN pq = {} /\ Range(ready) = {} /\ IsInjective(ready)
  BY <1>13, EmptyFacts
<1>18. \A e \in Event : ~Holds(e) /\ ~Queued(e)
  BY Zenon, <1>14, <1>17, EventsAssumption DEF Holds, Queued, Of
<1>19. EventTypes
  <2>1. "off" # "move"
    OBVIOUS
  <2> QED
    BY Zenon, <1>13, <1>14, <1>15, <1>17, <2>1 DEF EventTypes
<1>20. Once
  BY Zenon, <1>14, <1>17, <1>18, EventsAssumption DEF Once, Apart, Of
<1>21. Timely
  BY Zenon, <1>14, <1>16, <1>17, <1>18 DEF Timely, Sorted, NotEarly
<1>22. Ran
  BY Zenon, <1>14, <1>15, <1>16, <1>18 DEF Ran, Idle
<1>23. DeletedOnce
  <2>1. 0 >= 0 /\ 0 <= 0 + 0
    OBVIOUS
  <2> QED
    BY Zenon, <1>14, <1>15, <1>16, <2>1 DEF DeletedOnce
<1> QED
  BY Zenon, <1>8, <1>10, <1>11, <1>12, <1>19, <1>20, <1>21, <1>22, <1>23 DEF EventInv

(* From the boot sector on, whatever order the cores run in: where each     *)
(* core is, its stack and its directory, what mbr.S has loaded, and the     *)
(* events.                                                                  *)
THEOREM BootCorrect == Spec => [](StartInv /\ DirTypes /\ DirInv /\ Loading /\ EventInv)
<1> DEFINE Inv == StartInv /\ DirTypes /\ DirInv /\ Loading /\ EventInv
<1>1. Init => Inv
  BY Zenon, InitInv
<1>2. Inv /\ [Next]_vars => Inv'
  <2> SUFFICES ASSUME Inv, [Next]_vars PROVE Inv'
    BY Zenon
  <2>1. StartInv'
    BY Zenon, StartStep
  <2>2. DirTypes' /\ DirInv'
    BY Zenon, DirStep
  <2>3. Loading'
    BY Zenon, LoadingStep
  <2>4. EventInv'
    BY Zenon, EventStep
  <2> QED
    BY Zenon, <2>1, <2>2, <2>3, <2>4
<1> HIDE DEF Inv
<1>3. Spec => []Inv
  BY <1>1, <1>2, PTL DEF Spec
<1> QED
  BY <1>3, PTL DEF Inv

(* The cores keep apart what is theirs: no two are on tempStack together or *)
(* on the same stack of their own, interrupts come in on a core's own       *)
(* stack, and every directory in use is whole and one core's, unless two    *)
(* cores were in per_core_init together.                                    *)
THEOREM CoresApartHolds == Spec => []CoresApart
<1>1. ASSUME StartInv, DirInv PROVE CoresApart
  <2>1. ASSUME NEW c \in Core, NEW k \in Core, c # k, At(c, "reset"), At(k, "reset") PROVE FALSE
    <3>1. "reset" \in Later \ {"off"} /\ "reset" # "wait"
      BY DEF Later
    <3>2. \A x \in Core \ {0} : At(x, "reset") => x = g.id /\ core[0].pc = "wait"
      BY Zenon, <1>1, <3>1, NextCore DEF At
    <3>3. c # 0 /\ k # 0
      <4>1. \A x \in Core \ {0} : At(x, "reset") => ~At(0, "reset")
        BY Zenon, <3>1, <3>2 DEF At
      <4>2. CASE c = 0
        <5>1. k \in Core \ {0} /\ At(0, "reset")
          BY <2>1, <4>2
        <5> QED
          BY Zenon, <2>1, <4>1, <5>1
      <4>3. CASE k = 0
        <5>1. c \in Core \ {0} /\ At(0, "reset")
          BY <2>1, <4>3
        <5> QED
          BY Zenon, <2>1, <4>1, <5>1
      <4> QED
        BY Zenon, <4>2, <4>3
    <3> QED
      BY <2>1, <3>2, <3>3
  <2>2. ASSUME NEW c \in Core, NEW k \in Core, c # k, core[c].stack # None
        PROVE  core[c].stack # core[k].stack
    BY Zenon, <1>1, <2>2 DEF StartInv, OnStack
  <2>3. ASSUME NEW c \in Core, core[c].pc \in {"sti", "up"} PROVE core[c].esp0 = core[c].stack
    <3>1. core[c].pc \notin {"off", "mbr", "reset", "panic"}
      BY <2>3
    <3> QED
      BY Zenon, <1>1, <2>3, <3>1 DEF StartInv, OnStack
  <2>4. StacksApart
    BY Zenon, <2>1, <2>2, <2>3 DEF StacksApart
  <2>5. OwnDirectory
    BY Zenon, <1>1 DEF OwnDirectory, DirInv, Alike, Whole
  <2> QED
    BY Zenon, <2>4, <2>5 DEF CoresApart
<1> QED
  BY <1>1, BootCorrect, PTL

(* mbr.S: at the jump to the kernel every sector of the drive is behind the *)
(* one before it, whatever the size of a drive that ends below the wrap of  *)
(* the segments.                                                            *)
THEOREM SectorsPlacedHolds == Spec => []SectorsPlaced
<1>1. ASSUME Loading PROVE SectorsPlaced
  <2> SUFFICES ASSUME At(0, "mbr"), mbr.cx = 1, Base + mbr.n - 1 <= Seg,
                      NEW k \in 1 .. mbr.n - 1
               PROVE  mbr.at[Base + k - 1] = k
    BY Zenon DEF SectorsPlaced
  <2>1. mbr.n \in Nat
    BY Zenon, <1>1 DEF Loading
  <2>2. mbr.n > 0
    BY <2>1
  <2>3. mbr.bp \in 1 .. mbr.n /\ mbr.cx = (mbr.n - mbr.bp + 1) % Word
    BY Zenon, <1>1, <2>2 DEF Loading
  <2>4. mbr.bp = mbr.n
    BY Zenon, <2>1, <2>3, Counts
  <2> QED
    BY Zenon, <1>1, <2>2, <2>4 DEF Loading
<1> QED
  BY <1>1, BootCorrect, PTL

(* go and event_loop: no event starts before its delay is over, unless its  *)
(* time did not fit in jiffies, and when the head of the timer queue is not *)
(* due nothing in it is; whichever cores make, move and take the events.    *)
THEOREM OnTimeHolds == Spec => []OnTime
<1>1. ASSUME EventInv PROVE OnTime
  <2>1. pq \in Seq(Entry) /\ jiffies \in Nat /\ Sorted(pq)
    BY Zenon, <1>1 DEF EventInv, EventTypes, Timely
  <2>2. ASSUME pq # << >>, pq[1].at > jiffies, NEW k \in DOMAIN pq PROVE pq[k].at > jiffies
    <3>1. 1 \in DOMAIN pq /\ (k = 1 \/ 1 < k)
      BY <2>1, <2>2
    <3>2. pq[1] \in Entry /\ pq[k] \in Entry
      BY <2>1, <3>1
    <3>3. pq[1].at \in Nat /\ pq[k].at \in Nat
      BY <3>2 DEF Entry
    <3>4. k = 1 \/ pq[1].at <= pq[k].at
      BY Zenon, <2>1, <3>1 DEF Sorted
    <3> QED
      BY <2>1, <2>2, <3>3, <3>4
  <2>3. DueFirst
    BY Zenon, <2>2 DEF DueFirst
  <2> QED
    BY Zenon, <1>1, <2>3 DEF OnTime, EventInv, Timely
<1> QED
  BY <1>1, BootCorrect, PTL

(* event_loop: an event that ran is deleted by the core's next round, also  *)
(* when its doit never came back, and only once unless its doit returned.   *)
THEOREM DeletedOnceHolds == Spec => []DeletedOnce
<1>1. EventInv => DeletedOnce
  BY Zenon DEF EventInv
<1> QED
  BY <1>1, BootCorrect, PTL
==============================================================================
